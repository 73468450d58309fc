---------------------------- MODULE ServicesPage ----------------------------
(***************************************************************************)
(* The page of the services tab, tabs/services/page.py: the category, the  *)
(* list of the services of the device in hand, and the panel of one of     *)
(* them with a field for each of its placeholders.  Everything is rewritten*)
(* by refresh_service_list, which the handlers of the module Target call   *)
(* whenever they change the device, and by signals of the widgets, which   *)
(* Qt delivers within the call that causes them.                           *)
(***************************************************************************)
EXTENDS Catalogue

VARIABLE tab
  \* built     the widgets exist
  \* pending   the refresh half a second after build is still to come
  \* category  cat_var
  \* offered   the items of the combobox
  \* services  state.services, as numbers of the registry
  \* current   current_svc, or NoService
  \* panel     the service that detail_frame shows and its button runs, or NoService
  \* fields    the service whose fields are in param_entries, or NoService

NoService == 0
NoTab == [built |-> FALSE, pending |-> FALSE, category |-> AllCategories, offered |-> {},
          services |-> <<>>, current |-> NoService, panel |-> NoService, fields |-> NoService]

(* build *)
NewTab == [NoTab EXCEPT !.built = TRUE, !.pending = TRUE, !.offered = {AllCategories}]

ClearDetailPanel(t) ==
  [t EXCEPT !.current = NoService, !.panel = NoService, !.fields = NoService]

(* Slip: the panel is not cleared before the next service is shown. *)
ShowServiceDetail_Over(t, n) ==
  [t EXCEPT !.panel = n, !.fields = IF ParseParams(n) > 0 THEN n ELSE @]

(* _show_service_detail: a frame for the service, fields only if it has       *)
(* placeholders.                                                              *)
ShowServiceDetail(t, n) ==
  [ClearDetailPanel(t) EXCEPT !.panel = n,
                              !.fields = IF ParseParams(n) > 0 THEN n ELSE NoService]

(* _on_service_select: a row of the list, or none.  It sets current_svc, and  *)
(* showing the service clears it again.                                       *)
OnServiceSelect(t, row) ==
  IF row \in DOMAIN t.services
  THEN ShowServiceDetail([t EXCEPT !.current = t.services[row]], t.services[row])
  ELSE ClearDetailPanel(t)

-----------------------------------------------------------------------------
(* What the page offers for a type, and lists for a type and a category: the  *)
(* configuration services, or, for a type that has none, all of them.         *)
Offered ==
  [type \in DeviceTypes |->
    {AllCategories} \cup
      IF TypeHasConfig(type) THEN GetCategoriesFor(type) \cap ConfigCategories
      ELSE GetCategoriesFor(type)]

Listed ==
  [type \in DeviceTypes |-> [category \in Offered[type] |->
    SelectSeq(GetServicesFor(type, category), LAMBDA n : TypeHasConfig(type) => ConfigMode(n))]]

(* cat_var survives if the device in hand has the category. *)
KeptCategory(t, type) == IF t.category \in Offered[type] THEN t.category ELSE AllCategories

(* refresh_service_list, for a device of this type.  The cleared list emits   *)
(* row -1, and the first row is chosen last.                                  *)
RefreshFor(t, type) ==
  LET category == KeptCategory(t, type)
      filled == [ClearDetailPanel(t) EXCEPT !.category = category,
                                            !.offered = Offered[type],
                                            !.services = Listed[type][category]]
  IN IF ~t.built THEN t ELSE OnServiceSelect(filled, 1)

(* The same without a device: cat_var is left as it was. *)
RefreshWithout(t) ==
  IF ~t.built THEN t
  ELSE [ClearDetailPanel(t) EXCEPT !.offered = {AllCategories}, !.services = <<>>]
=============================================================================
