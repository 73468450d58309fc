------------------------------ MODULE Catalogue ------------------------------
(***************************************************************************)
(* The catalogue of services: SERVICE_REGISTRY of services_data.py and the *)
(* functions of services/catalog.py that search it.  Services that agree   *)
(* in category, device types and number of placeholders stand for one; the *)
(* order of the registry is kept.  A service configures exactly if its     *)
(* category says so, and a label stands for one category.                  *)
(***************************************************************************)
EXTENDS Naturals, Sequences, SequencesExt

DeviceTypes == {"ROUTER", "SWITCH", "FIREWALL", "LOAD-BALANCER", "WAN-ACCEL", "AP"}
Router == {"ROUTER"}
Both == {"ROUTER", "SWITCH"}

Entry(types, category, holes) == [types |-> types, category |-> category, holes |-> holes]
Shows(types, categories) ==
  [i \in DOMAIN categories |-> Entry(types, categories[i], 0)]

(* holes: the number of <placeholders> in the description. *)
Configures(types, category, holes) ==
  [i \in DOMAIN holes |-> Entry(types, category, holes[i])]

RouterShows ==
  Shows(Router, <<"routing", "bgp", "ospf", "isis", "mpls", "interface", "vrf", "qos",
                  "acl", "nat", "security", "troubleshoot">>)

ConfigServices ==
     Configures(Router, "config-nat", <<2, 4, 2, 3>>)
  \o Configures(Router, "config-interface", <<1, 2, 1, 0>>)
  \o Configures(Router, "config-acl", <<1, 4>>)
  \o Configures(Router, "config-bgp", <<1, 2>>)
  \o Configures(Router, "config-ospf", <<1, 3>>)
  \o Configures(Both, "config-vlan", <<2, 1>>)
  \o Configures(Both, "config-interface", <<1>>)
  \o Configures(Both, "config-route", <<3>>)
  \o Configures(Both, "config-interface", <<0>>)
  \o Configures(Both, "config-acl", <<2>>)
  \o Configures(Both, "config-qos", <<1, 2>>)

OtherShows ==
     Shows({"SWITCH"}, <<"vlan", "stp", "lacp", "mac", "lldp", "poe", "igmp", "dhcp",
                         "interface", "security", "system", "troubleshoot">>)
  \o Shows({"FIREWALL"}, <<"policy", "nat", "vpn", "ips", "antivirus", "url-filter", "zone",
                           "ha", "system", "troubleshoot">>)
  \o Shows({"LOAD-BALANCER"}, <<"slb", "health", "statistics">>)
  \o Shows({"WAN-ACCEL"}, <<"optimization", "statistics", "system">>)
  \o Shows({"AP"}, <<"wireless", "client", "radio", "system">>)
  \o Shows(DeviceTypes, <<"system">>)
  \o Shows({"ROUTER", "SWITCH", "WAN-ACCEL", "AP"}, <<"system">>)
  \o Shows(Both, <<"system">>)
  \o Shows(DeviceTypes, <<"troubleshoot">>)
  \o Shows(Both \cup {"FIREWALL"}, <<"system">>)

SERVICE_REGISTRY == RouterShows \o ConfigServices \o OtherShows

ServiceNumbers == DOMAIN SERVICE_REGISTRY

AllCategories == "Todas as Categorias"
ConfigCategories == {"config-nat", "config-interface", "config-acl", "config-bgp", "config-ospf",
                     "config-vlan", "config-route", "config-qos"}
ConfigMode(n) == SERVICE_REGISTRY[n].category \in ConfigCategories

(* get_services_for and get_categories_for, in the order of the registry. *)
GetServicesFor(type, category) ==
  SelectSeq([n \in ServiceNumbers |-> n],
            LAMBDA n : /\ type \in SERVICE_REGISTRY[n].types
                       /\ category \in {AllCategories, SERVICE_REGISTRY[n].category})

GetCategoriesFor(type) ==
  {SERVICE_REGISTRY[n].category : n \in ToSet(GetServicesFor(type, AllCategories))}

TypeHasConfig(type) ==
  \E n \in ToSet(GetServicesFor(type, AllCategories)) : ConfigMode(n)

(* parse_params: how many fields a service asks for. *)
ParseParams(n) == IF ConfigMode(n) THEN SERVICE_REGISTRY[n].holes ELSE 0
=============================================================================
