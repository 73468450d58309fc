----------------------------- MODULE AuditTrail -----------------------------
(***************************************************************************)
(* What the audit log promises, without locks, threads or crashes: a trail *)
(* that only ever grows at its end, by one new entry at a time, every      *)
(* entry carrying the hash of the entry before it.                         *)
(***************************************************************************)
EXTENDS Naturals, Sequences

CONSTANT Ids     \* serial numbers of the entries

VARIABLE trail   \* the entries a reader of the JSONL file sees, in file order

(***************************************************************************)
(* SHA-256 is taken to be collision free, so the hash of an entry is       *)
(* modelled by its serial number; 0 stands for the empty previous_hash.    *)
(***************************************************************************)
LastHash(entries) ==
  IF entries = <<>> THEN 0 ELSE entries[Len(entries)].id

Init == trail = <<>>

Extend(id) ==
  /\ \A i \in DOMAIN trail : trail[i].id # id
  /\ trail' = Append(trail, [whole |-> TRUE, id |-> id, prev |-> LastHash(trail)])

Next == \E id \in Ids : Extend(id)

Spec == Init /\ [][Next]_trail
=============================================================================
