---------------------------- MODULE PortRegistry ----------------------------
(***************************************************************************)
(* What a mux promises about the slots it hands out, however it decides:   *)
(* a ledger that survives the operator says who owns a slot, a table says  *)
(* who is served there.  The table only shows what the ledger has, neither *)
(* gives a slot twice, both are about members, and while the ledger can be *)
(* read no member is recorded where another one is served.                 *)
(***************************************************************************)
CONSTANTS
  Owners,  \* who may own a slot
  Entries  \* [owner, port, proto]: an owner with a slot

VARIABLES
  members,  \* the owners the registry takes to be there
  ledger,   \* the durable entries
  state,    \* of the ledger: "kept", "absent", "unreadable"
  table     \* the entries that are served

vars == <<members, ledger, state, table>>

SameSlot(e, f) == e.port = f.port /\ e.proto = f.proto

OneOwnerEach(S) == \A e, f \in S : SameSlot(e, f) => e = f
OfMembers(S) == \A e \in S : e.owner \in members
(* Another member is served where e would be recorded.                     *)
ServedToOther(e) ==
  \E f \in table : SameSlot(e, f) /\ f.owner # e.owner /\ f.owner \in members

Init ==
  /\ members = {} /\ table = {}
  /\ ledger \in SUBSET Entries /\ OneOwnerEach(ledger)
  /\ state \in {"kept", "absent"} /\ (state = "absent" => ledger = {})

(* The registry looks who is there, or forgets it.                         *)
Observe ==
  /\ members' \in SUBSET Owners
  /\ UNCHANGED <<ledger, state, table>>

Record ==
  /\ ledger' \in SUBSET Entries /\ OneOwnerEach(ledger') /\ OfMembers(ledger')
  /\ state # "unreadable" => \A e \in ledger' \ ledger : ~ServedToOther(e)
  /\ state' = "kept"
  /\ UNCHANGED <<members, table>>

Publish ==
  /\ table' \in SUBSET Entries /\ OneOwnerEach(table') /\ OfMembers(table')
  /\ state = "kept" => table' \subseteq ledger
  /\ members' = {}
  /\ UNCHANGED <<ledger, state>>

(* The ledger is deleted or overwritten by others, the table reset.        *)
LoseLedger ==
  /\ ledger' = {} /\ state' \in {"absent", "unreadable"}
  /\ UNCHANGED <<members, table>>

ResetTable ==
  /\ table' = {}
  /\ UNCHANGED <<members, ledger, state>>

Next == Observe \/ Record \/ Publish \/ LoseLedger \/ ResetTable

Spec == Init /\ [][Next]_vars
=============================================================================
