---------------------------- MODULE SharedStore ----------------------------
(***************************************************************************)
(* One state ConfigMap that several muxes are configured with: the daemons *)
(* of these muxes check that it exists, read and validate it, and in the   *)
(* end of their passes create or patch it.  Users delete it, or repair it  *)
(* by hand.  Module MuxReconcile has what the claims in it mean.           *)
(***************************************************************************)
EXTENDS Naturals

CONSTANTS
  Muxes,
  NoMux,       \* no owner annotation, no mux in the state
  NoConfigMap, \* there is none
  MaxEvents    \* bound: edits by users and faults

(* owner: the annotation; mux: the field of the state; author: the mux     *)
(* whose claims the state holds.                                           *)
ConfigMaps == [owner: Muxes \cup {NoMux}, mux: Muxes \cup {NoMux}, author: Muxes \cup {NoMux}]

ASSUME StoreAssumption ==
  /\ NoMux \notin Muxes /\ NoConfigMap \notin ConfigMaps
  /\ MaxEvents \in Nat

VARIABLES
  cm,      \* cluster: the ConfigMap
  pc,      \* daemons: where they are in a pass
  exists,  \* daemons: store.exists
  loaded,  \* daemons: the ConfigMap as of load()
  written, \* history: muxes that saved since a mux read the ConfigMap
  events   \* bounded number of edits and faults

vars == <<cm, pc, exists, loaded, written, events>>

Init ==
  /\ cm \in {NoConfigMap, [owner |-> NoMux, mux |-> NoMux, author |-> NoMux]}
  /\ pc = [m \in Muxes |-> "idle"]
  /\ exists = [m \in Muxes |-> FALSE]
  /\ loaded = [m \in Muxes |-> NoConfigMap]
  /\ written = [m \in Muxes |-> {}]
  /\ events = 0

Goto(m, l) == pc' = [pc EXCEPT ![m] = l]

-----------------------------------------------------------------------------
(* ConfigMapAllocationStore.load.                                          *)

(* Mutant: what is there is not read and not validated.                    *)
CheckOnly(m) ==
  /\ pc[m] = "idle"
  /\ exists' = [exists EXCEPT ![m] = cm # NoConfigMap]
  /\ loaded' = [loaded EXCEPT ![m] = NoConfigMap]
  /\ written' = [written EXCEPT ![m] = {}]
  /\ Goto(m, "pass")
  /\ UNCHANGED <<cm, events>>

CheckExists(m) ==
  /\ pc[m] = "idle"
  /\ exists' = [exists EXCEPT ![m] = cm # NoConfigMap]
  /\ loaded' = [loaded EXCEPT ![m] = NoConfigMap]
  /\ written' = [written EXCEPT ![m] = {}]
  /\ Goto(m, IF cm # NoConfigMap THEN "refresh" ELSE "pass")
  /\ UNCHANGED <<cm, events>>

(* Mutants: one of the two checks is missing, or both.                     *)
ValidOwner(m, c) == c.owner \in {m, NoMux}
ValidState(m, c) == c.mux \in {m, NoMux}
Anything(m, c) == c = c

Valid(m, c) == c.owner \in {m, NoMux} /\ c.mux \in {m, NoMux}

RefreshState(m) ==
  /\ pc[m] = "refresh" /\ cm # NoConfigMap /\ Valid(m, cm)
  /\ loaded' = [loaded EXCEPT ![m] = cm]
  /\ written' = [written EXCEPT ![m] = {}]
  /\ Goto(m, "pass")
  /\ UNCHANGED <<cm, exists, events>>

(* The pass goes on without state; it saves nothing.                       *)
RejectState(m) ==
  /\ pc[m] = "refresh" /\ cm # NoConfigMap /\ ~Valid(m, cm)
  /\ Goto(m, "stateless")
  /\ UNCHANGED <<cm, exists, loaded, written, events>>

(* The ConfigMap is gone since the check: the daemon starts again.         *)
RefreshFails(m) ==
  /\ pc[m] = "refresh" /\ cm = NoConfigMap
  /\ Goto(m, "idle")
  /\ UNCHANGED <<cm, exists, loaded, written, events>>

-----------------------------------------------------------------------------
(* ConfigMapAllocationStore.save, if claims changed or there was no        *)
(* ConfigMap.                                                              *)

StateOf(m) == [owner |-> m, mux |-> m, author |-> m]

Save(m) ==
  /\ cm' = StateOf(m)
  /\ written' = [n \in Muxes |-> written[n] \cup {m}]
  /\ Goto(m, "idle")

PatchState(m) ==
  /\ pc[m] = "pass" /\ exists[m] /\ cm # NoConfigMap
  /\ Save(m)
  /\ UNCHANGED <<exists, loaded, events>>

CreateState(m) ==
  /\ pc[m] = "pass" /\ ~exists[m] /\ cm = NoConfigMap
  /\ Save(m)
  /\ exists' = [exists EXCEPT ![m] = TRUE]
  /\ UNCHANGED <<loaded, events>>

(* It has come or gone since: the API server refuses, the daemon starts    *)
(* again.                                                                  *)
SaveFails(m) ==
  /\ pc[m] = "pass" /\ exists[m] # (cm # NoConfigMap)
  /\ Goto(m, "idle")
  /\ UNCHANGED <<cm, exists, loaded, written, events>>

EndPass(m) ==
  /\ pc[m] = "stateless" \/ (pc[m] = "pass" /\ exists[m])
  /\ Goto(m, "idle")
  /\ UNCHANGED <<cm, exists, loaded, written, events>>

Daemon(m) ==
  \/ CheckExists(m) \/ RefreshState(m) \/ RejectState(m) \/ RefreshFails(m)
  \/ PatchState(m) \/ CreateState(m) \/ SaveFails(m) \/ EndPass(m)

-----------------------------------------------------------------------------
Event == events < MaxEvents /\ events' = events + 1

DeleteConfigMap ==
  /\ Event /\ cm # NoConfigMap
  /\ cm' = NoConfigMap
  /\ UNCHANGED <<pc, exists, loaded, written>>

(* A user removes the owner annotation.                                    *)
ClearOwner ==
  /\ Event /\ cm # NoConfigMap
  /\ cm' = [cm EXCEPT !.owner = NoMux]
  /\ UNCHANGED <<pc, exists, loaded, written>>

(* A user empties the data.                                                *)
ClearState ==
  /\ Event /\ cm # NoConfigMap
  /\ cm' = [cm EXCEPT !.mux = NoMux, !.author = NoMux]
  /\ UNCHANGED <<pc, exists, loaded, written>>

AbortPass(m) ==
  /\ Event /\ pc[m] # "idle"
  /\ Goto(m, "idle")
  /\ UNCHANGED <<cm, exists, loaded, written>>

Next ==
  \/ \E m \in Muxes : Daemon(m) \/ AbortPass(m)
  \/ DeleteConfigMap \/ ClearOwner \/ ClearState

Spec == Init /\ [][Next]_vars

(* Passes follow each other.                                               *)
FairSpec == Spec /\ \A m \in Muxes : WF_vars(Daemon(m))

-----------------------------------------------------------------------------
(* A pass that goes on with a ConfigMap has read it.                       *)
TypeOK ==
  /\ cm \in ConfigMaps \cup {NoConfigMap}
  /\ pc \in [Muxes -> {"idle", "refresh", "pass", "stateless"}]
  /\ exists \in [Muxes -> BOOLEAN]
  /\ loaded \in [Muxes -> ConfigMaps \cup {NoConfigMap}]
  /\ written \in [Muxes -> SUBSET Muxes]
  /\ \A m \in Muxes : pc[m] = "pass" /\ exists[m] => loaded[m] # NoConfigMap
  /\ events \in 0..MaxEvents

(* A pass never assigns ports by the claims of another mux, whatever users *)
(* have cleared and whoever overwrote the ConfigMap meanwhile.             *)
NoForeignClaims ==
  \A m \in Muxes : loaded[m] # NoConfigMap => loaded[m].author \in {m, NoMux}

(* A mux replaces the state of another, told by the annotation or by the   *)
(* state itself, only in a race: the other one has saved since this one    *)
(* read the ConfigMap or found none.  Whatever users clear, a state that   *)
(* was there before is safe.                                               *)
OnlyRacedStateIsLost ==
  [][\A m, n \in Muxes :
       /\ m # n /\ cm # NoConfigMap /\ m \in {cm.owner, cm.mux}
       /\ cm' = StateOf(n)
       => m \in written[n]]_cm

(* Two muxes are between load and save at once.                            *)
Overlap == \E m, n \in Muxes : m # n /\ pc[m] = "pass" /\ pc[n] = "pass"

(* Unless their passes go on overlapping, the ConfigMap stops changing     *)
(* hands in the end: one of the muxes keeps it, or no one claims it,       *)
(* however they raced before.  (If they do overlap, the muxes may          *)
(* overwrite each other for ever: each save replaces a state that was      *)
(* read as its own.)                                                       *)
OneMuxKeepsTheState == <>[]~Overlap => \E c \in ConfigMaps : <>[](cm = c)
=============================================================================
