------------------------- MODULE SharedStore_proofs -------------------------
(***************************************************************************)
(* Theorems of SharedStore.  NoForeignClaims rests on the checks of load() *)
(* and on the fact that a state names the mux that wrote it.  For the      *)
(* replacement of states, OthersSavedSince follows what happened to the    *)
(* ConfigMap while a pass held on to what it had read.                     *)
(***************************************************************************)
EXTENDS SharedStore, TLAPS

(* The state in the ConfigMap names the mux whose claims it holds; what a  *)
(* mux has loaded passed its checks; a pass that may save finds no other   *)
(* mux in the ConfigMap but one that saved since.                          *)
StateNamesItsAuthor == cm # NoConfigMap => cm.mux = cm.author
LoadedIsValid ==
  \A m \in Muxes : loaded[m] # NoConfigMap =>
     Valid(m, loaded[m]) /\ loaded[m].mux = loaded[m].author
OthersSavedSince ==
  \A n \in Muxes : pc[n] = "pass" /\ cm # NoConfigMap =>
     {cm.owner, cm.mux} \subseteq written[n] \cup {n, NoMux}

StoreInv == TypeOK /\ StateNamesItsAuthor /\ LoadedIsValid /\ OthersSavedSince

-----------------------------------------------------------------------------
(* What a save writes is a ConfigMap of its mux, and every mux learns.     *)
LEMMA SaveInv ==
  ASSUME StoreInv, NEW m \in Muxes, Save(m), loaded' = loaded, events' = events,
         exists' \in [Muxes -> BOOLEAN],
         \A n \in Muxes \ {m} : exists'[n] = exists[n]
  PROVE  StoreInv'
<1> USE StoreAssumption DEF StoreInv
<1>1. cm' = [owner |-> m, mux |-> m, author |-> m] /\ cm' \in ConfigMaps
  BY DEF Save, StateOf, ConfigMaps
<1>2. TypeOK'
  BY <1>1 DEF Save, Goto, TypeOK
<1>3. OthersSavedSince'
  BY <1>1 DEF Save, Goto, OthersSavedSince, TypeOK
<1> QED
  BY <1>1, <1>2, <1>3 DEF StateNamesItsAuthor, LoadedIsValid, Valid

LEMMA InitInv == Init => StoreInv
<1> SUFFICES ASSUME Init PROVE StoreInv
  OBVIOUS
<1>1. TypeOK
  BY StoreAssumption DEF Init, TypeOK, ConfigMaps
<1>2. StateNamesItsAuthor /\ LoadedIsValid /\ OthersSavedSince
  BY StoreAssumption DEF Init, StateNamesItsAuthor, LoadedIsValid, OthersSavedSince
<1> QED
  BY <1>1, <1>2 DEF StoreInv

(* The steps of load().                                                    *)
LEMMA LoadInv ==
  ASSUME StoreInv, NEW m \in Muxes,
         CheckExists(m) \/ RefreshState(m) \/ RejectState(m) \/ RefreshFails(m)
  PROVE  StoreInv'
<1> USE DEF StoreInv
<1>1. CASE CheckExists(m)
  <2>1. TypeOK'
    BY <1>1 DEF CheckExists, Goto, TypeOK
  <2>2. LoadedIsValid'
    BY <1>1 DEF CheckExists, LoadedIsValid, TypeOK, Valid
  <2>3. OthersSavedSince'
    BY <1>1 DEF CheckExists, Goto, OthersSavedSince, TypeOK
  <2> QED
    BY <1>1, <2>1, <2>2, <2>3 DEF CheckExists, StateNamesItsAuthor
<1>2. CASE RefreshState(m)
  <2>1. TypeOK'
    BY <1>2 DEF RefreshState, Goto, TypeOK
  <2>2. LoadedIsValid'
    BY <1>2 DEF RefreshState, LoadedIsValid, StateNamesItsAuthor, TypeOK, Valid
  <2>3. OthersSavedSince'
    BY <1>2 DEF RefreshState, Goto, OthersSavedSince, TypeOK, Valid
  <2> QED
    BY <1>2, <2>1, <2>2, <2>3 DEF RefreshState, StateNamesItsAuthor
<1>3. CASE RejectState(m) \/ RefreshFails(m)
  <2>1. TypeOK'
    BY <1>3 DEF RejectState, RefreshFails, Goto, TypeOK
  <2>2. OthersSavedSince'
    BY <1>3 DEF RejectState, RefreshFails, Goto, OthersSavedSince, TypeOK
  <2> QED
    BY <1>3, <2>1, <2>2
       DEF RejectState, RefreshFails, StateNamesItsAuthor, LoadedIsValid, Valid
<1> QED
  BY <1>1, <1>2, <1>3

(* The steps that end a pass.                                              *)
LEMMA DaemonInv ==
  ASSUME StoreInv, NEW m \in Muxes, Daemon(m)
  PROVE  StoreInv'
<1>1. CASE PatchState(m)
  BY <1>1, SaveInv DEF PatchState, StoreInv, TypeOK
<1>2. CASE CreateState(m)
  BY <1>2, SaveInv DEF CreateState, StoreInv, TypeOK
<1>3. CASE SaveFails(m) \/ EndPass(m)
  <2> USE DEF StoreInv
  <2>1. TypeOK'
    BY <1>3 DEF SaveFails, EndPass, Goto, TypeOK
  <2>2. OthersSavedSince'
    BY <1>3 DEF SaveFails, EndPass, Goto, OthersSavedSince, TypeOK
  <2> QED
    BY <1>3, <2>1, <2>2 DEF SaveFails, EndPass, StateNamesItsAuthor, LoadedIsValid, Valid
<1> QED
  BY <1>1, <1>2, <1>3, LoadInv DEF Daemon

(* Users clear fields of the ConfigMap, or delete it.                      *)
LEMMA EditInv ==
  ASSUME StoreInv, UNCHANGED <<pc, exists, loaded, written>>, events' \in 0..MaxEvents,
         cm' \in ConfigMaps \cup {NoConfigMap},
         cm' # NoConfigMap => /\ cm # NoConfigMap
                              /\ cm'.owner \in {cm.owner, NoMux} /\ cm'.mux \in {cm.mux, NoMux}
                              /\ cm'.mux = cm'.author
  PROVE  StoreInv'
BY DEF StoreInv, TypeOK, StateNamesItsAuthor, LoadedIsValid, OthersSavedSince, Valid

LEMMA EventInv ==
  ASSUME StoreInv,
         DeleteConfigMap \/ ClearOwner \/ ClearState \/ \E m \in Muxes : AbortPass(m)
  PROVE  StoreInv'
<1>1. TypeOK /\ StateNamesItsAuthor
  BY DEF StoreInv
<1>2. ASSUME Event PROVE events' \in 0..MaxEvents
  BY <1>1, <1>2, StoreAssumption DEF Event, TypeOK
<1>3. CASE DeleteConfigMap
  BY <1>3, <1>2, EditInv DEF DeleteConfigMap
<1>4. CASE ClearOwner
  <2>1. PICK x, y, z \in Muxes \cup {NoMux} : cm = [owner |-> x, mux |-> y, author |-> z]
    BY <1>1, <1>4 DEF ClearOwner, TypeOK, ConfigMaps
  <2>2. cm' = [owner |-> NoMux, mux |-> y, author |-> z] /\ cm' \in ConfigMaps
    BY <1>4, <2>1 DEF ClearOwner, ConfigMaps
  <2> QED
    BY <1>1, <1>2, <1>4, <2>1, <2>2, EditInv DEF ClearOwner, StateNamesItsAuthor
<1>5. CASE ClearState
  <2>1. PICK x, y, z \in Muxes \cup {NoMux} : cm = [owner |-> x, mux |-> y, author |-> z]
    BY <1>1, <1>5 DEF ClearState, TypeOK, ConfigMaps
  <2>2. cm' = [owner |-> x, mux |-> NoMux, author |-> NoMux] /\ cm' \in ConfigMaps
    BY <1>5, <2>1 DEF ClearState, ConfigMaps
  <2> QED
    BY <1>2, <1>5, <2>1, <2>2, EditInv DEF ClearState
<1>6. ASSUME NEW m \in Muxes, AbortPass(m) PROVE StoreInv'
  BY <1>2, <1>6 DEF AbortPass, Goto, StoreInv, TypeOK, StateNamesItsAuthor, LoadedIsValid,
                    OthersSavedSince, Valid
<1> QED
  BY <1>3, <1>4, <1>5, <1>6

LEMMA NextInv == StoreInv /\ [Next]_vars => StoreInv'
<1> SUFFICES ASSUME StoreInv, [Next]_vars PROVE StoreInv'
  OBVIOUS
<1>1. CASE Next
  BY <1>1, DaemonInv, EventInv DEF Next
<1>2. CASE UNCHANGED vars
  BY <1>2 DEF vars, StoreInv, TypeOK, StateNamesItsAuthor, LoadedIsValid, OthersSavedSince, Valid
<1> QED
  BY <1>1, <1>2

LEMMA StoreInvariant == Spec => []StoreInv
  BY InitInv, NextInv, PTL DEF Spec

-----------------------------------------------------------------------------
(* Every variable keeps its type, and a pass that goes on with a ConfigMap *)
(* has read it (load() in port_allocations.py).                            *)
THEOREM StoreTyped == Spec => []TypeOK
<1>1. StoreInv => TypeOK
  BY DEF StoreInv
<1> QED
  BY StoreInvariant, <1>1, PTL

(* No pass works with the claims of another mux, for any number of muxes   *)
(* that share the ConfigMap (_validate_state_owner).                       *)
THEOREM ClaimsAreOwn == Spec => []NoForeignClaims
<1>1. StoreInv => NoForeignClaims
  BY DEF StoreInv, LoadedIsValid, NoForeignClaims, Valid
<1> QED
  BY StoreInvariant, <1>1, PTL

(* A mux replaces the state of another only if that one has saved since    *)
(* its own load(): between the two there is no other way past the checks   *)
(* of the owner (_validate_configmap_owner, _validate_state_owner, save).  *)
THEOREM StatesAreReplacedInRacesOnly == Spec => OnlyRacedStateIsLost
<1> DEFINE Replaced ==
      \A m, n \in Muxes :
        /\ m # n /\ cm # NoConfigMap /\ m \in {cm.owner, cm.mux}
        /\ cm' = StateOf(n)
        => m \in written[n]
<1>1. ASSUME StoreInv, [Next]_vars PROVE [Replaced]_cm
  <2> SUFFICES ASSUME NEW m \in Muxes, NEW n \in Muxes, m # n, cm # NoConfigMap,
                      m \in {cm.owner, cm.mux}, cm' = StateOf(n), cm' # cm
               PROVE  m \in written[n]
    OBVIOUS
  <2> USE StoreAssumption
  <2>1. cm'.owner = n /\ cm'.mux = n /\ cm' # NoConfigMap
    BY DEF StateOf, ConfigMaps
  <2>2. ~ClearOwner
    <3>1. cm \in ConfigMaps
      BY <1>1 DEF StoreInv, TypeOK
    <3>2. ASSUME ClearOwner PROVE cm'.owner = NoMux
      BY <3>1, <3>2 DEF ClearOwner, ConfigMaps
    <3> QED
      BY <2>1, <3>2
  <2>3. ~ClearState
    <3>1. cm \in ConfigMaps
      BY <1>1 DEF StoreInv, TypeOK
    <3>2. ASSUME ClearState PROVE cm'.mux = NoMux
      BY <3>1, <3>2 DEF ClearState, ConfigMaps
    <3> QED
      BY <2>1, <3>2
  <2>4. PICK o \in Muxes : PatchState(o)
    BY <1>1, <2>1, <2>2, <2>3 DEF Next, vars, Daemon, CheckExists, RefreshState, RejectState,
          RefreshFails, CreateState, SaveFails, EndPass, AbortPass, DeleteConfigMap
  <2>5. o = n /\ pc[n] = "pass"
    BY <2>1, <2>4 DEF PatchState, Save, StateOf
  <2> QED
    BY <1>1, <2>5 DEF StoreInv, OthersSavedSince
<1>2. StoreInv /\ [Next]_vars => [Replaced]_cm
  BY <1>1
<1> QED
  BY StoreInvariant, <1>2, PTL DEF Spec, OnlyRacedStateIsLost
=============================================================================
