------------------------- MODULE PortRegistry_proofs -------------------------
(***************************************************************************)
(* The daemon of MuxReconcile implements PortRegistry: a refinement, from  *)
(* the invariants of MuxReconcile_proofs and one more about what a pass    *)
(* knows of the ledger and the table when it records.                      *)
(***************************************************************************)
EXTENDS MuxReconcile_proofs

Readable(status) == status \in {"ok", "legacy"}

(* What the pass started from for key k.                                   *)
Loaded(k) == IF store = "exists" THEN cm.claims[k] ELSE NoPort

ClaimsOfDeclared ==
  pc = "channels" => \A k \in Keys : claims[k] # NoPort => KeyOwner(k) \in Declared(snap)

PortsOfDeclared == \A p \in ports : p.owner \in Declared(snap)

MuxAsRead == pc # "idle" => muxPorts \subseteq oldPorts

LostIsEmpty == ~Readable(cm.status) => cm.claims = NoClaims

(* A claim is the loaded one, or on a slot the mux serves for nobody else. *)
NewSpared ==
  pc = "channels" /\ (store = "exists" => Readable(cm.status)) =>
    \A k \in Keys : \/ claims[k] \in {NoPort, Loaded(k)}
                    \/ LivePortOwners(snap, oldPorts, KeySlot(k, claims[k])) \subseteq {KeyOwner(k)}

(* A state of an old release is written anew before the mux is.            *)
LegacyIsSaved ==
  /\ pc = "publish" => cm.status # "legacy"
  /\ pc = "channels" /\ cm.status = "legacy" => store = "exists" /\ changed

RegistryInv ==
  /\ ClaimsOfDeclared /\ PortsOfDeclared /\ MuxAsRead /\ LostIsEmpty /\ NewSpared
  /\ LegacyIsSaved

PassInv == TypeInv /\ OwnerInv /\ ClaimsInv /\ WriteInv /\ LiveInv

LEMMA ActiveIsDeclared ==
  ASSUME NEW cl, NEW sn, NEW k \in Keys, PruneInactive(cl, sn)[k] # NoPort
  PROVE  KeyOwner(k) \in Declared(sn) /\ PruneInactive(cl, sn)[k] = cl[k]
BY DEF PruneInactive, ActiveKeys

LEMMA LoadRegistry == TypeInv /\ RegistryInv /\ OwnerInv /\ Load => RegistryInv'
<1> SUFFICES ASSUME TypeInv, RegistryInv, OwnerInv, Load PROVE RegistryInv'
  OBVIOUS
<1> DEFINE loaded == IF Readable(cm.status) THEN cm.claims ELSE NoClaims
<1>1. /\ claims' = PruneInactive(loaded, index) /\ snap' = index /\ pc = "load"
      /\ UNCHANGED <<muxPorts, cm, oldPorts, ports>> /\ pc' = "channels"
      /\ (store' = "exists" <=> Readable(cm.status))
      /\ (cm.status = "legacy" => changed')
  BY DEF Load, api, Readable, TypeInv, TypeOK, StoreStates
<1>2. ports = {}
  BY <1>1 DEF OwnerInv, OwnersAgree
<1>3. ASSUME NEW k \in Keys
      PROVE  /\ claims'[k] # NoPort => KeyOwner(k) \in Declared(snap')
             /\ claims'[k] \in {NoPort, Loaded(k)'}
  <2>1. claims'[k] # NoPort => KeyOwner(k) \in Declared(snap') /\ claims'[k] = loaded[k]
    BY <1>1, ActiveIsDeclared
  <2>2. loaded[k] \in {NoPort, Loaded(k)'}
    BY <1>1 DEF Loaded, NoClaims
  <2> QED BY <2>1, <2>2
<1> QED BY <1>1, <1>2, <1>3
        DEF RegistryInv, ClaimsOfDeclared, PortsOfDeclared, MuxAsRead, LostIsEmpty, NewSpared,
            LegacyIsSaved, Readable

(* The steps of the loop that record claims.                               *)
LEMMA ClaimRegistry ==
  PassInv /\ RegistryInv /\ (ResolveAutoPort \/ AcceptChannel) => RegistryInv'
<1> SUFFICES ASSUME PassInv, RegistryInv, ResolveAutoPort \/ AcceptChannel PROVE RegistryInv'
  OBVIOUS
<1> USE DEF PassInv, pass, loop, api
<1>1. /\ UNCHANGED <<muxPorts, cm, oldPorts, snap, store, pc>> /\ pc = "channels"
      /\ cur \in Channels /\ snap[cur] # NoChannel /\ claims \in Claims
  BY DEF ResolveAutoPort, AcceptChannel, Resolved, TypeInv, TypeOK, LoopOK
<1>2. ASSUME NEW k \in Keys, claims'[k] \notin {claims[k], NoPort}
      PROVE  /\ KeyOwner(k) \in Declared(snap)
             /\ LivePortOwners(snap, oldPorts, KeySlot(k, claims'[k])) \subseteq {KeyOwner(k)}
  <2>1. Next
    BY DEF Next, Daemon
  <2>2. LivePortOwners(snap, oldPorts, KeySlot(k, claims'[k])) \subseteq {KeyOwner(k)}
    BY <1>1, <1>2, <2>1, StepSparesLive
  <2>3. k[1] = cur /\ k[2] \in DOMAIN snap[cur].spec.ports
    <3>1. CASE ResolveAutoPort
      <4>1. claims' = [claims EXCEPT ![NextKey] = NextAllocation]
        BY <3>1 DEF ResolveAutoPort
      <4>2. k = NextKey
        BY <1>1, <1>2, <4>1 DEF Claims
      <4> QED BY <1>1, <3>1, <4>2, NextKeyType, ReconcileAssumption DEF ResolveAutoPort
    <3>2. CASE AcceptChannel
      BY <1>2, <3>2, AcceptedClaims
    <3> QED BY <3>1, <3>2
  <2> QED BY <1>1, <2>2, <2>3 DEF Declared, KeyOwner, Owners, Keys
<1>3. ASSUME NEW p \in ports' PROVE p.owner \in Declared(snap)
  <2>1. CASE p \in ports
    BY <2>1 DEF RegistryInv, PortsOfDeclared
  <2>2. CASE p \notin ports
    <3>1. p \in CurPorts /\ Resolved
      BY <2>2 DEF ResolveAutoPort, AcceptChannel
    <3>2. p.owner \in Owners /\ p.owner[1] = cur /\ p.owner[2] \in DOMAIN snap[cur].spec.ports
      BY <3>1, ResolvedType DEF MuxPorts
    <3> QED BY <1>1, <3>2 DEF Declared
  <2> QED BY <2>1, <2>2
<1>4. LegacyIsSaved'
  BY <1>1 DEF ResolveAutoPort, AcceptChannel, RegistryInv, LegacyIsSaved
<1>5. ClaimsOfDeclared' /\ NewSpared'
  BY <1>1, <1>2 DEF RegistryInv, ClaimsOfDeclared, NewSpared, Loaded
<1> QED BY <1>1, <1>3, <1>4, <1>5 DEF RegistryInv, PortsOfDeclared, MuxAsRead, LostIsEmpty

LEMMA NextRegistry == PassInv /\ RegistryInv /\ [Next]_vars => RegistryInv'
<1> SUFFICES ASSUME PassInv, RegistryInv, [Next]_vars PROVE RegistryInv'
  OBVIOUS
<1> USE DEF PassInv, api, pass, loop
<1>1. CASE Load
  BY <1>1, LoadRegistry
<1>2. CASE ResolveAutoPort \/ AcceptChannel
  BY <1>2, ClaimRegistry
<1>3. CASE Refresh
  BY <1>3 DEF Refresh, OwnerInv, OwnersAgree, RegistryInv, ClaimsOfDeclared, PortsOfDeclared,
     MuxAsRead, LostIsEmpty, NewSpared, LegacyIsSaved
<1>4. CASE ChannelGone \/ SaveFails \/ AbortPass \/ PublishMux
  <2>1. EndPass /\ cm' = cm
    BY <1>4 DEF ChannelGone, SaveFails, AbortPass, PublishMux
  <2> QED BY <2>1 DEF EndPass, RegistryInv, ClaimsOfDeclared, PortsOfDeclared, MuxAsRead,
          LostIsEmpty, NewSpared, LegacyIsSaved
<1>5. CASE SaveStore \/ SkipSave
  <2>1. /\ pc' = "publish" /\ pc # "idle" /\ UNCHANGED <<muxPorts, oldPorts, ports, snap>>
        /\ \/ cm' = cm /\ cm.status # "legacy"
           \/ cm'.status = "ok"
    BY <1>5 DEF SaveStore, SkipSave, AllChannelsDone, NeedsSave, RegistryInv, LegacyIsSaved
  <2> QED BY <2>1 DEF RegistryInv, ClaimsOfDeclared, PortsOfDeclared, MuxAsRead, LostIsEmpty,
          NewSpared, LegacyIsSaved, Readable
<1>6. CASE CorruptStore \/ DeleteStore
  <2>1. /\ cm'.status \in {"corrupt", "absent"} /\ cm'.claims = NoClaims
        /\ UNCHANGED <<pc, pass, muxPorts>>
    BY <1>6 DEF CorruptStore, DeleteStore, NoStore
  <2> QED BY <2>1 DEF RegistryInv, ClaimsOfDeclared, PortsOfDeclared, MuxAsRead, LostIsEmpty,
          NewSpared, LegacyIsSaved, Readable, Loaded
<1>7. CASE ResetMuxPorts
  BY <1>7 DEF ResetMuxPorts, RegistryInv, ClaimsOfDeclared, PortsOfDeclared, MuxAsRead,
     LostIsEmpty, NewSpared, LegacyIsSaved, Loaded
<1>8. CASE \/ SkipChannel \/ BeginChannel \/ ResolveStaticPort
           \/ AutoPortUnavailable \/ RejectConflict
           \/ \E c \in Channels :
                IndexSync(c) \/ CreateChannel(c) \/ UpdateChannel(c) \/ DeleteChannel(c)
           \/ ChangeSettings \/ UNCHANGED vars
  <2>1. UNCHANGED <<pc, pass, muxPorts, cm>>
    BY <1>8 DEF SkipChannel, BeginChannel, ResolveStaticPort, AutoPortUnavailable,
       RejectConflict, IndexSync, CreateChannel, UpdateChannel, DeleteChannel, ChangeSettings,
       vars
  <2> QED BY <2>1 DEF RegistryInv, ClaimsOfDeclared, PortsOfDeclared, MuxAsRead, LostIsEmpty,
          NewSpared, LegacyIsSaved, Loaded
<1> QED BY <1>1, <1>2, <1>3, <1>4, <1>5, <1>6, <1>7, <1>8 DEF Next, Daemon, Environment

LEMMA InitPass == Init => PassInv /\ RegistryInv
<1>1. Init => Disjoint(cm.claims)
  BY ReconcileAssumption, DisjointBasics DEF Init, NoStore
<1>2. Init => ClaimsInv
  BY <1>1, DisjointBasics DEF Init, ClaimsInv, ClaimsGuarded, ResolvedAsAsked, NothingResolved
<1>3. Init => OwnerInv /\ LiveInv /\ WriteInv
  BY DEF Init, OwnerInv, OwnersAgree, OneOwnerPerSlot, LiveInv, OldPortsDisjoint, LiveGuarded,
     WriteInv, AcceptedAreClaimed, StoreInSync
<1>4. Init => RegistryInv
  BY DEF Init, RegistryInv, ClaimsOfDeclared, PortsOfDeclared, MuxAsRead, LostIsEmpty, NewSpared,
     LegacyIsSaved, Readable, NoStore
<1> QED BY <1>2, <1>3, <1>4, InitType DEF PassInv

LEMMA NextPass == PassInv /\ RegistryInv /\ [Next]_vars => (PassInv /\ RegistryInv)'
BY NextType, NextOwners, NextClaims, NextWrites, NextLive, NextRegistry DEF PassInv

-----------------------------------------------------------------------------
(* The refinement mapping.                                                 *)

LEMMA LedgerAsPorts ==
  ASSUME NEW cl \in Claims, NEW L,
         L = {[owner |-> KeyOwner(k), port |-> cl[k], proto |-> k[3]] :
                 k \in {j \in Keys : cl[j] # NoPort}}
  PROVE  /\ L \subseteq MuxPorts
         /\ \A p \in MuxPorts : p \in L <=> cl[PortKey(p)] = p.port
<1>1. ASSUME NEW p \in L PROVE p \in MuxPorts /\ cl[PortKey(p)] = p.port
  <2>1. PICK k \in Keys : /\ cl[k] # NoPort
                          /\ p = [owner |-> KeyOwner(k), port |-> cl[k], proto |-> k[3]]
    OBVIOUS
  <2>2. KeyOwner(k) \in Owners /\ cl[k] \in Ports /\ k[3] \in Protocols
    BY <2>1 DEF KeyOwner, Owners, Keys, Claims
  <2>3. PortKey(p) = k
    BY <2>1 DEF PortKey, KeyOwner, Keys
  <2> QED BY <2>1, <2>2, <2>3 DEF MuxPorts
<1>2. ASSUME NEW p \in MuxPorts, cl[PortKey(p)] = p.port PROVE p \in L
  <2>1. PortKey(p) \in Keys /\ p.port # NoPort
    BY ReconcileAssumption DEF PortKey, MuxPorts, Owners, Keys, NoPort
  <2>2. p = [owner |-> KeyOwner(PortKey(p)), port |-> cl[PortKey(p)], proto |-> PortKey(p)[3]]
    BY <1>2 DEF PortKey, KeyOwner, MuxPorts, Owners
  <2> QED BY <1>2, <2>1, <2>2
<1> QED BY <1>1, <1>2

(* Disjoint claims are a ledger without double entries.                    *)
LEMMA LedgerDisjoint ==
  ASSUME NEW cl \in Claims, Disjoint(cl),
         NEW p \in MuxPorts, NEW q \in MuxPorts,
         cl[PortKey(p)] = p.port, cl[PortKey(q)] = q.port, SlotOf(p) = SlotOf(q)
  PROVE  p = q
<1>1. /\ PortKey(p) \in Keys /\ PortKey(q) \in Keys /\ p.port # NoPort
      /\ PortKey(p)[3] = p.proto /\ PortKey(q)[3] = q.proto
  BY ReconcileAssumption DEF PortKey, MuxPorts, Owners, Keys, NoPort
<1>2. p.port = q.port /\ p.proto = q.proto
  BY DEF SlotOf
<1>3. PortKey(p) = PortKey(q)
  BY <1>1, <1>2 DEF Disjoint
<1>4. p.owner = q.owner
  BY <1>3 DEF PortKey, MuxPorts, Owners
<1> QED BY <1>2, <1>4 DEF MuxPorts

LEMMA LedgerIsOneEach ==
  ASSUME NEW cl \in Claims, Disjoint(cl), NEW L,
         L = {[owner |-> KeyOwner(k), port |-> cl[k], proto |-> k[3]] :
                 k \in {j \in Keys : cl[j] # NoPort}}
  PROVE  Registry!OneOwnerEach(L)
<1> SUFFICES ASSUME NEW p \in L, NEW q \in L, Registry!SameSlot(p, q) PROVE p = q
  BY DEF Registry!OneOwnerEach
<1>1. p \in MuxPorts /\ q \in MuxPorts /\ cl[PortKey(p)] = p.port /\ cl[PortKey(q)] = q.port
  BY LedgerAsPorts
<1>2. SlotOf(p) = SlotOf(q)
  BY DEF Registry!SameSlot, SlotOf
<1> QED BY <1>1, <1>2, LedgerDisjoint

LEMMA SaveRecords ==
  ASSUME PassInv, RegistryInv, SaveStore
  PROVE  Registry!Record
<1> USE DEF PassInv
<1>1. /\ pc = "channels" /\ UNCHANGED <<muxPorts, snap>> /\ cm'.status = "ok"
      /\ cm'.claims = claims /\ (store = "new" <=> cm.status = "absent")
      /\ store \in {"new", "exists"} /\ cm.status \in {"ok", "legacy", "absent", "corrupt"}
      /\ claims \in Claims /\ cm.claims \in Claims /\ Disjoint(claims)
  BY DEF SaveStore, AllChannelsDone, NeedsSave, pass, TypeInv, TypeOK, StoreStates, ClaimsInv
<1>2. LedgerEntries' = {[owner |-> KeyOwner(k), port |-> claims[k], proto |-> k[3]] :
                           k \in {j \in Keys : claims[j] # NoPort}}
  BY <1>1 DEF LedgerEntries
<1>3. LedgerEntries' \subseteq MuxPorts /\ Registry!OneOwnerEach(LedgerEntries')
  BY <1>1, <1>2, LedgerAsPorts, LedgerIsOneEach
<1>4. ASSUME NEW e \in LedgerEntries'
      PROVE  /\ e.owner \in Declared(snap)
             /\ cm.status # "corrupt" /\ e \notin LedgerEntries =>
                  ~\E f \in muxPorts : /\ Registry!SameSlot(e, f) /\ f.owner # e.owner
                                       /\ f.owner \in Declared(snap)
  <2>1. PICK k \in Keys : /\ claims[k] # NoPort
                          /\ e = [owner |-> KeyOwner(k), port |-> claims[k], proto |-> k[3]]
    BY <1>2
  <2>2. e.owner \in Declared(snap)
    BY <1>1, <2>1 DEF RegistryInv, ClaimsOfDeclared
  <2>3. ASSUME cm.status # "corrupt", e \notin LedgerEntries,
               NEW f \in muxPorts, Registry!SameSlot(e, f), f.owner # e.owner,
               f.owner \in Declared(snap)
        PROVE  FALSE
    <3>1. cm.claims[k] # claims[k]
      BY <2>1, <2>3 DEF LedgerEntries
    <3>2. claims[k] \notin {NoPort, Loaded(k)}
      BY <1>1, <2>1, <3>1 DEF Loaded
    <3>3. LivePortOwners(snap, oldPorts, KeySlot(k, claims[k])) \subseteq {KeyOwner(k)}
      BY <1>1, <2>3, <3>2 DEF RegistryInv, NewSpared, Readable
    <3>4. f \in oldPorts /\ SlotOf(f) = KeySlot(k, claims[k])
      BY <1>1, <2>1, <2>3 DEF RegistryInv, MuxAsRead, Registry!SameSlot, SlotOf, KeySlot
    <3>5. f.owner \in LivePortOwners(snap, oldPorts, KeySlot(k, claims[k]))
      BY <2>3, <3>4 DEF LivePortOwners
    <3> QED BY <2>1, <2>3, <3>3, <3>5
  <2> QED BY <2>2, <2>3
<1> QED
  BY <1>1, <1>3, <1>4 DEF Registry!Record, Registry!OfMembers, Registry!ServedToOther

(* The accepted ports are one to a slot, claimed and declared.             *)
LEMMA PublishServes ==
  ASSUME PassInv, RegistryInv, PublishMux, oldPorts # ports
  PROVE  Registry!Publish
<1> USE DEF PassInv
<1>1. /\ muxPorts' = ports /\ ports \subseteq MuxPorts /\ cm' = cm /\ snap' = NoSnap
      /\ pc = "publish" /\ cm.claims \in Claims
  BY DEF PublishMux, EndPass, TypeInv, TypeOK, StoreStates
<1>2. Registry!OneOwnerEach(ports)
  <2> SUFFICES ASSUME NEW p \in ports, NEW q \in ports, Registry!SameSlot(p, q) PROVE p = q
    BY DEF Registry!OneOwnerEach
  <2>1. SlotOf(p) = SlotOf(q) /\ muxPorts' = ports
    BY <1>1 DEF Registry!SameSlot, SlotOf
  <2>2. OwnerInv'
    BY PublishOwners
  <2> QED BY <2>1, <2>2 DEF OwnerInv, OneOwnerPerSlot
<1>3. \A p \in ports : p.owner \in Declared(snap)
  BY DEF RegistryInv, PortsOfDeclared
<1>4. cm.status \in {"ok", "legacy"} => ports \subseteq LedgerEntries
  <2> SUFFICES ASSUME cm.status = "ok" PROVE ports \subseteq LedgerEntries
    BY <1>1 DEF RegistryInv, LegacyIsSaved
  <2>1. \A p \in ports : cm.claims[PortKey(p)] = p.port
    BY <1>1 DEF WriteInv, AcceptedAreClaimed
  <2> QED BY <1>1, <2>1, LedgerAsPorts DEF LedgerEntries
<1>5. Declared(snap)' = {}
  BY <1>1 DEF Declared, NoSnap, Owners
<1>6. LedgerEntries' = LedgerEntries
  BY <1>1 DEF LedgerEntries
<1> QED BY <1>1, <1>2, <1>3, <1>4, <1>5, <1>6 DEF Registry!Publish, Registry!OfMembers

(* Every step of the daemon and its environment is one of the registry.    *)
LEMMA StepImplements ==
  PassInv /\ RegistryInv /\ [Next]_vars => [Registry!Next]_(Registry!vars)
<1> SUFFICES ASSUME PassInv, RegistryInv, [Next]_vars
             PROVE  Registry!Next \/ UNCHANGED Registry!vars
  OBVIOUS
<1> USE DEF api, pass, loop
<1>1. CASE SaveStore
  BY <1>1, SaveRecords DEF Registry!Next
<1>2. CASE PublishMux /\ oldPorts # ports
  BY <1>2, PublishServes DEF Registry!Next
<1>3. ASSUME UNCHANGED <<cm, muxPorts>> PROVE Registry!Next
  <2>1. Declared(snap)' \subseteq Owners
    BY DEF Declared
  <2>2. LedgerEntries' = LedgerEntries
    BY <1>3 DEF LedgerEntries
  <2> QED BY <1>3, <2>1, <2>2 DEF Registry!Next, Registry!Observe
<1>4. CASE CorruptStore \/ DeleteStore
  <2>1. /\ UNCHANGED <<snap, muxPorts>> /\ cm'.claims = NoClaims
        /\ cm'.status \in {"absent", "corrupt"}
    BY <1>4 DEF CorruptStore, DeleteStore, NoStore
  <2>2. LedgerEntries' = {}
    BY <2>1 DEF LedgerEntries, NoClaims
  <2> QED BY <2>1, <2>2 DEF Registry!Next, Registry!LoseLedger
<1>5. CASE ResetMuxPorts
  <2>1. UNCHANGED <<cm, snap>> /\ muxPorts' = {}
    BY <1>5 DEF ResetMuxPorts
  <2>2. LedgerEntries' = LedgerEntries
    BY <2>1 DEF LedgerEntries
  <2> QED BY <2>1, <2>2 DEF Registry!Next, Registry!ResetTable
<1> QED
  BY <1>1, <1>2, <1>3, <1>4, <1>5
     DEF Next, Daemon, Environment, vars, Refresh, Load, SkipChannel, BeginChannel,
         ResolveStaticPort, ResolveAutoPort, AutoPortUnavailable, RejectConflict, AcceptChannel,
         ChannelGone, SkipSave, SaveFails, PublishMux, IndexSync, CreateChannel, UpdateChannel,
         DeleteChannel, ChangeSettings, AbortPass

LEMMA InitImplements == Init => Registry!Init
<1> SUFFICES ASSUME Init PROVE Registry!Init
  OBVIOUS
<1>1. cm.claims \in Claims /\ Disjoint(cm.claims)
  BY InitPass DEF PassInv, TypeInv, TypeOK, StoreStates, ClaimsInv
<1>2. LedgerEntries \subseteq MuxPorts /\ Registry!OneOwnerEach(LedgerEntries)
  BY <1>1, LedgerAsPorts, LedgerIsOneEach DEF LedgerEntries
<1>3. cm.status \in {"legacy", "absent"} /\ (cm.status = "absent" => LedgerEntries = {})
  BY DEF Init, NoStore, NoClaims, LedgerEntries
<1>4. Declared(snap) = {} /\ muxPorts = {}
  BY DEF Init, Declared, NoSnap, Owners
<1> QED BY <1>2, <1>3, <1>4 DEF Registry!Init

(* For every number of channels, ports and edits, and every fault of the   *)
(* model, the daemon behaves like the registry.                            *)
THEOREM RegistryImplemented == Spec => ImplementsRegistry
<1>1. Spec => [](PassInv /\ RegistryInv)
  BY InitPass, NextPass, PTL DEF Spec
<1>2. Spec => Registry!Spec
  BY <1>1, InitImplements, StepImplements, PTL DEF Spec, Registry!Spec
<1> QED BY <1>2 DEF ImplementsRegistry
=============================================================================
