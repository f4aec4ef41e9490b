------------------------- MODULE MuxReconcile_proofs -------------------------
(***************************************************************************)
(* Theorems about MuxReconcile, for every number of channels, port names   *)
(* and ports, every specification users may write, and any number of edits *)
(* and faults.                                                             *)
(***************************************************************************)
EXTENDS MuxReconcile, FiniteSetTheorems, TLAPS, WellFoundedInduction

-----------------------------------------------------------------------------
(* Lemmas about the operators.                                             *)

Less == {p \in Nat \X Nat : p[1] < p[2]}

(* The loop, the resolution of ports and the allocation take the least     *)
(* element of what is left: it exists.                                     *)
LEMMA FirstIsLeast ==
  ASSUME NEW S \in SUBSET Nat, S # {}
  PROVE  First(S) \in S /\ \A y \in S : First(S) <= y
<1>1. IsWellFoundedOn(Less, Nat)
  BY NatLessThanWellFounded DEF OpToRel, Less
<1>2. \E x \in S : \A y \in S : ~(<<y, x>> \in Less)
  BY <1>1, WFMin, Zenon
<1>3. ASSUME NEW x \in S, \A y \in S : ~(<<y, x>> \in Less)
      PROVE  \A y \in S : x <= y
  <2> SUFFICES ASSUME NEW y \in S PROVE x <= y
    OBVIOUS
  <2>1. x \in Nat /\ y \in Nat
    OBVIOUS
  <2>2. <<y, x>> \in Less <=> y < x
    BY <2>1 DEF Less
  <2> QED BY <1>3, <2>1, <2>2
<1> QED BY <1>2, <1>3 DEF First

(* What a channel body is made of.                                         *)
LEMMA BodyType ==
  ASSUME NEW b \in Bodies
  PROVE  /\ DOMAIN b.spec.ports \subseteq PortNames
         /\ \A n \in DOMAIN b.spec.ports : b.spec.ports[n] \in PortDecls
         /\ b.spec \in Specs
         /\ b.spec.valid \in BOOLEAN
         /\ b.anno \in Annotations
<1>1. b.spec \in Specs /\ b.anno \in Annotations
  BY DEF Bodies
<1>2. PICK D \in SUBSET PortNames : b.spec.ports \in [D -> PortDecls]
  BY <1>1 DEF Specs
<1>3. b.spec.valid \in BOOLEAN
  BY <1>1 DEF Specs
<1> QED BY <1>1, <1>2, <1>3

(* An allocated port belongs to the range; no other claim has its slot and *)
(* no channel asks for the slot statically.                                *)
LEMMA AllocationIsFree ==
  ASSUME NEW range \in Seq(Ports), NEW cl \in Claims, NEW reserved,
         NEW recovered, NEW k \in Keys
  PROVE  LET p == Allocate(range, cl, reserved, recovered, k)
         IN  /\ p \in Ports \cup {NoPort}
             /\ p # NoPort => /\ \A j \in Keys \ {k} : cl[j] = p => j[3] # k[3]
                              /\ <<p, k[3]>> \notin reserved
<1> DEFINE p == Allocate(range, cl, reserved, recovered, k)
           used == UsedPortProtocols(cl, reserved, recovered, KeyOwner(k))
           free == {i \in DOMAIN range : <<range[i], k[3]>> \notin used}
<1>1. CASE /\ cl[k] # NoPort /\ InRange(range, cl[k])
           /\ ~IsClaimed(cl, reserved, recovered, k, cl[k])
  <2>1. p = cl[k]
    BY <1>1 DEF Allocate
  <2> QED BY <1>1, <2>1 DEF IsClaimed, KeySlot, Claims
<1>2. CASE free = {}
  BY <1>2, <1>1 DEF Allocate
<1>3. CASE /\ ~(/\ cl[k] # NoPort /\ InRange(range, cl[k])
                /\ ~IsClaimed(cl, reserved, recovered, k, cl[k]))
           /\ free # {}
  <2>1. p = range[First(free)]
    BY <1>3 DEF Allocate
  <2>2. free \in SUBSET Nat
    OBVIOUS
  <2>3. First(free) \in free
    BY <1>3, <2>2, FirstIsLeast
  <2>4. p \in Ports /\ <<p, k[3]>> \notin used
    BY <2>1, <2>3
  <2>5. k[3] \in Protocols /\ <<p, k[3]>> \in Slots
    BY <2>4 DEF Keys, Slots
  <2>6. <<p, k[3]>> \notin reserved /\ ClaimKeys(cl, <<p, k[3]>>) = {}
    BY <2>4, <2>5 DEF UsedPortProtocols
  <2>7. p # NoPort
    BY <2>4, ReconcileAssumption DEF NoPort
  <2>8. ASSUME NEW j \in Keys \ {k}, cl[j] = p, j[3] = k[3]
        PROVE  FALSE
    BY <2>6, <2>7, <2>8 DEF ClaimKeys, KeySlot
  <2> QED BY <2>4, <2>6, <2>8
<1> QED BY <1>1, <1>2, <1>3

(* Recovery and seeding give every slot an owner or none.                  *)
LEMMA OwnerMapsType ==
  /\ \A sn, mp : ExistingPortOwners(sn, mp) \in OwnerMaps
  /\ \A cl : \A rec \in OwnerMaps : SeedPortOwners(cl, rec) \in OwnerMaps
<1>1. ASSUME NEW sn, NEW mp
      PROVE  ExistingPortOwners(sn, mp) \in OwnerMaps
  <2>1. \A s : LivePortOwners(sn, mp, s) \subseteq Owners
    BY DEF LivePortOwners, Declared
  <2>2. \A s : AnnotationOwners(sn, s) \subseteq Owners
    BY DEF AnnotationOwners, Declared
  <2> QED BY <2>1, <2>2 DEF ExistingPortOwners, OwnerMaps
<1>2. ASSUME NEW cl, NEW rec \in OwnerMaps
      PROVE  SeedPortOwners(cl, rec) \in OwnerMaps
  <2>1. \A s : \A k \in ClaimKeys(cl, s) : KeyOwner(k) \in Owners
    BY DEF ClaimKeys, Keys, Owners, KeyOwner
  <2> QED BY <2>1 DEF SeedPortOwners, OwnerMaps
<1> QED BY <1>1, <1>2

(* The mux ports of a resolved channel.                                    *)
LEMMA ChannelPortsType ==
  ASSUME NEW c \in Channels, NEW b \in Bodies, NEW res \in Annotations,
         \A n \in DOMAIN b.spec.ports : res[n] # NoPort
  PROVE  /\ ChannelPorts(c, b, res) \subseteq MuxPorts
         /\ \A p \in ChannelPorts(c, b, res) :
              /\ p.owner[1] = c /\ p.owner[2] \in DOMAIN b.spec.ports
              /\ p.port = res[p.owner[2]] /\ p.proto = b.spec.ports[p.owner[2]].proto
<1> SUFFICES ASSUME NEW n \in DOMAIN b.spec.ports,
                    NEW p, p = [owner |-> <<c, n>>, port |-> res[n],
                                proto |-> b.spec.ports[n].proto]
             PROVE  /\ p \in MuxPorts
                    /\ p.owner[1] = c /\ p.owner[2] \in DOMAIN b.spec.ports
                    /\ p.port = res[p.owner[2]] /\ p.proto = b.spec.ports[p.owner[2]].proto
  BY DEF ChannelPorts
<1>1. n \in PortNames /\ b.spec.ports[n] \in PortDecls
  BY BodyType
<1>2. res[n] \in Ports
  BY <1>1 DEF Annotations
<1>3. b.spec.ports[n].proto \in Protocols
  BY <1>1 DEF PortDecls
<1> QED BY <1>1, <1>2, <1>3 DEF MuxPorts, Owners

LEMMA UpdateOwnersType ==
  ASSUME NEW own \in OwnerMaps, NEW ps \in SUBSET MuxPorts
  PROVE  UpdateOwners(own, ps) \in OwnerMaps
<1>1. ASSUME NEW s, \E p \in ps : SlotOf(p) = s
      PROVE  (CHOOSE p \in ps : SlotOf(p) = s).owner \in Owners
  BY <1>1 DEF MuxPorts
<1> QED BY <1>1 DEF UpdateOwners, OwnerMaps

LEMMA ClaimsType ==
  /\ NoClaims \in Claims
  /\ \A cl \in Claims : \A sn : PruneInactive(cl, sn) \in Claims
  /\ \A cl \in Claims, b \in Bodies, res \in Annotations : \A c :
        RecordClaims(cl, c, b, res) \in Claims
<1>1. NoClaims \in Claims /\ \A cl \in Claims : \A sn : PruneInactive(cl, sn) \in Claims
  BY DEF NoClaims, Claims, PruneInactive
<1>2. ASSUME NEW cl \in Claims, NEW b \in Bodies, NEW res \in Annotations, NEW c
      PROVE  RecordClaims(cl, c, b, res) \in Claims
  <2>1. \A k \in Keys : k[2] \in DOMAIN b.spec.ports => res[k[2]] \in Ports \cup {NoPort}
    BY BodyType DEF Annotations
  <2> QED BY <2>1 DEF RecordClaims, Claims
<1> QED BY <1>1, <1>2

-----------------------------------------------------------------------------
(* Type correctness.  The loop only ever works on channels of the          *)
(* snapshot, on each of them once.                                         *)
LoopOK ==
  /\ pc # "channels" => cur = NoChannel /\ todo = {}
  /\ \A c \in todo : snap[c] # NoChannel
  /\ cur # NoChannel => /\ snap[cur] # NoChannel /\ snap[cur].spec.valid
                        /\ cur \notin todo

TypeInv == TypeOK /\ LoopOK

LEMMA InitType == Init => TypeInv
<1> SUFFICES ASSUME Init PROVE TypeInv
  OBVIOUS
<1>1. NoSnap \in Snapshots /\ NoOwners \in OwnerMaps /\ Unresolved \in Annotations
  BY DEF NoSnap, Snapshots, NoOwners, OwnerMaps, Unresolved, Annotations
<1>2. settings \in MuxSettings
  BY ReconcileAssumption DEF Init
<1>3. cm \in StoreStates
  <2>1. CASE cm = NoStore
    BY <2>1, ClaimsType DEF NoStore, StoreStates
  <2>2. CASE \E cl \in LegacyClaims : cm = [status |-> "legacy", claims |-> cl]
    BY <2>2, ReconcileAssumption DEF StoreStates
  <2> QED BY <2>1, <2>2 DEF Init
<1>4. NoSettings \in MuxSettings
  BY DEF NoSettings, MuxSettings
<1>5. NoChannel \notin Channels
  BY ReconcileAssumption
<1>6. MaxEdits \in Nat /\ MaxFaults \in Nat
  BY ReconcileAssumption
<1>7. /\ edits \in 0..MaxEdits /\ faults \in 0..MaxFaults
  BY <1>6 DEF Init
<1>8. TypeOK
  BY <1>1, <1>2, <1>3, <1>4, <1>7, ClaimsType DEF Init, TypeOK
<1>9. LoopOK
  BY DEF Init, LoopOK
<1> QED BY <1>8, <1>9 DEF TypeInv

LEMMA EndPassType ==
  ASSUME EndPass
  PROVE  /\ pc' = "idle" /\ oldPorts' = {} /\ conf' \in MuxSettings
         /\ snap' \in Snapshots /\ store' = "none" /\ changed' \in BOOLEAN
         /\ claims' \in Claims /\ owners' \in OwnerMaps /\ ports' = {}
         /\ resolved' \in Annotations
         /\ todo' = {} /\ cur' = NoChannel
<1>1. NoSnap \in Snapshots /\ NoOwners \in OwnerMaps /\ Unresolved \in Annotations
  BY DEF NoSnap, Snapshots, NoOwners, OwnerMaps, Unresolved, Annotations
<1>2. NoSettings \in MuxSettings
  BY DEF NoSettings, MuxSettings
<1> QED BY <1>1, <1>2, ClaimsType DEF EndPass

(* The channel in progress and its next port.                              *)
LEMMA NextKeyType ==
  ASSUME TypeInv, cur # NoChannel, Unfinished # {}
  PROVE  /\ snap[cur] \in Bodies /\ cur \in Channels
         /\ NextKey[1] = cur /\ NextKey[2] \in Unfinished
         /\ NextKey[2] \in DOMAIN snap[cur].spec.ports
         /\ NextKey[2] \in PortNames
         /\ NextKey[3] = snap[cur].spec.ports[NextKey[2]].proto
         /\ NextKey \in Keys
         /\ NextWant \in Ports \cup {AutoPort}
         /\ NextAllocation \in Ports \cup {NoPort}
<1>1. cur \in Channels /\ snap[cur] \in Bodies
  BY DEF TypeInv, TypeOK, LoopOK, Snapshots
<1>2. Unfinished \in SUBSET PortNames
  BY <1>1, BodyType DEF Unfinished
<1>3. First(Unfinished) \in Unfinished
  BY <1>2, ReconcileAssumption, FirstIsLeast
<1> DEFINE n == First(Unfinished)
<1>4. n \in DOMAIN snap[cur].spec.ports /\ n \in PortNames
  BY <1>2, <1>3 DEF Unfinished
<1>5. snap[cur].spec.ports[n] \in PortDecls
  BY <1>1, <1>4, BodyType
<1>6. NextKey = <<cur, n, snap[cur].spec.ports[n].proto>>
  BY DEF NextKey
<1>7. NextKey \in Keys
  BY <1>1, <1>4, <1>5, <1>6 DEF Keys, PortDecls
<1>8. NextWant \in Ports \cup {AutoPort}
  BY <1>5, <1>6 DEF NextWant, PortDecls
<1>9. conf.range \in Seq(Ports) /\ claims \in Claims
  BY DEF TypeInv, TypeOK, MuxSettings
<1>10. NextAllocation \in Ports \cup {NoPort}
  <2>1. NextAllocation = Allocate(conf.range, claims, StaticPortClaims(snap),
                                  ExistingPortOwners(snap, oldPorts), NextKey)
    BY DEF NextAllocation
  <2> HIDE DEF NextAllocation, NextKey
  <2> QED BY <1>7, <1>9, <2>1, AllocationIsFree, Zenon
<1> QED BY <1>1, <1>3, <1>4, <1>6, <1>7, <1>8, <1>10

LEMMA LoadType == TypeInv /\ Load => TypeInv'
<1> SUFFICES ASSUME TypeInv, Load PROVE TypeInv'
  OBVIOUS
<1> DEFINE loaded == IF cm.status \in {"ok", "legacy"} THEN cm.claims ELSE NoClaims
<1>1. loaded \in Claims
  BY ClaimsType DEF TypeInv, TypeOK, StoreStates
<1>2. claims' \in Claims /\ changed' \in BOOLEAN
  BY <1>1, ClaimsType DEF Load
<1>3. owners' \in OwnerMaps
  BY OwnerMapsType DEF Load
<1>4. conf' \in MuxSettings
  <2>1. conf \in MuxSettings
    BY DEF TypeInv, TypeOK
  <2>2. [conf EXCEPT !.range = <<>>] \in MuxSettings
    <3>1. <<>> \in Seq(Ports)
      OBVIOUS
    <3>2. [conf EXCEPT !.range = <<>>] = [range |-> <<>>, maxPorts |-> conf.maxPorts]
      BY <2>1 DEF MuxSettings
    <3> QED BY <2>1, <3>1, <3>2 DEF MuxSettings
  <2> QED BY <2>1, <2>2 DEF Load
<1>5. store' \in {"none", "new", "exists"} /\ pc' = "channels"
  BY DEF Load
<1>6. snap' = index /\ todo' = {c \in Channels : index[c] # NoChannel} /\ cur' = NoChannel
  BY DEF Load, TypeInv, LoopOK
<1>7. UNCHANGED <<live, muxPorts, settings, cm, index, oldPorts, ports, resolved, edits, faults>>
  BY DEF Load, api
<1>8. TypeOK'
  BY <1>2, <1>3, <1>4, <1>5, <1>6, <1>7 DEF TypeInv, TypeOK
<1> QED BY <1>5, <1>6, <1>8 DEF TypeInv, LoopOK

LEMMA ResolveType ==
  TypeInv /\ (ResolveStaticPort \/ ResolveAutoPort \/ AutoPortUnavailable) => TypeInv'
<1> USE DEF api, pass, loop
<1> HIDE DEF NextKey, NextWant, NextAllocation
<1>1. ASSUME TypeInv, ResolveStaticPort PROVE TypeInv'
  <2>1. NextKey[2] \in PortNames /\ NextWant \in Ports
    BY <1>1, NextKeyType DEF ResolveStaticPort
  <2>2. resolved' \in Annotations
    BY <1>1, <2>1 DEF ResolveStaticPort, TypeInv, TypeOK, Annotations
  <2>3. TypeOK'
    BY <1>1, <2>2 DEF ResolveStaticPort, TypeInv, TypeOK
  <2> QED BY <1>1, <2>3 DEF ResolveStaticPort, TypeInv, LoopOK
<1>2. ASSUME TypeInv, ResolveAutoPort PROVE TypeInv'
  <2>1. NextKey[2] \in PortNames /\ NextKey \in Keys /\ NextAllocation \in Ports
    BY <1>2, NextKeyType DEF ResolveAutoPort
  <2>2. resolved' \in Annotations
    BY <1>2, <2>1 DEF ResolveAutoPort, TypeInv, TypeOK, Annotations
  <2>3. claims' \in Claims
    BY <1>2, <2>1 DEF ResolveAutoPort, TypeInv, TypeOK, Claims
  <2>4. changed' \in BOOLEAN
    BY <1>2 DEF ResolveAutoPort, TypeInv, TypeOK
  <2>5. TypeOK'
    BY <1>2, <2>2, <2>3, <2>4 DEF ResolveAutoPort, TypeInv, TypeOK
  <2> QED BY <1>2, <2>5 DEF ResolveAutoPort, TypeInv, LoopOK
<1>3. ASSUME TypeInv, AutoPortUnavailable PROVE TypeInv'
  <2>1. resolved' \in Annotations
    BY <1>3 DEF AutoPortUnavailable, NextChannel, Unresolved, Annotations
  <2>2. TypeOK'
    BY <1>3, <2>1 DEF AutoPortUnavailable, NextChannel, TypeInv, TypeOK
  <2> QED BY <1>3, <2>2 DEF AutoPortUnavailable, NextChannel, TypeInv, LoopOK
<1> QED BY <1>1, <1>2, <1>3

(* The ports of a channel whose ports are all resolved.                    *)
LEMMA ResolvedType ==
  ASSUME TypeInv, Resolved
  PROVE  /\ cur \in Channels /\ snap[cur] \in Bodies
         /\ CurPorts \subseteq MuxPorts
         /\ \A p \in CurPorts :
              /\ p.owner[1] = cur /\ p.owner[2] \in DOMAIN snap[cur].spec.ports
              /\ p.port = resolved[p.owner[2]]
              /\ p.proto = snap[cur].spec.ports[p.owner[2]].proto
         /\ CurAnnotation \in Annotations
<1>1. cur \in Channels /\ snap[cur] \in Bodies /\ resolved \in Annotations
  BY DEF TypeInv, TypeOK, LoopOK, Snapshots, Resolved
<1>2. \A n \in DOMAIN snap[cur].spec.ports : resolved[n] # NoPort
  BY DEF Resolved, Unfinished
<1>3. CurAnnotation \in Annotations
  BY <1>1 DEF CurAnnotation, Annotations
<1> QED BY <1>1, <1>2, <1>3, ChannelPortsType DEF CurPorts

LEMMA ChannelType ==
  TypeInv /\ (SkipChannel \/ BeginChannel \/ RejectConflict \/ AcceptChannel) => TypeInv'
<1> USE DEF api, pass, loop
<1>1. ASSUME TypeInv, SkipChannel PROVE TypeInv'
  <2>1. todo' \in SUBSET Channels /\ todo' \subseteq todo
    BY <1>1 DEF SkipChannel, TypeInv, TypeOK
  <2>2. TypeOK'
    BY <1>1, <2>1 DEF SkipChannel, TypeInv, TypeOK
  <2> QED BY <1>1, <2>1, <2>2 DEF SkipChannel, TypeInv, LoopOK
<1>2. ASSUME TypeInv, BeginChannel PROVE TypeInv'
  <2>1. First(todo) \in todo /\ todo \in SUBSET Channels
    BY <1>2, FirstIsLeast, ReconcileAssumption DEF BeginChannel, TypeInv, TypeOK
  <2>2. /\ cur' = First(todo) /\ todo' = todo \ {First(todo)}
        /\ snap[First(todo)].spec.valid
    BY <1>2 DEF BeginChannel
  <2>3. TypeOK'
    BY <1>2, <2>1, <2>2 DEF BeginChannel, TypeInv, TypeOK
  <2>4. snap[cur'] # NoChannel
    BY <1>2, <2>1, <2>2 DEF TypeInv, LoopOK
  <2> QED BY <1>2, <2>1, <2>2, <2>3, <2>4 DEF BeginChannel, TypeInv, LoopOK
<1>3. Unresolved \in Annotations
  BY DEF Unresolved, Annotations
<1>4. ASSUME TypeInv, RejectConflict PROVE TypeInv'
  <2>1. TypeOK'
    BY <1>3, <1>4 DEF RejectConflict, NextChannel, TypeInv, TypeOK
  <2> QED BY <1>4, <2>1 DEF RejectConflict, Resolved, NextChannel, TypeInv, LoopOK
<1>5. ASSUME TypeInv, AcceptChannel PROVE TypeInv'
  <2>0. Resolved
    BY <1>5 DEF AcceptChannel
  <2>1. cur \in Channels /\ snap[cur] \in Bodies /\ CurPorts \subseteq MuxPorts
        /\ CurAnnotation \in Annotations
    BY <1>5, <2>0, ResolvedType
  <2>2. ports' \in SUBSET MuxPorts
    BY <1>5, <2>1 DEF AcceptChannel, TypeInv, TypeOK
  <2>3. owners' \in OwnerMaps
    BY <1>5, <2>1, UpdateOwnersType DEF AcceptChannel, TypeInv, TypeOK
  <2>4. claims' \in Claims
    BY <1>5, <2>1, ClaimsType DEF AcceptChannel, TypeInv, TypeOK
  <2>5. live' \in Snapshots
    <3>1. CASE live' = live
      BY <1>5, <3>1 DEF TypeInv, TypeOK
    <3>2. CASE live[cur] # NoChannel /\ live' = [live EXCEPT ![cur].anno = CurAnnotation]
      <4>1. live \in Snapshots /\ live[cur] \in Bodies
        BY <1>5, <2>1, <3>2 DEF TypeInv, TypeOK, Snapshots
      <4>2. [live[cur] EXCEPT !.anno = CurAnnotation] \in Bodies
        BY <2>1, <4>1 DEF Bodies
      <4> QED BY <3>2, <4>1, <4>2 DEF Snapshots
    <3> QED BY <1>5, <3>1, <3>2 DEF AcceptChannel
  <2>6. changed' \in BOOLEAN
    BY <1>5 DEF AcceptChannel, TypeInv, TypeOK
  <2>7. TypeOK'
    BY <1>3, <1>5, <2>2, <2>3, <2>4, <2>5, <2>6
    DEF AcceptChannel, NextChannel, TypeInv, TypeOK
  <2> QED BY <1>5, <2>0, <2>7 DEF AcceptChannel, Resolved, NextChannel, TypeInv, LoopOK
<1> QED BY <1>1, <1>2, <1>4, <1>5

(* The actions that end a pass, or only touch the API server around it.    *)
LEMMA PassEndType ==
  TypeInv /\ (ChannelGone \/ SaveFails \/ PublishMux \/ AbortPass) => TypeInv'
<1> SUFFICES ASSUME TypeInv, ChannelGone \/ SaveFails \/ PublishMux \/ AbortPass
             PROVE  TypeInv'
  OBVIOUS
<1>1. EndPass
  BY DEF ChannelGone, SaveFails, PublishMux, AbortPass
<1>2. muxPorts' \in SUBSET MuxPorts
  BY DEF TypeInv, TypeOK, ChannelGone, SaveFails, PublishMux, AbortPass, api
<1>3. /\ UNCHANGED <<live, settings, cm, index, edits>>
      /\ faults' \in 0..MaxFaults
  <2>1. UNCHANGED <<live, settings, cm, index, edits>>
    BY DEF ChannelGone, SaveFails, PublishMux, AbortPass, api
  <2>2. faults' = faults \/ (faults < MaxFaults /\ faults' = faults + 1)
    BY DEF ChannelGone, SaveFails, PublishMux, AbortPass, Fault
  <2> QED BY <2>1, <2>2, ReconcileAssumption DEF TypeInv, TypeOK
<1>4. TypeOK'
  BY <1>1, <1>2, <1>3, EndPassType DEF TypeInv, TypeOK
<1> QED BY <1>1, <1>4, EndPassType DEF TypeInv, LoopOK

LEMMA StoreType == TypeInv /\ (Refresh \/ SaveStore \/ SkipSave) => TypeInv'
<1> USE DEF api, pass, loop
<1>1. ASSUME TypeInv, Refresh PROVE TypeInv'
  BY <1>1 DEF Refresh, TypeInv, TypeOK, LoopOK
<1>2. ASSUME TypeInv, SaveStore PROVE TypeInv'
  <2>1. cm' \in StoreStates
    BY <1>2 DEF SaveStore, TypeInv, TypeOK, StoreStates
  <2> QED BY <1>2, <2>1 DEF SaveStore, AllChannelsDone, TypeInv, TypeOK, LoopOK
<1>3. ASSUME TypeInv, SkipSave PROVE TypeInv'
  BY <1>3 DEF SkipSave, AllChannelsDone, TypeInv, TypeOK, LoopOK
<1> QED BY <1>1, <1>2, <1>3

LEMMA EnvironmentType == TypeInv /\ (Environment \/ UNCHANGED vars) => TypeInv'
<1> USE DEF api, pass, loop
<1>1. ASSUME TypeInv, UNCHANGED <<pc, pass, loop>>,
             live' \in Snapshots, muxPorts' \in SUBSET MuxPorts, settings' \in MuxSettings,
             cm' \in StoreStates, index' \in Snapshots,
             edits' \in 0..MaxEdits, faults' \in 0..MaxFaults
      PROVE  TypeInv'
  <2>1. TypeOK'
    BY <1>1 DEF TypeInv, TypeOK
  <2> QED BY <1>1, <2>1 DEF TypeInv, LoopOK
<1>2. ASSUME TypeInv, UNCHANGED vars PROVE TypeInv'
  BY <1>1, <1>2 DEF vars, TypeInv, TypeOK
<1>3. ASSUME TypeInv, NEW e, Edit(e) PROVE edits' \in 0..MaxEdits
  BY <1>3, ReconcileAssumption DEF Edit, TypeInv, TypeOK
<1>4. ASSUME TypeInv, NEW f, Fault(f) PROVE faults' \in 0..MaxFaults
  BY <1>4, ReconcileAssumption DEF Fault, TypeInv, TypeOK
<1>5. ASSUME TypeInv, NEW c \in Channels, IndexSync(c) PROVE TypeInv'
  <2>1. index' \in Snapshots
    BY <1>5 DEF IndexSync, TypeInv, TypeOK, Snapshots
  <2> QED BY <1>1, <1>5, <2>1 DEF IndexSync, TypeInv, TypeOK
<1>6. ASSUME TypeInv, NEW c \in Channels, CreateChannel(c) PROVE TypeInv'
  <2>1. PICK s \in SpecChoices[c] : live' = [live EXCEPT ![c] = [spec |-> s, anno |-> Unresolved]]
    BY <1>6 DEF CreateChannel
  <2>2. [spec |-> s, anno |-> Unresolved] \in Bodies
    BY <2>1, ReconcileAssumption DEF Bodies, Unresolved, Annotations
  <2>3. live' \in Snapshots
    BY <1>6, <2>1, <2>2 DEF TypeInv, TypeOK, Snapshots
  <2> QED BY <1>1, <1>3, <1>6, <2>3 DEF CreateChannel, TypeInv, TypeOK
<1>7. ASSUME TypeInv, NEW c \in Channels, UpdateChannel(c) PROVE TypeInv'
  <2>1. PICK s \in SpecChoices[c] : live' = [live EXCEPT ![c].spec = s]
    BY <1>7 DEF UpdateChannel
  <2>2. live[c] \in Bodies /\ s \in Specs
    BY <1>7, <2>1, ReconcileAssumption DEF UpdateChannel, TypeInv, TypeOK, Snapshots
  <2>3. [live[c] EXCEPT !.spec = s] \in Bodies
    BY <2>2 DEF Bodies
  <2>4. live' \in Snapshots
    BY <1>7, <2>1, <2>3 DEF TypeInv, TypeOK, Snapshots
  <2> QED BY <1>1, <1>3, <1>7, <2>4 DEF UpdateChannel, TypeInv, TypeOK
<1>8. ASSUME TypeInv, NEW c \in Channels, DeleteChannel(c) PROVE TypeInv'
  <2>1. live' \in Snapshots
    BY <1>8 DEF DeleteChannel, TypeInv, TypeOK, Snapshots
  <2> QED BY <1>1, <1>3, <1>8, <2>1 DEF DeleteChannel, TypeInv, TypeOK
<1>9. ASSUME TypeInv, ChangeSettings PROVE TypeInv'
  <2>1. settings' \in MuxSettings
    BY <1>9, ReconcileAssumption DEF ChangeSettings
  <2> QED BY <1>1, <1>3, <1>9, <2>1 DEF ChangeSettings, TypeInv, TypeOK
<1>10. ASSUME TypeInv, CorruptStore \/ DeleteStore \/ ResetMuxPorts PROVE TypeInv'
  <2>1. NoStore \in StoreStates /\ [NoStore EXCEPT !.status = "corrupt"] \in StoreStates
    BY ClaimsType DEF NoStore, StoreStates
  <2>2. cm' \in StoreStates /\ muxPorts' \in SUBSET MuxPorts
    BY <1>10, <2>1 DEF CorruptStore, DeleteStore, ResetMuxPorts, TypeInv, TypeOK
  <2>3. faults' \in 0..MaxFaults
    BY <1>4, <1>10 DEF CorruptStore, DeleteStore, ResetMuxPorts
  <2>4. UNCHANGED <<pc, pass, loop, live, settings, index, edits>>
    BY <1>10 DEF CorruptStore, DeleteStore, ResetMuxPorts
  <2> QED BY <1>1, <1>10, <2>2, <2>3, <2>4 DEF TypeInv, TypeOK
<1> QED
  BY <1>2, <1>5, <1>6, <1>7, <1>8, <1>9, <1>10, PassEndType DEF Environment

LEMMA NextType == TypeInv /\ [Next]_vars => TypeInv'
BY StoreType, LoadType, ChannelType, ResolveType, PassEndType, EnvironmentType
DEF Next, Daemon

(* Every variable keeps its type.                                          *)
THEOREM TypeCorrect == Spec => []TypeOK
<1>1. Init => TypeInv
  BY InitType
<1>2. TypeInv /\ [Next]_vars => TypeInv'
  BY NextType
<1>3. TypeInv => TypeOK
  BY DEF TypeInv
<1> QED BY <1>1, <1>2, <1>3, PTL DEF Spec

-----------------------------------------------------------------------------
(* One owner per slot.  It is inductive with what port_owners is for:      *)
(* every accepted port is entered there under its own owner.               *)
OwnersAgree ==
  /\ pc \in {"idle", "load"} => ports = {}
  /\ \A p \in ports : owners[SlotOf(p)] = p.owner

OwnerInv == OwnersAgree /\ OneOwnerPerSlot

LEMMA SlotsOfMuxPorts ==
  \A p \in MuxPorts : SlotOf(p) \in Slots /\ p.owner \in Owners /\ p.owner # NoOwner
BY ReconcileAssumption DEF MuxPorts, Slots, SlotOf

(* Ports without conflicts become the owners of their slots; the slots of  *)
(* other owners stay theirs.                                               *)
LEMMA UpdateOwnersKeeps ==
  ASSUME NEW own \in OwnerMaps, NEW ps \in SUBSET MuxPorts,
         FindConflicts(own, ps) = {}
  PROVE  /\ \A p \in ps : UpdateOwners(own, ps)[SlotOf(p)] = p.owner
         /\ \A s \in Slots : own[s] # NoOwner => UpdateOwners(own, ps)[s] = own[s]
<1>1. \A p, q \in ps : SlotOf(p) = SlotOf(q) => p = q
  BY DEF FindConflicts
<1>2. \A p \in ps : own[SlotOf(p)] \in {NoOwner, p.owner}
  BY DEF FindConflicts
<1>3. ASSUME NEW p \in ps
      PROVE  UpdateOwners(own, ps)[SlotOf(p)] = p.owner
  <2>1. (CHOOSE q \in ps : SlotOf(q) = SlotOf(p)) = p
    BY <1>1
  <2> QED BY <2>1, SlotsOfMuxPorts DEF UpdateOwners
<1>4. ASSUME NEW s \in Slots, own[s] # NoOwner
      PROVE  UpdateOwners(own, ps)[s] = own[s]
  <2>1. CASE \E p \in ps : SlotOf(p) = s
    BY <1>2, <1>3, <1>4, <2>1
  <2>2. CASE ~\E p \in ps : SlotOf(p) = s
    BY <2>2 DEF UpdateOwners
  <2> QED BY <2>1, <2>2
<1> QED BY <1>3, <1>4

LEMMA AcceptOwners == TypeInv /\ OwnerInv /\ AcceptChannel => OwnerInv'
<1> SUFFICES ASSUME TypeInv, OwnerInv, AcceptChannel PROVE OwnerInv'
  OBVIOUS
<1>1. owners \in OwnerMaps /\ ports \subseteq MuxPorts
  BY DEF TypeInv, TypeOK
<1>2. CurPorts \subseteq MuxPorts
  BY ResolvedType DEF AcceptChannel
<1>3. /\ \A p \in CurPorts : owners'[SlotOf(p)] = p.owner
      /\ \A s \in Slots : owners[s] # NoOwner => owners'[s] = owners[s]
  BY <1>1, <1>2, UpdateOwnersKeeps DEF AcceptChannel
<1>4. \A p \in ports : owners'[SlotOf(p)] = p.owner
  BY <1>1, <1>3, SlotsOfMuxPorts DEF OwnerInv, OwnersAgree
<1>5. ports' = ports \cup CurPorts /\ pc' = "channels" /\ muxPorts' = muxPorts
  BY DEF AcceptChannel, Resolved
<1> QED BY <1>3, <1>4, <1>5 DEF OwnerInv, OwnersAgree, OneOwnerPerSlot

LEMMA PublishOwners == TypeInv /\ OwnerInv /\ PublishMux => OwnerInv'
<1> SUFFICES ASSUME TypeInv, OwnerInv, PublishMux PROVE OwnerInv'
  OBVIOUS
<1>1. ASSUME NEW p \in ports, NEW q \in ports, SlotOf(p) = SlotOf(q)
      PROVE  p = q
  <2>1. p.owner = q.owner
    BY <1>1 DEF OwnerInv, OwnersAgree
  <2>2. p \in MuxPorts /\ q \in MuxPorts
    BY DEF TypeInv, TypeOK
  <2> QED BY <1>1, <2>1, <2>2 DEF MuxPorts, SlotOf
<1>2. ports' = {} /\ muxPorts' \in {ports, muxPorts}
  BY DEF PublishMux, EndPass
<1> QED BY <1>1, <1>2 DEF OwnerInv, OwnersAgree, OneOwnerPerSlot

LEMMA NextOwners == TypeInv /\ OwnerInv /\ [Next]_vars => OwnerInv'
<1> SUFFICES ASSUME TypeInv, OwnerInv, [Next]_vars PROVE OwnerInv'
  OBVIOUS
<1> USE DEF api, pass, loop
<1>1. CASE Refresh \/ Load
  BY <1>1 DEF Refresh, Load, OwnerInv, OwnersAgree, OneOwnerPerSlot
<1>2. CASE SkipChannel \/ BeginChannel \/ ResolveStaticPort \/ ResolveAutoPort
           \/ AutoPortUnavailable \/ RejectConflict
  BY <1>2 DEF SkipChannel, BeginChannel, ResolveStaticPort, ResolveAutoPort,
              AutoPortUnavailable, RejectConflict, OwnerInv, OwnersAgree, OneOwnerPerSlot
<1>3. CASE AcceptChannel
  BY <1>3, AcceptOwners
<1>4. CASE SaveStore \/ SkipSave
  BY <1>4 DEF SaveStore, SkipSave, OwnerInv, OwnersAgree, OneOwnerPerSlot
<1>5. CASE ChannelGone \/ SaveFails \/ AbortPass
  BY <1>5 DEF ChannelGone, SaveFails, AbortPass, EndPass, OwnerInv, OwnersAgree, OneOwnerPerSlot
<1>6. CASE PublishMux
  BY <1>6, PublishOwners
<1>7. CASE \/ \E c \in Channels :
                IndexSync(c) \/ CreateChannel(c) \/ UpdateChannel(c) \/ DeleteChannel(c)
           \/ ChangeSettings \/ CorruptStore \/ DeleteStore
           \/ UNCHANGED vars
  <2>1. UNCHANGED <<pc, ports, owners, muxPorts>>
    BY <1>7 DEF IndexSync, CreateChannel, UpdateChannel, DeleteChannel, ChangeSettings,
                CorruptStore, DeleteStore, vars
  <2> QED BY <2>1 DEF OwnerInv, OwnersAgree, OneOwnerPerSlot
<1>8. CASE ResetMuxPorts
  BY <1>8 DEF ResetMuxPorts, OwnerInv, OwnersAgree, OneOwnerPerSlot
<1> QED
  BY <1>1, <1>2, <1>3, <1>4, <1>5, <1>6, <1>7, <1>8 DEF Next, Daemon, Environment

(* No interleaving of edits, faults and passes ever makes the mux carry a  *)
(* (port, protocol) for two channel ports.                                 *)
THEOREM SlotsHaveOneOwner == Spec => []OneOwnerPerSlot
<1>1. Init => TypeInv /\ OwnerInv
  BY InitType DEF Init, OwnerInv, OwnersAgree, OneOwnerPerSlot
<1>2. TypeInv /\ OwnerInv /\ [Next]_vars => (TypeInv /\ OwnerInv)'
  BY NextType, NextOwners
<1>3. OwnerInv => OneOwnerPerSlot
  BY DEF OwnerInv
<1> QED BY <1>1, <1>2, <1>3, PTL DEF Spec

-----------------------------------------------------------------------------
(* Disjoint claims.  A claim whose slot some channel asks for statically   *)
(* is known to port_owners, so the channel that asks cannot be accepted    *)
(* there; a claim that a rejected channel left behind was allocated away   *)
(* from every static request.                                              *)
ClaimsGuarded ==
  pc = "channels" =>
    \A k \in Keys : claims[k] # NoPort =>
       \/ owners[KeySlot(k, claims[k])] = KeyOwner(k)
       \/ KeySlot(k, claims[k]) \notin StaticPortClaims(snap)

(* What has been resolved is what was asked for, or is claimed already.    *)
ResolvedAsAsked ==
  pc = "channels" /\ cur # NoChannel =>
    \A n \in DOMAIN snap[cur].spec.ports : resolved[n] # NoPort =>
       LET d == snap[cur].spec.ports[n]
       IN  IF d.want = AutoPort THEN claims[<<cur, n, d.proto>>] = resolved[n]
                                ELSE resolved[n] = d.want

NothingResolved == cur = NoChannel => resolved = Unresolved

ClaimsInv ==
  /\ Disjoint(claims) /\ Disjoint(cm.claims)
  /\ ClaimsGuarded /\ ResolvedAsAsked /\ NothingResolved

LEMMA DisjointBasics ==
  /\ Disjoint(NoClaims)
  /\ \A cl \in Claims : \A sn : Disjoint(cl) => Disjoint(PruneInactive(cl, sn))
BY DEF Disjoint, NoClaims, PruneInactive, Claims

LEMMA LoadClaims == TypeInv /\ ClaimsInv /\ Load => ClaimsInv'
<1> SUFFICES ASSUME TypeInv, ClaimsInv, Load PROVE ClaimsInv'
  OBVIOUS
<1> DEFINE loaded == IF cm.status \in {"ok", "legacy"} THEN cm.claims ELSE NoClaims
           rec == ExistingPortOwners(index, oldPorts)
<1>1. loaded \in Claims /\ Disjoint(loaded)
  BY ClaimsType, DisjointBasics DEF TypeInv, TypeOK, StoreStates, ClaimsInv
<1>2. claims' = PruneInactive(loaded, index) /\ owners' = SeedPortOwners(claims', rec)
  BY DEF Load
<1>3. Disjoint(claims') /\ claims' \in Claims
  BY <1>1, <1>2, DisjointBasics, ClaimsType
<1>4. ASSUME NEW k \in Keys, claims'[k] # NoPort
      PROVE  owners'[KeySlot(k, claims'[k])] = KeyOwner(k)
  <2> DEFINE s == KeySlot(k, claims'[k])
  <2>1. s \in Slots
    BY <1>3, <1>4 DEF KeySlot, Slots, Keys, Claims
  <2>2. \A j \in ClaimKeys(claims', s) : j = k
    BY <1>3, <1>4 DEF ClaimKeys, KeySlot, Disjoint
  <2>3. k \in ClaimKeys(claims', s)
    BY <1>4 DEF ClaimKeys
  <2>4. (CHOOSE j \in ClaimKeys(claims', s) : TRUE) = k
    BY <2>2, <2>3
  <2> QED BY <1>2, <2>1, <2>3, <2>4 DEF SeedPortOwners
<1>5. UNCHANGED <<cm, cur, resolved>> /\ cur = NoChannel
  BY DEF Load, api, TypeInv, LoopOK
<1> QED BY <1>3, <1>4, <1>5 DEF ClaimsInv, ClaimsGuarded, ResolvedAsAsked, NothingResolved

LEMMA ResolveClaims ==
  TypeInv /\ ClaimsInv /\ (ResolveStaticPort \/ ResolveAutoPort) => ClaimsInv'
<1> USE DEF api, pass, loop
<1> HIDE DEF NextKey, NextWant, NextAllocation
<1>1. ASSUME TypeInv, ClaimsInv, ResolveStaticPort PROVE ClaimsInv'
  <2> DEFINE m == NextKey[2]
  <2>1. /\ m \in DOMAIN snap[cur].spec.ports /\ m \in PortNames
        /\ NextWant = snap[cur].spec.ports[m].want
    BY <1>1, NextKeyType DEF ResolveStaticPort, NextWant
  <2>2. resolved' = [resolved EXCEPT ![m] = NextWant] /\ NextWant # AutoPort
        /\ resolved \in Annotations
    BY <1>1 DEF ResolveStaticPort, TypeInv, TypeOK
  <2>3. UNCHANGED <<claims, cm, owners, snap, cur, pc>> /\ cur # NoChannel
    BY <1>1 DEF ResolveStaticPort
  <2>4. ResolvedAsAsked'
    BY <1>1, <2>1, <2>2, <2>3 DEF ClaimsInv, ResolvedAsAsked, Annotations
  <2> QED BY <1>1, <2>3, <2>4 DEF ClaimsInv, ClaimsGuarded, NothingResolved
<1>2. ASSUME TypeInv, ClaimsInv, ResolveAutoPort PROVE ClaimsInv'
  <2> DEFINE m == NextKey[2]
             p == NextAllocation
  <2>1. /\ NextKey \in Keys /\ m \in DOMAIN snap[cur].spec.ports /\ m \in PortNames
        /\ NextKey[1] = cur /\ NextKey[3] = snap[cur].spec.ports[m].proto
        /\ p \in Ports
        /\ snap[cur].spec.ports[m].want = AutoPort
    BY <1>2, NextKeyType DEF ResolveAutoPort, NextWant
  <2>2. /\ p # NoPort
        /\ \A j \in Keys \ {NextKey} : claims[j] = p => j[3] # NextKey[3]
        /\ <<p, NextKey[3]>> \notin StaticPortClaims(snap)
    <3>1. conf.range \in Seq(Ports) /\ claims \in Claims
      BY <1>2 DEF TypeInv, TypeOK, MuxSettings
    <3>2. p = Allocate(conf.range, claims, StaticPortClaims(snap),
                       ExistingPortOwners(snap, oldPorts), NextKey)
      BY DEF NextAllocation
    <3>3. p # NoPort
      BY <1>2 DEF ResolveAutoPort
    <3> HIDE DEF p
    <3> QED BY <2>1, <3>1, <3>2, <3>3, AllocationIsFree
  <2>3. /\ claims' = [claims EXCEPT ![NextKey] = p] /\ claims \in Claims
        /\ resolved' = [resolved EXCEPT ![m] = p] /\ resolved \in Annotations
        /\ UNCHANGED <<cm, owners, snap, cur, pc>> /\ cur # NoChannel
        /\ pc = "channels"
    BY <1>2 DEF ResolveAutoPort, TypeInv, TypeOK
  <2> HIDE DEF p, m
  <2>4. Disjoint(claims')
    BY <1>2, <2>1, <2>2, <2>3 DEF ClaimsInv, Disjoint, Claims
  <2>5. ClaimsGuarded'
    BY <1>2, <2>1, <2>2, <2>3 DEF ClaimsInv, ClaimsGuarded, Claims, KeySlot
  <2>6. ResolvedAsAsked'
    <3> SUFFICES ASSUME NEW n \in DOMAIN snap[cur].spec.ports, resolved'[n] # NoPort
                 PROVE  LET d == snap[cur].spec.ports[n]
                        IN  IF d.want = AutoPort
                            THEN claims'[<<cur, n, d.proto>>] = resolved'[n]
                            ELSE resolved'[n] = d.want
      BY <2>3 DEF ResolvedAsAsked
    <3>0. cur \in Channels /\ snap[cur] \in Bodies
      BY <1>2, <2>3 DEF TypeInv, TypeOK, LoopOK, Snapshots
    <3>1. n \in PortNames /\ <<cur, n, snap[cur].spec.ports[n].proto>> \in Keys
      BY <3>0, BodyType DEF Keys, PortDecls
    <3>2. NextKey = <<cur, m, snap[cur].spec.ports[m].proto>>
      BY <2>1 DEF Keys, m
    <3>3. CASE n = m
      BY <2>1, <2>3, <3>1, <3>2, <3>3 DEF Claims, Annotations
    <3>4. CASE n # m
      <4>1. <<cur, n, snap[cur].spec.ports[n].proto>> # NextKey
        BY <3>2, <3>4
      <4>2. /\ resolved'[n] = resolved[n]
            /\ claims'[<<cur, n, snap[cur].spec.ports[n].proto>>]
                 = claims[<<cur, n, snap[cur].spec.ports[n].proto>>]
        BY <2>3, <3>1, <3>4, <4>1 DEF Claims, Annotations
      <4> QED BY <1>2, <2>3, <4>2 DEF ClaimsInv, ResolvedAsAsked
    <3> QED BY <3>3, <3>4
  <2> QED BY <1>2, <2>3, <2>4, <2>5, <2>6 DEF ClaimsInv, NothingResolved
<1> QED BY <1>1, <1>2

(* The claims of an accepted channel are those of its mux ports, the       *)
(* others stay.                                                            *)
LEMMA AcceptedClaims ==
  ASSUME TypeInv, AcceptChannel, NEW k \in Keys
  PROVE  \/ /\ k[1] = cur /\ k[2] \in DOMAIN snap[cur].spec.ports
            /\ k[3] = snap[cur].spec.ports[k[2]].proto
            /\ claims'[k] = resolved[k[2]]
            /\ \E p \in CurPorts : /\ p.owner = KeyOwner(k)
                                   /\ SlotOf(p) = KeySlot(k, claims'[k])
         \/ claims'[k] = claims[k]
<1>1. claims' = RecordClaims(claims, cur, snap[cur], resolved)
  BY DEF AcceptChannel
<1>2. CASE /\ k[1] = cur /\ k[2] \in DOMAIN snap[cur].spec.ports
           /\ k[3] = snap[cur].spec.ports[k[2]].proto
  <2>1. claims'[k] = resolved[k[2]]
    BY <1>1, <1>2 DEF RecordClaims
  <2> DEFINE p == [owner |-> <<cur, k[2]>>, port |-> resolved[k[2]],
                   proto |-> snap[cur].spec.ports[k[2]].proto]
  <2>2. p \in CurPorts
    BY <1>2 DEF CurPorts, ChannelPorts
  <2>3. p.owner = KeyOwner(k) /\ SlotOf(p) = KeySlot(k, claims'[k])
    BY <1>2, <2>1 DEF KeyOwner, SlotOf, KeySlot
  <2> QED BY <1>2, <2>1, <2>2, <2>3
<1>3. CASE ~(/\ k[1] = cur /\ k[2] \in DOMAIN snap[cur].spec.ports
             /\ k[3] = snap[cur].spec.ports[k[2]].proto)
  BY <1>1, <1>3 DEF RecordClaims
<1> QED BY <1>2, <1>3

LEMMA AcceptClaims == TypeInv /\ ClaimsInv /\ AcceptChannel => ClaimsInv'
<1> SUFFICES ASSUME TypeInv, ClaimsInv, AcceptChannel PROVE ClaimsInv'
  OBVIOUS
<1> DEFINE mine(k) == /\ k[1] = cur /\ k[2] \in DOMAIN snap[cur].spec.ports
                      /\ k[3] = snap[cur].spec.ports[k[2]].proto
                      /\ claims'[k] = resolved[k[2]]
                      /\ \E p \in CurPorts : /\ p.owner = KeyOwner(k)
                                             /\ SlotOf(p) = KeySlot(k, claims'[k])
<1>1. \A k \in Keys : mine(k) \/ claims'[k] = claims[k]
  BY AcceptedClaims
<1>2. /\ cur \in Channels /\ snap[cur] \in Bodies /\ snap[cur] # NoChannel
      /\ snap[cur].spec.valid /\ pc = "channels" /\ cur # NoChannel
      /\ claims \in Claims /\ claims' \in Claims /\ owners \in OwnerMaps
      /\ CurPorts \subseteq MuxPorts /\ FindConflicts(owners, CurPorts) = {}
      /\ \A n \in DOMAIN snap[cur].spec.ports : resolved[n] # NoPort
  <2>1. Resolved
    BY DEF AcceptChannel
  <2>2. claims' \in Claims
    BY ChannelType DEF TypeInv, TypeOK
  <2> QED BY <2>1, <2>2, ResolvedType
          DEF AcceptChannel, Resolved, Unfinished, TypeInv, TypeOK, LoopOK
(* A claim of somebody else in a slot of the channel: port_owners knows    *)
(* it, or the slot was asked for automatically and allocated as free.      *)
<1>3. ASSUME NEW k \in Keys, NEW j \in Keys, mine(k),
             claims[j] # NoPort, claims[j] = claims'[k], j[3] = k[3]
      PROVE  j = k
  <2> DEFINE d == snap[cur].spec.ports[k[2]]
             s == KeySlot(k, claims'[k])
  <2>1. claims'[k] = resolved[k[2]] /\ resolved[k[2]] # NoPort
    BY <1>2, <1>3
  <2>2. k = <<cur, k[2], d.proto>>
    BY <1>3 DEF Keys
  <2>3. CASE d.want = AutoPort
    <3>1. claims[k] = resolved[k[2]]
      BY <1>2, <1>3, <2>1, <2>2, <2>3 DEF ClaimsInv, ResolvedAsAsked
    <3> QED BY <1>3, <2>1, <3>1 DEF ClaimsInv, Disjoint
  <2>4. CASE d.want # AutoPort
    <3>1. resolved[k[2]] = d.want
      BY <1>2, <1>3, <2>1, <2>4 DEF ClaimsInv, ResolvedAsAsked
    <3>2. KeyOwner(k) \in Declared(snap) /\ Decl(snap, KeyOwner(k)) = d
          /\ KeyOwner(k)[1] = cur
      BY <1>2, <1>3 DEF KeyOwner, Declared, Decl, Owners, Keys
    <3>3. s \in StaticPortClaims(snap)
      <4>1. s = <<d.want, d.proto>>
        BY <1>3, <2>1, <3>1 DEF KeySlot
      <4> QED BY <1>2, <2>4, <3>2, <4>1 DEF StaticPortClaims
    <3>4. KeySlot(j, claims[j]) = s
      BY <1>3 DEF KeySlot
    <3>5. owners[s] = KeyOwner(j)
      BY <1>2, <1>3, <3>3, <3>4 DEF ClaimsInv, ClaimsGuarded
    <3>6. PICK p \in CurPorts : p.owner = KeyOwner(k) /\ SlotOf(p) = s
      BY <1>3
    <3>7. owners[s] \in {NoOwner, KeyOwner(k)}
      BY <1>2, <3>6 DEF FindConflicts
    <3>8. KeyOwner(j) # NoOwner
      BY ReconcileAssumption DEF KeyOwner, Keys, Owners
    <3>9. KeyOwner(j) = KeyOwner(k)
      BY <3>5, <3>7, <3>8
    <3> QED BY <1>3, <3>9 DEF KeyOwner, Keys
  <2> QED BY <2>3, <2>4
<1>4. ASSUME NEW k \in Keys, NEW j \in Keys, mine(k), mine(j),
             claims'[j] = claims'[k], j[3] = k[3]
      PROVE  j = k
  <2>1. PICK p \in CurPorts : p.owner = KeyOwner(k) /\ SlotOf(p) = KeySlot(k, claims'[k])
    BY <1>4
  <2>2. PICK q \in CurPorts : q.owner = KeyOwner(j) /\ SlotOf(q) = KeySlot(j, claims'[j])
    BY <1>4
  <2>3. SlotOf(p) = SlotOf(q)
    BY <1>4, <2>1, <2>2 DEF KeySlot
  <2>4. p = q
    BY <1>2, <2>3 DEF FindConflicts
  <2> QED BY <1>4, <2>1, <2>2, <2>4 DEF KeyOwner, Keys
<1> HIDE DEF mine
<1>5. Disjoint(claims')
  <2> SUFFICES ASSUME NEW j \in Keys, NEW k \in Keys, claims'[j] # NoPort,
                      claims'[j] = claims'[k], j[3] = k[3]
               PROVE  j = k
    BY DEF Disjoint
  <2>1. CASE mine(j) /\ mine(k)
    BY <1>4, <2>1
  <2>2. CASE mine(k) /\ claims'[j] = claims[j]
    BY <1>3, <2>2
  <2>3. CASE mine(j) /\ claims'[k] = claims[k]
    BY <1>3, <2>3
  <2>4. CASE claims'[j] = claims[j] /\ claims'[k] = claims[k]
    BY <2>4 DEF ClaimsInv, Disjoint
  <2> QED BY <1>1, <2>1, <2>2, <2>3, <2>4
<1>6. ClaimsGuarded'
  <2>1. /\ \A p \in CurPorts : owners'[SlotOf(p)] = p.owner
        /\ \A s \in Slots : owners[s] # NoOwner => owners'[s] = owners[s]
    BY <1>2, UpdateOwnersKeeps DEF AcceptChannel
  <2>2. snap' = snap
    BY DEF AcceptChannel
  <2> SUFFICES ASSUME NEW k \in Keys, claims'[k] # NoPort
               PROVE  \/ owners'[KeySlot(k, claims'[k])] = KeyOwner(k)
                      \/ KeySlot(k, claims'[k]) \notin StaticPortClaims(snap)
    BY <2>2 DEF ClaimsGuarded
  <2>3. CASE mine(k)
    BY <2>1, <2>3 DEF mine
  <2>4. CASE claims'[k] = claims[k]
    <3>1. KeySlot(k, claims[k]) \in Slots
      BY <1>2, <2>4 DEF KeySlot, Slots, Keys, Claims
    <3>2. KeyOwner(k) # NoOwner
      BY ReconcileAssumption DEF KeyOwner, Keys, Owners
    <3> QED BY <1>2, <2>1, <2>4, <3>1, <3>2 DEF ClaimsInv, ClaimsGuarded
  <2> QED BY <1>1, <2>3, <2>4
<1>7. cur' = NoChannel /\ resolved' = Unresolved /\ cm' = cm
  BY DEF AcceptChannel, NextChannel
<1> QED BY <1>5, <1>6, <1>7 DEF ClaimsInv, ResolvedAsAsked, NothingResolved

LEMMA NextClaims == TypeInv /\ ClaimsInv /\ [Next]_vars => ClaimsInv'
<1> SUFFICES ASSUME TypeInv, ClaimsInv, [Next]_vars PROVE ClaimsInv'
  OBVIOUS
<1> USE DEF api, pass, loop
<1>1. CASE Load
  BY <1>1, LoadClaims
<1>2. CASE ResolveStaticPort \/ ResolveAutoPort
  BY <1>2, ResolveClaims
<1>3. CASE AcceptChannel
  BY <1>3, AcceptClaims
<1>4. CASE Refresh
  BY <1>4 DEF Refresh, ClaimsInv, ClaimsGuarded, ResolvedAsAsked, NothingResolved
<1>5. CASE SkipChannel
  BY <1>5 DEF SkipChannel, ClaimsInv, ClaimsGuarded, ResolvedAsAsked, NothingResolved
<1>6. CASE BeginChannel
  <2>1. cur = NoChannel /\ cur' \in Channels /\ resolved' = Unresolved
        /\ UNCHANGED <<cm, claims, owners, snap, pc>>
    <3>1. todo \in SUBSET Channels /\ todo # {}
      BY <1>6 DEF BeginChannel, TypeInv, TypeOK
    <3>2. First(todo) \in Channels
      BY <3>1, FirstIsLeast, ReconcileAssumption
    <3> QED BY <1>6, <3>2 DEF BeginChannel, ClaimsInv, NothingResolved
  <2>2. ResolvedAsAsked'
    <3>1. cur' = First(todo) /\ First(todo) \in Channels /\ snap[First(todo)] \in Bodies
      <4>1. todo \in SUBSET Channels /\ todo # {}
        BY <1>6 DEF BeginChannel, TypeInv, TypeOK
      <4>2. First(todo) \in todo /\ First(todo) \in Channels
        BY <4>1, FirstIsLeast, ReconcileAssumption
      <4> QED BY <1>6, <4>2 DEF BeginChannel, TypeInv, TypeOK, LoopOK, Snapshots
    <3>2. DOMAIN snap[First(todo)].spec.ports \subseteq PortNames
      BY <3>1, BodyType
    <3> QED BY <2>1, <3>1, <3>2 DEF ResolvedAsAsked, Unresolved
  <2> QED BY <2>1, <2>2, ReconcileAssumption DEF ClaimsInv, ClaimsGuarded, NothingResolved
<1>7. CASE AutoPortUnavailable \/ RejectConflict
  BY <1>7 DEF AutoPortUnavailable, RejectConflict, NextChannel,
              ClaimsInv, ClaimsGuarded, ResolvedAsAsked, NothingResolved
<1>8. CASE SaveStore \/ SkipSave
  BY <1>8 DEF SaveStore, SkipSave, ClaimsInv, ClaimsGuarded, ResolvedAsAsked, NothingResolved
<1>9. CASE ChannelGone \/ SaveFails \/ AbortPass \/ PublishMux
  <2>1. EndPass /\ cm' = cm
    BY <1>9 DEF ChannelGone, SaveFails, AbortPass, PublishMux
  <2> QED BY <2>1, DisjointBasics
          DEF EndPass, ClaimsInv, ClaimsGuarded, ResolvedAsAsked, NothingResolved
<1>10. CASE CorruptStore \/ DeleteStore
  <2>1. cm'.claims = NoClaims /\ UNCHANGED <<pc, pass, loop>>
    BY <1>10 DEF CorruptStore, DeleteStore, NoStore
  <2> QED BY <2>1, DisjointBasics
          DEF ClaimsInv, ClaimsGuarded, ResolvedAsAsked, NothingResolved
<1>11. CASE \/ \E c \in Channels :
                 IndexSync(c) \/ CreateChannel(c) \/ UpdateChannel(c) \/ DeleteChannel(c)
            \/ ChangeSettings \/ ResetMuxPorts \/ UNCHANGED vars
  <2>1. UNCHANGED <<pc, pass, loop, cm>>
    BY <1>11 DEF IndexSync, CreateChannel, UpdateChannel, DeleteChannel, ChangeSettings,
                 ResetMuxPorts, vars
  <2> QED BY <2>1 DEF ClaimsInv, ClaimsGuarded, ResolvedAsAsked, NothingResolved
<1> QED
  BY <1>1, <1>2, <1>3, <1>4, <1>5, <1>6, <1>7, <1>8, <1>9, <1>10, <1>11
  DEF Next, Daemon, Environment

(* The state ConfigMap never gives one slot to two channel ports.          *)
THEOREM ClaimsStayDisjoint == Spec => []PersistedClaimsDisjoint
<1>1. Init => TypeInv /\ ClaimsInv
  <2>1. Init => Disjoint(cm.claims)
    BY ReconcileAssumption, DisjointBasics DEF Init, NoStore
  <2> QED BY <2>1, InitType, DisjointBasics
          DEF Init, ClaimsInv, ClaimsGuarded, ResolvedAsAsked, NothingResolved
<1>2. TypeInv /\ ClaimsInv /\ [Next]_vars => (TypeInv /\ ClaimsInv)'
  BY NextType, NextClaims
<1>3. ClaimsInv => PersistedClaimsDisjoint
  BY DEF ClaimsInv, PersistedClaimsDisjoint
<1> QED BY <1>1, <1>2, <1>3, PTL DEF Spec

-----------------------------------------------------------------------------
(* Claims before ports.  Every accepted port is claimed in memory, under a *)
(* channel the loop does not come back to; what SaveStore leaves out is    *)
(* what the ConfigMap already says.                                        *)
PortKey(p) == <<p.owner[1], p.owner[2], p.proto>>

AcceptedAreClaimed ==
  /\ pc \in {"idle", "load"} => ports = {}
  /\ pc = "channels" =>
       \A p \in ports : /\ claims[PortKey(p)] = p.port
                        /\ p.owner[1] \notin todo \cup {cur}
  /\ pc = "publish" /\ cm.status = "ok" => \A p \in ports : cm.claims[PortKey(p)] = p.port

StoreInSync ==
  /\ pc = "channels" /\ store = "exists" /\ ~changed /\ cm.status = "ok" => claims = cm.claims
  /\ pc = "channels" /\ store = "none" => cm.status # "ok"

WriteInv == AcceptedAreClaimed /\ StoreInSync

LEMMA AcceptWrites == TypeInv /\ WriteInv /\ AcceptChannel => WriteInv'
<1> SUFFICES ASSUME TypeInv, WriteInv, AcceptChannel PROVE WriteInv'
  OBVIOUS
<1>1. /\ Resolved /\ pc = "channels" /\ pc' = "channels" /\ cur \in Channels
      /\ cur # NoChannel /\ snap[cur] \in Bodies /\ cur \notin todo
      /\ CurPorts \subseteq MuxPorts /\ ports \subseteq MuxPorts
      /\ ports' = ports \cup CurPorts /\ cur' = NoChannel
      /\ UNCHANGED <<cm, store, todo>>
      /\ changed' = (changed \/ claims' # claims)
      /\ claims' = RecordClaims(claims, cur, snap[cur], resolved)
  <2>1. Resolved
    BY DEF AcceptChannel
  <2> QED BY <2>1, ResolvedType
          DEF AcceptChannel, NextChannel, Resolved, TypeInv, TypeOK, LoopOK
<1>2. \A p \in MuxPorts : PortKey(p) \in Keys
  BY DEF MuxPorts, Owners, Keys, PortKey
<1>3. ASSUME NEW p \in CurPorts
      PROVE  claims'[PortKey(p)] = p.port /\ p.owner[1] = cur
  <2>1. /\ p.owner[1] = cur /\ p.owner[2] \in DOMAIN snap[cur].spec.ports
        /\ p.port = resolved[p.owner[2]]
        /\ p.proto = snap[cur].spec.ports[p.owner[2]].proto
    BY <1>1, ResolvedType
  <2> QED BY <1>1, <1>2, <2>1 DEF RecordClaims, PortKey
<1>4. ASSUME NEW p \in ports
      PROVE  claims'[PortKey(p)] = p.port /\ p.owner[1] \notin todo \cup {cur}
  <2>1. claims[PortKey(p)] = p.port /\ p.owner[1] \notin todo \cup {cur}
    BY <1>1 DEF WriteInv, AcceptedAreClaimed
  <2>2. PortKey(p)[1] # cur
    BY <2>1 DEF PortKey
  <2> QED BY <1>1, <1>2, <2>1, <2>2 DEF RecordClaims
<1>5. \A p \in MuxPorts : p.owner[1] # NoChannel
  BY ReconcileAssumption DEF MuxPorts, Owners
<1>6. AcceptedAreClaimed'
  BY <1>1, <1>3, <1>4, <1>5 DEF AcceptedAreClaimed
<1>7. StoreInSync'
  BY <1>1 DEF WriteInv, StoreInSync
<1> QED BY <1>6, <1>7 DEF WriteInv

LEMMA NextWrites == TypeInv /\ WriteInv /\ [Next]_vars => WriteInv'
<1> SUFFICES ASSUME TypeInv, WriteInv, [Next]_vars PROVE WriteInv'
  OBVIOUS
<1> USE DEF api, pass, loop, WriteInv
<1>0. \A p \in MuxPorts : PortKey(p) \in Keys /\ p.owner[1] \in Channels /\ p.owner[1] # NoChannel
  BY ReconcileAssumption DEF MuxPorts, Owners, Keys, PortKey
<1>1. CASE AcceptChannel
  BY <1>1, AcceptWrites
<1>2. CASE Refresh
  BY <1>2 DEF Refresh, AcceptedAreClaimed, StoreInSync
<1>3. CASE Load
  <2>1. ports' = {} /\ pc' = "channels" /\ cm' = cm
    BY <1>3 DEF Load, AcceptedAreClaimed
  <2>2. AcceptedAreClaimed'
    BY <2>1 DEF AcceptedAreClaimed
  <2>3. store' = "none" => cm.status = "corrupt"
    BY <1>3 DEF Load
  <2>4. ~changed' /\ cm.status = "ok" => claims' = cm.claims
    BY <1>3 DEF Load
  <2> QED BY <2>1, <2>2, <2>3, <2>4 DEF StoreInSync
<1>4. CASE SkipChannel
  BY <1>4 DEF SkipChannel, AcceptedAreClaimed, StoreInSync
<1>5. CASE BeginChannel
  <2>1. cur' \in todo /\ todo' \subseteq todo /\ UNCHANGED <<cm, pc, pass>>
    <3>1. todo \in SUBSET Channels /\ todo # {}
      BY <1>5 DEF BeginChannel, TypeInv, TypeOK
    <3>2. First(todo) \in todo
      BY <3>1, FirstIsLeast, ReconcileAssumption
    <3> QED BY <1>5, <3>2 DEF BeginChannel
  <2> QED BY <2>1 DEF AcceptedAreClaimed, StoreInSync
<1>6. CASE AutoPortUnavailable \/ RejectConflict
  <2>1. cur' = NoChannel /\ UNCHANGED <<cm, pc, pass, todo>> /\ ports \subseteq MuxPorts
    BY <1>6 DEF AutoPortUnavailable, RejectConflict, NextChannel, TypeInv, TypeOK
  <2> QED BY <1>0, <2>1 DEF AcceptedAreClaimed, StoreInSync
<1>7. CASE ResolveStaticPort
  BY <1>7 DEF ResolveStaticPort, AcceptedAreClaimed, StoreInSync
<1>8. CASE ResolveAutoPort
  <2> HIDE DEF NextKey, NextAllocation
  <2>1. /\ NextKey \in Keys /\ NextKey[1] = cur /\ pc = "channels"
        /\ claims' = [claims EXCEPT ![NextKey] = NextAllocation]
        /\ changed' = (changed \/ claims' # claims) /\ claims \in Claims
        /\ UNCHANGED <<cm, pc, store, ports, todo, cur>> /\ ports \subseteq MuxPorts
    BY <1>8, NextKeyType DEF ResolveAutoPort, TypeInv, TypeOK
  <2>2. ASSUME NEW p \in ports
        PROVE  claims'[PortKey(p)] = p.port
    <3>1. claims[PortKey(p)] = p.port /\ p.owner[1] # cur /\ PortKey(p) \in Keys
      BY <1>0, <2>1 DEF AcceptedAreClaimed
    <3>2. PortKey(p) # NextKey
      BY <2>1, <3>1 DEF PortKey
    <3> QED BY <2>1, <3>1, <3>2 DEF Claims
  <2> QED BY <2>1, <2>2 DEF AcceptedAreClaimed, StoreInSync
<1>9. CASE SaveStore
  BY <1>9 DEF SaveStore, AllChannelsDone, AcceptedAreClaimed, StoreInSync
<1>10. CASE SkipSave
  <2>1. cm.status = "ok" => claims = cm.claims
    BY <1>10 DEF SkipSave, AllChannelsDone, NeedsSave, StoreInSync, TypeInv, TypeOK
  <2> QED BY <1>10, <2>1 DEF SkipSave, AllChannelsDone, AcceptedAreClaimed, StoreInSync
<1>11. CASE ChannelGone \/ SaveFails \/ AbortPass \/ PublishMux
  <2>1. EndPass
    BY <1>11 DEF ChannelGone, SaveFails, AbortPass, PublishMux
  <2> QED BY <2>1 DEF EndPass, AcceptedAreClaimed, StoreInSync
<1>12. CASE CorruptStore \/ DeleteStore
  <2>1. cm'.status # "ok" /\ UNCHANGED <<pc, pass, loop>>
    BY <1>12 DEF CorruptStore, DeleteStore, NoStore
  <2> QED BY <2>1 DEF AcceptedAreClaimed, StoreInSync
<1>13. CASE \/ \E c \in Channels :
                 IndexSync(c) \/ CreateChannel(c) \/ UpdateChannel(c) \/ DeleteChannel(c)
            \/ ChangeSettings \/ ResetMuxPorts \/ UNCHANGED vars
  <2>1. UNCHANGED <<pc, pass, loop, cm>>
    BY <1>13 DEF IndexSync, CreateChannel, UpdateChannel, DeleteChannel, ChangeSettings,
                 ResetMuxPorts, vars
  <2> QED BY <2>1 DEF AcceptedAreClaimed, StoreInSync
<1> QED
  BY <1>1, <1>2, <1>3, <1>4, <1>5, <1>6, <1>7, <1>8, <1>9, <1>10, <1>11, <1>12, <1>13
  DEF Next, Daemon, Environment

LEMMA OnlyPublishWrites ==
  ASSUME TypeInv, WriteInv, [Next]_vars, cm.status = "ok", muxPorts' # muxPorts
  PROVE  \A p \in muxPorts' : cm.claims[<<p.owner[1], p.owner[2], p.proto>>] = p.port
<1>1. PublishMux \/ ResetMuxPorts
  BY DEF Next, Daemon, Environment, vars, api, Refresh, Load, SkipChannel, BeginChannel,
         ResolveStaticPort, ResolveAutoPort, AutoPortUnavailable, RejectConflict,
         AcceptChannel, ChannelGone, SaveStore, SkipSave, SaveFails, IndexSync,
         CreateChannel, UpdateChannel, DeleteChannel, ChangeSettings, AbortPass,
         CorruptStore, DeleteStore
<1>2. CASE PublishMux
  BY <1>2 DEF PublishMux, WriteInv, AcceptedAreClaimed, PortKey
<1>3. CASE ResetMuxPorts
  BY <1>3 DEF ResetMuxPorts
<1> QED BY <1>1, <1>2, <1>3

(* A crash after the mux was patched finds the owner of every port in the  *)
(* state, unless the state itself was overwritten or deleted.              *)
THEOREM ClaimsArePersistedFirst == Spec => PublishedPortsAreClaimed
<1>1. Init => TypeInv /\ WriteInv
  BY InitType DEF Init, WriteInv, AcceptedAreClaimed, StoreInSync
<1>2. TypeInv /\ WriteInv /\ [Next]_vars => (TypeInv /\ WriteInv)'
  BY NextType, NextWrites
<1>3. TypeInv /\ WriteInv /\ [Next]_vars =>
        [cm.status = "ok" =>
           \A p \in muxPorts' :
              cm.claims[<<p.owner[1], p.owner[2], p.proto>>] = p.port]_muxPorts
  BY OnlyPublishWrites
<1> QED BY <1>1, <1>2, <1>3, PTL DEF Spec, PublishedPortsAreClaimed

-----------------------------------------------------------------------------
(* Live ports.  A slot the mux serves for a declared channel port has an   *)
(* owner in port_owners throughout the pass: that channel port, or one     *)
(* with a persisted claim, which then has nothing new to record there.     *)
AsksFor(k, s) ==
  KeyOwner(k) \in Declared(snap) /\ Decl(snap, KeyOwner(k)).want = s[1] /\ k[3] = s[2]

LiveGuarded ==
  pc = "channels" =>
    \A s \in Slots : \A o \in LivePortOwners(snap, oldPorts, s) :
       \/ owners[s] = o
       \/ /\ owners[s] # NoOwner
          /\ \A k \in Keys : AsksFor(k, s) /\ KeyOwner(k) = owners[s] => claims[k] = s[1]

OldPortsDisjoint == \A p, q \in oldPorts : SlotOf(p) = SlotOf(q) => p = q

LiveInv == OldPortsDisjoint /\ LiveGuarded

(* The mux names at most one owner for a slot, and recovery finds it.      *)
LEMMA LiveOwnerRecovered ==
  ASSUME NEW sn, NEW mp, NEW s \in Slots, NEW o \in LivePortOwners(sn, mp, s),
         \A p, q \in mp : SlotOf(p) = SlotOf(q) => p = q
  PROVE  LivePortOwners(sn, mp, s) = {o} /\ ExistingPortOwners(sn, mp)[s] = o
<1>1. \A w \in LivePortOwners(sn, mp, s) : w = o
  BY DEF LivePortOwners
<1>2. LivePortOwners(sn, mp, s) = {o}
  BY <1>1
<1>3. (CHOOSE w \in LivePortOwners(sn, mp, s) : TRUE) = o
  BY <1>2
<1> QED BY <1>2, <1>3 DEF ExistingPortOwners

LEMMA LoadLive == TypeInv /\ LiveInv /\ Load => LiveInv'
<1> SUFFICES ASSUME TypeInv, LiveInv, Load PROVE LiveInv'
  OBVIOUS
<1> DEFINE rec == ExistingPortOwners(index, oldPorts)
<1>1. owners' = SeedPortOwners(claims', rec) /\ snap' = index /\ oldPorts' = oldPorts
  BY DEF Load
<1>2. ASSUME NEW s \in Slots, NEW o \in LivePortOwners(index, oldPorts, s)
      PROVE  \/ owners'[s] = o
             \/ /\ owners'[s] # NoOwner
                /\ \A k \in Keys : k[3] = s[2] /\ KeyOwner(k) = owners'[s] => claims'[k] = s[1]
  <2>1. CASE ClaimKeys(claims', s) = {}
    <3>1. rec[s] = o
      BY LiveOwnerRecovered DEF LiveInv, OldPortsDisjoint
    <3> QED BY <1>1, <2>1, <3>1 DEF SeedPortOwners
  <2>2. CASE ClaimKeys(claims', s) # {}
    <3>1. PICK j \in ClaimKeys(claims', s) : owners'[s] = KeyOwner(j)
      BY <1>1, <2>2 DEF SeedPortOwners
    <3>2. j \in Keys /\ j[3] = s[2] /\ claims'[j] = s[1]
      BY <3>1 DEF ClaimKeys, KeySlot
    <3>3. KeyOwner(j) # NoOwner
      BY <3>2, ReconcileAssumption DEF KeyOwner, Keys, Owners
    <3>4. \A k \in Keys : k[3] = j[3] /\ KeyOwner(k) = KeyOwner(j) => k = j
      BY <3>2 DEF KeyOwner, Keys
    <3> QED BY <3>1, <3>2, <3>3, <3>4
  <2> QED BY <2>1, <2>2
<1> QED BY <1>1, <1>2 DEF LiveInv, OldPortsDisjoint, LiveGuarded, AsksFor

(* An automatic port changes no claim on a static request.                 *)
LEMMA ResolveLive == TypeInv /\ LiveInv /\ ResolveAutoPort => LiveInv'
<1> SUFFICES ASSUME TypeInv, LiveInv, ResolveAutoPort PROVE LiveInv'
  OBVIOUS
<1>1. UNCHANGED <<pc, oldPorts, snap, owners>> /\ pc = "channels"
  BY DEF ResolveAutoPort
<1>2. /\ NextKey \in Keys /\ claims \in Claims
      /\ claims' = [claims EXCEPT ![NextKey] = NextAllocation]
      /\ Decl(snap, KeyOwner(NextKey)).want = AutoPort
  BY NextKeyType DEF ResolveAutoPort, NextWant, Decl, KeyOwner, TypeInv, TypeOK
<1>3. ASSUME NEW k \in Keys, NEW s \in Slots, AsksFor(k, s)
      PROVE  claims'[k] = claims[k]
  <2>1. Decl(snap, KeyOwner(k)).want # AutoPort
    BY <1>3, ReconcileAssumption DEF AsksFor, Slots
  <2>2. k # NextKey
    BY <1>2, <2>1
  <2> QED BY <1>2, <2>2 DEF Claims
<1> QED BY <1>1, <1>3 DEF LiveInv, OldPortsDisjoint, LiveGuarded, AsksFor

(* A channel is accepted only in slots that are free or its own.           *)
LEMMA AcceptLive == TypeInv /\ ClaimsInv /\ LiveInv /\ AcceptChannel => LiveInv'
<1> SUFFICES ASSUME TypeInv, ClaimsInv, LiveInv, AcceptChannel PROVE LiveInv'
  OBVIOUS
<1>1. /\ UNCHANGED <<pc, oldPorts, snap>> /\ pc = "channels" /\ cur # NoChannel
      /\ owners \in OwnerMaps
      /\ CurPorts \subseteq MuxPorts /\ FindConflicts(owners, CurPorts) = {}
      /\ owners' = UpdateOwners(owners, CurPorts)
      /\ \A n \in DOMAIN snap[cur].spec.ports : resolved[n] # NoPort
  <2>1. Resolved
    BY DEF AcceptChannel
  <2> QED BY <2>1, ResolvedType
          DEF AcceptChannel, Resolved, Unfinished, TypeInv, TypeOK
<1>2. \A s \in Slots : owners[s] # NoOwner => owners'[s] = owners[s]
  BY <1>1, UpdateOwnersKeeps
<1>3. ASSUME NEW k \in Keys, NEW s \in Slots, AsksFor(k, s), claims[k] = s[1]
      PROVE  claims'[k] = s[1]
  <2>1. CASE /\ k[1] = cur /\ k[2] \in DOMAIN snap[cur].spec.ports
             /\ claims'[k] = resolved[k[2]]
    <3>1. Decl(snap, KeyOwner(k)) = snap[cur].spec.ports[k[2]]
      BY <2>1 DEF Decl, KeyOwner
    <3>2. snap[cur].spec.ports[k[2]].want = s[1] /\ s[1] # AutoPort
      BY <1>3, <3>1, ReconcileAssumption DEF AsksFor, Slots
    <3>3. resolved[k[2]] = snap[cur].spec.ports[k[2]].want
      BY <1>1, <2>1, <3>2 DEF ClaimsInv, ResolvedAsAsked
    <3> QED BY <2>1, <3>2, <3>3
  <2>2. CASE claims'[k] = claims[k]
    BY <1>3, <2>2
  <2> QED BY <2>1, <2>2, AcceptedClaims
<1>4. \A s \in Slots : \A o \in LivePortOwners(snap, oldPorts, s) : owners[s] # NoOwner
  <2>1. \A s : \A o \in LivePortOwners(snap, oldPorts, s) : o \in Owners
    BY DEF LivePortOwners, Declared
  <2> QED BY <1>1, <2>1, ReconcileAssumption DEF LiveInv, LiveGuarded
<1> QED BY <1>1, <1>2, <1>3, <1>4 DEF LiveInv, OldPortsDisjoint, LiveGuarded, AsksFor

LEMMA NextLive == TypeInv /\ OwnerInv /\ ClaimsInv /\ LiveInv /\ [Next]_vars => LiveInv'
<1> SUFFICES ASSUME TypeInv, OwnerInv, ClaimsInv, LiveInv, [Next]_vars PROVE LiveInv'
  OBVIOUS
<1> USE DEF api, pass, loop
<1>1. CASE Load
  BY <1>1, LoadLive
<1>2. CASE ResolveAutoPort
  BY <1>2, ResolveLive
<1>3. CASE AcceptChannel
  BY <1>3, AcceptLive
<1>4. CASE Refresh
  BY <1>4 DEF Refresh, OwnerInv, OneOwnerPerSlot, LiveInv, OldPortsDisjoint, LiveGuarded
<1>5. CASE ChannelGone \/ SaveFails \/ AbortPass \/ PublishMux
  <2>1. EndPass
    BY <1>5 DEF ChannelGone, SaveFails, AbortPass, PublishMux
  <2> QED BY <2>1 DEF EndPass, LiveInv, OldPortsDisjoint, LiveGuarded
<1>6. CASE SaveStore \/ SkipSave
  BY <1>6 DEF SaveStore, SkipSave, LiveInv, OldPortsDisjoint, LiveGuarded
<1>7. CASE \/ SkipChannel \/ BeginChannel \/ ResolveStaticPort
           \/ AutoPortUnavailable \/ RejectConflict
           \/ \E c \in Channels :
                IndexSync(c) \/ CreateChannel(c) \/ UpdateChannel(c) \/ DeleteChannel(c)
           \/ ChangeSettings \/ CorruptStore \/ DeleteStore \/ ResetMuxPorts
           \/ UNCHANGED vars
  <2>1. UNCHANGED <<pc, oldPorts, snap, owners, claims>>
    BY <1>7 DEF SkipChannel, BeginChannel, ResolveStaticPort, AutoPortUnavailable,
                RejectConflict, IndexSync, CreateChannel, UpdateChannel, DeleteChannel,
                ChangeSettings, CorruptStore, DeleteStore, ResetMuxPorts, vars
  <2> QED BY <2>1 DEF LiveInv, OldPortsDisjoint, LiveGuarded, AsksFor
<1> QED
  BY <1>1, <1>2, <1>3, <1>4, <1>5, <1>6, <1>7 DEF Next, Daemon, Environment

(* A newly recorded automatic port is recovered for nobody else.           *)
LEMMA AllocationSparesLive ==
  ASSUME TypeInv, LiveInv, ResolveAutoPort, NextAllocation # claims[NextKey]
  PROVE  LivePortOwners(snap, oldPorts, KeySlot(NextKey, NextAllocation))
           \subseteq {KeyOwner(NextKey)}
<1> DEFINE rec == ExistingPortOwners(snap, oldPorts)
           used == UsedPortProtocols(claims, StaticPortClaims(snap), rec, KeyOwner(NextKey))
           free == {i \in DOMAIN conf.range : <<conf.range[i], NextKey[3]>> \notin used}
           s == KeySlot(NextKey, NextAllocation)
<1>1. NextKey \in Keys /\ NextAllocation # NoPort /\ conf.range \in Seq(Ports)
  BY NextKeyType DEF ResolveAutoPort, TypeInv, TypeOK, MuxSettings
<1>2. NextAllocation = conf.range[First(free)] /\ free # {}
  BY <1>1 DEF NextAllocation, Allocate
<1>3. First(free) \in free
  <2>1. free \in SUBSET Nat
    BY <1>1
  <2> QED BY <1>2, <2>1, FirstIsLeast
<1>4. s \in Slots /\ s \notin used
  <2>1. First(free) \in DOMAIN conf.range /\ <<conf.range[First(free)], NextKey[3]>> \notin used
    BY <1>3
  <2>2. NextAllocation \in Ports /\ NextKey[3] \in Protocols
    <3> HIDE DEF free, used
    <3> QED BY <1>1, <1>2, <2>1 DEF Keys
  <2> QED BY <1>2, <2>1, <2>2 DEF KeySlot, Slots
<1>5. rec[s] \in {NoOwner, KeyOwner(NextKey)}
  BY <1>4 DEF UsedPortProtocols
<1>6. ASSUME NEW o \in LivePortOwners(snap, oldPorts, s) PROVE o = KeyOwner(NextKey)
  <2>1. rec[s] = o
    BY <1>4, LiveOwnerRecovered DEF LiveInv, OldPortsDisjoint
  <2>2. o # NoOwner
    BY ReconcileAssumption DEF LivePortOwners, Declared
  <2> QED BY <1>5, <2>1, <2>2
<1> QED BY <1>6

(* A static port is new to a channel port only where nobody is live.       *)
LEMMA AcceptSparesLive ==
  ASSUME TypeInv, ClaimsInv, LiveInv, AcceptChannel,
         NEW k \in Keys, claims'[k] # claims[k]
  PROVE  LivePortOwners(snap, oldPorts, KeySlot(k, claims'[k])) \subseteq {KeyOwner(k)}
<1> DEFINE s == KeySlot(k, claims'[k])
           d == snap[cur].spec.ports[k[2]]
<1>1. /\ k[1] = cur /\ k[2] \in DOMAIN snap[cur].spec.ports /\ k[3] = d.proto
      /\ claims'[k] = resolved[k[2]]
  BY AcceptedClaims
<1>2. PICK p \in CurPorts : p.owner = KeyOwner(k) /\ SlotOf(p) = s
  BY AcceptedClaims
<1>3. /\ pc = "channels" /\ cur # NoChannel /\ snap[cur] # NoChannel /\ Resolved
      /\ FindConflicts(owners, CurPorts) = {} /\ resolved[k[2]] # NoPort
      /\ CurPorts \subseteq MuxPorts
  <2>1. Resolved
    BY DEF AcceptChannel
  <2> QED BY <1>1, <2>1, ResolvedType DEF AcceptChannel, Resolved, Unfinished, TypeInv, LoopOK
<1>4. s \in Slots
  BY <1>2, <1>3, SlotsOfMuxPorts
<1>5. owners[s] \in {NoOwner, KeyOwner(k)}
  BY <1>2, <1>3 DEF FindConflicts
<1>6. d.want # AutoPort
  <2>1. k = <<cur, k[2], d.proto>>
    BY <1>1 DEF Keys
  <2> QED BY <1>1, <1>3, <2>1 DEF ClaimsInv, ResolvedAsAsked
<1>7. AsksFor(k, s) /\ s[1] = claims'[k]
  <2>1. resolved[k[2]] = d.want
    BY <1>1, <1>3, <1>6 DEF ClaimsInv, ResolvedAsAsked
  <2>2. KeyOwner(k) \in Declared(snap) /\ Decl(snap, KeyOwner(k)) = d
    BY <1>1, <1>3 DEF KeyOwner, Declared, Decl, Owners, Keys
  <2> QED BY <1>1, <2>1, <2>2 DEF AsksFor, KeySlot
<1>8. ASSUME NEW o \in LivePortOwners(snap, oldPorts, s) PROVE o = KeyOwner(k)
  <2>1. CASE owners[s] = o
    <3>1. o # NoOwner
      BY ReconcileAssumption DEF LivePortOwners, Declared
    <3> QED BY <1>5, <2>1, <3>1
  <2>2. CASE /\ owners[s] # NoOwner
             /\ \A j \in Keys : AsksFor(j, s) /\ KeyOwner(j) = owners[s] => claims[j] = s[1]
    BY <1>5, <1>7, <2>2
  <2> QED BY <1>3, <1>4, <2>1, <2>2 DEF LiveInv, LiveGuarded
<1> QED BY <1>8

(* Claims change in a pass where it loads, allocates and accepts.          *)
LEMMA StepSparesLive ==
  TypeInv /\ ClaimsInv /\ LiveInv /\ [Next]_vars =>
    [\A k \in Keys :
       pc = "channels" /\ claims'[k] \notin {claims[k], NoPort} =>
         LivePortOwners(snap, oldPorts, KeySlot(k, claims'[k])) \subseteq {KeyOwner(k)}]_claims
<1> SUFFICES ASSUME TypeInv, ClaimsInv, LiveInv, [Next]_vars,
                    NEW k \in Keys, pc = "channels", claims'[k] \notin {claims[k], NoPort}
             PROVE  LivePortOwners(snap, oldPorts, KeySlot(k, claims'[k])) \subseteq {KeyOwner(k)}
  OBVIOUS
<1> USE DEF api, pass, loop
<1>1. CASE ResolveAutoPort
  <2>1. claims' = [claims EXCEPT ![NextKey] = NextAllocation] /\ claims \in Claims
    BY <1>1 DEF ResolveAutoPort, TypeInv, TypeOK
  <2>2. k = NextKey /\ claims'[k] = NextAllocation
    BY <2>1 DEF Claims
  <2> QED BY <1>1, <2>2, AllocationSparesLive
<1>2. CASE AcceptChannel
  BY <1>2, AcceptSparesLive
<1>3. CASE ChannelGone \/ SaveFails \/ AbortPass \/ PublishMux
  <2>1. claims' = NoClaims
    BY <1>3 DEF ChannelGone, SaveFails, AbortPass, PublishMux, EndPass
  <2> QED BY <2>1 DEF NoClaims
<1>4. CASE Refresh \/ Load
  BY <1>4 DEF Refresh, Load
<1>5. CASE \/ SkipChannel \/ BeginChannel \/ ResolveStaticPort
           \/ AutoPortUnavailable \/ RejectConflict \/ SaveStore \/ SkipSave
           \/ \E c \in Channels :
                IndexSync(c) \/ CreateChannel(c) \/ UpdateChannel(c) \/ DeleteChannel(c)
           \/ ChangeSettings \/ CorruptStore \/ DeleteStore \/ ResetMuxPorts
           \/ UNCHANGED vars
  <2>1. claims' = claims
    BY <1>5 DEF SkipChannel, BeginChannel, ResolveStaticPort, AutoPortUnavailable,
                RejectConflict, SaveStore, SkipSave, IndexSync, CreateChannel, UpdateChannel,
                DeleteChannel, ChangeSettings, CorruptStore, DeleteStore, ResetMuxPorts, vars
  <2> QED BY <2>1
<1> QED
  BY <1>1, <1>2, <1>3, <1>4, <1>5 DEF Next, Daemon, Environment

(* A pass gives no slot that is live for a declared channel port to        *)
(* another one that has no claim on it yet, whatever state was lost.       *)
THEOREM LivePortsAreSafe == Spec => NoLivePortTakenOver
<1> DEFINE I == TypeInv /\ OwnerInv /\ ClaimsInv /\ LiveInv
<1>1. Init => I
  <2>1. Init => Disjoint(cm.claims)
    BY ReconcileAssumption, DisjointBasics DEF Init, NoStore
  <2>2. Init => OwnerInv /\ LiveInv
    BY DEF Init, OwnerInv, OwnersAgree, OneOwnerPerSlot, LiveInv, OldPortsDisjoint, LiveGuarded
  <2> QED BY <2>1, <2>2, InitType, DisjointBasics
          DEF Init, ClaimsInv, ClaimsGuarded, ResolvedAsAsked, NothingResolved
<1>2. I /\ [Next]_vars => I'
  BY NextType, NextOwners, NextClaims, NextLive
<1>3. I /\ [Next]_vars =>
        [\A k \in Keys :
           pc = "channels" /\ claims'[k] \notin {claims[k], NoPort} =>
             LivePortOwners(snap, oldPorts, KeySlot(k, claims'[k])) \subseteq {KeyOwner(k)}]_claims
  BY StepSparesLive
<1> QED BY <1>1, <1>2, <1>3, PTL DEF Spec, NoLivePortTakenOver

-----------------------------------------------------------------------------
(* The port limit: a channel is begun only if all its ports fit, and only  *)
(* the channel in progress adds ports.                                     *)
RoomForCurrent ==
  cur # NoChannel /\ conf.maxPorts # NoLimit =>
    Cardinality(ports) + Cardinality(DOMAIN snap[cur].spec.ports) <= conf.maxPorts

LimitInv ==
  /\ IsFiniteSet(ports)
  /\ pc \in {"idle", "load"} => ports = {}
  /\ WithinLimit
  /\ RoomForCurrent

LEMMA CurPortsCount ==
  ASSUME TypeInv, Resolved
  PROVE  LET D == DOMAIN snap[cur].spec.ports
         IN  /\ IsFiniteSet(D) /\ IsFiniteSet(CurPorts)
             /\ Cardinality(D) \in Nat /\ Cardinality(CurPorts) \in Nat
             /\ Cardinality(CurPorts) <= Cardinality(D)
<1> DEFINE D == DOMAIN snap[cur].spec.ports
           f == [n \in D |-> [owner |-> <<cur, n>>, port |-> resolved[n],
                              proto |-> snap[cur].spec.ports[n].proto]]
<1>1. D \subseteq PortNames
  BY ResolvedType, BodyType
<1>2. IsFiniteSet(D)
  BY <1>1, FS_Subset, ReconcileAssumption
<1>3. f \in Surjection(D, CurPorts)
  BY DEF Surjection, CurPorts, ChannelPorts
<1> HIDE DEF D, f
<1>4. IsFiniteSet(CurPorts) /\ Cardinality(CurPorts) <= Cardinality(D)
  BY <1>2, <1>3, FS_Surjection
<1> QED
  BY <1>2, <1>4, FS_CardinalityType DEF D

LEMMA AcceptLimit == TypeInv /\ LimitInv /\ AcceptChannel => LimitInv'
<1> SUFFICES ASSUME TypeInv, LimitInv, AcceptChannel PROVE LimitInv'
  OBVIOUS
<1>1. /\ ports' = ports \cup CurPorts /\ cur' = NoChannel /\ conf' = conf /\ pc' = pc
      /\ pc = "channels" /\ cur # NoChannel /\ Resolved
  BY DEF AcceptChannel, NextChannel, Resolved
<1> DEFINE a == Cardinality(ports)
           b == Cardinality(CurPorts)
           c == Cardinality(ports \cap CurPorts)
           d == Cardinality(DOMAIN snap[cur].spec.ports)
<1>2. IsFiniteSet(CurPorts) /\ b \in Nat /\ d \in Nat /\ b <= d
  BY <1>1, CurPortsCount
<1>3. IsFiniteSet(ports) /\ a \in Nat
  BY FS_CardinalityType DEF LimitInv
<1>4. IsFiniteSet(ports \cup CurPorts) /\ Cardinality(ports \cup CurPorts) = a + b - c
  BY <1>2, <1>3, FS_Union
<1>5. c \in Nat
  <2>1. IsFiniteSet(ports \cap CurPorts)
    BY <1>3, FS_Intersection
  <2> QED
    BY <2>1, FS_CardinalityType
<1>6. conf.maxPorts # NoLimit => conf.maxPorts \in Nat /\ a + d <= conf.maxPorts
  BY <1>1 DEF LimitInv, RoomForCurrent, TypeInv, TypeOK, MuxSettings
<1> HIDE DEF a, b, c, d
<1>7. WithinLimit'
  <2>1. a + b - c <= a + d
    BY <1>2, <1>3, <1>5
  <2>2. conf.maxPorts # NoLimit => a + b - c <= conf.maxPorts
    BY <1>2, <1>3, <1>5, <1>6, <2>1
  <2> QED
    BY <1>1, <1>4, <2>2 DEF WithinLimit
<1> QED
  BY <1>1, <1>4, <1>7 DEF LimitInv, RoomForCurrent

LEMMA NextLimit == TypeInv /\ LimitInv /\ [Next]_vars => LimitInv'
<1> SUFFICES ASSUME TypeInv, LimitInv, [Next]_vars PROVE LimitInv'
  OBVIOUS
<1> USE DEF api, pass, loop
<1>0. Cardinality({}) = 0 /\ IsFiniteSet({})
  BY FS_EmptySet
<1>1. ASSUME EndPass PROVE LimitInv'
  BY <1>0, <1>1 DEF EndPass, LimitInv, WithinLimit, RoomForCurrent, NoSettings
<1>2. CASE ChannelGone \/ SaveFails \/ PublishMux \/ AbortPass
  BY <1>1, <1>2 DEF ChannelGone, SaveFails, PublishMux, AbortPass
<1>3. CASE Refresh
  <2>1. ports' = {} /\ cur' = NoChannel /\ conf' = settings
    BY <1>3 DEF Refresh, LimitInv, TypeInv, LoopOK
  <2>2. conf'.maxPorts # NoLimit => conf'.maxPorts \in Nat
    BY <2>1 DEF TypeInv, TypeOK, MuxSettings
  <2> QED
    BY <1>0, <2>1, <2>2 DEF LimitInv, WithinLimit, RoomForCurrent
<1>4. CASE Load
  <2>1. ports' = ports /\ cur' = NoChannel /\ pc' = "channels"
    BY <1>4 DEF Load, TypeInv, LoopOK
  <2>2. conf'.maxPorts = conf.maxPorts
    <3>1. conf \in MuxSettings
      BY DEF TypeInv, TypeOK
    <3>2. conf' = conf \/ conf' = [conf EXCEPT !.range = <<>>]
      BY <1>4 DEF Load
    <3> QED
      BY <3>1, <3>2 DEF MuxSettings
  <2> QED
    BY <2>1, <2>2 DEF LimitInv, WithinLimit, RoomForCurrent
<1>5. CASE BeginChannel
  <2>1. /\ UNCHANGED <<ports, conf, snap, pc>> /\ cur' = First(todo)
        /\ ~WouldExceedLimit(ports, snap[First(todo)], conf.maxPorts)
    BY <1>5 DEF BeginChannel
  <2>2. cur' \in Channels /\ snap[cur'] \in Bodies
    <3>1. First(todo) \in todo /\ todo \subseteq Channels
      BY <1>5, FirstIsLeast, ReconcileAssumption DEF BeginChannel, TypeInv, TypeOK
    <3>2. snap[First(todo)] # NoChannel
      BY <3>1 DEF TypeInv, LoopOK
    <3> QED
      BY <2>1, <3>1, <3>2 DEF TypeInv, TypeOK, Snapshots
  <2>3. Cardinality(ports) \in Nat
    BY FS_CardinalityType DEF LimitInv
  <2>4. Cardinality(DOMAIN snap[cur'].spec.ports) \in Nat
    <3>1. DOMAIN snap[cur'].spec.ports \subseteq PortNames
      BY <2>2, BodyType
    <3> QED
      BY <3>1, FS_Subset, FS_CardinalityType, ReconcileAssumption
  <2>5. conf.maxPorts # NoLimit => conf.maxPorts \in Nat
    BY DEF TypeInv, TypeOK, MuxSettings
  <2>6. RoomForCurrent'
    BY <2>1, <2>3, <2>4, <2>5 DEF RoomForCurrent, WouldExceedLimit
  <2> QED
    BY <2>1, <2>6 DEF LimitInv, WithinLimit
<1>6. CASE SkipChannel \/ ResolveStaticPort \/ ResolveAutoPort
  BY <1>6 DEF SkipChannel, ResolveStaticPort, ResolveAutoPort, LimitInv, WithinLimit, RoomForCurrent
<1>7. CASE AutoPortUnavailable \/ RejectConflict
  BY <1>7 DEF AutoPortUnavailable, RejectConflict, NextChannel, LimitInv, WithinLimit, RoomForCurrent
<1>8. CASE SaveStore \/ SkipSave
  BY <1>8 DEF SaveStore, SkipSave, AllChannelsDone, LimitInv, WithinLimit, RoomForCurrent
<1>9. ASSUME UNCHANGED <<pc, pass, loop>> PROVE LimitInv'
  BY <1>9 DEF LimitInv, WithinLimit, RoomForCurrent
<1>10. CASE Environment \/ UNCHANGED vars
  BY <1>2, <1>9, <1>10
     DEF Environment, IndexSync, CreateChannel, UpdateChannel, DeleteChannel, ChangeSettings,
         CorruptStore, DeleteStore, ResetMuxPorts, vars
<1> QED
  BY <1>2, <1>3, <1>4, <1>5, <1>6, <1>7, <1>8, <1>10, AcceptLimit DEF Next, Daemon

(* The ports of a pass stay within the limit it read (would_exceed_limit   *)
(* in the channel loop), however many ports a channel brings.              *)
THEOREM LimitIsKept == Spec => []WithinLimit
<1>1. Init => LimitInv
  BY FS_EmptySet DEF Init, LimitInv, WithinLimit, RoomForCurrent, NoSettings
<1>2. LimitInv => WithinLimit
  BY DEF LimitInv
<1> QED
  BY <1>1, <1>2, InitType, NextType, NextLimit, PTL DEF Spec

-----------------------------------------------------------------------------
(* The owners of static ports.  A channel whose claims are loaded owns its *)
(* slots in port_owners from the start of the pass, and nobody takes them  *)
(* over; so it is still to come, or accepted.                              *)
StillToCome(c) ==
  (c \in todo \/ c = cur) /\ \A p \in StaticEntries(c) : owners[SlotOf(p)] = p.owner

StaticOwnersKept ==
  pc \in {"channels", "publish"} /\ conf.maxPorts = NoLimit =>
    \A c \in Channels :
       StaticOnly(c) /\ HoldsItsClaims(c) => StaticEntries(c) \subseteq ports \/ StillToCome(c)

LEMMA StaticEntriesType ==
  ASSUME TypeInv, NEW c \in Channels, StaticOnly(c)
  PROVE  /\ snap[c] \in Bodies
         /\ \A p \in StaticEntries(c) :
              /\ p \in MuxPorts /\ p.owner[1] = c /\ p.owner[2] \in DOMAIN snap[c].spec.ports
              /\ p.owner = <<c, p.owner[2]>>
              /\ p.port = snap[c].spec.ports[p.owner[2]].want
              /\ p.proto = snap[c].spec.ports[p.owner[2]].proto
              /\ <<c, p.owner[2], p.proto>> \in Keys
<1>1. snap[c] \in Bodies
  BY DEF TypeInv, TypeOK, Snapshots, StaticOnly
<1>2. ASSUME NEW n \in DOMAIN snap[c].spec.ports
      PROVE  /\ n \in PortNames /\ snap[c].spec.ports[n].want \in Ports
             /\ snap[c].spec.ports[n].proto \in Protocols
  <2>1. n \in PortNames /\ snap[c].spec.ports[n] \in PortDecls
    BY <1>1, BodyType
  <2> QED
    BY <2>1 DEF StaticOnly, PortDecls
<1> SUFFICES ASSUME NEW n \in DOMAIN snap[c].spec.ports, NEW p,
                    p = [owner |-> <<c, n>>, port |-> snap[c].spec.ports[n].want,
                         proto |-> snap[c].spec.ports[n].proto]
             PROVE  /\ p \in MuxPorts /\ p.owner[1] = c
                    /\ p.owner[2] \in DOMAIN snap[c].spec.ports
                    /\ p.owner = <<c, p.owner[2]>>
                    /\ p.port = snap[c].spec.ports[p.owner[2]].want
                    /\ p.proto = snap[c].spec.ports[p.owner[2]].proto
                    /\ <<c, p.owner[2], p.proto>> \in Keys
  BY <1>1 DEF StaticEntries
<1> QED
  BY <1>2 DEF MuxPorts, Owners, Keys

(* What holds of a channel before a step that leaves its claims alone.     *)
LEMMA SameClaims ==
  ASSUME TypeInv, NEW c \in Channels, UNCHANGED snap, StaticOnly(c)', HoldsItsClaims(c)',
         \A k \in Keys : k[1] = c => claims'[k] = claims[k]
  PROVE  StaticOnly(c) /\ HoldsItsClaims(c) /\ StaticEntries(c)' = StaticEntries(c)
<1>1. StaticOnly(c) /\ StaticEntries(c)' = StaticEntries(c)
  BY DEF StaticOnly, StaticEntries
<1>2. HoldsItsClaims(c)
  BY <1>1, StaticEntriesType DEF HoldsItsClaims
<1> QED
  BY <1>1, <1>2

(* A static channel that is all resolved is what it asks for.              *)
LEMMA ResolvedStatic ==
  ASSUME TypeInv, ClaimsInv, Resolved, StaticOnly(cur)
  PROVE  CurPorts = StaticEntries(cur)
<1>1. \A n \in DOMAIN snap[cur].spec.ports : resolved[n] = snap[cur].spec.ports[n].want
  BY DEF Resolved, Unfinished, ClaimsInv, ResolvedAsAsked, StaticOnly
<1> QED
  BY <1>1 DEF CurPorts, ChannelPorts, StaticEntries

(* Claimed static ports do not conflict.                                   *)
LEMMA ClaimedWithoutConflict ==
  ASSUME TypeInv, ClaimsInv, NEW c \in Channels, StaticOnly(c), HoldsItsClaims(c), StillToCome(c)
  PROVE  FindConflicts(owners, StaticEntries(c)) = {}
<1> SUFFICES ASSUME NEW p \in StaticEntries(c), NEW q \in StaticEntries(c), SlotOf(q) = SlotOf(p)
             PROVE  p = q
  BY DEF FindConflicts, StillToCome
<1>1. /\ claims[<<c, p.owner[2], p.proto>>] = p.port
      /\ claims[<<c, q.owner[2], q.proto>>] = q.port
  BY DEF HoldsItsClaims
<1>2. p \in MuxPorts /\ q \in MuxPorts /\ p.port = q.port /\ p.proto = q.proto /\ p.port # NoPort
  BY StaticEntriesType, ReconcileAssumption DEF MuxPorts, SlotOf, NoPort
<1>3. <<c, p.owner[2], p.proto>> = <<c, q.owner[2], q.proto>>
  <2>1. <<c, p.owner[2], p.proto>> \in Keys /\ <<c, q.owner[2], q.proto>> \in Keys
    BY StaticEntriesType
  <2> QED
    BY <1>1, <1>2, <2>1 DEF ClaimsInv, Disjoint
<1>4. p.owner = q.owner
  <2>1. p.owner = <<c, p.owner[2]>> /\ q.owner = <<c, q.owner[2]>>
    BY StaticEntriesType
  <2>2. p.owner[2] = q.owner[2]
    BY <1>3
  <2> QED
    BY <2>1, <2>2
<1> QED
  BY <1>2, <1>4 DEF MuxPorts

LEMMA LoadStatic == TypeInv /\ ClaimsInv /\ Load => StaticOwnersKept'
<1> SUFFICES ASSUME TypeInv, ClaimsInv, Load, NEW c \in Channels,
                    StaticOnly(c)', HoldsItsClaims(c)'
             PROVE  StillToCome(c)'
  BY DEF StaticOwnersKept
<1>1. TypeInv' /\ ClaimsInv'
  BY LoadType, LoadClaims
<1>2. c \in todo'
  BY DEF Load, StaticOnly
<1>3. ASSUME NEW p \in StaticEntries(c)'
      PROVE  owners'[SlotOf(p)] = p.owner
  <2> DEFINE k == <<c, p.owner[2], p.proto>>
             s == SlotOf(p)
  <2>1. /\ p \in MuxPorts /\ p.owner = <<c, p.owner[2]>> /\ k \in Keys
        /\ claims'[k] = p.port
    <3>1. PICK n \in DOMAIN snap'[c].spec.ports :
            p = [owner |-> <<c, n>>, port |-> snap'[c].spec.ports[n].want,
                 proto |-> snap'[c].spec.ports[n].proto]
      BY <1>3 DEF StaticEntries
    <3>2. snap'[c] \in Bodies /\ snap'[c].spec.ports[n].want # AutoPort
      BY <1>1 DEF TypeInv, TypeOK, Snapshots, StaticOnly
    <3>3. n \in PortNames /\ snap'[c].spec.ports[n] \in PortDecls
      BY <3>2, BodyType
    <3>4. /\ snap'[c].spec.ports[n].want \in Ports
          /\ snap'[c].spec.ports[n].proto \in Protocols
      BY <3>2, <3>3 DEF PortDecls
    <3>5. p \in MuxPorts /\ p.owner = <<c, p.owner[2]>> /\ k \in Keys
      BY <3>1, <3>3, <3>4 DEF MuxPorts, Owners, Keys
    <3> QED
      BY <1>3, <3>5 DEF HoldsItsClaims
  <2>2. s \in Slots /\ s = KeySlot(k, claims'[k]) /\ claims'[k] # NoPort /\ p.owner = KeyOwner(k)
    BY <2>1, SlotsOfMuxPorts, ReconcileAssumption DEF MuxPorts, SlotOf, KeySlot, KeyOwner, NoPort
  <2> HIDE DEF k, s
  <2>3. \A j \in ClaimKeys(claims', s) : j = k
    BY <1>1, <2>1, <2>2 DEF ClaimKeys, KeySlot, ClaimsInv, Disjoint
  <2>4. k \in ClaimKeys(claims', s)
    BY <2>1, <2>2 DEF ClaimKeys
  <2>5. owners' = SeedPortOwners(claims', ExistingPortOwners(index, oldPorts))
    BY DEF Load
  <2>6. (CHOOSE j \in ClaimKeys(claims', s) : TRUE) = k
    BY <2>3, <2>4
  <2> QED
    BY <2>2, <2>4, <2>5, <2>6 DEF SeedPortOwners, s
<1> QED
  BY <1>2, <1>3 DEF StillToCome

LEMMA AcceptStatic ==
  TypeInv /\ ClaimsInv /\ StaticOwnersKept /\ AcceptChannel => StaticOwnersKept'
<1> SUFFICES ASSUME TypeInv, ClaimsInv, StaticOwnersKept, AcceptChannel,
                    conf'.maxPorts = NoLimit, NEW c \in Channels,
                    StaticOnly(c)', HoldsItsClaims(c)'
             PROVE  StaticEntries(c)' \subseteq ports' \/ StillToCome(c)'
  BY DEF StaticOwnersKept
<1>1. /\ ports' = ports \cup CurPorts /\ UNCHANGED <<snap, conf, todo>> /\ pc = "channels"
      /\ owners' = UpdateOwners(owners, CurPorts) /\ Resolved
      /\ FindConflicts(owners, CurPorts) = {} /\ CurPorts \subseteq MuxPorts
  <2>1. Resolved
    BY DEF AcceptChannel
  <2> QED
    BY <2>1, ResolvedType DEF AcceptChannel, Resolved
<1>2. CASE c = cur
  <2>1. StaticOnly(c) /\ StaticEntries(c)' = StaticEntries(c)
    BY <1>1 DEF StaticOnly, StaticEntries
  <2> QED
    BY <1>1, <1>2, <2>1, ResolvedStatic
<1>3. CASE c # cur
  <2>1. StaticOnly(c) /\ HoldsItsClaims(c) /\ StaticEntries(c)' = StaticEntries(c)
    <3>1. \A k \in Keys : k[1] = c => claims'[k] = claims[k]
      BY <1>3, AcceptedClaims
    <3> QED
      BY <1>1, <3>1, SameClaims
  <2>2. CASE StillToCome(c)
    <3>1. \A p \in StaticEntries(c) : SlotOf(p) \in Slots /\ p.owner # NoOwner
      BY <2>1, StaticEntriesType, SlotsOfMuxPorts
    <3>2. \A s \in Slots : owners[s] # NoOwner => owners'[s] = owners[s]
      BY <1>1, UpdateOwnersKeeps DEF TypeInv, TypeOK
    <3> QED
      BY <1>1, <1>3, <2>1, <2>2, <3>1, <3>2 DEF StillToCome
  <2> QED
    BY <1>1, <2>1, <2>2 DEF StaticOwnersKept
<1> QED
  BY <1>2, <1>3

(* The channels that are skipped, begun, resolved or rejected.             *)
LEMMA LoopStatic ==
  ASSUME TypeInv, ClaimsInv, StaticOwnersKept,
         SkipChannel \/ BeginChannel \/ ResolveStaticPort \/ ResolveAutoPort
           \/ AutoPortUnavailable \/ RejectConflict
  PROVE  StaticOwnersKept'
<1> USE DEF api, pass, loop
<1> HIDE DEF NextKey, NextWant, NextAllocation, Unfinished
<1> SUFFICES ASSUME conf'.maxPorts = NoLimit, NEW c \in Channels,
                    StaticOnly(c)', HoldsItsClaims(c)'
             PROVE  StaticEntries(c)' \subseteq ports' \/ StillToCome(c)'
  BY DEF StaticOwnersKept
<1>1. UNCHANGED <<ports, owners, snap, conf, pc>> /\ pc = "channels"
  BY DEF SkipChannel, BeginChannel, ResolveStaticPort, ResolveAutoPort, AutoPortUnavailable,
         RejectConflict, Resolved
<1>2. StaticOnly(c)
  BY <1>1 DEF StaticOnly
<1>3. \A k \in Keys : k[1] = c => claims'[k] = claims[k]
  <2>1. CASE ResolveAutoPort
    <3>1. /\ NextKey[1] = cur /\ NextKey[2] \in DOMAIN snap[cur].spec.ports
          /\ snap[cur].spec.ports[NextKey[2]].want = AutoPort
      BY <2>1, NextKeyType DEF ResolveAutoPort, NextWant
    <3>2. c # cur
      BY <1>2, <3>1 DEF StaticOnly
    <3> QED
      BY <2>1, <3>1, <3>2 DEF ResolveAutoPort, TypeInv, TypeOK, Claims
  <2> QED
    BY <2>1 DEF SkipChannel, BeginChannel, ResolveStaticPort, AutoPortUnavailable, RejectConflict
<1>4. HoldsItsClaims(c) /\ StaticEntries(c)' = StaticEntries(c)
  BY <1>1, <1>3, SameClaims
<1>5. CASE StillToCome(c)
  <2>1. ASSUME c \in todo' \cup {cur'} PROVE StillToCome(c)'
    BY <1>1, <1>4, <1>5, <2>1 DEF StillToCome
  <2>2. CASE SkipChannel
    <3>1. c \in todo /\ ~WouldExceedLimit(ports, snap[c], conf.maxPorts)
      BY <1>1, <1>5, <2>2, ReconcileAssumption DEF SkipChannel, StillToCome, WouldExceedLimit
    <3>2. c # First(todo)
      BY <1>2, <2>2, <3>1 DEF SkipChannel, StaticOnly
    <3> QED
      BY <2>1, <2>2, <3>1, <3>2 DEF SkipChannel
  <2>3. CASE BeginChannel
    BY <1>5, <2>1, <2>3, ReconcileAssumption DEF BeginChannel, StillToCome
  <2>4. CASE ResolveStaticPort \/ ResolveAutoPort
    BY <1>5, <2>1, <2>4 DEF ResolveStaticPort, ResolveAutoPort, StillToCome
  <2>5. CASE AutoPortUnavailable
    <3>1. c # cur
      <4>1. /\ NextKey[2] \in DOMAIN snap[cur].spec.ports
            /\ snap[cur].spec.ports[NextKey[2]].want = AutoPort
        BY <2>5, NextKeyType DEF AutoPortUnavailable, NextWant
      <4> QED
        BY <1>2, <4>1 DEF StaticOnly
    <3> QED
      BY <1>5, <2>1, <2>5, <3>1 DEF AutoPortUnavailable, StillToCome
  <2>6. CASE RejectConflict
    <3>1. c # cur
      BY <1>2, <1>4, <1>5, <2>6, ResolvedStatic, ClaimedWithoutConflict DEF RejectConflict
    <3> QED
      BY <1>5, <2>1, <2>6, <3>1 DEF RejectConflict, StillToCome
  <2> QED
    BY <2>2, <2>3, <2>4, <2>5, <2>6
<1> QED
  BY <1>1, <1>2, <1>4, <1>5 DEF StaticOwnersKept

LEMMA NextStatic ==
  TypeInv /\ ClaimsInv /\ StaticOwnersKept /\ [Next]_vars => StaticOwnersKept'
<1> SUFFICES ASSUME TypeInv, ClaimsInv, StaticOwnersKept, [Next]_vars PROVE StaticOwnersKept'
  OBVIOUS
<1> USE DEF api, pass, loop
<1>1. CASE Refresh
  BY <1>1 DEF Refresh, StaticOwnersKept
<1>2. CASE ChannelGone \/ SaveFails \/ PublishMux \/ AbortPass
  BY <1>2 DEF ChannelGone, SaveFails, PublishMux, AbortPass, EndPass, StaticOwnersKept
<1>3. ASSUME UNCHANGED <<pass, loop>>, pc' = pc \/ pc = "channels" PROVE StaticOwnersKept'
  BY <1>3 DEF StaticOwnersKept, StaticOnly, HoldsItsClaims, StaticEntries, StillToCome
<1>4. CASE SaveStore \/ SkipSave
  BY <1>3, <1>4 DEF SaveStore, SkipSave, AllChannelsDone
<1>5. CASE Environment \/ UNCHANGED vars
  BY <1>2, <1>3, <1>5
     DEF Environment, IndexSync, CreateChannel, UpdateChannel, DeleteChannel, ChangeSettings,
         CorruptStore, DeleteStore, ResetMuxPorts, vars
<1> QED
  BY <1>1, <1>2, <1>4, <1>5, LoadStatic, AcceptStatic, LoopStatic DEF Next, Daemon

(* A pass without a port limit serves every channel of static ports whose  *)
(* claims are in the state (port_owners is seeded from the claims before   *)
(* the channel loop), whatever sorts earlier or was left in the live mux.  *)
THEOREM PersistedOwnersServed == Spec => []PersistedStaticOwnerServed
<1> DEFINE I == TypeInv /\ ClaimsInv /\ StaticOwnersKept
<1>1. Init => I
  <2>1. Init => Disjoint(cm.claims)
    BY ReconcileAssumption, DisjointBasics DEF Init, NoStore
  <2> QED
    BY <2>1, InitType, DisjointBasics
       DEF Init, ClaimsInv, ClaimsGuarded, ResolvedAsAsked, NothingResolved, StaticOwnersKept
<1>2. I /\ [Next]_vars => I'
  BY NextType, NextClaims, NextStatic
<1>3. I => PersistedStaticOwnerServed
  BY ReconcileAssumption
     DEF StaticOwnersKept, StillToCome, PersistedStaticOwnerServed, TypeInv, LoopOK
<1> QED
  BY <1>1, <1>2, <1>3, PTL DEF Spec

-----------------------------------------------------------------------------
(* Stability of automatic assignments: during the loop an automatic claim  *)
(* is still the persisted one, unless it may move; one whose protocol the  *)
(* channel has changed is dropped.                                         *)
MayMove(k, p) ==
  \/ ~InRange(conf.range, p)
  \/ KeySlot(k, p) \in StaticPortClaims(snap)
  \/ ExistingPortOwners(snap, oldPorts)[KeySlot(k, p)] \notin {NoOwner, KeyOwner(k)}

PersistedAuto(k) ==
  /\ cm.claims[k] # NoPort
  /\ KeyOwner(k) \in Declared(snap) /\ Decl(snap, KeyOwner(k)).want = AutoPort

AutoClaimsKept ==
  pc = "channels" /\ store = "exists" /\ cm.status = "ok" =>
    \A k \in Keys : PersistedAuto(k) =>
       IF k \in ActiveKeys(snap)
       THEN claims[k] = cm.claims[k] \/ MayMove(k, cm.claims[k])
       ELSE claims[k] = NoPort

LEMMA LoadAuto == TypeInv /\ Load => AutoClaimsKept'
<1> SUFFICES ASSUME TypeInv, Load, cm'.status = "ok",
                    NEW k \in Keys
             PROVE  claims'[k] = IF k \in ActiveKeys(snap)' THEN cm'.claims[k] ELSE NoPort
  BY DEF AutoClaimsKept
<1>1. claims' = PruneInactive(cm.claims, index) /\ cm' = cm /\ snap' = index
  BY DEF Load, api
<1> QED BY <1>1 DEF PruneInactive, ActiveKeys, Declared

(* An automatic claim that may not move is allocated again as it is.       *)
LEMMA ResolveAuto ==
  TypeInv /\ ClaimsInv /\ AutoClaimsKept /\ ResolveAutoPort => AutoClaimsKept'
<1> SUFFICES ASSUME TypeInv, ClaimsInv, AutoClaimsKept, ResolveAutoPort PROVE AutoClaimsKept'
  OBVIOUS
<1>1. /\ UNCHANGED <<cm, pc, oldPorts, conf, snap, store>>
      /\ claims' = [claims EXCEPT ![NextKey] = NextAllocation]
      /\ NextWant = AutoPort /\ pc = "channels"
      /\ claims \in Claims /\ NextKey \in Keys /\ Disjoint(claims)
  BY NextKeyType DEF ResolveAutoPort, api, TypeInv, TypeOK, ClaimsInv
<1>2. NextKey \in ActiveKeys(snap)
  <2>1. /\ NextKey[1] = cur /\ snap[cur] # NoChannel
        /\ NextKey[2] \in DOMAIN snap[cur].spec.ports
        /\ NextKey[3] = snap[cur].spec.ports[NextKey[2]].proto
    BY NextKeyType, ReconcileAssumption DEF ResolveAutoPort
  <2> HIDE DEF NextKey
  <2> QED BY <1>1, <2>1 DEF ActiveKeys, Declared, Decl, KeyOwner, Keys, Owners
<1>3. ASSUME claims[NextKey] # NoPort, ~MayMove(NextKey, claims[NextKey])
      PROVE  NextAllocation = claims[NextKey]
  <2> DEFINE k == NextKey
  <2>1. \A j \in Keys \ {k} : ~(claims[j] = claims[k] /\ j[3] = k[3])
    BY <1>1, <1>3 DEF Disjoint
  <2>2. ~IsClaimed(claims, StaticPortClaims(snap), ExistingPortOwners(snap, oldPorts), k, claims[k])
    BY <1>3, <2>1 DEF IsClaimed, MayMove
  <2>3. InRange(conf.range, claims[k])
    BY <1>3 DEF MayMove
  <2> QED BY <1>3, <2>2, <2>3 DEF NextAllocation, Allocate
<1>4. ASSUME NEW k \in Keys, store = "exists", cm.status = "ok", PersistedAuto(k)
      PROVE  IF k \in ActiveKeys(snap)
             THEN claims'[k] = cm.claims[k] \/ MayMove(k, cm.claims[k])
             ELSE claims'[k] = NoPort
  <2> HIDE DEF NextKey, NextAllocation
  <2>1. IF k \in ActiveKeys(snap)
        THEN claims[k] = cm.claims[k] \/ MayMove(k, cm.claims[k]) ELSE claims[k] = NoPort
    BY <1>1, <1>4 DEF AutoClaimsKept
  <2>2. CASE k # NextKey
    BY <1>1, <2>1, <2>2 DEF Claims
  <2>3. CASE k = NextKey
    <3>1. claims'[k] = NextAllocation
      BY <1>1, <2>3 DEF Claims
    <3> QED BY <1>2, <1>3, <1>4, <2>1, <2>3, <3>1 DEF PersistedAuto
  <2> QED BY <2>2, <2>3
<1> QED BY <1>1, <1>4 DEF AutoClaimsKept, PersistedAuto, MayMove

(* An accepted channel claims its automatic ports as they were resolved.   *)
LEMMA AcceptAuto ==
  TypeInv /\ ClaimsInv /\ AutoClaimsKept /\ AcceptChannel => AutoClaimsKept'
<1> SUFFICES ASSUME TypeInv, ClaimsInv, AutoClaimsKept, AcceptChannel PROVE AutoClaimsKept'
  OBVIOUS
<1>1. /\ UNCHANGED <<cm, pc, oldPorts, conf, snap, store>>
      /\ pc = "channels" /\ cur # NoChannel /\ Unfinished = {}
  BY DEF AcceptChannel, Resolved
<1>2. ASSUME NEW k \in Keys, Decl(snap, KeyOwner(k)).want = AutoPort
      PROVE  claims'[k] = claims[k]
  <2> SUFFICES ASSUME k[1] = cur, k[2] \in DOMAIN snap[cur].spec.ports,
                      k[3] = snap[cur].spec.ports[k[2]].proto, claims'[k] = resolved[k[2]]
               PROVE  claims'[k] = claims[k]
    BY AcceptedClaims
  <2>1. resolved[k[2]] # NoPort
    BY <1>1 DEF Unfinished
  <2>2. k = <<cur, k[2], snap[cur].spec.ports[k[2]].proto>>
    BY DEF Keys
  <2>3. snap[cur].spec.ports[k[2]].want = AutoPort
    BY <1>2 DEF Decl, KeyOwner
  <2> QED BY <1>1, <2>1, <2>2, <2>3 DEF ClaimsInv, ResolvedAsAsked
<1> QED BY <1>1, <1>2 DEF AutoClaimsKept, PersistedAuto, MayMove

LEMMA NextAuto ==
  TypeInv /\ ClaimsInv /\ AutoClaimsKept /\ [Next]_vars => AutoClaimsKept'
<1> SUFFICES ASSUME TypeInv, ClaimsInv, AutoClaimsKept, [Next]_vars PROVE AutoClaimsKept'
  OBVIOUS
<1> USE DEF api, pass, loop
<1>1. CASE Refresh \/ SaveStore \/ SkipSave
  BY <1>1 DEF Refresh, SaveStore, SkipSave, AutoClaimsKept
<1>2. CASE ChannelGone \/ SaveFails \/ PublishMux \/ AbortPass
  BY <1>2 DEF ChannelGone, SaveFails, PublishMux, AbortPass, EndPass, AutoClaimsKept
<1>3. CASE CorruptStore \/ DeleteStore
  BY <1>3 DEF CorruptStore, DeleteStore, NoStore, AutoClaimsKept
<1>4. ASSUME UNCHANGED <<pc, pass, cm>> PROVE AutoClaimsKept'
  BY <1>4 DEF AutoClaimsKept, PersistedAuto, MayMove
<1>5. CASE SkipChannel \/ BeginChannel \/ ResolveStaticPort \/ AutoPortUnavailable \/ RejectConflict
  BY <1>4, <1>5 DEF SkipChannel, BeginChannel, ResolveStaticPort, AutoPortUnavailable, RejectConflict
<1>6. CASE Environment \/ UNCHANGED vars
  BY <1>2, <1>3, <1>4, <1>6
     DEF Environment, IndexSync, CreateChannel, UpdateChannel, DeleteChannel, ChangeSettings,
         ResetMuxPorts, vars
<1> QED
  BY <1>1, <1>2, <1>3, <1>5, <1>6, LoadAuto, ResolveAuto, AcceptAuto DEF Next, Daemon

(* Whatever happens before and during a pass, a save moves a persisted     *)
(* automatic assignment only if allocate() finds that its port is out of   *)
(* the range, asked for statically, or another's in the live state.        *)
THEOREM AssignmentsAreStable == Spec => AutoAssignmentStable
<1> DEFINE I == TypeInv /\ ClaimsInv /\ AutoClaimsKept
           Moved(k) == LET p == cm.claims[k]
                       IN  /\ p # NoPort /\ cm'.claims[k] \notin {p, NoPort}
                           /\ KeyOwner(k) \in Declared(snap)
                           /\ Decl(snap, KeyOwner(k)).want = AutoPort
<1>1. Init => I
  <2>1. Init => Disjoint(cm.claims)
    BY ReconcileAssumption, DisjointBasics DEF Init, NoStore
  <2> QED
    BY <2>1, InitType, DisjointBasics
       DEF Init, ClaimsInv, ClaimsGuarded, ResolvedAsAsked, NothingResolved, AutoClaimsKept
<1>2. I /\ [Next]_vars => I'
  BY NextType, NextClaims, NextAuto
<1>3. ASSUME I, [Next]_vars, cm.status = "ok", NEW k \in Keys, Moved(k)
      PROVE  MayMove(k, cm.claims[k])
  <2>1. cm' # cm
    BY <1>3
  <2>2. SaveStore \/ CorruptStore \/ DeleteStore
    BY <1>3, <2>1
       DEF Next, Daemon, Environment, vars, api, pass, loop, Refresh, Load, SkipChannel,
           BeginChannel, ResolveStaticPort, ResolveAutoPort, AutoPortUnavailable,
           RejectConflict, AcceptChannel, ChannelGone, SkipSave, SaveFails, PublishMux,
           IndexSync, CreateChannel, UpdateChannel, DeleteChannel, ChangeSettings, AbortPass,
           ResetMuxPorts
  <2>3. SaveStore
    BY <1>3, <2>2 DEF CorruptStore, DeleteStore, NoStore, NoClaims
  <2>4. cm'.claims = claims /\ pc = "channels" /\ store = "exists"
    BY <1>3, <2>3 DEF SaveStore, AllChannelsDone, NeedsSave
  <2> QED BY <1>3, <2>4 DEF AutoClaimsKept, PersistedAuto
<1>4. I /\ [Next]_vars =>
        [cm.status = "ok" =>
           \A k \in Keys :
              LET p == cm.claims[k]
              IN  /\ p # NoPort /\ cm'.claims[k] \notin {p, NoPort}
                  /\ KeyOwner(k) \in Declared(snap) /\ Decl(snap, KeyOwner(k)).want = AutoPort
                  => \/ ~InRange(conf.range, p)
                     \/ KeySlot(k, p) \in StaticPortClaims(snap)
                     \/ ExistingPortOwners(snap, oldPorts)[KeySlot(k, p)]
                          \notin {NoOwner, KeyOwner(k)}]_cm
  BY <1>3 DEF MayMove
<1> QED BY <1>1, <1>2, <1>4, PTL DEF Spec, AutoAssignmentStable

==============================================================================
