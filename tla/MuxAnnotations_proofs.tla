------------------------ MODULE MuxAnnotations_proofs ------------------------
(***************************************************************************)
(* Theorems of MuxAnnotations, for any number of channels and edits, and   *)
(* whatever channels say.                                                  *)
(***************************************************************************)
EXTENDS MuxAnnotations, TLAPS

(* Between refresh and patch only users change the annotations.            *)
OnlyUsersWrite == pc # "idle" => \A k \in AnnotationKeys \ raced : copy[k] = anno[k]

(* What is published is there and owned by the controller, also in the     *)
(* copy of a pass under way.                                               *)
Recognised ==
  \A k \in published :
    /\ anno[k] # Absent /\ k \in ManagedKeys(anno)
    /\ pc # "idle" => copy[k] # Absent /\ k \in ManagedKeys(copy)

(* Unless index or pods change after the pass has read the channels, it    *)
(* works with one state of both; and it has reported what it found.        *)
DrawnIsCurrent ==
  /\ pc \in {"read", "described"} /\ ~moved => snap = index
  /\ pc = "described" /\ ~moved => drawn = Topology(snap, pods, ingress)
  /\ pc = "described" => Conflicts(copy, snap) \subseteq warned

AnnotationsInv == TypeOK /\ OnlyUsersWrite /\ Recognised /\ DrawnIsCurrent

-----------------------------------------------------------------------------
(* The keys a pass manages, from the annotations it has read: those that   *)
(* users do not own and channels speak about.                              *)
LEMMA DesiredKeys ==
  ASSUME NEW an, NEW sn, NEW topology
  PROVE  /\ DOMAIN Desired(an, sn, topology) = AnnotationKeys
         /\ ManagedKeys(Desired(an, sn, topology)) \subseteq ExternalKeys
         /\ Desired(an, sn, topology)["tracked"] = Absent \/ Desired(an, sn, topology)["tracked"] \in (SUBSET ExternalKeys) \ {{}}
         /\ Desired(an, sn, topology)["setting"] = an["setting"]
         /\ \A k \in ExternalKeys :
              IF UserOwned(an, k)
              THEN Desired(an, sn, topology)[k] = an[k] /\ k \notin ManagedKeys(Desired(an, sn, topology))
              ELSE /\ Desired(an, sn, topology)[k] = AggregateExternalDns(sn)[k]
                   /\ k \in ManagedKeys(Desired(an, sn, topology)) <=> Desired(an, sn, topology)[k] # Absent
<1> DEFINE agg == AggregateExternalDns(sn)
           next == {k \in ExternalKeys : ~UserOwned(an, k) /\ agg[k] # Absent}
           d == Desired(an, sn, topology)
<1> HIDE DEF agg
<1> USE AnnotationsAssumption
<1>1. DOMAIN d = AnnotationKeys
  BY DEF Desired, ApplyAggregated
<1>2. d["tracked"] = IF next = {} THEN Absent ELSE next
  BY DEF Desired, ApplyAggregated, AnnotationKeys, UserKeys, ExternalKeys, agg
<1>3. ManagedKeys(d) = next
  BY <1>2 DEF ManagedKeys
<1>4. d["setting"] = an["setting"]
  BY DEF Desired, ApplyAggregated, AnnotationKeys, UserKeys, ExternalKeys
<1>5. ASSUME NEW k \in ExternalKeys
      PROVE  d[k] = IF UserOwned(an, k) THEN an[k] ELSE agg[k]
  BY DEF Desired, ApplyAggregated, AnnotationKeys, UserKeys, ExternalKeys, agg
<1> QED
  BY <1>1, <1>2, <1>3, <1>4, <1>5 DEF agg

LEMMA ProxiedType ==
  ASSUME NEW sn
  PROVE  AggregateExternalDns(sn)["proxied"] \in BOOLEAN \cup {Absent}
BY DEF AggregateExternalDns, AggregateProxied

(* The patch of a pass takes the list of managed keys over, unless there   *)
(* was none and there will be none.                                        *)
LEMMA PatchedKeys ==
  ASSUME NEW an, NEW old, NEW new
  PROVE  ManagedKeys(Patch(an, old, new)) =
           IF old["tracked"] = Absent /\ new["tracked"] = Absent THEN ManagedKeys(an)
           ELSE ManagedKeys(new)
BY DEF Patch, ManagedKeys, AnnotationKeys

LEMMA InitInv == Init => AnnotationsInv
<1> SUFFICES ASSUME Init PROVE AnnotationsInv
  OBVIOUS
<1> USE AnnotationsAssumption
<1>1. PICK set \in SUBSET UserKeys :
        anno = [k \in AnnotationKeys |-> IF k \in set THEN UserValue ELSE Absent]
  BY DEF Init
<1>2. \A an \in {anno, copy} :
        /\ DOMAIN an = AnnotationKeys /\ an["tracked"] = Absent
        /\ an["proxied"] \in {Absent, UserValue} /\ an["setting"] \in {Absent, UserValue}
  BY <1>1 DEF Init, NoAnnotations, AnnotationKeys, UserKeys, ExternalKeys
<1>3. pods \in [Channels -> Pods] /\ {chan, index, snap} \subseteq Snapshots
  BY DEF Init, Snapshots, NoChannels
<1>4. moved \in BOOLEAN /\ ~moved
  BY DEF Init
<1>5. TypeOK
  BY <1>2, <1>3, <1>4 DEF Init, TypeOK
<1> QED
  BY <1>5 DEF Init, AnnotationsInv, OnlyUsersWrite, Recognised, DrawnIsCurrent

-----------------------------------------------------------------------------
LEMMA UpdateInv ==
  ASSUME AnnotationsInv, UpdateAnnotations
  PROVE  AnnotationsInv'
<1> DEFINE d == Desired(copy, snap, drawn)
<1> USE AnnotationsAssumption DEF AnnotationsInv
<1> HIDE DEF d
<1>1. /\ IF d = copy THEN UNCHANGED <<anno, published>>
         ELSE /\ anno' = Patch(anno, copy, d)
              /\ published' = ManagedKeys(d)
                                \cup {k \in published : anno'[k] # Absent /\ anno'[k] = anno[k]}
      /\ EndPass /\ pc = "described"
      /\ UNCHANGED <<status, chan, index, pods, warned, events, raced>>
  BY DEF UpdateAnnotations, d
<1>2. /\ DOMAIN d = AnnotationKeys /\ ManagedKeys(d) \subseteq ExternalKeys
      /\ d["tracked"] = Absent \/ d["tracked"] \in (SUBSET ExternalKeys) \ {{}}
      /\ d["setting"] = copy["setting"]
      /\ \A k \in ExternalKeys :
           IF UserOwned(copy, k) THEN d[k] = copy[k] /\ k \notin ManagedKeys(d)
           ELSE /\ d[k] = AggregateExternalDns(snap)[k]
                /\ k \in ManagedKeys(d) <=> d[k] # Absent
  BY DesiredKeys DEF d
<1>3. d["proxied"] \in BOOLEAN \cup {Absent, UserValue}
  BY <1>2, ProxiedType DEF TypeOK, ExternalKeys
<1>4. \A k \in AnnotationKeys :
        anno'[k] = IF d = copy \/ (copy[k] = Absent /\ d[k] = Absent) THEN anno[k] ELSE d[k]
  BY <1>1 DEF Patch
<1>5. TypeOK'
  <2>1. DOMAIN anno' = AnnotationKeys
    BY <1>1 DEF Patch, TypeOK
  <2>2. anno'["tracked"] = Absent \/ anno'["tracked"] \in (SUBSET ExternalKeys) \ {{}}
    BY <1>2, <1>4 DEF TypeOK, AnnotationKeys
  <2>3. /\ anno'["proxied"] \in BOOLEAN \cup {Absent, UserValue}
        /\ anno'["setting"] \in {Absent, UserValue}
    BY <1>2, <1>3, <1>4 DEF TypeOK, AnnotationKeys, UserKeys, ExternalKeys
  <2>4. /\ DOMAIN copy' = AnnotationKeys /\ copy'["tracked"] = Absent
        /\ copy'["proxied"] = Absent /\ copy'["setting"] = Absent
    BY <1>1 DEF EndPass, NoAnnotations, AnnotationKeys, UserKeys, ExternalKeys
  <2>6. published' \subseteq ExternalKeys
    BY <1>1, <1>2 DEF TypeOK
  <2>7. {chan, index, snap}' \subseteq Snapshots
    BY <1>1 DEF EndPass, NoChannels, Snapshots, TypeOK
  <2> QED
    BY <1>1, <2>1, <2>2, <2>3, <2>4, <2>6, <2>7 DEF EndPass, TypeOK
<1>6. Recognised'
  <2> SUFFICES ASSUME NEW k \in published'
               PROVE  anno'[k] # Absent /\ k \in ManagedKeys(anno')
    BY <1>1 DEF Recognised, EndPass
  <2>1. CASE d = copy
    BY <1>1, <2>1 DEF Recognised
  <2>2. CASE d # copy
    <3>1. ManagedKeys(anno') = IF copy["tracked"] = Absent /\ d["tracked"] = Absent
                               THEN ManagedKeys(anno) ELSE ManagedKeys(d)
      BY <1>1, <2>2, PatchedKeys
    <3>2. k \in ExternalKeys /\ k \in AnnotationKeys
      BY <1>5 DEF TypeOK, AnnotationKeys, UserKeys
    <3>3. CASE k \in ManagedKeys(d)
      <4>1. d[k] # Absent /\ d["tracked"] # Absent
        BY <1>2, <3>2, <3>3 DEF ManagedKeys
      <4> QED
        BY <1>4, <2>2, <3>1, <3>2, <3>3, <4>1
    <3>4. CASE k \notin ManagedKeys(d)
      <4>1. /\ k \in published /\ anno'[k] # Absent /\ anno'[k] = anno[k]
            /\ k \in ManagedKeys(anno) /\ k \in ManagedKeys(copy) /\ copy[k] # Absent
        BY <1>1, <2>2, <3>4 DEF Recognised
      <4>2. ~UserOwned(copy, k) /\ d[k] = Absent
        BY <1>2, <3>2, <3>4, <4>1 DEF UserOwned
      <4> QED
        BY <1>4, <2>2, <3>2, <4>1, <4>2
    <3> QED
      BY <3>3, <3>4
  <2> QED
    BY <2>1, <2>2
<1> QED
  BY <1>1, <1>5, <1>6 DEF EndPass, OnlyUsersWrite, DrawnIsCurrent

(* The other steps of the daemon, and the index.                           *)
LEMMA ReadInv ==
  ASSUME AnnotationsInv,
         Refresh \/ ReadChannels \/ DescribeMux \/ \E c \in Channels : IndexSync(c)
  PROVE  AnnotationsInv'
<1> USE DEF AnnotationsInv
<1>1. CASE Refresh
  <2>1. TypeOK'
    BY <1>1 DEF Refresh, cluster, TypeOK
  <2> QED
    BY <1>1, <2>1 DEF Refresh, cluster, OnlyUsersWrite, Recognised, ManagedKeys, DrawnIsCurrent
<1>2. CASE ReadChannels
  <2>1. TypeOK'
    BY <1>2 DEF ReadChannels, cluster, TypeOK
  <2> QED
    BY <1>2, <2>1
       DEF ReadChannels, cluster, OnlyUsersWrite, Recognised, ManagedKeys, DrawnIsCurrent
<1>3. CASE DescribeMux
  <2>1. Conflicts(copy, snap) \subseteq Channels \X ExternalKeys
    BY DEF Conflicts, Present
  <2>2. TypeOK'
    BY <1>3, <2>1 DEF DescribeMux, cluster, TypeOK
  <2>3. ~moved => LiveChannels = snap
    BY <1>3 DEF DescribeMux, DrawnIsCurrent, LiveChannels
  <2>4. DrawnIsCurrent'
    BY <1>3, <2>3 DEF DescribeMux, DrawnIsCurrent, Topology, Conflicts, UserOwned, ManagedKeys,
                      Present
  <2> QED
    BY <1>3, <2>2, <2>4 DEF DescribeMux, cluster, OnlyUsersWrite, Recognised, ManagedKeys
<1>4. ASSUME NEW c \in Channels, IndexSync(c) PROVE AnnotationsInv'
  <2>1. index' \in Snapshots
    BY <1>4 DEF IndexSync, Snapshots, TypeOK
  <2>2. TypeOK'
    BY <1>4, <2>1 DEF IndexSync, Moves, cluster, daemon, TypeOK
  <2>3. DrawnIsCurrent'
    BY <1>4 DEF IndexSync, Moves, daemon, DrawnIsCurrent, Conflicts, UserOwned, ManagedKeys, Present
  <2> QED
    BY <1>4, <2>2, <2>3 DEF IndexSync, cluster, daemon, OnlyUsersWrite, Recognised, ManagedKeys
<1> QED
  BY <1>1, <1>2, <1>3, <1>4

LEMMA DrawnUnchanged ==
  ASSUME DrawnIsCurrent, UNCHANGED <<pc, copy, ingress, snap, drawn, index, pods, warned, moved>>
  PROVE  DrawnIsCurrent'
BY DEF DrawnIsCurrent, Topology, Conflicts, UserOwned, ManagedKeys, Present

(* What users write is raced, and no longer published.                     *)
LEMMA UserInv ==
  ASSUME AnnotationsInv, NEW k \in UserKeys, NEW v \in {UserValue, Absent},
         anno' = [anno EXCEPT ![k] = v], published' = published \ {k},
         UserWrites(k), events' \in 0..MaxEvents,
         UNCHANGED <<status, chan, index, pods, daemon, warned, moved>>
  PROVE  AnnotationsInv'
<1> USE AnnotationsAssumption DEF AnnotationsInv
<1>1. /\ DOMAIN anno' = AnnotationKeys /\ anno'[k] = v
      /\ \A j \in AnnotationKeys \ {k} : anno'[j] = anno[j]
  BY DEF TypeOK, AnnotationKeys
<1>2. anno'["tracked"] = anno["tracked"]
  BY <1>1 DEF AnnotationKeys, UserKeys, ExternalKeys
<1>3. TypeOK'
  <2>1. /\ anno'["proxied"] \in BOOLEAN \cup {Absent, UserValue}
        /\ anno'["setting"] \in {Absent, UserValue}
    BY <1>1 DEF TypeOK, AnnotationKeys, UserKeys, ExternalKeys
  <2>2. raced' \subseteq AnnotationKeys
    BY DEF UserWrites, TypeOK, AnnotationKeys
  <2> QED
    BY <1>1, <1>2, <2>1, <2>2 DEF TypeOK, daemon
<1>4. OnlyUsersWrite'
  BY <1>1 DEF OnlyUsersWrite, UserWrites, daemon
<1>5. Recognised'
  <2> SUFFICES ASSUME NEW j \in published'
               PROVE  /\ anno'[j] # Absent /\ j \in ManagedKeys(anno')
                      /\ pc' # "idle" => copy'[j] # Absent /\ j \in ManagedKeys(copy')
    BY DEF Recognised
  <2>1. j \in published /\ j # k /\ j \in AnnotationKeys
    BY DEF TypeOK, AnnotationKeys, UserKeys
  <2> QED
    BY <1>1, <1>2, <2>1 DEF Recognised, ManagedKeys, daemon
<1> QED
  BY <1>3, <1>4, <1>5, DrawnUnchanged DEF daemon

LEMMA EnvironmentInv ==
  ASSUME AnnotationsInv, Environment
  PROVE  AnnotationsInv'
<1> USE AnnotationsAssumption DEF AnnotationsInv
<1>0. ASSUME Event PROVE events' \in 0..MaxEvents
  BY <1>0 DEF Event, TypeOK
<1>1. ASSUME NEW k \in UserKeys, EditAnnotation(k) PROVE AnnotationsInv'
  BY <1>0, <1>1, UserInv DEF EditAnnotation
<1>2. ASSUME NEW k \in UserKeys, ReplaceAnnotation(k) PROVE AnnotationsInv'
  BY <1>0, <1>2, UserInv DEF ReplaceAnnotation
<1>3. CASE EditTracked
  <2>1. PICK keys \in SUBSET ExternalKeys :
          /\ anno' = [anno EXCEPT !["tracked"] = IF keys = {} THEN Absent ELSE keys]
          /\ published' = published \cap keys
    BY <1>3 DEF EditTracked
  <2>2. /\ DOMAIN anno' = AnnotationKeys
        /\ anno'["tracked"] = IF keys = {} THEN Absent ELSE keys
        /\ \A j \in AnnotationKeys \ {"tracked"} : anno'[j] = anno[j]
        /\ ManagedKeys(anno') = keys
    BY <2>1 DEF TypeOK, AnnotationKeys, ManagedKeys
  <2>3. TypeOK'
    BY <1>0, <1>3, <2>1, <2>2
       DEF EditTracked, UserWrites, TypeOK, daemon, AnnotationKeys, UserKeys, ExternalKeys
  <2>4. OnlyUsersWrite'
    BY <1>3, <2>2 DEF EditTracked, UserWrites, OnlyUsersWrite, daemon
  <2>5. Recognised'
    <3> SUFFICES ASSUME NEW j \in published'
                 PROVE  /\ anno'[j] # Absent /\ j \in ManagedKeys(anno')
                        /\ pc' # "idle" => copy'[j] # Absent /\ j \in ManagedKeys(copy')
      BY DEF Recognised
    <3>1. j \in published /\ j \in keys /\ j \in AnnotationKeys \ {"tracked"}
      BY <2>1 DEF TypeOK, AnnotationKeys, UserKeys, ExternalKeys
    <3> QED
      BY <1>3, <2>2, <3>1 DEF EditTracked, Recognised, ManagedKeys, daemon
  <2> QED
    BY <1>3, <2>3, <2>4, <2>5, DrawnUnchanged DEF EditTracked, daemon
<1>4. ASSUME NEW c \in Channels, EditChannel(c) PROVE AnnotationsInv'
  <2>1. chan' \in Snapshots
    BY <1>4 DEF EditChannel, Snapshots, TypeOK
  <2> QED
    BY <1>0, <1>4, <2>1, DrawnUnchanged
       DEF EditChannel, TypeOK, daemon, OnlyUsersWrite, Recognised, ManagedKeys
<1>5. ASSUME NEW c \in Channels, EndpointsChange(c) PROVE AnnotationsInv'
  <2>1. pods' \in [Channels -> Pods]
    BY <1>5 DEF EndpointsChange, TypeOK
  <2>2. TypeOK'
    BY <1>0, <1>5, <2>1 DEF EndpointsChange, Moves, TypeOK, cluster, daemon
  <2>3. DrawnIsCurrent'
    BY <1>5 DEF EndpointsChange, Moves, daemon, DrawnIsCurrent, Conflicts, UserOwned, ManagedKeys,
                Present
  <2> QED
    BY <1>5, <2>2, <2>3
       DEF EndpointsChange, cluster, daemon, OnlyUsersWrite, Recognised, ManagedKeys
<1>6. ASSUME NEW a \in Addresses, AssignIngress(a) PROVE AnnotationsInv'
  BY <1>0, <1>6, DrawnUnchanged
     DEF AssignIngress, TypeOK, daemon, OnlyUsersWrite, Recognised, ManagedKeys
<1>7. CASE AbortPass
  <2>1. /\ DOMAIN copy' = AnnotationKeys /\ copy'["tracked"] = Absent
        /\ copy'["proxied"] = Absent /\ copy'["setting"] = Absent /\ snap' \in Snapshots
    BY <1>7 DEF AbortPass, EndPass, NoAnnotations, NoChannels, Snapshots, AnnotationKeys,
                UserKeys, ExternalKeys
  <2>2. TypeOK'
    BY <1>0, <1>7, <2>1 DEF AbortPass, EndPass, TypeOK, cluster
  <2> QED
    BY <1>7, <2>2
       DEF AbortPass, EndPass, cluster, OnlyUsersWrite, Recognised, ManagedKeys, DrawnIsCurrent
<1> QED
  BY <1>1, <1>2, <1>3, <1>4, <1>5, <1>6, <1>7 DEF Environment

LEMMA NextInv == AnnotationsInv /\ [Next]_vars => AnnotationsInv'
<1> SUFFICES ASSUME AnnotationsInv, [Next]_vars PROVE AnnotationsInv'
  OBVIOUS
<1>1. CASE Next
  BY <1>1, UpdateInv, ReadInv, EnvironmentInv DEF Next, Daemon
<1>2. CASE UNCHANGED vars
  BY <1>2, DrawnUnchanged
     DEF vars, cluster, daemon, AnnotationsInv, TypeOK, OnlyUsersWrite, Recognised, ManagedKeys
<1> QED
  BY <1>1, <1>2

LEMMA AnnotationsInvariant == Spec => []AnnotationsInv
  BY InitInv, NextInv, PTL DEF Spec

-----------------------------------------------------------------------------
(* The annotations are what the code may write.                            *)
THEOREM AnnotationsTyped == Spec => []TypeOK
<1>1. AnnotationsInv => TypeOK
  BY DEF AnnotationsInv
<1> QED
  BY AnnotationsInvariant, <1>1, PTL

(* The controller recognises the external-dns keys it has published        *)
(* (apply_aggregated_external_dns_annotations), whatever users do.         *)
THEOREM PublishedKeysRecognised == Spec => []PublishedKeysAreTracked
<1>1. AnnotationsInv => PublishedKeysAreTracked
  BY DEF AnnotationsInv, Recognised, PublishedKeysAreTracked
<1> QED
  BY AnnotationsInvariant, <1>1, PTL

(* No edit of a key the controller does not own is set back, unless it     *)
(* was made between the refresh and the patch of one pass (controller.py,  *)
(* mux.refresh and mux.patch of the annotations).                          *)
THEOREM OlderEditsAreSafe == Spec => OnlyRacedEditsAreLost
<1> DEFINE Safe ==
      events' = events =>
        \A k \in UserKeys :
          /\ k = "setting" \/ UserOwned(anno, k)
          /\ raced \cap {k, "tracked"} = {}
          => anno'[k] = anno[k] /\ k \notin ManagedKeys(anno')
<1> USE AnnotationsAssumption
<1>1. ASSUME AnnotationsInv, [Next]_vars PROVE [Safe]_anno
  <2> SUFFICES ASSUME anno' # anno, events' = events, NEW k \in UserKeys,
                      k = "setting" \/ UserOwned(anno, k), raced \cap {k, "tracked"} = {}
               PROVE  anno'[k] = anno[k] /\ k \notin ManagedKeys(anno')
    OBVIOUS
  <2>1. ~Environment
    BY <1>1 DEF Environment, EditAnnotation, ReplaceAnnotation, EditTracked, AbortPass, EditChannel,
                EndpointsChange, AssignIngress, Event, AnnotationsInv, TypeOK, cluster
  <2>2. UpdateAnnotations
    BY <1>1, <2>1 DEF Next, Daemon, vars, Refresh, ReadChannels, DescribeMux, IndexSync, cluster
  <2> DEFINE d == Desired(copy, snap, drawn)
  <2> HIDE DEF d
  <2>3. anno' = Patch(anno, copy, d) /\ pc = "described"
    BY <2>2 DEF UpdateAnnotations, d
  <2>4. copy[k] = anno[k] /\ copy["tracked"] = anno["tracked"]
    BY <1>1, <2>3 DEF AnnotationsInv, OnlyUsersWrite, AnnotationKeys
  <2>5. ManagedKeys(anno') = IF copy["tracked"] = Absent /\ d["tracked"] = Absent
                             THEN ManagedKeys(anno) ELSE ManagedKeys(d)
    BY <2>3, PatchedKeys
  <2>6. ManagedKeys(anno) = {} \/ copy["tracked"] # Absent
    BY <2>4 DEF ManagedKeys
  <2>7. k \notin ManagedKeys(d) /\ d[k] = copy[k]
    <3>1. CASE k = "setting"
      BY <3>1, DesiredKeys DEF d, ExternalKeys
    <3>2. CASE k \in ExternalKeys
      <4>1. UserOwned(copy, k)
        BY <2>4, <3>2 DEF UserOwned, ManagedKeys, ExternalKeys
      <4> QED
        BY <3>2, <4>1, DesiredKeys DEF d
    <3> QED
      BY <3>1, <3>2 DEF UserKeys
  <2>8. anno'[k] = anno[k]
    BY <2>3, <2>4, <2>7 DEF Patch, AnnotationKeys
  <2> QED
    BY <2>5, <2>6, <2>7, <2>8
<1>2. AnnotationsInv /\ [Next]_vars => [Safe]_anno
  BY <1>1
<1> QED
  BY AnnotationsInvariant, <1>2, PTL DEF Spec, OnlyRacedEditsAreLost

-----------------------------------------------------------------------------
(* What channels say of a key, as the code aggregates it and as Says puts  *)
(* it.                                                                     *)
LEMMA AggregateSays ==
  \A k \in ExternalKeys : Says(k, AggregateExternalDns(chan)[k])
<1>1. Says("hostname", AggregateExternalDns(chan)["hostname"])
  BY DEF Says, AggregateExternalDns
<1>2. Says("proxied", AggregateExternalDns(chan)["proxied"])
  <2> DEFINE said == {chan[c].proxied : c \in Present(chan)} \cap {"true", "false"}
  <2>1. \A w \in {"true", "false"} : w \in said <=> \E c \in Present(chan) : chan[c].proxied = w
    OBVIOUS
  <2>2. said = {"true"} <=> "true" \in said /\ "false" \notin said
    OBVIOUS
  <2>3. said = {} <=> "true" \notin said /\ "false" \notin said
    OBVIOUS
  <2>4. AggregateExternalDns(chan)["proxied"] = IF said = {} THEN Absent ELSE said = {"true"}
    BY DEF AggregateExternalDns, AggregateProxied
  <2> HIDE DEF said
  <2> QED BY <2>1, <2>2, <2>3, <2>4 DEF Says
<1> QED BY <1>1, <1>2 DEF ExternalKeys

LEMMA DesiredTopology ==
  ASSUME NEW an, NEW sn, NEW topology
  PROVE  Desired(an, sn, topology)["topology"] = topology
BY DEF Desired, ApplyAggregated, AnnotationKeys

(* A pass that no user edit and no change of index or pods races with      *)
(* leaves every key it may write as the channels say, the conflicts        *)
(* reported and the topology that of the cluster, for any number of        *)
(* channels (reconcile.py 63-188; in mux_daemon the two reads of the       *)
(* channels, at 484 and 580-599, and the patch at 630).                    *)
THEOREM OnePassSettles == Spec => UnracedPassesSettle
<1> DEFINE Settles ==
      UpdateAnnotations /\ raced = {} /\ ~moved /\ snap = chan /\ ingress = status => Settled'
<1> USE AnnotationsAssumption
<1>1. AnnotationsInv => Settles
  <2> SUFFICES ASSUME AnnotationsInv, UpdateAnnotations, raced = {}, ~moved,
                      snap = chan, ingress = status
               PROVE  Settled'
    OBVIOUS
  <2> DEFINE d == Desired(copy, chan, drawn)
  <2> HIDE DEF d
  <2>1. /\ IF d = copy THEN anno' = anno ELSE anno' = Patch(anno, copy, d)
        /\ pc = "described"
        /\ UNCHANGED <<chan, pods, status, warned>>
    BY DEF UpdateAnnotations, d
  <2>2. \A k \in AnnotationKeys : copy[k] = anno[k]
    BY <2>1 DEF AnnotationsInv, OnlyUsersWrite
  <2>3. \A k \in AnnotationKeys : anno'[k] = d[k]
    BY <2>1, <2>2 DEF Patch
  <2>4. d["topology"] = Topology(chan, pods, status)
    BY <2>1, DesiredTopology DEF d, AnnotationsInv, DrawnIsCurrent
  <2>5. anno'["topology"] = Topology(chan', pods', status')
    BY <2>1, <2>3, <2>4 DEF AnnotationKeys
  <2>6. ASSUME NEW k \in ExternalKeys
        PROVE  IF UserOwned(copy, k)
               THEN d[k] = copy[k] /\ k \notin ManagedKeys(d)
               ELSE /\ d[k] = AggregateExternalDns(chan)[k]
                    /\ k \in ManagedKeys(d) <=> d[k] # Absent
    BY DesiredKeys DEF d
  <2>7. ManagedKeys(anno') = ManagedKeys(d)
    BY <2>3 DEF ManagedKeys, AnnotationKeys
  <2>8. \A k \in ExternalKeys : UserOwned(anno', k) <=> UserOwned(copy, k)
    BY <2>3, <2>6, <2>7 DEF UserOwned, AnnotationKeys, UserKeys
  <2>9. ASSUME NEW k \in ExternalKeys, ~UserOwned(copy, k) PROVE Says(k, anno[k])'
    <3>1. anno'[k] = AggregateExternalDns(chan)[k] /\ chan' = chan
      BY <2>1, <2>3, <2>6, <2>9 DEF AnnotationKeys, UserKeys
    <3>2. Says(k, anno'[k])
      BY <3>1, AggregateSays
    <3> QED BY <3>1, <3>2 DEF Says, AggregateHostnames, Present
  <2>10. ASSUME NEW k \in ExternalKeys, UserOwned(copy, k), NEW c \in Present(chan),
                IF k = "hostname" THEN chan[c].hosts # {} ELSE chan[c].proxied # "none"
         PROVE  <<c, k>> \in warned'
    BY <2>1, <2>10 DEF Conflicts, AnnotationsInv, DrawnIsCurrent
  <2> QED BY <2>1, <2>5, <2>8, <2>9, <2>10 DEF Settled, UserOwned, ManagedKeys, Present
<1>2. AnnotationsInv /\ [Next]_vars => [Settles]_vars
  BY <1>1
<1> QED BY AnnotationsInvariant, <1>2, PTL DEF Spec, UnracedPassesSettle
=============================================================================
