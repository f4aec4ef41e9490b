--------------------------- MODULE MuxAnnotations ---------------------------
(***************************************************************************)
(* The annotations of one mux Service, which its daemon and users write:   *)
(* the readability annotations, and the external-dns annotations that are  *)
(* aggregated from the channels as long as they are not user-owned.  Which *)
(* keys the controller owns is remembered in an annotation of the mux.  A  *)
(* pass reads the annotations at its refresh and patches them as a whole.  *)
(* Hostnames it aggregates from the channels it has taken down first, the  *)
(* topology it draws from the index and the cache as they are later.       *)
(*                                                                         *)
(* Abstractions: a list of hostnames or of keys is a set (the order of     *)
(* hostnames follows from that of the channels).  Channels, topology and   *)
(* summary are one annotation, without port lines and layout, and the      *)
(* reads they are made from one step.  One other key stands for what only  *)
(* users write.                                                            *)
(***************************************************************************)
EXTENDS Naturals, FiniteSets

CONSTANTS
  Channels,  \* channels of the mux, in order
  Bodies,    \* what a channel may say: hosts, and whether it wants a proxy
  Addresses, \* ingress addresses of the mux
  Pods,      \* numbers of ready pods of a channel
  NoBody,    \* no such channel
  Absent,    \* no such annotation, no ingress
  UserValue, \* what users write
  MaxEvents  \* bound: edits, changes of pods or ingress, and faults

ExternalKeys == {"hostname", "proxied"}
UserKeys == ExternalKeys \cup {"setting"}
AnnotationKeys == UserKeys \cup {"tracked", "topology"}

ASSUME AnnotationsAssumption ==
  /\ Channels \subseteq Nat /\ IsFiniteSet(Channels)
  /\ Pods \subseteq Nat /\ 0 \in Pods
  /\ NoBody \notin Bodies /\ Absent \notin Addresses
  /\ UserValue # Absent /\ \A keys \in SUBSET ExternalKeys : keys # Absent
  /\ MaxEvents \in Nat

NoAnnotations == [k \in AnnotationKeys |-> Absent]
NoChannels == [c \in Channels |-> NoBody]

VARIABLES
  anno,      \* cluster: the annotations of the mux
  status,    \* cluster: the ingress of the mux
  chan,      \* cluster: channels of the mux
  index,     \* operator: mux_channels
  pods,      \* operator: ready addresses in memo.endpoints, 0 if not cached
  pc,        \* daemon: where it is in the pass
  copy,      \* daemon: annotations as of the refresh
  ingress,   \* daemon: status_lb
  snap,      \* daemon: sorted_channels
  drawn,     \* daemon: anno_topology
  warned,    \* conflicts reported so far
  events,    \* bounded number of edits, changes and faults
  raced,     \* history: keys users wrote since the refresh
  moved,     \* history: index or pods changed since the pass read channels
  published  \* history: keys whose value is the controller's

cluster == <<anno, status, chan>>
daemon == <<pc, copy, ingress, snap, drawn>>
vars == <<cluster, index, pods, daemon, warned, events, raced, moved, published>>

Snapshots == [Channels -> Bodies \cup {NoBody}]
Present(sn) == {c \in Channels : sn[c] # NoBody}

-----------------------------------------------------------------------------
(* Aggregation.                                                            *)

AggregateHostnames(sn) ==
  LET hosts == UNION {sn[c].hosts : c \in Present(sn)}
  IN  IF hosts = {} THEN Absent ELSE hosts

(* Values other than true and false are ignored.                           *)
AggregateProxied(sn) ==
  LET said == {sn[c].proxied : c \in Present(sn)} \cap {"true", "false"}
  IN  IF said = {} THEN Absent ELSE said = {"true"}

(* Mutant: the last channel decides.                                       *)
AggregateByLast(sn) ==
  LET stating == {c \in Present(sn) : sn[c].proxied \in {"true", "false"}}
  IN  [hostname |-> AggregateHostnames(sn),
       proxied |-> IF stating = {} THEN Absent
                   ELSE sn[CHOOSE c \in stating : \A d \in stating : d <= c].proxied = "true"]

AggregateExternalDns(sn) ==
  [hostname |-> AggregateHostnames(sn), proxied |-> AggregateProxied(sn)]

ManagedKeys(an) == IF an["tracked"] = Absent THEN {} ELSE an["tracked"]
UserOwned(an, k) == an[k] # Absent /\ k \notin ManagedKeys(an)

Conflicts(an, sn) ==
  {p \in Present(sn) \X ExternalKeys :
     /\ UserOwned(an, p[2])
     /\ IF p[2] = "hostname" THEN sn[p[1]].hosts # {} ELSE sn[p[1]].proxied # "none"}

(* Mutant: only keys whose value changes are remembered, if any.           *)
ApplyRememberingChanges(an, agg) ==
  LET next == {k \in ExternalKeys : ~UserOwned(an, k) /\ agg[k] \notin {Absent, an[k]}}
  IN  [[k \in AnnotationKeys |->
          IF k \in ExternalKeys /\ ~UserOwned(an, k) THEN agg[k] ELSE an[k]]
         EXCEPT !["tracked"] = next]

(* Mutant: keys are user-owned only once the controller owns another.      *)
ApplyWhenTracked(an, agg) ==
  LET next == {k \in ExternalKeys :
                 ~(an["tracked"] # Absent /\ UserOwned(an, k)) /\ agg[k] # Absent}
  IN  [[k \in AnnotationKeys |->
          IF k \in next \/ (k \in ExternalKeys /\ ~UserOwned(an, k)) THEN agg[k] ELSE an[k]]
         EXCEPT !["tracked"] = IF next = {} THEN Absent ELSE next]

ApplyAggregated(an, agg) ==
  LET next == {k \in ExternalKeys : ~UserOwned(an, k) /\ agg[k] # Absent}
  IN  [[k \in AnnotationKeys |->
          IF k \in ExternalKeys /\ ~UserOwned(an, k) THEN agg[k] ELSE an[k]]
         EXCEPT !["tracked"] = IF next = {} THEN Absent ELSE next]

(* format_topology_annotation and format_summary_annotation.               *)
Topology(sn, ready, st) ==
  [dns |-> st,
   channels |-> [c \in Present(sn) |->
                   [dns |-> IF sn[c].hosts # {} THEN sn[c].hosts ELSE st,
                    ready |-> ready[c]]]]

(* What `channels` shows while the pass goes on: the index as it is, or    *)
(* nothing, if the mux had no channels when the pass looked it up.         *)
LiveChannels == IF Present(snap) = {} THEN snap ELSE index

Desired(an, sn, topology) ==
  [ApplyAggregated(an, AggregateExternalDns(sn)) EXCEPT !["topology"] = topology]

(* The patch names the keys that were or will be there.                    *)
Patch(an, old, new) ==
  [k \in AnnotationKeys |-> IF old[k] = Absent /\ new[k] = Absent THEN an[k] ELSE new[k]]

-----------------------------------------------------------------------------
EndPass ==
  /\ pc' = "idle" /\ copy' = NoAnnotations /\ ingress' = Absent
  /\ snap' = NoChannels /\ drawn' = Absent /\ moved' = FALSE

(* The operator starts with a mux that users have prepared.                *)
Init ==
  /\ \E set \in SUBSET UserKeys :
       anno = [k \in AnnotationKeys |-> IF k \in set THEN UserValue ELSE Absent]
  /\ status = Absent
  /\ chan \in Snapshots
  /\ index = chan
  /\ pods = [c \in Channels |-> 0]
  /\ pc = "idle" /\ copy = NoAnnotations
  /\ ingress = Absent /\ snap = NoChannels /\ drawn = Absent
  /\ warned = {} /\ events = 0 /\ raced = {} /\ moved = FALSE /\ published = {}

Refresh ==
  /\ pc = "idle"
  /\ pc' = "refreshed"
  /\ copy' = anno /\ ingress' = status
  /\ raced' = {}
  /\ UNCHANGED <<cluster, index, pods, snap, drawn, warned, events, moved, published>>

ReadChannels ==
  /\ pc = "refreshed"
  /\ pc' = "read"
  /\ snap' = index
  /\ UNCHANGED <<cluster, index, pods, copy, ingress, drawn, warned, events, raced, moved,
                 published>>

(* Topology and summary are formatted; then conflicts are reported, by     *)
(* calls to the API server during which everything may change.             *)
DescribeMux ==
  /\ pc = "read"
  /\ pc' = "described"
  /\ drawn' = Topology(LiveChannels, pods, ingress)
  /\ warned' = warned \cup Conflicts(copy, snap)
  /\ UNCHANGED <<cluster, index, pods, copy, ingress, snap, events, raced, moved, published>>

UpdateAnnotations ==
  /\ pc = "described"
  /\ EndPass
  /\ \E desired \in {Desired(copy, snap, drawn)} :
       IF desired = copy THEN UNCHANGED <<anno, published>>
       ELSE /\ anno' = Patch(anno, copy, desired)
            /\ published' = ManagedKeys(desired)
                              \cup {k \in published : anno'[k] # Absent /\ anno'[k] = anno[k]}
  /\ UNCHANGED <<status, chan, index, pods, warned, events, raced>>

Daemon == Refresh \/ ReadChannels \/ DescribeMux \/ UpdateAnnotations

(* What the pass has read, or is about to read once more, changes.         *)
Moves == moved' = (pc \in {"read", "described"})

IndexSync(c) ==
  /\ index[c] # chan[c]
  /\ index' = [index EXCEPT ![c] = chan[c]]
  /\ Moves
  /\ UNCHANGED <<cluster, pods, daemon, warned, events, raced, published>>

-----------------------------------------------------------------------------
Event == events < MaxEvents /\ events' = events + 1

UserWrites(k) == raced' = raced \cup {k}

(* A user sets or removes an annotation.                                   *)
EditAnnotation(k) ==
  /\ Event
  /\ anno' = [anno EXCEPT ![k] = IF anno[k] = Absent THEN UserValue ELSE Absent]
  /\ published' = published \ {k}
  /\ UserWrites(k)
  /\ UNCHANGED <<status, chan, index, pods, daemon, warned, moved>>

(* A user puts a value of its own in place of another.                     *)
ReplaceAnnotation(k) ==
  /\ Event /\ anno[k] \notin {Absent, UserValue}
  /\ anno' = [anno EXCEPT ![k] = UserValue]
  /\ published' = published \ {k}
  /\ UserWrites(k)
  /\ UNCHANGED <<status, chan, index, pods, daemon, warned, moved>>

(* A user rewrites or removes the list of the keys the controller owns,    *)
(* and with it takes keys over or hands them to the controller.            *)
EditTracked ==
  /\ Event
  /\ \E keys \in (SUBSET ExternalKeys) \ {ManagedKeys(anno)} :
       /\ anno' = [anno EXCEPT !["tracked"] = IF keys = {} THEN Absent ELSE keys]
       /\ published' = published \cap keys
  /\ UserWrites("tracked")
  /\ UNCHANGED <<status, chan, index, pods, daemon, warned, moved>>

EditChannel(c) ==
  /\ Event
  /\ \E b \in (Bodies \cup {NoBody}) \ {chan[c]} : chan' = [chan EXCEPT ![c] = b]
  /\ UNCHANGED <<anno, status, index, pods, daemon, warned, raced, moved, published>>

AssignIngress(a) ==
  /\ Event /\ status # a
  /\ status' = a
  /\ UNCHANGED <<anno, chan, index, pods, daemon, warned, raced, moved, published>>

(* handle_endpoints and channel_deletion, seen from the daemon.            *)
EndpointsChange(c) ==
  /\ Event
  /\ \E n \in Pods \ {pods[c]} : pods' = [pods EXCEPT ![c] = n]
  /\ Moves
  /\ UNCHANGED <<cluster, index, daemon, warned, raced, published>>

(* A call of the pass raises; the daemon starts again.                     *)
AbortPass ==
  /\ Event /\ pc # "idle"
  /\ EndPass
  /\ UNCHANGED <<cluster, index, pods, warned, raced, published>>

Environment ==
  \/ \E k \in UserKeys : EditAnnotation(k) \/ ReplaceAnnotation(k)
  \/ EditTracked \/ AbortPass
  \/ \E c \in Channels : EditChannel(c) \/ EndpointsChange(c)
  \/ \E a \in Addresses : AssignIngress(a)

Next == Daemon \/ (\E c \in Channels : IndexSync(c)) \/ Environment

Spec == Init /\ [][Next]_vars

(* Passes follow each other at the latest after the queue timeout, and     *)
(* kopf delivers the events of channels.                                   *)
Fairness == WF_vars(Daemon) /\ \A c \in Channels : WF_vars(IndexSync(c))
FairSpec == Spec /\ Fairness

-----------------------------------------------------------------------------
(* The annotations are what the code may write.                            *)
TypeOK ==
  /\ \A an \in {anno, copy} :
       /\ DOMAIN an = AnnotationKeys
       /\ an["tracked"] = Absent \/ an["tracked"] \in (SUBSET ExternalKeys) \ {{}}
       /\ an["proxied"] \in BOOLEAN \cup {Absent, UserValue}
       /\ an["setting"] \in {Absent, UserValue}
  /\ status \in Addresses \cup {Absent} /\ ingress \in Addresses \cup {Absent}
  /\ {chan, index, snap} \subseteq Snapshots
  /\ pods \in [Channels -> Pods]
  /\ pc \in {"idle", "refreshed", "read", "described"}
  /\ moved \in BOOLEAN /\ (moved => pc \in {"read", "described"})
  /\ warned \subseteq Channels \X ExternalKeys
  /\ raced \subseteq AnnotationKeys /\ published \subseteq ExternalKeys
  /\ events \in 0..MaxEvents

(* What the controller has published under an external-dns key it can      *)
(* still recognise as its own, through user edits, takeovers, aborted      *)
(* passes and lost patches: no hostname of a channel is left behind as if  *)
(* a user had written it.                                                  *)
PublishedKeysAreTracked == published \subseteq ManagedKeys(anno)

(* The daemon changes or takes over what users own only if they wrote it   *)
(* (or the list of owned keys) after the refresh of the pass: an older     *)
(* edit is never set back.                                                 *)
OnlyRacedEditsAreLost ==
  [][events' = events =>
       \A k \in UserKeys :
          /\ k = "setting" \/ UserOwned(anno, k)
          /\ raced \cap {k, "tracked"} = {}
          => anno'[k] = anno[k] /\ k \notin ManagedKeys(anno')]_anno

(* What the channels say of an external-dns key: all their hostnames, and  *)
(* a proxy unless one of them says no.                                     *)
Says(k, v) ==
  LET said(w) == \E c \in Present(chan) : chan[c].proxied = w
  IN  IF k = "hostname" THEN v = AggregateHostnames(chan)
      ELSE v = IF said("false") THEN FALSE ELSE IF said("true") THEN TRUE ELSE Absent

(* Every key that users do not own says what the channels say, every       *)
(* channel that cannot be heard has been warned, and the topology is that  *)
(* of the cluster.                                                         *)
Settled ==
  /\ \A k \in ExternalKeys :
       IF UserOwned(anno, k)
       THEN \A c \in Present(chan) :
              (IF k = "hostname" THEN chan[c].hosts # {} ELSE chan[c].proxied # "none")
                => <<c, k>> \in warned
       ELSE Says(k, anno[k])
  /\ anno["topology"] = Topology(chan, pods, status)

(* One pass is enough: if users wrote nothing since its refresh, channels  *)
(* and ingress are still as it has read them, and neither the index nor    *)
(* the cached pods have changed since it took the channels down, it leaves *)
(* the annotations settled, also if it finds nothing to patch, and whoever *)
(* took keys over or gave them back before.                                *)
UnracedPassesSettle ==
  [][UpdateAnnotations /\ raced = {} /\ ~moved /\ snap = chan /\ ingress = status
       => Settled']_vars

(* So when users are done, the annotations settle.                         *)
AnnotationsSettle == <>[]Settled
=============================================================================
