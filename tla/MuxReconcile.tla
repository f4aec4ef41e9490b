---------------------------- MODULE MuxReconcile ----------------------------
(***************************************************************************)
(* Port reconciliation of one multiplexer (mux) Service: the loop of       *)
(* mux_daemon (controller.py) that turns the channel Services attached to  *)
(* the mux into the port list of the mux Service, with the ownership rules *)
(* of reconcile.py and the persisted claims of mux_state.py and            *)
(* port_allocations.py.                                                    *)
(*                                                                         *)
(* Three places say who owns a (port, protocol) slot: the live mux         *)
(* Service, an annotation on every channel Service, and a ConfigMap of     *)
(* claims.  A pass of the daemon reads them one after the other, decides,  *)
(* and writes them back one after the other, while users edit channels,    *)
(* the watch index lags behind, the calls fail and the objects are         *)
(* overwritten by others.                                                  *)
(*                                                                         *)
(* Abstractions: a channel is its rank in the namespace/name order, a port *)
(* name is its position in spec.ports, and the seven hex digits that name  *)
(* a mux port are taken to be injective, so a mux port carries its owner.  *)
(***************************************************************************)
EXTENDS Integers, Sequences, FiniteSets

CONSTANTS
  Channels,      \* channel Services, numbered in namespace/name order
  PortNames,     \* port names, numbered in the order of spec.ports
  Ports,         \* external port numbers
  Protocols,     \* "TCP", "UDP"
  AutoPort,      \* the request "name:auto" of external-ports
  NoChannel,     \* no such channel Service, or no channel in progress
  NoOwner,       \* nobody owns the slot
  NoLimit,       \* no max-ports annotation
  SpecChoices,   \* SpecChoices[c]: the specs users may give channel c
  Settings,      \* the mux annotations (port range, max ports) users may set
  LegacyClaims,  \* contents of an allocation-only state written by old releases
  Edits,         \* the kinds of edits of this instance
  Faults,        \* the faults of this instance
  MaxEdits,      \* bound: edits by users
  MaxFaults      \* bound: faults

NoPort == 0
Owners == Channels \X PortNames
Slots == Ports \X Protocols
Keys == Channels \X PortNames \X Protocols
Claims == [Keys -> Ports \cup {NoPort}]
NoClaims == [k \in Keys |-> NoPort]
Annotations == [PortNames -> Ports \cup {NoPort}]
MuxPorts == [owner: Owners, port: Ports, proto: Protocols]
PortDecls == [want: Ports \cup {AutoPort}, proto: Protocols]
(* spec.ports with the external-ports annotation applied.  A spec that     *)
(* validate_declared_port_names or parse_external_ports_annotation refuses *)
(* is not valid; its named ports are still declared.                       *)
Specs == [ports: UNION {[D -> PortDecls] : D \in SUBSET PortNames},
          valid: BOOLEAN]
Bodies == [spec: Specs, anno: Annotations]
Snapshots == [Channels -> Bodies \cup {NoChannel}]
OwnerMaps == [Slots -> Owners \cup {NoOwner}]
MuxSettings == [range: Seq(Ports), maxPorts: Nat \cup {NoLimit}]

KeyOwner(k) == <<k[1], k[2]>>
KeySlot(k, p) == <<p, k[3]>>
SlotOf(mp) == <<mp.port, mp.proto>>
(* No slot is claimed under two keys.                                      *)
Disjoint(cl) ==
  \A j, k \in Keys : cl[j] # NoPort /\ cl[j] = cl[k] /\ j[3] = k[3] => j = k

ASSUME ReconcileAssumption ==
  /\ Channels \subseteq Nat /\ PortNames \subseteq Nat /\ IsFiniteSet(PortNames)
  /\ Ports \subseteq Nat \ {0}
  /\ AutoPort \notin Ports
  /\ NoChannel \notin Channels /\ NoChannel \notin Bodies
  /\ NoOwner \notin Owners
  /\ NoLimit \notin Nat
  /\ SpecChoices \in [Channels -> SUBSET Specs]
  /\ \A m \in Settings : m \in MuxSettings
  /\ \A cl \in LegacyClaims : cl \in Claims /\ Disjoint(cl)
  /\ MaxEdits \in Nat /\ MaxFaults \in Nat

VARIABLES
  live,      \* API server: the channel Services
  muxPorts,  \* API server: spec.ports of the mux; {} is the placeholder port
  settings,  \* API server: the mux annotations
  cm,        \* API server: the state ConfigMap
  index,     \* operator: the mux_channels index of the watch
  pc,        \* daemon: where it is in the pass
  oldPorts,  \* daemon: muxPorts when the pass began
  conf,      \* daemon: settings when the pass began
  snap,      \* daemon: sorted_channels
  store,     \* daemon: state_store, and whether load found a ConfigMap
  changed,   \* daemon: mux_state.changed
  claims,    \* daemon: mux_state.claims
  owners,    \* daemon: port_owners
  ports,     \* daemon: the ports accepted so far
  todo,      \* daemon: channels the loop has not reached
  cur,       \* daemon: the channel being processed
  resolved,  \* daemon: its ports resolved so far
  edits, faults  \* counters of the two bounds

api == <<live, muxPorts, settings, cm>>
pass == <<oldPorts, conf, snap, store, changed, claims, owners, ports>>
loop == <<todo, cur, resolved>>
vars == <<api, index, pc, pass, loop, edits, faults>>

StoreStates == [status: {"absent", "ok", "legacy", "corrupt"}, claims: Claims]
NoStore == [status |-> "absent", claims |-> NoClaims]
NoSettings == [range |-> <<>>, maxPorts |-> NoLimit]
NoSnap == [c \in Channels |-> NoChannel]
NoOwners == [s \in Slots |-> NoOwner]
Unresolved == [n \in PortNames |-> NoPort]

-----------------------------------------------------------------------------
(* Reading the channel snapshot.                                           *)

Declared(sn) ==
  {o \in Owners : sn[o[1]] # NoChannel /\ o[2] \in DOMAIN sn[o[1]].spec.ports}

Decl(sn, o) == sn[o[1]].spec.ports[o[2]]

(* The claim keys the snapshot keeps alive.                                *)
ActiveKeys(sn) ==
  {k \in Keys : KeyOwner(k) \in Declared(sn) /\ Decl(sn, KeyOwner(k)).proto = k[3]}

(* reserved_ports: what valid channels ask for statically, granted or not. *)
StaticPortClaims(sn) ==
  {<<Decl(sn, o).want, Decl(sn, o).proto>> :
      o \in {w \in Declared(sn) : sn[w[1]].spec.valid /\ Decl(sn, w).want # AutoPort}}

LivePortOwners(sn, mp, s) ==
  {o \in Declared(sn) : \E p \in mp : p.owner = o /\ SlotOf(p) = s}

AnnotationOwners(sn, s) ==
  {o \in Declared(sn) : sn[o[1]].anno[o[2]] = s[1] /\ Decl(sn, o).proto = s[2]}

(* Mutant: the live mux ports are not looked at.                           *)
RecoverFromAnnotationsOnly(sn, mp) ==
  [s \in Slots |->
    LET fromAnno == AnnotationOwners(sn, s)
    IN  IF \E o \in Owners : fromAnno = {o} THEN CHOOSE o \in fromAnno : TRUE ELSE NoOwner]

(* Owners the live mux names, then those exactly one channel is annotated  *)
(* with.                                                                   *)
ExistingPortOwners(sn, mp) ==
  [s \in Slots |->
    LET fromMux == LivePortOwners(sn, mp, s)
        fromAnno == AnnotationOwners(sn, s)
    IN  IF fromMux # {} THEN CHOOSE o \in fromMux : TRUE
        ELSE IF \E o \in Owners : fromAnno = {o}
             THEN CHOOSE o \in fromAnno : TRUE
             ELSE NoOwner]

ClaimKeys(cl, s) == {k \in Keys : cl[k] # NoPort /\ KeySlot(k, cl[k]) = s}

(* Mutant: the owners recovered from live state win over persisted claims. *)
RecoveredOwnersFirst(cl, recovered) ==
  [s \in Slots |->
    IF recovered[s] # NoOwner THEN recovered[s]
    ELSE IF ClaimKeys(cl, s) # {}
         THEN KeyOwner(CHOOSE k \in ClaimKeys(cl, s) : TRUE) ELSE NoOwner]

(* port_owners: persisted claims take precedence over recovered owners.    *)
SeedPortOwners(cl, recovered) ==
  [s \in Slots |->
    IF ClaimKeys(cl, s) # {}
    THEN KeyOwner(CHOOSE k \in ClaimKeys(cl, s) : TRUE)
    ELSE recovered[s]]

(* Mutant: claims of channel ports that are gone are kept.                 *)
KeepInactive(cl, sn) == cl

PruneInactive(cl, sn) ==
  [k \in Keys |-> IF k \in ActiveKeys(sn) THEN cl[k] ELSE NoPort]

-----------------------------------------------------------------------------
(* Automatic allocation.                                                   *)

First(S) == CHOOSE x \in S : \A y \in S : x <= y

InRange(range, p) == \E i \in DOMAIN range : range[i] = p

IsClaimed(cl, reserved, recovered, k, p) ==
  \/ \E j \in Keys \ {k} : cl[j] = p /\ j[3] = k[3]
  \/ KeySlot(k, p) \in reserved
  \/ recovered[KeySlot(k, p)] \notin {NoOwner, KeyOwner(k)}

(* Mutant: the claims of other channel ports are not looked at.            *)
UsedIgnoringClaims(cl, reserved, recovered, o) ==
  {s \in Slots : s \in reserved \/ recovered[s] \notin {NoOwner, o}}

UsedPortProtocols(cl, reserved, recovered, o) ==
  {s \in Slots : \/ s \in reserved
                 \/ recovered[s] \notin {NoOwner, o}
                 \/ ClaimKeys(cl, s) # {}}

(* Mutant: the port after the last one of the range is handed out too.     *)
AllocatePastEnd(range, cl, reserved, recovered, k) ==
  LET used == UsedPortProtocols(cl, reserved, recovered, KeyOwner(k))
      free == {i \in DOMAIN range : <<range[i], k[3]>> \notin used}
  IN  IF free # {} THEN range[First(free)]
      ELSE IF range = <<>> THEN NoPort ELSE range[Len(range)] + 1

(* Mutant: allocation starts afresh on every pass.                         *)
AllocateAfresh(range, cl, reserved, recovered, k) ==
  LET used == UsedPortProtocols([cl EXCEPT ![k] = NoPort], reserved, recovered, KeyOwner(k))
      free == {i \in DOMAIN range : <<range[i], k[3]>> \notin used}
  IN  IF free = {} THEN NoPort
      ELSE range[First(free)]

(* The port of claim k: the claimed one if it may stay, else the first     *)
(* free one of the range, else NoPort.                                     *)
Allocate(range, cl, reserved, recovered, k) ==
  LET used == UsedPortProtocols(cl, reserved, recovered, KeyOwner(k))
      free == {i \in DOMAIN range : <<range[i], k[3]>> \notin used}
  IN  IF /\ cl[k] # NoPort /\ InRange(range, cl[k])
         /\ ~IsClaimed(cl, reserved, recovered, k, cl[k])
      THEN cl[k]
      ELSE IF free = {} THEN NoPort
           ELSE range[First(free)]

-----------------------------------------------------------------------------
(* Accepting a channel.                                                    *)

(* Mutant: only ports accepted before this channel are compared.           *)
WouldExceedAlready(ps, body, max) ==
  max # NoLimit /\ Cardinality(ps) + 1 > max

WouldExceedLimit(ps, body, max) ==
  max # NoLimit /\ Cardinality(ps) + Cardinality(DOMAIN body.spec.ports) > max

(* What channel c would add to the mux once all its ports are resolved.    *)
ChannelPorts(c, body, res) ==
  {[owner |-> <<c, n>>, port |-> res[n], proto |-> body.spec.ports[n].proto] :
      n \in DOMAIN body.spec.ports}

(* Mutant: the owners of other channels are not looked at.                 *)
FindConflictsWithin(own, ps) ==
  {p \in ps : \E q \in ps : q # p /\ SlotOf(q) = SlotOf(p)}

(* Mutant: the ports of one channel are not compared with each other.      *)
FindConflictsWithOthers(own, ps) ==
  {p \in ps : own[SlotOf(p)] \notin {NoOwner, p.owner}}

FindConflicts(own, ps) ==
  {p \in ps : \/ own[SlotOf(p)] \notin {NoOwner, p.owner}
              \/ \E q \in ps : q # p /\ SlotOf(q) = SlotOf(p)}

UpdateOwners(own, ps) ==
  [s \in Slots |-> IF \E p \in ps : SlotOf(p) = s
                   THEN (CHOOSE p \in ps : SlotOf(p) = s).owner ELSE own[s]]

RecordClaims(cl, c, body, res) ==
  [k \in Keys |-> IF /\ k[1] = c /\ k[2] \in DOMAIN body.spec.ports
                     /\ body.spec.ports[k[2]].proto = k[3]
                  THEN res[k[2]] ELSE cl[k]]

-----------------------------------------------------------------------------
Init ==
  /\ live = NoSnap /\ index = NoSnap
  /\ muxPorts = {}
  /\ settings \in Settings
  /\ cm \in {NoStore} \cup {[status |-> "legacy", claims |-> cl] : cl \in LegacyClaims}
  /\ pc = "idle"
  /\ oldPorts = {} /\ conf = NoSettings /\ snap = NoSnap /\ store = "none"
  /\ changed = FALSE /\ claims = NoClaims /\ owners = NoOwners /\ ports = {}
  /\ todo = {} /\ cur = NoChannel /\ resolved = Unresolved
  /\ edits = 0 /\ faults = 0

(* The pass ends, normally or by an exception the daemon is restarted      *)
(* after; nothing of it is kept.                                           *)
EndPass ==
  /\ pc' = "idle"
  /\ oldPorts' = {} /\ conf' = NoSettings /\ snap' = NoSnap /\ store' = "none"
  /\ changed' = FALSE /\ claims' = NoClaims /\ owners' = NoOwners /\ ports' = {}
  /\ todo' = {} /\ cur' = NoChannel /\ resolved' = Unresolved

(* A queued event or the queue timeout starts a pass, which refreshes the  *)
(* mux Service.                                                            *)
Refresh ==
  /\ pc = "idle"
  /\ pc' = "load"
  /\ oldPorts' = muxPorts /\ conf' = settings
  /\ UNCHANGED <<api, index, snap, store, changed, claims, owners, ports, loop, edits, faults>>

(* The channel snapshot, the recovered owners and the persisted state.  A  *)
(* state that cannot be decoded leaves a MuxState without claims, range    *)
(* and store.                                                              *)
Load ==
  /\ pc = "load"
  /\ pc' = "channels"
  /\ snap' = index
  /\ store' = CASE cm.status = "corrupt" -> "none"
                [] cm.status = "absent" -> "new"
                [] OTHER -> "exists"
  /\ conf' = IF cm.status = "corrupt" THEN [conf EXCEPT !.range = <<>>] ELSE conf
  /\ LET loaded == IF cm.status \in {"ok", "legacy"} THEN cm.claims ELSE NoClaims
         recovered == ExistingPortOwners(index, oldPorts)
     IN  /\ claims' = PruneInactive(loaded, index)
         /\ changed' = (cm.status = "legacy" \/ claims' # loaded)
         /\ owners' = SeedPortOwners(claims', recovered)
  /\ todo' = {c \in Channels : index[c] # NoChannel}
  /\ UNCHANGED <<api, index, oldPorts, ports, cur, resolved, edits, faults>>

(* The next channel in order is over the port limit or invalid.            *)
SkipChannel ==
  /\ pc = "channels" /\ cur = NoChannel /\ todo # {}
  /\ LET c == First(todo)
     IN  /\ \/ WouldExceedLimit(ports, snap[c], conf.maxPorts)
            \/ ~snap[c].spec.valid
         /\ todo' = todo \ {c}
  /\ UNCHANGED <<api, index, pc, pass, cur, resolved, edits, faults>>

BeginChannel ==
  /\ pc = "channels" /\ cur = NoChannel /\ todo # {}
  /\ LET c == First(todo)
     IN  /\ ~WouldExceedLimit(ports, snap[c], conf.maxPorts)
         /\ snap[c].spec.valid
         /\ todo' = todo \ {c} /\ cur' = c
  /\ UNCHANGED <<api, index, pc, pass, resolved, edits, faults>>

Unfinished == {n \in DOMAIN snap[cur].spec.ports : resolved[n] = NoPort}

(* The next port of the channel in progress, its claim key, its request.   *)
NextKey == LET n == First(Unfinished) IN <<cur, n, snap[cur].spec.ports[n].proto>>
NextWant == snap[cur].spec.ports[NextKey[2]].want
NextAllocation ==
  Allocate(conf.range, claims, StaticPortClaims(snap),
           ExistingPortOwners(snap, oldPorts), NextKey)

ResolveStaticPort ==
  /\ pc = "channels" /\ cur # NoChannel /\ Unfinished # {}
  /\ NextWant # AutoPort
  /\ resolved' = [resolved EXCEPT ![NextKey[2]] = NextWant]
  /\ UNCHANGED <<api, index, pc, pass, todo, cur, edits, faults>>

(* allocate() records the claim at once, whether or not the channel is     *)
(* accepted in the end.                                                    *)
ResolveAutoPort ==
  /\ pc = "channels" /\ cur # NoChannel /\ Unfinished # {}
  /\ NextWant = AutoPort /\ NextAllocation # NoPort
  /\ resolved' = [resolved EXCEPT ![NextKey[2]] = NextAllocation]
  /\ claims' = [claims EXCEPT ![NextKey] = NextAllocation]
  /\ changed' = (changed \/ claims' # claims)
  /\ UNCHANGED <<api, index, pc, oldPorts, conf, snap, store, owners, ports,
                 todo, cur, edits, faults>>

NextChannel == cur' = NoChannel /\ resolved' = Unresolved

(* No range or no free port in it: the channel is skipped.                 *)
AutoPortUnavailable ==
  /\ pc = "channels" /\ cur # NoChannel /\ Unfinished # {}
  /\ NextWant = AutoPort /\ NextAllocation = NoPort
  /\ NextChannel
  /\ UNCHANGED <<api, index, pc, pass, todo, edits, faults>>

CurPorts == ChannelPorts(cur, snap[cur], resolved)
Resolved == pc = "channels" /\ cur # NoChannel /\ Unfinished = {}

RejectConflict ==
  /\ Resolved
  /\ FindConflicts(owners, CurPorts) # {}
  /\ NextChannel
  /\ UNCHANGED <<api, index, pc, pass, todo, edits, faults>>

(* Ports, owners and claims are updated, then the mapping annotation of    *)
(* the channel is patched if the snapshot shows another one.               *)
CurAnnotation ==
  [n \in PortNames |-> IF n \in DOMAIN snap[cur].spec.ports THEN resolved[n] ELSE NoPort]

AcceptChannel ==
  /\ Resolved
  /\ FindConflicts(owners, CurPorts) = {}
  /\ ports' = ports \cup CurPorts
  /\ owners' = UpdateOwners(owners, CurPorts)
  /\ claims' = RecordClaims(claims, cur, snap[cur], resolved)
  /\ changed' = (changed \/ claims' # claims)
  /\ \/ CurAnnotation = snap[cur].anno /\ live' = live
     \/ /\ CurAnnotation # snap[cur].anno /\ live[cur] # NoChannel
        /\ live' = [live EXCEPT ![cur].anno = CurAnnotation]
  /\ NextChannel
  /\ UNCHANGED <<muxPorts, settings, cm, index, pc, oldPorts, conf, snap, store,
                 todo, edits, faults>>

(* The annotation patch of a channel that is already gone raises NotFound, *)
(* which nothing in the pass catches.                                      *)
ChannelGone ==
  /\ Resolved
  /\ FindConflicts(owners, CurPorts) = {}
  /\ CurAnnotation # snap[cur].anno /\ live[cur] = NoChannel
  /\ EndPass
  /\ UNCHANGED <<api, index, edits, faults>>

AllChannelsDone == pc = "channels" /\ cur = NoChannel /\ todo = {}

(* Mutant: the state is written only when there is no ConfigMap yet.       *)
NeedsSaveOnlyOnce == store = "new"

NeedsSave == store = "new" \/ (store = "exists" /\ changed)

(* save() patches a ConfigMap that load() found and creates one otherwise. *)
SaveStore ==
  /\ AllChannelsDone /\ NeedsSave
  /\ (store = "new") <=> (cm.status = "absent")
  /\ cm' = [status |-> "ok", claims |-> claims]
  /\ pc' = "publish"
  /\ UNCHANGED <<live, muxPorts, settings, index, pass, loop, edits, faults>>

SkipSave ==
  /\ AllChannelsDone /\ ~NeedsSave
  /\ pc' = "publish"
  /\ UNCHANGED <<api, index, pass, loop, edits, faults>>

(* NotFound from the patch, or Conflict from the create.                   *)
SaveFails ==
  /\ AllChannelsDone /\ NeedsSave
  /\ (store = "new") # (cm.status = "absent")
  /\ EndPass
  /\ UNCHANGED <<api, index, edits, faults>>

(* spec.ports is patched if it differs from what the pass began with.      *)
PublishMux ==
  /\ pc = "publish"
  /\ muxPorts' = IF oldPorts # ports THEN ports ELSE muxPorts
  /\ EndPass
  /\ UNCHANGED <<live, settings, cm, index, edits, faults>>

Daemon ==
  \/ Refresh \/ Load \/ SkipChannel \/ BeginChannel
  \/ ResolveStaticPort \/ ResolveAutoPort \/ AutoPortUnavailable
  \/ RejectConflict \/ AcceptChannel \/ ChannelGone
  \/ SaveStore \/ SkipSave \/ SaveFails \/ PublishMux

-----------------------------------------------------------------------------
(* The watch brings the index up to date with one channel Service.         *)
IndexSync(c) ==
  /\ index[c] # live[c]
  /\ index' = [index EXCEPT ![c] = live[c]]
  /\ UNCHANGED <<api, pc, pass, loop, edits, faults>>

(* Users and GitOps reconcilers.                                           *)
Edit(e) == e \in Edits /\ edits < MaxEdits /\ edits' = edits + 1

CreateChannel(c) ==
  /\ Edit("create") /\ live[c] = NoChannel
  /\ \E s \in SpecChoices[c] :
        live' = [live EXCEPT ![c] = [spec |-> s, anno |-> Unresolved]]
  /\ UNCHANGED <<muxPorts, settings, cm, index, pc, pass, loop, faults>>

UpdateChannel(c) ==
  /\ Edit("update") /\ live[c] # NoChannel
  /\ \E s \in SpecChoices[c] \ {live[c].spec} : live' = [live EXCEPT ![c].spec = s]
  /\ UNCHANGED <<muxPorts, settings, cm, index, pc, pass, loop, faults>>

DeleteChannel(c) ==
  /\ Edit("delete") /\ live[c] # NoChannel
  /\ live' = [live EXCEPT ![c] = NoChannel]
  /\ UNCHANGED <<muxPorts, settings, cm, index, pc, pass, loop, faults>>

ChangeSettings ==
  /\ Edit("settings") /\ settings' \in Settings \ {settings}
  /\ UNCHANGED <<live, muxPorts, cm, index, pc, pass, loop, faults>>

-----------------------------------------------------------------------------
Fault(f) == f \in Faults /\ faults < MaxFaults /\ faults' = faults + 1

(* The operator restarts, or a call of the pass fails.                     *)
AbortPass ==
  /\ Fault("abort") /\ pc # "idle"
  /\ EndPass
  /\ UNCHANGED <<api, index, edits>>

CorruptStore ==
  /\ Fault("corrupt") /\ cm.status \in {"ok", "legacy"}
  /\ cm' = [NoStore EXCEPT !.status = "corrupt"]
  /\ UNCHANGED <<live, muxPorts, settings, index, pc, pass, loop, edits>>

DeleteStore ==
  /\ Fault("delete") /\ cm.status # "absent"
  /\ cm' = NoStore
  /\ UNCHANGED <<live, muxPorts, settings, index, pc, pass, loop, edits>>

(* GitOps writes the placeholder port of its manifest back.                *)
ResetMuxPorts ==
  /\ Fault("reset") /\ muxPorts # {}
  /\ muxPorts' = {}
  /\ UNCHANGED <<live, settings, cm, index, pc, pass, loop, edits>>

Environment ==
  \/ \E c \in Channels :
        IndexSync(c) \/ CreateChannel(c) \/ UpdateChannel(c) \/ DeleteChannel(c)
  \/ ChangeSettings
  \/ AbortPass \/ CorruptStore \/ DeleteStore \/ ResetMuxPorts

Next == Daemon \/ Environment

Spec == Init /\ [][Next]_vars

(* The daemon thread wakes up at every queue timeout and runs its pass to  *)
(* the end; the watch delivers every change in the end.  Users and faults  *)
(* owe nothing.                                                            *)
Fairness == WF_vars(Daemon) /\ \A c \in Channels : WF_vars(IndexSync(c))
FairSpec == Spec /\ Fairness

-----------------------------------------------------------------------------
(* Every variable keeps its type.                                          *)
TypeOK ==
  /\ live \in Snapshots
  /\ muxPorts \in SUBSET MuxPorts
  /\ settings \in MuxSettings
  /\ cm \in StoreStates
  /\ index \in Snapshots
  /\ pc \in {"idle", "load", "channels", "publish"}
  /\ oldPorts \in SUBSET MuxPorts
  /\ conf \in MuxSettings
  /\ snap \in Snapshots
  /\ store \in {"none", "new", "exists"}
  /\ changed \in BOOLEAN
  /\ claims \in Claims
  /\ owners \in OwnerMaps
  /\ ports \in SUBSET MuxPorts
  /\ todo \in SUBSET Channels
  /\ cur \in Channels \cup {NoChannel}
  /\ resolved \in Annotations
  /\ edits \in 0..MaxEdits
  /\ faults \in 0..MaxFaults

-----------------------------------------------------------------------------
(* Safety, about the order of the writes and the sources of ownership.     *)

(* The mux Service never carries one (port, protocol) twice: the API       *)
(* server would refuse the patch, and that of every later pass.            *)
OneOwnerPerSlot ==
  \A p, q \in muxPorts : SlotOf(p) = SlotOf(q) => p = q

(* The persisted claims never give one slot to two channel ports, whatever *)
(* rejected channels, crashes and lost states left behind.                 *)
PersistedClaimsDisjoint == Disjoint(cm.claims)

(* A claim is durable before the port goes live: unless the ConfigMap was  *)
(* tampered with, every port a patch of the mux writes is claimed in it,   *)
(* so that a crash right after the patch loses no owner.                   *)
PublishedPortsAreClaimed ==
  [][cm.status = "ok" =>
       \A p \in muxPorts' : cm.claims[<<p.owner[1], p.owner[2], p.proto>>] = p.port]_muxPorts

StaticOnly(c) ==
  /\ snap[c] # NoChannel /\ snap[c].spec.valid
  /\ \A n \in DOMAIN snap[c].spec.ports : snap[c].spec.ports[n].want # AutoPort

StaticEntries(c) ==
  {[owner |-> <<c, n>>, port |-> snap[c].spec.ports[n].want,
    proto |-> snap[c].spec.ports[n].proto] : n \in DOMAIN snap[c].spec.ports}

HoldsItsClaims(c) ==
  \A p \in StaticEntries(c) : claims[<<c, p.owner[2], p.proto>>] = p.port

(* When no port limit is set, a pass serves every channel of static ports  *)
(* whose claims are in the state: neither a channel that sorts earlier nor *)
(* a leftover of the live mux takes its ports away.                        *)
PersistedStaticOwnerServed ==
  pc = "publish" /\ conf.maxPorts = NoLimit =>
    \A c \in Channels : StaticOnly(c) /\ HoldsItsClaims(c) => StaticEntries(c) \subseteq ports

(* The ports of a pass stay within the limit it read.                      *)
WithinLimit == conf.maxPorts # NoLimit => Cardinality(ports) <= conf.maxPorts

(* A persisted automatic assignment moves only if the range no longer has  *)
(* it, a channel asks for that port statically, or the live state names    *)
(* another owner: freed lower ports do not attract it.                     *)
AutoAssignmentStable ==
  [][cm.status = "ok" =>
       \A k \in Keys :
          LET p == cm.claims[k]
          IN  /\ p # NoPort /\ cm'.claims[k] \notin {p, NoPort}
              /\ KeyOwner(k) \in Declared(snap) /\ Decl(snap, KeyOwner(k)).want = AutoPort
              => \/ ~InRange(conf.range, p)
                 \/ KeySlot(k, p) \in StaticPortClaims(snap)
                 \/ ExistingPortOwners(snap, oldPorts)[KeySlot(k, p)]
                      \notin {NoOwner, KeyOwner(k)}]_cm

(* No newcomer takes a live port over: whatever was lost of the ConfigMap   *)
(* and the annotations, a pass gives a slot the mux serves for a channel    *)
(* port that is still declared to no other one, unless that one has the     *)
(* claim on it already.                                                     *)
NoLivePortTakenOver ==
  [][\A k \in Keys :
       pc = "channels" /\ claims'[k] \notin {claims[k], NoPort} =>
         LivePortOwners(snap, oldPorts, KeySlot(k, claims'[k])) \subseteq {KeyOwner(k)}]_claims

(***************************************************************************)
(* The registry the daemon implements: the ConfigMap is its ledger, the    *)
(* ports of the mux Service its table, its members are the channel ports   *)
(* declared in the snapshot of the pass.                                   *)
(***************************************************************************)
LedgerEntries ==
  {[owner |-> KeyOwner(k), port |-> cm.claims[k], proto |-> k[3]] :
      k \in {j \in Keys : cm.claims[j] # NoPort}}

Registry ==
  INSTANCE PortRegistry
  WITH Entries <- MuxPorts, members <- Declared(snap), ledger <- LedgerEntries,
       table <- muxPorts,
       state <- IF cm.status \in {"ok", "legacy"} THEN "kept"
                ELSE IF cm.status = "absent" THEN "absent" ELSE "unreadable"

(* Whatever the interleaving of edits, passes, crashes and lost states,    *)
(* the daemon behaves like the registry: it serves only what is durable,   *)
(* gives no slot twice, drops what is gone, and hands a served slot over   *)
(* to nobody while its owner is there.                                     *)
ImplementsRegistry == Registry!Spec

-----------------------------------------------------------------------------
(* Liveness.                                                               *)

Served(c) ==
  \A n \in DOMAIN live[c].spec.ports :
     \E p \in muxPorts : /\ p.owner = <<c, n>> /\ p.proto = live[c].spec.ports[n].proto
                         /\ live[c].spec.ports[n].want \in {AutoPort, p.port}

TakenByOther(c, s) == \E p \in muxPorts : p.owner[1] # c /\ SlotOf(p) = s

(* A port of c cannot be had: the mux serves another channel there, or     *)
(* each slot of the range is served or asked for statically.               *)
Blocked(c) ==
  \E n \in DOMAIN live[c].spec.ports :
     LET d == live[c].spec.ports[n]
     IN  IF d.want # AutoPort THEN TakenByOther(c, <<d.want, d.proto>>)
         ELSE \A i \in DOMAIN settings.range :
                LET s == <<settings.range[i], d.proto>>
                IN  TakenByOther(c, s) \/ s \in StaticPortClaims(live)

(* When users stop creating and deleting channels, a valid channel stays   *)
(* out of the mux only if the mux serves another one where it wants to be: *)
(* no slot is lost to the claims or annotations of deleted channels, and a *)
(* channel skipped for a conflict is served once the conflict is gone.     *)
EveryChannelServedOrBlocked ==
  <>[](\A c \in Channels :
         live[c] # NoChannel /\ live[c].spec.valid => Served(c) \/ Blocked(c))

=============================================================================
