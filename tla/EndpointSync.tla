---------------------------- MODULE EndpointSync ----------------------------
(***************************************************************************)
(* Backend addresses of one mux: how the Endpoints of the channel Services *)
(* reach the Endpoints of the mux.  Watch handlers of controller.py put    *)
(* the Endpoints they are told about into the cache memo.endpoints; every  *)
(* pass of mux_daemon gathers the cached entries of the channels it        *)
(* accepts, compares them with the cached mux Endpoints, and patches those *)
(* if they differ.  The handlers and the daemon run concurrently, and the  *)
(* watches of Services and of Endpoints are separate streams.              *)
(*                                                                         *)
(* Abstractions: an address stands for an (ip, port, protocol), an entry   *)
(* for one address of a subset under one of its port names (a subset       *)
(* without addresses or ports has no entries).  Which channels the port    *)
(* reconciliation accepts (module MuxReconcile) is a variable of the       *)
(* environment here.                                                       *)
(***************************************************************************)
EXTENDS Integers, FiniteSets

CONSTANTS
  Channels,     \* channel Services, numbered in namespace/name order
  PortNames,
  Addrs,
  Contents,     \* Contents[c]: what the Endpoints of channel c may hold
  NoEndpoints,  \* no Endpoints object, or none cached
  Faults,       \* the faults and races of this instance
  MaxEdits,     \* bound: changes of Services and Endpoints by the cluster
  MaxFaults,    \* bound: faults
  MaxQueue      \* bound: triggers the queue counts; further ones are not told apart

Entries == [name: PortNames, addr: Addrs, ready: BOOLEAN]
MuxEntries == [owner: Channels, name: PortNames, addr: Addrs, ready: BOOLEAN]
MuxEndpoints == [channels: SUBSET Channels, entries: SUBSET MuxEntries]

ASSUME EndpointAssumption ==
  /\ Channels \subseteq Nat
  /\ DOMAIN Contents = Channels
  /\ \A c \in Channels :
       (\A content \in Contents[c] : content \subseteq Entries) /\ NoEndpoints \notin Contents[c]
  /\ NoEndpoints \notin MuxEndpoints
  /\ MaxEdits \in Nat /\ MaxFaults \in Nat /\ MaxQueue \in Nat

VARIABLES
  svc,       \* cluster: channel Services; "released": its finalizer may go
  eps,       \* cluster: Endpoints of the channels
  accepted,  \* cluster: channels whose ports the mux can take
  muxEps,    \* cluster: Endpoints of the mux
  index,     \* operator: channels in the channel_services, mux_channels indices
  gone,      \* operator: channels indexed whose removal the watch will report
  seen,      \* operator: Endpoints the watch last reported
  event,     \* operator: Endpoints on their way to a handler
  cache,     \* operator: memo.endpoints of the channels
  muxCache,  \* operator: memo.endpoints of the mux
  queue,     \* operator: items in memo.mux_queues of the mux
  pc,        \* daemon: where it is in the pass
  snap,      \* daemon: sorted_channels
  todo,      \* daemon: channels the loop has not reached
  gathered,  \* daemon: endpoints
  old,       \* daemon: the mux Endpoints the pass compares with
  edits, faults

cluster == <<svc, eps, accepted, muxEps>>
memo == <<cache, muxCache, queue>>
watches == <<index, gone, seen, event>>
daemon == <<pc, snap, todo, gathered, old>>
vars == <<cluster, memo, watches, daemon, edits, faults>>

-----------------------------------------------------------------------------
CollectChannelEndpoints(c, cached) ==
  IF cached = NoEndpoints THEN {}
  ELSE {[owner |-> c, name |-> e.name, addr |-> e.addr, ready |-> e.ready] : e \in cached}

ReadyAddrs(es) == {e.addr : e \in {f \in es : f.ready}}
NotReadyAddrs(es) == {e.addr : e \in {f \in es : ~f.ready}}

(* Mutant: only ready addresses are compared.                              *)
DiffersInReady(was, channels, es) ==
  \/ was = NoEndpoints
  \/ was.channels # channels
  \/ ReadyAddrs(was.entries) # ReadyAddrs(es)

(* The metadata names the channels; the entries are compared as sets of    *)
(* addresses, whatever port name they are under.                           *)
Differs(was, channels, es) ==
  \/ was = NoEndpoints
  \/ was.channels # channels
  \/ ReadyAddrs(was.entries) # ReadyAddrs(es)
  \/ NotReadyAddrs(was.entries) # NotReadyAddrs(es)

Init ==
  /\ svc = [c \in Channels |-> "none"]
  /\ eps = [c \in Channels |-> NoEndpoints]
  /\ accepted = Channels
  /\ muxEps = NoEndpoints
  /\ index = {} /\ gone = {}
  /\ seen = [c \in Channels |-> NoEndpoints]
  /\ event = [c \in Channels |-> NoEndpoints]
  /\ cache = [c \in Channels |-> NoEndpoints]
  /\ muxCache = NoEndpoints
  /\ queue = 0
  /\ pc = "idle" /\ snap = {} /\ todo = {} /\ gathered = {} /\ old = NoEndpoints
  /\ edits = 0 /\ faults = 0

-----------------------------------------------------------------------------
(* The cluster.                                                            *)

Edit == edits < MaxEdits /\ edits' = edits + 1 /\ UNCHANGED faults

(* A channel may be created again before the Endpoints of its predecessor  *)
(* are removed: the race "hasty".                                          *)
CreateService(c) ==
  /\ Edit
  /\ svc[c] = "none"
  /\ eps[c] = NoEndpoints \/ "hasty" \in Faults
  /\ svc' = [svc EXCEPT ![c] = "live"]
  /\ UNCHANGED <<eps, accepted, muxEps, memo, watches, daemon>>

(* The operator puts its finalizer on a channel it has seen.               *)
DeleteService(c) ==
  /\ Edit
  /\ svc[c] = "live"
  /\ svc' = [svc EXCEPT ![c] = IF c \in index \ gone THEN "deleting" ELSE "none"]
  /\ UNCHANGED <<eps, accepted, muxEps, memo, watches, daemon>>

(* Pods come, go, become ready or not, or the ports are renamed.           *)
ChangeEndpoints(c) ==
  /\ Edit
  /\ svc[c] # "none" /\ eps[c] # NoEndpoints
  /\ \E content \in Contents[c] \ {eps[c]} : eps' = [eps EXCEPT ![c] = content]
  /\ UNCHANGED <<svc, accepted, muxEps, memo, watches, daemon>>

ChangeAccepted(c) ==
  /\ Edit
  /\ accepted' = IF c \in accepted THEN accepted \ {c} ELSE accepted \cup {c}
  /\ UNCHANGED <<svc, eps, muxEps, memo, watches, daemon>>

(* Every Service gets an Endpoints object, which goes with it.  The next   *)
(* one is reported also if it holds the same.                              *)
CreateEndpoints(c) ==
  /\ svc[c] # "none" /\ eps[c] = NoEndpoints
  /\ \E content \in Contents[c] : eps' = [eps EXCEPT ![c] = content]
  /\ UNCHANGED <<svc, accepted, muxEps, memo, watches, daemon, edits, faults>>

RemoveEndpoints(c) ==
  /\ svc[c] = "none" /\ eps[c] # NoEndpoints
  /\ eps' = [eps EXCEPT ![c] = NoEndpoints]
  /\ seen' = [seen EXCEPT ![c] = NoEndpoints]
  /\ UNCHANGED <<svc, accepted, muxEps, memo, index, gone, event, daemon, edits, faults>>

(* Once its handlers are done, a deleted channel goes away.                *)
Finalize(c) ==
  /\ svc[c] = "released"
  /\ svc' = [svc EXCEPT ![c] = "none"]
  /\ gone' = gone \cup {c}
  /\ UNCHANGED <<eps, accepted, muxEps, memo, index, seen, event, daemon, edits, faults>>

-----------------------------------------------------------------------------
(* The watches and the handlers.                                           *)

(* Q.put(channel)                                                          *)
TriggerMux == queue' = IF queue < MaxQueue THEN queue + 1 ELSE queue

(* A new channel is indexed, then its handler runs.  One that has been     *)
(* deleted and created again may be taken for updated.                     *)
HandleChannelService(c) ==
  /\ svc[c] # "none" /\ c \notin index \ gone
  /\ index' = index \cup {c} /\ gone' = gone \ {c}
  /\ TriggerMux
  /\ UNCHANGED <<cluster, seen, event, cache, muxCache, daemon, edits, faults>>

(* Mutant: the whole endpoints cache is dropped.                           *)
ChannelDeletionClears(c) ==
  /\ svc[c] = "deleting"
  /\ svc' = [svc EXCEPT ![c] = "released"]
  /\ cache' = [d \in Channels |-> NoEndpoints]
  /\ TriggerMux
  /\ UNCHANGED <<eps, accepted, muxEps, muxCache, watches, daemon, edits, faults>>

(* The channel is still indexed while its deletion handler runs.           *)
ChannelDeletion(c) ==
  /\ svc[c] = "deleting"
  /\ svc' = [svc EXCEPT ![c] = "released"]
  /\ cache' = [cache EXCEPT ![c] = NoEndpoints]
  /\ TriggerMux
  /\ UNCHANGED <<eps, accepted, muxEps, muxCache, watches, daemon, edits, faults>>

(* No handler runs when the channel leaves the index.                      *)
UnindexChannel(c) ==
  /\ c \in gone
  /\ index' = index \ {c} /\ gone' = gone \ {c}
  /\ UNCHANGED <<cluster, seen, event, memo, daemon, edits, faults>>

(* The watch of Endpoints may report those of a channel before the watch   *)
(* of Services reports the channel: the race "early".                      *)
WatchEndpoints(c) ==
  /\ event[c] = NoEndpoints
  /\ eps[c] \notin {NoEndpoints, seen[c]}
  /\ c \in index \ gone \/ "early" \in Faults
  /\ seen' = [seen EXCEPT ![c] = eps[c]]
  /\ event' = [event EXCEPT ![c] = eps[c]]
  /\ UNCHANGED <<cluster, index, gone, memo, daemon, edits, faults>>

(* is_channel_endpoints drops the event of a Service that is not indexed.  *)
HandleEndpoints(c) ==
  /\ event[c] # NoEndpoints
  /\ event' = [event EXCEPT ![c] = NoEndpoints]
  /\ IF c \in index
     THEN cache' = [cache EXCEPT ![c] = event[c]] /\ TriggerMux
     ELSE UNCHANGED <<cache, queue>>
  /\ UNCHANGED <<cluster, index, gone, seen, muxCache, daemon, edits, faults>>

HandleMuxEndpoints ==
  /\ muxEps # NoEndpoints /\ muxCache # muxEps
  /\ muxCache' = muxEps
  /\ UNCHANGED <<cluster, watches, cache, queue, daemon, edits, faults>>

-----------------------------------------------------------------------------
(* The daemon.                                                             *)

(* Mutant: the entries of one pass are kept for the next.                  *)
EndPassKeepsEntries ==
  /\ pc' = "idle" /\ snap' = {} /\ todo' = {} /\ gathered' = gathered /\ old' = NoEndpoints

EndPass ==
  /\ pc' = "idle" /\ snap' = {} /\ todo' = {} /\ gathered' = {} /\ old' = NoEndpoints

(* Q.get returns an item or times out.                                     *)
BeginPass ==
  /\ pc = "idle"
  /\ pc' = "channels"
  /\ queue' = IF queue = 0 THEN 0 ELSE queue - 1
  /\ snap' = index /\ todo' = index
  /\ UNCHANGED <<cluster, watches, cache, muxCache, gathered, old, edits, faults>>

(* The endpoints of a channel are gathered only if its ports are accepted. *)
CollectChannel ==
  /\ pc = "channels" /\ todo # {}
  /\ LET c == CHOOSE c \in todo : \A d \in todo : c <= d
     IN  /\ todo' = todo \ {c}
         /\ gathered' = IF c \in accepted
                        THEN gathered \cup CollectChannelEndpoints(c, cache[c]) ELSE gathered
  /\ UNCHANGED <<cluster, watches, memo, pc, snap, old, edits, faults>>

ReadMuxEndpoints ==
  /\ pc = "channels" /\ todo = {}
  /\ pc' = "publish"
  /\ old' = muxCache
  /\ UNCHANGED <<cluster, watches, memo, snap, todo, gathered, edits, faults>>

(* The mux Endpoints are created if they are not there, patched if they    *)
(* differ from the cached ones.                                            *)
PublishEndpoints ==
  /\ pc = "publish"
  /\ muxEps # NoEndpoints \/ old = NoEndpoints
  /\ muxEps' = IF muxEps = NoEndpoints \/ Differs(old, snap, gathered)
               THEN [channels |-> snap, entries |-> gathered] ELSE muxEps
  /\ EndPass
  /\ UNCHANGED <<svc, eps, accepted, memo, watches, edits, faults>>

(* What is created is the cached object, with the resourceVersion it had:  *)
(* once deleted, the API server refuses it, and the pass fails.            *)
CreationRefused ==
  /\ pc = "publish"
  /\ muxEps = NoEndpoints /\ old # NoEndpoints
  /\ EndPass
  /\ UNCHANGED <<cluster, memo, watches, edits, faults>>

-----------------------------------------------------------------------------
(* Faults.                                                                 *)

Fault(f) == f \in Faults /\ faults < MaxFaults /\ faults' = faults + 1 /\ UNCHANGED edits

(* An API call of the pass raises; the daemon is started again.            *)
AbortPass ==
  /\ Fault("abort")
  /\ pc # "idle"
  /\ EndPass
  /\ UNCHANGED <<cluster, memo, watches>>

(* Mutant: handlers are not told of the Endpoints that are there.          *)
RestartWithoutResume ==
  /\ Fault("restart")
  /\ index' = {c \in Channels : svc[c] # "none"} /\ gone' = {}
  /\ seen' = eps
  /\ event' = [c \in Channels |-> NoEndpoints]
  /\ cache' = [c \in Channels |-> NoEndpoints]
  /\ muxCache' = NoEndpoints
  /\ queue' = IF index' = {} THEN 0 ELSE MaxQueue
  /\ EndPass
  /\ UNCHANGED cluster

(* The operator starts again with an empty memo.  All channels are indexed *)
(* before the first handler runs; every Endpoints object is reported anew. *)
RestartOperator ==
  /\ Fault("restart")
  /\ index' = {c \in Channels : svc[c] # "none"} /\ gone' = {}
  /\ seen' = [c \in Channels |-> NoEndpoints]
  /\ event' = [c \in Channels |-> NoEndpoints]
  /\ cache' = [c \in Channels |-> NoEndpoints]
  /\ muxCache' = NoEndpoints
  /\ queue' = IF index' = {} THEN 0 ELSE MaxQueue
  /\ EndPass
  /\ UNCHANGED cluster

(* Somebody deletes the mux Endpoints, which no handler is told, or empties *)
(* them.                                                                   *)
DeleteMuxEndpoints ==
  /\ Fault("delete")
  /\ muxEps # NoEndpoints
  /\ muxEps' = NoEndpoints
  /\ UNCHANGED <<svc, eps, accepted, memo, watches, daemon>>

EmptyMuxEndpoints ==
  /\ Fault("empty")
  /\ muxEps # NoEndpoints
  /\ muxEps' = [muxEps EXCEPT !.entries = {}]
  /\ UNCHANGED <<svc, eps, accepted, memo, watches, daemon>>

-----------------------------------------------------------------------------
Daemon ==
  BeginPass \/ CollectChannel \/ ReadMuxEndpoints \/ PublishEndpoints \/ CreationRefused

Handlers(c) ==
  \/ HandleChannelService(c) \/ ChannelDeletion(c) \/ Finalize(c) \/ UnindexChannel(c)

EndpointsController(c) == CreateEndpoints(c) \/ RemoveEndpoints(c)

Environment ==
  \/ \E c \in Channels : \/ CreateService(c) \/ DeleteService(c) \/ ChangeEndpoints(c)
                         \/ ChangeAccepted(c)
  \/ AbortPass \/ RestartOperator \/ DeleteMuxEndpoints \/ EmptyMuxEndpoints

Next ==
  \/ Daemon
  \/ HandleMuxEndpoints
  \/ \E c \in Channels :
       Handlers(c) \/ WatchEndpoints(c) \/ HandleEndpoints(c) \/ EndpointsController(c)
  \/ Environment

Spec == Init /\ [][Next]_vars

(* The daemon loops for ever, the queue timeout starting a pass if nothing *)
(* else does; kopf delivers what it watches and retries its handlers; the  *)
(* endpoints controller of the cluster does its work.                      *)
FairSpec ==
  /\ Spec
  /\ WF_vars(Daemon)
  /\ WF_vars(HandleMuxEndpoints)
  /\ \A c \in Channels :
       /\ WF_vars(Handlers(c)) /\ WF_vars(EndpointsController(c))
       /\ WF_vars(WatchEndpoints(c)) /\ WF_vars(HandleEndpoints(c))

-----------------------------------------------------------------------------
(* Endpoints, or none, for each channel.                                   *)
PerChannel(f) ==
  f = [c \in Channels |-> f[c]] /\ \A c \in Channels : f[c] \in Contents[c] \cup {NoEndpoints}

(* The types of the variables, and what the pass holds outside of it.      *)
TypeOK ==
  /\ svc \in [Channels -> {"none", "live", "deleting", "released"}]
  /\ PerChannel(eps) /\ PerChannel(seen) /\ PerChannel(event) /\ PerChannel(cache)
  /\ accepted \subseteq Channels
  /\ muxEps \in MuxEndpoints \cup {NoEndpoints}
  /\ index \subseteq Channels /\ gone \subseteq index
  /\ \A c \in Channels : svc[c] \in {"deleting", "released"} => c \in index \ gone
  /\ muxCache \in MuxEndpoints \cup {NoEndpoints}
  /\ queue \in 0..MaxQueue
  /\ pc \in {"idle", "channels", "publish"}
  /\ snap \subseteq Channels /\ todo \subseteq snap
  /\ (pc = "idle" => gathered = {}) /\ (pc = "publish" => todo = {})
  /\ gathered \subseteq MuxEntries
  /\ \A e \in gathered : e.owner \in snap \ todo
  /\ old \in MuxEndpoints \cup {NoEndpoints}
  /\ edits \in 0..MaxEdits /\ faults \in 0..MaxFaults

(* What the mux Endpoints should hold: the entries of the channels that    *)
(* are there and accepted.                                                 *)
Wanted ==
  UNION {CollectChannelEndpoints(c, eps[c]) :
           c \in {d \in accepted : svc[d] = "live"}}

(* The mux Endpoints are deleted, but not from the cache.                  *)
DeletedUnderCache == muxEps = NoEndpoints /\ muxCache # NoEndpoints

(* When Services and Endpoints stop changing, the mux Endpoints end up     *)
(* with exactly the entries of the accepted channels, whatever was lost    *)
(* from the cache, was edited or passed a handler by in the meantime; but  *)
(* if somebody deleted them, only after a restart of the operator.         *)
MuxFollowsChannels ==
  <>[](DeletedUnderCache \/ (muxEps # NoEndpoints /\ muxEps.entries = Wanted))

=============================================================================
