---------------------------- MODULE MuxLifecycle ----------------------------
(***************************************************************************)
(* The life of multiplexers in the operator: the daemon thread kopf starts *)
(* and stops for each mux Service, the queue by which handlers reach it    *)
(* (memo.mux_queues), the endpoints cache (memo.endpoints), and the debug  *)
(* state of debug_state.py, which the daemons and mux_deletion write under *)
(* one lock.  Handlers and daemons are threads: the cache may lose a key   *)
(* between the two reads of _update_endpoint_state.                        *)
(*                                                                         *)
(* Abstractions: the cache and the debug endpoints are sets of keys; of    *)
(* the rest of a pass (MuxReconcile, EndpointSync) there is what it does   *)
(* to the mux Endpoints, whose later patches are not reported apart from   *)
(* their creation.  A queue is told apart only by whether the running      *)
(* daemon reads it.                                                        *)
(***************************************************************************)
EXTENDS Naturals, FiniteSets

CONSTANTS
  Muxes, Channels,
  NoMux,      \* no mux, or nobody holds the lock
  NoChannel,  \* no such channel
  NoKey,      \* no key is being read
  Faults,     \* the faults of this instance
  MaxEvents   \* bound: edits by users and faults

Keys == Muxes \cup Channels
(* A channel Service: its mux by its class, and whether debug_state can    *)
(* read its port annotation.                                               *)
Attachments == [mux: Muxes, malformed: BOOLEAN]

ASSUME LifecycleAssumption ==
  /\ Muxes \cap Channels = {}
  /\ NoMux \notin Muxes /\ NoKey \notin Keys /\ NoChannel \notin Attachments
  /\ MaxEvents \in Nat

VARIABLES
  svc,        \* cluster: the mux Services
  chan,       \* cluster: the channel Services
  muxEps,     \* cluster: muxes that have an Endpoints object
  chanEps,    \* cluster: channels that have one
  news,       \* cluster: muxes and channels whose Endpoints are not reported
  index,      \* operator: mux_channels
  queue,      \* operator: memo.mux_queues
  cache,      \* operator: keys of memo.endpoints
  deletion,   \* operator: how far mux_deletion is
  stopped,    \* operator: muxes whose daemon is told to stop
  pc,         \* daemons: where they are
  lock,       \* debug state: the daemon that holds the lock
  current,    \* debug state: the channels of the update under way
  todo,       \* debug state: the keys it has not handled
  reading,    \* debug state: the key it has found in the cache
  shownMuxes, shownChannels, shownEps,  \* debug state
  missed,     \* history: channels whose Endpoints passed the handlers by
  events      \* edits and faults so far

cluster == <<svc, chan, muxEps, chanEps, news, missed>>
memo == <<index, queue, cache, deletion>>
update == <<lock, current, todo, reading>>
shown == <<shownMuxes, shownChannels, shownEps>>
vars == <<cluster, memo, stopped, pc, update, shown, events>>

Attached(at, m) == {c \in Channels : at[c] # NoChannel /\ at[c].mux = m}

(* The operator starts in a cluster it has not served yet.                 *)
Init ==
  /\ svc \in [Muxes -> {"none", "live"}]
  /\ chan \in [Channels -> {a \in Attachments : ~a.malformed} \cup {NoChannel}]
  /\ muxEps = {} /\ missed = {}
  /\ chanEps = {c \in Channels : chan[c] # NoChannel} /\ news = chanEps
  /\ index = chan
  /\ queue = [m \in Muxes |-> "none"]
  /\ cache = {}
  /\ deletion = [m \in Muxes |-> "none"]
  /\ stopped = {}
  /\ pc = [m \in Muxes |-> "none"]
  /\ lock = NoMux /\ current = {} /\ todo = {} /\ reading = NoKey
  /\ shownMuxes = {} /\ shownChannels = [c \in Channels |-> NoMux] /\ shownEps = {}
  /\ events = 0

-----------------------------------------------------------------------------
(* Users.                                                                  *)

Edit == events < MaxEvents /\ events' = events + 1

Operator == <<memo, stopped, pc, update, shown>>

CreateMux(m) ==
  /\ Edit /\ svc[m] = "none"
  /\ svc' = [svc EXCEPT ![m] = "live"]
  /\ UNCHANGED <<chan, muxEps, chanEps, news, missed, Operator>>

DeleteMux(m) ==
  /\ Edit /\ svc[m] = "live"
  /\ svc' = [svc EXCEPT ![m] = "deleting"]
  /\ UNCHANGED <<chan, muxEps, chanEps, news, missed, Operator>>

(* A channel is created, moves to another mux, or its port annotation is   *)
(* spoilt or mended.  One that is created again before the Endpoints of    *)
(* its predecessor are collected keeps those, and nothing is reported.     *)
PutChannel(c) ==
  /\ Edit
  /\ \E a \in Attachments \ {chan[c]} : chan' = [chan EXCEPT ![c] = a]
  /\ missed' = IF chan[c] = NoChannel /\ c \in chanEps THEN missed \cup {c} ELSE missed
  /\ UNCHANGED <<svc, muxEps, chanEps, news, Operator>>

(* The endpoints controller of the cluster.                                *)
CreateEndpoints(c) ==
  /\ chan[c] # NoChannel /\ c \notin chanEps
  /\ chanEps' = chanEps \cup {c} /\ news' = news \cup {c}
  /\ UNCHANGED <<svc, chan, muxEps, missed, Operator, events>>

RemoveEndpoints(c) ==
  /\ chan[c] = NoChannel /\ c \in chanEps
  /\ chanEps' = chanEps \ {c} /\ news' = news \ {c} /\ missed' = missed \ {c}
  /\ UNCHANGED <<svc, chan, muxEps, Operator, events>>

-----------------------------------------------------------------------------
(* Indices and handlers.                                                   *)

(* Mutant: every event of the mux makes a new queue.                       *)
IndexMuxAnew(m) ==
  /\ svc[m] # "none"
  /\ queue' = [queue EXCEPT ![m] = "other"]
  /\ UNCHANGED <<cluster, index, cache, deletion, stopped, pc, update, shown, events>>

(* The index function runs on every event of a mux, also of one that is    *)
(* being deleted; setdefault makes the queue if there is none.             *)
IndexMux(m) ==
  /\ svc[m] # "none" /\ queue[m] = "none"
  /\ queue' = [queue EXCEPT ![m] = "other"]
  /\ UNCHANGED <<cluster, index, cache, deletion, stopped, pc, update, shown, events>>

IndexChannel(c) ==
  /\ index[c] # chan[c]
  /\ index' = [index EXCEPT ![c] = chan[c]]
  /\ UNCHANGED <<cluster, queue, cache, deletion, stopped, pc, update, shown, events>>

(* A channel is deleted: kopf keeps it until the handler has run.          *)
ChannelDeletion(c) ==
  /\ Edit /\ chan[c] # NoChannel
  /\ cache' = cache \ {c}
  /\ chan' = [chan EXCEPT ![c] = NoChannel]
  /\ UNCHANGED <<svc, muxEps, chanEps, news, missed, index, queue, deletion, stopped, pc,
                 update, shown>>

(* The watch of Endpoints does not wait for that of Services:              *)
(* is_channel_endpoints drops an event whose channel is not indexed.       *)
HandleEndpoints(c) ==
  /\ c \in news
  /\ news' = news \ {c}
  /\ IF index[c] # NoChannel
     THEN cache' = cache \cup {c} /\ missed' = missed \ {c}
     ELSE cache' = cache /\ missed' = missed \cup {c}
  /\ UNCHANGED <<svc, chan, muxEps, chanEps, index, queue, deletion, stopped, pc, update, shown,
                 events>>

(* An event of mux Endpoints whose mux is gone is dropped.                 *)
MuxEndpoints(m) ==
  /\ m \in news
  /\ news' = news \ {m}
  /\ cache' = IF svc[m] # "none" THEN cache \cup {m} ELSE cache
  /\ UNCHANGED <<svc, chan, muxEps, chanEps, missed, index, queue, deletion, stopped, pc, update,
                 shown, events>>

(* kopf tells the daemon of a deleted mux to stop, and runs mux_deletion   *)
(* without waiting for it.                                                 *)
StopDaemon(m) ==
  /\ svc[m] = "deleting" /\ pc[m] # "none" /\ m \notin stopped
  /\ stopped' = stopped \cup {m}
  /\ UNCHANGED <<cluster, memo, pc, update, shown, events>>

MuxDeletion(m) ==
  /\ svc[m] = "deleting" /\ deletion[m] = "none"
  /\ m \in stopped \/ pc[m] = "none"
  /\ deletion' = [deletion EXCEPT ![m] = "popped"]
  /\ cache' = cache \ {m}
  /\ queue' = [queue EXCEPT ![m] = "none"]
  /\ UNCHANGED <<cluster, index, stopped, pc, update, shown, events>>

(* Mutant: the channels of the mux stay in the debug state.                *)
DeleteMuxStateOnly(m) ==
  /\ deletion[m] = "popped" /\ lock = NoMux
  /\ deletion' = [deletion EXCEPT ![m] = "done"]
  /\ shownMuxes' = shownMuxes \ {m}
  /\ shownEps' = shownEps \ {m}
  /\ UNCHANGED <<cluster, index, queue, cache, stopped, pc, update, shownChannels, events>>

DeleteMuxState(m) ==
  /\ deletion[m] = "popped" /\ lock = NoMux
  /\ deletion' = [deletion EXCEPT ![m] = "done"]
  /\ shownMuxes' = shownMuxes \ {m}
  /\ LET gone == {c \in Channels : shownChannels[c] = m}
     IN  /\ shownChannels' = [c \in Channels |-> IF c \in gone THEN NoMux ELSE shownChannels[c]]
         /\ shownEps' = shownEps \ (gone \cup {m})
  /\ UNCHANGED <<cluster, index, queue, cache, stopped, pc, update, events>>

(* The finalizer goes once the handler and the daemon are done; the        *)
(* cluster collects the Endpoints.                                         *)
ReleaseMux(m) ==
  /\ svc[m] = "deleting" /\ deletion[m] = "done" /\ pc[m] = "none"
  /\ svc' = [svc EXCEPT ![m] = "none"]
  /\ deletion' = [deletion EXCEPT ![m] = "none"]
  /\ muxEps' = muxEps \ {m}
  /\ UNCHANGED <<chan, chanEps, news, missed, index, queue, cache, stopped, pc, update, shown,
                 events>>

-----------------------------------------------------------------------------
(* The daemon.                                                             *)

Goto(m, l) == pc' = [pc EXCEPT ![m] = l]

StartDaemon(m) ==
  /\ pc[m] = "none" /\ svc[m] = "live"
  /\ Goto(m, "starting")
  /\ queue' = [queue EXCEPT ![m] = "own"]
  /\ UNCHANGED <<cluster, index, cache, deletion, stopped, update, shown, events>>

(* An exception ends the daemon.  Its queue stays registered; kopf starts  *)
(* it again unless it was told to stop.                                    *)
DaemonDies(m) ==
  /\ Goto(m, "none")
  /\ queue' = [queue EXCEPT ![m] = IF queue[m] = "own" THEN "other" ELSE queue[m]]
  /\ stopped' = stopped \ {m}

(* The wait for an event of the queue, which may time out, is part of      *)
(* this: a daemon that is told to stop while it waits makes one more pass. *)
Loop(m) ==
  /\ pc[m] = "top" /\ m \notin stopped
  /\ Goto(m, "update")
  /\ UNCHANGED <<cluster, memo, stopped, update, shown, events>>

ExitDaemon(m) ==
  /\ pc[m] = "top" /\ m \in stopped
  /\ Goto(m, "none")
  /\ queue' = [queue EXCEPT ![m] = "none"]
  /\ stopped' = stopped \ {m}
  /\ UNCHANGED <<cluster, index, cache, deletion, update, shown, events>>

-----------------------------------------------------------------------------
(* update_mux_state, when the daemon starts and in every round.            *)

Release == lock' = NoMux /\ current' = {} /\ todo' = {} /\ reading' = NoKey

BeginUpdate(m) ==
  /\ pc[m] \in {"starting", "update"} /\ lock = NoMux
  /\ lock' = m /\ reading' = NoKey
  /\ current' = Attached(index, m)
  /\ todo' = current' \cup {m}
  /\ shownMuxes' = shownMuxes \cup {m}
  /\ UNCHANGED <<cluster, memo, stopped, pc, shownChannels, shownEps, events>>

(* The mux comes first.                                                    *)
NextKeys(m) == IF m \in todo THEN {m} ELSE todo

(* The entry of a channel follows that of its Endpoints.                   *)
Show(m, k) ==
  /\ todo' = todo \ {k} /\ reading' = NoKey
  /\ shownChannels' = IF k \in Channels THEN [shownChannels EXCEPT ![k] = m] ELSE shownChannels
  /\ UNCHANGED <<lock, current>>

Readable(k) == k \in Channels /\ index[k] # NoChannel => ~index[k].malformed

SkipEndpoints(m, k) ==
  /\ lock = m /\ reading = NoKey /\ k \in NextKeys(m)
  /\ k \notin cache /\ Readable(k)
  /\ Show(m, k)
  /\ UNCHANGED <<cluster, memo, stopped, pc, shownMuxes, shownEps, events>>

FindEndpoints(m, k) ==
  /\ lock = m /\ reading = NoKey /\ k \in NextKeys(m)
  /\ k \in cache
  /\ reading' = k
  /\ UNCHANGED <<cluster, memo, stopped, pc, lock, current, todo, shown, events>>

ReadEndpoints(m, k) ==
  /\ lock = m /\ reading = k
  /\ k \in cache /\ Readable(k)
  /\ shownEps' = shownEps \cup {k}
  /\ Show(m, k)
  /\ UNCHANGED <<cluster, memo, stopped, pc, shownMuxes, events>>

(* Mutant: the lock is not released by an exception.                       *)
UpdateRaisesLocked(m, k) ==
  /\ lock = m /\ reading = k /\ k \notin cache
  /\ DaemonDies(m)
  /\ UNCHANGED <<cluster, index, cache, deletion, update, shown, events>>

(* A handler has popped the key in between (KeyError), or the annotation   *)
(* of the channel is no number (ValueError): nothing catches it.           *)
UpdateRaises(m, k) ==
  /\ lock = m
  /\ \/ reading = k /\ k \notin cache /\ shownEps' = shownEps
     \/ reading = k /\ k \in cache /\ ~Readable(k) /\ shownEps' = shownEps \cup {k}
     \/ /\ reading = NoKey /\ k \in NextKeys(m) /\ k \notin cache /\ ~Readable(k)
        /\ shownEps' = shownEps
  /\ Release
  /\ DaemonDies(m)
  /\ UNCHANGED <<cluster, index, cache, deletion, shownMuxes, shownChannels, events>>

(* Mutant: entries are removed whatever mux they name.                     *)
EndUpdateRemovesOthers(m) ==
  /\ lock = m /\ todo = {}
  /\ Release
  /\ shownChannels' = [c \in Channels |-> IF c \in current THEN shownChannels[c] ELSE NoMux]
  /\ shownEps' = shownEps \ (Channels \ current)
  /\ Goto(m, IF pc[m] = "starting" THEN "top" ELSE "pass")
  /\ UNCHANGED <<cluster, memo, stopped, shownMuxes, events>>

EndUpdate(m) ==
  /\ lock = m /\ todo = {}
  /\ Release
  /\ LET gone == {c \in Channels \ current : shownChannels[c] = m}
     IN  /\ shownChannels' = [c \in Channels |-> IF c \in gone THEN NoMux ELSE shownChannels[c]]
         /\ shownEps' = shownEps \ gone
  /\ Goto(m, IF pc[m] = "starting" THEN "top" ELSE "pass")
  /\ UNCHANGED <<cluster, memo, stopped, shownMuxes, events>>

-----------------------------------------------------------------------------
(* The rest of the pass creates the mux Endpoints or patches them if they  *)
(* differ.  What is created is the cached object, which the API server     *)
(* refuses.                                                                *)
FinishPass(m) ==
  /\ pc[m] = "pass"
  /\ m \in muxEps \/ m \notin cache
  /\ Goto(m, "top")
  /\ muxEps' = muxEps \cup {m}
  /\ news' = IF m \in muxEps THEN news ELSE news \cup {m}
  /\ UNCHANGED <<svc, chan, chanEps, missed, memo, stopped, update, shown, events>>

CreationRefused(m) ==
  /\ pc[m] = "pass" /\ m \notin muxEps /\ m \in cache
  /\ DaemonDies(m)
  /\ UNCHANGED <<cluster, index, cache, deletion, update, shown, events>>

Daemon(m) ==
  \/ StartDaemon(m) \/ Loop(m) \/ ExitDaemon(m)
  \/ \E k \in Keys :
       SkipEndpoints(m, k) \/ FindEndpoints(m, k) \/ ReadEndpoints(m, k) \/ UpdateRaises(m, k)
  \/ EndUpdate(m) \/ FinishPass(m) \/ CreationRefused(m)

-----------------------------------------------------------------------------
Fault(f) == f \in Faults /\ events < MaxEvents /\ events' = events + 1

(* A call of the pass raises.                                              *)
AbortPass(m) ==
  /\ Fault("abort") /\ pc[m] = "pass"
  /\ DaemonDies(m)
  /\ UNCHANGED <<cluster, index, cache, deletion, update, shown>>

(* The operator starts again with nothing in memory; every object is       *)
(* reported to it again.                                                   *)
RestartOperator ==
  /\ Fault("restart")
  /\ index' = chan
  /\ queue' = [m \in Muxes |-> "none"]
  /\ cache' = {} /\ news' = muxEps \cup chanEps /\ missed' = {}
  /\ deletion' = [m \in Muxes |-> "none"]
  /\ stopped' = {} /\ pc' = [m \in Muxes |-> "none"]
  /\ Release
  /\ shownMuxes' = {} /\ shownChannels' = [c \in Channels |-> NoMux] /\ shownEps' = {}
  /\ UNCHANGED <<svc, chan, muxEps, chanEps>>

MuxHandlers(m) == IndexMux(m) \/ StopDaemon(m) \/ MuxDeletion(m) \/ ReleaseMux(m)

ChannelHandlers(c) == IndexChannel(c) \/ HandleEndpoints(c)

EndpointsController(c) == CreateEndpoints(c) \/ RemoveEndpoints(c)

Next ==
  \/ \E m \in Muxes : \/ CreateMux(m) \/ DeleteMux(m) \/ MuxHandlers(m) \/ MuxEndpoints(m)
                      \/ DeleteMuxState(m) \/ Daemon(m) \/ BeginUpdate(m) \/ AbortPass(m)
  \/ \E c \in Channels : \/ PutChannel(c) \/ ChannelDeletion(c) \/ ChannelHandlers(c)
                         \/ EndpointsController(c)
  \/ RestartOperator

Spec == Init /\ [][Next]_vars

(* Daemons loop for ever, waking up at the queue timeout; kopf starts them *)
(* again and delivers what it watches; the lock is free between the        *)
(* updates, and a thread that waits for it gets it in the end.             *)
Fairness ==
  /\ \A m \in Muxes : /\ WF_vars(Daemon(m)) /\ SF_vars(BeginUpdate(m)) /\ SF_vars(DeleteMuxState(m))
                      /\ WF_vars(MuxHandlers(m)) /\ WF_vars(MuxEndpoints(m))
  /\ \A c \in Channels : WF_vars(ChannelHandlers(c)) /\ WF_vars(EndpointsController(c))

FairSpec == Spec /\ Fairness

-----------------------------------------------------------------------------
TypeOK ==
  /\ svc \in [Muxes -> {"none", "live", "deleting"}]
  /\ chan \in [Channels -> Attachments \cup {NoChannel}]
  /\ index \in [Channels -> Attachments \cup {NoChannel}]
  /\ muxEps \subseteq Muxes /\ chanEps \subseteq Channels /\ missed \subseteq chanEps
  /\ news \subseteq Keys /\ news \cap Channels \subseteq chanEps
  /\ queue \in [Muxes -> {"none", "own", "other"}]
  /\ cache \subseteq Keys
  /\ deletion \in [Muxes -> {"none", "popped", "done"}]
  /\ stopped \subseteq Muxes
  /\ pc \in [Muxes -> {"none", "starting", "top", "update", "pass"}]
  /\ lock \in {m \in Muxes : pc[m] \in {"starting", "update"}} \cup {NoMux}
  /\ current \subseteq Channels /\ todo \subseteq Keys /\ reading \in Keys \cup {NoKey}
  /\ shownMuxes \subseteq Muxes /\ shownEps \subseteq Keys
  /\ shownChannels \in [Channels -> Muxes \cup {NoMux}]
  /\ events \in 0..MaxEvents

(* The queue handlers find is the one the daemon waits on, as long as the  *)
(* mux is not being deleted: no event of a channel goes to a queue nobody  *)
(* reads, whichever of index, daemon, crash and deletion came last.        *)
DaemonReadsTheQueue ==
  \A m \in Muxes : pc[m] # "none" /\ svc[m] = "live" => queue[m] = "own"

(* The debug state never shows a channel without its mux: topology()       *)
(* always finds the mux of a channel, also while muxes are deleted.        *)
ShownChannelsHaveTheirMux ==
  \A c \in Channels : shownChannels[c] # NoMux => shownChannels[c] \in shownMuxes

(* What keeps a live mux from being served for good: a channel whose       *)
(* annotation cannot be parsed, or a cached copy of Endpoints that are     *)
(* gone.                                                                   *)
Obstructed(m) ==
  \/ \E c \in Attached(chan, m) : chan[c].malformed
  \/ m \in cache \ muxEps

(* When users are done, every live mux is served with its channels, and    *)
(* the debug state shows them and nothing else of it, whatever was moved,  *)
(* deleted or restarted under its threads; and with the Endpoints of each  *)
(* channel, unless those came before the channel was indexed, or were      *)
(* there before the channel.                                               *)
LiveMuxesAreServed ==
  <>[](\A m \in Muxes : svc[m] = "live" /\ ~Obstructed(m) =>
         /\ m \in muxEps
         /\ m \in shownMuxes
         /\ \A c \in Channels : shownChannels[c] = m <=> c \in Attached(chan, m)
         /\ Attached(chan, m) \ missed \subseteq shownEps)

(* A deleted mux leaves the cluster in the end: neither its daemon nor the *)
(* lock keeps its finalizer.                                               *)
DeletionCompletes == \A m \in Muxes : svc[m] = "deleting" ~> svc[m] # "deleting"
=============================================================================
