----------------------------- MODULE HandlerPool -----------------------------
(***************************************************************************)
(* The threads of the operator.  kopf runs its synchronous functions, that *)
(* is all of controller.py but startup and cleanup, in one pool of         *)
(* settings.execution.max_workers threads, in the order they become due.   *)
(* The daemon of a mux keeps a thread as long as it runs; trigger_mux      *)
(* keeps one while it waits for the queue of a mux, which an index         *)
(* function or a daemon makes that may be waiting for a thread itself.     *)
(*                                                                         *)
(* Abstractions: a channel stands for its Service and its Endpoints, whose *)
(* handlers call trigger_mux alike; queues are told apart only by whether  *)
(* there is one (MuxLifecycle has who reads it), the two seconds between   *)
(* looks and the ten before a retry are steps.  Objects deleted before     *)
(* kopf saw them are left out.                                             *)
(***************************************************************************)
EXTENDS Naturals, FiniteSets, Sequences, SequencesExt

CONSTANTS
  Muxes, Channels,
  NoMux,     \* what a class names that cannot be parsed
  NoChannel, \* no such channel
  Bodies,    \* [mux, named]: the channels users write
  Workers,   \* max_workers
  Faults,    \* the faults of this instance
  MaxEvents  \* bound: edits by users and faults

MaxLooks == 5  \* of trigger_mux for the queue

(* Every mux leaves a thread to the rest: the code sets 64 workers and has *)
(* no limit on muxes.                                                      *)
ASSUME PoolAssumption ==
  /\ IsFiniteSet(Muxes) /\ Muxes \cap Channels = {} /\ NoMux \notin Muxes
  /\ Bodies \subseteq [mux: Muxes \cup {NoMux}, named: BOOLEAN]
  /\ NoChannel \notin [body: Bodies, deleting: BOOLEAN]
  /\ Workers \in Nat /\ Cardinality(Muxes) < Workers
  /\ MaxEvents \in Nat

VARIABLES
  svc,      \* cluster: the mux Services
  chan,     \* cluster: the channel Services
  fresh,    \* kopf: objects with an event that is not processed yet
  seen,     \* kopf: the channel as of the event being processed
  stage,    \* kopf: how far the event of an object is
  stopped,  \* kopf: muxes whose daemon is told to stop
  due,      \* pool: the functions waiting for a thread, first come first
  threads,  \* pool: the functions that have one
  queue,    \* operator: muxes with a queue in memo.mux_queues
  looks,    \* handlers: how often trigger_mux found no queue
  heard,    \* history: channels whose mux was told of their last change
  events    \* edits and faults so far

cluster == <<svc, chan>>
kopf == <<fresh, seen, stage, stopped>>
pool == <<due, threads>>
vars == <<cluster, kopf, pool, queue, looks, heard, events>>

Objects == Muxes \cup Channels
Job(f, x) == [fn |-> f, of |-> x]
Jobs == [fn: {"index", "handle", "daemon"}, of: Objects]

Submit(f, x) == due' = Append(due, Job(f, x))
Runs(f, x) == Job(f, x) \in threads
Done(f, x) == threads' = threads \ {Job(f, x)}
HasDaemon(m) == Job("daemon", m) \in threads \cup ToSet(due)
Stage(x, s) == stage' = [stage EXCEPT ![x] = s]

Init ==
  /\ svc = [m \in Muxes |-> "none"] /\ chan = [c \in Channels |-> NoChannel]
  /\ fresh = {} /\ seen = chan /\ stage = [x \in Objects |-> "idle"] /\ stopped = {}
  /\ due = <<>> /\ threads = {}
  /\ queue = {} /\ looks = [c \in Channels |-> 0]
  /\ heard = {} /\ events = 0

-----------------------------------------------------------------------------
(* Users.                                                                  *)

Edit(x) == events < MaxEvents /\ events' = events + 1 /\ fresh' = fresh \cup {x}
Operator == <<seen, stage, stopped, pool, queue, looks>>

CreateMux(m) ==
  /\ Edit(m) /\ svc[m] = "none"
  /\ svc' = [svc EXCEPT ![m] = "live"]
  /\ UNCHANGED <<chan, Operator, heard>>

DeleteMux(m) ==
  /\ Edit(m) /\ svc[m] = "live"
  /\ svc' = [svc EXCEPT ![m] = "deleting"]
  /\ UNCHANGED <<chan, Operator, heard>>

PutChannel(c) ==
  /\ Edit(c) /\ (chan[c] # NoChannel => ~chan[c].deleting)
  /\ \E b \in Bodies :
       LET put == [body |-> b, deleting |-> FALSE]
       IN  chan[c] # put /\ chan' = [chan EXCEPT ![c] = put]
  /\ heard' = heard \ {c}
  /\ UNCHANGED <<svc, Operator>>

DeleteChannel(c) ==
  /\ Edit(c) /\ chan[c] # NoChannel /\ ~chan[c].deleting
  /\ chan' = [chan EXCEPT ![c].deleting = TRUE]
  /\ UNCHANGED <<svc, Operator, heard>>

-----------------------------------------------------------------------------
(* kopf and the pool.                                                      *)

(* The last event of an object is processed when the one before is, or     *)
(* when it waits for a retry: the index functions come first.              *)
Process(x) ==
  /\ x \in fresh /\ stage[x] \in {"idle", "retry"}
  /\ fresh' = fresh \ {x}
  /\ seen' = IF x \in Channels THEN [seen EXCEPT ![x] = chan[x]] ELSE seen
  /\ Stage(x, "index") /\ Submit("index", x)
  /\ UNCHANGED <<cluster, stopped, threads, queue, looks, heard, events>>

(* The delay of a TemporaryError is over.                                  *)
Retry(c) ==
  /\ stage[c] = "retry" /\ c \notin fresh
  /\ Stage(c, "handle") /\ Submit("handle", c)
  /\ UNCHANGED <<cluster, fresh, seen, stopped, threads, queue, looks, heard, events>>

(* A daemon begins with the queue of its mux, which it makes if there is   *)
(* none.                                                                   *)
TakeThread ==
  /\ due # <<>> /\ Cardinality(threads) < Workers
  /\ due' = Tail(due) /\ threads' = threads \cup {Head(due)}
  /\ queue' = IF Head(due).fn = "daemon" THEN queue \cup {Head(due).of} ELSE queue
  /\ UNCHANGED <<cluster, kopf, looks, heard, events>>

(* A deleted mux is gone once mux_deletion and the daemon are done.        *)
ReleaseMux(m) ==
  /\ stage[m] = "done" /\ ~HasDaemon(m)
  /\ svc' = [svc EXCEPT ![m] = "none"]
  /\ Stage(m, "idle") /\ fresh' = fresh \ {m}
  /\ UNCHANGED <<chan, seen, stopped, pool, queue, looks, heard, events>>

-----------------------------------------------------------------------------
(* Functions of the mux.                                                   *)

(* Mutant: the queue is made with the daemon only.                         *)
IndexMuxWithoutQueue(m) ==
  /\ Runs("index", m) /\ Done("index", m)
  /\ IF svc[m] = "live"
     THEN /\ Stage(m, "idle") /\ stopped' = stopped
          /\ IF HasDaemon(m) THEN due' = due ELSE Submit("daemon", m)
     ELSE /\ Stage(m, "handle") /\ Submit("handle", m)
          /\ stopped' = IF HasDaemon(m) THEN stopped \cup {m} ELSE stopped
  /\ UNCHANGED <<cluster, fresh, seen, queue, looks, heard, events>>

(* multiplexer_services; kopf starts the daemon, or tells it to stop and   *)
(* calls mux_deletion.                                                     *)
IndexMux(m) ==
  /\ Runs("index", m) /\ Done("index", m)
  /\ queue' = queue \cup {m}
  /\ IF svc[m] = "live"
     THEN /\ Stage(m, "idle") /\ stopped' = stopped
          /\ IF HasDaemon(m) THEN due' = due ELSE Submit("daemon", m)
     ELSE /\ Stage(m, "handle") /\ Submit("handle", m)
          /\ stopped' = IF HasDaemon(m) THEN stopped \cup {m} ELSE stopped
  /\ UNCHANGED <<cluster, fresh, seen, looks, heard, events>>

MuxDeletion(m) ==
  /\ Runs("handle", m) /\ Done("handle", m)
  /\ queue' = queue \ {m}
  /\ Stage(m, "done")
  /\ UNCHANGED <<cluster, fresh, seen, stopped, due, looks, heard, events>>

ExitDaemon(m) ==
  /\ Runs("daemon", m) /\ m \in stopped /\ Done("daemon", m)
  /\ queue' = queue \ {m} /\ stopped' = stopped \ {m}
  /\ UNCHANGED <<cluster, fresh, seen, stage, due, looks, heard, events>>

(* A pass raises: the daemon leaves its thread, and gets in line for one   *)
(* unless it is told to stop.                                              *)
AbortDaemon(m) ==
  /\ "abort" \in Faults /\ events < MaxEvents /\ events' = events + 1
  /\ Runs("daemon", m) /\ Done("daemon", m)
  /\ IF m \in stopped THEN due' = due ELSE Submit("daemon", m)
  /\ stopped' = stopped \ {m}
  /\ UNCHANGED <<cluster, fresh, seen, stage, queue, looks, heard>>

-----------------------------------------------------------------------------
(* Functions of the channels.                                              *)

(* channel_services and mux_channels.                                      *)
IndexChannel(c) ==
  /\ Runs("index", c) /\ Done("index", c)
  /\ Stage(c, "handle") /\ Submit("handle", c)
  /\ UNCHANGED <<cluster, fresh, seen, stopped, queue, looks, heard, events>>

(* The handler returns; a deleted channel loses its finalizer.             *)
Return(c) ==
  /\ Done("handle", c) /\ looks' = [looks EXCEPT ![c] = 0]
  /\ Stage(c, "idle")
  /\ IF seen[c].deleting
     THEN /\ chan' = [chan EXCEPT ![c] = NoChannel] /\ fresh' = fresh \ {c}
     ELSE UNCHANGED <<chan, fresh>>
  /\ UNCHANGED <<svc, seen, stopped, due, queue, events>>

(* The handlers call trigger_mux, which finds the mux in the class.        *)
Triggers(ch) == ch.body.mux # NoMux /\ (ch.body.named \/ ch.deleting)

Refuse(c) ==
  /\ Runs("handle", c) /\ ~Triggers(seen[c])
  /\ Return(c)
  /\ UNCHANGED heard

FindsQueue(c) == seen[c].body.mux \in queue

Trigger(c) ==
  /\ Runs("handle", c) /\ Triggers(seen[c]) /\ FindsQueue(c)
  /\ Return(c)
  /\ heard' = IF seen[c] = chan[c] THEN heard \cup {c} ELSE heard

(* Mutant: the first look is not counted.                                  *)
LookOnceMore(c) ==
  /\ Runs("handle", c) /\ Triggers(seen[c]) /\ ~FindsQueue(c)
  /\ looks[c] < MaxLooks
  /\ looks' = [looks EXCEPT ![c] = @ + 1]
  /\ UNCHANGED <<cluster, kopf, pool, queue, heard, events>>

(* It sleeps in its thread before it looks again.                          *)
LookAgain(c) ==
  /\ Runs("handle", c) /\ Triggers(seen[c]) /\ ~FindsQueue(c)
  /\ looks[c] < MaxLooks - 1
  /\ looks' = [looks EXCEPT ![c] = @ + 1]
  /\ UNCHANGED <<cluster, kopf, pool, queue, heard, events>>

LastLook(c) ==
  /\ Runs("handle", c) /\ Triggers(seen[c]) /\ ~FindsQueue(c)
  /\ looks[c] = MaxLooks - 1

TemporaryError(c) ==
  /\ Done("handle", c) /\ looks' = [looks EXCEPT ![c] = 0]
  /\ Stage(c, "retry")
  /\ UNCHANGED <<cluster, fresh, seen, stopped, due, queue, heard, events>>

(* Mutants: it goes on looking; the deletion of a channel raises as well;  *)
(* nothing raises.                                                         *)
KeepLooking(c) ==
  /\ LastLook(c)
  /\ looks' = [looks EXCEPT ![c] = 0]
  /\ UNCHANGED <<cluster, kopf, pool, queue, heard, events>>
AlwaysRaise(c) == LastLook(c) /\ TemporaryError(c)
NeverRaise(c) == LastLook(c) /\ Return(c) /\ UNCHANGED heard

(* After the last look it raises for kopf to call the handler again, but   *)
(* not if the channel is being deleted (no_raise).                         *)
GiveUp(c) ==
  /\ LastLook(c)
  /\ IF seen[c].deleting THEN Return(c) /\ UNCHANGED heard ELSE TemporaryError(c)

-----------------------------------------------------------------------------
MuxSteps(m) ==
  Process(m) \/ IndexMux(m) \/ MuxDeletion(m) \/ ExitDaemon(m) \/ ReleaseMux(m)
ChannelSteps(c) ==
  Process(c) \/ Retry(c) \/ IndexChannel(c) \/ Refuse(c) \/ Trigger(c) \/ LookAgain(c) \/ GiveUp(c)

Next ==
  \/ TakeThread
  \/ \E m \in Muxes : CreateMux(m) \/ DeleteMux(m) \/ AbortDaemon(m) \/ MuxSteps(m)
  \/ \E c \in Channels : PutChannel(c) \/ DeleteChannel(c) \/ ChannelSteps(c)

Spec == Init /\ [][Next]_vars

(* kopf processes the events of every object, a free thread takes what is  *)
(* due first, and threads run.                                             *)
FairSpec ==
  /\ Spec /\ WF_vars(TakeThread)
  /\ \A m \in Muxes : WF_vars(MuxSteps(m))
  /\ \A c \in Channels : WF_vars(ChannelSteps(c))

-----------------------------------------------------------------------------
(* A function is due or running once at a time, and only while the event   *)
(* of its object is at that stage; what is left are the daemons.           *)
TypeOK ==
  /\ svc \in [Muxes -> {"none", "live", "deleting"}]
  /\ chan \in [Channels -> [body: Bodies, deleting: BOOLEAN] \cup {NoChannel}]
  /\ fresh \subseteq Objects /\ stopped \subseteq Muxes /\ queue \subseteq Muxes
  /\ seen \in [Channels -> [body: Bodies, deleting: BOOLEAN] \cup {NoChannel}]
  /\ stage \in [Objects -> {"idle", "index", "handle", "retry", "done"}]
  /\ due \in Seq(Jobs) /\ threads \subseteq Jobs
  /\ IsInjective(due) /\ threads \cap ToSet(due) = {}
  /\ \A f \in threads \cup ToSet(due) :
       IF f.fn = "daemon" THEN f.of \in Muxes ELSE stage[f.of] = f.fn
  /\ Cardinality(threads) <= Workers
  /\ looks \in [Channels -> 0..(MaxLooks - 1)]
  /\ heard \subseteq Channels /\ events \in 0..MaxEvents

(* Nothing users do is forgotten: the event of an object that is being     *)
(* processed has its function in the pool or will be tried again, and a    *)
(* channel without one was either processed as it is now, its mux told of  *)
(* its last change, or has an event that still comes.                      *)
NoChangeIsForgotten ==
  /\ \A x \in Objects :
       stage[x] \in {"index", "handle"} => Job(stage[x], x) \in threads \cup ToSet(due)
  /\ \A c \in Channels : chan[c] # NoChannel /\ c \notin fresh =>
       /\ seen[c] = chan[c]
       /\ stage[c] = "idle" => ~chan[c].deleting /\ (Triggers(chan[c]) => c \in heard)

(* A live mux whose event was processed has the queue that handlers look   *)
(* for, and a daemon, running or due, that nothing has told to stop, also  *)
(* if a mux of its name was deleted before; a deleted one is on its way.   *)
MuxesAreInHand ==
  \A m \in Muxes \ fresh :
    /\ svc[m] = "live" =>
         stage[m] = "index" \/ (m \in queue /\ HasDaemon(m) /\ m \notin stopped)
    /\ svc[m] = "deleting" => stage[m] # "idle"

(* When users are done, every live mux has its daemon: the handlers that   *)
(* wait for queues do not keep the threads from the functions that make    *)
(* them, however many there are.                                           *)
LiveMuxesHaveDaemons == <>[](\A m \in Muxes : svc[m] = "live" => Runs("daemon", m))

(* What users delete leaves: a channel whose mux is missing, or one that   *)
(* is deleted while its handler waits, does not keep its finalizer, nor    *)
(* does a mux whose daemon was still waiting for a thread.                 *)
DeletionsComplete ==
  /\ \A c \in Channels : (chan[c] # NoChannel /\ chan[c].deleting) ~> chan[c] = NoChannel
  /\ \A m \in Muxes : svc[m] = "deleting" ~> svc[m] = "none"

(* When users are done, the mux of every channel was told of the last      *)
(* change of the channel, though it came long after the channel did.       *)
MuxesHearOfChanges ==
  <>[](\A c \in Channels :
         chan[c] # NoChannel /\ ~chan[c].deleting /\ Triggers(chan[c])
           /\ svc[chan[c].body.mux] = "live"
         => c \in heard)
==============================================================================
