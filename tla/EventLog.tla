------------------------------ MODULE EventLog ------------------------------
(***************************************************************************)
(* Recording of events: the call of events.py that handlers and daemons    *)
(* make from their threads, the cache of Kubernetes Events it keeps        *)
(* without a lock (CacheDict), and the log of the debug state, which has   *)
(* one.  Threads may be switched between any two calls on the cache.       *)
(*                                                                         *)
(* Abstractions: a kind stands for the object, type, reason, message and   *)
(* action of an event, which tell events apart in the cache and, without   *)
(* the action, in the log.  The cached Event is left out, and with it its  *)
(* count: what the API server answers to a patch or a creation is open.    *)
(***************************************************************************)
EXTENDS Naturals, FiniteSets, Sequences, SequencesExt

CONSTANTS
  Threads, Kinds,
  NoKind,    \* no kind
  CacheLen,  \* cache_len of event_cache
  LogLen,    \* MAX_DEBUG_EVENTS
  MaxCalls   \* bound: calls of record_event

ASSUME EventLogAssumption ==
  /\ IsFiniteSet(Threads) /\ NoKind \notin Kinds
  /\ CacheLen \in Nat \ {0} /\ LogLen \in Nat \ {0} /\ MaxCalls \in Nat

MaxAttempts == 3

VARIABLES
  cache,     \* event_cache: its keys, oldest first
  log,       \* debug state: events, newest first
  pc,        \* threads: where they are in record_event
  kind,      \* threads: the event they record
  attempts,  \* threads: failed attempts to create it
  oldkey,    \* threads: the key they are about to evict
  stale,     \* threads whose iterator the cache has left behind
  calls,     \* bounded number of calls
  recorded   \* history: the kinds the log was told, oldest first

locals == <<pc, kind, attempts, oldkey, stale>>
vars == <<cache, log, locals, calls, recorded>>

In(s, x) == \E i \in DOMAIN s : s[i] = x
Without(s, x) == RemoveAt(s, CHOOSE i \in DOMAIN s : s[i] = x)

Goto(t, l) == pc' = [pc EXCEPT ![t] = l]

Init ==
  /\ cache = <<>> /\ log = <<>>
  /\ pc = [t \in Threads |-> "idle"]
  /\ kind = [t \in Threads |-> NoKind]
  /\ attempts = [t \in Threads |-> 0]
  /\ oldkey = [t \in Threads |-> NoKind] /\ stale = {}
  /\ calls = 0 /\ recorded = <<>>

(* The call returns or raises.                                             *)
Return(t) ==
  /\ Goto(t, "idle")
  /\ kind' = [kind EXCEPT ![t] = NoKind]
  /\ attempts' = [attempts EXCEPT ![t] = 0]
  /\ oldkey' = [oldkey EXCEPT ![t] = NoKind]
  /\ stale' = stale \ {t}

-----------------------------------------------------------------------------
(* events.record_event.                                                    *)

(* get() finds the event, and leaves it where it is.                       *)
Call(t, k) ==
  /\ pc[t] = "idle" /\ calls < MaxCalls
  /\ calls' = calls + 1
  /\ kind' = [kind EXCEPT ![t] = k]
  /\ Goto(t, IF In(cache, k) THEN "patch" ELSE "create")
  /\ UNCHANGED <<cache, log, attempts, oldkey, stale, recorded>>

PatchEvent(t) ==
  /\ pc[t] = "patch"
  /\ Goto(t, "log") \/ Goto(t, "create")
  /\ UNCHANGED <<cache, log, kind, attempts, oldkey, stale, calls, recorded>>

CreateSucceeds(t) ==
  /\ pc[t] = "create"
  /\ Goto(t, "store")
  /\ UNCHANGED <<cache, log, kind, attempts, oldkey, stale, calls, recorded>>

(* Mutant: the creation is tried until it succeeds.                        *)
CreateFailsAgain(t) ==
  /\ pc[t] = "create"
  /\ attempts' = [attempts EXCEPT ![t] = (@ + 1) % MaxAttempts]
  /\ UNCHANGED <<cache, log, pc, kind, oldkey, stale, calls, recorded>>

(* After the last attempt the call returns, and the log is not told.       *)
CreateFails(t) ==
  /\ pc[t] = "create"
  /\ IF attempts[t] + 1 < MaxAttempts
     THEN attempts' = [attempts EXCEPT ![t] = @ + 1] /\ UNCHANGED <<pc, kind, oldkey, stale>>
     ELSE Return(t)
  /\ UNCHANGED <<cache, log, calls, recorded>>

-----------------------------------------------------------------------------
(* CacheDict.__setitem__.                                                  *)

Iterating == {t \in Threads : pc[t] = "iterate"}

(* Mutant: a key that is there is added once more.                         *)
StoreTwice(t) ==
  /\ pc[t] = "store"
  /\ cache' = Append(cache, kind[t])
  /\ Goto(t, "move")
  /\ UNCHANGED <<log, kind, attempts, oldkey, stale, calls, recorded>>

Store(t) ==
  /\ pc[t] = "store"
  /\ IF In(cache, kind[t]) THEN UNCHANGED <<cache, stale>>
     ELSE cache' = Append(cache, kind[t]) /\ stale' = Iterating
  /\ Goto(t, "move")
  /\ UNCHANGED <<log, kind, attempts, oldkey, calls, recorded>>

MoveToEnd(t) ==
  /\ pc[t] = "move" /\ In(cache, kind[t])
  /\ cache' = Append(Without(cache, kind[t]), kind[t]) /\ stale' = Iterating
  /\ Goto(t, "check")
  /\ UNCHANGED <<log, kind, attempts, oldkey, calls, recorded>>

(* The length is fine, or the keys are iterated to find the oldest.        *)
CheckLength(t) ==
  /\ pc[t] = "check"
  /\ Goto(t, IF Len(cache) > CacheLen THEN "open" ELSE "log")
  /\ UNCHANGED <<cache, log, kind, attempts, oldkey, stale, calls, recorded>>

(* iter() is of the cache as it is now: others may have evicted since the  *)
(* length was checked, and one key too many will go.                       *)
OpenIterator(t) ==
  /\ pc[t] = "open"
  /\ Goto(t, "iterate")
  /\ UNCHANGED <<cache, log, kind, attempts, oldkey, stale, calls, recorded>>

FindOldest(t) ==
  /\ pc[t] = "iterate" /\ t \notin stale /\ cache # <<>>
  /\ Goto(t, "evict")
  /\ oldkey' = [oldkey EXCEPT ![t] = Head(cache)]
  /\ UNCHANGED <<cache, log, kind, attempts, stale, calls, recorded>>

(* Mutant: one key is evicted, whatever is left.                           *)
EvictOne(t) ==
  /\ pc[t] = "evict" /\ In(cache, oldkey[t])
  /\ cache' = Without(cache, oldkey[t]) /\ stale' = Iterating
  /\ Goto(t, "log")
  /\ oldkey' = [oldkey EXCEPT ![t] = NoKind]
  /\ UNCHANGED <<log, kind, attempts, calls, recorded>>

Evict(t) ==
  /\ pc[t] = "evict" /\ In(cache, oldkey[t])
  /\ cache' = Without(cache, oldkey[t]) /\ stale' = Iterating
  /\ Goto(t, "check")
  /\ oldkey' = [oldkey EXCEPT ![t] = NoKind]
  /\ UNCHANGED <<log, kind, attempts, calls, recorded>>

(* Another thread was faster: KeyError for a key that is gone,             *)
(* RuntimeError if the cache changed between iter() and next(), and        *)
(* StopIteration if it was empty.  The call raises in the handler or the   *)
(* daemon.                                                                 *)
CacheRaises(t) ==
  /\ \/ pc[t] = "move" /\ ~In(cache, kind[t])
     \/ pc[t] = "evict" /\ ~In(cache, oldkey[t])
     \/ pc[t] = "iterate" /\ (t \in stale \/ cache = <<>>)
  /\ Return(t)
  /\ UNCHANGED <<cache, log, calls, recorded>>

-----------------------------------------------------------------------------
(* DebugStateStore.record_event, under its lock.                           *)

Truncated(s) == SubSeq(s, 1, IF Len(s) < LogLen THEN Len(s) ELSE LogLen)
IsLogged(s, k) == \E i \in DOMAIN s : s[i].kind = k
Counted(e) == [e EXCEPT !.count = @ + 1]

(* Mutant: a repeated event is counted where it is.                        *)
PushInPlace(s, k) ==
  IF IsLogged(s, k)
  THEN [i \in DOMAIN s |-> IF s[i].kind = k THEN Counted(s[i]) ELSE s[i]]
  ELSE Truncated(<<[kind |-> k, count |-> 1]>> \o s)

(* The event alike, of which LogShowsTheLatest lets there be but one, is    *)
(* removed and put in front; a new one pushes out the last if all is full. *)
Push(s, k) ==
  IF IsLogged(s, k)
  THEN LET i == CHOOSE j \in DOMAIN s : s[j].kind = k
       IN  <<Counted(s[i])>> \o RemoveAt(s, i)
  ELSE Truncated(<<[kind |-> k, count |-> 1]>> \o s)

LogEvent(t) ==
  /\ pc[t] = "log"
  /\ log' = Push(log, kind[t])
  /\ recorded' = Append(recorded, kind[t])
  /\ Return(t)
  /\ UNCHANGED <<cache, calls>>

Step(t) ==
  \/ PatchEvent(t) \/ CreateSucceeds(t) \/ CreateFails(t)
  \/ Store(t) \/ MoveToEnd(t) \/ CheckLength(t) \/ OpenIterator(t) \/ FindOldest(t)
  \/ Evict(t) \/ CacheRaises(t)
  \/ LogEvent(t)

Next == \E t \in Threads : Step(t) \/ \E k \in Kinds : Call(t, k)

Spec == Init /\ [][Next]_vars

(* Threads run.                                                            *)
FairSpec == Spec /\ \A t \in Threads : WF_vars(Step(t))

-----------------------------------------------------------------------------
(* The keys of the cache are distinct, and threads hold what they need.    *)
TypeOK ==
  /\ cache \in Seq(Kinds)
  /\ \A i, j \in DOMAIN cache : cache[i] = cache[j] => i = j
  /\ log \in Seq([kind : Kinds, count : 1..MaxCalls])
  /\ pc \in [Threads -> {"idle", "patch", "create", "store", "move", "check", "open", "iterate",
                         "evict", "log"}]
  /\ kind \in [Threads -> Kinds \cup {NoKind}] /\ oldkey \in [Threads -> Kinds \cup {NoKind}]
  /\ \A t \in Threads : (kind[t] = NoKind <=> pc[t] = "idle")
                        /\ (oldkey[t] = NoKind <=> pc[t] # "evict")
  /\ stale \subseteq Iterating
  /\ attempts \in [Threads -> 0..(MaxAttempts - 1)]
  /\ calls \in 0..MaxCalls /\ recorded \in Seq(Kinds)

(* The cache never stays over its length: whenever it is over, a thread is *)
(* still on its way to the check, however many evict at once and whichever *)
(* of them fail on a key that is gone.                                     *)
CacheStaysBounded ==
  Len(cache) > CacheLen => \E t \in Threads : pc[t] \in {"move", "check", "open", "iterate", "evict"}

LastIn(r, k) == CHOOSE i \in DOMAIN r : r[i] = k /\ \A j \in DOMAIN r : r[j] = k => j <= i
Times(r, k) == Cardinality({i \in DOMAIN r : r[i] = k})

ShowsTheLatest(l, r) ==
  LET all == ToSet(r)
      shown == {l[i].kind : i \in DOMAIN l}
  IN  /\ shown \subseteq all
      /\ Len(l) = IF Cardinality(all) < LogLen THEN Cardinality(all) ELSE LogLen
      /\ \A i, j \in DOMAIN l : i < j => LastIn(r, l[i].kind) > LastIn(r, l[j].kind)
      /\ \A k \in shown, g \in all \ shown : LastIn(r, k) > LastIn(r, g)
      /\ Cardinality(all) <= LogLen => \A i \in DOMAIN l : l[i].count = Times(r, l[i].kind)

(* The log holds the kinds recorded last, newest first, none twice, and    *)
(* forgets one only for lack of room; counts are right while all fit.      *)
LogShowsTheLatest == ShowsTheLatest(log, recorded)

(* Whatever the API server answers and whichever threads evict, a call of  *)
(* a pass ends: recording an event never holds a daemon.                   *)
CallsEnd == \A t \in Threads : pc[t] # "idle" ~> pc[t] = "idle"
=============================================================================
