-------------------------- MODULE HandlerPool_proofs --------------------------
(***************************************************************************)
(* Theorems of HandlerPool for any number of objects and threads: the pool *)
(* never has a function twice, no change users make is forgotten, and live *)
(* muxes keep queue and daemon.                                            *)
(***************************************************************************)
EXTENDS HandlerPool, FiniteSetTheorems, SequenceTheorems, TLAPS

(* TypeOK in parts, and what makes it inductive: the threads can be        *)
(* counted.                                                                *)
Stages == {"idle", "index", "handle", "retry", "done"}
LineOK ==
  /\ due \in Seq(Jobs) /\ threads \subseteq Jobs
  /\ IsInjective(due) /\ threads \cap ToSet(due) = {}
  /\ IsFiniteSet(threads) /\ Cardinality(threads) <= Workers
DataOK ==
  /\ svc \in [Muxes -> {"none", "live", "deleting"}]
  /\ chan \in [Channels -> [body: Bodies, deleting: BOOLEAN] \cup {NoChannel}]
  /\ fresh \subseteq Objects /\ stopped \subseteq Muxes /\ queue \subseteq Muxes
  /\ seen \in [Channels -> [body: Bodies, deleting: BOOLEAN] \cup {NoChannel}]
  /\ looks \in [Channels -> 0..(MaxLooks - 1)]
  /\ heard \subseteq Channels /\ events \in 0..MaxEvents

(* What is due or running is at the stage of its object.                   *)
Listed == threads \cup ToSet(due)
Staged == \A f \in Listed : IF f.fn = "daemon" THEN f.of \in Muxes ELSE stage[f.of] = f.fn

PoolInv == DataOK /\ LineOK /\ stage \in [Objects -> Stages] /\ Staged

LEMMA PoolInvTyped == PoolInv => TypeOK
BY DEF PoolInv, TypeOK, DataOK, LineOK, Staged, Listed, Stages

LEMMA ListedJobs == LineOK => Listed \subseteq Jobs
<1> SUFFICES ASSUME LineOK, NEW f \in ToSet(due) PROVE f \in Jobs
  BY DEF Listed, LineOK
<1>1. PICK i \in DOMAIN due : f = due[i]
  BY DEF ToSet
<1> QED BY <1>1 DEF LineOK

(* A function of an object that is no daemon is the one of its stage.      *)
LEMMA OneFunction ==
  ASSUME PoolInv, NEW f \in Listed, f.fn # "daemon"
  PROVE  f = Job(stage[f.of], f.of)
<1>1. f \in Jobs
  BY ListedJobs DEF PoolInv
<1> QED BY <1>1 DEF PoolInv, Staged, Jobs, Job

-----------------------------------------------------------------------------
(* A function that is not there yet gets in line.                          *)
LEMMA SubmitOnce ==
  ASSUME NEW S, NEW s \in Seq(S), IsInjective(s), NEW x \in S, x \notin ToSet(s)
  PROVE  /\ Append(s, x) \in Seq(S) /\ IsInjective(Append(s, x))
         /\ ToSet(Append(s, x)) = ToSet(s) \cup {x}
<1> DEFINE t == Append(s, x)
<1>1. /\ t \in Seq(S) /\ Len(t) = Len(s) + 1 /\ t[Len(s) + 1] = x
      /\ \A i \in 1..Len(s) : t[i] = s[i]
      /\ DOMAIN t = 1..(Len(s) + 1) /\ DOMAIN s = 1..Len(s) /\ Len(s) \in Nat
  OBVIOUS
<1> HIDE DEF t
<1>2. \A i \in DOMAIN t : i \in DOMAIN s \/ i = Len(s) + 1
  BY <1>1
<1>3. IsInjective(t)
  BY <1>1, <1>2 DEF IsInjective, ToSet
<1>4. ToSet(t) = ToSet(s) \cup {x}
  <2>1. ASSUME NEW y \in ToSet(t) PROVE y \in ToSet(s) \cup {x}
    BY <1>1, <1>2, <2>1 DEF ToSet
  <2>2. ASSUME NEW y \in ToSet(s) PROVE y \in ToSet(t)
    BY <1>1, <2>2 DEF ToSet
  <2>3. x \in ToSet(t)
    BY <1>1 DEF ToSet
  <2> QED BY <2>1, <2>2, <2>3
<1> QED BY <1>1, <1>3, <1>4 DEF t

(* The function that is due first leaves the line.                         *)
LEMMA TakeFirst ==
  ASSUME NEW S, NEW s \in Seq(S), IsInjective(s), s # <<>>
  PROVE  /\ Head(s) \in ToSet(s) /\ Head(s) \in S
         /\ Tail(s) \in Seq(S) /\ IsInjective(Tail(s))
         /\ ToSet(Tail(s)) = ToSet(s) \ {Head(s)}
<1> DEFINE t == Tail(s)
<1>1. /\ t \in Seq(S) /\ Len(s) \in Nat \ {0} /\ Head(s) = s[1] /\ s[1] \in S
      /\ DOMAIN s = 1..Len(s) /\ DOMAIN t = 1..(Len(s) - 1)
      /\ \A i \in DOMAIN t : t[i] = s[i + 1]
  OBVIOUS
<1> HIDE DEF t
<1>2. \A i \in DOMAIN t : i + 1 \in DOMAIN s /\ i \in Nat
  BY <1>1
<1>3. \A i, j \in DOMAIN t : t[i] = t[j] => i = j
  <2> SUFFICES ASSUME NEW i \in DOMAIN t, NEW j \in DOMAIN t, t[i] = t[j] PROVE i = j
    OBVIOUS
  <2>1. i + 1 = j + 1
    BY <1>1, <1>2 DEF IsInjective
  <2> QED BY <1>2, <2>1
<1>4. ToSet(t) = ToSet(s) \ {Head(s)}
  <2>1. ASSUME NEW y \in ToSet(t) PROVE y \in ToSet(s) /\ y # Head(s)
    <3>1. PICK i \in DOMAIN t : y = s[i + 1]
      BY <1>1, <2>1 DEF ToSet
    <3>2. i + 1 \in DOMAIN s /\ i + 1 # 1 /\ 1 \in DOMAIN s
      BY <1>1, <1>2
    <3> QED BY <1>1, <3>1, <3>2 DEF ToSet, IsInjective
  <2>2. ASSUME NEW y \in ToSet(s), y # Head(s) PROVE y \in ToSet(t)
    <3>1. PICK i \in DOMAIN s : y = s[i]
      BY <2>2 DEF ToSet
    <3>2. i - 1 \in DOMAIN t /\ (i - 1) + 1 = i
      BY <1>1, <2>2, <3>1
    <3> QED BY <1>1, <3>1, <3>2 DEF ToSet
  <2> QED BY <2>1, <2>2
<1>5. Head(s) \in ToSet(s)
  BY <1>1 DEF ToSet
<1> QED BY <1>1, <1>3, <1>4, <1>5 DEF t, IsInjective

LEMMA InitPool == Init => PoolInv
<1> SUFFICES ASSUME Init PROVE PoolInv
  OBVIOUS
<1>1. due = <<>> /\ threads = {}
  BY DEF Init
<1>2. due \in Seq(Jobs) /\ IsInjective(due) /\ ToSet(due) = {}
  BY <1>1 DEF IsInjective, ToSet
<1>3. LineOK /\ Staged
  BY <1>1, <1>2, FS_EmptySet, PoolAssumption DEF LineOK, Staged, Listed
<1>4. DataOK /\ stage \in [Objects -> Stages]
  BY PoolAssumption DEF Init, DataOK, MaxLooks, Stages
<1> QED BY <1>3, <1>4 DEF PoolInv

-----------------------------------------------------------------------------
(* What may happen to the line and the threads.                            *)

(* A function that is not there gets in line, when another may return.     *)
LEMMA Submitted ==
  ASSUME LineOK, NEW f \in Jobs, NEW T, T \subseteq threads, threads' = T,
         f \notin T, f \notin ToSet(due), due' = Append(due, f)
  PROVE  LineOK' /\ Listed' = T \cup ToSet(due) \cup {f}
<1>1. /\ due' \in Seq(Jobs) /\ IsInjective(due') /\ ToSet(due') = ToSet(due) \cup {f}
  BY SubmitOnce DEF LineOK
<1>2. /\ IsFiniteSet(T) /\ Cardinality(T) <= Cardinality(threads)
      /\ Cardinality(T) \in Nat /\ Cardinality(threads) \in Nat
  BY FS_Subset, FS_CardinalityType DEF LineOK
<1>3. Cardinality(T) <= Workers
  BY <1>2, PoolAssumption DEF LineOK
<1>4. IsInjective(due)' /\ ToSet(due)' = ToSet(due')
  BY <1>1 DEF IsInjective, ToSet
<1> QED BY <1>1, <1>2, <1>3, <1>4 DEF LineOK, Listed

(* A function returns.                                                     *)
LEMMA Returned ==
  ASSUME LineOK, NEW f, threads' = threads \ {f}, due' = due
  PROVE  LineOK' /\ Listed' = (threads \ {f}) \cup ToSet(due)
<1>1. /\ IsFiniteSet(threads') /\ Cardinality(threads') <= Cardinality(threads)
      /\ Cardinality(threads') \in Nat /\ Cardinality(threads) \in Nat
  BY FS_Subset, FS_CardinalityType DEF LineOK
<1>2. IsInjective(due)' /\ ToSet(due)' = ToSet(due)
  BY DEF IsInjective, ToSet, LineOK
<1>3. Cardinality(threads') <= Workers
  BY <1>1, PoolAssumption DEF LineOK
<1> QED BY <1>1, <1>2, <1>3 DEF LineOK, Listed

LEMMA SameLine ==
  ASSUME LineOK, UNCHANGED pool
  PROVE  LineOK' /\ Listed' = Listed
BY DEF pool, LineOK, Listed, IsInjective, ToSet

(* The functions of the other objects stay where they are.                 *)
LEMMA StageMoves ==
  ASSUME PoolInv, NEW x \in Objects, NEW s \in Stages, Stage(x, s),
         DataOK', LineOK',
         \A f \in Listed' :
            \/ f \in Listed /\ (f.fn = "daemon" \/ f.of # x)
            \/ f.fn = "daemon" /\ f.of \in Muxes
            \/ f = Job(s, x)
  PROVE  PoolInv'
<1>1. stage' \in [Objects -> Stages] /\ stage'[x] = s
      /\ \A y \in Objects : y # x => stage'[y] = stage[y]
  BY DEF Stage, PoolInv
<1>2. \A f \in Listed' : f \in Jobs /\ f.of \in Objects
  <2>1. (LineOK => Listed \subseteq Jobs)'
    BY ListedJobs, PTL
  <2> QED BY <2>1 DEF Jobs
<1>3. Staged'
  <2> SUFFICES ASSUME NEW f \in Listed'
               PROVE  IF f.fn = "daemon" THEN f.of \in Muxes ELSE stage'[f.of] = f.fn
    BY DEF Staged
  <2>1. CASE f \in Listed /\ (f.fn = "daemon" \/ f.of # x)
    BY <1>1, <1>2, <2>1 DEF PoolInv, Staged
  <2>2. CASE f.fn = "daemon" /\ f.of \in Muxes
    BY <2>2
  <2>3. CASE f = Job(s, x)
    <3>1. f.fn = s /\ f.of = x
      BY <2>3 DEF Job
    <3>2. s # "daemon"
      BY DEF Stages
    <3> QED BY <1>1, <3>1, <3>2
  <2> QED BY <2>1, <2>2, <2>3
<1> QED BY <1>1, <1>3 DEF PoolInv

LEMMA StageStays ==
  ASSUME PoolInv, stage' = stage, DataOK', LineOK',
         \A f \in Listed' : f \in Listed \/ (f.fn = "daemon" /\ f.of \in Muxes)
  PROVE  PoolInv'
BY DEF PoolInv, Staged

-----------------------------------------------------------------------------
(* Steps that leave the line and the threads alone.                        *)
LEMMA UsersStep ==
  ASSUME PoolInv,
         \/ \E m \in Muxes : CreateMux(m) \/ DeleteMux(m)
         \/ \E c \in Channels : PutChannel(c) \/ DeleteChannel(c)
  PROVE  PoolInv'
<1>1. ASSUME NEW m \in Muxes, CreateMux(m) \/ DeleteMux(m)
      PROVE  DataOK' /\ UNCHANGED <<stage, pool>>
  BY <1>1, PoolAssumption
     DEF CreateMux, DeleteMux, Edit, Operator, PoolInv, DataOK, Objects
<1>2. ASSUME NEW c \in Channels, PutChannel(c)
      PROVE  DataOK' /\ UNCHANGED <<stage, pool>>
  BY <1>2, PoolAssumption DEF PutChannel, Edit, Operator, PoolInv, DataOK, Objects
<1>3. ASSUME NEW c \in Channels, DeleteChannel(c)
      PROVE  DataOK' /\ UNCHANGED <<stage, pool>>
  <2>1. chan[c] \in [body: Bodies, deleting: BOOLEAN]
    BY <1>3 DEF DeleteChannel, PoolInv, DataOK
  <2>2. [chan[c] EXCEPT !.deleting = TRUE] \in [body: Bodies, deleting: BOOLEAN]
    BY <2>1
  <2>3. chan' = [chan EXCEPT ![c] = [chan[c] EXCEPT !.deleting = TRUE]]
    BY <1>3 DEF DeleteChannel
  <2>4. chan' \in [Channels -> [body: Bodies, deleting: BOOLEAN] \cup {NoChannel}]
    BY <2>2, <2>3 DEF PoolInv, DataOK
  <2>5. /\ fresh' = fresh \cup {c} /\ events' \in 0..MaxEvents
        /\ UNCHANGED <<svc, seen, stage, stopped, pool, queue, looks, heard>>
    BY <1>3, PoolAssumption DEF DeleteChannel, Edit, Operator, PoolInv, DataOK
  <2> QED BY <2>4, <2>5 DEF PoolInv, DataOK, Objects
<1>4. DataOK' /\ UNCHANGED <<stage, pool>>
  BY <1>1, <1>2, <1>3
<1> QED BY <1>4, SameLine, StageStays DEF PoolInv

LEMMA LookAgainStep ==
  ASSUME PoolInv, NEW c \in Channels, LookAgain(c)
  PROVE  PoolInv'
<1>1. DataOK' /\ UNCHANGED <<stage, pool>>
  BY DEF LookAgain, MaxLooks, cluster, kopf, PoolInv, DataOK
<1> QED BY <1>1, SameLine, StageStays DEF PoolInv

LEMMA ReleaseMuxStep ==
  ASSUME PoolInv, NEW m \in Muxes, ReleaseMux(m)
  PROVE  PoolInv'
<1>1. DataOK' /\ UNCHANGED pool /\ Stage(m, "idle") /\ stage[m] = "done"
  BY DEF ReleaseMux, PoolInv, DataOK
<1>2. \A f \in Listed : f.fn = "daemon" \/ f.of # m
  <2> SUFFICES ASSUME NEW f \in Listed, f.fn # "daemon", f.of = m PROVE FALSE
    OBVIOUS
  <2>1. f.fn = "done" /\ f \in Jobs
    BY <1>1, ListedJobs DEF PoolInv, Staged
  <2> QED BY <2>1 DEF Jobs
<1> QED BY <1>1, <1>2, SameLine, StageMoves DEF PoolInv, Objects, Stages

-----------------------------------------------------------------------------
(* kopf and the pool.                                                      *)

(* An object whose functions are neither due nor running gets one.         *)
LEMMA ProcessStep ==
  ASSUME PoolInv, NEW x \in Objects, Process(x)
  PROVE  PoolInv'
<1>1. /\ DataOK' /\ threads' = threads /\ due' = Append(due, Job("index", x))
      /\ Stage(x, "index") /\ stage[x] \in {"idle", "retry"}
  BY DEF Process, Submit, cluster, PoolInv, DataOK
<1>2. \A f \in Listed : f.fn = "daemon" \/ f.of # x
  <2> SUFFICES ASSUME NEW f \in Listed, f.fn # "daemon", f.of = x PROVE FALSE
    OBVIOUS
  <2>1. f.fn = stage[x] /\ f \in Jobs
    BY ListedJobs DEF PoolInv, Staged
  <2> QED BY <1>1, <2>1 DEF Jobs
<1>3. Job("index", x) \in Jobs /\ Job("index", x) \notin Listed
  BY <1>2 DEF Job, Jobs
<1>4. LineOK' /\ Listed' = Listed \cup {Job("index", x)}
  BY <1>1, <1>3, Submitted DEF PoolInv, Listed
<1> QED BY <1>1, <1>2, <1>4, StageMoves DEF Stages

LEMMA RetryStep ==
  ASSUME PoolInv, NEW c \in Channels, Retry(c)
  PROVE  PoolInv'
<1>1. /\ DataOK' /\ threads' = threads /\ due' = Append(due, Job("handle", c))
      /\ Stage(c, "handle") /\ stage[c] = "retry"
  BY DEF Retry, Submit, cluster, PoolInv, DataOK
<1>2. \A f \in Listed : f.fn = "daemon" \/ f.of # c
  <2> SUFFICES ASSUME NEW f \in Listed, f.fn # "daemon", f.of = c PROVE FALSE
    OBVIOUS
  <2>1. f.fn = "retry" /\ f \in Jobs
    BY <1>1, ListedJobs DEF PoolInv, Staged
  <2> QED BY <2>1 DEF Jobs
<1>3. Job("handle", c) \in Jobs /\ Job("handle", c) \notin Listed
  BY <1>2 DEF Job, Jobs, Objects
<1>4. LineOK' /\ Listed' = Listed \cup {Job("handle", c)}
  BY <1>1, <1>3, Submitted DEF PoolInv, Listed
<1> QED BY <1>1, <1>2, <1>4, StageMoves DEF Stages, Objects

LEMMA TakeThreadStep ==
  ASSUME PoolInv, TakeThread
  PROVE  PoolInv' /\ Listed' = Listed
<1> DEFINE f == Head(due)
<1>1. /\ f \in ToSet(due) /\ f \in Jobs /\ Tail(due) \in Seq(Jobs)
      /\ IsInjective(Tail(due)) /\ ToSet(Tail(due)) = ToSet(due) \ {f}
  BY TakeFirst DEF TakeThread, PoolInv, LineOK
<1>2. /\ due' = Tail(due) /\ threads' = threads \cup {f} /\ Cardinality(threads) < Workers
      /\ queue' = IF f.fn = "daemon" THEN queue \cup {f.of} ELSE queue
      /\ UNCHANGED <<svc, chan, fresh, seen, stage, stopped, looks, heard, events>>
  BY DEF TakeThread, cluster, kopf
<1>3. f.fn = "daemon" => f.of \in Muxes
  BY <1>1 DEF PoolInv, Staged, Listed
<1> HIDE DEF f
<1>4. DataOK'
  BY <1>2, <1>3 DEF PoolInv, DataOK
<1>5. IsInjective(due)' /\ ToSet(due)' = ToSet(due) \ {f}
  BY <1>1, <1>2 DEF IsInjective, ToSet
<1>6. IsFiniteSet(threads') /\ Cardinality(threads') <= Workers
  <2>1. f \notin threads
    BY <1>1 DEF PoolInv, LineOK
  <2>2. /\ IsFiniteSet(threads \cup {f}) /\ Cardinality(threads) \in Nat
        /\ Cardinality(threads \cup {f}) = Cardinality(threads) + 1
    BY <2>1, FS_AddElement, FS_CardinalityType DEF PoolInv, LineOK
  <2> QED BY <1>2, <2>2, PoolAssumption
<1>7. LineOK' /\ Listed' = Listed
  BY <1>1, <1>2, <1>5, <1>6 DEF PoolInv, LineOK, Listed
<1> QED BY <1>2, <1>4, <1>7, StageStays

-----------------------------------------------------------------------------
(* Functions that return: the one of their object is done.                 *)

LEMMA FunctionOf ==
  ASSUME PoolInv, NEW x \in Objects, NEW k \in {"index", "handle"}, Runs(k, x)
  PROVE  /\ Job(k, x) \in threads /\ Job(k, x) \in Jobs /\ stage[x] = k
         /\ Job(k, x) \notin ToSet(due)
         /\ \A f \in (threads \ {Job(k, x)}) \cup ToSet(due) :
               f \in Listed /\ (f.fn = "daemon" \/ f.of # x)
<1>1. Job(k, x) \in Listed /\ Job(k, x).fn = k /\ Job(k, x).of = x /\ k # "daemon"
  BY DEF Runs, Listed, Job
<1>2. stage[x] = k
  BY <1>1 DEF PoolInv, Staged
<1>3. Job(k, x) \in Jobs /\ Job(k, x) \notin ToSet(due)
  BY ListedJobs, <1>1 DEF Runs, PoolInv, LineOK
<1>4. ASSUME NEW f \in (threads \ {Job(k, x)}) \cup ToSet(due), f.fn # "daemon", f.of = x
      PROVE  FALSE
  <2>1. f = Job(k, x)
    BY <1>2, <1>4, OneFunction DEF Listed
  <2> QED BY <1>3, <1>4, <2>1
<1> QED BY <1>1, <1>2, <1>3, <1>4 DEF Runs, Listed

(* It returns, and its object moves on.                                    *)
LEMMA FunctionReturns ==
  ASSUME PoolInv, NEW x \in Objects, NEW k \in {"index", "handle"}, Runs(k, x),
         NEW s \in Stages, Stage(x, s), Done(k, x), due' = due, DataOK'
  PROVE  PoolInv'
<1>1. LineOK' /\ Listed' = (threads \ {Job(k, x)}) \cup ToSet(due)
  BY Returned DEF Done, PoolInv
<1> QED BY <1>1, FunctionOf, StageMoves

(* It returns, and the next function of its object, or the daemon, gets in *)
(* line.                                                                   *)
LEMMA FunctionSubmits ==
  ASSUME PoolInv, NEW x \in Objects, NEW k \in {"index", "handle"}, Runs(k, x),
         NEW s \in Stages, Stage(x, s), Done(k, x), DataOK',
         NEW n \in {"handle", "daemon"}, Submit(n, x),
         \/ n = s
         \/ n = "daemon" /\ x \in Muxes /\ ~HasDaemon(x)
  PROVE  PoolInv'
<1>1. /\ \A f \in (threads \ {Job(k, x)}) \cup ToSet(due) :
            f \in Listed /\ (f.fn = "daemon" \/ f.of # x)
  BY FunctionOf
<1>2. Job(n, x) \in Jobs /\ Job(n, x).fn = n /\ Job(n, x).of = x
  BY DEF Job, Jobs
<1>3. Job(n, x) \notin (threads \ {Job(k, x)}) \cup ToSet(due)
  <2>1. CASE n = "daemon" /\ x \in Muxes /\ ~HasDaemon(x)
    BY <2>1 DEF HasDaemon
  <2>2. CASE n = s
    BY <1>1, <1>2, <2>2 DEF Stages
  <2> QED BY <2>1, <2>2
<1>4. /\ LineOK'
      /\ Listed' = (threads \ {Job(k, x)}) \cup ToSet(due) \cup {Job(n, x)}
  BY <1>2, <1>3, Submitted DEF Done, Submit, PoolInv
<1>5. \A f \in Listed' :
        \/ f \in Listed /\ (f.fn = "daemon" \/ f.of # x)
        \/ f.fn = "daemon" /\ f.of \in Muxes
        \/ f = Job(s, x)
  BY <1>1, <1>2, <1>4
<1> QED BY <1>4, <1>5, StageMoves

LEMMA MuxFunctionsStep ==
  ASSUME PoolInv, NEW m \in Muxes, IndexMux(m) \/ MuxDeletion(m)
  PROVE  PoolInv'
<1>1. m \in Objects
  BY DEF Objects
<1>2. CASE IndexMux(m) /\ svc[m] = "live"
  <2>1. Runs("index", m) /\ Done("index", m) /\ Stage(m, "idle") /\ DataOK'
    BY <1>2 DEF IndexMux, cluster, PoolInv, DataOK
  <2>2. CASE HasDaemon(m)
    BY <1>1, <1>2, <2>1, <2>2, FunctionReturns DEF IndexMux, Stages
  <2>3. CASE ~HasDaemon(m)
    BY <1>1, <1>2, <2>1, <2>3, FunctionSubmits DEF IndexMux, Stages
  <2> QED BY <2>2, <2>3
<1>3. CASE IndexMux(m) /\ svc[m] # "live"
  <2>1. Runs("index", m) /\ Done("index", m) /\ Stage(m, "handle") /\ DataOK'
        /\ Submit("handle", m)
    BY <1>3 DEF IndexMux, cluster, PoolInv, DataOK
  <2> QED BY <1>1, <2>1, FunctionSubmits DEF Stages
<1>4. CASE MuxDeletion(m)
  <2>1. Runs("handle", m) /\ Done("handle", m) /\ Stage(m, "done") /\ DataOK' /\ due' = due
    BY <1>4 DEF MuxDeletion, cluster, PoolInv, DataOK
  <2> QED BY <1>1, <2>1, FunctionReturns DEF Stages
<1> QED BY <1>2, <1>3, <1>4

LEMMA DaemonStep ==
  ASSUME PoolInv, NEW m \in Muxes, ExitDaemon(m) \/ AbortDaemon(m)
  PROVE  PoolInv'
<1> DEFINE d == Job("daemon", m)
<1>1. /\ d \in threads /\ d \in Jobs /\ d.fn = "daemon" /\ d.of = m
      /\ threads' = threads \ {d} /\ stage' = stage
      /\ due' = due \/ due' = Append(due, d)
  BY DEF ExitDaemon, AbortDaemon, Runs, Done, Submit, Job, Jobs, Objects
<1>2. d \notin ToSet(due)
  BY <1>1 DEF PoolInv, LineOK
<1>3. DataOK'
  BY PoolAssumption DEF ExitDaemon, AbortDaemon, cluster, PoolInv, DataOK
<1> HIDE DEF d
<1>4. CASE due' = due
  <2>1. LineOK' /\ Listed' = (threads \ {d}) \cup ToSet(due)
    BY <1>1, <1>4, Returned DEF PoolInv
  <2> QED BY <1>1, <1>3, <2>1, StageStays DEF Listed
<1>5. CASE due' = Append(due, d)
  <2>1. LineOK' /\ Listed' = (threads \ {d}) \cup ToSet(due) \cup {d}
    BY <1>1, <1>2, <1>5, Submitted DEF PoolInv
  <2> QED BY <1>1, <1>3, <2>1, StageStays DEF Listed
<1> QED BY <1>1, <1>4, <1>5

LEMMA ChannelFunctionsStep ==
  ASSUME PoolInv, NEW c \in Channels, IndexChannel(c) \/ Refuse(c) \/ Trigger(c) \/ GiveUp(c)
  PROVE  PoolInv'
<1>1. c \in Objects
  BY DEF Objects
<1>2. CASE IndexChannel(c)
  <2>1. Runs("index", c) /\ Done("index", c) /\ Stage(c, "handle") /\ DataOK'
        /\ Submit("handle", c)
    BY <1>2 DEF IndexChannel, cluster, PoolInv, DataOK
  <2> QED BY <1>1, <2>1, FunctionSubmits DEF Stages
<1>3. CASE Return(c) /\ heard' \subseteq Channels /\ Runs("handle", c)
  <2>1. Done("handle", c) /\ Stage(c, "idle") /\ due' = due
    BY <1>3 DEF Return
  <2>2. DataOK'
    BY <1>3 DEF Return, PoolInv, DataOK, MaxLooks
  <2> QED BY <1>1, <1>3, <2>1, <2>2, FunctionReturns DEF Stages
<1>4. CASE TemporaryError(c) /\ Runs("handle", c)
  <2>1. Done("handle", c) /\ Stage(c, "retry") /\ due' = due /\ DataOK'
    BY <1>4 DEF TemporaryError, cluster, PoolInv, DataOK, MaxLooks
  <2> QED BY <1>1, <1>4, <2>1, FunctionReturns DEF Stages
<1>5. heard \subseteq Channels
  BY DEF PoolInv, DataOK
<1>6. CASE Refuse(c) \/ Trigger(c) \/ GiveUp(c)
  BY <1>3, <1>4, <1>5, <1>6 DEF Refuse, Trigger, GiveUp, LastLook
<1> QED BY <1>2, <1>6

-----------------------------------------------------------------------------
LEMMA NextPool == PoolInv /\ [Next]_vars => PoolInv'
<1> SUFFICES ASSUME PoolInv, [Next]_vars PROVE PoolInv'
  OBVIOUS
<1>1. CASE TakeThread
  BY <1>1, TakeThreadStep
<1>2. ASSUME NEW m \in Muxes, CreateMux(m) \/ DeleteMux(m) \/ AbortDaemon(m) \/ MuxSteps(m)
      PROVE  PoolInv'
  BY <1>2, UsersStep, DaemonStep, ProcessStep, MuxFunctionsStep, ReleaseMuxStep
     DEF MuxSteps, Objects
<1>3. ASSUME NEW c \in Channels, PutChannel(c) \/ DeleteChannel(c) \/ ChannelSteps(c)
      PROVE  PoolInv'
  BY <1>3, UsersStep, ProcessStep, RetryStep, ChannelFunctionsStep, LookAgainStep
     DEF ChannelSteps, Objects
<1>4. CASE UNCHANGED vars
  <2>1. DataOK' /\ UNCHANGED <<stage, pool>>
    BY <1>4 DEF vars, cluster, kopf, PoolInv, DataOK
  <2> QED BY <2>1, SameLine, StageStays DEF PoolInv
<1> QED BY <1>1, <1>2, <1>3, <1>4 DEF Next

(* For any number of muxes, channels and threads, no function is twice in  *)
(* the pool, a daemon does not meet a second one of its mux, every function*)
(* is at the stage of its object, and nobody looks more often than the     *)
(* code says (controller.py 90, 231-262).                                  *)
THEOREM PoolIsConsistent == Spec => []TypeOK
<1>1. Spec => []PoolInv
  BY InitPool, NextPool, PTL DEF Spec
<1> QED BY <1>1, PoolInvTyped, PTL

-----------------------------------------------------------------------------
(* Nothing is dropped: the function of an object that is being processed   *)
(* is due or running.                                                      *)
Served == \A x \in Objects : stage[x] \in {"index", "handle"} => Job(stage[x], x) \in Listed

(* One function returns, or none, and one gets in line, or none.           *)
LEMMA StaysListed ==
  ASSUME LineOK, NEW f \in Listed, NEW g, f # g, threads \ {g} \subseteq threads',
         due' = due \/ \E j \in Jobs : due' = Append(due, j)
  PROVE  f \in Listed'
<1>1. CASE f \in threads
  BY <1>1 DEF Listed
<1>2. CASE f \in ToSet(due)
  <2>1. PICK i \in 1..Len(due) : due[i] = f
    BY <1>2 DEF ToSet, LineOK
  <2>2. i \in DOMAIN due' /\ due'[i] = f
    BY <2>1, AppendProperties DEF LineOK
  <2>3. f \in ToSet(due)'
    BY <2>2 DEF ToSet
  <2> QED BY <2>3 DEF Listed
<1> QED BY <1>1, <1>2 DEF Listed

LEMMA GetsListed ==
  ASSUME LineOK, NEW j \in Jobs, due' = Append(due, j)
  PROVE  j \in Listed'
<1>1. Len(due) + 1 \in DOMAIN due' /\ due'[Len(due) + 1] = j
  BY AppendProperties DEF LineOK
<1>2. j \in ToSet(due)'
  BY <1>1 DEF ToSet
<1> QED BY <1>2 DEF Listed

LEMMA JobParts == \A f, x : Job(f, x).fn = f /\ Job(f, x).of = x
BY DEF Job

(* What a step of an object does to the line: the functions of the others, *)
(* and all daemons, stay in it.                                            *)
LEMMA OthersStay ==
  ASSUME PoolInv, NEW x \in Objects,
         \/ Process(x)
         \/ x \in Channels /\ (Retry(x) \/ IndexChannel(x) \/ Refuse(x) \/ Trigger(x) \/ GiveUp(x))
         \/ x \in Muxes /\ (IndexMux(x) \/ MuxDeletion(x))
  PROVE  \A f \in Listed : f.of # x \/ f.fn = "daemon" => f \in Listed'
<1> SUFFICES ASSUME NEW f \in Listed, f.of # x \/ f.fn = "daemon" PROVE f \in Listed'
  OBVIOUS
<1>1. \A k \in {"index", "handle"} : f # Job(k, x)
  BY JobParts
<1>2. \A k \in {"index", "handle", "daemon"} : Job(k, x) \in Jobs
  BY DEF Job, Jobs
<1>3. LineOK
  BY DEF PoolInv
<1>4. /\ due' = due \/ \E k \in {"index", "handle", "daemon"} : due' = Append(due, Job(k, x))
      /\ \E k \in {"index", "handle"} : threads \ {Job(k, x)} \subseteq threads'
  BY DEF Process, Retry, IndexChannel, Refuse, Trigger, GiveUp, LastLook, Return, TemporaryError,
         IndexMux, MuxDeletion, Submit, Done
<1> QED BY <1>1, <1>2, <1>3, <1>4, StaysListed

LEMMA ServedMoves ==
  ASSUME PoolInv, Served, NEW x \in Objects, NEW s \in Stages, Stage(x, s),
         s \in {"index", "handle"} => Job(s, x) \in Listed',
         \A f \in Listed : f.of # x => f \in Listed'
  PROVE  Served'
<1>1. stage'[x] = s /\ \A y \in Objects : y # x => stage'[y] = stage[y]
  BY DEF Stage, PoolInv
<1> QED BY <1>1, JobParts DEF Served

LEMMA ServedStays ==
  ASSUME Served, stage' = stage, \A f \in Listed : f.fn # "daemon" => f \in Listed'
  PROVE  Served'
BY JobParts DEF Served

LEMMA ServedNext ==
  ASSUME PoolInv, Served, Next
  PROVE  Served'
<1>1. LineOK
  BY DEF PoolInv
<1>2. \A x \in Objects, k \in {"index", "handle", "daemon"} : Job(k, x) \in Jobs
  BY DEF Job, Jobs
<1>3. ASSUME UNCHANGED <<stage, pool>> PROVE Served'
  BY <1>1, <1>3, SameLine, ServedStays
<1>4. ASSUME NEW x \in Objects, Process(x) PROVE Served'
  <2>1. Stage(x, "index") /\ Job("index", x) \in Listed'
    BY <1>1, <1>2, <1>4, GetsListed DEF Process, Submit
  <2> QED BY <1>4, <2>1, OthersStay, ServedMoves DEF Stages
<1>5. ASSUME NEW c \in Channels, Retry(c) \/ IndexChannel(c) PROVE Served'
  <2>1. c \in Objects
    BY DEF Objects
  <2>2. Stage(c, "handle") /\ Job("handle", c) \in Listed'
    BY <1>1, <1>2, <1>5, <2>1, GetsListed DEF Retry, IndexChannel, Submit
  <2> QED BY <1>5, <2>1, <2>2, OthersStay, ServedMoves DEF Stages
<1>6. ASSUME NEW c \in Channels, Refuse(c) \/ Trigger(c) \/ GiveUp(c) PROVE Served'
  <2>1. c \in Objects
    BY DEF Objects
  <2>2. Stage(c, "idle") \/ Stage(c, "retry")
    BY <1>6 DEF Refuse, Trigger, GiveUp, Return, TemporaryError
  <2> QED BY <1>6, <2>1, <2>2, OthersStay, ServedMoves DEF Stages
<1>7. ASSUME NEW m \in Muxes, IndexMux(m) PROVE Served'
  <2>1. m \in Objects
    BY DEF Objects
  <2>2. Stage(m, "idle") \/ (Stage(m, "handle") /\ Job("handle", m) \in Listed')
    BY <1>1, <1>2, <1>7, <2>1, GetsListed DEF IndexMux, Submit
  <2> QED BY <1>7, <2>1, <2>2, OthersStay, ServedMoves DEF Stages
<1>8. ASSUME NEW m \in Muxes, MuxDeletion(m) PROVE Served'
  <2>1. m \in Objects /\ Stage(m, "done")
    BY <1>8 DEF Objects, MuxDeletion
  <2> QED BY <1>8, <2>1, OthersStay, ServedMoves DEF Stages
<1>9. ASSUME NEW m \in Muxes, ReleaseMux(m) PROVE Served'
  <2>1. m \in Objects /\ Stage(m, "idle") /\ Listed' = Listed
    BY <1>1, <1>9, SameLine DEF Objects, ReleaseMux
  <2> QED BY <2>1, ServedMoves DEF Stages
<1>10. ASSUME NEW m \in Muxes, ExitDaemon(m) \/ AbortDaemon(m) PROVE Served'
  <2>1. /\ stage' = stage /\ threads' = threads \ {Job("daemon", m)}
        /\ due' = due \/ due' = Append(due, Job("daemon", m))
    BY <1>10 DEF ExitDaemon, AbortDaemon, Done, Submit
  <2>2. \A f \in Listed : f.fn # "daemon" => f \in Listed'
    BY <1>1, <1>2, <2>1, StaysListed, JobParts DEF Objects
  <2> QED BY <2>1, <2>2, ServedStays
<1>11. CASE TakeThread
  <2>1. Listed' = Listed /\ stage' = stage
    BY <1>11, TakeThreadStep DEF TakeThread, kopf
  <2> QED BY <2>1, ServedStays
<1>12. ASSUME NEW m \in Muxes, CreateMux(m) \/ DeleteMux(m) PROVE Served'
  BY <1>3, <1>12 DEF CreateMux, DeleteMux, Operator
<1>13. ASSUME NEW c \in Channels, PutChannel(c) \/ DeleteChannel(c) \/ LookAgain(c) PROVE Served'
  BY <1>3, <1>13 DEF PutChannel, DeleteChannel, LookAgain, Operator, kopf
<1> QED
  BY <1>4, <1>5, <1>6, <1>7, <1>8, <1>9, <1>10, <1>11, <1>12, <1>13
     DEF Next, MuxSteps, ChannelSteps, Objects

-----------------------------------------------------------------------------
(* Channels.                                                               *)
Told(c) ==
  chan[c] # NoChannel /\ c \notin fresh =>
    /\ seen[c] = chan[c]
    /\ stage[c] = "idle" => ~chan[c].deleting /\ (Triggers(chan[c]) => c \in heard)

ChannelsTold == \A c \in Channels : Told(c)

LEMMA ToldNext ==
  ASSUME PoolInv, ChannelsTold, Next
  PROVE  ChannelsTold'
<1> SUFFICES ASSUME NEW c \in Channels PROVE Told(c)'
  BY DEF ChannelsTold
<1>1. Told(c)
  BY DEF ChannelsTold
<1>2. /\ stage \in [Objects -> Stages] /\ DOMAIN chan = Channels /\ DOMAIN seen = Channels
      /\ c \in Objects /\ c \notin Muxes
  BY PoolAssumption DEF PoolInv, DataOK, Objects
<1>3. ASSUME chan'[c] = chan[c], seen'[c] = seen[c], stage'[c] = stage[c],
             c \in fresh => c \in fresh', c \in heard => c \in heard'
      PROVE  Told(c)'
  BY <1>1, <1>3 DEF Told, Triggers
<1>4. ASSUME NEW d \in Channels \ {c}, PutChannel(d) \/ DeleteChannel(d) \/ ChannelSteps(d)
      PROVE  Told(c)'
  <2>1. /\ chan'[c] = chan[c] /\ seen'[c] = seen[c] /\ stage'[c] = stage[c]
        /\ c \in fresh => c \in fresh'
        /\ c \in heard => c \in heard'
    BY <1>2, <1>4 DEF PutChannel, DeleteChannel, ChannelSteps, Edit, Operator, Process, Retry,
       IndexChannel, Refuse, Trigger, LookAgain, GiveUp, Return, TemporaryError, Stage, cluster, kopf
  <2> QED BY <1>3, <2>1
<1>5. ASSUME NEW m \in Muxes, CreateMux(m) \/ DeleteMux(m) \/ AbortDaemon(m) \/ MuxSteps(m)
      PROVE  Told(c)'
  <2>1. m # c /\ m \notin Channels
    BY <1>2, PoolAssumption
  <2>2. /\ chan'[c] = chan[c] /\ seen'[c] = seen[c] /\ stage'[c] = stage[c]
        /\ c \in fresh => c \in fresh'
        /\ c \in heard => c \in heard'
    BY <1>2, <1>5, <2>1 DEF CreateMux, DeleteMux, AbortDaemon, MuxSteps, Edit, Operator, Process,
       IndexMux, MuxDeletion, ExitDaemon, ReleaseMux, Stage, cluster
  <2> QED BY <1>3, <2>2
<1>6. CASE TakeThread
  BY <1>3, <1>6 DEF TakeThread, cluster, kopf
<1>7. CASE PutChannel(c) \/ DeleteChannel(c)
  BY <1>7 DEF PutChannel, DeleteChannel, Edit, Told
<1>8. CASE Process(c)
  BY <1>2, <1>8 DEF Process, Stage, Told, cluster
<1>9. CASE Retry(c) \/ IndexChannel(c)
  BY <1>1, <1>2, <1>9 DEF Retry, IndexChannel, Stage, Told, cluster
<1>10. CASE LookAgain(c)
  BY <1>3, <1>10 DEF LookAgain, cluster, kopf
<1>11. ASSUME Return(c), UNCHANGED heard, ~Triggers(seen[c]) \/ seen[c].deleting PROVE Told(c)'
  <2>1. CASE seen[c].deleting
    <3>1. chan'[c] = NoChannel
      BY <1>2, <1>11, <2>1 DEF Return
    <3> QED BY <3>1 DEF Told
  <2>2. CASE ~seen[c].deleting
    <3>1. chan' = chan /\ fresh' = fresh /\ seen' = seen /\ heard' = heard
      BY <1>11, <2>2 DEF Return
    <3>2. chan[c] # NoChannel /\ c \notin fresh => ~chan[c].deleting /\ ~Triggers(chan[c])
      BY <1>1, <1>11, <2>2 DEF Told
    <3> QED BY <1>1, <3>1, <3>2 DEF Told, Triggers
  <2> QED BY <2>1, <2>2
<1>12. CASE Trigger(c)
  <2>1. CASE seen[c].deleting
    <3>1. chan'[c] = NoChannel
      BY <1>2, <1>12, <2>1 DEF Trigger, Return
    <3> QED BY <3>1 DEF Told
  <2>2. CASE ~seen[c].deleting
    <3>1. chan' = chan /\ fresh' = fresh /\ seen' = seen
      BY <1>12, <2>2 DEF Trigger, Return
    <3>2. seen[c] = chan[c] => c \in heard'
      BY <1>12 DEF Trigger
    <3>3. chan[c] # NoChannel /\ c \notin fresh =>
            seen[c] = chan[c] /\ ~chan[c].deleting /\ c \in heard'
      BY <1>1, <2>2, <3>2 DEF Told
    <3> QED BY <3>1, <3>3 DEF Told, Triggers
  <2> QED BY <2>1, <2>2
<1>13. CASE Refuse(c)
  BY <1>11, <1>13 DEF Refuse
<1>14. CASE GiveUp(c)
  <2>1. CASE seen[c].deleting
    BY <1>11, <1>14, <2>1 DEF GiveUp
  <2>2. CASE ~seen[c].deleting
    BY <1>1, <1>2, <1>14, <2>2 DEF GiveUp, TemporaryError, Stage, Told, cluster
  <2> QED BY <2>1, <2>2
<1> QED
  BY <1>4, <1>5, <1>6, <1>7, <1>8, <1>9, <1>10, <1>12, <1>13, <1>14 DEF Next, ChannelSteps

(* No change of a channel is forgotten, and no event gets stuck: whichever *)
(* handlers wait in the threads, give up and are called again, and however *)
(* often the channel changes meanwhile (trigger_mux and its callers).      *)
THEOREM ChangesAreKept == Spec => []NoChangeIsForgotten
<1>1. Init => Served /\ ChannelsTold
  BY DEF Init, Served, ChannelsTold, Told
<1>2. PoolInv /\ Served /\ ChannelsTold /\ [Next]_vars => (Served /\ ChannelsTold)'
  <2> SUFFICES ASSUME PoolInv, Served, ChannelsTold, [Next]_vars PROVE Served' /\ ChannelsTold'
    OBVIOUS
  <2>1. CASE Next
    BY <2>1, ServedNext, ToldNext
  <2>2. CASE UNCHANGED vars
    <3>1. Served'
      BY <2>2, SameLine, ServedStays DEF vars, kopf, PoolInv
    <3>2. ChannelsTold'
      BY <2>2 DEF vars, cluster, kopf, ChannelsTold, Told, Triggers
    <3> QED BY <3>1, <3>2
  <2> QED BY <2>1, <2>2
<1>3. Served /\ ChannelsTold => NoChangeIsForgotten
  BY DEF Served, ChannelsTold, Told, Listed, NoChangeIsForgotten
<1> QED BY InitPool, NextPool, <1>1, <1>2, <1>3, PTL DEF Spec

-----------------------------------------------------------------------------
(* Muxes.                                                                  *)

(* MuxesAreInHand for one mux, and what makes it inductive: only a deleted *)
(* mux has its daemon told to stop, mux_deletion called or its finalizer   *)
(* taken, and what is gone has no event.                                   *)
Held(m) ==
  /\ m \in stopped => svc[m] = "deleting" /\ Job("daemon", m) \in Listed
  /\ stage[m] \in {"handle", "done"} => svc[m] = "deleting"
  /\ stage[m] # "retry"
  /\ svc[m] = "none" => m \notin fresh /\ stage[m] = "idle"
  /\ m \notin fresh =>
       /\ svc[m] = "live" => \/ stage[m] = "index"
                             \/ m \in queue /\ Job("daemon", m) \in Listed /\ m \notin stopped
       /\ svc[m] = "deleting" => stage[m] # "idle"

MuxesHeld == \A m \in Muxes : Held(m)

(* A daemon stays in the line or in its thread, whoever moves, until its   *)
(* own function ends.                                                      *)
LEMMA DaemonStays ==
  ASSUME PoolInv, Next, NEW m \in Muxes, Job("daemon", m) \in Listed,
         ~ExitDaemon(m), ~AbortDaemon(m)
  PROVE  Job("daemon", m) \in Listed'
<1>1. LineOK /\ Job("daemon", m).fn = "daemon" /\ \A x \in Objects : Job("daemon", x) \in Jobs
  BY DEF PoolInv, Job, Jobs
<1>2. Muxes \subseteq Objects /\ Channels \subseteq Objects
  BY DEF Objects
<1>3. CASE UNCHANGED pool
  BY <1>1, <1>3, SameLine
<1>4. CASE TakeThread
  BY <1>4, TakeThreadStep
<1>5. ASSUME NEW n \in Muxes \ {m}, ExitDaemon(n) \/ AbortDaemon(n)
      PROVE  Job("daemon", m) \in Listed'
  <2>1. /\ threads' = threads \ {Job("daemon", n)}
        /\ due' = due \/ due' = Append(due, Job("daemon", n))
    BY <1>5 DEF ExitDaemon, AbortDaemon, Done, Submit
  <2>2. Job("daemon", m) # Job("daemon", n)
    BY JobParts
  <2> QED BY <1>1, <1>2, <2>1, <2>2, StaysListed
<1>6. ASSUME NEW x \in Objects,
             \/ Process(x)
             \/ x \in Channels /\ (Retry(x) \/ IndexChannel(x) \/ Refuse(x) \/ Trigger(x) \/ GiveUp(x))
             \/ x \in Muxes /\ (IndexMux(x) \/ MuxDeletion(x))
      PROVE  Job("daemon", m) \in Listed'
  BY <1>1, <1>6, OthersStay
<1>7. ASSUME NEW n \in Muxes, CreateMux(n) \/ DeleteMux(n) \/ ReleaseMux(n) PROVE UNCHANGED pool
  BY <1>7 DEF CreateMux, DeleteMux, ReleaseMux, Operator
<1>8. ASSUME NEW c \in Channels, PutChannel(c) \/ DeleteChannel(c) \/ LookAgain(c)
      PROVE  UNCHANGED pool
  BY <1>8 DEF PutChannel, DeleteChannel, LookAgain, Operator
<1> QED
  BY <1>2, <1>3, <1>4, <1>5, <1>6, <1>7, <1>8 DEF Next, MuxSteps, ChannelSteps

LEMMA HeldNext ==
  ASSUME PoolInv, MuxesHeld, Next
  PROVE  MuxesHeld'
<1> SUFFICES ASSUME NEW m \in Muxes PROVE Held(m)'
  BY DEF MuxesHeld
<1> DEFINE d == Job("daemon", m)
<1>1. Held(m)
  BY DEF MuxesHeld
<1>2. /\ stage \in [Objects -> Stages] /\ svc \in [Muxes -> {"none", "live", "deleting"}]
      /\ m \in Objects /\ m \notin Channels /\ stopped \subseteq Muxes
  BY PoolAssumption DEF PoolInv, DataOK, Objects
<1>3. d \in Listed /\ ~ExitDaemon(m) /\ ~AbortDaemon(m) => d \in Listed'
  BY DaemonStays
<1>4. LineOK /\ d \in Jobs /\ HasDaemon(m) = (d \in Listed)
  BY <1>2 DEF PoolInv, Job, Jobs, HasDaemon, Listed
<1> HIDE DEF d
<1>5. ASSUME svc'[m] = svc[m], stage'[m] = stage[m], m \in fresh' <=> m \in fresh,
             m \in stopped' <=> m \in stopped, m \in queue => m \in queue',
             d \in Listed => d \in Listed'
      PROVE  Held(m)'
  BY <1>1, <1>5 DEF Held, d
<1>6. ASSUME NEW n \in Muxes \ {m},
             CreateMux(n) \/ DeleteMux(n) \/ AbortDaemon(n) \/ MuxSteps(n)
      PROVE  svc'[m] = svc[m] /\ stage'[m] = stage[m] /\ (m \in fresh' <=> m \in fresh)
             /\ (m \in stopped' <=> m \in stopped) /\ (m \in queue => m \in queue')
  BY <1>2, <1>6 DEF CreateMux, DeleteMux, AbortDaemon, MuxSteps, Edit, Operator, Process,
     IndexMux, MuxDeletion, ExitDaemon, ReleaseMux, Stage, cluster, kopf
<1>7. ASSUME NEW c \in Channels, PutChannel(c) \/ DeleteChannel(c) \/ ChannelSteps(c)
      PROVE  svc'[m] = svc[m] /\ stage'[m] = stage[m] /\ (m \in fresh' <=> m \in fresh)
             /\ (m \in stopped' <=> m \in stopped) /\ (m \in queue => m \in queue')
  <2>1. m # c
    BY <1>2
  <2> QED
    BY <1>2, <1>7, <2>1 DEF PutChannel, DeleteChannel, ChannelSteps, Edit, Operator, Process, Retry,
       IndexChannel, Refuse, Trigger, LookAgain, GiveUp, Return, TemporaryError, Stage, cluster, kopf
<1>8. CASE TakeThread
  <2>1. Listed' = Listed /\ UNCHANGED <<svc, stage, fresh, stopped>> /\ queue \subseteq queue'
    BY <1>8, TakeThreadStep DEF TakeThread, cluster, kopf
  <2> QED BY <1>5, <2>1
<1>9. CASE CreateMux(m) \/ DeleteMux(m)
  <2>1. Listed' = Listed /\ UNCHANGED <<stage, stopped, queue>> /\ m \in fresh'
    BY <1>4, <1>9, SameLine DEF CreateMux, DeleteMux, Edit, Operator
  <2>2. \/ svc[m] = "none" /\ svc'[m] = "live"
        \/ svc[m] = "live" /\ svc'[m] = "deleting"
    BY <1>2, <1>9 DEF CreateMux, DeleteMux
  <2> QED BY <1>1, <2>1, <2>2 DEF Held
<1>10. ASSUME Process(m) \/ IndexMux(m) \/ MuxDeletion(m), d \in Listed PROVE d \in Listed'
  BY <1>2, <1>10, OthersStay, JobParts DEF d
<1>11. CASE Process(m)
  <2>1. stage'[m] = "index" /\ svc' = svc /\ stopped' = stopped /\ m \in fresh
    BY <1>2, <1>11 DEF Process, Stage, cluster
  <2> QED BY <1>1, <1>10, <1>11, <2>1 DEF Held, d
<1>12. CASE IndexMux(m)
  <2>1. Runs("index", m) /\ svc' = svc /\ fresh' = fresh /\ m \in queue'
    BY <1>12 DEF IndexMux, cluster
  <2>2. svc[m] # "none" /\ stage[m] = "index"
    BY <1>1, <1>2, <2>1, FunctionOf DEF Held
  <2>3. CASE svc[m] = "live"
    <3>1. stage'[m] = "idle" /\ stopped' = stopped /\ (HasDaemon(m) \/ due' = Append(due, d))
      BY <1>2, <1>12, <2>3 DEF IndexMux, Stage, Submit, d
    <3>2. d \in Listed'
      BY <1>4, <1>10, <1>12, <3>1, GetsListed
    <3> QED BY <1>1, <2>1, <2>3, <3>1, <3>2 DEF Held, d
  <2>4. CASE svc[m] = "deleting"
    <3>1. stage'[m] = "handle" /\ stopped' = IF HasDaemon(m) THEN stopped \cup {m} ELSE stopped
      BY <1>2, <1>12, <2>4 DEF IndexMux, Stage
    <3> QED BY <1>1, <1>4, <1>10, <1>12, <2>1, <2>4, <3>1 DEF Held, d
  <2> QED BY <1>2, <2>2, <2>3, <2>4
<1>13. CASE MuxDeletion(m)
  <2>1. stage[m] = "handle" /\ stage'[m] = "done" /\ UNCHANGED <<svc, fresh, stopped>>
    BY <1>2, <1>13, FunctionOf DEF MuxDeletion, Stage, cluster
  <2> QED BY <1>1, <1>10, <1>13, <2>1 DEF Held, d
<1>14. CASE ReleaseMux(m)
  <2>1. /\ svc'[m] = "none" /\ stage'[m] = "idle" /\ m \notin fresh' /\ stopped' = stopped
        /\ m \notin stopped
    BY <1>1, <1>2, <1>4, <1>14 DEF ReleaseMux, Stage, Held, d
  <2> QED BY <2>1 DEF Held
<1>15. CASE ExitDaemon(m) \/ (AbortDaemon(m) /\ m \in stopped)
  <2>1. svc[m] = "deleting" /\ UNCHANGED <<svc, stage, fresh>> /\ m \notin stopped'
    BY <1>1, <1>15 DEF ExitDaemon, AbortDaemon, Held, cluster
  <2> QED BY <1>1, <2>1 DEF Held
<1>16. CASE AbortDaemon(m) /\ m \notin stopped
  <2>1. UNCHANGED <<svc, stage, fresh, queue>> /\ m \notin stopped' /\ due' = Append(due, d)
    BY <1>16 DEF AbortDaemon, Submit, cluster, d
  <2> QED BY <1>1, <1>4, <2>1, GetsListed DEF Held, d
<1>17. ASSUME ~ExitDaemon(m), ~AbortDaemon(m),
              \/ \E n \in Muxes \ {m} :
                   CreateMux(n) \/ DeleteMux(n) \/ AbortDaemon(n) \/ MuxSteps(n)
              \/ \E c \in Channels : PutChannel(c) \/ DeleteChannel(c) \/ ChannelSteps(c)
       PROVE  Held(m)'
  BY <1>3, <1>5, <1>6, <1>7, <1>17
<1> QED
  BY <1>8, <1>9, <1>11, <1>12, <1>13, <1>14, <1>15, <1>16, <1>17 DEF Next, MuxSteps

(* A mux that users created, deleted and created again is never left with  *)
(* the end of its former daemon, or without a queue: whatever a pass that  *)
(* raised, a stopped daemon and mux_deletion do in between (kopf's daemon, *)
(* multiplexer_services and mux_deletion of controller.py).                *)
THEOREM MuxesAreKept == Spec => []MuxesAreInHand
<1>1. Init => MuxesHeld
  BY DEF Init, MuxesHeld, Held, Objects
<1>2. PoolInv /\ MuxesHeld /\ [Next]_vars => MuxesHeld'
  <2> SUFFICES ASSUME PoolInv, MuxesHeld, [Next]_vars PROVE MuxesHeld'
    OBVIOUS
  <2>1. CASE Next
    BY <2>1, HeldNext
  <2>2. CASE UNCHANGED vars
    <3>1. Listed' = Listed
      BY <2>2, SameLine DEF vars, PoolInv
    <3> QED BY <2>2, <3>1 DEF vars, cluster, kopf, MuxesHeld, Held
  <2> QED BY <2>1, <2>2
<1>3. MuxesHeld => MuxesAreInHand
  BY DEF MuxesHeld, Held, Listed, HasDaemon, MuxesAreInHand
<1> QED BY InitPool, NextPool, <1>1, <1>2, <1>3, PTL DEF Spec
=============================================================================
