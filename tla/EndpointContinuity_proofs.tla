---------------------- MODULE EndpointContinuity_proofs ----------------------
(***************************************************************************)
(* Theorems about EndpointSync and its history, for every number of        *)
(* channels, whatever their Endpoints hold and however often they change.  *)
(***************************************************************************)
EXTENDS EndpointContinuity, TLAPS, WellFoundedInduction

-----------------------------------------------------------------------------
(* Lemmas about the operators.                                             *)

Below == {p \in Nat \X Nat : p[1] < p[2]}

(* The loop over the channels takes the least one that is left.            *)
LEMMA LeastChannel ==
  ASSUME NEW S \in SUBSET Nat, S # {}
  PROVE  (CHOOSE c \in S : \A d \in S : c <= d) \in S
<1>1. IsWellFoundedOn(Below, Nat)
  BY NatLessThanWellFounded DEF OpToRel, Below
<1>2. \E c \in S : \A d \in S : ~(<<d, c>> \in Below)
  BY <1>1, WFMin, Zenon
<1>3. ASSUME NEW c \in S, \A d \in S : ~(<<d, c>> \in Below)
      PROVE  \A d \in S : c <= d
  <2> SUFFICES ASSUME NEW d \in S PROVE c <= d
    OBVIOUS
  <2>1. c \in Nat /\ d \in Nat /\ (<<d, c>> \in Below <=> d < c)
    BY DEF Below
  <2> QED BY <1>3, <2>1
<1> QED BY <1>2, <1>3

(* The entries gathered for a channel are mux entries it owns.             *)
LEMMA CollectType ==
  ASSUME NEW c \in Channels, NEW x \in Contents[c] \cup {NoEndpoints}
  PROVE  CollectChannelEndpoints(c, x) \subseteq {e \in MuxEntries : e.owner = c}
<1> SUFFICES ASSUME NEW e \in CollectChannelEndpoints(c, x)
             PROVE  e \in MuxEntries /\ e.owner = c
  OBVIOUS
<1>1. x \subseteq Entries
  BY EndpointAssumption DEF CollectChannelEndpoints
<1>2. PICK f \in x : e = [owner |-> c, name |-> f.name, addr |-> f.addr, ready |-> f.ready]
  BY DEF CollectChannelEndpoints
<1>3. f \in Entries
  BY <1>1, <1>2
<1> QED BY <1>2, <1>3 DEF Entries, MuxEntries

(* Replacing the Endpoints of one channel, and having none of any.         *)
LEMMA PerChannelSet ==
  ASSUME NEW f, PerChannel(f), NEW c \in Channels, NEW x \in Contents[c] \cup {NoEndpoints}
  PROVE  PerChannel([f EXCEPT ![c] = x])
  BY DEF PerChannel

LEMMA NothingPerChannel == PerChannel([c \in Channels |-> NoEndpoints])
  BY DEF PerChannel

-----------------------------------------------------------------------------
(* Types.                                                                  *)

LEMMA TypeInit == Init => TypeOK
<1> SUFFICES ASSUME Init PROVE TypeOK
  OBVIOUS
<1> USE EndpointAssumption
<1>1. PerChannel([c \in Channels |-> NoEndpoints])
  BY NothingPerChannel
<1> QED BY <1>1 DEF Init, TypeOK, MuxEndpoints

(* The steps of the cluster and of the faults.                             *)
LEMMA TypeCluster ==
  ASSUME TypeOK, Environment \/ \E c \in Channels : EndpointsController(c)
  PROVE  TypeOK'
<1> USE EndpointAssumption DEF TypeOK
<1>1. ASSUME NEW c \in Channels, CreateService(c) PROVE TypeOK'
  BY <1>1 DEF CreateService, Edit, memo, watches, daemon
<1>2. ASSUME NEW c \in Channels, DeleteService(c) PROVE TypeOK'
  BY <1>2 DEF DeleteService, Edit, memo, watches, daemon
<1>3. ASSUME NEW c \in Channels, ChangeEndpoints(c) PROVE TypeOK'
  <2>1. PICK x \in Contents[c] : eps' = [eps EXCEPT ![c] = x]
    BY <1>3 DEF ChangeEndpoints
  <2>2. PerChannel(eps')
    BY <2>1, PerChannelSet
  <2> QED BY <1>3, <2>2 DEF ChangeEndpoints, Edit, memo, watches, daemon
<1>4. ASSUME NEW c \in Channels, ChangeAccepted(c) PROVE TypeOK'
  BY <1>4 DEF ChangeAccepted, Edit, memo, watches, daemon
<1>5. CASE AbortPass
  BY <1>5 DEF AbortPass, Fault, EndPass, cluster, memo, watches
<1>6. CASE RestartOperator
  <2>1. PerChannel(seen)' /\ PerChannel(event)' /\ PerChannel(cache)'
    BY <1>6, NothingPerChannel DEF RestartOperator
  <2>2. queue' \in 0..MaxQueue
    BY <1>6 DEF RestartOperator
  <2> QED BY <1>6, <2>1, <2>2 DEF RestartOperator, Fault, EndPass, cluster
<1>7. CASE DeleteMuxEndpoints
  BY <1>7 DEF DeleteMuxEndpoints, Fault, memo, watches, daemon
<1>8. CASE EmptyMuxEndpoints
  BY <1>8 DEF EmptyMuxEndpoints, Fault, memo, watches, daemon, MuxEndpoints
<1>9. ASSUME NEW c \in Channels, CreateEndpoints(c) PROVE TypeOK'
  <2>1. PICK x \in Contents[c] : eps' = [eps EXCEPT ![c] = x]
    BY <1>9 DEF CreateEndpoints
  <2>2. PerChannel(eps')
    BY <2>1, PerChannelSet
  <2> QED BY <1>9, <2>2 DEF CreateEndpoints, memo, watches, daemon
<1>10. ASSUME NEW c \in Channels, RemoveEndpoints(c) PROVE TypeOK'
  <2>1. PerChannel(eps') /\ PerChannel(seen')
    BY <1>10, PerChannelSet DEF RemoveEndpoints
  <2> QED BY <1>10, <2>1 DEF RemoveEndpoints, memo, daemon
<1> QED BY <1>1, <1>2, <1>3, <1>4, <1>5, <1>6, <1>7, <1>8, <1>9, <1>10
        DEF Environment, EndpointsController

LEMMA TypeHandlers ==
  ASSUME TypeOK, NEW c \in Channels,
         Handlers(c) \/ WatchEndpoints(c) \/ HandleEndpoints(c) \/ HandleMuxEndpoints
  PROVE  TypeOK'
<1> USE EndpointAssumption DEF TypeOK
<1>1. TriggerMux => queue' \in 0..MaxQueue
  BY DEF TriggerMux
<1>2. CASE HandleChannelService(c)
  BY <1>1, <1>2 DEF HandleChannelService, cluster, daemon
<1>3. CASE ChannelDeletion(c)
  <2>1. PerChannel(cache')
    BY <1>3, PerChannelSet DEF ChannelDeletion
  <2> QED BY <1>1, <1>3, <2>1 DEF ChannelDeletion, watches, daemon
<1>4. CASE Finalize(c)
  BY <1>4 DEF Finalize, memo, daemon
<1>5. CASE UnindexChannel(c)
  BY <1>5 DEF UnindexChannel, cluster, memo, daemon
<1>6. CASE WatchEndpoints(c)
  <2>1. eps[c] \in Contents[c] \cup {NoEndpoints}
    BY DEF PerChannel
  <2>2. PerChannel(seen') /\ PerChannel(event')
    BY <1>6, <2>1, PerChannelSet DEF WatchEndpoints
  <2> QED BY <1>6, <2>2 DEF WatchEndpoints, cluster, memo, daemon
<1>7. CASE HandleEndpoints(c)
  <2>1. event[c] \in Contents[c] \cup {NoEndpoints}
    BY DEF PerChannel
  <2>2. PerChannel([event EXCEPT ![c] = NoEndpoints])
    BY PerChannelSet
  <2>3. PerChannel([cache EXCEPT ![c] = event[c]])
    BY <2>1, PerChannelSet
  <2>4. PerChannel(event') /\ PerChannel(cache')
    BY <1>7, <2>2, <2>3 DEF HandleEndpoints
  <2> QED BY <1>1, <1>7, <2>4 DEF HandleEndpoints, cluster, daemon
<1>8. CASE HandleMuxEndpoints
  BY <1>8 DEF HandleMuxEndpoints, cluster, watches, daemon
<1> QED BY <1>2, <1>3, <1>4, <1>5, <1>6, <1>7, <1>8 DEF Handlers

LEMMA TypeDaemon == ASSUME TypeOK, Daemon PROVE TypeOK'
<1> USE EndpointAssumption DEF TypeOK
<1>1. CASE BeginPass
  BY <1>1 DEF BeginPass, cluster, watches
<1>2. CASE CollectChannel
  <2> DEFINE c == CHOOSE c \in todo : \A d \in todo : c <= d
  <2>1. c \in todo /\ c \in Channels
    BY <1>2, LeastChannel DEF CollectChannel
  <2>2. CollectChannelEndpoints(c, cache[c]) \subseteq {e \in MuxEntries : e.owner = c}
    BY <2>1, CollectType DEF PerChannel
  <2> HIDE DEF c
  <2>3. todo' = todo \ {c} /\ gathered' \in {gathered, gathered \cup CollectChannelEndpoints(c, cache[c])}
    BY <1>2 DEF CollectChannel, c
  <2>4. gathered' \subseteq MuxEntries /\ \A e \in gathered' : e.owner \in snap \ todo'
    BY <2>1, <2>2, <2>3
  <2> QED BY <1>2, <2>3, <2>4 DEF CollectChannel, cluster, watches, memo
<1>3. CASE ReadMuxEndpoints
  BY <1>3 DEF ReadMuxEndpoints, cluster, watches, memo
<1>4. CASE PublishEndpoints
  BY <1>4 DEF PublishEndpoints, EndPass, memo, watches, MuxEndpoints
<1>5. CASE CreationRefused
  BY <1>5 DEF CreationRefused, EndPass, cluster, memo, watches
<1> QED BY <1>1, <1>2, <1>3, <1>4, <1>5 DEF Daemon

LEMMA TypeStep == TypeOK /\ [Next]_vars => TypeOK'
<1> SUFFICES ASSUME TypeOK, [Next]_vars PROVE TypeOK'
  OBVIOUS
<1>1. CASE UNCHANGED vars
  BY <1>1 DEF TypeOK, vars, cluster, memo, watches, daemon
<1>2. CASE HandleMuxEndpoints
  BY <1>2, EndpointAssumption DEF TypeOK, HandleMuxEndpoints, cluster, watches, daemon
<1> QED BY <1>1, <1>2, TypeCluster, TypeHandlers, TypeDaemon DEF Next

(* The variables of EndpointSync keep their types.                         *)
THEOREM EndpointsTyped == Spec => []TypeOK
BY TypeInit, TypeStep, PTL DEF Spec

-----------------------------------------------------------------------------
(* What is served stays served.                                            *)

LEMMA WantedNext ==
  ASSUME TypeOK', NEW e, e \in Wanted'
  PROVE  /\ e.owner \in Channels /\ e.owner \in accepted' /\ svc'[e.owner] = "live"
         /\ e \in CollectChannelEndpoints(e.owner, eps'[e.owner])
<1>1. PICK c \in accepted' : svc'[c] = "live" /\ e \in CollectChannelEndpoints(c, eps'[c])
  BY DEF Wanted
<1>2. c \in Channels /\ eps'[c] \in Contents[c] \cup {NoEndpoints}
  BY DEF TypeOK, PerChannel
<1>3. e.owner = c
  BY <1>1, <1>2, CollectType
<1> QED BY <1>1, <1>2, <1>3

(* Nothing but restarts and edits of the mux Endpoints by others speaks    *)
(* against an entry that is still wanted: every other step keeps it        *)
(* secured.                                                                *)
Undisturbed == ~(RestartOperator \/ DeleteMuxEndpoints \/ EmptyMuxEndpoints)

LEMMA StaysSecured ==
  ASSUME Undisturbed, TypeOK, TypeOK', Next, NEW e, Secured(e), e \in Wanted'
  PROVE  Secured(e)'
<1> DEFINE o == e.owner
           Has(x) == e \in CollectChannelEndpoints(o, x)
           Kept == /\ o \in index' \ gone' /\ Has(cache'[o])
                   /\ (event'[o] # NoEndpoints => Has(event'[o]))
                   /\ muxEps' # NoEndpoints /\ e \in muxEps'.entries
                   /\ (pc' # "idle" => o \in todo' \/ e \in gathered')
<1>1. /\ o \in Channels /\ o \in accepted' /\ svc'[o] = "live" /\ Has(eps'[o])
  BY WantedNext
<1>2. /\ o \in accepted /\ svc[o] = "live" /\ o \in index \ gone
      /\ Has(eps[o]) /\ Has(cache[o]) /\ (event[o] # NoEndpoints => Has(event[o]))
      /\ muxEps # NoEndpoints /\ e \in muxEps.entries
      /\ (pc # "idle" => o \in todo \/ e \in gathered)
  BY DEF Secured
<1> SUFFICES Kept
  BY <1>1 DEF Secured
<1> HIDE DEF Has, o
<1>3. PerChannel(event) /\ PerChannel(cache)
  BY DEF TypeOK
<1>4. ASSUME UNCHANGED <<index, gone, event, cache>>, UNCHANGED <<muxEps, pc, todo, gathered>>
      PROVE  Kept
  BY <1>2, <1>4
<1>5. CASE BeginPass
  BY <1>2, <1>5 DEF BeginPass, cluster, watches
<1>6. CASE CollectChannel
  <2> DEFINE c == CHOOSE c \in todo : \A d \in todo : c <= d
  <2> HIDE DEF c
  <2>1. /\ todo' = todo \ {c}
        /\ gathered' = IF c \in accepted
                       THEN gathered \cup CollectChannelEndpoints(c, cache[c]) ELSE gathered
        /\ pc = "channels"
        /\ UNCHANGED <<index, gone, event, cache, muxEps, pc>>
    BY <1>6 DEF CollectChannel, c, cluster, watches, memo
  <2>2. o = c => e \in gathered'
    BY <1>2, <2>1 DEF Has
  <2>3. o # c => o \in todo' \/ e \in gathered'
    BY <1>2, <2>1
  <2> QED BY <1>2, <2>1, <2>2, <2>3
<1>7. CASE ReadMuxEndpoints
  BY <1>2, <1>7 DEF ReadMuxEndpoints, cluster, watches, memo
<1>8. CASE PublishEndpoints
  <2>1. e \in gathered
    BY <1>2, <1>8 DEF PublishEndpoints, TypeOK
  <2>2. muxEps' # NoEndpoints /\ e \in muxEps'.entries
    <3>1. CASE muxEps' = [channels |-> snap, entries |-> gathered]
      <4>1. muxEps' \in MuxEndpoints
        BY <3>1 DEF TypeOK, MuxEndpoints
      <4> QED BY <2>1, <3>1, <4>1, EndpointAssumption
    <3>2. CASE muxEps' = muxEps
      BY <1>2, <3>2
    <3> QED BY <1>8, <3>1, <3>2 DEF PublishEndpoints
  <2> QED BY <1>2, <1>8, <2>2 DEF PublishEndpoints, EndPass, watches, memo
<1>9. CASE HandleMuxEndpoints
  BY <1>4, <1>9 DEF HandleMuxEndpoints, cluster, watches, daemon
<1>10. ASSUME NEW c \in Channels, Handlers(c) PROVE Kept
  <2>1. CASE HandleChannelService(c)
    BY <1>2, <2>1 DEF HandleChannelService, cluster, daemon
  <2>2. CASE ChannelDeletion(c)
    <3>1. c # o
      BY <1>2, <2>2 DEF ChannelDeletion
    <3>2. cache'[o] = cache[o]
      BY <1>1, <1>3, <2>2, <3>1 DEF ChannelDeletion, PerChannel
    <3> QED BY <1>2, <2>2, <3>2 DEF ChannelDeletion, watches, daemon
  <2>3. CASE Finalize(c)
    <3>1. c # o
      BY <1>2, <2>3 DEF Finalize
    <3> QED BY <1>2, <2>3, <3>1 DEF Finalize, memo, daemon
  <2>4. CASE UnindexChannel(c)
    <3>1. c # o
      BY <1>2, <2>4 DEF UnindexChannel
    <3> QED BY <1>2, <2>4, <3>1 DEF UnindexChannel, cluster, memo, daemon
  <2> QED BY <1>10, <2>1, <2>2, <2>3, <2>4 DEF Handlers
<1>11. ASSUME NEW c \in Channels, WatchEndpoints(c) PROVE Kept
  <2>1. event'[o] = IF c = o THEN eps[o] ELSE event[o]
    BY <1>1, <1>3, <1>11 DEF WatchEndpoints, PerChannel
  <2> QED BY <1>2, <1>11, <2>1 DEF WatchEndpoints, cluster, memo, daemon
<1>12. ASSUME NEW c \in Channels, HandleEndpoints(c) PROVE Kept
  <2>1. /\ event'[o] = IF c = o THEN NoEndpoints ELSE event[o]
        /\ cache'[o] \in {cache[o], IF c = o THEN event[o] ELSE cache[o]}
        /\ event[c] # NoEndpoints
    BY <1>1, <1>3, <1>12 DEF HandleEndpoints, PerChannel
  <2> QED BY <1>2, <1>12, <2>1 DEF HandleEndpoints, cluster, daemon
<1>13. ASSUME NEW c \in Channels, EndpointsController(c) PROVE Kept
  BY <1>2, <1>4, <1>13
     DEF EndpointsController, CreateEndpoints, RemoveEndpoints, memo, watches, daemon
<1>14. CASE Environment
  <2>1. UNCHANGED <<index, gone, event, cache, muxEps>>
    BY <1>14 DEF Environment, Undisturbed, CreateService, DeleteService, ChangeEndpoints,
       ChangeAccepted, AbortPass, cluster, watches, memo
  <2>2. pc' = "idle" \/ UNCHANGED <<pc, todo, gathered>>
    BY <1>14 DEF Environment, Undisturbed, CreateService, DeleteService, ChangeEndpoints,
       ChangeAccepted, AbortPass, EndPass, daemon
  <2> QED BY <1>2, <2>1, <2>2
<1>15. CASE CreationRefused
  BY <1>2, <1>15 DEF CreationRefused
<1> QED BY <1>5, <1>6, <1>7, <1>8, <1>9, <1>10, <1>11, <1>12, <1>13, <1>14, <1>15 DEF Next, Daemon

(* An entry a pass publishes is secured if the operator is up to date.     *)
LEMMA PublishedIsSecured ==
  ASSUME TypeOK, TypeOK', Next, Published, muxEps' # NoEndpoints,
         NEW e \in gathered \cap muxEps'.entries, UpToDate(e.owner), e \in Wanted'
  PROVE  Secured(e)'
<1>1. PublishEndpoints
  BY DEF Published, Next, Daemon, BeginPass, CollectChannel, ReadMuxEndpoints, HandleMuxEndpoints,
     Handlers, HandleChannelService, ChannelDeletion, Finalize, UnindexChannel, WatchEndpoints,
     HandleEndpoints, EndpointsController, CreateEndpoints, RemoveEndpoints, Environment,
     CreateService, DeleteService, ChangeEndpoints, ChangeAccepted, AbortPass, RestartOperator,
     DeleteMuxEndpoints, EmptyMuxEndpoints, Fault, CreationRefused, TypeOK, cluster, daemon
<1>2. UNCHANGED <<index, gone, seen, event, cache, eps>> /\ pc' = "idle"
  BY <1>1 DEF PublishEndpoints, EndPass, memo, watches
<1> QED BY <1>2, WantedNext DEF Secured, UpToDate

LEMMA SecuredStep ==
  ASSUME TypeOK, TypeOK', SteadyIsSecured, HistoryNext
  PROVE  SteadyIsSecured'
<1> SUFFICES ASSUME NEW e \in steady' PROVE Secured(e)'
  BY DEF SteadyIsSecured
<1>1. Next /\ ~RestartOperator /\ muxEps' # NoEndpoints /\ Observe
  BY DEF HistoryNext
<1>2. e \in Wanted' /\ e \in muxEps'.entries
  BY <1>1 DEF Observe
<1>3. Undisturbed
  <2>1. ~DeleteMuxEndpoints
    BY <1>1 DEF DeleteMuxEndpoints
  <2>2. ~EmptyMuxEndpoints
    <3> SUFFICES ASSUME EmptyMuxEndpoints PROVE FALSE
      OBVIOUS
    <3>1. muxEps \in MuxEndpoints /\ muxEps' = [muxEps EXCEPT !.entries = {}]
      BY DEF EmptyMuxEndpoints, TypeOK
    <3>2. muxEps'.entries = {}
      BY <3>1 DEF MuxEndpoints
    <3> QED BY <1>2, <3>2
  <2> QED BY <1>1, <2>1, <2>2 DEF Undisturbed
<1>4. CASE e \in steady
  BY <1>1, <1>2, <1>3, <1>4, StaysSecured DEF SteadyIsSecured
<1>5. CASE e \notin steady
  <2>1. Published /\ e \in gathered \cap muxEps'.entries /\ UpToDate(e.owner)
    BY <1>1, <1>5 DEF Observe
  <2> QED BY <1>1, <1>2, <2>1, PublishedIsSecured
<1> QED BY <1>4, <1>5

(* What a pass has published and nothing has spoken against is in the      *)
(* cache, in the events under way and in the pass, whatever faults, races  *)
(* and edits come between (handle_channel_endpoints and the Endpoints of   *)
(* a pass).                                                                *)
THEOREM SteadyEntriesAreSecured == HistorySpec => [](TypeOK /\ SteadyIsSecured)
<1>1. HistoryInit => TypeOK /\ SteadyIsSecured
  BY TypeInit DEF HistoryInit, SteadyIsSecured
<1>2. TypeOK /\ SteadyIsSecured /\ [HistoryNext]_<<vars, history>> => (TypeOK /\ SteadyIsSecured)'
  <2> SUFFICES ASSUME TypeOK, SteadyIsSecured, [HistoryNext]_<<vars, history>>
               PROVE  TypeOK' /\ SteadyIsSecured'
    OBVIOUS
  <2>1. CASE HistoryNext
    <3>1. Next
      BY <2>1 DEF HistoryNext
    <3>2. TypeOK'
      BY <3>1, TypeStep
    <3> QED BY <2>1, <3>2, SecuredStep
  <2>2. CASE UNCHANGED <<vars, history>>
    <3>1. TypeOK'
      BY <2>2, TypeStep
    <3> QED BY <2>2, <3>1 DEF SteadyIsSecured, Secured, vars, history, cluster, memo, watches, daemon
  <2> QED BY <2>1, <2>2
<1> QED BY <1>1, <1>2, PTL DEF HistorySpec

(* A patch of the mux Endpoints is neither a restart nor somebody's edit.  *)
LEMMA PatchIsUndisturbed == ASSUME TypeOK, PublishEndpoints PROVE Undisturbed
<1>1. faults' = faults /\ faults \in Nat
  BY EndpointAssumption DEF PublishEndpoints, TypeOK
<1> QED BY <1>1 DEF Undisturbed, RestartOperator, DeleteMuxEndpoints, EmptyMuxEndpoints, Fault

(* No pass takes an address away from a channel that has kept it since it  *)
(* was published, with every fault and race of the model.                  *)
THEOREM ServedPodsKept == HistorySpec => ServedPodsStayServed
<1> DEFINE Keeps == PublishEndpoints =>
                      \A e \in steady : e \in Wanted' => muxEps' # NoEndpoints /\ e \in muxEps'.entries
<1>1. TypeOK /\ SteadyIsSecured /\ [HistoryNext]_<<vars, history>> => [Keeps]_muxEps
  <2> SUFFICES ASSUME TypeOK, SteadyIsSecured, HistoryNext PROVE Keeps
    BY DEF vars, cluster
  <2> SUFFICES ASSUME PublishEndpoints, NEW e \in steady, e \in Wanted'
               PROVE  muxEps' # NoEndpoints /\ e \in muxEps'.entries
    OBVIOUS
  <2>1. Next /\ TypeOK'
    BY TypeStep DEF HistoryNext
  <2>2. Secured(e)'
    BY <2>1, StaysSecured, PatchIsUndisturbed DEF SteadyIsSecured
  <2> QED BY <2>2 DEF Secured
<1>2. HistorySpec => [](TypeOK /\ SteadyIsSecured)
  BY SteadyEntriesAreSecured
<1> QED BY <1>1, <1>2, PTL DEF HistorySpec, ServedPodsStayServed

-----------------------------------------------------------------------------
(* Reports of the watch.                                                   *)

(* The watch forgets Endpoints that are gone, and what is on its way is    *)
(* what it has last reported.                                              *)
ReportsAreCurrent ==
  \A c \in Channels :
    /\ eps[c] = NoEndpoints => seen[c] = NoEndpoints
    /\ event[c] # NoEndpoints /\ seen[c] # NoEndpoints => event[c] = seen[c]

ReportInv == ReportsAreCurrent /\ OnlyRacesLoseReports

LEMMA CurrentStep ==
  ASSUME TypeOK, ReportsAreCurrent, Next
  PROVE  ReportsAreCurrent'
<1>1. PerChannel(eps) /\ PerChannel(seen) /\ PerChannel(event)
  BY DEF TypeOK
<1>2. CASE UNCHANGED <<eps, seen, event>>
  BY <1>2 DEF ReportsAreCurrent
<1>3. ASSUME NEW c \in Channels, ChangeEndpoints(c) \/ CreateEndpoints(c) PROVE ReportsAreCurrent'
  <2>1. PICK x \in Contents[c] : eps' = [eps EXCEPT ![c] = x]
    BY <1>3 DEF ChangeEndpoints, CreateEndpoints
  <2>2. x # NoEndpoints /\ UNCHANGED <<seen, event>>
    BY <1>3, EndpointAssumption DEF ChangeEndpoints, CreateEndpoints, watches
  <2> QED BY <1>1, <2>1, <2>2 DEF ReportsAreCurrent, PerChannel
<1>4. ASSUME NEW c \in Channels, RemoveEndpoints(c) PROVE ReportsAreCurrent'
  BY <1>1, <1>4 DEF RemoveEndpoints, ReportsAreCurrent, PerChannel
<1>5. ASSUME NEW c \in Channels, WatchEndpoints(c) PROVE ReportsAreCurrent'
  BY <1>1, <1>5 DEF WatchEndpoints, ReportsAreCurrent, PerChannel, cluster
<1>6. ASSUME NEW c \in Channels, HandleEndpoints(c) PROVE ReportsAreCurrent'
  BY <1>1, <1>6 DEF HandleEndpoints, ReportsAreCurrent, PerChannel, cluster
<1>7. CASE RestartOperator
  BY <1>7 DEF RestartOperator, ReportsAreCurrent
<1>8. CASE Daemon \/ HandleMuxEndpoints
  BY <1>2, <1>8 DEF Daemon, BeginPass, CollectChannel, ReadMuxEndpoints, PublishEndpoints,
     CreationRefused, HandleMuxEndpoints, cluster, watches
<1>9. ASSUME NEW c \in Channels, Handlers(c) PROVE ReportsAreCurrent'
  BY <1>2, <1>9 DEF Handlers, HandleChannelService, ChannelDeletion, Finalize, UnindexChannel,
     cluster, watches
<1>10. ASSUME Environment, ~RestartOperator, ~\E d \in Channels : ChangeEndpoints(d)
       PROVE  UNCHANGED <<eps, seen, event>>
  BY <1>10 DEF Environment, CreateService, DeleteService, ChangeAccepted, AbortPass,
     DeleteMuxEndpoints, EmptyMuxEndpoints, cluster, watches
<1> QED
  BY <1>2, <1>3, <1>4, <1>5, <1>6, <1>7, <1>8, <1>9, <1>10 DEF Next, EndpointsController

(* A channel that is live and not raced after a step: its Endpoints were   *)
(* reported in this step or had been, and it was live already or has just  *)
(* come without any.                                                       *)
LEMMA ReportStep ==
  ASSUME TypeOK, ReportInv, HistoryNext,
         NEW c \in Channels \ raced', svc'[c] = "live", seen'[c] # NoEndpoints
  PROVE  /\ c \in index' \ gone'
         /\ IF event'[c] = NoEndpoints THEN cache'[c] = seen'[c] ELSE event'[c] = seen'[c]
<1> DEFINE Goal == /\ c \in index' \ gone'
                   /\ IF event'[c] = NoEndpoints THEN cache'[c] = seen'[c] ELSE event'[c] = seen'[c]
<1> SUFFICES Goal
  OBVIOUS
<1>1. Next /\ ObserveRaces
  BY DEF HistoryNext
<1>2. /\ ~(svc[c] = "none" /\ svc'[c] = "live")
      /\ seen'[c] # seen[c] => c \in index \ gone
      /\ seen'[c] = seen[c] => c \notin raced
  BY <1>1 DEF ObserveRaces
<1>3. svc[c] = "live" /\ seen[c] # NoEndpoints /\ seen'[c] = seen[c] =>
        /\ c \in index \ gone
        /\ IF event[c] = NoEndpoints THEN cache[c] = seen[c] ELSE event[c] = seen[c]
  BY <1>2 DEF ReportInv, OnlyRacesLoseReports
<1>4. PerChannel(eps) /\ PerChannel(seen) /\ PerChannel(event) /\ PerChannel(cache)
      /\ svc \in [Channels -> {"none", "live", "deleting", "released"}]
  BY DEF TypeOK
<1>5. CASE UNCHANGED <<index, gone, seen, event, cache>> /\ svc[c] = "live"
  BY <1>3, <1>5
<1>6. CASE Daemon \/ HandleMuxEndpoints
  BY <1>5, <1>6 DEF Daemon, BeginPass, CollectChannel, ReadMuxEndpoints, PublishEndpoints,
     CreationRefused, HandleMuxEndpoints, cluster, watches, memo
<1>7. ASSUME NEW d \in Channels, Handlers(d) PROVE Goal
  <2>1. CASE HandleChannelService(d)
    BY <1>3, <2>1 DEF HandleChannelService, cluster
  <2>2. CASE ChannelDeletion(d)
    <3>1. d # c /\ svc[c] = "live"
      BY <1>4, <2>2 DEF ChannelDeletion
    <3>2. cache'[c] = cache[c]
      BY <1>4, <2>2, <3>1 DEF ChannelDeletion, PerChannel
    <3> QED BY <1>3, <2>2, <3>1, <3>2 DEF ChannelDeletion, watches
  <2>3. CASE Finalize(d)
    <3>1. d # c /\ svc[c] = "live"
      BY <1>4, <2>3 DEF Finalize
    <3> QED BY <1>3, <2>3, <3>1 DEF Finalize, memo
  <2>4. CASE UnindexChannel(d)
    <3>1. svc[c] = "live" /\ UNCHANGED <<seen, event, cache>>
      BY <2>4 DEF UnindexChannel, cluster, memo
    <3> QED BY <1>3, <2>4, <3>1 DEF UnindexChannel
  <2> QED BY <1>7, <2>1, <2>2, <2>3, <2>4 DEF Handlers
<1>8. ASSUME NEW d \in Channels, WatchEndpoints(d) PROVE Goal
  <2>1. svc[c] = "live" /\ UNCHANGED <<index, gone, cache>>
    BY <1>8 DEF WatchEndpoints, cluster, memo
  <2>2. CASE d = c
    <3>1. seen'[c] = eps[c] /\ event'[c] = eps[c] /\ eps[c] # seen[c]
      BY <1>4, <1>8, <2>2 DEF WatchEndpoints, PerChannel
    <3> QED BY <1>2, <2>1, <3>1
  <2>3. CASE d # c
    <3>1. seen'[c] = seen[c] /\ event'[c] = event[c]
      BY <1>4, <1>8, <2>3 DEF WatchEndpoints, PerChannel
    <3> QED BY <1>3, <2>1, <3>1
  <2> QED BY <2>2, <2>3
<1>9. ASSUME NEW d \in Channels, HandleEndpoints(d) PROVE Goal
  <2>1. svc[c] = "live" /\ UNCHANGED <<index, gone, seen>>
    BY <1>9 DEF HandleEndpoints, cluster
  <2>2. c \in index \ gone
    BY <1>3, <2>1
  <2>3. CASE d = c
    <3>1. event[c] # NoEndpoints /\ event[c] = seen[c]
      BY <1>3, <1>9, <2>1, <2>3 DEF HandleEndpoints
    <3>2. event'[c] = NoEndpoints /\ cache'[c] = event[c]
      BY <1>4, <1>9, <2>2, <2>3 DEF HandleEndpoints, PerChannel
    <3> QED BY <2>1, <2>2, <3>1, <3>2
  <2>4. CASE d # c
    <3>1. event'[c] = event[c] /\ cache'[c] = cache[c]
      BY <1>4, <1>9, <2>4 DEF HandleEndpoints, PerChannel
    <3> QED BY <1>3, <2>1, <3>1
  <2> QED BY <2>3, <2>4
<1>10. ASSUME NEW d \in Channels, EndpointsController(d) PROVE Goal
  <2>1. CASE CreateEndpoints(d)
    BY <1>5, <2>1 DEF CreateEndpoints, memo, watches
  <2>2. CASE RemoveEndpoints(d)
    <3>1. d # c /\ svc[c] = "live"
      BY <1>4, <2>2 DEF RemoveEndpoints
    <3>2. seen'[c] = seen[c]
      BY <1>4, <2>2, <3>1 DEF RemoveEndpoints, PerChannel
    <3> QED BY <1>3, <2>2, <3>1, <3>2 DEF RemoveEndpoints, memo
  <2> QED BY <1>10, <2>1, <2>2 DEF EndpointsController
<1>11. CASE Environment
  <2>1. ~RestartOperator
    BY DEF RestartOperator
  <2>2. UNCHANGED <<index, gone, seen, event, cache>>
    BY <1>11, <2>1 DEF Environment, CreateService, DeleteService, ChangeEndpoints, ChangeAccepted,
       AbortPass, DeleteMuxEndpoints, EmptyMuxEndpoints, watches, memo
  <2>3. svc[c] \in {"none", "live"}
    BY <1>4, <1>11, <2>1 DEF Environment, CreateService, DeleteService, ChangeEndpoints,
       ChangeAccepted, AbortPass, DeleteMuxEndpoints, EmptyMuxEndpoints, cluster
  <2> QED BY <1>2, <1>5, <2>2, <2>3
<1> QED BY <1>1, <1>6, <1>7, <1>8, <1>9, <1>10, <1>11 DEF Next

(* What the watch of Endpoints last reported of a live channel is cached   *)
(* or under way, unless it raced with the watch of Services: no restart,   *)
(* late event, deletion or creation loses it (handle_channel_endpoints,    *)
(* the indices and the deletion handler of controller.py).                 *)
THEOREM ReportsAreKept == HistorySpec => []OnlyRacesLoseReports
<1>1. HistoryInit => ReportInv
  BY DEF HistoryInit, Init, ReportInv, ReportsAreCurrent, OnlyRacesLoseReports
<1>2. TypeOK /\ ReportInv /\ [HistoryNext]_<<vars, history>> => ReportInv'
  <2> SUFFICES ASSUME TypeOK, ReportInv, [HistoryNext]_<<vars, history>>
               PROVE  ReportInv'
    OBVIOUS
  <2>1. CASE HistoryNext
    <3>1. ReportsAreCurrent'
      BY <2>1, CurrentStep DEF HistoryNext, ReportInv
    <3>2. OnlyRacesLoseReports'
      BY <2>1, ReportStep DEF OnlyRacesLoseReports
    <3> QED BY <3>1, <3>2 DEF ReportInv
  <2>2. CASE UNCHANGED <<vars, history>>
    BY <2>2 DEF ReportInv, ReportsAreCurrent, OnlyRacesLoseReports, vars, history, cluster, memo, watches
  <2> QED BY <2>1, <2>2
<1>3. ReportInv => OnlyRacesLoseReports
  BY DEF ReportInv
<1> QED BY <1>1, <1>2, <1>3, SteadyEntriesAreSecured, PTL DEF HistorySpec

-----------------------------------------------------------------------------
(* Passes in which nothing happens.                                        *)

(* The entries of the accepted channels among S.                           *)
EntriesOf(S) == UNION {CollectChannelEndpoints(c, eps[c]) : c \in S \cap accepted}

(* A calm pass has read what the cluster holds.                            *)
CalmIsRight ==
  calm =>
    /\ pc # "idle" /\ Drained /\ snap = index
    /\ gathered = EntriesOf(snap \ todo)
    /\ pc = "publish" => old = muxEps

LEMMA DrainedCache ==
  ASSUME OnlyRacesLoseReports, TypeOK, Drained, NEW c \in index
  PROVE  c \in Channels /\ cache[c] = eps[c]
BY DEF OnlyRacesLoseReports, TypeOK, Drained

LEMMA EntriesGrow ==
  ASSUME NEW S, NEW T, NEW c, S = T \cup {c}
  PROVE  EntriesOf(S) = IF c \in accepted THEN EntriesOf(T) \cup CollectChannelEndpoints(c, eps[c])
                        ELSE EntriesOf(T)
BY DEF EntriesOf

LEMMA CalmStep ==
  ASSUME TypeOK, OnlyRacesLoseReports, CalmIsRight, HistoryNext
  PROVE  CalmIsRight'
<1> SUFFICES ASSUME calm' = TRUE PROVE CalmIsRight'
  BY DEF CalmIsRight
<1>1. /\ Next /\ ObserveRaces /\ pc' # "idle"
      /\ IF pc = "idle" THEN Drained ELSE calm
      /\ UNCHANGED <<svc, eps, accepted, muxEps, index, gone, seen, event, cache, muxCache>>
  BY DEF HistoryNext, ObserveCalm, cluster, watches
<1>2. Drained
  BY <1>1 DEF CalmIsRight
<1>3. Drained'
  BY <1>1, <1>2 DEF Drained, ObserveRaces
<1>4. CASE BeginPass
  BY <1>1, <1>3, <1>4 DEF BeginPass, CalmIsRight, EntriesOf, TypeOK
<1>5. CASE CollectChannel
  <2> DEFINE c == CHOOSE c \in todo : \A d \in todo : c <= d
  <2>1. c \in todo /\ todo \subseteq snap /\ pc # "idle" /\ calm
    BY <1>1, <1>5, LeastChannel, EndpointAssumption DEF CollectChannel, TypeOK
  <2> HIDE DEF c
  <2>2. /\ todo' = todo \ {c}
        /\ gathered' = IF c \in accepted
                       THEN gathered \cup CollectChannelEndpoints(c, cache[c]) ELSE gathered
        /\ pc = "channels" /\ UNCHANGED <<pc, snap, old>>
    BY <1>5 DEF CollectChannel, c
  <2>3. cache[c] = eps[c]
    BY <1>2, <2>1, DrainedCache DEF CalmIsRight
  <2>4. gathered' = EntriesOf(snap \ todo')
    <3>1. snap \ todo' = (snap \ todo) \cup {c}
      BY <2>1, <2>2
    <3>2. gathered = EntriesOf(snap \ todo)
      BY <2>1 DEF CalmIsRight
    <3>3. EntriesOf(snap \ todo') =
            IF c \in accepted THEN EntriesOf(snap \ todo) \cup CollectChannelEndpoints(c, eps[c])
            ELSE EntriesOf(snap \ todo)
      BY <3>1, EntriesGrow
    <3> HIDE DEF EntriesOf
    <3> QED BY <2>2, <2>3, <3>2, <3>3
  <2>5. EntriesOf(snap \ todo)' = EntriesOf(snap \ todo')
    BY <1>1, <2>2 DEF EntriesOf
  <2> QED BY <1>1, <1>3, <2>1, <2>2, <2>4, <2>5 DEF CalmIsRight
<1>6. CASE ReadMuxEndpoints
  BY <1>1, <1>2, <1>3, <1>6 DEF ReadMuxEndpoints, CalmIsRight, EntriesOf, Drained
<1>7. ASSUME ~BeginPass, ~CollectChannel, ~ReadMuxEndpoints
      PROVE  pc # "idle" /\ UNCHANGED <<pc, snap, todo, gathered, old>>
  <2>1. pc' = "idle" \/ UNCHANGED daemon
    BY <1>1, <1>7 DEF Next, Daemon, PublishEndpoints, CreationRefused, EndPass, HandleMuxEndpoints,
       Handlers, HandleChannelService, ChannelDeletion, Finalize, UnindexChannel, WatchEndpoints,
       HandleEndpoints, EndpointsController, CreateEndpoints, RemoveEndpoints, Environment,
       CreateService, DeleteService, ChangeEndpoints, ChangeAccepted, AbortPass, RestartOperator,
       DeleteMuxEndpoints, EmptyMuxEndpoints
  <2> QED BY <1>1, <2>1 DEF daemon
<1> QED BY <1>1, <1>3, <1>4, <1>5, <1>6, <1>7 DEF CalmIsRight, EntriesOf

(* A pass in which nothing happens, after the watches are done, leaves the *)
(* mux with the addresses of just the accepted channels, whatever went     *)
(* before, for every number of channels and addresses (the loop of         *)
(* mux_daemon, handle_channel_endpoints and endpoints_changed).            *)
THEOREM CalmPassesServeTheChannels == HistorySpec => CalmPassesAreRight
<1> DEFINE Inv == TypeOK /\ OnlyRacesLoseReports
           Right == PublishEndpoints /\ calm =>
                      /\ muxEps' # NoEndpoints /\ muxEps'.channels = index
                      /\ ReadyAddrs(muxEps'.entries) = ReadyAddrs(Wanted)
                      /\ NotReadyAddrs(muxEps'.entries) = NotReadyAddrs(Wanted)
<1>1. HistoryInit => CalmIsRight
  BY DEF HistoryInit, CalmIsRight
<1>2. Inv /\ CalmIsRight /\ [HistoryNext]_<<vars, history>> => CalmIsRight'
  <2>1. CASE UNCHANGED <<vars, history>>
    BY <2>1 DEF vars, history, cluster, memo, watches, daemon, CalmIsRight, Drained, EntriesOf
  <2> QED BY <2>1, CalmStep
<1>3. Inv /\ CalmIsRight => Right
  <2> SUFFICES ASSUME Inv, CalmIsRight, PublishEndpoints, calm
               PROVE  /\ muxEps' # NoEndpoints /\ muxEps'.channels = index
                      /\ ReadyAddrs(muxEps'.entries) = ReadyAddrs(Wanted)
                      /\ NotReadyAddrs(muxEps'.entries) = NotReadyAddrs(Wanted)
    OBVIOUS
  <2>1. pc = "publish" /\ todo = {} /\ snap = index /\ Drained /\ old = muxEps
    BY DEF PublishEndpoints, CalmIsRight, TypeOK
  <2>2. gathered = EntriesOf(index)
    BY <2>1 DEF CalmIsRight
  <2>3. index \cap accepted = {d \in accepted : svc[d] = "live"}
    BY <2>1 DEF Drained, TypeOK
  <2>4. gathered = Wanted
    BY <2>2, <2>3 DEF EntriesOf, Wanted
  <2>5. CASE muxEps' = [channels |-> snap, entries |-> gathered]
    <3>1. muxEps' \in MuxEndpoints
      BY <2>5 DEF TypeOK, MuxEndpoints
    <3> QED BY <2>1, <2>4, <2>5, <3>1, EndpointAssumption
  <2>6. CASE muxEps # NoEndpoints /\ ~Differs(muxEps, snap, gathered) /\ muxEps' = muxEps
    BY <2>1, <2>4, <2>6 DEF Differs
  <2> QED BY <2>1, <2>5, <2>6 DEF PublishEndpoints
<1>4. HistorySpec => []Inv
  BY SteadyEntriesAreSecured, ReportsAreKept, PTL
<1> HIDE DEF Inv
<1>5. Inv /\ CalmIsRight /\ [HistoryNext]_<<vars, history>> => [Right]_vars
  BY <1>3
<1> QED BY <1>1, <1>2, <1>4, <1>5, PTL DEF HistorySpec, CalmPassesAreRight
==============================================================================
