------------------------- MODULE EndpointContinuity -------------------------
(***************************************************************************)
(* EndpointSync with a history: which entries of the mux Endpoints nothing *)
(* has spoken against since they were written (a restart, which empties    *)
(* the cache, speaks against all of them), which channels the watch has    *)
(* last reported in a race with the watch of Services, and whether the     *)
(* pass under way found everything reported and nothing changed since.     *)
(***************************************************************************)
EXTENDS EndpointSync

VARIABLES steady, raced, calm

history == <<steady, raced, calm>>

(* The operator has taken in the Service and the Endpoints of c.           *)
UpToDate(c) ==
  /\ c \in index \ gone
  /\ cache[c] = eps[c] /\ seen[c] = eps[c] /\ event[c] = NoEndpoints

Published == pc = "publish" /\ pc' = "idle" /\ faults' = faults

Observe ==
  steady' =
    {e \in steady \cup (IF Published
                        THEN {f \in gathered \cap muxEps'.entries : UpToDate(f.owner)} ELSE {}) :
       e \in muxEps'.entries /\ e \in Wanted'}

(* The report is of a predecessor of the channel, which nobody knew to be  *)
(* gone ("hasty"), or came while the channel was not indexed ("early").    *)
ObserveRaces ==
  raced' =
    {c \in Channels :
       /\ seen'[c] # NoEndpoints
       /\ \/ svc[c] = "none" /\ svc'[c] = "live"
          \/ seen'[c] # seen[c] /\ c \notin index \ gone
          \/ seen'[c] = seen[c] /\ c \in raced}

(* The watches have nothing left to report of Services and Endpoints, nor  *)
(* the handlers to handle.                                                 *)
Drained ==
  /\ gone = {} /\ index = {c \in Channels : svc[c] = "live"} /\ muxCache = muxEps
  /\ \A c \in index :
       c \notin raced /\ event[c] = NoEndpoints /\ seen[c] = eps[c] /\ eps[c] # NoEndpoints

ObserveCalm ==
  calm' = /\ pc' # "idle"
          /\ IF pc = "idle" THEN Drained ELSE calm
          /\ UNCHANGED <<cluster, watches, cache, muxCache>>

HistoryInit == Init /\ steady = {} /\ raced = {} /\ calm = FALSE
HistoryNext ==
  /\ Next
  /\ IF RestartOperator \/ muxEps' = NoEndpoints THEN steady' = {} ELSE Observe
  /\ ObserveRaces /\ ObserveCalm
HistorySpec == HistoryInit /\ [][HistoryNext]_<<vars, history>>

(* What keeps a steady entry in the mux: its channel is indexed, whatever   *)
(* the cache holds or is about to hold of it has the entry, and so has the *)
(* pass once it is past the channel.                                       *)
Secured(e) ==
  /\ e.owner \in accepted /\ svc[e.owner] = "live" /\ e.owner \in index \ gone
  /\ e \in CollectChannelEndpoints(e.owner, eps[e.owner])
  /\ e \in CollectChannelEndpoints(e.owner, cache[e.owner])
  /\ event[e.owner] # NoEndpoints => e \in CollectChannelEndpoints(e.owner, event[e.owner])
  /\ muxEps # NoEndpoints /\ e \in muxEps.entries
  /\ pc # "idle" => e.owner \in todo \/ e \in gathered

SteadyIsSecured == \A e \in steady : Secured(e)

(* Only the two races lose what the watch reports: otherwise the Endpoints *)
(* last reported of a live channel are in the cache, or on their way to    *)
(* the handler, which will find the channel indexed.  Neither restarts,    *)
(* late events nor deleting and creating a channel again lose any.         *)
OnlyRacesLoseReports ==
  \A c \in Channels \ raced : svc[c] = "live" /\ seen[c] # NoEndpoints =>
    /\ c \in index \ gone
    /\ IF event[c] = NoEndpoints THEN cache[c] = seen[c] ELSE event[c] = seen[c]

(* A pass takes no address away that one has published since the operator  *)
(* started, if its channel has been there, accepted and with that address  *)
(* without a break, and nobody else has removed it: neither a late event,  *)
(* the deletion of another channel, edits of the mux Endpoints nor a pass  *)
(* that was cut short make it do so.                                       *)
ServedPodsStayServed ==
  [][PublishEndpoints =>
       \A e \in steady : e \in Wanted' => muxEps' # NoEndpoints /\ e \in muxEps'.entries]_muxEps

(* A pass in which nothing happens leaves the mux right: with the ready    *)
(* and the other addresses of just the accepted channels, whatever the     *)
(* cache, the mux Endpoints and earlier passes went through before.  The   *)
(* cache does not occur here: that the watches are done is enough.         *)
CalmPassesAreRight ==
  [][PublishEndpoints /\ calm =>
       /\ muxEps' # NoEndpoints /\ muxEps'.channels = index
       /\ ReadyAddrs(muxEps'.entries) = ReadyAddrs(Wanted)
       /\ NotReadyAddrs(muxEps'.entries) = NotReadyAddrs(Wanted)]_vars

=============================================================================
