----------------------------- MODULE MCEndpoints -----------------------------
(* Instances of EndpointSync for TLC: what Endpoints may hold.               *)
EXTENDS EndpointSync, TLC

Ready(n, a) == [name |-> n, addr |-> a, ready |-> TRUE]
NotReady(n, a) == [name |-> n, addr |-> a, ready |-> FALSE]

(* Channels 1 and 2 have a pod each, which may come, go, and be ready.       *)
OwnPods ==
  1 :> {{}, {Ready("api", "a")}, {NotReady("api", "a")}}
    @@ 2 :> {{}, {Ready("api", "b")}}

(* Channel 1 as above, the pod of channel 2 does not change.                 *)
OnePodChanges == [OwnPods EXCEPT ![2] = {{Ready("api", "b")}}]

(* The pod of channel 1 comes and goes before it is ready.                   *)
UnreadyPodChanges == [OnePodChanges EXCEPT ![1] = {{}, {NotReady("api", "a")}}]

OnePod == 1 :> {{Ready("api", "a")}}

-----------------------------------------------------------------------------
(* What the documentation says and the code does not do.                     *)

(* docs/controller.md:103: "The loop runs when a queued channel event        *)
(* arrives or after DAEMON_QUEUE_TIMEOUT seconds so periodic drift is        *)
(* corrected."  So do mux Endpoints that somebody deleted come back.         *)
DriftIsCorrected == <>[](muxEps # NoEndpoints /\ muxEps.entries = Wanted)

(* docs/controller.md:308: "Channel Endpoints create, update, and resume     *)
(* events update the in-memory endpoint cache and trigger mux                *)
(* reconciliation."  So the cache ends up with the Endpoints of every        *)
(* channel.                                                                  *)
EventsUpdateTheCache ==
  <>[](\A c \in Channels : svc[c] = "live" => cache[c] = eps[c])
==============================================================================
