------------------------- MODULE MuxLifecycle_proofs -------------------------
(***************************************************************************)
(* Theorems of MuxLifecycle: types, the queue of a daemon, and the debug   *)
(* state, for every number of muxes and channels and any number of edits   *)
(* and faults.                                                             *)
(***************************************************************************)
EXTENDS MuxLifecycle, TLAPS

(* A mux that is gone has no daemon: its finalizer waits for it.           *)
GoneIsStopped == \A m \in Muxes : svc[m] = "none" => pc[m] = "none"

(* Whoever holds the lock has entered its mux.                             *)
HolderIsShown == lock # NoMux => lock \in shownMuxes

LifecycleInv ==
  TypeOK /\ GoneIsStopped /\ DaemonReadsTheQueue /\ HolderIsShown /\ ShownChannelsHaveTheirMux

-----------------------------------------------------------------------------
(* Steps that leave the debug state and the lock alone.                    *)

LEMMA ShownUnchanged ==
  ASSUME LifecycleInv, UNCHANGED <<lock, shown>>
  PROVE  (HolderIsShown /\ ShownChannelsHaveTheirMux)'
BY DEF LifecycleInv, HolderIsShown, ShownChannelsHaveTheirMux, shown

LEMMA InitInv == Init => LifecycleInv
<1> SUFFICES ASSUME Init PROVE LifecycleInv
  OBVIOUS
<1> USE LifecycleAssumption
<1>1. TypeOK
  BY DEF Init, TypeOK, Attachments, Keys
<1>2. GoneIsStopped /\ DaemonReadsTheQueue /\ HolderIsShown /\ ShownChannelsHaveTheirMux
  BY DEF Init, GoneIsStopped, DaemonReadsTheQueue, HolderIsShown, ShownChannelsHaveTheirMux
<1> QED
  BY <1>1, <1>2 DEF LifecycleInv

(* Users, the cluster and the handlers of channels: no daemon moves.       *)
LEMMA EditInv ==
  ASSUME LifecycleInv,
         \/ \E m \in Muxes : CreateMux(m) \/ DeleteMux(m)
         \/ \E c \in Channels : \/ PutChannel(c) \/ ChannelDeletion(c) \/ ChannelHandlers(c)
                                \/ EndpointsController(c)
  PROVE  LifecycleInv'
<1> USE LifecycleAssumption DEF LifecycleInv
<1> USE DEF Edit, Operator, memo, update, shown, cluster
<1>1. ASSUME NEW m \in Muxes, CreateMux(m) \/ DeleteMux(m) PROVE LifecycleInv'
  <2>1. TypeOK'
    BY <1>1 DEF CreateMux, DeleteMux, TypeOK
  <2>2. GoneIsStopped' /\ DaemonReadsTheQueue'
    BY <1>1 DEF CreateMux, DeleteMux, TypeOK, GoneIsStopped, DaemonReadsTheQueue
  <2> QED
    BY <1>1, <2>1, <2>2, ShownUnchanged DEF CreateMux, DeleteMux
<1>2. ASSUME NEW c \in Channels, PutChannel(c) PROVE LifecycleInv'
  <2>1. TypeOK'
    BY <1>2 DEF PutChannel, TypeOK
  <2> QED
    BY <1>2, <2>1, ShownUnchanged DEF PutChannel, GoneIsStopped, DaemonReadsTheQueue
<1>3. ASSUME NEW c \in Channels, ChannelDeletion(c) PROVE LifecycleInv'
  <2>1. TypeOK'
    BY <1>3 DEF ChannelDeletion, TypeOK
  <2> QED
    BY <1>3, <2>1, ShownUnchanged DEF ChannelDeletion, GoneIsStopped, DaemonReadsTheQueue
<1>4. ASSUME NEW c \in Channels, ChannelHandlers(c) PROVE LifecycleInv'
  <2>1. TypeOK'
    BY <1>4 DEF ChannelHandlers, IndexChannel, HandleEndpoints, TypeOK, Keys
  <2> QED
    BY <1>4, <2>1, ShownUnchanged
       DEF ChannelHandlers, IndexChannel, HandleEndpoints, GoneIsStopped, DaemonReadsTheQueue
<1>5. ASSUME NEW c \in Channels, EndpointsController(c) PROVE LifecycleInv'
  <2>1. TypeOK'
    BY <1>5 DEF EndpointsController, CreateEndpoints, RemoveEndpoints, TypeOK, Keys
  <2> QED
    BY <1>5, <2>1, ShownUnchanged
       DEF EndpointsController, CreateEndpoints, RemoveEndpoints, GoneIsStopped, DaemonReadsTheQueue
<1> QED
  BY <1>1, <1>2, <1>3, <1>4, <1>5

(* The handlers of muxes: a queue is made only where there is none, and    *)
(* taken away only from a mux that is being deleted.                       *)
LEMMA HandlerInv ==
  ASSUME LifecycleInv, NEW m \in Muxes, MuxHandlers(m) \/ MuxEndpoints(m)
  PROVE  LifecycleInv'
<1> USE LifecycleAssumption DEF LifecycleInv
<1> USE DEF memo, update, shown, cluster
<1>1. CASE IndexMux(m)
  <2>1. TypeOK'
    BY <1>1 DEF IndexMux, TypeOK
  <2>2. DaemonReadsTheQueue'
    BY <1>1 DEF IndexMux, TypeOK, DaemonReadsTheQueue
  <2> QED
    BY <1>1, <2>1, <2>2, ShownUnchanged DEF IndexMux, GoneIsStopped
<1>2. CASE StopDaemon(m)
  <2>1. TypeOK'
    BY <1>2 DEF StopDaemon, TypeOK
  <2> QED
    BY <1>2, <2>1, ShownUnchanged DEF StopDaemon, GoneIsStopped, DaemonReadsTheQueue
<1>3. CASE MuxDeletion(m)
  <2>1. TypeOK'
    BY <1>3 DEF MuxDeletion, TypeOK
  <2>2. DaemonReadsTheQueue'
    BY <1>3 DEF MuxDeletion, TypeOK, DaemonReadsTheQueue
  <2> QED
    BY <1>3, <2>1, <2>2, ShownUnchanged DEF MuxDeletion, GoneIsStopped
<1>4. CASE ReleaseMux(m)
  <2>1. TypeOK'
    BY <1>4 DEF ReleaseMux, TypeOK
  <2>2. GoneIsStopped' /\ DaemonReadsTheQueue'
    BY <1>4 DEF ReleaseMux, TypeOK, GoneIsStopped, DaemonReadsTheQueue
  <2> QED
    BY <1>4, <2>1, <2>2, ShownUnchanged DEF ReleaseMux
<1>5. CASE MuxEndpoints(m)
  <2>1. TypeOK'
    BY <1>5 DEF MuxEndpoints, TypeOK, Keys
  <2> QED
    BY <1>5, <2>1, ShownUnchanged DEF MuxEndpoints, GoneIsStopped, DaemonReadsTheQueue
<1> QED
  BY <1>1, <1>2, <1>3, <1>4, <1>5 DEF MuxHandlers

(* delete_mux_state takes the mux and its channels away at once, while     *)
(* nobody holds the lock.                                                  *)
LEMMA DeleteStateInv ==
  ASSUME LifecycleInv, NEW m \in Muxes, DeleteMuxState(m)
  PROVE  LifecycleInv'
<1> USE LifecycleAssumption DEF LifecycleInv
<1> DEFINE gone == {c \in Channels : shownChannels[c] = m}
<1>1. /\ shownChannels' = [c \in Channels |-> IF c \in gone THEN NoMux ELSE shownChannels[c]]
      /\ shownMuxes' = shownMuxes \ {m}
      /\ shownEps' = shownEps \ (gone \cup {m})
  BY DEF DeleteMuxState
<1>2. TypeOK'
  BY <1>1 DEF DeleteMuxState, TypeOK, cluster, update
<1>3. GoneIsStopped' /\ DaemonReadsTheQueue' /\ HolderIsShown'
  BY DEF DeleteMuxState, GoneIsStopped, DaemonReadsTheQueue, HolderIsShown, cluster, update
<1>4. ShownChannelsHaveTheirMux'
  BY <1>1 DEF ShownChannelsHaveTheirMux
<1> QED
  BY <1>2, <1>3, <1>4

(* A daemon that ends: its queue is no longer its own, and kopf may start  *)
(* another.                                                                *)
LEMMA DiesInv ==
  ASSUME LifecycleInv, NEW m \in Muxes, DaemonDies(m), UNCHANGED <<cluster, shownMuxes, shownChannels>>,
         UNCHANGED <<index, cache, deletion>>, events' \in 0..MaxEvents, shownEps' \subseteq Keys,
         \/ Release
         \/ pc[m] = "pass" /\ UNCHANGED update
  PROVE  LifecycleInv'
<1> USE LifecycleAssumption DEF LifecycleInv
<1>1. TypeOK'
  BY DEF DaemonDies, Goto, Release, TypeOK, cluster, update
<1>2. GoneIsStopped' /\ DaemonReadsTheQueue'
  BY DEF DaemonDies, Goto, TypeOK, cluster, GoneIsStopped, DaemonReadsTheQueue
<1>3. HolderIsShown' /\ ShownChannelsHaveTheirMux'
  BY DEF Release, update, HolderIsShown, ShownChannelsHaveTheirMux
<1> QED
  BY <1>1, <1>2, <1>3

(* The daemon, apart from the debug state.                                 *)
LEMMA LoopInv ==
  ASSUME LifecycleInv, NEW m \in Muxes,
         StartDaemon(m) \/ Loop(m) \/ ExitDaemon(m) \/ FinishPass(m)
  PROVE  LifecycleInv'
<1> USE LifecycleAssumption DEF LifecycleInv
<1> USE DEF memo, update, shown, cluster, Goto
<1>1. CASE StartDaemon(m)
  <2>1. TypeOK'
    BY <1>1 DEF StartDaemon, TypeOK
  <2>2. GoneIsStopped' /\ DaemonReadsTheQueue'
    BY <1>1 DEF StartDaemon, TypeOK, GoneIsStopped, DaemonReadsTheQueue
  <2> QED
    BY <1>1, <2>1, <2>2, ShownUnchanged DEF StartDaemon
<1>2. CASE Loop(m)
  <2>1. TypeOK'
    BY <1>2 DEF Loop, TypeOK
  <2>2. GoneIsStopped' /\ DaemonReadsTheQueue'
    BY <1>2 DEF Loop, TypeOK, GoneIsStopped, DaemonReadsTheQueue
  <2> QED
    BY <1>2, <2>1, <2>2, ShownUnchanged DEF Loop
<1>3. CASE ExitDaemon(m)
  <2>1. TypeOK'
    BY <1>3 DEF ExitDaemon, TypeOK
  <2>2. GoneIsStopped' /\ DaemonReadsTheQueue'
    BY <1>3 DEF ExitDaemon, TypeOK, GoneIsStopped, DaemonReadsTheQueue
  <2> QED
    BY <1>3, <2>1, <2>2, ShownUnchanged DEF ExitDaemon
<1>4. CASE FinishPass(m)
  <2>1. news' \subseteq Keys /\ news' \cap Channels \subseteq chanEps
    BY <1>4 DEF FinishPass, TypeOK, Keys
  <2>2. TypeOK'
    BY <1>4, <2>1 DEF FinishPass, TypeOK
  <2>3. GoneIsStopped' /\ DaemonReadsTheQueue'
    BY <1>4 DEF FinishPass, TypeOK, GoneIsStopped, DaemonReadsTheQueue
  <2> QED
    BY <1>4, <2>2, <2>3, ShownUnchanged DEF FinishPass
<1> QED
  BY <1>1, <1>2, <1>3, <1>4

(* update_mux_state enters the mux before its channels, under the lock.    *)
LEMMA UpdateInv ==
  ASSUME LifecycleInv, NEW m \in Muxes,
         \/ BeginUpdate(m) \/ EndUpdate(m)
         \/ \E k \in Keys : SkipEndpoints(m, k) \/ FindEndpoints(m, k) \/ ReadEndpoints(m, k)
  PROVE  LifecycleInv'
<1> USE LifecycleAssumption DEF LifecycleInv
<1> USE DEF memo, cluster
<1>1. CASE BeginUpdate(m)
  <2>1. TypeOK'
    BY <1>1 DEF BeginUpdate, Attached, TypeOK, Keys
  <2>2. HolderIsShown' /\ ShownChannelsHaveTheirMux'
    BY <1>1 DEF BeginUpdate, HolderIsShown, ShownChannelsHaveTheirMux
  <2> QED
    BY <1>1, <2>1, <2>2 DEF BeginUpdate, GoneIsStopped, DaemonReadsTheQueue
<1>2. CASE EndUpdate(m)
  <2> DEFINE gone == {c \in Channels \ current : shownChannels[c] = m}
  <2>1. /\ shownChannels' = [c \in Channels |-> IF c \in gone THEN NoMux ELSE shownChannels[c]]
        /\ shownEps' = shownEps \ gone
    BY <1>2 DEF EndUpdate
  <2>2. TypeOK'
    BY <1>2, <2>1 DEF EndUpdate, Release, Goto, TypeOK
  <2>3. GoneIsStopped' /\ DaemonReadsTheQueue'
    BY <1>2 DEF EndUpdate, Goto, TypeOK, GoneIsStopped, DaemonReadsTheQueue
  <2>4. HolderIsShown' /\ ShownChannelsHaveTheirMux'
    BY <1>2, <2>1 DEF EndUpdate, Release, HolderIsShown, ShownChannelsHaveTheirMux
  <2> QED
    BY <2>2, <2>3, <2>4
<1>3. ASSUME NEW k \in Keys, SkipEndpoints(m, k) \/ ReadEndpoints(m, k) PROVE LifecycleInv'
  <2>1. /\ Show(m, k) /\ lock = m
        /\ shownEps' \subseteq shownEps \cup {k}
        /\ UNCHANGED <<cluster, memo, stopped, pc, shownMuxes, events>>
    BY <1>3 DEF SkipEndpoints, ReadEndpoints
  <2>2. /\ lock' = lock /\ current' = current /\ todo' \subseteq todo /\ reading' = NoKey
        /\ shownChannels' \in [Channels -> Muxes \cup {NoMux}]
        /\ \A c \in Channels : shownChannels'[c] \in {shownChannels[c], m}
    BY <2>1 DEF Show, TypeOK
  <2>3. TypeOK'
    BY <2>1, <2>2 DEF TypeOK
  <2>4. HolderIsShown' /\ ShownChannelsHaveTheirMux'
    BY <2>1, <2>2 DEF HolderIsShown, ShownChannelsHaveTheirMux
  <2> QED
    BY <2>1, <2>3, <2>4 DEF GoneIsStopped, DaemonReadsTheQueue
<1>4. ASSUME NEW k \in Keys, FindEndpoints(m, k) PROVE LifecycleInv'
  <2>1. TypeOK'
    BY <1>4 DEF FindEndpoints, TypeOK, shown
  <2> QED
    BY <1>4, <2>1, ShownUnchanged DEF FindEndpoints, GoneIsStopped, DaemonReadsTheQueue
<1> QED
  BY <1>1, <1>2, <1>3, <1>4

(* Passes that raise, and restarts.                                        *)
LEMMA FailureInv ==
  ASSUME LifecycleInv,
         \/ RestartOperator
         \/ \E m \in Muxes : \/ CreationRefused(m) \/ AbortPass(m)
                             \/ \E k \in Keys : UpdateRaises(m, k)
  PROVE  LifecycleInv'
<1>1. TypeOK
  BY DEF LifecycleInv
<1>2. ASSUME NEW m \in Muxes, CreationRefused(m) PROVE LifecycleInv'
  BY <1>1, <1>2, DiesInv DEF CreationRefused, shown, TypeOK
<1>3. ASSUME NEW m \in Muxes, AbortPass(m) PROVE LifecycleInv'
  <2>1. events' \in 0..MaxEvents
    BY <1>1, <1>3, LifecycleAssumption DEF AbortPass, Fault, TypeOK
  <2> QED
    BY <1>1, <1>3, <2>1, DiesInv DEF AbortPass, shown, TypeOK
<1>4. ASSUME NEW m \in Muxes, NEW k \in Keys, UpdateRaises(m, k) PROVE LifecycleInv'
  <2>1. shownEps' \subseteq Keys
    BY <1>1, <1>4 DEF UpdateRaises, TypeOK
  <2> QED
    BY <1>1, <1>4, <2>1, DiesInv DEF UpdateRaises, TypeOK
<1>5. CASE RestartOperator
  <2> USE LifecycleAssumption
  <2>1. TypeOK'
    BY <1>1, <1>5 DEF RestartOperator, Fault, Release, TypeOK, Keys
  <2>2. GoneIsStopped' /\ DaemonReadsTheQueue'
    BY <1>5 DEF RestartOperator, GoneIsStopped, DaemonReadsTheQueue
  <2>3. HolderIsShown' /\ ShownChannelsHaveTheirMux'
    BY <1>5 DEF RestartOperator, Release, HolderIsShown, ShownChannelsHaveTheirMux
  <2> QED
    BY <2>1, <2>2, <2>3 DEF LifecycleInv
<1> QED
  BY <1>2, <1>3, <1>4, <1>5

LEMMA NextInv == LifecycleInv /\ [Next]_vars => LifecycleInv'
<1> SUFFICES ASSUME LifecycleInv, [Next]_vars PROVE LifecycleInv'
  OBVIOUS
<1>1. CASE Next
  BY <1>1, EditInv, HandlerInv, DeleteStateInv, LoopInv, UpdateInv, FailureInv DEF Next, Daemon
<1>2. CASE UNCHANGED vars
  BY <1>2 DEF vars, cluster, memo, update, shown, LifecycleInv, TypeOK, GoneIsStopped,
              DaemonReadsTheQueue, HolderIsShown, ShownChannelsHaveTheirMux
<1> QED
  BY <1>1, <1>2

LEMMA LifecycleInvariant == Spec => []LifecycleInv
  BY InitInv, NextInv, PTL DEF Spec

-----------------------------------------------------------------------------
(* Every variable keeps its type, and the lock of the debug state is held  *)
(* only by a daemon that is in update_mux_state: an exception there, or a  *)
(* restart, never leaves it locked.                                        *)
THEOREM LifecycleTyped == Spec => []TypeOK
<1>1. LifecycleInv => TypeOK
  BY DEF LifecycleInv
<1> QED
  BY LifecycleInvariant, <1>1, PTL

(* The registered queue of a live mux is that of its daemon, whatever the  *)
(* index function, mux_deletion, failures and restarts did in between.     *)
THEOREM QueuesAreRead == Spec => []DaemonReadsTheQueue
<1>1. LifecycleInv => DaemonReadsTheQueue
  BY DEF LifecycleInv
<1> QED
  BY LifecycleInvariant, <1>1, PTL

(* The debug state has the mux of every channel it shows, while passes and *)
(* deletions of several muxes take turns with the lock.                    *)
THEOREM ShownStateIsConsistent == Spec => []ShownChannelsHaveTheirMux
<1>1. LifecycleInv => ShownChannelsHaveTheirMux
  BY DEF LifecycleInv
<1> QED
  BY LifecycleInvariant, <1>1, PTL
=============================================================================
