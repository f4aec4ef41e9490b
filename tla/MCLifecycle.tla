---------------------------- MODULE MCLifecycle ----------------------------
(* Instances of MuxLifecycle for TLC.                                       *)
EXTENDS MuxLifecycle

(* The operator starts with one mux and its channels.                        *)
FirstMux == CHOOSE m \in Muxes : TRUE
MCInit ==
  /\ Init
  /\ \A m \in Muxes : svc[m] = "live" <=> m = FirstMux
  /\ \A c \in Channels : chan[c] # NoChannel /\ chan[c].mux = FirstMux
MCSpec == MCInit /\ [][Next]_vars /\ Fairness
=============================================================================
