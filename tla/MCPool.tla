------------------------------- MODULE MCPool -------------------------------
(* Instances of HandlerPool for TLC.                                        *)
EXTENDS HandlerPool

(* Channels of every mux, one whose port has no name, one of no mux.        *)
SomeBodies ==
  [mux: Muxes, named: {TRUE}] \cup {[mux |-> NoMux, named |-> TRUE]}
    \cup {[mux |-> CHOOSE m \in Muxes : TRUE, named |-> FALSE]}
=============================================================================
