----------------------------- MODULE MCReconcile -----------------------------
(* Instances of MuxReconcile for TLC: the specs and mux annotations users    *)
(* choose from.                                                              *)
EXTENDS MuxReconcile, TLC

Static(p) == [want |-> p, proto |-> "TCP"]
AutoDecl == [want |-> AutoPort, proto |-> "TCP"]
OnePort(d) == [ports |-> (1 :> d), valid |-> TRUE]
TwoPorts(d, e) == [ports |-> (1 :> d @@ 2 :> e), valid |-> TRUE]
Invalid(s) == [s EXCEPT !.valid = FALSE]

Unlimited(range) == [range |-> range, maxPorts |-> NoLimit]
Limited(range, n) == [range |-> range, maxPorts |-> n]
Everyone(S) == [c \in Channels |-> S]

(* Two channels of one port each, contending for two ports.                 *)
ContendingSpecs == Everyone({OnePort(Static(1)), OnePort(Static(2)), OnePort(AutoDecl)})
RangeOneTwo == {Unlimited(<<1, 2>>)}
NoLegacy == {}

(* One automatic port claimed by an old release.                            *)
LegacyAuto == {[NoClaims EXCEPT ![<<1, 1, "TCP">>] = 2]}

(* The same number for two protocols, one slot twice, static beside auto,   *)
(* and a spec the code refuses.                                             *)
Udp(d) == [d EXCEPT !.proto = "UDP"]
TwoPortSpecs ==
  Everyone({TwoPorts(Static(1), Udp(Static(1))), TwoPorts(Static(1), Static(1)),
            TwoPorts(AutoDecl, Static(1)), TwoPorts(Udp(AutoDecl), Udp(AutoDecl)),
            Invalid(TwoPorts(Static(2), Static(3)))})

(* Channels whose spec never changes: two want port 1, one is automatic.    *)
FixedSpecs ==
  1 :> {OnePort(Static(1))} @@ 2 :> {OnePort(AutoDecl)} @@ 3 :> {OnePort(Static(1))}

AllocationSpecs ==
  Everyone({OnePort(AutoDecl), OnePort(Static(1)), TwoPorts(AutoDecl, AutoDecl)})
MixedSpecs == Everyone(AllocationSpecs[1] \cup TwoPortSpecs[1])
ChangingSettings ==
  {Unlimited(<<1, 2>>), Unlimited(<<3, 2, 1>>), Limited(<<1, 2, 3>>, 2)}
==============================================================================
