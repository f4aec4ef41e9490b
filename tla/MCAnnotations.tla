--------------------------- MODULE MCAnnotations ---------------------------
(* Instances of MuxAnnotations for TLC.                                     *)
EXTENDS MuxAnnotations

Body(hosts, proxied) == [hosts |-> hosts, proxied |-> proxied]

(* No hostname, one, two of which one is common; each answer on the proxy.  *)
SomeBodies ==
  {Body({}, "other"), Body({"a"}, "true"), Body({"a", "b"}, "false")}

(* All channels exist when the operator starts, the first with one hostname  *)
(* and a wish for the proxy, and the other key is set.                       *)
MCInit ==
  /\ Init
  /\ anno["setting"] = UserValue
  /\ chan[1] = Body({"a"}, "true") /\ \A c \in Channels : chan[c] # NoBody
MCSpec == MCInit /\ [][Next]_vars /\ Fairness
=============================================================================
