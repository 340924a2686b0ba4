--------------------------- MODULE MCCoordinator ----------------------------
(* Instances of Coordinator for TLC. *)
EXTENDS Coordinator, TLC

CONSTANTS c1, c2, c3

TwoClients == {c1, c2}
ThreeClients == {c1, c2, c3}
OneStalls == {c1}
NoneStall == {}

\* One client writes, one reads, one connects only.
WriterReader ==
  (c1 :> {"publish"}) @@ (c2 :> {"describe"}) @@ (c3 :> {})
Lookups == [c \in TwoClients |-> {"describe"}]
Framing ==
  (c1 :> {"unknown", "garbled"}) @@ (c2 :> {"register", "garbled"})
=============================================================================
