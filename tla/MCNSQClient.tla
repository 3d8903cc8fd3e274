---------------------------- MODULE MCNSQClient -----------------------------
(* The scenes for TLC: two nsqds, and one nsqd with more commands or more  *)
(* faults.  c2 is an MPUB of two messages.                                 *)
EXTENDS NSQClient

MCSize(c) == IF c = "c2" THEN 2 ELSE 1

Scene(t, js, au, as, cs, m, n) ==
  [type |-> t, json |-> js, auth |-> au, addrs |-> as, commands |-> cs, mark |-> m, faults |-> n]

MCScenes ==
  {Scene("kProducer", TRUE, FALSE, {"a", "b"}, {"c1"}, 1, 1),
   Scene("kProducer", FALSE, FALSE, {"a"}, {"c1", "c2"}, 1, 1),
   Scene("kProducer", TRUE, TRUE, {"a"}, {"c1", "c2"}, 2, 1),
   Scene("kConsumer", FALSE, FALSE, {"a", "b"}, {}, 1, 1),
   Scene("kConsumer", TRUE, TRUE, {"a"}, {}, 1, 2)}
=============================================================================
