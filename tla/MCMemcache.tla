----------------------------- MODULE MCMemcache -----------------------------
(* The scenes for TLC: a cluster of two servers with one loop, and with    *)
(* two; a cluster of three with a MultiGet; one server; the serial client. *)
EXTENDS Memcache

Scene(mode, loops, map, weights, gets, keys, n) ==
  [mode |-> mode, loops |-> loops, map |-> map, gets |-> gets, keys |-> keys,
   health |-> [v \in 0..(Len(weights) - 1) |-> weights[v + 1]], faults |-> n]

MCScenes ==
  {Scene("cluster", 1, <<<<0, 1>>>>, <<1000, 1000>>, <<0, 0>>, <<>>, 1),
   Scene("cluster", 2, <<<<0, 1>>>>, <<150, 999500>>, <<0>>, <<>>, 2),
   Scene("cluster", 1, <<<<0, 1>>, <<1, 0>>>>, <<1000, 1000>>, <<>>, <<0, 1>>, 1),
   Scene("alone", 1, <<<<0>>>>, <<1000>>, <<0, 0>>, <<0>>, 1),
   Scene("serial", 1, <<<<0>>>>, <<1000>>, <<0, 0>>, <<0>>, 1)}
=============================================================================
