----------------------------- MODULE MCAdvanced -----------------------------
(***************************************************************************)
(* Advanced on a small instance: Main sends to two sources, the sources    *)
(* send to one sink, as in the benchmark advanced_queue_test.  The calls   *)
(* of one source may overtake those of the other.                          *)
(***************************************************************************)
EXTENDS Advanced

CONSTANTS a, b, sink

Flow == [o \in Objects \cup {NoObject} |->
           CASE o = NoObject -> {<<a, 0>>, <<a, 1>>, <<b, 0>>}
             [] o = a -> {<<sink, 0>>}
             [] o = b -> {<<sink, 0>>, <<sink, 1>>}
             [] OTHER -> {}]
=============================================================================
