-------------------------- MODULE MCThreadSafeQueue --------------------------
(* Two producers and two consumers on one queue: the smallest instance with  *)
(* a choice of whom notify_one wakes and with threads that steal from it.    *)
EXTENDS ThreadSafeQueue

CONSTANTS p1, p2, c1, c2

MCProducers == {p1, p2}
MCConsumers == {c1, c2}
=============================================================================
