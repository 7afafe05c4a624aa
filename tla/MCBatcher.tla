------------------------------- MODULE MCBatcher -------------------------------
(* Two results of one page and three other pages, for batches of two. *)
EXTENDS Batcher, TLC

CONSTANTS p1, p2, p3, c1, c2

Deliveries == <<p1, p2, p1, p3, p2>>
===============================================================================
