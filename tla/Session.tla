------------------------------- MODULE Session --------------------------------
(***************************************************************************)
(* What the connection monitor promises to those who consume: a goroutine   *)
(* consumes on the current connection of its process or on none, and nobody *)
(* stays behind on a connection that was lost or replaced.                  *)
(***************************************************************************)
EXTENDS Naturals

CONSTANTS
  Members,     \* the processes
  Goroutines,  \* all their consumers
  Home         \* Home[g]: the process of g

VARIABLES
  up,        \* up[p]: the number of the connection of p, or 0
  consuming  \* consuming[g]: the connection whose deliveries reach g, or 0

vars == <<up, consuming>>

(* Nobody of p consumes. *)
Silenced(p) == [g \in Goroutines |-> IF Home[g] = p THEN 0 ELSE consuming[g]]

Init ==
  /\ up \in [Members -> Nat]
  /\ consuming = [g \in Goroutines |-> 0]
-------------------------------------------------------------------------------
(* p has a new connection, or none any more: nobody consumes on it yet. *)
Renew(p) ==
  /\ up'[p] \in Nat
  /\ up' = [up EXCEPT ![p] = up'[p]]
  /\ consuming' = Silenced(p)

(* The broker is gone. *)
LoseAll ==
  /\ up' = [p \in Members |-> 0]
  /\ consuming' = [g \in Goroutines |-> 0]

Consume(g) ==
  /\ up[Home[g]] # 0
  /\ consuming' = [consuming EXCEPT ![g] = up[Home[g]]]
  /\ UNCHANGED up

(* g fails while its process stays connected. *)
End(g) ==
  /\ consuming' = [consuming EXCEPT ![g] = 0]
  /\ UNCHANGED up

Next ==
  \/ \E p \in Members : Renew(p)
  \/ LoseAll
  \/ \E g \in Goroutines : Consume(g) \/ End(g)

Spec == Init /\ [][Next]_vars
===============================================================================
