-------------------------------- MODULE Archive --------------------------------
(***************************************************************************)
(* What the scheduler promises of the pages it hands to its batcher: they   *)
(* leave in the order in which they came, in batches, each once.  A page is *)
(* lost only by a mishap: an insert that fails, or a crash.                 *)
(***************************************************************************)
EXTENDS Integers, Sequences

CONSTANTS
  Docs,      \* pages, as bodies of result messages
  BatchSize  \* no batch is larger

VARIABLES
  pending, \* the pages handed over and not yet written, oldest first
  stored,  \* the documents of the collection, oldest first
  mishap   \* an insert has failed, or the scheduler has crashed

archiveVars == <<pending, stored, mishap>>

Init ==
  /\ pending = <<>>
  /\ stored = <<>>
  /\ mishap = FALSE

(* The n oldest pages leave, and the first k of them are stored. *)
Leave(n, k) ==
  /\ pending' = SubSeq(pending, n + 1, Len(pending))
  /\ stored' = stored \o SubSeq(pending, 1, k)

Accept ==
  /\ \E d \in Docs : pending' = Append(pending, d)
  /\ UNCHANGED <<stored, mishap>>

Commit ==
  \E n \in 1..BatchSize :
    /\ n <= Len(pending)
    /\ Leave(n, n)
    /\ UNCHANGED mishap

(* An insert writes only the first documents of its batch, and drops it. *)
Fail ==
  \E n \in 1..BatchSize : \E k \in 0..n :
    /\ n <= Len(pending)
    /\ Leave(n, k)
    /\ mishap' = TRUE

(* A crash loses what is pending; an insert under way may have an effect. *)
Crash ==
  \E k \in 0..BatchSize :
    /\ k <= Len(pending)
    /\ Leave(Len(pending), k)
    /\ mishap' = TRUE

Next == Accept \/ Commit \/ Fail \/ Crash

Spec == Init /\ [][Next]_archiveVars
===============================================================================
