------------------------------ MODULE MCRecovery ------------------------------
(* The scheduler with one result consumer, a worker with a team of two. *)
EXTENDS Recovery, TLC

CONSTANTS scheduler, worker, c1, w1, w2, manager

Processor == c1 :> scheduler @@ w1 :> worker @@ w2 :> worker
Consumed  == c1 :> "result_queue" @@ w1 :> "queue_1" @@ w2 :> "queue_1"
Goroutines == manager :> {w1, w2}
===============================================================================
