------------------------------ MODULE Connections ------------------------------
(***************************************************************************)
(* The RabbitMQ connection of each process: ConnectAll at its start, and    *)
(* the connection monitor, which dials again, swaps the connection and runs *)
(* the post-reconnect hook.  Only the scheduler has one, SetupBroker.       *)
(*                                                                          *)
(* The n-th connection that a process dials has the number n.               *)
(***************************************************************************)
EXTENDS Integers

CONSTANTS
  Processes,  \* the scheduler and the workers
  Scheduler,
  Queues,     \* the task queues and result_queue
  MaxFaults   \* how many faults may occur

ASSUME ConnectionsAssumption ==
  /\ Scheduler \in Processes
  /\ MaxFaults \in Nat

VARIABLES
  brokerUp,
  declared,   \* the queues that exist in the broker
  mpc,        \* mpc[p]: what the main goroutine, then the monitor of p does
  open,       \* open[p]: the connections of p that are open
  installed,  \* installed[p]: Connections.RabbitMQ, 0 before ConnectAll
  dialled,    \* dialled[p]: the connection that p dialled last
  faults

connVars == <<brokerUp, declared, mpc, open, installed, dialled, faults>>

ConnTypeOK ==
  /\ brokerUp \in BOOLEAN
  /\ declared \subseteq Queues
  /\ mpc \in [Processes -> {"connect", "setup", "watch", "dial", "install", "hook"}]
  /\ open \in [Processes -> SUBSET Nat]
  /\ installed \in [Processes -> Nat]
  /\ dialled \in [Processes -> Nat]
  /\ faults \in 0..MaxFaults

ConnInit ==
  /\ brokerUp = TRUE
  /\ declared = {}
  /\ mpc = [p \in Processes |-> "connect"]
  /\ open = [p \in Processes |-> {}]
  /\ installed = [p \in Processes |-> 0]
  /\ dialled = [p \in Processes |-> 0]
  /\ faults = 0
-------------------------------------------------------------------------------
Fault == faults < MaxFaults /\ faults' = faults + 1

NoFault == UNCHANGED faults

Goto(p, label) == mpc' = [mpc EXCEPT ![p] = label]

(* The connection that GetRabbitMQ returns is open. *)
Connected(p) == installed[p] \in open[p]

(* main has got as far as to start the monitor and the consumers. *)
Running(p) == mpc[p] \notin {"connect", "setup"}

(* amqp.Dial *)
Dial(p) ==
  /\ brokerUp
  /\ dialled' = [dialled EXCEPT ![p] = @ + 1]

(* ConnectAll, in main. *)
Connect(p) ==
  /\ mpc[p] = "connect"
  /\ Dial(p)
  /\ open' = [open EXCEPT ![p] = @ \cup {dialled'[p]}]
  /\ installed' = [installed EXCEPT ![p] = dialled'[p]]
  /\ Goto(p, IF p = Scheduler THEN "setup" ELSE "watch")
  /\ NoFault
  /\ UNCHANGED <<brokerUp, declared>>

(* SetupBroker has declared all queues. *)
QueuesDeclared(p) == Connected(p) /\ NoFault /\ declared' = Queues

(* SetupBroker has failed on its way. *)
SetupFails(p) ==
  /\ (~Connected(p) /\ NoFault) \/ Fault
  /\ declared' \in {D \in SUBSET Queues : declared \subseteq D}

(* SetupBroker, in main. *)
Setup(p) ==
  /\ mpc[p] = "setup"
  /\ QueuesDeclared(p)
  /\ Goto(p, "watch")
  /\ UNCHANGED <<brokerUp, open, installed, dialled>>

(* The process ends, and its container starts it anew. *)
Exit(p) ==
  /\ Goto(p, "connect")
  /\ open' = [open EXCEPT ![p] = {}]
  /\ UNCHANGED <<brokerUp, installed, dialled>>

SetupExits(p) == mpc[p] = "setup" /\ SetupFails(p) /\ Exit(p)

(* NotifyClose reports that the connection is closed, or was so before. *)
Watch(p) ==
  /\ mpc[p] = "watch"
  /\ ~Connected(p)
  /\ Goto(p, "dial")
  /\ UNCHANGED <<brokerUp, declared, open, installed, dialled, faults>>

(* Mutant: a connection that gives no channel is left open. *)
AbandonDialled(p) == open' = [open EXCEPT ![p] = @ \cup {dialled'[p]}]

(* A connection that gives no channel is closed. *)
CloseDialled(p) == UNCHANGED open

(* ReconnectRabbitMQ: dial, and open a channel. *)
Redial(p) ==
  /\ mpc[p] = "dial"
  /\ Dial(p)
  /\ \/ /\ NoFault
        /\ open' = [open EXCEPT ![p] = @ \cup {dialled'[p]}]
        /\ Goto(p, "install")
     \/ /\ Fault
        /\ CloseDialled(p)
        /\ UNCHANGED mpc
  /\ UNCHANGED <<brokerUp, declared, installed>>

(* Mutant: the old connection is not closed. *)
CloseNothing(p) == UNCHANGED open

(* The old connection is closed, whoever uses it. *)
CloseInstalled(p) == open' = [open EXCEPT ![p] = @ \ {installed[p]}]

(* ReconnectRabbitMQ: the swap, under the mutex. *)
Install(p) ==
  /\ mpc[p] = "install"
  /\ CloseInstalled(p)
  /\ installed' = [installed EXCEPT ![p] = dialled[p]]
  /\ Goto(p, IF p = Scheduler THEN "hook" ELSE "watch")
  /\ UNCHANGED <<brokerUp, declared, dialled, faults>>

(* Mutant: the monitor goes on although the hook has failed. *)
WatchAnyway(p) == Goto(p, "watch")

(* Without its queues the connection is dialled again. *)
HookRetries(p) == Goto(p, "dial")

(* The post-reconnect hook, SetupBroker on the new channel. *)
Hook(p) ==
  /\ mpc[p] = "hook"
  /\ \/ QueuesDeclared(p) /\ Goto(p, "watch")
     \/ SetupFails(p) /\ HookRetries(p)
  /\ UNCHANGED <<brokerUp, open, installed, dialled>>

MonitorStep(p) ==
  Connect(p) \/ Setup(p) \/ SetupExits(p) \/ Watch(p) \/ Redial(p) \/ Install(p) \/ Hook(p)
-------------------------------------------------------------------------------
(* The broker goes down, and possibly comes back without its data. *)
BrokerFails ==
  /\ brokerUp
  /\ Fault
  /\ brokerUp' = FALSE
  /\ declared' \in {declared, {}}
  /\ open' = [p \in Processes |-> {}]
  /\ UNCHANGED <<mpc, installed, dialled>>

BrokerRestarts ==
  /\ ~brokerUp
  /\ brokerUp' = TRUE
  /\ UNCHANGED <<declared, mpc, open, installed, dialled, faults>>

(* The network loses one connection. *)
ConnDrops(p) ==
  /\ Fault
  /\ \E n \in open[p] : open' = [open EXCEPT ![p] = @ \ {n}]
  /\ UNCHANGED <<brokerUp, declared, mpc, installed, dialled>>

Environment == BrokerFails \/ BrokerRestarts \/ \E p \in Processes : ConnDrops(p)
===============================================================================
