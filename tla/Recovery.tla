------------------------------- MODULE Recovery -------------------------------
(***************************************************************************)
(* How the consumers come back when the broker, a connection or a process   *)
(* has failed.  A result consumer of the scheduler starts over by itself;   *)
(* the goroutines of a worker queue end, and their manager starts all five  *)
(* again when the last one has ended.                                       *)
(***************************************************************************)
EXTENDS Connections

CONSTANTS
  Consumers,  \* all consumer goroutines, of the scheduler and of the workers
  ProcOf,     \* ProcOf[g]: the process of g
  QueueOf,    \* QueueOf[g]: the queue that g consumes
  Managers,   \* the queue managers of the workers
  Team        \* Team[m]: the goroutines that manager m starts

ASSUME RecoveryAssumption ==
  /\ ProcOf \in [Consumers -> Processes]
  /\ QueueOf \in [Consumers -> Queues]
  /\ Team \in [Managers -> SUBSET Consumers]

(* StartConsumers runs in one worker, once for each queue. *)
ASSUME TeamAssumption ==
  /\ \A m \in Managers : \A g, h \in Team[m] : ProcOf[g] = ProcOf[h]
  /\ \A m, n \in Managers : m # n => Team[m] \cap Team[n] = {}

VARIABLES
  cpc,  \* cpc[g]: what consumer goroutine g does; "done" if there is none
  ref,  \* ref[g]: the connection that g has taken from GetRabbitMQ
  wait  \* wait[m]: manager m is in wgWorkers.Wait

consumerVars == <<cpc, ref, wait>>
vars == <<connVars, consumerVars>>

Managed == UNION {Team[m] : m \in Managers}

TypeOK ==
  /\ ConnTypeOK
  /\ cpc \in [Consumers -> {"get", "listen", "listening", "done"}]
  /\ ref \in [Consumers -> Nat]
  /\ wait \in [Managers -> BOOLEAN]

AtStart(g) == IF g \in Managed THEN "done" ELSE "get"

Init ==
  /\ ConnInit
  /\ cpc = [g \in Consumers |-> AtStart(g)]
  /\ ref = [g \in Consumers |-> 0]
  /\ wait = [m \in Managers |-> FALSE]
-------------------------------------------------------------------------------
(* Mutant: a result consumer returns, too. *)
NobodyRetries(g) == "done"

(* A goroutine whose attempt is over: retry, or return. *)
AfterFailure(g) == IF g \in Managed THEN "done" ELSE "get"

(***************************************************************************)
(* GetRabbitMQ and IsClosed.  A result consumer sleeps while the connection *)
(* is closed, a worker goroutine returns.                                   *)
(***************************************************************************)
Get(g) ==
  /\ cpc[g] = "get"
  /\ Running(ProcOf[g])
  /\ \/ /\ Connected(ProcOf[g])
        /\ cpc' = [cpc EXCEPT ![g] = "listen"]
        /\ ref' = [ref EXCEPT ![g] = installed[ProcOf[g]]]
     \/ /\ ~Connected(ProcOf[g])
        /\ g \in Managed
        /\ cpc' = [cpc EXCEPT ![g] = "done"]
        /\ UNCHANGED ref
  /\ UNCHANGED <<connVars, wait>>

(* The connection that g has taken is open. *)
RefOpen(g) == ref[g] \in open[ProcOf[g]]

(* Conn.Channel and Consume, on the connection that g has taken before. *)
Listen(g) ==
  /\ cpc[g] = "listen"
  /\ \/ /\ RefOpen(g) /\ QueueOf[g] \in declared /\ NoFault
        /\ cpc' = [cpc EXCEPT ![g] = "listening"]
     \/ /\ (~(RefOpen(g) /\ QueueOf[g] \in declared) /\ NoFault) \/ Fault
        /\ cpc' = [cpc EXCEPT ![g] = AfterFailure(g)]
  /\ UNCHANGED <<brokerUp, declared, mpc, open, installed, dialled, ref, wait>>

(* The connection is closed, and with it the channel of deliveries. *)
DeliveriesEnd(g) ==
  /\ cpc[g] = "listening"
  /\ ~RefOpen(g)
  /\ NoFault
  /\ cpc' = [cpc EXCEPT ![g] = AfterFailure(g)]
  /\ UNCHANGED <<brokerUp, declared, mpc, open, installed, dialled, ref, wait>>

(* The broker closes the channel of g alone. *)
ChannelCloses(g) ==
  /\ cpc[g] = "listening"
  /\ RefOpen(g)
  /\ Fault
  /\ cpc' = [cpc EXCEPT ![g] = AfterFailure(g)]
  /\ UNCHANGED <<brokerUp, declared, mpc, open, installed, dialled, ref, wait>>

ConsumerStep(g) == Get(g) \/ Listen(g) \/ DeliveriesEnd(g)

ManagerOf(p) == {m \in Managers : \E g \in Team[m] : ProcOf[g] = p}

(* The manager finds the connection open and starts its goroutines. *)
Spawn(m) ==
  /\ ~wait[m]
  /\ \A g \in Team[m] : Running(ProcOf[g]) /\ Connected(ProcOf[g])
  /\ wait' = [wait EXCEPT ![m] = TRUE]
  /\ cpc' = [g \in Consumers |-> IF g \in Team[m] THEN "get" ELSE cpc[g]]
  /\ UNCHANGED <<connVars, ref>>

(* wgWorkers.Wait returns. *)
AllEnded(m) ==
  /\ wait[m]
  /\ \A g \in Team[m] : cpc[g] = "done"
  /\ wait' = [wait EXCEPT ![m] = FALSE]
  /\ UNCHANGED <<connVars, cpc, ref>>

ManagerStep(m) == Spawn(m) \/ AllEnded(m)

(* With its process every goroutine ends. *)
EndAll(p) ==
  /\ cpc' = [g \in Consumers |-> IF ProcOf[g] = p THEN AtStart(g) ELSE cpc[g]]
  /\ wait' = [m \in Managers |-> IF m \in ManagerOf(p) THEN FALSE ELSE wait[m]]
  /\ UNCHANGED ref

ProcessDies(p) ==
  /\ Running(p)
  /\ Fault
  /\ Exit(p)
  /\ UNCHANGED declared
  /\ EndAll(p)

Next ==
  \/ \E p \in Processes : MonitorStep(p) /\ UNCHANGED consumerVars
  \/ Environment /\ UNCHANGED consumerVars
  \/ \E g \in Consumers : ConsumerStep(g) \/ ChannelCloses(g)
  \/ \E m \in Managers : ManagerStep(m)
  \/ \E p \in Processes : ProcessDies(p)

Spec == Init /\ [][Next]_vars

(* All goroutines run.  The broker need not come back, nothing need fail. *)
FairSpec ==
  /\ Spec
  /\ \A p \in Processes : WF_vars(MonitorStep(p) /\ UNCHANGED consumerVars)
  /\ \A g \in Consumers : WF_vars(ConsumerStep(g))
  /\ \A m \in Managers : WF_vars(ManagerStep(m))
-------------------------------------------------------------------------------
(***************************************************************************)
(* A process has one open connection, and while it swaps it a second one,   *)
(* however often dialling, the hook or the broker fails.                    *)
(***************************************************************************)
NoLeak ==
  \A p \in Processes :
    open[p] \subseteq {installed[p]} \cup IF mpc[p] = "install" THEN {dialled[p]} ELSE {}

(***************************************************************************)
(* No goroutine stays on a connection that the monitor has replaced: what   *)
(* it took from GetRabbitMQ is the current connection, or closed.           *)
(***************************************************************************)
NoStaleConsumer ==
  \A g \in Consumers : cpc[g] \in {"listen", "listening"} /\ RefOpen(g) =>
    ref[g] = installed[ProcOf[g]]

Listening(g) == cpc[g] = "listening" /\ RefOpen(g)

(***************************************************************************)
(* No manager starts its five goroutines beside the ones before them: when  *)
(* it does not wait, all of them have returned, however many connections    *)
(* and processes have failed, and in whatever order they noticed.           *)
(***************************************************************************)
OneTeam == \A m \in Managers : ~wait[m] => \A g \in Team[m] : cpc[g] = "done"

(***************************************************************************)
(* Monitors, hooks, consumers and managers implement the sessions: losing,  *)
(* dialling, swapping and retrying leave every goroutine on its process's   *)
(* current connection or on none.                                           *)
(***************************************************************************)
Sessions == INSTANCE Session WITH
  Members <- Processes, Goroutines <- Consumers, Home <- ProcOf,
  up <- [p \in Processes |-> IF Connected(p) THEN installed[p] ELSE 0],
  consuming <- [g \in Consumers |-> IF Listening(g) THEN ref[g] ELSE 0]

ImplementsSession == Sessions!Spec

(***************************************************************************)
(* If the broker stays up, every process is connected again in the end, the *)
(* topology is complete, and all result consumers consume.                  *)
(***************************************************************************)
Recovered ==
  <>[]brokerUp =>
    <>[](/\ \A p \in Processes : mpc[p] = "watch" /\ Connected(p)
         /\ declared = Queues
         /\ \A g \in Consumers \ Managed : Listening(g))

(***************************************************************************)
(* If the broker stays up, every team of worker goroutines has one that     *)
(* consumes in the end.                                                     *)
(***************************************************************************)
QueueServed ==
  <>[]brokerUp => \A m \in Managers : <>[](\E g \in Team[m] : Listening(g))

(***************************************************************************)
(* "For each queue consumed, 5 concurrent worker goroutines are spawned,    *)
(* each running on its own dedicated thread-safe amqp.Channel"              *)
(* (ARCHITECTURE.md).  One that starts too early returns, and the manager   *)
(* waits for the others.                                                    *)
(***************************************************************************)
FullTeams ==
  <>[]brokerUp => \A m \in Managers : <>[](\A g \in Team[m] : Listening(g))
-------------------------------------------------------------------------------
(* The strengthening that makes NoLeak and NoStaleConsumer inductive. *)
NumbersGrow ==
  /\ \A p \in Processes :
       /\ installed[p] <= dialled[p]
       /\ mpc[p] = "install" => installed[p] < dialled[p]
       /\ mpc[p] = "connect" => open[p] = {}
       /\ 0 \notin open[p]
  /\ \A g \in Consumers : ref[g] <= installed[ProcOf[g]]

RecoveryInv == TypeOK /\ NoLeak /\ NoStaleConsumer /\ NumbersGrow /\ OneTeam
===============================================================================
