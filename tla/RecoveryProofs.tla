---------------------------- MODULE RecoveryProofs ----------------------------
(***************************************************************************)
(* The monitor leaks no connection and leaves no consumer on an old one.    *)
(***************************************************************************)
EXTENDS Recovery, TLAPS

USE ConnectionsAssumption, RecoveryAssumption DEF ConnectionsAssumption, RecoveryAssumption

(* The part of the invariant that is about connections. *)
ConnInv == TypeOK /\ NoLeak /\ NoStaleConsumer /\ NumbersGrow

(* No process has dialled, and no goroutine has a connection. *)
LEMMA InitInv == Init => RecoveryInv
<1> SUFFICES ASSUME Init PROVE RecoveryInv
  OBVIOUS
<1>1. TypeOK /\ NoLeak /\ NoStaleConsumer /\ NumbersGrow
  BY DEF Init, ConnInit, AtStart, TypeOK, ConnTypeOK, NoLeak, NoStaleConsumer, NumbersGrow
<1>2. OneTeam
  BY DEF Init, AtStart, OneTeam, Managed
<1> QED  BY <1>1, <1>2 DEF RecoveryInv

(* What a step of main or of the monitor does to the types. *)
LEMMA MonitorType ==
  ASSUME ConnTypeOK, NEW p \in Processes, MonitorStep(p)
  PROVE  ConnTypeOK'
<1> USE DEF ConnTypeOK, Goto, Fault, NoFault
<1>1. CASE Connect(p)
  BY <1>1 DEF Connect, Dial
<1>2. CASE Setup(p)
  BY <1>2 DEF Setup, QueuesDeclared
<1>3. CASE SetupExits(p)
  BY <1>3 DEF SetupExits, SetupFails, Exit
<1>4. CASE Watch(p)
  BY <1>4 DEF Watch
<1>5. CASE Redial(p)
  BY <1>5 DEF Redial, Dial, CloseDialled
<1>6. CASE Install(p)
  BY <1>6 DEF Install, CloseInstalled
<1>7. CASE Hook(p)
  BY <1>7 DEF Hook, QueuesDeclared, SetupFails, HookRetries
<1> QED
  BY <1>1, <1>2, <1>3, <1>4, <1>5, <1>6, <1>7 DEF MonitorStep

(* Faults of the broker and the network. *)
LEMMA EnvironmentType ==
  ASSUME ConnTypeOK, Environment
  PROVE  ConnTypeOK'
<1> USE DEF ConnTypeOK, Fault
<1>1. CASE BrokerFails
  <2>1. declared' \subseteq Queues /\ faults' \in 0..MaxFaults
    BY <1>1 DEF BrokerFails
  <2>2. open' \in [Processes -> SUBSET Nat]
    BY <1>1 DEF BrokerFails
  <2> QED  BY <1>1, <2>1, <2>2 DEF BrokerFails
<1>2. CASE BrokerRestarts
  BY <1>2 DEF BrokerRestarts
<1>3. ASSUME NEW p \in Processes, ConnDrops(p) PROVE ConnTypeOK'
  BY <1>3 DEF ConnDrops
<1> QED  BY <1>1, <1>2, <1>3 DEF Environment

(***************************************************************************)
(* A step that opens nothing but new connections, and closes the installed  *)
(* one when it replaces it, keeps the invariant.                            *)
(***************************************************************************)
ConnKept ==
  /\ \A p \in Processes :
       /\ open'[p] \subseteq {installed'[p]} \cup IF mpc'[p] = "install" THEN {dialled'[p]} ELSE {}
       /\ installed'[p] <= dialled'[p]
       /\ mpc'[p] = "install" => installed'[p] < dialled'[p]
       /\ mpc'[p] = "connect" => open'[p] = {}
       /\ 0 \notin open'[p]
       /\ installed'[p] >= installed[p]

LEMMA MonitorKeeps ==
  ASSUME ConnInv, NEW p \in Processes, MonitorStep(p)
  PROVE  ConnKept
<1> SUFFICES ASSUME NEW r \in Processes
             PROVE  /\ open'[r] \subseteq {installed'[r]} \cup IF mpc'[r] = "install" THEN {dialled'[r]} ELSE {}
                    /\ installed'[r] <= dialled'[r]
                    /\ mpc'[r] = "install" => installed'[r] < dialled'[r]
                    /\ mpc'[r] = "connect" => open'[r] = {}
                    /\ 0 \notin open'[r]
                    /\ installed'[r] >= installed[r]
  BY DEF ConnKept
<1> USE DEF ConnInv, TypeOK, ConnTypeOK, NoLeak, NumbersGrow, Goto
<1>1. CASE Connect(p)
  BY <1>1 DEF Connect, Dial
<1>2. CASE Setup(p)
  BY <1>2 DEF Setup
<1>3. CASE SetupExits(p)
  BY <1>3 DEF SetupExits, Exit
<1>4. CASE Watch(p)
  BY <1>4 DEF Watch
<1>5. CASE Redial(p)
  BY <1>5 DEF Redial, Dial, CloseDialled
<1>6. CASE Install(p)
  BY <1>6 DEF Install, CloseInstalled
<1>7. CASE Hook(p)
  BY <1>7 DEF Hook, HookRetries
<1> QED
  BY <1>1, <1>2, <1>3, <1>4, <1>5, <1>6, <1>7 DEF MonitorStep

LEMMA EnvironmentKeeps ==
  ASSUME ConnInv, Environment
  PROVE  ConnKept
<1> USE DEF ConnInv, TypeOK, ConnTypeOK, NoLeak, NumbersGrow, ConnKept
<1>1. CASE BrokerFails
  BY <1>1 DEF BrokerFails
<1>2. CASE BrokerRestarts
  BY <1>2 DEF BrokerRestarts
<1>3. ASSUME NEW p \in Processes, ConnDrops(p) PROVE ConnKept
  BY <1>3 DEF ConnDrops
<1> QED  BY <1>1, <1>2, <1>3 DEF Environment

(* Numbers up to the installed one that are open are the installed one. *)
LEMMA KeptGivesInv ==
  ASSUME TypeOK', ConnKept,
         \A g \in Consumers : ref'[g] <= installed'[ProcOf[g]]
  PROVE  ConnInv'
<1>1. NoLeak'
  BY DEF ConnKept, NoLeak
<1>2. NumbersGrow'
  BY DEF ConnKept, NumbersGrow
<1>3. NoStaleConsumer'
  <2> SUFFICES ASSUME NEW g \in Consumers, ref'[g] \in open'[ProcOf[g]]
               PROVE  ref'[g] = installed'[ProcOf[g]]
    BY DEF NoStaleConsumer, RefOpen
  <2> QED  BY DEF ConnKept, TypeOK, ConnTypeOK
<1> QED  BY <1>1, <1>2, <1>3 DEF ConnInv

LEMMA ConnStep == ConnInv /\ [Next]_vars => ConnInv'
<1> SUFFICES ASSUME ConnInv, [Next]_vars PROVE ConnInv'
  OBVIOUS
<1> USE DEF consumerVars, connVars
<1>a. TypeOK /\ ConnTypeOK /\ \A g \in Consumers : ref[g] <= installed[ProcOf[g]]
  BY DEF ConnInv, TypeOK, NumbersGrow
<1>b. ASSUME UNCHANGED <<mpc, open, installed, dialled>> PROVE ConnKept
  BY <1>b DEF ConnKept, ConnInv, NoLeak, NumbersGrow, TypeOK, ConnTypeOK
<1>c. ASSUME ConnKept, ConnTypeOK', UNCHANGED ref PROVE \A g \in Consumers : ref'[g] <= installed'[ProcOf[g]]
  <2> SUFFICES ASSUME NEW g \in Consumers, NEW p \in Processes, p = ProcOf[g]
               PROVE  ref[g] <= installed'[p]
    BY <1>c
  <2>1. installed[p] \in Int /\ ref[g] \in Int /\ ref[g] <= installed[p]
    BY <1>a DEF TypeOK, ConnTypeOK
  <2>2. installed'[p] >= installed[p] /\ installed'[p] \in Int
    BY <1>c DEF ConnKept, ConnTypeOK
  <2> QED  BY <2>1, <2>2
<1>1. ASSUME NEW p \in Processes, MonitorStep(p), UNCHANGED consumerVars PROVE ConnInv'
  <2>1. TypeOK'
    BY <1>1, <1>a, MonitorType DEF TypeOK
  <2> QED  BY <1>1, <1>a, <1>c, <2>1, MonitorType, MonitorKeeps, KeptGivesInv
<1>2. CASE Environment /\ UNCHANGED consumerVars
  <2>1. TypeOK'
    BY <1>2, <1>a, EnvironmentType DEF TypeOK
  <2> QED  BY <1>2, <1>a, <1>c, <2>1, EnvironmentType, EnvironmentKeeps, KeptGivesInv
<1>3. ASSUME NEW g \in Consumers, ConsumerStep(g) \/ ChannelCloses(g) PROVE ConnInv'
  <2>1. UNCHANGED <<mpc, open, installed, dialled>>
    BY <1>3 DEF ConsumerStep, Get, Listen, DeliveriesEnd, ChannelCloses
  <2>2. TypeOK'
    BY <1>3, <1>a DEF ConsumerStep, Get, Listen, DeliveriesEnd, ChannelCloses, TypeOK, ConnTypeOK,
                      AfterFailure, Fault, NoFault
  <2>3. \A h \in Consumers : ref'[h] <= installed'[ProcOf[h]]
    BY <1>3, <1>a DEF ConsumerStep, Get, Listen, DeliveriesEnd, ChannelCloses, TypeOK, ConnTypeOK
  <2> QED  BY <1>b, <2>1, <2>2, <2>3, KeptGivesInv
<1>4. ASSUME NEW m \in Managers, ManagerStep(m) PROVE ConnInv'
  <2>1. UNCHANGED <<mpc, open, installed, dialled, ref>>
    BY <1>4 DEF ManagerStep, Spawn, AllEnded
  <2>2. TypeOK'
    BY <1>4, <1>a DEF ManagerStep, Spawn, AllEnded, TypeOK, ConnTypeOK
  <2> QED  BY <1>b, <1>c, <2>1, <2>2, KeptGivesInv DEF TypeOK
<1>5. ASSUME NEW p \in Processes, ProcessDies(p) PROVE ConnInv'
  <2>1. TypeOK'
    <3> USE <1>5, <1>a DEF ProcessDies, TypeOK
    <3>1. ConnTypeOK'
      BY DEF Exit, Goto, Fault, ConnTypeOK
    <3>2. cpc' \in [Consumers -> {"get", "listen", "listening", "done"}]
      BY DEF EndAll, AtStart
    <3>3. wait' \in [Managers -> BOOLEAN]
      BY DEF EndAll
    <3> QED  BY <3>1, <3>2, <3>3 DEF EndAll
  <2>2. ConnKept /\ UNCHANGED ref
    BY <1>5 DEF ProcessDies, Exit, EndAll, Goto, ConnKept, ConnInv, TypeOK, ConnTypeOK,
                NoLeak, NumbersGrow
  <2> QED  BY <1>c, <2>1, <2>2, KeptGivesInv DEF TypeOK
<1>6. CASE UNCHANGED vars
  <2>1. TypeOK' /\ UNCHANGED <<mpc, open, installed, dialled, ref>>
    BY <1>6, <1>a DEF vars, TypeOK, ConnTypeOK
  <2> QED  BY <1>b, <1>c, <2>1, KeptGivesInv DEF TypeOK
<1> QED
  BY <1>1, <1>2, <1>3, <1>4, <1>5, <1>6 DEF Next

(***************************************************************************)
(* A manager that does not wait has no goroutine: Spawn makes it wait, a    *)
(* goroutine that has returned stays away until then, and a process ends    *)
(* with all the goroutines of its teams.                                    *)
(***************************************************************************)
LEMMA TeamStep ==
  ASSUME TypeOK, OneTeam, [Next]_vars
  PROVE  OneTeam'
<1> SUFFICES ASSUME NEW m \in Managers, NEW g \in Team[m], ~wait'[m]
             PROVE  cpc'[g] = "done"
  BY DEF OneTeam
<1> USE TeamAssumption DEF TeamAssumption
<1>1. g \in Consumers /\ g \in Managed /\ (~wait[m] => cpc[g] = "done")
  BY DEF OneTeam, Managed
<1>2. CASE UNCHANGED consumerVars \/ UNCHANGED vars
  BY <1>1, <1>2 DEF consumerVars, vars
<1>3. ASSUME NEW h \in Consumers, ConsumerStep(h) \/ ChannelCloses(h) PROVE cpc'[g] = "done"
  BY <1>1, <1>3 DEF ConsumerStep, Get, Listen, DeliveriesEnd, ChannelCloses, TypeOK
<1>4. ASSUME NEW n \in Managers, Spawn(n) PROVE cpc'[g] = "done"
  <2>1. n # m
    BY <1>4 DEF Spawn, TypeOK
  <2>2. g \notin Team[n] /\ ~wait[m]
    BY <1>4, <2>1 DEF Spawn, TypeOK
  <2> QED  BY <1>1, <1>4, <2>2 DEF Spawn
<1>5. ASSUME NEW n \in Managers, AllEnded(n) PROVE cpc'[g] = "done"
  BY <1>1, <1>5 DEF AllEnded, TypeOK
<1>6. ASSUME NEW p \in Processes, ProcessDies(p) PROVE cpc'[g] = "done"
  <2>1. CASE ProcOf[g] = p
    BY <1>1, <1>6, <2>1 DEF ProcessDies, EndAll, AtStart
  <2>2. CASE ProcOf[g] # p
    <3>1. m \notin ManagerOf(p)
      BY <2>2 DEF ManagerOf
    <3> QED  BY <1>1, <1>6, <2>2, <3>1 DEF ProcessDies, EndAll
  <2> QED  BY <2>1, <2>2
<1> QED
  BY <1>2, <1>3, <1>4, <1>5, <1>6 DEF Next, ManagerStep

LEMMA NextInv == RecoveryInv /\ [Next]_vars => RecoveryInv'
BY ConnStep, TeamStep DEF RecoveryInv, ConnInv

(***************************************************************************)
(* The conjunction that TLC checks on a small instance is inductive for any *)
(* number of processes, goroutines, teams and faults.                       *)
(***************************************************************************)
THEOREM RecoveryInvariant == Spec => []RecoveryInv
BY InitInv, NextInv, PTL DEF Spec

(***************************************************************************)
(* Whatever fails and however often, a process holds its installed          *)
(* connection and at most the one that it is about to install.              *)
(***************************************************************************)
THEOREM ConnectionsDoNotLeak == Spec => []NoLeak
<1>1. RecoveryInv => NoLeak
  BY DEF RecoveryInv
<1> QED  BY <1>1, RecoveryInvariant, PTL

(***************************************************************************)
(* No consumer listens on a connection that is open but no longer the one   *)
(* that the monitor watches, for any number of processes and goroutines.    *)
(***************************************************************************)
THEOREM ConsumersFollowTheMonitor == Spec => []NoStaleConsumer
<1>1. RecoveryInv => NoStaleConsumer
  BY DEF RecoveryInv
<1> QED  BY <1>1, RecoveryInvariant, PTL
-------------------------------------------------------------------------------
(* The connection and the consumers that Session sees. *)
Current(p) == IF Connected(p) THEN installed[p] ELSE 0
Reached(g) == IF Listening(g) THEN ref[g] ELSE 0

(* Steps that Session does not see. *)
LEMMA Unseen ==
  ASSUME \A p \in Processes : Current(p)' = Current(p),
         \A g \in Consumers : Reached(g)' = Reached(g)
  PROVE  UNCHANGED Sessions!vars
BY DEF Sessions!vars, Current, Reached

(* Process p alone gives up what it had, and its goroutines are not reached. *)
LEMMA Renewed ==
  ASSUME TypeOK', NEW p \in Processes,
         \A q \in Processes \ {p} : open'[q] = open[q] /\ installed'[q] = installed[q],
         \A g \in Consumers : ProcOf[g] # p => cpc'[g] = cpc[g] /\ ref'[g] = ref[g],
         \A g \in Consumers : ProcOf[g] = p => ~Listening(g)'
  PROVE  Sessions!Renew(p)
<1>1. Current(p)' \in Nat
  BY DEF Current, TypeOK, ConnTypeOK
<1>2. \A q \in Processes \ {p} : Current(q)' = Current(q)
  BY DEF Current, Connected
<1>3. \A g \in Consumers : Reached(g)' = IF ProcOf[g] = p THEN 0 ELSE Reached(g)
  BY DEF Reached, Listening, RefOpen
<1>4. [q \in Processes |-> Current(q)'] =
        [[q \in Processes |-> Current(q)] EXCEPT ![p] = Current(p)']
  BY <1>2
<1>5. [g \in Consumers |-> Reached(g)'] =
        [g \in Consumers |-> IF ProcOf[g] = p THEN 0 ELSE [h \in Consumers |-> Reached(h)][g]]
  BY <1>3
<1> QED
  BY <1>1, <1>4, <1>5 DEF Sessions!Renew, Sessions!Silenced, Current, Reached

(* Nothing moves but goroutines that neither listened before nor do so now. *)
LEMMA NobodyListens ==
  ASSUME UNCHANGED <<open, installed, ref>>,
         \A g \in Consumers : cpc'[g] = "listening" <=> cpc[g] = "listening"
  PROVE  UNCHANGED Sessions!vars
<1>1. \A p \in Processes : Current(p)' = Current(p)
  BY DEF Current, Connected
<1>2. \A g \in Consumers : Reached(g)' = Reached(g)
  BY DEF Reached, Listening, RefOpen
<1> QED  BY <1>1, <1>2, Unseen
-------------------------------------------------------------------------------
LEMMA MonitorSession ==
  ASSUME RecoveryInv, TypeOK', NEW p \in Processes, MonitorStep(p), UNCHANGED consumerVars
  PROVE  [Sessions!Next]_(Sessions!vars)
<1> USE DEF consumerVars
<1>a. TypeOK /\ ConnTypeOK
  BY DEF RecoveryInv, TypeOK
<1>b. Sessions!Renew(p) => Sessions!Next
  BY DEF Sessions!Next
<1>1. CASE Connect(p)
  <2>1. \A g \in Consumers : ProcOf[g] = p => ref[g] <= dialled[p] /\ open[p] = {}
    <3> SUFFICES ASSUME NEW g \in Consumers, ProcOf[g] = p
                 PROVE  ref[g] <= dialled[p] /\ open[p] = {}
      OBVIOUS
    <3>1. ref[g] <= installed[p] /\ installed[p] <= dialled[p] /\ open[p] = {}
      BY <1>1 DEF RecoveryInv, NumbersGrow, Connect
    <3> QED  BY <1>a, <3>1 DEF TypeOK, ConnTypeOK
  <2>2. \A g \in Consumers : ProcOf[g] = p => ~Listening(g)'
    BY <1>1, <1>a, <2>1 DEF Connect, Dial, Listening, RefOpen, TypeOK, ConnTypeOK
  <2>3. \A q \in Processes \ {p} : open'[q] = open[q] /\ installed'[q] = installed[q]
    BY <1>1, <1>a DEF Connect, ConnTypeOK
  <2> QED  BY <1>b, <2>2, <2>3, Renewed
<1>2. CASE Setup(p) \/ Watch(p) \/ Hook(p)
  BY <1>2, NobodyListens DEF Setup, Watch, Hook
<1>3. CASE SetupExits(p)
  <2>1. \A q \in Processes \ {p} : open'[q] = open[q] /\ installed'[q] = installed[q]
    BY <1>3, <1>a DEF SetupExits, Exit, ConnTypeOK
  <2>2. \A g \in Consumers : ProcOf[g] = p => ~Listening(g)'
    BY <1>3, <1>a DEF SetupExits, Exit, ConnTypeOK, Listening, RefOpen
  <2> QED  BY <1>b, <2>1, <2>2, Renewed
<1>4. CASE Redial(p)
  <2>1. /\ installed' = installed /\ dialled'[p] = dialled[p] + 1
        /\ \A q \in Processes : open'[q] = open[q] \/ (q = p /\ open'[q] = open[q] \cup {dialled'[p]})
    BY <1>4, <1>a DEF Redial, Dial, CloseDialled, ConnTypeOK
  <2>2. installed[p] <= dialled[p] /\ \A g \in Consumers : ProcOf[g] = p => ref[g] <= installed[p]
    BY DEF RecoveryInv, NumbersGrow
  <2>3. installed[p] # dialled'[p]
    BY <1>a, <2>1, <2>2 DEF ConnTypeOK
  <2>4. \A g \in Consumers : ProcOf[g] = p => ref[g] # dialled'[p]
    BY <1>a, <2>1, <2>2 DEF TypeOK, ConnTypeOK
  <2>5. \A q \in Processes : Current(q)' = Current(q)
    BY <2>1, <2>3 DEF Current, Connected
  <2>6. \A g \in Consumers : Reached(g)' = Reached(g)
    BY <2>1, <2>4 DEF Reached, Listening, RefOpen
  <2> QED  BY <2>5, <2>6, Unseen
<1>5. CASE Install(p)
  <2>1. \A q \in Processes \ {p} : open'[q] = open[q] /\ installed'[q] = installed[q]
    BY <1>5, <1>a DEF Install, CloseInstalled, ConnTypeOK
  <2>2. open'[p] = open[p] \ {installed[p]}
    BY <1>5, <1>a DEF Install, CloseInstalled, ConnTypeOK
  <2>3. \A g \in Consumers : ProcOf[g] = p => ~Listening(g)'
    BY <2>2 DEF Listening, RefOpen, RecoveryInv, NoStaleConsumer
  <2> QED  BY <1>b, <2>1, <2>3, Renewed
<1> QED
  BY <1>1, <1>2, <1>3, <1>4, <1>5 DEF MonitorStep

LEMMA EnvironmentSession ==
  ASSUME RecoveryInv, TypeOK', Environment, UNCHANGED consumerVars
  PROVE  [Sessions!Next]_(Sessions!vars)
<1> USE DEF consumerVars
<1>a. TypeOK /\ ConnTypeOK
  BY DEF RecoveryInv, TypeOK
<1>1. CASE BrokerFails
  <2>1. \A p \in Processes : Current(p)' = 0
    BY <1>1 DEF BrokerFails, Current, Connected
  <2>2. \A g \in Consumers : Reached(g)' = 0
    BY <1>1 DEF BrokerFails, Reached, Listening, RefOpen
  <2>3. Sessions!LoseAll
    BY <2>1, <2>2 DEF Sessions!LoseAll, Current, Reached
  <2> QED  BY <2>3 DEF Sessions!Next
<1>2. CASE BrokerRestarts
  BY <1>2, NobodyListens DEF BrokerRestarts
<1>3. ASSUME NEW p \in Processes, ConnDrops(p) PROVE [Sessions!Next]_(Sessions!vars)
  <2>1. PICK n \in open[p] : open' = [open EXCEPT ![p] = @ \ {n}]
    BY <1>3 DEF ConnDrops
  <2>2. installed' = installed /\ open'[p] = open[p] \ {n}
        /\ \A q \in Processes \ {p} : open'[q] = open[q]
    BY <1>3, <1>a, <2>1 DEF ConnDrops, ConnTypeOK
  <2>3. CASE n = installed[p]
    <3>1. \A g \in Consumers : ProcOf[g] = p => ~Listening(g)'
      BY <2>2, <2>3 DEF Listening, RefOpen, RecoveryInv, NoStaleConsumer
    <3>2. Sessions!Renew(p)
      BY <2>2, <3>1, Renewed
    <3> QED  BY <3>2 DEF Sessions!Next
  <2>4. CASE n # installed[p]
    <3>1. \A q \in Processes : Current(q)' = Current(q)
      BY <2>2, <2>4 DEF Current, Connected
    <3>2. \A g \in Consumers : Listening(g)' <=> Listening(g)
      BY <2>2, <2>4 DEF Listening, RefOpen, RecoveryInv, NoStaleConsumer
    <3>3. \A g \in Consumers : Reached(g)' = Reached(g)
      BY <3>2 DEF Reached
    <3> QED  BY <3>1, <3>3, Unseen
  <2> QED  BY <2>3, <2>4
<1> QED
  BY <1>1, <1>2, <1>3 DEF Environment

LEMMA ConsumerSession ==
  ASSUME RecoveryInv, NEW g \in Consumers, ConsumerStep(g) \/ ChannelCloses(g)
  PROVE  [Sessions!Next]_(Sessions!vars)
<1>a. TypeOK
  BY DEF RecoveryInv
<1>b. UNCHANGED <<open, installed>> /\ \A h \in Consumers \ {g} : cpc'[h] = cpc[h] /\ ref'[h] = ref[h]
  BY <1>a DEF ConsumerStep, Get, Listen, DeliveriesEnd, ChannelCloses, TypeOK, connVars
<1>c. (\A p \in Processes : Current(p)' = Current(p))
      /\ \A h \in Consumers \ {g} : Reached(h)' = Reached(h)
  BY <1>b DEF Current, Connected, Reached, Listening, RefOpen
<1>1. CASE ~Listening(g)'
  <2>1. Reached(g)' = 0
    BY <1>1 DEF Reached
  <2>2. [h \in Consumers |-> Reached(h)'] = [[h \in Consumers |-> Reached(h)] EXCEPT ![g] = 0]
    BY <1>c, <2>1
  <2>3. Sessions!End(g)
    BY <1>c, <2>2 DEF Sessions!End, Current, Reached
  <2> QED  BY <2>3 DEF Sessions!Next
<1>2. CASE Listening(g)'
  <2>1. ref' = ref /\ RefOpen(g) /\ cpc[g] = "listen"
    BY <1>2, <1>a, <1>b DEF ConsumerStep, Get, Listen, DeliveriesEnd, ChannelCloses, Listening, RefOpen,
                            AfterFailure, TypeOK
  <2>2. ref[g] = installed[ProcOf[g]] /\ ref[g] # 0
    BY <2>1 DEF RefOpen, RecoveryInv, NoStaleConsumer, NumbersGrow
  <2>3. Current(ProcOf[g]) = ref[g] /\ Reached(g)' = ref[g]
    BY <1>2, <2>1, <2>2 DEF Current, Connected, Reached, RefOpen
  <2>4. [h \in Consumers |-> Reached(h)'] =
          [[h \in Consumers |-> Reached(h)] EXCEPT ![g] = [p \in Processes |-> Current(p)][ProcOf[g]]]
    BY <1>c, <2>3
  <2>5. Sessions!Consume(g)
    BY <1>c, <2>2, <2>3, <2>4 DEF Sessions!Consume, Current, Reached
  <2> QED  BY <2>5 DEF Sessions!Next
<1> QED  BY <1>1, <1>2

LEMMA SessionStep == RecoveryInv /\ TypeOK' /\ [Next]_vars => [Sessions!Next]_(Sessions!vars)
<1> SUFFICES ASSUME RecoveryInv, TypeOK', [Next]_vars PROVE [Sessions!Next]_(Sessions!vars)
  OBVIOUS
<1>a. TypeOK /\ OneTeam
  BY DEF RecoveryInv
<1>1. CASE \E p \in Processes : MonitorStep(p) /\ UNCHANGED consumerVars
  BY <1>1, MonitorSession
<1>2. CASE Environment /\ UNCHANGED consumerVars
  BY <1>2, EnvironmentSession
<1>3. CASE \E g \in Consumers : ConsumerStep(g) \/ ChannelCloses(g)
  BY <1>3, ConsumerSession
<1>4. ASSUME NEW m \in Managers, ManagerStep(m) PROVE [Sessions!Next]_(Sessions!vars)
  <2>1. \A g \in Consumers : cpc'[g] = "listening" <=> cpc[g] = "listening"
    BY <1>4, <1>a DEF ManagerStep, Spawn, AllEnded, OneTeam, TypeOK
  <2>2. UNCHANGED <<open, installed, ref>>
    BY <1>4 DEF ManagerStep, Spawn, AllEnded, connVars
  <2> QED  BY <2>1, <2>2, NobodyListens
<1>5. ASSUME NEW p \in Processes, ProcessDies(p) PROVE [Sessions!Next]_(Sessions!vars)
  <2>1. \A q \in Processes \ {p} : open'[q] = open[q] /\ installed'[q] = installed[q]
    BY <1>5, <1>a DEF ProcessDies, Exit, TypeOK, ConnTypeOK
  <2>2. \A g \in Consumers : ProcOf[g] # p => cpc'[g] = cpc[g] /\ ref'[g] = ref[g]
    BY <1>5 DEF ProcessDies, EndAll
  <2>3. \A g \in Consumers : ProcOf[g] = p => ~Listening(g)'
    BY <1>5 DEF ProcessDies, EndAll, AtStart, Listening
  <2>4. Sessions!Renew(p)
    BY <2>1, <2>2, <2>3, Renewed
  <2> QED  BY <2>4 DEF Sessions!Next
<1>6. CASE UNCHANGED vars
  BY <1>6, NobodyListens DEF vars, consumerVars, connVars
<1> QED
  BY <1>1, <1>2, <1>3, <1>4, <1>5, <1>6 DEF Next

LEMMA SessionInit == Init => Sessions!Init
<1> SUFFICES ASSUME Init PROVE Sessions!Init
  OBVIOUS
<1>1. \A p \in Processes : ~Connected(p)
  BY DEF Init, ConnInit, Connected
<1>2. \A g \in Consumers : ~Listening(g)
  BY DEF Init, AtStart, Listening
<1> QED
  BY <1>1, <1>2 DEF Sessions!Init

(***************************************************************************)
(* Connections, hooks, consumers and managers implement Session             *)
(* (connect.go, ReconnectRabbitMQ and StartConnectionMonitor; both          *)
(* broker.go): whatever is lost, dialled and retried, a goroutine is        *)
(* reached on its process's current connection or not at all.               *)
(***************************************************************************)
THEOREM RecoveryImplementsSession == Spec => ImplementsSession
<1>1. RecoveryInv => TypeOK
  BY DEF RecoveryInv
<1> QED
  BY <1>1, RecoveryInvariant, SessionInit, SessionStep, PTL DEF Spec, ImplementsSession, Sessions!Spec
===============================================================================
