------------------------------- MODULE Timetable -------------------------------
(***************************************************************************)
(* What a worker process promises to the web servers: pages are requested   *)
(* by appointment.  The appointments of a host lie its gap apart, nobody    *)
(* comes early, and some pages are never requested.                         *)
(***************************************************************************)
EXTENDS Integers

CONSTANTS
  Pages,
  HostOf,  \* HostOf[p]: the host of page p
  Gap,     \* Gap[h]: how far apart its appointments are at least
  Barred,  \* the pages that are never requested
  None     \* no appointment

VARIABLES
  clock,
  due,     \* due[p]: the appointment for page p, or None
  visited  \* the pages that were requested

vars == <<clock, due, visited>>

Init ==
  /\ clock = 0
  /\ due = [p \in Pages |-> None]
  /\ visited = {}
-------------------------------------------------------------------------------
(* The pages that have an appointment with host h. *)
Booked(h) == {p \in Pages : HostOf[p] = h /\ due[p] # None}

Book(p) ==
  /\ due[p] = None
  /\ due'[p] \in Nat /\ due'[p] >= clock
  /\ \A q \in Booked(HostOf[p]) : due'[p] >= due[q] + Gap[HostOf[p]]
  /\ due' = [due EXCEPT ![p] = due'[p]]
  /\ UNCHANGED <<clock, visited>>

Visit(p) ==
  /\ due[p] # None /\ due[p] <= clock
  /\ p \notin visited \cup Barred
  /\ visited' = visited \cup {p}
  /\ UNCHANGED <<clock, due>>

Pass ==
  /\ clock' = clock + 1
  /\ UNCHANGED <<due, visited>>

Next == Pass \/ \E p \in Pages : Book(p) \/ Visit(p)

Spec == Init /\ [][Next]_vars
===============================================================================
