---------------------------- MODULE SingleFlight ----------------------------
(***************************************************************************)
(* What the background executor promises about the work of a source: a     *)
(* task is admitted when the source has none, works for that source alone, *)
(* and is over before the next one is admitted.  No task is admitted       *)
(* twice.  A crash of the process ends every task at once.                 *)
(*                                                                         *)
(* BackgroundExecutor implements it: its reservation protocol, its thread  *)
(* pool and its callbacks are the mechanism, this is the contract.         *)
(***************************************************************************)
CONSTANTS
  Sources,
  Tasks,
  NoTask   \* not a task (ExecutorAssumption of BackgroundExecutor)

VARIABLES
  holder,   \* the task now working for each source
  ended     \* the tasks that are over

flightVars == <<holder, ended>>

FlightInit ==
  /\ holder = [s \in Sources |-> NoTask]
  /\ ended = {}

Admit(s, t) ==
  /\ holder[s] = NoTask
  /\ t \notin ended
  /\ \A other \in Sources : holder[other] # t
  /\ holder' = [holder EXCEPT ![s] = t]
  /\ UNCHANGED ended

End(s) ==
  /\ holder[s] # NoTask
  /\ holder' = [holder EXCEPT ![s] = NoTask]
  /\ ended' = ended \cup {holder[s]}

EndAll ==
  /\ holder' = [s \in Sources |-> NoTask]
  /\ ended' = ended \cup {holder[s] : s \in {q \in Sources : holder[q] # NoTask}}

FlightNext ==
  \/ \E s \in Sources, t \in Tasks : Admit(s, t)
  \/ \E s \in Sources : End(s)
  \/ EndAll

FlightSpec == FlightInit /\ [][FlightNext]_flightVars
=============================================================================
