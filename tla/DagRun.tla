------------------------------- MODULE DagRun -------------------------------
(***************************************************************************)
(* What run_workflow promises, without workers, messages or tables: a task *)
(* becomes active when everything it depends on is done, ends as done or   *)
(* failed, is skipped when something upstream failed, and never changes    *)
(* after that.  The tasks are counted once, at any time; the verdict given *)
(* later is that count, completed exactly when every task was done.        *)
(***************************************************************************)
EXTENDS TaskGraph

VARIABLES phase, counted, verdict

dagVars == <<phase, counted, verdict>>

DagInit ==
  /\ phase = [t \in Task |-> "waiting"]
  /\ counted = "running"
  /\ verdict = "running"

Activate(t) ==
  /\ phase[t] = "waiting"
  /\ \A d \in Deps[t] : phase[d] = "done"
  /\ phase' = [phase EXCEPT ![t] = "active"]
  /\ UNCHANGED <<counted, verdict>>

Finish(t) ==
  /\ phase[t] = "active"
  /\ phase' = [phase EXCEPT ![t] = "done"]
  /\ UNCHANGED <<counted, verdict>>

Fail(t) ==
  /\ phase[t] = "active"
  /\ phase' = [phase EXCEPT ![t] = "failed"]
  /\ UNCHANGED <<counted, verdict>>

Skip(t) ==
  /\ phase[t] = "waiting"
  /\ \E c \in Task : phase[c] = "failed" /\ t \in Descendants(c)
  /\ phase' = [phase EXCEPT ![t] = "skipped"]
  /\ UNCHANGED <<counted, verdict>>

Count ==
  /\ counted = "running"
  /\ counted' = IF \A t \in Task : phase[t] = "done" THEN "completed" ELSE "failed"
  /\ UNCHANGED <<phase, verdict>>

Conclude ==
  /\ counted # "running" /\ verdict = "running"
  /\ verdict' = counted
  /\ UNCHANGED <<phase, counted>>

DagNext ==
  \/ \E t \in Task : Activate(t) \/ Finish(t) \/ Fail(t) \/ Skip(t)
  \/ Count \/ Conclude

DagSpec == DagInit /\ [][DagNext]_dagVars
=============================================================================
