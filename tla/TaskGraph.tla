----------------------------- MODULE TaskGraph -----------------------------
(***************************************************************************)
(* TaskDAG: the dependency graph of one workflow and what its methods      *)
(* compute.  The graph is a constant: a plan is fixed before it runs.      *)
(***************************************************************************)
EXTENDS Naturals, FiniteSets

CONSTANTS
  Task,   \* task ids of one workflow
  Deps    \* the tasks each task depends on

ASSUME GraphAssumption == Deps \in [Task -> SUBSET Task]

(* The tasks that depend directly on a member of S.                        *)
Dependents(S) == {t \in Task : Deps[t] \cap S # {}}

Roots == {t \in Task : Deps[t] = {}}

(* Fault: one completed dependency is enough.                              *)
ReadyTasks_AnyDep(d) ==
  {t \in Task : d[t] = "pending" /\ (Deps[t] = {} \/ \E p \in Deps[t] : d[p] = "completed")}

(* Fault: a dependency only has to not have failed.                        *)
ReadyTasks_NotFailed(d) ==
  {t \in Task : d[t] = "pending" /\ \A p \in Deps[t] : d[p] # "failed"}

(* ready_tasks for the DAG status d                                        *)
ReadyTasks(d) ==
  {t \in Task : d[t] = "pending" /\ \A p \in Deps[t] : d[p] = "completed"}

(* A set a traversal from t along "depends on" cannot leave.               *)
ClosedFrom(t, S) == Dependents(S \cup {t}) \subseteq S \cup {t}

(* descendants: what every such set contains, without t itself             *)
Descendants(t) ==
  {x \in Task \ {t} : \A S \in SUBSET Task : ClosedFrom(t, S) => x \in S}
=============================================================================
