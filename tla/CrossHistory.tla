---------------------------- MODULE CrossHistory ----------------------------
(***************************************************************************)
(* The deployed engine with a memory, and the properties that need one.    *)
(* Nothing serialises a submission against the advancer, and the advancer  *)
(* publishes the roots that submit publishes too.  Which promises survive  *)
(* that depends on what has happened: the history variables record it, and *)
(* no step reads them.                                                     *)
(***************************************************************************)
EXTENDS CrossProcess

VARIABLES
  missed,     \* <<t, d>>: the advancer took t when its edge to d was not yet written
  uncounted,  \* tasks without a row when the workflow was counted completed
  marred      \* tasks that two workers owned at once, or whose dead letter was returned

history == <<missed, uncounted, marred>>

HistoryTypeOK ==
  /\ missed \in SUBSET (Task \X Task)
  /\ uncounted \in SUBSET Task
  /\ marred \in SUBSET Task

-----------------------------------------------------------------------------
(* w works on t as the winner of its claim, up to the ack or the requeue.  *)
Owns(w, t) ==
  /\ pc[w] \notin {"idle", "check", "refused", "claim", "retryAck"}
  /\ Doing(w) = t

(* No two workers own t.                                                   *)
SingleOwner(t) == \A v, w \in Worker : Owns(v, t) /\ Owns(w, t) => v = w

(* The dependencies of t that task_dependencies does not name yet.         *)
Unwritten(t) == {d \in Deps[t] : ~ Edge(t, d)}

(* finalize_workflows or a GET counts the workflow completed.              *)
CountsCompleted ==
  \/ verdict # "completed" /\ verdict' = "completed"
  \/ view # "completed" /\ view' = "completed"

Remember ==
  /\ missed' = missed \cup
       UNION {{t} \X Unwritten(t) : t \in {m.task : m \in batch' \ batch}}
  /\ uncounted' = uncounted \cup (IF CountsCompleted THEN Task \ rows ELSE {})
  /\ marred' = marred \cup {t \in Task : ~ SingleOwner(t)'}
                      \cup {Doing(w) : w \in {v \in Worker : At(v, "dead") /\ pc'[v] = "deadAck"}}

HistoryInit == Init /\ missed = {} /\ uncounted = {} /\ marred = {}

HistoryNext == Next /\ Remember

HistorySpec == HistoryInit /\ [][HistoryNext]_<<vars, history>>

-----------------------------------------------------------------------------
(* While no process has crashed, a handler runs only after each dependency *)
(* has produced its result (dag.py:12, store.py:360): each one that        *)
(* task_dependencies named when the advancer took the task.                *)
DependenciesRan ==
  crashes = 0 =>
    \A t \in Task, w \in Worker : Runs(w, t) =>
      \A d \in Deps[t] : <<t, d>> \in missed \/ Recorded(d, "completed")

(* While no process has crashed, a workflow is called completed, by the    *)
(* sweep or by a GET, only when every task has a result, except those      *)
(* whose rows were not inserted yet when it was counted.                   *)
CompletedVerdict ==
  crashes = 0 /\ wf = "completed" =>
    \A t \in Task : t \in uncounted \/ Recorded(t, "completed")

(* While no process has crashed, a published task that has not ended is    *)
(* never stranded, unless two workers owned it at once or RabbitMQ         *)
(* returned its dead letter: a message for it waits or a worker holds it.  *)
NoTaskStranded ==
  crashes = 0 =>
    \A t \in Task \ marred : ~ Terminal(t) /\ es[t] # "created" => InFlight(t)

(* The inductive invariants behind these properties.                       *)

(* Every dependency of t that the advancer could see has produced its      *)
(* result.                                                                 *)
DepsRan(t) == \A d \in Deps[t] : <<t, d>> \in missed \/ Recorded(d, "completed")

(* Only what may run is on its way.                                        *)
DeliveryInv ==
  crashes = 0 =>
    /\ \A m \in batch : DepsRan(m.task)
    /\ \A m \in Msg : queue[m] > 0 => DepsRan(m.task)
    /\ \A w \in Worker : ~ At(w, "idle") => DepsRan(Doing(w))
    /\ \A w \in Worker : \A m \in unacked[w] : DepsRan(m.task)

(* A workflow is called completed on the results of the tasks it had.      *)
CountedInv ==
  crashes = 0 /\ "completed" \in {verdict, view, wf} =>
    \A t \in Task : t \in uncounted \/ Recorded(t, "completed")

(* A task that no two workers owned at once is where Tracked says.         *)
TrackedInv ==
  crashes = 0 => \A t \in Task \ marred : SingleOwner(t) /\ Tracked(t)

=============================================================================
