-------------------------- MODULE Scheduler_proofs ---------------------------
(***************************************************************************)
(* The scheduler for any tasks, clocks, faults and histories: every        *)
(* variable keeps its type, an edit wins over an execution that is still   *)
(* under way, and no revision of a task is executed twice.                 *)
(***************************************************************************)
EXTENDS Scheduler, FiniteSetTheorems, TLAPS

(* The inductive invariant.  What must hold of the state in memory must hold *)
(* of the one in the file, for a restart puts that in its place; and a       *)
(* failed write leaves the file behind the memory, so each is bounded by     *)
(* what was ever handed out ("begun"), not by the other.                     *)

\* A task that is switched on waits for its time and has no execution, and is younger
\* than every revision of it that was ever handed out.
IsGoodTask(t, task, begun) ==
  /\ task \in Task
  /\ task.enabled => /\ task.state = "armed" /\ task.due = task.trigger.due
                     /\ task.last = None
  /\ \A x \in begun : x.task = t =>
       /\ x.revision <= task.revision
       /\ task.enabled => x.revision < task.revision

IsGoodFile(f, n, begun) ==
  /\ f = [tasks |-> f.tasks, history |-> f.history]
  /\ DOMAIN f.tasks \subseteq 1..n /\ DOMAIN f.history \subseteq 1..n
  /\ \A t \in DOMAIN f.tasks : IsGoodTask(t, f.tasks[t], begun)
  /\ \A e \in DOMAIN f.history : f.history[e] \in ExecutionRecord

\* The ids below lastId cover every task and execution that ever was.
Inv ==
  /\ now \in Nat /\ lastId \in Nat /\ faults \in Nat
  /\ handed \subseteq started /\ started \subseteq DueExecution
  /\ \A x \in started : x.task <= lastId /\ x.id <= lastId
  /\ OncePerRevision
  /\ file # None => IsGoodFile(file, lastId, started)
  /\ disk # None => IsGoodFile(disk, lastId, started)

-----------------------------------------------------------------------------
(* Tasks *)

\* Resolving a trigger, one that was entered or one that a task has, gives a trigger.
LEMMA ResolveType ==
  ASSUME now \in Nat, NEW input \in TriggerInput \cup Trigger
  PROVE  Resolve(input) \in Trigger
BY DEF Resolve, TriggerInput, Trigger

\* A task that upsert makes is good when its revision is new.
LEMMA TaskFromGood ==
  ASSUME SchedulerConstants, now \in Nat, NEW input \in Input, NEW revision \in Nat,
         NEW t, NEW begun, \A x \in begun : x.task = t => x.revision \in Nat /\ x.revision < revision
  PROVE  IsGoodTask(t, TaskFrom(input, revision), begun)
<1> DEFINE trigger == Resolve(input.trigger)
           task == TaskFrom(input, revision)
<1>1. input.trigger \in TriggerInput /\ input.enabled \in BOOLEAN
      /\ input.actions \in ActionSets
  BY DEF SchedulerConstants
<1>2. trigger \in Trigger
  BY <1>1, ResolveType
<1>3. trigger.due \in Nat
  BY <1>2 DEF Trigger
<1>4. task = [revision |-> revision, enabled |-> input.enabled, trigger |-> trigger,
              actions |-> input.actions,
              state |-> IF input.enabled THEN "armed" ELSE "disabled",
              due |-> IF input.enabled THEN trigger.due ELSE None,
              last |-> None]
  BY DEF TaskFrom
<1> HIDE DEF trigger, task
<1>5. task \in Task
  BY <1>1, <1>2, <1>3, <1>4 DEF Task, TaskState
<1>6. task.enabled => /\ task.state = "armed" /\ task.due = task.trigger.due
                     /\ task.last = None
  BY <1>4
<1>7. task.revision = revision
  BY <1>4
<1> QED
  BY <1>5, <1>6, <1>7 DEF IsGoodTask, task

\* A task stays good when it is switched on or off.
LEMMA SwitchedGood ==
  ASSUME SchedulerConstants, now \in Nat, NEW t, NEW begun, NEW task, NEW enabled \in BOOLEAN,
         begun \subseteq DueExecution, IsGoodTask(t, task, begun)
  PROVE  IsGoodTask(t, Switched(task, enabled), begun)
<1> DEFINE trigger == IF enabled THEN Resolve(task.trigger) ELSE task.trigger
           new == Switched(task, enabled)
<1>1. task \in Task /\ task.trigger \in Trigger /\ task.revision \in Nat
  BY DEF IsGoodTask, Task
<1>2. trigger \in Trigger
  BY <1>1, ResolveType
<1>3. trigger.due \in Nat
  BY <1>2 DEF Trigger
<1>4. new = [task EXCEPT !.revision = @ + 1, !.enabled = enabled, !.last = None,
               !.trigger = trigger,
               !.state = IF enabled THEN "armed" ELSE "disabled",
               !.due = IF enabled THEN trigger.due ELSE None]
  BY DEF Switched
<1> HIDE DEF trigger, new
<1>5. new \in Task
  <2>1. new = [revision |-> task.revision + 1, enabled |-> enabled, trigger |-> trigger,
               actions |-> task.actions,
               state |-> IF enabled THEN "armed" ELSE "disabled",
               due |-> IF enabled THEN trigger.due ELSE None,
               last |-> None]
    BY <1>1, <1>4 DEF Task
  <2>2. task.actions \in ActionSets
    BY <1>1 DEF Task
  <2> QED
    BY <1>1, <1>2, <1>3, <2>1, <2>2 DEF Task, TaskState
<1>6. /\ new.revision = task.revision + 1
      /\ new.enabled => /\ new.state = "armed" /\ new.due = new.trigger.due
                        /\ new.last = None
  BY <1>1, <1>4 DEF Task
<1>7. \A x \in begun : x.revision \in Nat
  BY DEF DueExecution
<1> QED
  BY <1>1, <1>5, <1>6, <1>7 DEF IsGoodTask, new

\* A task whose time has come is good after tick, which switches it off.
LEMMA FiredGood ==
  ASSUME SchedulerConstants, NEW t, NEW begun, NEW task, NEW id \in Nat, NEW state \in TaskState,
         NEW late, late \subseteq DueExecution,
         IsGoodTask(t, task, begun), \A x \in late : x.task = t => x.revision <= task.revision
  PROVE  IsGoodTask(t, [task EXCEPT !.enabled = FALSE, !.due = None, !.last = id, !.state = state],
                    begun \cup late)
<1> DEFINE new == [task EXCEPT !.enabled = FALSE, !.due = None, !.last = id, !.state = state]
<1>1. task \in Task
  BY DEF IsGoodTask
<1>0. new = [task EXCEPT !.enabled = FALSE, !.due = None, !.last = id, !.state = state]
  OBVIOUS
<1> HIDE DEF new
<1>2. new = [revision |-> task.revision, enabled |-> FALSE, trigger |-> task.trigger,
             actions |-> task.actions, state |-> state, due |-> None, last |-> id]
  BY <1>0, <1>1 DEF Task
<1>3. new \in Task
  <2>1. /\ task.revision \in Nat /\ task.trigger \in Trigger /\ task.actions \in ActionSets
    BY <1>1 DEF Task
  <2> QED
    BY <1>2, <2>1 DEF Task
<1>4. new.enabled = FALSE /\ new.revision = task.revision
  BY <1>2
<1>5. \A x \in begun \cup late : x.task = t => x.revision <= new.revision
  BY <1>4 DEF IsGoodTask
<1>6. IsGoodTask(t, new, begun \cup late)
  BY <1>3, <1>4, <1>5 DEF IsGoodTask
<1> QED
  BY <1>6 DEF new

\* A task that is not switched on may change its state.
LEMMA SettledGood ==
  ASSUME NEW t, NEW begun, NEW task, NEW state \in TaskState,
         IsGoodTask(t, task, begun), ~task.enabled
  PROVE  IsGoodTask(t, [task EXCEPT !.state = state], begun)
<1> DEFINE new == [task EXCEPT !.state = state]
<1>1. task \in Task
  BY DEF IsGoodTask
<1>2. new = [revision |-> task.revision, enabled |-> task.enabled, trigger |-> task.trigger,
             actions |-> task.actions, state |-> state, due |-> task.due, last |-> task.last]
  BY <1>1 DEF Task
<1>3. new \in Task
  BY <1>1, <1>2 DEF Task
<1>4. new.enabled = task.enabled /\ new.revision = task.revision
  BY <1>2
<1> HIDE DEF new
<1>5. IsGoodTask(t, new, begun)
  BY <1>3, <1>4 DEF IsGoodTask
<1> QED
  BY <1>5 DEF new

-----------------------------------------------------------------------------
(* Files *)

\* A good file stays good when more ids are given out.
LEMMA GoodFileGrows ==
  ASSUME NEW f, NEW n \in Nat, NEW k \in Nat, NEW begun, n <= k, IsGoodFile(f, n, begun)
  PROVE  IsGoodFile(f, k, begun)
BY DEF IsGoodFile

\* Putting a good task into a good file.
LEMMA WithTaskGood ==
  ASSUME NEW f, NEW n \in Nat, NEW begun, IsGoodFile(f, n, begun),
         NEW id \in 1..n, NEW task, IsGoodTask(id, task, begun)
  PROVE  IsGoodFile(WithTask(f, id, task), n, begun)
<1> DEFINE tasks == [t \in DOMAIN f.tasks \cup {id} |-> IF t = id THEN task ELSE f.tasks[t]]
<1>1. WithTask(f, id, task) = [tasks |-> tasks, history |-> f.history]
  BY DEF IsGoodFile, WithTask
<1>2. \A t \in DOMAIN tasks : IsGoodTask(t, tasks[t], begun)
  BY DEF IsGoodFile
<1>3. DOMAIN tasks \subseteq 1..n
  BY DEF IsGoodFile
<1> HIDE DEF tasks
<1> QED
  BY <1>1, <1>2, <1>3 DEF IsGoodFile

\* A task is taken out of the file.
LEMMA WithoutTaskGood ==
  ASSUME NEW f, NEW n \in Nat, NEW begun, IsGoodFile(f, n, begun), NEW id
  PROVE  IsGoodFile([f EXCEPT !.tasks = [t \in DOMAIN @ \ {id} |-> @[t]]], n, begun)
<1> DEFINE tasks == [t \in DOMAIN f.tasks \ {id} |-> f.tasks[t]]
           new == [f EXCEPT !.tasks = [t \in DOMAIN @ \ {id} |-> @[t]]]
<1>1. new = [tasks |-> tasks, history |-> f.history]
  BY DEF IsGoodFile
<1>2. \A t \in DOMAIN tasks : IsGoodTask(t, tasks[t], begun)
  BY DEF IsGoodFile
<1>3. DOMAIN tasks \subseteq 1..n
  BY DEF IsGoodFile
<1> HIDE DEF tasks, new
<1>4. IsGoodFile(new, n, begun)
  BY <1>1, <1>2, <1>3 DEF IsGoodFile
<1> QED
  BY <1>4 DEF new

\* Reconciling settles what was running and arms nothing.
LEMMA ReconciledGood ==
  ASSUME NEW f, NEW n \in Nat, NEW begun, IsGoodFile(f, n, begun)
  PROVE  IsGoodFile(Reconciled(f), n, begun)
<1> DEFINE open == {e \in DOMAIN f.history : f.history[e].result = "running"}
           tasks == [t \in DOMAIN f.tasks |->
             IF \E e \in open : f.history[e].task = t /\ f.tasks[t].last = e
             THEN [f.tasks[t] EXCEPT !.state = "failed", !.enabled = FALSE, !.due = None]
             ELSE f.tasks[t]]
           history == [e \in DOMAIN f.history |->
             IF e \in open THEN [f.history[e] EXCEPT !.result = "interrupted"]
             ELSE f.history[e]]
<1>1. Reconciled(f) = [tasks |-> tasks, history |-> history]
  BY DEF Reconciled
<1>2. ASSUME NEW t \in DOMAIN tasks
      PROVE  IsGoodTask(t, tasks[t], begun)
  <2> DEFINE old == f.tasks[t]
             new == [old EXCEPT !.state = "failed", !.enabled = FALSE, !.due = None]
  <2>1. IsGoodTask(t, old, begun) /\ old \in Task
    BY <1>2 DEF IsGoodFile, IsGoodTask
  <2>2. tasks[t] = new \/ tasks[t] = old
    BY <1>2
  <2>3. new = [old EXCEPT !.state = "failed", !.enabled = FALSE, !.due = None]
    OBVIOUS
  <2> HIDE DEF new, tasks
  <2>4. new = [revision |-> old.revision, enabled |-> FALSE, trigger |-> old.trigger,
               actions |-> old.actions, state |-> "failed", due |-> None, last |-> old.last]
    BY <2>1, <2>3 DEF Task
  <2>5. new \in Task
    BY <2>1, <2>4 DEF Task, TaskState
  <2>6. new.enabled = FALSE /\ new.revision = old.revision
    BY <2>4
  <2> HIDE DEF old
  <2>7. IsGoodTask(t, new, begun)
    BY <2>1, <2>5, <2>6 DEF IsGoodTask
  <2> QED
    BY <2>1, <2>2, <2>7
<1>3. ASSUME NEW e \in DOMAIN history
      PROVE  history[e] \in ExecutionRecord
  <2> DEFINE old == f.history[e]
             new == [old EXCEPT !.result = "interrupted"]
  <2>1. old \in ExecutionRecord
    BY <1>3 DEF IsGoodFile
  <2>2. new = [task |-> old.task, revision |-> old.revision, results |-> old.results,
               result |-> "interrupted"]
    BY <2>1 DEF ExecutionRecord
  <2>3. new \in ExecutionRecord
    BY <2>1, <2>2 DEF ExecutionRecord
  <2>4. history[e] = new \/ history[e] = old
    BY <1>3
  <2> QED
    BY <2>1, <2>3, <2>4
<1>4. DOMAIN tasks \subseteq 1..n /\ DOMAIN history \subseteq 1..n
  BY DEF IsGoodFile
<1> HIDE DEF tasks, history, open
<1> QED
  BY <1>1, <1>2, <1>3, <1>4 DEF IsGoodFile

-----------------------------------------------------------------------------
(* Writing *)

\* Whatever becomes of the write, memory and file are good when the new state and
\* the one that an error leaves are, and the old file is if it may still be there.
LEMMA SaveGood ==
  ASSUME NEW n, NEW begun, NEW new, NEW left, NEW answer,
         faults \in Nat, Save(new, left, answer),
         IsGoodFile(new, n, begun),
         left # None => IsGoodFile(left, n, begun),
         answer # "ok" /\ disk # None => IsGoodFile(disk, n, begun)
  PROVE  /\ file' # None => IsGoodFile(file', n, begun)
         /\ disk' # None => IsGoodFile(disk', n, begun)
         /\ faults' \in Nat
<1>1. faults' \in Nat
  BY DEF Save, Fault
<1>2. file' \in {new, left, None}
  BY DEF Save
<1>3. disk' \in {new, None} \/ (answer # "ok" /\ disk' = disk)
  BY DEF Save, Torn
<1> QED
  BY <1>1, <1>2, <1>3

\* An operation of the editor keeps the invariant when it writes a good state.
LEMMA EditedInv ==
  ASSUME Inv, NEW new, NEW left, NEW answer, Edited(new, left, answer),
         lastId' \in Nat, lastId <= lastId',
         IsGoodFile(new, lastId', started),
         left # None => IsGoodFile(left, lastId', started)
  PROVE  Inv'
<1>1. disk # None => IsGoodFile(disk, lastId', started)
  BY GoodFileGrows DEF Inv
<1>2. /\ file' # None => IsGoodFile(file', lastId', started)
      /\ disk' # None => IsGoodFile(disk', lastId', started)
      /\ faults' \in Nat
  BY <1>1, SaveGood DEF Inv, Edited
<1>3. now' = now /\ started' = started /\ handed' \subseteq handed
  BY DEF Edited, Handed
<1>4. \A x \in started : x.task <= lastId' /\ x.id <= lastId'
  BY DEF Inv, DueExecution
<1> QED
  BY <1>2, <1>3, <1>4 DEF Inv, OncePerRevision

-----------------------------------------------------------------------------
(* The steps *)

LEMMA CreateInv ==
  ASSUME SchedulerConstants, Inv, NEW input \in Input, NEW answer, Create(input, answer)
  PROVE  Inv'
<1> DEFINE task == TaskFrom(input, 1)
<1>1. lastId \in Nat /\ lastId' = lastId + 1 /\ file # None /\ now \in Nat
  BY DEF Create, Inv
<1>2. IsGoodFile(file, lastId + 1, started)
  BY <1>1, GoodFileGrows DEF Inv
<1>3. \A x \in started : x.task # lastId + 1
  BY <1>1 DEF Inv, DueExecution
<1>4. IsGoodTask(lastId + 1, task, started)
  BY <1>1, <1>3, TaskFromGood
<1>5. IsGoodFile(WithTask(file, lastId + 1, task), lastId + 1, started)
  BY <1>1, <1>2, <1>4, WithTaskGood
<1>6. Edited(WithTask(file, lastId + 1, task), file, answer)
  BY DEF Create
<1> QED
  BY <1>1, <1>2, <1>5, <1>6, EditedInv

\* A task of the file, its id and its revision.
LEMMA EditableTask ==
  ASSUME Inv, NEW id, file # None, id \in DOMAIN file.tasks
  PROVE  /\ lastId \in Nat /\ id \in 1..lastId
         /\ IsGoodFile(file, lastId, started)
         /\ IsGoodTask(id, file.tasks[id], started)
         /\ file.tasks[id] \in Task /\ file.tasks[id].revision \in Nat
BY DEF Inv, IsGoodFile, IsGoodTask, Task

LEMMA ChangeInv ==
  ASSUME SchedulerConstants, Inv, NEW id, NEW input \in Input, NEW answer,
         Change(id, input, answer)
  PROVE  Inv'
<1> DEFINE revision == file.tasks[id].revision
           task == TaskFrom(input, revision + 1)
<1>1. file # None /\ id \in DOMAIN file.tasks /\ lastId' = lastId
  BY DEF Change, IsEditable
<1>2. /\ lastId \in Nat /\ id \in 1..lastId /\ revision \in Nat
      /\ IsGoodFile(file, lastId, started)
      /\ IsGoodTask(id, file.tasks[id], started)
  BY <1>1, EditableTask
<1>3. \A x \in started : x.task = id => x.revision \in Nat /\ x.revision < revision + 1
  BY <1>2 DEF Inv, IsGoodTask, DueExecution
<1>4. now \in Nat /\ revision + 1 \in Nat
  BY <1>2 DEF Inv
<1>5. IsGoodTask(id, task, started)
  BY <1>3, <1>4, TaskFromGood
<1>6. IsGoodFile(WithTask(file, id, task), lastId, started)
  BY <1>2, <1>5, WithTaskGood
<1>7. Edited(WithTask(file, id, task), file, answer)
  BY DEF Change
<1> QED
  BY <1>1, <1>2, <1>6, <1>7, EditedInv

LEMMA SetEnabledInv ==
  ASSUME SchedulerConstants, Inv, NEW id, NEW enabled \in BOOLEAN, NEW answer,
         SetEnabled(id, enabled, answer)
  PROVE  Inv'
<1> DEFINE new == WithTask(file, id, Switched(file.tasks[id], enabled))
<1>1. /\ file # None /\ id \in DOMAIN file.tasks /\ lastId' = lastId
      /\ Edited(new, new, answer)
  BY DEF SetEnabled, IsEditable
<1>2. /\ lastId \in Nat /\ id \in 1..lastId
      /\ IsGoodFile(file, lastId, started)
      /\ IsGoodTask(id, file.tasks[id], started)
  BY <1>1, EditableTask
<1>3. IsGoodTask(id, Switched(file.tasks[id], enabled), started)
  BY <1>2, SwitchedGood DEF Inv
<1>4. IsGoodFile(new, lastId, started)
  BY <1>2, <1>3, WithTaskGood
<1> HIDE DEF new
<1> QED
  BY <1>1, <1>2, <1>4, EditedInv

LEMMA DeleteInv ==
  ASSUME Inv, NEW id, NEW answer, Delete(id, answer)
  PROVE  Inv'
<1> DEFINE new == [file EXCEPT !.tasks = [t \in DOMAIN @ \ {id} |-> @[t]]]
<1>1. /\ file # None /\ id \in DOMAIN file.tasks /\ lastId' = lastId
      /\ Edited(new, new, answer)
  BY DEF Delete
<1>2. lastId \in Nat /\ IsGoodFile(file, lastId, started)
  BY <1>1, EditableTask
<1>3. IsGoodFile(new, lastId, started)
  BY <1>2, WithoutTaskGood
<1> HIDE DEF new
<1> QED
  BY <1>1, <1>2, <1>3, EditedInv

-----------------------------------------------------------------------------
(* tick *)

\* The executions of one tick get ids of their own, above all earlier ones.
LEMMA ExecutionIds ==
  ASSUME Inv, file # None
  PROVE  /\ Cardinality(DueTasks) \in Nat
         /\ \A t \in DueTasks :
              /\ ExecutionOf(t) \in 1..(lastId + Cardinality(DueTasks))
              /\ ExecutionOf(t) > lastId
<1>1. DueTasks \subseteq 1..lastId /\ lastId \in Nat
  BY DEF DueTasks, Inv, IsGoodFile
<1>2. IsFiniteSet(1..lastId)
  BY <1>1, FS_Interval
<1>3. IsFiniteSet(DueTasks) /\ Cardinality(DueTasks) \in Nat
  BY <1>1, <1>2, FS_Subset, FS_CardinalityType
<1>4. ASSUME NEW t \in DueTasks
      PROVE  /\ ExecutionOf(t) \in 1..(lastId + Cardinality(DueTasks))
             /\ ExecutionOf(t) > lastId
  <2> DEFINE upto == {u \in DueTasks : u <= t}
  <2>1. upto \subseteq DueTasks /\ t \in upto
    BY <1>1, <1>4
  <2>2. IsFiniteSet(upto) /\ Cardinality(upto) <= Cardinality(DueTasks)
    BY <1>3, <2>1, FS_Subset
  <2>3. Cardinality(upto) \in Nat /\ Cardinality(upto) # 0
    BY <2>1, <2>2, FS_CardinalityType, FS_EmptySet
  <2>4. ExecutionOf(t) = lastId + Cardinality(upto)
    BY DEF ExecutionOf
  <2> HIDE DEF upto
  <2> QED
    BY <1>1, <1>3, <2>2, <2>3, <2>4
<1> QED
  BY <1>3, <1>4

\* What tick hands out is of a task that was due, with the revision it has.
LEMMA DueExecutionsType ==
  ASSUME Inv, file # None
  PROVE  /\ DueExecutions \subseteq DueExecution
         /\ \A x \in DueExecutions :
              /\ x.task \in DueTasks /\ x.revision = file.tasks[x.task].revision
              /\ x.id = ExecutionOf(x.task) /\ x.actions = Runs(file.tasks[x.task])
<1>1. ASSUME NEW t \in DueTasks
      PROVE  [id |-> ExecutionOf(t), task |-> t, revision |-> file.tasks[t].revision,
              actions |-> Runs(file.tasks[t])] \in DueExecution
  <2>1. t \in DOMAIN file.tasks
    BY <1>1 DEF DueTasks
  <2>2. /\ lastId \in Nat /\ t \in 1..lastId
        /\ file.tasks[t] \in Task /\ file.tasks[t].revision \in Nat
    BY <2>1, EditableTask
  <2>3. ExecutionOf(t) \in Nat
    BY <1>1, <2>2, ExecutionIds
  <2>4. file.tasks[t].actions \in ActionSets
    BY <2>2 DEF Task
  <2>5. Runs(file.tasks[t]) \subseteq UNION ActionSets
    BY <2>4 DEF Runs
  <2> QED
    BY <2>2, <2>3, <2>5 DEF DueExecution
<1> QED
  BY <1>1 DEF DueExecutions

\* The record of an execution that tick has just made.
LEMMA RecordType ==
  ASSUME Inv, file # None, NEW t \in DueTasks
  PROVE  RecordOf(t) \in ExecutionRecord
<1> DEFINE task == file.tasks[t]
           late == task.actions \ Runs(task)
           results == [a \in late |-> "missed"]
<1>1. t \in DOMAIN file.tasks
  BY DEF DueTasks
<1>2. t \in 1..lastId /\ lastId \in Nat /\ task \in Task /\ task.revision \in Nat
  BY <1>1, EditableTask
<1>3. task.actions \in ActionSets
  BY <1>2 DEF Task
<1>4. late \in SUBSET UNION ActionSets
  BY <1>3
<1>5. results \in [late -> Outcome \cup {"missed"}]
  BY DEF Outcome
<1>6. results \in UNION {[S -> Outcome \cup {"missed"}] : S \in SUBSET UNION ActionSets}
  BY <1>4, <1>5
<1>7. RecordOf(t) = [task |-> t, revision |-> task.revision, results |-> results,
                     result |-> IF Runs(task) = {} THEN "missed" ELSE "running"]
  BY DEF RecordOf
<1> HIDE DEF results, task, late
<1> QED
  BY <1>2, <1>6, <1>7 DEF ExecutionRecord

\* The state that tick computes is good, with the executions it hands out.
LEMMA TickedGood ==
  ASSUME SchedulerConstants, Inv, file # None, NEW late, late \subseteq DueExecutions
  PROVE  IsGoodFile(Ticked, lastId + Cardinality(DueTasks), started \cup late)
<1> DEFINE n == lastId + Cardinality(DueTasks)
           begun == started \cup late
           of == [e \in {ExecutionOf(t) : t \in DueTasks} |->
                    CHOOSE t \in DueTasks : ExecutionOf(t) = e]
           tasks == [t \in DOMAIN file.tasks |->
                       IF t \in DueTasks THEN Fired(t) ELSE file.tasks[t]]
           all == [e \in DOMAIN file.history \cup DOMAIN of |->
                     IF e \in DOMAIN of THEN RecordOf(of[e]) ELSE file.history[e]]
           history == PruneHistory(all)
<1>1. Ticked = [tasks |-> tasks, history |-> history]
  BY DEF Ticked
<1>2. /\ lastId \in Nat /\ n \in Nat /\ lastId <= n
      /\ \A t \in DueTasks : ExecutionOf(t) \in 1..n
  BY ExecutionIds DEF Inv
<1>3. DOMAIN tasks \subseteq 1..n
  BY <1>2 DEF Inv, IsGoodFile
<1>4. /\ DOMAIN all \subseteq 1..n
      /\ \A e \in DOMAIN all : all[e] \in ExecutionRecord
  <2>1. \A e \in DOMAIN of : of[e] \in DueTasks
    OBVIOUS
  <2>2. \A e \in DOMAIN of : RecordOf(of[e]) \in ExecutionRecord
    BY <2>1, RecordType
  <2>3. DOMAIN of \subseteq 1..n
    BY <1>2
  <2>4. /\ DOMAIN file.history \subseteq 1..n
        /\ \A e \in DOMAIN file.history : file.history[e] \in ExecutionRecord
    BY <1>2 DEF Inv, IsGoodFile
  <2> HIDE DEF of, n
  <2> QED
    BY <2>2, <2>3, <2>4
<1>5. DOMAIN history \subseteq 1..n /\ \A e \in DOMAIN history : history[e] \in ExecutionRecord
  <2> HIDE DEF all, n
  <2> QED
    BY <1>4 DEF PruneHistory
<1>6. ASSUME NEW t \in DOMAIN file.tasks
      PROVE  IsGoodTask(t, tasks[t], begun)
  <2>1. IsGoodTask(t, file.tasks[t], started)
    BY <1>6, EditableTask
  <2>2. /\ late \subseteq DueExecution
        /\ \A x \in late : x.task \in DueTasks /\ x.revision = file.tasks[x.task].revision
    BY DueExecutionsType
  <2>3. CASE t \in DueTasks
    <3> DEFINE state == IF Runs(file.tasks[t]) = {} THEN "missed" ELSE "running"
    <3>1. ExecutionOf(t) \in Nat
      BY <1>2, <2>3
    <3>2. \A x \in late : x.task = t => x.revision <= file.tasks[t].revision
      BY <2>1, <2>2 DEF IsGoodTask, Task
    <3>3. state \in TaskState
      BY DEF TaskState
    <3>4. tasks[t] = [file.tasks[t] EXCEPT !.enabled = FALSE, !.due = None,
                                           !.last = ExecutionOf(t), !.state = state]
      BY <2>3 DEF Fired
    <3> HIDE DEF state, tasks
    <3>5. IsGoodTask(t, [file.tasks[t] EXCEPT !.enabled = FALSE, !.due = None,
                                              !.last = ExecutionOf(t), !.state = state],
                     started \cup late)
      BY <2>1, <2>2, <3>1, <3>2, <3>3, FiredGood
    <3> QED
      BY <3>4, <3>5
  <2>4. CASE t \notin DueTasks
    <3>1. tasks[t] = file.tasks[t] /\ \A x \in late : x.task # t
      BY <2>2, <2>4
    <3> HIDE DEF tasks
    <3> QED
      BY <2>1, <3>1 DEF IsGoodTask
  <2> QED
    BY <2>3, <2>4
<1> HIDE DEF tasks, history, n, begun
<1>7. IsGoodFile(Ticked, n, begun)
  <2>1. DOMAIN tasks = DOMAIN file.tasks
    BY DEF tasks
  <2> QED
    BY <1>1, <1>3, <1>5, <1>6, <2>1 DEF IsGoodFile
<1> QED
  BY <1>7 DEF n, begun

\* A tick hands each revision out at most once: it was enabled, so no execution of
\* it was handed out before, and the executions of one tick are of different tasks.
LEMMA TickInv ==
  ASSUME SchedulerConstants, Inv, NEW answer, Tick(answer)
  PROVE  Inv'
<1> DEFINE late == IF HandsOut(answer) THEN DueExecutions ELSE {}
           n == lastId + Cardinality(DueTasks)
<1>1. /\ file # None /\ Save(Ticked, Ticked, answer)
      /\ handed' \subseteq handed \cup late /\ started' = started \cup late
      /\ lastId' = n /\ now' = now
  BY DEF Tick, Handed
<1>2. late \subseteq DueExecutions /\ (answer # "ok" => late = {})
  BY DEF HandsOut
<1>3. Cardinality(DueTasks) \in Nat
  BY <1>1, ExecutionIds
<1>4. IsGoodFile(Ticked, n, started')
  BY <1>1, <1>2, TickedGood
<1>5. /\ late \subseteq DueExecution
      /\ \A x \in late :
           /\ x.task \in DueTasks /\ x.revision = file.tasks[x.task].revision
           /\ x.id = ExecutionOf(x.task) /\ x.actions = Runs(file.tasks[x.task])
  BY <1>1, <1>2, DueExecutionsType
<1> HIDE DEF late, n
<1>6. lastId \in Nat /\ n \in Nat /\ lastId <= n
  BY <1>3 DEF Inv, n
<1>7. answer # "ok" /\ disk # None => IsGoodFile(disk, n, started')
  <2>1. disk # None => IsGoodFile(disk, n, started)
    BY <1>6, GoodFileGrows DEF Inv
  <2> QED
    BY <1>1, <1>2, <2>1
<1>8. /\ file' # None => IsGoodFile(file', n, started')
      /\ disk' # None => IsGoodFile(disk', n, started')
      /\ faults' \in Nat
  BY <1>1, <1>4, <1>7, SaveGood DEF Inv
<1>9. OncePerRevision'
  <2>1. ASSUME NEW x \in started, NEW y \in late
        PROVE  ~(x.task = y.task /\ x.revision = y.revision)
    <3>1. /\ y.task \in DOMAIN file.tasks /\ file.tasks[y.task].enabled
          /\ y.revision = file.tasks[y.task].revision
      BY <1>5, <2>1 DEF DueTasks
    <3>2. IsGoodTask(y.task, file.tasks[y.task], started)
      BY <1>1, <3>1, EditableTask
    <3>3. x.task = y.task => x.revision < y.revision
      BY <2>1, <3>1, <3>2 DEF IsGoodTask
    <3>4. x.revision \in Nat /\ y.revision \in Nat
      BY <1>5, <2>1 DEF Inv, DueExecution
    <3> QED
      BY <3>3, <3>4
  <2>2. ASSUME NEW x \in late, NEW y \in late, x.task = y.task
        PROVE  x = y
    <3>1. /\ x = [id |-> x.id, task |-> x.task, revision |-> x.revision, actions |-> x.actions]
          /\ y = [id |-> y.id, task |-> y.task, revision |-> y.revision, actions |-> y.actions]
      BY <1>5, <2>2 DEF DueExecution
    <3>2. x.id = y.id /\ x.revision = y.revision /\ x.actions = y.actions
      BY <1>5, <2>2
    <3> QED
      BY <2>2, <3>1, <3>2
  <2> QED
    BY <1>1, <2>1, <2>2 DEF Inv, OncePerRevision
<1>10. \A x \in started' : x.task <= lastId' /\ x.id <= lastId'
  <2>1. \A x \in late : x.task \in 1..lastId
    BY <1>1, <1>5 DEF DueTasks, Inv, IsGoodFile
  <2>2. \A x \in late : x.id \in 1..n
    BY <1>1, <1>5, ExecutionIds DEF n
  <2> QED
    BY <1>1, <1>6, <2>1, <2>2 DEF Inv, DueExecution
<1>11. handed' \subseteq started' /\ started' \subseteq DueExecution
  BY <1>1, <1>5 DEF Inv
<1> QED
  BY <1>1, <1>6, <1>8, <1>9, <1>10, <1>11 DEF Inv

-----------------------------------------------------------------------------
(* complete_execution, open and the end of the process *)

\* The state that complete_execution computes is good: it settles one record, and a
\* task only when that is its last execution, which no task has that is switched on.
LEMMA CompletedGood ==
  ASSUME SchedulerConstants, Inv, file # None, NEW x \in DueExecution, x.id \in DOMAIN file.history,
         NEW results \in ResultsOf(x)
  PROVE  IsGoodFile(Completed(x.id, results), lastId, started)
<1> DEFINE id  == x.id
           old == file.history[id]
           all == [a \in DOMAIN old.results \cup DOMAIN results |->
                     IF a \in DOMAIN results THEN results[a] ELSE old.results[a]]
           tasks == [t \in DOMAIN file.tasks |->
                       IF IsOfExecution(t, id)
                       THEN [file.tasks[t] EXCEPT !.state = Summary(all)] ELSE file.tasks[t]]
           history == [file.history EXCEPT ![id].results = all, ![id].result = Summary(all)]
<1>1. Completed(id, results) = [tasks |-> tasks, history |-> history]
  BY DEF Completed
<1>2. IsGoodFile(file, lastId, started) /\ old \in ExecutionRecord /\ id \in Nat
  BY DEF Inv, IsGoodFile, DueExecution
<1>3. all \in UNION {[S -> Outcome \cup {"missed"}] : S \in SUBSET UNION ActionSets}
  <2>1. x.actions \in SUBSET UNION ActionSets /\ results \in [x.actions -> Outcome]
    BY DEF DueExecution, ResultsOf
  <2>2. PICK S \in SUBSET UNION ActionSets : old.results \in [S -> Outcome \cup {"missed"}]
    BY <1>2 DEF ExecutionRecord
  <2>3. S \cup x.actions \in SUBSET UNION ActionSets
    BY <2>1
  <2>4. all \in [S \cup x.actions -> Outcome \cup {"missed"}]
    BY <2>1, <2>2
  <2> HIDE DEF all
  <2> QED
    BY <2>3, <2>4
<1>4. Summary(all) \in {"succeeded", "partially_succeeded", "missed", "failed"}
  BY DEF Summary
<1>5. ASSUME NEW t \in DOMAIN file.tasks
      PROVE  IsGoodTask(t, tasks[t], started)
  <2>1. IsGoodTask(t, file.tasks[t], started)
    BY <1>2, <1>5 DEF IsGoodFile
  <2>2. CASE IsOfExecution(t, id)
    <3>1. tasks[t] = [file.tasks[t] EXCEPT !.state = Summary(all)]
      BY <1>5, <2>2
    <3>2. ~file.tasks[t].enabled
      BY <1>2, <2>1, <2>2 DEF IsGoodTask, IsOfExecution, SchedulerConstants
    <3>3. Summary(all) \in TaskState
      BY <1>4 DEF TaskState
    <3> HIDE DEF tasks, all
    <3>4. IsGoodTask(t, [file.tasks[t] EXCEPT !.state = Summary(all)], started)
      BY <2>1, <3>2, <3>3, SettledGood
    <3> QED
      BY <3>1, <3>4
  <2>3. CASE ~IsOfExecution(t, id)
    BY <1>5, <2>1, <2>3
  <2> QED
    BY <2>2, <2>3
<1>6. DOMAIN history = DOMAIN file.history /\ \A e \in DOMAIN history : history[e] \in ExecutionRecord
  <2> DEFINE new == history[id]
  <2>1. new = [task |-> old.task, revision |-> old.revision, results |-> all,
               result |-> Summary(all)]
    BY <1>2 DEF ExecutionRecord
  <2>2. old.task \in Nat /\ old.revision \in Nat
    BY <1>2 DEF ExecutionRecord
  <2>3. \A e \in DOMAIN file.history : e # id => history[e] = file.history[e]
    OBVIOUS
  <2>4. DOMAIN history = DOMAIN file.history
    OBVIOUS
  <2> HIDE DEF all, history, old
  <2>5. new \in ExecutionRecord
    BY <1>3, <1>4, <2>1, <2>2 DEF ExecutionRecord
  <2> QED
    BY <1>2, <2>3, <2>4, <2>5 DEF IsGoodFile
<1>7. DOMAIN tasks = DOMAIN file.tasks
  OBVIOUS
<1> HIDE DEF tasks, history
<1> QED
  BY <1>1, <1>2, <1>5, <1>6, <1>7 DEF IsGoodFile

LEMMA CompleteInv ==
  ASSUME SchedulerConstants, Inv, NEW x \in handed, NEW results \in ResultsOf(x), NEW answer,
         Complete(x, results, answer)
  PROVE  Inv'
<1> DEFINE new == Completed(x.id, results)
<1>1. /\ file # None /\ now' = now /\ started' = started /\ lastId' = lastId
      /\ handed' \subseteq handed /\ x \in DueExecution
  BY DEF Complete, Handed, Inv
<1>2. CASE x.id \in DOMAIN file.history /\ Save(new, new, answer)
  <2>1. IsGoodFile(new, lastId, started)
    BY <1>1, <1>2, CompletedGood
  <2> HIDE DEF new
  <2>2. /\ file' # None => IsGoodFile(file', lastId, started)
        /\ disk' # None => IsGoodFile(disk', lastId, started)
        /\ faults' \in Nat
    BY <1>2, <2>1, SaveGood DEF Inv
  <2> QED
    BY <1>1, <2>2 DEF Inv, OncePerRevision
<1>3. CASE UNCHANGED <<file, disk, faults>>
  BY <1>1, <1>3 DEF Inv, OncePerRevision
<1> QED
  BY <1>2, <1>3 DEF Complete

\* A file that has just been created is good, whatever was handed out before it.
LEMMA EmptyFileGood ==
  ASSUME NEW n, NEW begun
  PROVE  IsGoodFile(EmptyFile, n, begun)
<1>1. DOMAIN << >> = {}
  OBVIOUS
<1> QED
  BY <1>1 DEF EmptyFile, IsGoodFile

LEMMA OpenInv ==
  ASSUME SchedulerConstants, Inv, NEW answer, Open(answer)
  PROVE  Inv'
<1> DEFINE old == IF disk = None THEN EmptyFile ELSE disk
           new == Reconciled(old)
<1>1. IsGoodFile(old, lastId, started) /\ lastId \in Nat
  BY EmptyFileGood DEF Inv
<1>2. IsGoodFile(new, lastId, started)
  BY <1>1, ReconciledGood
<1>3. UNCHANGED <<now, started, lastId>> /\ handed' \subseteq handed
  BY DEF Open, Handed
<1>4. \/ file' = new /\ UNCHANGED <<disk, faults>>
      \/ Save(new, None, answer)
  BY DEF Open
<1> HIDE DEF new
<1>5. /\ file' # None => IsGoodFile(file', lastId, started)
      /\ disk' # None => IsGoodFile(disk', lastId, started)
      /\ faults' \in Nat
  BY <1>2, <1>4, SaveGood DEF Inv
<1> QED
  BY <1>3, <1>5 DEF Inv, OncePerRevision

\* The invariant holds when the program starts.
LEMMA InitInv == SchedulerConstants /\ Init => Inv
BY EmptyFileGood DEF Init, Inv, OncePerRevision

\* The invariant is inductive.
LEMMA NextInv ==
  ASSUME SchedulerConstants, Inv, [Next]_schedulerVars
  PROVE  Inv'
<1>1. ASSUME NEW answer \in Answer, Edit(answer)
      PROVE  Inv'
  BY <1>1, CreateInv, ChangeInv, SetEnabledInv, DeleteInv DEF Edit
<1>2. ASSUME NEW answer \in Answer, NEW x \in handed, NEW results \in ResultsOf(x),
             Complete(x, results, answer)
      PROVE  Inv'
  BY <1>2, CompleteInv
<1>3. CASE Crash
  BY <1>3 DEF Crash, Fault, Inv, OncePerRevision
<1>4. CASE Advance
  BY <1>4 DEF Advance, Inv, OncePerRevision
<1>5. CASE UNCHANGED schedulerVars
  BY <1>5 DEF schedulerVars, Inv, OncePerRevision
<1> QED
  BY <1>1, <1>2, <1>3, <1>4, <1>5, TickInv, OpenInv DEF Next

\* The invariant holds in every state of the scheduler.
THEOREM Invariance == Spec => []Inv
<1>1. Init => Inv
  BY SchedulerConstants, InitInv
<1>2. Inv /\ [Next]_schedulerVars => Inv'
  BY SchedulerConstants, NextInv
<1> QED
  BY <1>1, <1>2, PTL DEF Spec

\* Every variable keeps its type: whatever the editor, tick, complete_execution and open
\* do and whatever writes fail, the state in memory and the one in the file
\* are such as the operations expect.
THEOREM TypeCorrect == Spec => []TypeOK
<1>1. Inv => TypeOK
  BY DEF Inv, TypeOK, IsGoodFile, IsGoodTask, IsSchedulerFile
<1> QED
  BY <1>1, Invariance, PTL

\* tick executes one revision of a task at most once, however many writes fail and
\* however often the process dies and opens the file again.
THEOREM ExecutedOnce == Spec => []OncePerRevision
<1>1. Inv => OncePerRevision
  BY DEF Inv
<1> QED
  BY <1>1, Invariance, PTL

\* An edit wins over an execution that is still under way: complete_execution never
\* settles a task that is switched on.
THEOREM EditsWin == Spec => []EnabledIsArmed
<1>1. Inv => EnabledIsArmed
  BY DEF Inv, EnabledIsArmed, IsGoodFile, IsGoodTask
<1> QED
  BY <1>1, Invariance, PTL

-----------------------------------------------------------------------------
(* The journal *)

(* HandedIsJournaled holds as long as prune_history keeps the record: no more  *)
(* than MaxHistory ids may have been given since the execution began.  Stated  *)
(* for each execution by itself, this is inductive, for ids only grow.         *)

IsRecent(e) == lastId - e < MaxHistory

Recorded(f, x) ==
  /\ x.id \in DOMAIN f.history
  /\ f.history[x.id].task = x.task /\ f.history[x.id].revision = x.revision
  /\ f.history[x.id].result = "running"

JournalInv ==
  /\ \A x, y \in handed : x.id = y.id => x = y
  /\ file = None => handed = {}
  /\ \A x \in handed : IsRecent(x.id) =>
       Recorded(file, x) /\ disk # None /\ Recorded(disk, x)

\* No write fails.
WritesSucceed == "write" \notin FaultKinds

\* The file is there whatever becomes of a write, for as long as the process lives:
\* a rename replaces it, or no write fails.
FileSurvives == Renames \/ WritesSucceed

\* persist leaves what was and will be recorded in the file.
LEMMA SaveKeepsRecord ==
  ASSUME FileSurvives, NEW new, NEW left, NEW answer, Save(new, left, answer), answer # "crash",
         NEW x, disk # None, Recorded(disk, x), new # None, Recorded(new, x)
  PROVE  disk' # None /\ Recorded(disk', x)
<1>1. disk' \in {disk, new}
  BY DEF Save, Torn, FileSurvives, WritesSucceed, Fault
<1> QED
  BY <1>1

\* None stands for no file at all.
NoneIsNoFile == \A tasks, history : [tasks |-> tasks, history |-> history] # None

IsFile(f) == f = [tasks |-> f.tasks, history |-> f.history]

LEMMA FileIsNotNone ==
  ASSUME NoneIsNoFile, NEW f, IsFile(f)
  PROVE  f # None
BY DEF NoneIsNoFile, IsFile

\* What is recent was recent before.
LEMMA RecentBefore ==
  ASSUME SchedulerConstants, lastId \in Nat, lastId' \in Nat, lastId <= lastId',
         NEW e \in Nat, IsRecent(e)'
  PROVE  IsRecent(e)
<1>1. MaxHistory \in Nat
  BY DEF SchedulerConstants
<1>2. lastId' - e < MaxHistory
  BY DEF IsRecent
<1>3. \A a, b \in Nat : a <= b /\ b - e < MaxHistory => a - e < MaxHistory
  BY <1>1
<1>4. lastId - e < MaxHistory
  BY <1>2, <1>3
<1> QED
  BY <1>4 DEF IsRecent

\* An operation that hands nothing out and keeps the records of what is under way
\* keeps the journal.
LEMMA JournalKept ==
  ASSUME SchedulerConstants, Inv, JournalInv, FileSurvives,
         NEW new, NEW left, NEW answer, Save(new, left, answer),
         handed' \subseteq handed, answer = "crash" => handed' = {},
         file # None, lastId' \in Nat, lastId <= lastId', new # None, left # None,
         \A x \in handed' : Recorded(file, x) => Recorded(new, x) /\ Recorded(left, x)
  PROVE  JournalInv'
<1>1. CASE answer = "crash"
  BY <1>1 DEF JournalInv
<1>2. CASE answer # "crash"
  <2>1. file' \in {new, left} /\ file' # None
    BY <1>2 DEF Save
  <2>2. ASSUME NEW x \in handed', IsRecent(x.id)'
        PROVE  Recorded(file', x) /\ disk' # None /\ Recorded(disk', x)
    <3>1. x \in handed /\ x.id \in Nat /\ lastId \in Nat
      BY <2>2 DEF Inv, DueExecution
    <3>2. IsRecent(x.id)
      BY <2>2, <3>1, RecentBefore
    <3>3. Recorded(file, x) /\ disk # None /\ Recorded(disk, x)
      BY <3>1, <3>2 DEF JournalInv
    <3>4. Recorded(new, x) /\ Recorded(left, x)
      BY <2>2, <3>3
    <3> QED
      BY <1>2, <2>1, <3>3, <3>4, SaveKeepsRecord
  <2>3. \A x \in handed' : IsRecent(x.id)' => (Recorded(file, x) /\ disk # None /\ Recorded(disk, x))'
    BY <2>2 DEF Recorded
  <2> QED
    BY <2>1, <2>3 DEF JournalInv
<1> QED
  BY <1>1, <1>2

\* The editor's operations change no record and set no task running: what they write,
\* and what they leave when they cannot, has the history there was.
EditKeeps(f, new) ==
  /\ IsFile(new) /\ new.history = f.history
  /\ \A t \in DOMAIN new.tasks : new.tasks[t].state = "running" =>
       t \in DOMAIN f.tasks /\ new.tasks[t] = f.tasks[t]

LEMMA EditHistory ==
  ASSUME Inv, NEW answer, Edit(answer)
  PROVE  /\ file # None /\ lastId' \in Nat /\ lastId <= lastId'
         /\ \E new, left :
              Edited(new, left, answer) /\ EditKeeps(file, new) /\ EditKeeps(file, left)
<1>1. file # None => /\ IsFile(file) /\ lastId \in Nat
                     /\ \A t \in DOMAIN file.tasks : file.tasks[t] \in Task
  BY DEF Inv, IsGoodFile, IsGoodTask, IsFile
<1>2. ASSUME file # None, NEW id, NEW task, task.state # "running"
      PROVE  EditKeeps(file, WithTask(file, id, task))
  <2> DEFINE tasks == [t \in DOMAIN file.tasks \cup {id} |-> IF t = id THEN task ELSE file.tasks[t]]
  <2>1. WithTask(file, id, task) = [tasks |-> tasks, history |-> file.history]
    BY <1>1, <1>2 DEF WithTask, IsFile
  <2>2. \A t \in DOMAIN tasks : tasks[t].state = "running" =>
          t \in DOMAIN file.tasks /\ tasks[t] = file.tasks[t]
    BY <1>2
  <2> HIDE DEF tasks
  <2> QED
    BY <2>1, <2>2 DEF EditKeeps, IsFile
<1>a. \A input, revision : TaskFrom(input, revision).state # "running"
  BY DEF TaskFrom
<1>b. \A task \in Task, enabled \in BOOLEAN : Switched(task, enabled).state # "running"
  BY DEF Switched, Task
<1>3. ASSUME NEW input \in Input, Create(input, answer)
      PROVE  /\ file # None /\ lastId' = lastId + 1
             /\ Edited(WithTask(file, lastId + 1, TaskFrom(input, 1)), file, answer)
  BY <1>3 DEF Create
<1>4. ASSUME NEW id, NEW input \in Input, Change(id, input, answer)
      PROVE  /\ file # None /\ lastId' = lastId
             /\ \E task : /\ task.state # "running"
                          /\ Edited(WithTask(file, id, task), file, answer)
  BY <1>a, <1>4 DEF Change, IsEditable
<1>5. ASSUME NEW id, NEW enabled \in BOOLEAN, SetEnabled(id, enabled, answer)
      PROVE  /\ file # None /\ lastId' = lastId
             /\ \E task : /\ task.state # "running"
                          /\ Edited(WithTask(file, id, task), WithTask(file, id, task), answer)
  BY <1>1, <1>b, <1>5 DEF SetEnabled, IsEditable
<1>6. ASSUME NEW id, Delete(id, answer)
      PROVE  /\ file # None /\ lastId' = lastId
             /\ \E new : Edited(new, new, answer) /\ EditKeeps(file, new)
  <2> DEFINE new == [file EXCEPT !.tasks = [t \in DOMAIN @ \ {id} |-> @[t]]]
             tasks == [t \in DOMAIN file.tasks \ {id} |-> file.tasks[t]]
  <2>1. file # None /\ lastId' = lastId /\ Edited(new, new, answer)
    BY <1>6 DEF Delete
  <2>2. new = [tasks |-> tasks, history |-> file.history]
    BY <1>1, <2>1 DEF IsFile
  <2>4. \A t \in DOMAIN tasks : t \in DOMAIN file.tasks /\ tasks[t] = file.tasks[t]
    OBVIOUS
  <2> HIDE DEF new, tasks
  <2>3. EditKeeps(file, new)
    BY <2>2, <2>4 DEF EditKeeps, IsFile
  <2> QED
    BY <2>1, <2>3
<1>7. file # None => EditKeeps(file, file)
  BY <1>1 DEF EditKeeps
<1>8. CASE \E input \in Input : Create(input, answer)
  BY <1>1, <1>2, <1>a, <1>3, <1>7, <1>8
<1>9. CASE \E id : \/ \E input \in Input : Change(id, input, answer)
                  \/ \E enabled \in BOOLEAN : SetEnabled(id, enabled, answer)
                  \/ Delete(id, answer)
  BY <1>1, <1>2, <1>4, <1>5, <1>6, <1>7, <1>9
<1> QED
  BY <1>8, <1>9 DEF Edit

LEMMA EditJournal ==
  ASSUME SchedulerConstants, NoneIsNoFile, Inv, JournalInv, FileSurvives, NEW answer, Edit(answer)
  PROVE  JournalInv'
<1>1. file # None /\ lastId' \in Nat /\ lastId <= lastId'
  BY EditHistory
<1>2. PICK new, left :
        Edited(new, left, answer) /\ EditKeeps(file, new) /\ EditKeeps(file, left)
  BY EditHistory
<1>3. new # None /\ left # None
  BY <1>2, FileIsNotNone DEF EditKeeps
<1>4. /\ Save(new, left, answer)
      /\ handed' \subseteq handed /\ (answer = "crash" => handed' = {})
  BY <1>2 DEF Edited, Handed
<1>5. \A x \in handed' : Recorded(file, x) => Recorded(new, x) /\ Recorded(left, x)
  BY <1>2 DEF EditKeeps, Recorded
<1> QED
  BY <1>1, <1>3, <1>4, <1>5, JournalKept

\* Two executions of one tick have two ids.
LEMMA ExecutionIdsDiffer ==
  ASSUME Inv, file # None, NEW t \in DueTasks, NEW u \in DueTasks, ExecutionOf(t) = ExecutionOf(u)
  PROVE  t = u
<1>1. DueTasks \subseteq 1..lastId /\ lastId \in Nat
  BY DEF DueTasks, Inv, IsGoodFile
<1>0. IsFiniteSet(1..lastId)
  BY <1>1, FS_Interval
<1>2. IsFiniteSet(DueTasks)
  BY <1>0, <1>1, FS_Subset
<1> DEFINE upto(v) == {x \in DueTasks : x <= v}
<1>3. \A v \in DueTasks : /\ IsFiniteSet(upto(v)) /\ Cardinality(upto(v)) \in Nat
                          /\ ExecutionOf(v) = lastId + Cardinality(upto(v))
  BY <1>2, FS_Subset, FS_CardinalityType DEF ExecutionOf
<1>4. ASSUME NEW v \in DueTasks, NEW w \in DueTasks, v < w
      PROVE  Cardinality(upto(v)) # Cardinality(upto(w))
  <2>0. v \in Nat /\ w \in Nat /\ \A x \in DueTasks : x \in Nat
    BY <1>1
  <2>2. \A x \in DueTasks : x <= v => x <= w
    BY <2>0, <1>4
  <2>3. w <= w /\ ~(w <= v)
    BY <2>0, <1>4
  <2>1. upto(v) \subseteq upto(w) /\ w \in upto(w) /\ w \notin upto(v)
    BY <2>2, <2>3
  <2> HIDE DEF upto
  <2> QED
    BY <1>3, <2>1, FS_Subset
<1>5. Cardinality(upto(t)) = Cardinality(upto(u))
  BY <1>1, <1>3
<1> HIDE DEF upto
<1> QED
  BY <1>1, <1>4, <1>5

\* The youngest MaxHistory records survive prune_history.
LEMMA PruneKeepsRecent ==
  ASSUME SchedulerConstants, NEW n \in Nat, NEW history, DOMAIN history \subseteq 1..n,
         NEW e \in DOMAIN history, n - e < MaxHistory
  PROVE  e \in DOMAIN PruneHistory(history) /\ PruneHistory(history)[e] = history[e]
<1> DEFINE younger == {f \in DOMAIN history : f > e}
<1>1. e \in 1..n /\ MaxHistory \in Nat
  BY DEF SchedulerConstants
<1>2. younger \subseteq (e + 1)..n
  BY <1>1
<1>3. IsFiniteSet((e + 1)..n) /\ Cardinality((e + 1)..n) = n - e
  <2>1. e + 1 \in Int /\ n \in Int /\ (e + 1 > n => n - e = 0) /\ n - (e + 1) + 1 = n - e
    BY <1>1
  <2>2. /\ IsFiniteSet((e + 1)..n)
        /\ Cardinality((e + 1)..n) = IF e + 1 > n THEN 0 ELSE n - (e + 1) + 1
    BY <2>1, FS_Interval
  <2> QED
    BY <2>1, <2>2
<1>4. Cardinality(younger) <= n - e /\ Cardinality(younger) \in Nat
  BY <1>2, <1>3, FS_Subset, FS_CardinalityType
<1>5. Cardinality(younger) < MaxHistory
  BY <1>1, <1>4
<1> QED
  BY <1>5 DEF PruneHistory

\* Of the records tick leaves, those that are recent are the ones there were and those
\* of what it fires.
LEMMA TickedHistory ==
  ASSUME SchedulerConstants, Inv, file # None, lastId' = lastId + Cardinality(DueTasks),
         NEW e \in Nat, IsRecent(e)'
  PROVE  /\ e \in DOMAIN file.history => /\ e \in DOMAIN Ticked.history
                                         /\ Ticked.history[e] = file.history[e]
         /\ \A t \in DueTasks : e = ExecutionOf(t) =>
              e \in DOMAIN Ticked.history /\ Ticked.history[e] = RecordOf(t)
<1> DEFINE of == [f \in {ExecutionOf(t) : t \in DueTasks} |->
                    CHOOSE t \in DueTasks : ExecutionOf(t) = f]
           all == [f \in DOMAIN file.history \cup DOMAIN of |->
                     IF f \in DOMAIN of THEN RecordOf(of[f]) ELSE file.history[f]]
<1>1. /\ lastId \in Nat /\ lastId' \in Nat /\ lastId <= lastId'
      /\ \A t \in DueTasks : ExecutionOf(t) \in 1..lastId' /\ ExecutionOf(t) > lastId
      /\ DOMAIN file.history \subseteq 1..lastId
  BY ExecutionIds DEF Inv, IsGoodFile
<1>2. DOMAIN all = DOMAIN file.history \cup DOMAIN of
  OBVIOUS
<1>3. DOMAIN all \subseteq 1..lastId'
  BY <1>1
<1>4. Ticked.history = PruneHistory(all)
  BY DEF Ticked
<1>5. lastId' - e < MaxHistory
  BY DEF IsRecent
<1>6. ASSUME NEW t \in DueTasks, e = ExecutionOf(t)
      PROVE  e \in DOMAIN all /\ all[e] = RecordOf(t)
  <2>1. e \in DOMAIN of /\ of[e] \in DueTasks /\ ExecutionOf(of[e]) = e
    BY <1>6
  <2>2. of[e] = t
    BY <1>6, <2>1, ExecutionIdsDiffer
  <2> HIDE DEF of
  <2> QED
    BY <2>1, <2>2
<1>7. ASSUME e \in DOMAIN file.history
      PROVE  e \in DOMAIN all /\ all[e] = file.history[e]
  BY <1>1, <1>7
<1> HIDE DEF all, of
<1>8. e \in DOMAIN all => e \in DOMAIN PruneHistory(all) /\ PruneHistory(all)[e] = all[e]
  BY <1>1, <1>3, <1>5, PruneKeepsRecent
<1> QED
  BY <1>4, <1>6, <1>7, <1>8

LEMMA TickJournal ==
  ASSUME SchedulerConstants, NoneIsNoFile, Inv, JournalInv, FileSurvives,
         NEW answer, Tick(answer)
  PROVE  JournalInv'
<1>1. /\ file # None /\ Save(Ticked, Ticked, answer)
      /\ lastId' = lastId + Cardinality(DueTasks)
  BY DEF Tick
<1>2. lastId \in Nat /\ lastId' \in Nat /\ lastId <= lastId'
  BY <1>1, ExecutionIds DEF Inv
<1>3. CASE answer = "crash"
  BY <1>3 DEF JournalInv, Tick, Handed, Save
<1>4. ASSUME answer # "crash", NEW x \in handed, IsRecent(x.id)'
      PROVE  Recorded(Ticked, x) /\ disk' # None /\ Recorded(disk', x)
  <2>1. x.id \in Nat
    BY <1>4 DEF Inv, DueExecution
  <2>2. IsRecent(x.id)
    BY <1>2, <1>4, <2>1, RecentBefore
  <2>3. Recorded(file, x) /\ disk # None /\ Recorded(disk, x)
    BY <1>4, <2>2 DEF JournalInv
  <2>4. Recorded(Ticked, x)
    BY <1>1, <1>4, <2>1, <2>3, TickedHistory DEF Recorded
  <2>5. Ticked # None
    BY FileIsNotNone DEF IsFile, Ticked
  <2> QED
    BY <1>1, <1>4, <2>3, <2>4, <2>5, SaveKeepsRecord
<1>5. ASSUME answer = "ok", NEW x \in DueExecutions, IsRecent(x.id)'
      PROVE  Recorded(Ticked, x) /\ disk' = Ticked
  <2>1. /\ x.task \in DueTasks /\ x.revision = file.tasks[x.task].revision
        /\ x.id = ExecutionOf(x.task) /\ x.id \in Nat
        /\ Runs(file.tasks[x.task]) # {}
    BY <1>1, <1>5, DueExecutionsType DEF DueExecutions, DueExecution
  <2>2. x.id \in DOMAIN Ticked.history /\ Ticked.history[x.id] = RecordOf(x.task)
    BY <1>1, <1>5, <2>1, TickedHistory
  <2>3. Recorded(Ticked, x)
    BY <2>1, <2>2 DEF Recorded, RecordOf
  <2> QED
    BY <1>1, <1>5, <2>3 DEF Save
<1>6. CASE answer # "crash"
  <2>1. handed' = handed \cup (IF answer = "ok" THEN DueExecutions ELSE {})
    BY <1>6 DEF Tick, Handed, HandsOut
  <2>2. file' = Ticked /\ Ticked # None
    BY <1>1, <1>6, FileIsNotNone DEF Save, IsFile, Ticked
  <2>3. \A x \in handed' : IsRecent(x.id)' => (Recorded(file, x) /\ disk # None /\ Recorded(disk, x))'
    BY <1>4, <1>5, <1>6, <2>1, <2>2 DEF Recorded
  <2>4. \A x, y \in handed' : x.id = y.id => x = y
    <3>1. ASSUME NEW x \in DueExecutions, NEW y \in DueExecutions, x.id = y.id
          PROVE  x = y
      <4>1. /\ x.task \in DueTasks /\ x.id = ExecutionOf(x.task)
            /\ y.task \in DueTasks /\ y.id = ExecutionOf(y.task)
        BY <1>1, <3>1, DueExecutionsType
      <4>2. x.task = y.task
        BY <1>1, <3>1, <4>1, ExecutionIdsDiffer
      <4> QED
        BY <3>1, <4>2 DEF DueExecutions
    <3>2. ASSUME NEW x \in handed, NEW y \in DueExecutions
          PROVE  x.id # y.id
      <4>1. x.id <= lastId /\ x.id \in Nat
        BY <3>2 DEF Inv, DueExecution
      <4>2. y.id > lastId
        BY <1>1, <3>2, DueExecutionsType, ExecutionIds
      <4>3. y.id \in Nat
        BY <1>1, <3>2, DueExecutionsType DEF DueExecution
      <4> QED
        BY <1>2, <4>1, <4>2, <4>3
    <3> QED
      BY <2>1, <3>1, <3>2 DEF JournalInv
  <2> QED
    BY <2>2, <2>3, <2>4 DEF JournalInv
<1> QED
  BY <1>3, <1>6

\* complete_execution settles one record: the others are of other executions.
LEMMA CompleteJournal ==
  ASSUME SchedulerConstants, NoneIsNoFile, Inv, JournalInv, FileSurvives,
         NEW x \in handed, NEW results \in ResultsOf(x), NEW answer,
         Complete(x, results, answer)
  PROVE  JournalInv'
<1> DEFINE new == Completed(x.id, results)
<1>1. /\ file # None /\ lastId' = lastId /\ lastId \in Nat
      /\ handed' \subseteq handed \ {x} /\ (answer = "crash" => handed' = {})
  BY DEF Complete, Handed, Inv
<1>2. CASE x.id \in DOMAIN file.history /\ Save(new, new, answer)
  <2>1. new # None
    BY FileIsNotNone DEF IsFile, Completed
  <2>2. ASSUME NEW y \in handed', Recorded(file, y)
        PROVE  Recorded(new, y)
    <3>1. y.id # x.id
      BY <1>1, <2>2 DEF JournalInv
    <3> QED
      BY <2>2, <3>1 DEF Recorded, Completed
  <2> HIDE DEF new
  <2> QED
    BY <1>1, <1>2, <2>1, <2>2, JournalKept
<1>3. CASE UNCHANGED <<file, disk, faults>>
  BY <1>1, <1>3 DEF JournalInv, Recorded, IsRecent
<1> QED
  BY <1>2, <1>3 DEF Complete

LEMMA InitJournal ==
  ASSUME NoneIsNoFile, Init
  PROVE  JournalInv
BY DEF Init, JournalInv

LEMMA NextJournal ==
  ASSUME SchedulerConstants, NoneIsNoFile, Inv, JournalInv, FileSurvives, [Next]_schedulerVars
  PROVE  JournalInv'
<1>1. ASSUME NEW answer \in Answer, Open(answer)
      PROVE  JournalInv'
  BY <1>1 DEF Open, Handed, JournalInv
<1>2. CASE Crash
  BY <1>2 DEF Crash, JournalInv
<1>3. CASE Advance \/ UNCHANGED schedulerVars
  BY <1>3 DEF Advance, schedulerVars, JournalInv, Recorded, IsRecent
<1> QED
  BY <1>1, <1>2, <1>3, EditJournal, TickJournal, CompleteJournal DEF Next

RunsAreRecent == \A x \in handed : IsRecent(x.id)

\* docs 7.2: the start of an execution is in the file before the platform acts, for
\* any tasks and histories: whatever crashes, and on Windows as long as no write
\* fails, every execution under way has its open record in the file, as long as
\* prune_history does not reach one of them.
THEOREM StartsAreJournaled ==
  ASSUME NoneIsNoFile, FileSurvives
  PROVE  Spec => [](RunsAreRecent => HandedIsJournaled)
<1>1. Init => JournalInv
  BY InitJournal
<1>2. Inv /\ JournalInv /\ [Next]_schedulerVars => JournalInv'
  BY SchedulerConstants, NextJournal
<1>3. JournalInv => (RunsAreRecent => HandedIsJournaled)
  BY DEF JournalInv, RunsAreRecent, HandedIsJournaled, Recorded
<1> QED
  BY <1>1, <1>2, <1>3, Invariance, PTL DEF Spec

-----------------------------------------------------------------------------
(* Running tasks *)

(* RunningIsUnderWay holds while no write fails, again for each execution that *)
(* prune_history cannot have reached: a restart settles exactly the tasks whose *)
(* record is open, so the record is needed for the task not to run for ever.   *)

\* A running task of a file has an open record in it.
RunningHasRecord(f, n) ==
  \A t \in DOMAIN f.tasks : f.tasks[t].state = "running" =>
    LET e == f.tasks[t].last IN
    /\ e \in Nat
    /\ n - e < MaxHistory =>
         /\ e \in DOMAIN f.history
         /\ f.history[e].task = t /\ f.history[e].result = "running"

\* The platform works on the execution of every running task.
RunningInHand(f, n, set) ==
  \A t \in DOMAIN f.tasks :
    f.tasks[t].state = "running" /\ n - f.tasks[t].last < MaxHistory =>
      \E x \in set : x.id = f.tasks[t].last /\ x.task = t

RunningInv ==
  /\ file # None => file = disk /\ RunningInHand(file, lastId, handed)
  /\ disk # None => RunningHasRecord(disk, lastId)

\* Ids that are given later make no execution recent.
LEMMA RecentLater ==
  ASSUME SchedulerConstants, NEW n \in Nat, NEW m \in Nat, n <= m
  PROVE  \A e \in Nat : m - e < MaxHistory => n - e < MaxHistory
<1>1. MaxHistory \in Nat
  BY DEF SchedulerConstants
<1> QED
  BY <1>1

\* persist, when it cannot fail, keeps the invariant if the new state does.
LEMMA SaveRunning ==
  ASSUME SchedulerConstants, Inv, RunningInv, WritesSucceed, file # None,
         lastId' \in Nat, lastId <= lastId',
         NEW new, NEW left, NEW answer, Save(new, left, answer),
         RunningHasRecord(new, lastId'),
         answer = "ok" => RunningInHand(new, lastId', handed')
  PROVE  RunningInv'
<1>1. disk # None => RunningHasRecord(disk, lastId')
  <2>1. lastId \in Nat
    BY DEF Inv
  <2> QED
    BY <2>1, RecentLater DEF RunningInv, RunningHasRecord
<1>2. answer # "error"
  BY DEF Save, WritesSucceed, Fault
<1>3. disk' # None => RunningHasRecord(disk', lastId')
  BY <1>1, <1>2 DEF Save, Torn
<1>4. file' # None => answer = "ok" /\ file' = new /\ disk' = new
  BY <1>2 DEF Save
<1>5. file' # None => file' = disk' /\ RunningInHand(file', lastId', handed')
  BY <1>4
<1> QED
  BY <1>3, <1>5 DEF RunningInv, RunningHasRecord, RunningInHand

\* Memory and file agree, and so the record is there for every running task.
LEMMA RunningNow ==
  ASSUME RunningInv, file # None
  PROVE  RunningHasRecord(file, lastId) /\ RunningInHand(file, lastId, handed)
BY DEF RunningInv

LEMMA EditRunning ==
  ASSUME SchedulerConstants, Inv, RunningInv, WritesSucceed, NEW answer, Edit(answer)
  PROVE  RunningInv'
<1>1. file # None /\ lastId' \in Nat /\ lastId <= lastId' /\ lastId \in Nat
  BY EditHistory DEF Inv
<1>2. PICK new, left :
        Edited(new, left, answer) /\ EditKeeps(file, new) /\ EditKeeps(file, left)
  BY EditHistory
<1>3. RunningHasRecord(file, lastId) /\ RunningInHand(file, lastId, handed)
  BY <1>1, RunningNow
<1>4. \A e \in Nat : lastId' - e < MaxHistory => lastId - e < MaxHistory
  BY <1>1, RecentLater
<1>5. ASSUME NEW t \in DOMAIN new.tasks, new.tasks[t].state = "running"
      PROVE  t \in DOMAIN file.tasks /\ new.tasks[t] = file.tasks[t]
             /\ new.history = file.history /\ file.tasks[t].last \in Nat
  BY <1>2, <1>3, <1>5 DEF EditKeeps, RunningHasRecord
<1>6. RunningHasRecord(new, lastId')
  BY <1>3, <1>4, <1>5 DEF RunningHasRecord
<1>7. RunningInHand(new, lastId', handed)
  BY <1>3, <1>4, <1>5 DEF RunningInHand
<1>8. answer = "ok" => handed' = handed
  BY <1>2 DEF Edited, Handed
<1>9. Save(new, left, answer)
  BY <1>2 DEF Edited
<1> QED
  BY <1>1, <1>6, <1>7, <1>8, <1>9, SaveRunning

LEMMA TickRunning ==
  ASSUME SchedulerConstants, Inv, RunningInv, WritesSucceed, NEW answer, Tick(answer)
  PROVE  RunningInv'
<1>1. /\ file # None /\ Save(Ticked, Ticked, answer)
      /\ lastId' = lastId + Cardinality(DueTasks)
      /\ answer = "ok" => handed' = handed \cup DueExecutions
  BY DEF Tick, Handed, HandsOut
<1>2. /\ lastId \in Nat /\ lastId' \in Nat /\ lastId <= lastId'
      /\ \A t \in DOMAIN file.tasks : file.tasks[t] \in Task
      /\ \A t \in DueTasks : ExecutionOf(t) \in Nat
  BY <1>1, ExecutionIds DEF Inv, IsGoodFile, IsGoodTask
<1>3. RunningHasRecord(file, lastId) /\ RunningInHand(file, lastId, handed)
  BY <1>1, RunningNow
<1>4. \A e \in Nat : lastId' - e < MaxHistory => lastId - e < MaxHistory
  BY <1>2, RecentLater
<1>5. /\ DOMAIN Ticked.tasks = DOMAIN file.tasks
      /\ \A t \in DOMAIN file.tasks :
           Ticked.tasks[t] = IF t \in DueTasks THEN Fired(t) ELSE file.tasks[t]
  BY DEF Ticked
<1>6. ASSUME NEW t \in DOMAIN Ticked.tasks, Ticked.tasks[t].state = "running"
      PROVE  /\ Ticked.tasks[t].last \in Nat
             /\ lastId' - Ticked.tasks[t].last < MaxHistory =>
                  LET e == Ticked.tasks[t].last IN
                  /\ e \in DOMAIN Ticked.history
                  /\ Ticked.history[e].task = t /\ Ticked.history[e].result = "running"
                  /\ \E x \in handed \cup DueExecutions : x.id = e /\ x.task = t
  <2> DEFINE e == Ticked.tasks[t].last
  <2>1. CASE t \in DueTasks
    <3>1. t \in DOMAIN file.tasks /\ Ticked.tasks[t] = Fired(t)
      BY <1>5, <2>1
    <3>2. e = ExecutionOf(t) /\ e \in Nat /\ Runs(file.tasks[t]) # {}
      BY <1>2, <1>6, <2>1, <3>1 DEF Fired, Task
    <3>3. \E x \in DueExecutions : x.id = e /\ x.task = t
      <4> DEFINE d == [id |-> ExecutionOf(t), task |-> t, revision |-> file.tasks[t].revision,
                       actions |-> Runs(file.tasks[t])]
      <4>1. d \in DueExecutions
        BY <2>1, <3>2 DEF DueExecutions
      <4>2. d.id = e /\ d.task = t
        BY <3>2
      <4> QED
        BY <4>1, <4>2
    <3>4. RecordOf(t).task = t /\ RecordOf(t).result = "running"
      BY <3>2 DEF RecordOf
    <3> HIDE DEF e
    <3>5. lastId' - e < MaxHistory => e \in DOMAIN Ticked.history /\ Ticked.history[e] = RecordOf(t)
      BY <1>1, <2>1, <3>2, TickedHistory DEF IsRecent
    <3> QED
      BY <3>2, <3>3, <3>4, <3>5 DEF e
  <2>2. CASE t \notin DueTasks
    <3>1. t \in DOMAIN file.tasks /\ Ticked.tasks[t] = file.tasks[t]
      BY <1>5, <2>2
    <3>2. /\ e = file.tasks[t].last /\ e \in Nat /\ file.tasks[t].state = "running"
          /\ lastId - e < MaxHistory =>
               /\ e \in DOMAIN file.history
               /\ file.history[e].task = t /\ file.history[e].result = "running"
               /\ \E x \in handed : x.id = e /\ x.task = t
      BY <1>3, <1>6, <3>1 DEF RunningHasRecord, RunningInHand
    <3> HIDE DEF e
    <3>3. lastId' - e < MaxHistory /\ e \in DOMAIN file.history =>
            e \in DOMAIN Ticked.history /\ Ticked.history[e] = file.history[e]
      BY <1>1, <3>2, TickedHistory DEF IsRecent
    <3> QED
      BY <1>4, <3>2, <3>3 DEF e
  <2> QED
    BY <2>1, <2>2
<1>7. RunningHasRecord(Ticked, lastId')
  BY <1>6 DEF RunningHasRecord
<1>8. RunningInHand(Ticked, lastId', handed \cup DueExecutions)
  BY <1>6 DEF RunningInHand
<1> QED
  BY <1>1, <1>2, <1>7, <1>8, SaveRunning

\* complete_execution settles the running task with its record, and no other.
LEMMA CompleteRunning ==
  ASSUME SchedulerConstants, Inv, RunningInv, WritesSucceed,
         NEW x \in handed, NEW results \in ResultsOf(x), NEW answer,
         Complete(x, results, answer)
  PROVE  RunningInv'
<1> DEFINE id == x.id
           new == Completed(id, results)
<1>1. /\ file # None /\ lastId' = lastId /\ lastId \in Nat
      /\ answer = "ok" => handed' = handed \ {x}
  BY DEF Complete, Handed, Inv
<1>2. RunningHasRecord(file, lastId) /\ RunningInHand(file, lastId, handed)
  BY <1>1, RunningNow
<1>3. CASE id \in DOMAIN file.history /\ file.history[id].result = "running"
  <2>1. Save(new, new, answer)
    BY <1>3 DEF Complete
  <2>2. ASSUME NEW t \in DOMAIN new.tasks, new.tasks[t].state = "running"
        PROVE  /\ t \in DOMAIN file.tasks /\ new.tasks[t] = file.tasks[t]
               /\ ~IsOfExecution(t, id)
    <3>1. t \in DOMAIN file.tasks /\ file.tasks[t] \in Task
      BY <1>1, <2>2 DEF Completed, Inv, IsGoodFile, IsGoodTask
    <3>2. \A all : Summary(all) # "running"
      BY DEF Summary
    <3>3. ~IsOfExecution(t, id)
      BY <2>2, <3>1, <3>2 DEF Completed, Task
    <3> QED
      BY <3>1, <3>3 DEF Completed
  <2>3. /\ DOMAIN new.history = DOMAIN file.history
        /\ \A e \in DOMAIN file.history : e # id => new.history[e] = file.history[e]
    BY DEF Completed
  <2>4. ASSUME NEW t \in DOMAIN new.tasks, new.tasks[t].state = "running",
               lastId - new.tasks[t].last < MaxHistory
        PROVE  /\ new.tasks[t].last # id
               /\ new.tasks[t].last \in DOMAIN file.history
               /\ file.history[new.tasks[t].last].task = t
               /\ file.history[new.tasks[t].last].result = "running"
               /\ \E y \in handed : y.id = new.tasks[t].last /\ y.task = t
    BY <1>2, <2>2, <2>4 DEF RunningHasRecord, RunningInHand, IsOfExecution
  <2> HIDE DEF new
  <2>5. RunningHasRecord(new, lastId')
    BY <1>1, <1>2, <2>2, <2>3, <2>4 DEF RunningHasRecord
  <2>6. RunningInHand(new, lastId', handed \ {x})
    BY <1>1, <2>4 DEF RunningInHand
  <2> QED
    BY <1>1, <2>1, <2>5, <2>6, SaveRunning
<1>4. CASE ~(id \in DOMAIN file.history /\ file.history[id].result = "running")
  <2>1. answer = "ok" /\ UNCHANGED <<file, disk>>
    BY <1>4 DEF Complete
  <2>2. RunningInHand(file, lastId, handed \ {x})
    BY <1>2, <1>4 DEF RunningHasRecord, RunningInHand
  <2> QED
    BY <1>1, <2>1, <2>2 DEF RunningInv, RunningHasRecord, RunningInHand
<1> QED
  BY <1>3, <1>4

\* A restart settles every running task whose record it finds.
LEMMA OpenRunning ==
  ASSUME SchedulerConstants, NoneIsNoFile, Inv, RunningInv, WritesSucceed, NEW answer, Open(answer)
  PROVE  RunningInv'
<1> DEFINE old == IF disk = None THEN EmptyFile ELSE disk
           new == Reconciled(old)
<1>1. lastId' = lastId /\ lastId \in Nat
  BY DEF Open, Inv
<1>2. RunningHasRecord(old, lastId) /\ IsGoodFile(old, lastId, started)
  <2>1. DOMAIN EmptyFile.tasks = {}
    BY DEF EmptyFile
  <2> QED
    BY <2>1, EmptyFileGood DEF RunningInv, RunningHasRecord, Inv
<1>3. ASSUME NEW t \in DOMAIN new.tasks, new.tasks[t].state = "running"
      PROVE  new.tasks[t].last \in Nat /\ ~(lastId - new.tasks[t].last < MaxHistory)
  <2> DEFINE open == {e \in DOMAIN old.history : old.history[e].result = "running"}
  <2>1. t \in DOMAIN old.tasks /\ old.tasks[t] \in Task
    BY <1>2, <1>3 DEF Reconciled, IsGoodFile, IsGoodTask
  <2>2. new.tasks[t] =
          IF \E e \in open : old.history[e].task = t /\ old.tasks[t].last = e
          THEN [old.tasks[t] EXCEPT !.state = "failed", !.enabled = FALSE, !.due = None]
          ELSE old.tasks[t]
    BY <2>1 DEF Reconciled
  <2>3. [old.tasks[t] EXCEPT !.state = "failed", !.enabled = FALSE, !.due = None].state = "failed"
    BY <2>1 DEF Task
  <2> HIDE DEF old, new
  <2>4. /\ ~\E e \in open : old.history[e].task = t /\ old.tasks[t].last = e
        /\ new.tasks[t] = old.tasks[t]
    BY <1>3, <2>2, <2>3
  <2> QED
    BY <1>2, <1>3, <2>1, <2>4 DEF RunningHasRecord
<1>4. RunningHasRecord(new, lastId) /\ RunningInHand(new, lastId, handed)
  BY <1>3 DEF RunningHasRecord, RunningInHand
<1>5. \/ file' = new /\ new = disk /\ UNCHANGED disk
      \/ Save(new, None, answer)
  BY DEF Open
<1>6. new # None
  BY FileIsNotNone DEF IsFile, Reconciled
<1>7. file' # None => handed' = handed
  BY <1>5 DEF Open, Handed, Save
<1> HIDE DEF new
<1>8. ~(answer = "error" /\ Save(new, None, answer))
  BY DEF Save, WritesSucceed, Fault
<1>9. /\ file' # None => file' = new /\ disk' = new
      /\ disk' \in {disk, new, None}
  BY <1>5, <1>8 DEF Save, Torn
<1>10. /\ file' # None => file' = disk' /\ RunningInHand(file', lastId', handed')
       /\ disk' # None => RunningHasRecord(disk', lastId')
  BY <1>1, <1>4, <1>7, <1>9 DEF RunningInv
<1> QED
  BY <1>10 DEF RunningInv, RunningHasRecord, RunningInHand

LEMMA InitRunning ==
  ASSUME Init
  PROVE  RunningInv
<1>1. DOMAIN EmptyFile.tasks = {}
  BY DEF EmptyFile
<1> QED
  BY <1>1 DEF Init, RunningInv, RunningHasRecord, RunningInHand

LEMMA NextRunning ==
  ASSUME SchedulerConstants, NoneIsNoFile, Inv, RunningInv, WritesSucceed, [Next]_schedulerVars
  PROVE  RunningInv'
<1>1. CASE Crash
  BY <1>1 DEF Crash, RunningInv, RunningHasRecord
<1>2. CASE Advance \/ UNCHANGED schedulerVars
  BY <1>2 DEF Advance, schedulerVars, RunningInv, RunningHasRecord, RunningInHand
<1> QED
  BY <1>1, <1>2, EditRunning, TickRunning, CompleteRunning, OpenRunning DEF Next

RunningIsRecent ==
  file # None =>
    \A t \in DOMAIN file.tasks : file.tasks[t].state = "running" => IsRecent(file.tasks[t].last)

\* docs 7.1: while no write fails, a task is running exactly while its execution is
\* under way, whatever edits, completions, crashes and restarts come in between: no
\* task runs for ever, as long as prune_history does not reach a running one.
THEOREM NoTaskRunsForEver ==
  ASSUME NoneIsNoFile, WritesSucceed
  PROVE  Spec => [](RunningIsRecent => RunningIsUnderWay)
<1>1. Init => RunningInv
  BY InitRunning
<1>2. Inv /\ RunningInv /\ [Next]_schedulerVars => RunningInv'
  BY SchedulerConstants, NextRunning
<1>3. RunningInv => (RunningIsRecent => RunningIsUnderWay)
  BY DEF RunningInv, RunningIsRecent, IsRecent, RunningInHand, RunningIsUnderWay
<1> QED
  BY <1>1, <1>2, <1>3, Invariance, PTL DEF Spec

=============================================================================
