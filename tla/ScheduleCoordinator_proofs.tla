---------------------- MODULE ScheduleCoordinator_proofs ----------------------
(***************************************************************************)
(* The Android platform uses the scheduler as Scheduler allows it, so that *)
(* what is proved of the scheduler holds under it; and each execution it   *)
(* is handed is done by one thread, for any number of threads, tasks and   *)
(* faults.                                                                 *)
(***************************************************************************)
EXTENDS ScheduleCoordinator, Scheduler_proofs

-----------------------------------------------------------------------------
(* Every step of the platform is one of the scheduler, or none *)

\* The end of an execution is a complete_execution.
LEMMA FinishIsComplete ==
  ASSUME NEW p \in Thread, NEW x \in thread[p].todo, NEW answer \in Answer, Finish(p, x, answer)
  PROVE  /\ x \in handed
         /\ \E results \in ResultsOf(x) : Complete(x, results, answer)
<1>1. PICK results \in Outcomes(p, x) : Complete(x, results, answer)
  BY DEF Finish
<1>2. results \in ResultsOf(x)
  BY DEF Outcomes, ResultsOf, Outcome
<1> QED
  BY <1>1, <1>2 DEF Complete

LEMMA StepIsSchedulerStep ==
  ASSUME [CoordinatorNext]_vars
  PROVE  [Next]_schedulerVars
<1>1. ASSUME NEW answer \in Answer, EditorCall(answer)
      PROVE  Next
  BY <1>1 DEF EditorCall, Next
<1>2. ASSUME NEW answer \in Answer, AlarmGoesOff(answer)
      PROVE  [Next]_schedulerVars
  BY <1>2 DEF AlarmGoesOff, Next
<1>3. ASSUME NEW answer \in Answer, Start(answer)
      PROVE  Next
  BY <1>3 DEF Start, Next
<1>4. ASSUME NEW p \in Thread, Step(p)
      PROVE  [Next]_schedulerVars
  <2>1. ASSUME NEW answer \in Answer, Execute(p, answer)
        PROVE  Next
    <3>1. PICK x \in thread[p].todo : Finish(p, x, answer)
      BY <2>1 DEF Execute
    <3> QED
      BY <3>1, FinishIsComplete DEF Next
  <2>2. CASE Read(p) \/ Set(p)
    BY <2>2 DEF Read, Set
  <2> QED
    BY <1>4, <2>1, <2>2 DEF Step
<1>5. CASE PermissionChanges \/ \E p \in Thread : OnStartCommand(p)
  BY <1>5 DEF PermissionChanges, OnStartCommand
<1>6. CASE ProcessDies \/ DeviceReboots
  BY <1>6 DEF ProcessDies, DeviceReboots, Next
<1>7. CASE Tock
  BY <1>7 DEF Tock, Next
<1>8. CASE UNCHANGED vars
  BY <1>8 DEF vars
<1> QED
  BY <1>1, <1>2, <1>3, <1>4, <1>5, <1>6, <1>7, <1>8 DEF CoordinatorNext

\* The Android platform implements the use of the scheduler that Scheduler describes:
\* every step of ScheduleCoordinator and of the service's threads is one of the
\* scheduler's operations or leaves it alone.
THEOREM UsesTheScheduler == CoordinatorSpec => Spec
<1>1. CoordinatorInit => Init
  BY DEF CoordinatorInit
<1>2. [CoordinatorNext]_vars => [Next]_schedulerVars
  BY StepIsSchedulerStep
<1> QED
  BY <1>1, <1>2, PTL DEF CoordinatorSpec, Spec

\* So on Android, too, a revision of a task is executed at most once.
THEOREM ExecutedOnceOnAndroid == CoordinatorSpec => []OncePerRevision
BY UsesTheScheduler, ExecutedOnce, PTL

\* docs 7.2: nor does the service act on anything that is not in the file: with a
\* rename that replaces it, and whatever writes fail and processes die.
THEOREM StartsAreJournaledOnAndroid ==
  ASSUME NoneIsNoFile, FileSurvives
  PROVE  CoordinatorSpec => [](RunsAreRecent => HandedIsJournaled)
BY UsesTheScheduler, StartsAreJournaled, PTL

-----------------------------------------------------------------------------
(* One thread for each execution *)

(* OnOneThread is not inductive: a thread that reads the schedule forgets    *)
(* its list, so it must have none by then.                                   *)

\* What a thread that reads, or is going to, has on its list.
HasNothingToRead(r) ==
  r.at = "read" \/ (r.at = "set" /\ r.then = "read") => r.todo = {}

Handover ==
  /\ DOMAIN thread = Thread
  /\ \A p \in Thread : HasNothingToRead(thread[p])
  /\ OnOneThread

\* A step that hands nothing out keeps the executions where they are.
LEMMA SameLists ==
  ASSUME Handover, DOMAIN thread' = Thread, handed' = handed,
         \A p \in Thread : thread'[p].todo = thread[p].todo /\ HasNothingToRead(thread'[p])
  PROVE  Handover'
BY DEF Handover, OnOneThread

\* The process dies: nothing is under way and no thread is left.
LEMMA NoLists ==
  ASSUME DOMAIN thread' = Thread, handed' = {}, \A p \in Thread : thread'[p].todo = {}
  PROVE  Handover'
BY DEF Handover, OnOneThread, HasNothingToRead

\* What is given to a thread that has nothing to do is new.
LEMMA ListGiven ==
  ASSUME Handover, NEW p \in Thread, thread[p].todo = {},
         NEW due, due \cap handed = {}, handed' = handed \cup due,
         DOMAIN thread' = Thread, thread'[p].todo = due, HasNothingToRead(thread'[p]),
         \A q \in Thread \ {p} : thread'[q] = thread[q]
  PROVE  Handover'
BY DEF Handover, OnOneThread

\* What is done is taken off the one list it was on.
LEMMA ListTaken ==
  ASSUME Handover, NEW p \in Thread, NEW x \in thread[p].todo, handed' = handed \ {x},
         DOMAIN thread' = Thread, thread'[p].todo = thread[p].todo \ {x}, HasNothingToRead(thread'[p]),
         \A q \in Thread \ {p} : thread'[q] = thread[q]
  PROVE  Handover'
BY DEF Handover, OnOneThread

LEMMA ThreadIds ==
  /\ Main \in Thread /\ Broadcast \in Thread /\ Job \subseteq Thread
  /\ Idle.todo = {} /\ Reading.todo = {}
  /\ HasNothingToRead(Idle) /\ HasNothingToRead(Reading)
  /\ \A todo : Executing(todo).todo = todo /\ HasNothingToRead(Executing(todo))
  /\ \A todo : Pending(todo).todo = todo /\ HasNothingToRead(Pending(todo))
BY DEF Main, Broadcast, Job, Thread, Idle, Reading, Executing, Pending, HasNothingToRead

LEMMA DeathKeeps ==
  ASSUME thread' = [p \in Thread |-> Idle], handed' = {}
  PROVE  Handover'
BY NoLists, ThreadIds

\* tick hands out executions that nobody has.
LEMMA DueIsNew ==
  ASSUME Inv, file # None
  PROVE  DueExecutions \cap handed = {}
<1>1. \A x \in DueExecutions : x.id = ExecutionOf(x.task) /\ x.task \in DueTasks
  BY DueExecutionsType
<1>2. \A x \in handed : x.id \in Nat /\ x.id <= lastId
  BY DEF Inv, DueExecution
<1>3. lastId \in Nat
  BY DEF Inv
<1>4. \A t \in DueTasks : ExecutionOf(t) \in Nat /\ ExecutionOf(t) > lastId
  BY <1>3, ExecutionIds
<1> QED
  BY <1>1, <1>2, <1>3, <1>4

LEMMA EditorKeeps ==
  ASSUME Handover, NEW answer \in Answer, EditorCall(answer)
  PROVE  Handover'
<1>1. Handed(handed, answer) /\ IsIdle(Main)
  BY DEF EditorCall, Edit, Create, Change, SetEnabled, Delete, Edited
<1>2. CASE answer = "ok" /\ Go(Main, Setting("idle", {}))
  BY <1>1, <1>2, SameLists, ThreadIds
     DEF Go, Setting, Handed, Handover, IsIdle, HasNothingToRead
<1>3. CASE answer = "error" /\ UNCHANGED thread
  BY <1>1, <1>3, SameLists DEF Handed, Handover
<1>4. CASE answer = "crash" /\ Die
  BY <1>1, <1>4, DeathKeeps DEF Handed, Die
<1> QED
  BY <1>2, <1>3, <1>4 DEF EditorCall

LEMMA AlarmKeeps ==
  ASSUME Inv, Handover, NEW answer \in Answer, AlarmGoesOff(answer)
  PROVE  Handover'
<1>1. IsIdle(Main) /\ file # None
  BY DEF AlarmGoesOff
<1>2. CASE UNCHANGED schedulerVars /\ Go(Main, NothingDue)
  BY <1>1, <1>2, SameLists, ThreadIds
     DEF schedulerVars, Go, NothingDue, Handover, IsIdle
<1>3. CASE Tick(answer) /\ answer = "ok" /\ HandOut(DueExecutions)
  <2>1. handed' = handed \cup DueExecutions /\ DueExecutions \cap handed = {}
    BY <1>1, <1>3, DueIsNew DEF Tick, HandsOut, Handed
  <2>2. PICK p \in Thread, next \in {Pending(DueExecutions), Executing(DueExecutions)} :
          IsIdle(p) /\ Go(p, next)
    BY <1>1, <1>3, ThreadIds DEF HandOut, Blocked
  <2>3. thread[p].todo = {}
    BY <2>2, ThreadIds DEF IsIdle
  <2>4. /\ DOMAIN thread' = Thread /\ thread'[p].todo = DueExecutions
        /\ HasNothingToRead(thread'[p])
        /\ \A q \in Thread \ {p} : thread'[q] = thread[q]
    BY <2>2, ThreadIds DEF Go, Handover
  <2> QED
    BY <2>1, <2>3, <2>4, ListGiven
<1>4. CASE /\ Tick(answer) /\ answer # "crash" /\ (answer = "error" \/ DueExecutions = {})
           /\ Go(Main, NothingDue)
  <2>1. handed' = handed
    BY <1>4 DEF Tick, HandsOut, Handed
  <2> QED
    BY <1>1, <1>4, <2>1, SameLists, ThreadIds DEF Go, NothingDue, Handover, IsIdle
<1>5. CASE Tick(answer) /\ answer = "crash" /\ Die
  BY <1>5, DeathKeeps DEF Tick, Handed, Die
<1> QED
  BY <1>2, <1>3, <1>4, <1>5 DEF AlarmGoesOff

\* The intent becomes a thread with the same executions.
LEMMA OnStartCommandKeeps ==
  ASSUME Handover, NEW p \in Thread, OnStartCommand(p)
  PROVE  Handover'
<1>1. handed' = handed /\ Go(p, Executing(thread[p].todo))
  BY DEF OnStartCommand, schedulerVars
<1>2. DOMAIN thread' = Thread /\ thread'[p] = Executing(thread[p].todo)
  BY <1>1 DEF Go, Handover
<1>3. \A q \in Thread \ {p} : thread'[q] = thread[q]
  BY <1>1 DEF Go, Handover
<1> QED
  BY <1>1, <1>2, <1>3, ThreadIds, SameLists DEF Handover

\* Where every thread was idle nothing is under way when the process ends.
LEMMA EndsKeeps ==
  ASSUME Handover, Ends, handed' = {}
  PROVE  Handover'
<1>1. CASE Quiet /\ UNCHANGED thread
  BY <1>1, NoLists, ThreadIds DEF Quiet, IsIdle, Handover
<1>2. CASE Die
  BY <1>2, DeathKeeps DEF Die
<1> QED
  BY <1>1, <1>2 DEF Ends, coordinatorVars

\* Who waits to read the schedule, or to tick, has nothing on its list.
LEMMA StartKeeps ==
  ASSUME Handover, NEW answer \in Answer, Start(answer)
  PROVE  Handover'
<1>1. handed' = IF answer = "crash" THEN {} ELSE handed
  BY DEF Start, Open, Handed
<1>2. CASE answer = "crash" /\ Ends
  BY <1>1, <1>2, EndsKeeps
<1>3. CASE answer # "crash" /\ UNCHANGED thread
  BY <1>1, <1>3, SameLists DEF Handover
<1>4. CASE answer # "crash" /\ IsIdle(Main) /\ Go(Main, NothingDue)
  BY <1>1, <1>4, SameLists, ThreadIds DEF Go, NothingDue, Handover, IsIdle
<1>5. ASSUME answer # "crash", NEW p \in Thread, thread[p].at = "read",
             thread' = [thread EXCEPT ![p] = Idle]
      PROVE  Handover'
  BY <1>1, <1>5, SameLists, ThreadIds DEF Handover, HasNothingToRead
<1> QED
  BY <1>2, <1>3, <1>4, <1>5 DEF Start, IsRefused, coordinatorVars

LEMMA ExecuteKeeps ==
  ASSUME Handover, NEW p \in Thread, NEW answer \in Answer, Execute(p, answer)
  PROVE  Handover'
<1>1. PICK x \in thread[p].todo : Finish(p, x, answer)
  BY DEF Execute
<1>2. \E results \in ResultsOf(x) : Complete(x, results, answer)
  BY <1>1, FinishIsComplete
<1>3. handed' = IF answer = "crash" THEN {} ELSE handed \ {x}
  BY <1>2 DEF Complete, Handed
<1> DEFINE rest == Rest(thread[p].todo, x)
           then == After(p, rest)
<1>4. CASE answer # "crash" /\ \/ Go(p, Setting(then, rest))
                               \/ Go(p, [Idle EXCEPT !.at = then, !.todo = rest])
  <2>1. then = "read" => rest = {}
    BY DEF After
  <2> HIDE DEF then, rest
  <2>2. Setting(then, rest).todo = rest /\ HasNothingToRead(Setting(then, rest))
    BY <2>1 DEF Setting, HasNothingToRead
  <2>3. /\ [Idle EXCEPT !.at = then, !.todo = rest].todo = rest
        /\ HasNothingToRead([Idle EXCEPT !.at = then, !.todo = rest])
    BY <2>1 DEF Idle, HasNothingToRead
  <2>4. /\ DOMAIN thread' = Thread /\ thread'[p].todo = rest
        /\ HasNothingToRead(thread'[p])
        /\ \A q \in Thread \ {p} : thread'[q] = thread[q]
    BY <1>4, <2>2, <2>3 DEF Go, Handover
  <2> QED
    BY <1>1, <1>3, <1>4, <2>4, ListTaken DEF Rest, rest
<1>5. CASE answer = "crash" /\ Die
  BY <1>3, <1>5, DeathKeeps DEF Die
<1> QED
  BY <1>1, <1>4, <1>5 DEF Finish

LEMMA ReadAndSetKeep ==
  ASSUME Handover, NEW p \in Thread, Read(p) \/ Set(p)
  PROVE  Handover'
<1> DEFINE old == thread[p]
<1>1. handed' = handed
  BY DEF Read, Set, schedulerVars
<1>2. /\ DOMAIN thread' = Thread
      /\ \A q \in Thread \ {p} : thread'[q] = thread[q]
  BY DEF Read, Set, Handover
<1>3. CASE Set(p)
  <2>1. thread'[p] = [Idle EXCEPT !.at = old.then, !.todo = old.todo]
    BY <1>3 DEF Set, Handover
  <2>2. old.at = "set" /\ HasNothingToRead(old)
    BY <1>3 DEF Set, Handover
  <2> HIDE DEF old
  <2>3. thread'[p].todo = old.todo /\ thread'[p].at = old.then /\ thread'[p].then = "idle"
    BY <2>1 DEF Idle
  <2>4. HasNothingToRead(thread'[p])
    BY <2>2, <2>3 DEF HasNothingToRead
  <2> QED
    BY <1>1, <1>2, <2>3, <2>4, SameLists DEF old, Handover
<1>4. CASE Read(p)
  <2>1. old.todo = {}
    BY <1>4 DEF Read, Handover, HasNothingToRead
  <2>2. thread'[p] = [Idle EXCEPT !.at = "set", !.due = NextWakeup]
    BY <1>4 DEF Read, Handover
  <2>3. thread'[p].todo = {}
    BY <2>2 DEF Idle
  <2> QED
    BY <1>1, <1>2, <2>1, <2>3, SameLists DEF Handover, HasNothingToRead
<1> QED
  BY <1>3, <1>4

\* The executions that were handed out stay on their threads in every step.
LEMMA HandoverStep ==
  ASSUME Inv, Handover, [CoordinatorNext]_vars
  PROVE  Handover'
<1>1. ASSUME NEW p \in Thread, Step(p)
      PROVE  Handover'
  BY <1>1, ExecuteKeeps, ReadAndSetKeep DEF Step
<1>2. ASSUME NEW answer \in Answer, Start(answer)
      PROVE  Handover'
  BY <1>2, StartKeeps
<1>3. CASE PermissionChanges
  BY <1>3, SameLists, ThreadIds DEF PermissionChanges, Go, schedulerVars, IsIdle, Handover
<1>4. CASE ProcessDies
  BY <1>4, EndsKeeps DEF ProcessDies, Crash
<1>5. CASE DeviceReboots
  BY <1>5, NoLists, ThreadIds DEF DeviceReboots, Crash
<1>6. CASE Tock
  BY <1>6, SameLists DEF Tock, Advance, coordinatorVars, Handover
<1>7. CASE UNCHANGED vars
  BY <1>7, SameLists DEF vars, schedulerVars, coordinatorVars, Handover
<1> QED
  BY <1>1, <1>2, <1>3, <1>4, <1>5, <1>6, <1>7, EditorKeeps, AlarmKeeps,
     OnStartCommandKeeps
     DEF CoordinatorNext

\* Each execution that tick hands out, to the service or to the main thread when the
\* system refuses the service, is on one list until complete_execution has been
\* called for it: none is lost between threads and none is done twice.
THEOREM OneThreadEach == CoordinatorSpec => []OnOneThread
<1>1. CoordinatorInit => Handover
  BY ThreadIds DEF CoordinatorInit, Init, Handover, OnOneThread
<1>2. Inv /\ Handover /\ [CoordinatorNext]_vars => Handover'
  BY HandoverStep
<1>3. CoordinatorSpec => []Inv
  BY UsesTheScheduler, Invariance, PTL
<1>4. Handover => OnOneThread
  BY DEF Handover
<1> QED
  BY <1>1, <1>2, <1>3, <1>4, PTL DEF CoordinatorSpec

-----------------------------------------------------------------------------
(* The alarm *)

(* AlarmIsNextWakeup must outlive the process: with no process the alarm is    *)
(* that of the file, and reconcile_interrupted does not change it, for it      *)
(* settles tasks that are switched off.  A thread that executes or sets the    *)
(* alarm has the scheduler open, and every thread that ends has set the alarm  *)
(* last, unless a call failed: so no write may fail and prune_history may not  *)
(* reach what is under way.                                                    *)

DuesOf(f) ==
  {task.due : task \in {f.tasks[t] : t \in {u \in DOMAIN f.tasks :
     f.tasks[u].enabled /\ f.tasks[u].state = "armed"}}}

WakeupOf(f) ==
  IF DuesOf(f) = {} THEN None
  ELSE CHOOSE due \in DuesOf(f) : \A other \in DuesOf(f) : due <= other

\* What open reads, and what is open.
FileOnDisk == IF disk = None THEN EmptyFile ELSE disk
Current    == IF file # None THEN file ELSE FileOnDisk

\* Where a thread is that has the scheduler open.
Engaged == {"start", "set", "execute"}

AlarmInv ==
  /\ DOMAIN thread = Thread
  /\ \A p \in Thread : thread[p].at \in Engaged => file # None
  /\ Quiet /\ ~overtaken => alarm = WakeupOf(Current)

LEMMA WakeupIsNext ==
  ASSUME file # None
  PROVE  NextWakeup = WakeupOf(Current)
BY DEF NextWakeup, ArmedDues, WakeupOf, DuesOf, Current

\* Tasks that are switched off do not count.
LEMMA SameDues ==
  ASSUME NEW f, NEW g, DOMAIN f.tasks = DOMAIN g.tasks,
         \A t \in DOMAIN f.tasks :
           f.tasks[t] = g.tasks[t] \/ (~f.tasks[t].enabled /\ ~g.tasks[t].enabled)
  PROVE  WakeupOf(f) = WakeupOf(g)
<1> DEFINE armed(h) == {u \in DOMAIN h.tasks : h.tasks[u].enabled /\ h.tasks[u].state = "armed"}
<1>1. armed(f) = armed(g) /\ \A t \in armed(f) : f.tasks[t] = g.tasks[t]
  OBVIOUS
<1>2. {f.tasks[t] : t \in armed(f)} = {g.tasks[t] : t \in armed(g)}
  BY <1>1
<1>3. DuesOf(f) = DuesOf(g)
  BY <1>2 DEF DuesOf
<1> QED
  BY <1>3 DEF WakeupOf

\* reconcile_interrupted keeps the wake-up.
LEMMA ReconciledDues ==
  ASSUME SchedulerConstants, NEW f, NEW n \in Nat, NEW begun, IsGoodFile(f, n, begun)
  PROVE  WakeupOf(Reconciled(f)) = WakeupOf(f)
<1> DEFINE open == {e \in DOMAIN f.history : f.history[e].result = "running"}
           new == Reconciled(f)
<1>1. /\ DOMAIN new.tasks = DOMAIN f.tasks
      /\ \A t \in DOMAIN f.tasks :
           new.tasks[t] =
             IF \E e \in open : f.history[e].task = t /\ f.tasks[t].last = e
             THEN [f.tasks[t] EXCEPT !.state = "failed", !.enabled = FALSE, !.due = None]
             ELSE f.tasks[t]
  BY DEF Reconciled
<1>2. open \subseteq Nat /\ None \notin Nat
  BY DEF IsGoodFile, SchedulerConstants
<1> HIDE DEF open, new
<1>3. ASSUME NEW t \in DOMAIN f.tasks
      PROVE  new.tasks[t] = f.tasks[t] \/ (~new.tasks[t].enabled /\ ~f.tasks[t].enabled)
  <2>1. f.tasks[t] \in Task /\ (f.tasks[t].enabled => f.tasks[t].last = None)
    BY <1>3 DEF IsGoodFile, IsGoodTask
  <2>2. ~[f.tasks[t] EXCEPT !.state = "failed", !.enabled = FALSE, !.due = None].enabled
    BY <2>1 DEF Task
  <2>3. CASE \E e \in open : f.history[e].task = t /\ f.tasks[t].last = e
    BY <1>1, <1>2, <2>1, <2>2, <2>3
  <2>4. CASE ~\E e \in open : f.history[e].task = t /\ f.tasks[t].last = e
    BY <1>1, <2>4
  <2> QED
    BY <2>3, <2>4
<1>4. WakeupOf(new) = WakeupOf(f)
  BY <1>1, <1>3, SameDues
<1> QED
  BY <1>4 DEF new

\* open, whether it succeeds or the process dies in it, leaves the wake-up as it is.
LEMMA OpenKeepsWakeup ==
  ASSUME SchedulerConstants, NoneIsNoFile, Inv, WritesSucceed, Renames,
         NEW answer, Open(answer)
  PROVE  WakeupOf(Current)' = WakeupOf(Current)
<1> DEFINE new == Reconciled(FileOnDisk)
<1>1. Current = FileOnDisk
  BY DEF Open, Current
<1>2. IsGoodFile(FileOnDisk, lastId, started) /\ lastId \in Nat
  BY EmptyFileGood DEF Inv, FileOnDisk
<1>3. WakeupOf(new) = WakeupOf(FileOnDisk)
  BY <1>2, ReconciledDues
<1>4. new # None
  BY FileIsNotNone DEF IsFile, Reconciled
<1>5. \/ file' = new
      \/ Save(new, None, answer) /\ file' = new
      \/ Save(new, None, answer) /\ file' = None /\ disk' \in {disk, new}
  BY DEF Open, Save, WritesSucceed, Fault, Torn, FileOnDisk
<1> HIDE DEF new
<1>6. Current' \in {new, FileOnDisk}
  BY <1>4, <1>5 DEF Current, FileOnDisk
<1>7. WakeupOf(Current)' = WakeupOf(Current')
  BY DEF WakeupOf, DuesOf
<1> QED
  BY <1>1, <1>3, <1>6, <1>7

LEMMA NotIdle ==
  ASSUME NEW r, r.at # "idle"
  PROVE  r # Idle
BY DEF Idle

\* A step that leaves some thread with something to do only has to keep the file open.
LEMMA BusyAlarm ==
  ASSUME AlarmInv, DOMAIN thread' = Thread, NEW p \in Thread, thread'[p].at # "idle",
         \A q \in Thread : thread'[q].at \in Engaged => file' # None
  PROVE  AlarmInv'
<1>1. ~Quiet'
  BY NotIdle DEF Quiet, IsIdle
<1> QED
  BY <1>1 DEF AlarmInv

\* The process dies in the middle of something.
LEMMA DeadAlarm ==
  ASSUME thread' = [p \in Thread |-> Idle], overtaken'
  PROVE  AlarmInv'
<1>1. DOMAIN thread' = Thread /\ \A p \in Thread : thread'[p].at = "idle"
  BY DEF Idle
<1> QED
  BY <1>1 DEF AlarmInv, Engaged

LEMMA EditorAlarm ==
  ASSUME NoneIsNoFile, Inv, AlarmInv, NEW answer \in Answer, EditorCall(answer)
  PROVE  AlarmInv'
<1>1. PICK new, left :
        Edited(new, left, answer) /\ EditKeeps(file, new) /\ EditKeeps(file, left)
  BY EditHistory DEF EditorCall
<1>2. new # None /\ left # None
  BY <1>1, FileIsNotNone DEF EditKeeps
<1>3. CASE answer = "ok" /\ Go(Main, Setting("idle", {}))
  <2>1. file' # None
    BY <1>1, <1>2, <1>3 DEF Edited, Save
  <2>2. Main \in Thread /\ DOMAIN thread' = Thread /\ thread'[Main].at = "set"
    BY <1>3, ThreadIds DEF Go, Setting, AlarmInv
  <2> QED
    BY <2>1, <2>2, BusyAlarm
<1>4. CASE answer = "error" /\ overtaken' /\ UNCHANGED thread
  <2>1. file' # None
    BY <1>1, <1>2, <1>4 DEF Edited, Save
  <2> QED
    BY <1>4, <2>1 DEF AlarmInv
<1>5. CASE Die
  BY <1>5, DeadAlarm DEF Die
<1> QED
  BY <1>3, <1>4, <1>5 DEF EditorCall

LEMMA AlarmAlarm ==
  ASSUME NoneIsNoFile, AlarmInv, NEW answer \in Answer, AlarmGoesOff(answer)
  PROVE  AlarmInv'
<1>1. IsIdle(Main) /\ file # None
  BY DEF AlarmGoesOff
<1>2. CASE Die
  BY <1>2, DeadAlarm DEF Die
<1>3. CASE \E p \in Thread : \E next :
             Go(p, next) /\ next.at # "idle" /\ file' # None
  <2>1. PICK p \in Thread : \E next :
          Go(p, next) /\ next.at # "idle" /\ file' # None
    BY <1>3
  <2>2. PICK next : Go(p, next) /\ next.at # "idle" /\ file' # None
    BY <2>1
  <2>3. DOMAIN thread' = Thread /\ thread'[p] = next
    BY <2>2 DEF Go, AlarmInv
  <2> QED
    BY <2>2, <2>3, BusyAlarm
<1>4. /\ Reading.at # "idle"
      /\ \A due : Executing(due).at # "idle" /\ Pending(due).at # "idle"
  BY DEF Reading, Executing, Pending, Idle
<1>5. Tick(answer) /\ answer # "crash" => file' # None
  <2>1. Ticked # None
    BY FileIsNotNone DEF IsFile, Ticked
  <2> QED
    BY <2>1 DEF Tick, Save
<1>6. CASE UNCHANGED schedulerVars /\ Go(Main, NothingDue)
  BY <1>1, <1>3, <1>4, <1>6, ThreadIds DEF NothingDue, schedulerVars
<1>7. CASE Tick(answer) /\ answer = "ok" /\ HandOut(DueExecutions)
  <2>1. \E p \in Thread : \E next \in {Pending(DueExecutions), Executing(DueExecutions)} :
          Go(p, next)
    BY <1>7, ThreadIds DEF HandOut, Blocked
  <2> QED
    BY <1>3, <1>4, <1>5, <1>7, <2>1
<1>8. CASE Tick(answer) /\ answer # "crash" /\ Go(Main, NothingDue)
  BY <1>3, <1>4, <1>5, <1>8, ThreadIds DEF NothingDue
<1> QED
  BY <1>2, <1>6, <1>7, <1>8 DEF AlarmGoesOff

\* The record of what is under way is there, so every end of an execution is answered
\* with a snapshot.
LEMMA ExecuteAlarm ==
  ASSUME NoneIsNoFile, Inv, JournalInv, RunsAreRecent, AlarmInv, WritesSucceed,
         NEW p \in Thread, NEW answer \in Answer, Execute(p, answer)
  PROVE  AlarmInv'
<1>1. PICK x \in thread[p].todo : Finish(p, x, answer)
  BY DEF Execute
<1>2. PICK results \in ResultsOf(x) : Complete(x, results, answer) /\ x \in handed
  BY <1>1, FinishIsComplete
<1>3. x.id \in DOMAIN file.history /\ file # None
  BY <1>2 DEF JournalInv, RunsAreRecent, Recorded, Complete
<1>4. Completed(x.id, results) # None
  BY FileIsNotNone DEF IsFile, Completed
<1>5. answer # "error" /\ (answer = "ok" => file' # None)
  BY <1>2, <1>3, <1>4 DEF Complete, Save, WritesSucceed, Fault
<1>6. CASE Die
  BY <1>6, DeadAlarm DEF Die
<1>7. CASE answer = "ok" /\ \E then, rest : Go(p, Setting(then, rest))
  <2>1. DOMAIN thread' = Thread /\ thread'[p].at = "set"
    BY <1>7 DEF Go, Setting, AlarmInv
  <2> QED
    BY <1>5, <1>7, <2>1, BusyAlarm
<1> QED
  BY <1>1, <1>3, <1>5, <1>6, <1>7 DEF Finish

LEMMA ReadAndSetAlarm ==
  ASSUME AlarmInv, NEW p \in Thread, Read(p) \/ Set(p)
  PROVE  AlarmInv'
<1>1. file # None /\ UNCHANGED schedulerVars
  BY DEF Read, Set, AlarmInv, Engaged
<1>2. DOMAIN thread' = Thread /\ file' # None
  BY <1>1 DEF Read, Set, AlarmInv, schedulerVars
<1>3. CASE Read(p)
  <2>1. thread'[p].at = "set"
    BY <1>3 DEF Read, AlarmInv, Idle
  <2> QED
    BY <1>2, <2>1, BusyAlarm
<1>4. CASE Set(p)
  <2>1. ~overtaken' => alarm' = NextWakeup
    BY <1>4 DEF Set, AlarmAt
  <2>2. NextWakeup = WakeupOf(Current)
    BY <1>1, WakeupIsNext
  <2>3. WakeupOf(Current)' = WakeupOf(Current)
    BY <1>1 DEF schedulerVars, WakeupOf, DuesOf, Current, FileOnDisk
  <2> QED
    BY <1>2, <2>1, <2>2, <2>3 DEF AlarmInv
<1> QED
  BY <1>3, <1>4

\* An intent is held while the process that tick was called in lives.
LEMMA OnStartCommandAlarm ==
  ASSUME AlarmInv, NEW p \in Thread, OnStartCommand(p)
  PROVE  AlarmInv'
<1>1. file' # None /\ DOMAIN thread' = Thread /\ thread'[p] = Executing(thread[p].todo)
  BY DEF OnStartCommand, AlarmInv, Engaged, schedulerVars, Go
<1>2. thread'[p].at # "idle"
  BY <1>1 DEF Executing, Idle
<1> QED
  BY <1>1, <1>2, BusyAlarm

\* An idle process leaves the alarm to the next one, and what is in the file with it.
LEMMA EndsAlarm ==
  ASSUME AlarmInv, Ends, WakeupOf(Current)' = WakeupOf(Current)
  PROVE  AlarmInv'
<1>1. CASE Quiet /\ UNCHANGED coordinatorVars
  <2>1. \A p \in Thread : thread'[p].at = "idle"
    BY <1>1 DEF Quiet, coordinatorVars, IsIdle, Idle
  <2> QED
    BY <1>1, <2>1 DEF AlarmInv, Engaged, coordinatorVars
<1>2. CASE Die
  BY <1>2, DeadAlarm DEF Die
<1> QED
  BY <1>1, <1>2 DEF Ends

LEMMA StartAlarm ==
  ASSUME SchedulerConstants, NoneIsNoFile, Inv, AlarmInv, WritesSucceed, Renames,
         NEW answer \in Answer, Start(answer)
  PROVE  AlarmInv'
<1>1. WakeupOf(Current)' = WakeupOf(Current)
  BY OpenKeepsWakeup DEF Start
<1>2. CASE answer = "crash"
  BY <1>1, <1>2, EndsAlarm DEF Start
<1>3. CASE answer = "ok"
  <2>1. file = None /\ UNCHANGED coordinatorVars
    BY <1>3 DEF Start, Open
  <2> QED
    BY <1>1, <2>1 DEF AlarmInv, coordinatorVars, Quiet, IsIdle
<1>4. answer # "error"
  BY DEF Start, Open, Save, Fault, WritesSucceed
<1> QED
  BY <1>2, <1>3, <1>4 DEF Answer

LEMMA AlarmStep ==
  ASSUME SchedulerConstants, NoneIsNoFile, Inv, JournalInv, RunningInv, RunsAreRecent, AlarmInv,
         WritesSucceed, Renames, [CoordinatorNext]_vars
  PROVE  AlarmInv'
<1>1. ASSUME NEW p \in Thread, Step(p)
      PROVE  AlarmInv'
  BY <1>1, ExecuteAlarm, ReadAndSetAlarm DEF Step
<1>2. ASSUME NEW answer \in Answer, Start(answer)
      PROVE  AlarmInv'
  BY <1>2, StartAlarm
<1>3. CASE PermissionChanges \/ DeviceReboots
  <2>1. /\ Broadcast \in Thread /\ DOMAIN thread' = Thread /\ thread'[Broadcast].at = "read"
        /\ \A q \in Thread : thread'[q].at \in Engaged =>
             thread'[q] = thread[q] /\ file' = file
    BY <1>3, ThreadIds
       DEF PermissionChanges, DeviceReboots, Go, Reading, Idle, AlarmInv, Engaged, schedulerVars
  <2> QED
    BY <2>1, BusyAlarm DEF AlarmInv
<1>4. CASE ProcessDies
  <2>1. file' = None /\ disk' = disk /\ (file # None => file = disk)
    BY <1>4 DEF ProcessDies, Crash, RunningInv
  <2>2. Current' = Current
    BY <2>1 DEF Current, FileOnDisk
  <2>3. WakeupOf(Current)' = WakeupOf(Current')
    BY DEF WakeupOf, DuesOf
  <2> QED
    BY <1>4, <2>3, <2>2, EndsAlarm DEF ProcessDies
<1>5. CASE Tock \/ UNCHANGED vars
  <2>1. UNCHANGED <<coordinatorVars, file, disk>>
    BY <1>5 DEF Tock, Advance, vars, schedulerVars
  <2>2. WakeupOf(Current)' = WakeupOf(Current)
    BY <2>1 DEF Current, FileOnDisk, WakeupOf, DuesOf
  <2> QED
    BY <2>1, <2>2 DEF AlarmInv, coordinatorVars, Quiet, IsIdle
<1> QED
  BY <1>1, <1>2, <1>3, <1>4, <1>5, EditorAlarm, AlarmAlarm, OnStartCommandAlarm
     DEF CoordinatorNext

LEMMA InitAlarm ==
  ASSUME NoneIsNoFile, CoordinatorInit
  PROVE  AlarmInv
<1>1. DOMAIN EmptyFile.tasks = {}
  BY DEF EmptyFile
<1>2. EmptyFile # None
  BY FileIsNotNone DEF EmptyFile, IsFile
<1>3. Current = EmptyFile /\ DuesOf(EmptyFile) = {}
  BY <1>1, <1>2 DEF CoordinatorInit, Init, Current, DuesOf
<1> QED
  BY <1>2, <1>3 DEF CoordinatorInit, Init, AlarmInv, WakeupOf

\* docs/SCHEDULED_TASKS_DESIGN 12.1: when every thread has come to its end the alarm is
\* the core's next wake-up, for any number of threads, tasks, crashes and reboots:
\* while no write fails, prune_history does not reach what is under way, and the alarm
\* was not last set from an old snapshot.
THEOREM AlarmFollowsTheSchedule ==
  ASSUME NoneIsNoFile, WritesSucceed, Renames
  PROVE  CoordinatorSpec /\ []RunsAreRecent => []AlarmIsNextWakeup
<1>1. CoordinatorInit => AlarmInv /\ JournalInv /\ RunningInv
  BY InitAlarm, InitJournal, InitRunning DEF CoordinatorInit
<1>2. Inv /\ JournalInv /\ RunningInv /\ RunsAreRecent /\ AlarmInv /\ [CoordinatorNext]_vars
        => AlarmInv' /\ JournalInv' /\ RunningInv'
  BY SchedulerConstants, AlarmStep, StepIsSchedulerStep, NextJournal, NextRunning DEF FileSurvives
<1>3. CoordinatorSpec => []Inv
  BY UsesTheScheduler, Invariance, PTL
<1>4. AlarmInv => AlarmIsNextWakeup
  BY WakeupIsNext DEF AlarmInv, AlarmIsNextWakeup
<1> QED
  BY <1>1, <1>2, <1>3, <1>4, PTL DEF CoordinatorSpec

=============================================================================
