------------------------ MODULE SchedulerThread_proofs ------------------------
(***************************************************************************)
(* What is proved of the scheduler holds under the Windows thread, too:    *)
(* all it does is one of the scheduler's operations, except that a         *)
(* shutdown closes the scheduler without a crash.                          *)
(***************************************************************************)
EXTENDS SchedulerThread, Scheduler_proofs

\* The shutdown leaves the file as it is.
LEMMA ExitInv ==
  ASSUME Inv, Exit
  PROVE  Inv'
BY DEF Inv, Exit, OncePerRevision

LEMMA ThreadStepInv ==
  ASSUME SchedulerConstants, Inv, ThreadStep
  PROVE  Inv'
<1>1. CASE Look \/ BeWoken \/ TimeOut \/ ExecuteNothing
  <2>1. [Next]_schedulerVars
    BY <1>1 DEF Look, BeWoken, TimeOut, ExecuteNothing
  <2> QED
    BY <2>1, NextInv
<1>2. ASSUME NEW answer \in Answer, RunDue(answer)
      PROVE  Inv'
  <2>1. [Next]_schedulerVars
    BY <1>2 DEF RunDue, Next
  <2> QED
    BY <2>1, NextInv
<1>3. ASSUME NEW answer \in Answer, Execute(answer)
      PROVE  Inv'
  <2>1. Next
    BY <1>3 DEF Execute, Next
  <2> QED
    BY <2>1, NextInv
<1> QED
  BY <1>1, <1>2, <1>3, ExitInv DEF ThreadStep

LEMMA ThreadNextInv ==
  ASSUME SchedulerConstants, Inv, [ThreadNext]_vars
  PROVE  Inv'
<1>1. ASSUME NEW answer \in Answer, EditorCall(answer) \/ Start(answer)
      PROVE  Inv'
  <2>1. Next
    BY <1>1 DEF EditorCall, Start, Next
  <2> QED
    BY <2>1, NextInv
<1>2. CASE Quit \/ ProcessDies \/ Tock \/ UNCHANGED vars
  <2>1. [Next]_schedulerVars
    BY <1>2 DEF Quit, ProcessDies, Tock, vars, Next
  <2> QED
    BY <2>1, NextInv
<1> QED
  BY <1>1, <1>2, ThreadStepInv DEF ThreadNext

\* The invariant of the scheduler holds whatever scheduler_thread_main, the editor's
\* calls, ec_create and ec_destroy do.
THEOREM ThreadInvariance == ThreadSpec => []Inv
<1>1. ThreadInit => Inv
  BY SchedulerConstants, InitInv DEF ThreadInit
<1>2. Inv /\ [ThreadNext]_vars => Inv'
  BY SchedulerConstants, ThreadNextInv
<1> QED
  BY <1>1, <1>2, PTL DEF ThreadSpec

\* So on Windows, too, a revision of a task is executed at most once, also by the
\* thread of the next start and after a state file that was lost.
THEOREM ExecutedOnceOnWindows == ThreadSpec => []OncePerRevision
<1>1. Inv => OncePerRevision
  BY DEF Inv
<1> QED
  BY <1>1, ThreadInvariance, PTL

-----------------------------------------------------------------------------
(* The journal and the running tasks *)

(* The thread executes what a tick hands out before it looks again, so that a *)
(* shutdown, which it notices only in its sleep, finds nothing under way.     *)

ThreadQuiet == at # "execute" => handed = {}

\* All the thread and the calls around it do is one of the scheduler's operations, or
\* the shutdown.
LEMMA StepOrExit ==
  ASSUME ThreadQuiet, [ThreadNext]_vars
  PROVE  ThreadQuiet' /\ ([Next]_schedulerVars \/ Exit)
<1>1. CASE Exit
  BY <1>1 DEF Exit, ThreadQuiet
<1>2. ASSUME NEW answer \in Answer, EditorCall(answer)
      PROVE  [Next]_schedulerVars /\ ThreadQuiet'
  <2>1. Edit(answer) /\ at' = IF answer = "crash" THEN "off" ELSE at
    BY <1>2 DEF EditorCall, Goes
  <2>2. handed' = IF answer = "crash" THEN {} ELSE handed
    BY <2>1 DEF Edit, Create, Change, SetEnabled, Delete, Edited, Handed
  <2> QED
    BY <2>1, <2>2 DEF ThreadQuiet, Next
<1>3. ASSUME NEW answer \in Answer, RunDue(answer)
      PROVE  [Next]_schedulerVars /\ ThreadQuiet'
  <2>1. handed = {}
    BY <1>3 DEF RunDue, ThreadQuiet
  <2>2. CASE Tick(answer) /\ (answer = "ok" => at' = "execute")
    BY <2>1, <2>2 DEF ThreadQuiet, Tick, HandsOut, Handed, Next, RunDue
  <2> QED
    BY <1>3, <2>1, <2>2 DEF ThreadQuiet, RunDue, Goes, schedulerVars
<1>4. ASSUME NEW answer \in Answer, Execute(answer)
      PROVE  [Next]_schedulerVars /\ ThreadQuiet'
  <2>1. PICK x \in handed :
          /\ \E results \in ResultsOf(x) : Complete(x, results, answer)
          /\ Goes(IF handed = {x} THEN "look" ELSE "execute", answer)
    BY <1>4 DEF Execute
  <2>2. handed' = IF answer = "crash" THEN {} ELSE handed \ {x}
    BY <2>1 DEF Complete, Handed
  <2>3. at' # "execute" => answer = "crash" \/ handed = {x}
    BY <2>1 DEF Goes
  <2> QED
    BY <2>1, <2>2, <2>3 DEF ThreadQuiet, Next
<1>5. ASSUME NEW answer \in Answer, Start(answer)
      PROVE  [Next]_schedulerVars /\ ThreadQuiet'
  BY <1>5 DEF Start, Open, Handed, ThreadQuiet, Next
<1>6. CASE Look \/ BeWoken \/ TimeOut \/ ExecuteNothing \/ Quit \/ Tock \/ UNCHANGED vars
  <2>1. [Next]_schedulerVars /\ handed' = handed
    BY <1>6 DEF Look, BeWoken, TimeOut, ExecuteNothing, Quit, Tock, vars, schedulerVars, Next, Advance
  <2>2. at' # "execute" => at # "execute" \/ handed = {}
    BY <1>6 DEF Look, BeWoken, TimeOut, ExecuteNothing, Quit, Tock, vars, threadVars
  <2> QED
    BY <2>1, <2>2 DEF ThreadQuiet
<1>7. CASE ProcessDies
  BY <1>7 DEF ThreadQuiet, ProcessDies, Crash, Next
<1> QED
  BY <1>1, <1>2, <1>3, <1>4, <1>5, <1>6, <1>7 DEF ThreadNext, ThreadStep

LEMMA ThreadJournal ==
  ASSUME SchedulerConstants, NoneIsNoFile, Inv, ThreadQuiet, JournalInv, FileSurvives,
         [ThreadNext]_vars
  PROVE  JournalInv'
<1>1. CASE Exit
  BY <1>1 DEF Exit, ThreadQuiet, JournalInv
<1>2. CASE [Next]_schedulerVars
  BY <1>2, NextJournal
<1> QED
  BY <1>1, <1>2, StepOrExit

\* docs 7.2: on Windows, too, the start of an execution is in the file before the
\* platform acts; the shutdown of the thread, which closes the scheduler without a
\* crash, leaves nothing under way behind.
THEOREM StartsAreJournaledOnWindows ==
  ASSUME NoneIsNoFile, FileSurvives
  PROVE  ThreadSpec => [](RunsAreRecent => HandedIsJournaled)
<1>1. ThreadInit => JournalInv /\ ThreadQuiet
  BY InitJournal DEF ThreadInit, ThreadQuiet, Init
<1>2. Inv /\ ThreadQuiet /\ JournalInv /\ [ThreadNext]_vars => ThreadQuiet' /\ JournalInv'
  BY SchedulerConstants, ThreadJournal, StepOrExit
<1>3. JournalInv => (RunsAreRecent => HandedIsJournaled)
  BY DEF JournalInv, RunsAreRecent, HandedIsJournaled, Recorded
<1> QED
  BY <1>1, <1>2, <1>3, ThreadInvariance, PTL DEF ThreadSpec

\* Running tasks that prune_history has reached are left out, as before.
NoneRuns(f, n) ==
  \A t \in DOMAIN f.tasks :
    f.tasks[t].state = "running" => ~(n - f.tasks[t].last < MaxHistory)

ThreadRunningInv ==
  /\ RunningInv
  /\ file = None /\ faults = 0 => disk # None /\ NoneRuns(disk, lastId)

\* A file that names a running task names one the platform works on.
LEMMA NothingUnderWay ==
  ASSUME RunningInv, file # None, handed = {}
  PROVE  NoneRuns(file, lastId)
BY DEF RunningInv, RunningInHand, NoneRuns

\* The operations of the scheduler close it only by a fault, and so does no step but Exit.
LEMMA ClosedByFault ==
  ASSUME SchedulerConstants, NoneIsNoFile, Inv, WritesSucceed, [Next]_schedulerVars,
         file' = None, faults' = 0
  PROVE  file = None /\ faults = 0 /\ UNCHANGED <<disk, lastId>>
<1>1. faults \in Nat
  BY DEF Inv
<1>2. \A kind : ~(Fault(kind) /\ faults' = 0)
  BY <1>1 DEF Fault
<1>3. ASSUME NEW new, NEW left, NEW answer, Save(new, left, answer), new # None
      PROVE  FALSE
  BY <1>2, <1>3 DEF Save
<1>4. ASSUME NEW answer \in Answer, Edit(answer)
      PROVE  FALSE
  <2>1. PICK new, left :
          Edited(new, left, answer) /\ EditKeeps(file, new) /\ EditKeeps(file, left)
    BY <1>4, EditHistory
  <2>2. new # None
    BY <2>1, FileIsNotNone DEF EditKeeps
  <2> QED
    BY <1>3, <2>1, <2>2 DEF Edited
<1>5. ASSUME NEW answer \in Answer, Tick(answer)
      PROVE  FALSE
  <2>1. Ticked # None
    BY FileIsNotNone DEF IsFile, Ticked
  <2> QED
    BY <1>3, <1>5, <2>1 DEF Tick
<1>6. ASSUME NEW answer \in Answer, NEW x \in handed, NEW results \in ResultsOf(x),
             Complete(x, results, answer)
      PROVE  FALSE
  <2>1. Completed(x.id, results) # None
    BY FileIsNotNone DEF IsFile, Completed
  <2> QED
    BY <1>3, <1>6, <2>1 DEF Complete
<1>7. ASSUME NEW answer \in Answer, Open(answer)
      PROVE  FALSE
  <2> DEFINE new == Reconciled(IF disk = None THEN EmptyFile ELSE disk)
  <2>1. new # None
    BY FileIsNotNone DEF IsFile, Reconciled
  <2>2. file' = new \/ Save(new, None, answer)
    BY <1>7 DEF Open
  <2> QED
    BY <1>3, <2>1, <2>2
<1>8. CASE Crash
  BY <1>2, <1>8 DEF Crash
<1>9. CASE Advance \/ UNCHANGED schedulerVars
  BY <1>9 DEF Advance, schedulerVars
<1> QED
  BY <1>4, <1>5, <1>6, <1>7, <1>8, <1>9 DEF Next

LEMMA ThreadRunningStep ==
  ASSUME SchedulerConstants, NoneIsNoFile, Inv, ThreadQuiet, ThreadRunningInv, WritesSucceed,
         [ThreadNext]_vars
  PROVE  ThreadRunningInv'
<1>1. CASE [Next]_schedulerVars
  <2>1. RunningInv'
    BY <1>1, NextRunning DEF ThreadRunningInv
  <2>2. file' = None /\ faults' = 0 => disk' # None /\ NoneRuns(disk', lastId')
    BY <1>1, ClosedByFault DEF ThreadRunningInv
  <2> QED
    BY <2>1, <2>2 DEF ThreadRunningInv, NoneRuns
<1>2. CASE Exit
  <2>1. handed = {} /\ file' = None /\ UNCHANGED <<disk, lastId, faults, handed>>
    BY <1>2 DEF Exit, ThreadQuiet
  <2>2. file # None => NoneRuns(file, lastId) /\ disk = file
    BY <2>1, NothingUnderWay DEF ThreadRunningInv, RunningInv
  <2> QED
    BY <2>1, <2>2 DEF ThreadRunningInv, RunningInv, RunningHasRecord, NoneRuns
<1> QED
  BY <1>1, <1>2, StepOrExit

LEMMA InitThreadRunning ==
  ASSUME NoneIsNoFile, ThreadInit
  PROVE  ThreadRunningInv
<1>1. EmptyFile # None /\ DOMAIN EmptyFile.tasks = {}
  BY FileIsNotNone DEF EmptyFile, IsFile
<1> QED
  BY <1>1, InitRunning DEF ThreadInit, Init, ThreadRunningInv, NoneRuns

FileRunningIsRecent ==
  disk # None =>
    \A t \in DOMAIN disk.tasks : disk.tasks[t].state = "running" => IsRecent(disk.tasks[t].last)

\* While no write fails, a task runs only while the Windows thread executes it, and a
\* shutdown that is not a crash waits for that: the file it leaves names no running
\* task.  Again as long as prune_history does not reach the record of one.
THEOREM ShutdownSettles ==
  ASSUME NoneIsNoFile, WritesSucceed
  PROVE  ThreadSpec => [](RunningIsRecent /\ FileRunningIsRecent => RunningIsExecuted)
<1>1. ThreadInit => ThreadRunningInv /\ ThreadQuiet
  BY InitThreadRunning DEF ThreadInit, ThreadQuiet, Init
<1>2. Inv /\ ThreadQuiet /\ ThreadRunningInv /\ [ThreadNext]_vars
        => ThreadQuiet' /\ ThreadRunningInv'
  BY SchedulerConstants, ThreadRunningStep, StepOrExit
<1>3. ThreadRunningInv => (RunningIsRecent /\ FileRunningIsRecent => RunningIsExecuted)
  <2>1. ThreadRunningInv /\ RunningIsRecent => RunningIsUnderWay
    BY DEF ThreadRunningInv, RunningInv, RunningIsRecent, IsRecent, RunningInHand, RunningIsUnderWay
  <2>2. ThreadRunningInv /\ FileRunningIsRecent => QuitSettles
    BY DEF ThreadRunningInv, FileRunningIsRecent, IsRecent, NoneRuns, QuitSettles
  <2> QED
    BY <2>1, <2>2 DEF RunningIsExecuted
<1> QED
  BY <1>1, <1>2, <1>3, ThreadInvariance, PTL DEF ThreadSpec

=============================================================================
