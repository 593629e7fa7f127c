------------------------ MODULE WindowsRecorder_proofs ------------------------
(***************************************************************************)
(* What WindowsRecorder promises, for any calls and faults: one recording  *)
(* at a time, nothing left by ec_destroy, and an upload that reads the     *)
(* worker that records.                                                    *)
(*                                                                         *)
(* A caller's list of steps says what it is doing, so each invariant says  *)
(* which lists go with which holder of a lock.  The first part shows that  *)
(* the lists are those of the calls and how each step moves from one to    *)
(* the next; after it no proof looks into a list.                          *)
(***************************************************************************)
EXTENDS WindowsRecorder, TLAPS

-----------------------------------------------------------------------------
(* The lists of steps *)

(* Every call is one of these lists, and what is left of it one of their    *)
(* tails.                                                                   *)

Look == <<"look_at_capture">>
Enter == <<"enter_capture">>
SpawnIt == <<"spawn">>
Await == <<"await_ready">>
Join == <<"join_capture">>
TakeJoin == <<"take_capture", "join_capture">>
JoinSpawn == <<"join_capture", "spawn">>
JoinEnter == <<"join_capture", "enter_capture">>
TakeJoinEnter == <<"take_capture", "join_capture", "enter_capture">>

Activate == <<"enter_sync">>
PublishIt == <<"publish">>
SwitchBack == <<"switch_back">>
StopUpload == <<"stop_sync">>
SwitchOff == <<"switch_off", "stop_sync">>
SetAndEnter == <<"set_config", "enter_sync">>
StopAndSet == <<"stop_sync", "set_config", "enter_sync">>
SwitchOn == <<"switch_on", "stop_sync", "set_config", "enter_sync">>

Refill == <<"restart_worker", "enter_sync">>
Empty == <<"take_worker", "restart_worker", "enter_sync">>
JoinEmpty == <<"join_capture", "take_worker", "restart_worker", "enter_sync">>
TakeEmpty == <<"take_capture", "join_capture", "take_worker", "restart_worker", "enter_sync">>
ClearAll ==
  <<"stop_sync", "take_capture", "join_capture", "take_worker", "restart_worker", "enter_sync">>

WaitIt == <<"wait_save">>
SaveIt == <<"enter_save", "wait_save">>

Quit1 == <<"end_worker">>
Quit2 == <<"stop_sync", "end_worker">>
Quit3 == <<"join_scheduler", "stop_sync", "end_worker">>
Quit4 == <<"stop_scheduler", "join_scheduler", "stop_sync", "end_worker">>
Quit5 == <<"join_capture", "stop_scheduler", "join_scheduler", "stop_sync", "end_worker">>
Quit6 ==
  <<"take_capture", "join_capture", "stop_scheduler", "join_scheduler", "stop_sync", "end_worker">>
Quit7 ==
  <<"cancel_exports", "take_capture", "join_capture", "stop_scheduler", "join_scheduler",
    "stop_sync", "end_worker">>
Quit8 ==
  <<"request_stop", "cancel_exports", "take_capture", "join_capture", "stop_scheduler",
    "join_scheduler", "stop_sync", "end_worker">>

\* A list that begins with step and goes on with rest.
Begins(l, step, rest) == Len(l) = 1 + Len(rest) /\ l # <<>> /\ Head(l) = step /\ Tail(l) = rest

LEMMA CaptureLists ==
  /\ Begins(Look, "look_at_capture", <<>>)
  /\ Begins(Enter, "enter_capture", <<>>)
  /\ Begins(SpawnIt, "spawn", <<>>)
  /\ Begins(Await, "await_ready", <<>>)
  /\ Begins(Join, "join_capture", <<>>)
  /\ Begins(TakeJoin, "take_capture", Join)
  /\ Begins(JoinSpawn, "join_capture", SpawnIt)
  /\ Begins(JoinEnter, "join_capture", Enter)
  /\ Begins(TakeJoinEnter, "take_capture", JoinEnter)
<1>1. Begins(Look, "look_at_capture", <<>>)
  BY DEF Begins, Look
<1>2. Begins(Enter, "enter_capture", <<>>)
  BY DEF Begins, Enter
<1>3. Begins(SpawnIt, "spawn", <<>>)
  BY DEF Begins, SpawnIt
<1>4. Begins(Await, "await_ready", <<>>)
  BY DEF Begins, Await
<1>5. Begins(Join, "join_capture", <<>>)
  BY DEF Begins, Join
<1>6. Begins(TakeJoin, "take_capture", Join)
  BY DEF Begins, TakeJoin, Join
<1>7. Begins(JoinSpawn, "join_capture", SpawnIt)
  BY DEF Begins, JoinSpawn, SpawnIt
<1>8. Begins(JoinEnter, "join_capture", Enter)
  BY DEF Begins, JoinEnter, Enter
<1>9. Begins(TakeJoinEnter, "take_capture", JoinEnter)
  BY DEF Begins, TakeJoinEnter, JoinEnter
<1> QED
  BY <1>1, <1>2, <1>3, <1>4, <1>5, <1>6, <1>7, <1>8, <1>9

LEMMA UploadLists ==
  /\ Begins(Activate, "enter_sync", <<>>)
  /\ Begins(PublishIt, "publish", <<>>)
  /\ Begins(SwitchBack, "switch_back", <<>>)
  /\ Begins(StopUpload, "stop_sync", <<>>)
  /\ Begins(SwitchOff, "switch_off", StopUpload)
  /\ Begins(SetAndEnter, "set_config", Activate)
  /\ Begins(StopAndSet, "stop_sync", SetAndEnter)
  /\ Begins(SwitchOn, "switch_on", StopAndSet)
<1>1. Begins(Activate, "enter_sync", <<>>)
  BY DEF Begins, Activate
<1>2. Begins(PublishIt, "publish", <<>>)
  BY DEF Begins, PublishIt
<1>3. Begins(SwitchBack, "switch_back", <<>>)
  BY DEF Begins, SwitchBack
<1>4. Begins(StopUpload, "stop_sync", <<>>)
  BY DEF Begins, StopUpload
<1>5. Begins(SwitchOff, "switch_off", StopUpload)
  BY DEF Begins, SwitchOff, StopUpload
<1>6. Begins(SetAndEnter, "set_config", Activate)
  BY DEF Begins, SetAndEnter, Activate
<1>7. Begins(StopAndSet, "stop_sync", SetAndEnter)
  BY DEF Begins, StopAndSet, SetAndEnter
<1>8. Begins(SwitchOn, "switch_on", StopAndSet)
  BY DEF Begins, SwitchOn, StopAndSet
<1> QED
  BY <1>1, <1>2, <1>3, <1>4, <1>5, <1>6, <1>7, <1>8

LEMMA ClearLists ==
  /\ Begins(Refill, "restart_worker", Activate)
  /\ Begins(Empty, "take_worker", Refill)
  /\ Begins(JoinEmpty, "join_capture", Empty)
  /\ Begins(TakeEmpty, "take_capture", JoinEmpty)
  /\ Begins(ClearAll, "stop_sync", TakeEmpty)
  /\ Begins(WaitIt, "wait_save", <<>>)
  /\ Begins(SaveIt, "enter_save", WaitIt)
<1>1. Begins(Refill, "restart_worker", Activate)
  BY DEF Begins, Refill, Activate
<1>2. Begins(Empty, "take_worker", Refill)
  BY DEF Begins, Empty, Refill
<1>3. Begins(JoinEmpty, "join_capture", Empty)
  BY DEF Begins, JoinEmpty, Empty
<1>4. Begins(TakeEmpty, "take_capture", JoinEmpty)
  BY DEF Begins, TakeEmpty, JoinEmpty
<1>5. Begins(ClearAll, "stop_sync", TakeEmpty)
  BY DEF Begins, ClearAll, TakeEmpty
<1>6. Begins(WaitIt, "wait_save", <<>>)
  BY DEF Begins, WaitIt
<1>7. Begins(SaveIt, "enter_save", WaitIt)
  BY DEF Begins, SaveIt, WaitIt
<1> QED
  BY <1>1, <1>2, <1>3, <1>4, <1>5, <1>6, <1>7

LEMMA EndLists ==
  /\ Begins(Quit1, "end_worker", <<>>)
  /\ Begins(Quit2, "stop_sync", Quit1)
  /\ Begins(Quit3, "join_scheduler", Quit2)
  /\ Begins(Quit4, "stop_scheduler", Quit3)
  /\ Begins(Quit5, "join_capture", Quit4)
  /\ Begins(Quit6, "take_capture", Quit5)
  /\ Begins(Quit7, "cancel_exports", Quit6)
  /\ Begins(Quit8, "request_stop", Quit7)
<1>1. Begins(Quit1, "end_worker", <<>>)
  BY DEF Begins, Quit1
<1>2. Begins(Quit2, "stop_sync", Quit1)
  BY DEF Begins, Quit2, Quit1
<1>3. Begins(Quit3, "join_scheduler", Quit2)
  BY DEF Begins, Quit3, Quit2
<1>4. Begins(Quit4, "stop_scheduler", Quit3)
  BY DEF Begins, Quit4, Quit3
<1>5. Begins(Quit5, "join_capture", Quit4)
  BY DEF Begins, Quit5, Quit4
<1>6. Begins(Quit6, "take_capture", Quit5)
  BY DEF Begins, Quit6, Quit5
<1>7. Begins(Quit7, "cancel_exports", Quit6)
  BY DEF Begins, Quit7, Quit6
<1>8. Begins(Quit8, "request_stop", Quit7)
  BY DEF Begins, Quit8, Quit7
<1> QED
  BY <1>1, <1>2, <1>3, <1>4, <1>5, <1>6, <1>7, <1>8

\* A list is told from the others by its first step, or else by its length, and once by
\* its second step.
LEMMA Heads ==
  /\ Look # <<>> /\ Head(Look) = "look_at_capture"
  /\ Enter # <<>> /\ Head(Enter) = "enter_capture"
  /\ SpawnIt # <<>> /\ Head(SpawnIt) = "spawn"
  /\ Await # <<>> /\ Head(Await) = "await_ready"
  /\ Join # <<>> /\ Head(Join) = "join_capture"
  /\ TakeJoin # <<>> /\ Head(TakeJoin) = "take_capture"
  /\ JoinSpawn # <<>> /\ Head(JoinSpawn) = "join_capture"
  /\ JoinEnter # <<>> /\ Head(JoinEnter) = "join_capture"
  /\ TakeJoinEnter # <<>> /\ Head(TakeJoinEnter) = "take_capture"
  /\ Activate # <<>> /\ Head(Activate) = "enter_sync"
  /\ PublishIt # <<>> /\ Head(PublishIt) = "publish"
  /\ SwitchBack # <<>> /\ Head(SwitchBack) = "switch_back"
  /\ StopUpload # <<>> /\ Head(StopUpload) = "stop_sync"
  /\ SwitchOff # <<>> /\ Head(SwitchOff) = "switch_off"
  /\ SetAndEnter # <<>> /\ Head(SetAndEnter) = "set_config"
  /\ StopAndSet # <<>> /\ Head(StopAndSet) = "stop_sync"
  /\ SwitchOn # <<>> /\ Head(SwitchOn) = "switch_on"
  /\ Refill # <<>> /\ Head(Refill) = "restart_worker"
  /\ Empty # <<>> /\ Head(Empty) = "take_worker"
  /\ JoinEmpty # <<>> /\ Head(JoinEmpty) = "join_capture"
  /\ TakeEmpty # <<>> /\ Head(TakeEmpty) = "take_capture"
  /\ ClearAll # <<>> /\ Head(ClearAll) = "stop_sync"
  /\ WaitIt # <<>> /\ Head(WaitIt) = "wait_save"
  /\ SaveIt # <<>> /\ Head(SaveIt) = "enter_save"
  /\ Quit1 # <<>> /\ Head(Quit1) = "end_worker"
  /\ Quit2 # <<>> /\ Head(Quit2) = "stop_sync"
  /\ Quit3 # <<>> /\ Head(Quit3) = "join_scheduler"
  /\ Quit4 # <<>> /\ Head(Quit4) = "stop_scheduler"
  /\ Quit5 # <<>> /\ Head(Quit5) = "join_capture"
  /\ Quit6 # <<>> /\ Head(Quit6) = "take_capture"
  /\ Quit7 # <<>> /\ Head(Quit7) = "cancel_exports"
  /\ Quit8 # <<>> /\ Head(Quit8) = "request_stop"
BY DEF Look, Enter, SpawnIt, Await, Join, TakeJoin, JoinSpawn, JoinEnter, TakeJoinEnter, Activate,
   PublishIt, SwitchBack, StopUpload, SwitchOff, SetAndEnter, StopAndSet, SwitchOn, Refill, Empty,
   JoinEmpty, TakeEmpty, ClearAll, WaitIt, SaveIt, Quit1, Quit2, Quit3, Quit4, Quit5, Quit6, Quit7,
   Quit8

LEMMA Apart ==
  /\ Join \notin {JoinSpawn, JoinEnter, JoinEmpty, Quit5}
  /\ JoinSpawn \notin {JoinEnter, JoinEmpty, Quit5}
  /\ JoinEnter \notin {JoinEmpty, Quit5}
  /\ JoinEmpty \notin {Quit5}
  /\ TakeJoin \notin {TakeJoinEnter, TakeEmpty, Quit6}
  /\ TakeJoinEnter \notin {TakeEmpty, Quit6}
  /\ TakeEmpty \notin {Quit6}
  /\ StopUpload \notin {StopAndSet, ClearAll, Quit2}
  /\ StopAndSet \notin {ClearAll, Quit2}
  /\ ClearAll \notin {Quit2}
<1>1. /\ Len(Join) = 1
      /\ Len(JoinSpawn) = 2
      /\ Len(JoinEnter) = 2
      /\ Len(JoinEmpty) = 4
      /\ Len(Quit5) = 5
      /\ Len(TakeJoin) = 2
      /\ Len(TakeJoinEnter) = 3
      /\ Len(TakeEmpty) = 5
      /\ Len(Quit6) = 6
      /\ Len(StopUpload) = 1
      /\ Len(StopAndSet) = 3
      /\ Len(ClearAll) = 6
      /\ Len(Quit2) = 2
  BY DEF Join, JoinSpawn, JoinEnter, JoinEmpty, Quit5, TakeJoin, TakeJoinEnter, TakeEmpty, Quit6,
     StopUpload, StopAndSet, ClearAll, Quit2
<1>2. JoinSpawn[2] = "spawn" /\ JoinEnter[2] = "enter_capture"
  BY DEF JoinSpawn, JoinEnter
<1> QED
  BY <1>1, <1>2

UiLists ==
  {<<>>, Look, TakeJoinEnter, JoinEnter, Enter, JoinSpawn, SpawnIt, Await,
   SwitchOn, StopAndSet, SetAndEnter, Activate, PublishIt, SwitchOff, StopUpload,
   ClearAll, TakeEmpty, JoinEmpty, Empty, Refill}
HelperLists == {<<>>, TakeJoin, Join, SaveIt, WaitIt}
SchedulerLists ==
  {<<>>, Enter, JoinSpawn, SpawnIt, Await, TakeJoin, Join, Activate, PublishIt, SwitchBack,
   StopUpload, SaveIt, WaitIt}
QuitLists == {<<>>, Quit8, Quit7, Quit6, Quit5, Quit4, Quit3, Quit2, Quit1}
AnyList == UiLists \cup HelperLists \cup SchedulerLists \cup QuitLists

\* The lists a step begins.
Under(step, lists) == \A l \in AnyList : l # <<>> /\ Head(l) = step => l \in lists

LEMMA StepLists ==
  /\ Under("take_capture", {TakeJoin, TakeJoinEnter, TakeEmpty, Quit6})
  /\ Under("join_capture", {Join, JoinSpawn, JoinEnter, JoinEmpty, Quit5})
  /\ Under("enter_capture", {Enter})
  /\ Under("spawn", {SpawnIt})
  /\ Under("await_ready", {Await})
  /\ Under("look_at_capture", {Look})
  /\ Under("switch_on", {SwitchOn})
  /\ Under("switch_off", {SwitchOff})
  /\ Under("switch_back", {SwitchBack})
  /\ Under("stop_sync", {StopUpload, StopAndSet, ClearAll, Quit2})
  /\ Under("set_config", {SetAndEnter})
  /\ Under("enter_sync", {Activate})
  /\ Under("publish", {PublishIt})
  /\ Under("take_worker", {Empty})
  /\ Under("restart_worker", {Refill})
  /\ Under("enter_save", {SaveIt})
  /\ Under("wait_save", {WaitIt})
  /\ Under("request_stop", {Quit8})
  /\ Under("cancel_exports", {Quit7})
  /\ Under("stop_scheduler", {Quit4})
  /\ Under("join_scheduler", {Quit3})
  /\ Under("end_worker", {Quit1})
<1> USE Heads DEF Under, AnyList, UiLists, HelperLists, SchedulerLists, QuitLists
<1>1. Under("take_capture", {TakeJoin, TakeJoinEnter, TakeEmpty, Quit6})
  OBVIOUS
<1>2. Under("join_capture", {Join, JoinSpawn, JoinEnter, JoinEmpty, Quit5})
  OBVIOUS
<1>3. Under("enter_capture", {Enter})
  OBVIOUS
<1>4. Under("spawn", {SpawnIt})
  OBVIOUS
<1>5. Under("await_ready", {Await})
  OBVIOUS
<1>6. Under("look_at_capture", {Look})
  OBVIOUS
<1>7. Under("switch_on", {SwitchOn})
  OBVIOUS
<1>8. Under("switch_off", {SwitchOff})
  OBVIOUS
<1>9. Under("switch_back", {SwitchBack})
  OBVIOUS
<1>10. Under("stop_sync", {StopUpload, StopAndSet, ClearAll, Quit2})
  OBVIOUS
<1>11. Under("set_config", {SetAndEnter})
  OBVIOUS
<1>12. Under("enter_sync", {Activate})
  OBVIOUS
<1>13. Under("publish", {PublishIt})
  OBVIOUS
<1>14. Under("take_worker", {Empty})
  OBVIOUS
<1>15. Under("restart_worker", {Refill})
  OBVIOUS
<1>16. Under("enter_save", {SaveIt})
  OBVIOUS
<1>17. Under("wait_save", {WaitIt})
  OBVIOUS
<1>18. Under("request_stop", {Quit8})
  OBVIOUS
<1>19. Under("cancel_exports", {Quit7})
  OBVIOUS
<1>20. Under("stop_scheduler", {Quit4})
  OBVIOUS
<1>21. Under("join_scheduler", {Quit3})
  OBVIOUS
<1>22. Under("end_worker", {Quit1})
  OBVIOUS
<1> QED
  BY <1>1, <1>2, <1>3, <1>4, <1>5, <1>6, <1>7, <1>8, <1>9, <1>10, <1>11, <1>12, <1>13, <1>14, <1>15,
     <1>16, <1>17, <1>18, <1>19, <1>20, <1>21, <1>22

LEMMA ListTypes == AnyList \subseteq Seq(StepName)
<1>1. Look \in Seq(StepName)
  BY DEF Look, StepName
<1>2. Enter \in Seq(StepName)
  BY DEF Enter, StepName
<1>3. SpawnIt \in Seq(StepName)
  BY DEF SpawnIt, StepName
<1>4. Await \in Seq(StepName)
  BY DEF Await, StepName
<1>5. Join \in Seq(StepName)
  BY DEF Join, StepName
<1>6. TakeJoin \in Seq(StepName)
  BY DEF TakeJoin, StepName
<1>7. JoinSpawn \in Seq(StepName)
  BY DEF JoinSpawn, StepName
<1>8. JoinEnter \in Seq(StepName)
  BY DEF JoinEnter, StepName
<1>9. TakeJoinEnter \in Seq(StepName)
  BY DEF TakeJoinEnter, StepName
<1>10. Activate \in Seq(StepName)
  BY DEF Activate, StepName
<1>11. PublishIt \in Seq(StepName)
  BY DEF PublishIt, StepName
<1>12. SwitchBack \in Seq(StepName)
  BY DEF SwitchBack, StepName
<1>13. StopUpload \in Seq(StepName)
  BY DEF StopUpload, StepName
<1>14. SwitchOff \in Seq(StepName)
  BY DEF SwitchOff, StepName
<1>15. SetAndEnter \in Seq(StepName)
  BY DEF SetAndEnter, StepName
<1>16. StopAndSet \in Seq(StepName)
  BY DEF StopAndSet, StepName
<1>17. SwitchOn \in Seq(StepName)
  BY DEF SwitchOn, StepName
<1>18. Refill \in Seq(StepName)
  BY DEF Refill, StepName
<1>19. Empty \in Seq(StepName)
  BY DEF Empty, StepName
<1>20. JoinEmpty \in Seq(StepName)
  BY DEF JoinEmpty, StepName
<1>21. TakeEmpty \in Seq(StepName)
  BY DEF TakeEmpty, StepName
<1>22. ClearAll \in Seq(StepName)
  BY DEF ClearAll, StepName
<1>23. WaitIt \in Seq(StepName)
  BY DEF WaitIt, StepName
<1>24. SaveIt \in Seq(StepName)
  BY DEF SaveIt, StepName
<1>25. Quit1 \in Seq(StepName)
  BY DEF Quit1, StepName
<1>26. Quit2 \in Seq(StepName)
  BY DEF Quit2, StepName
<1>27. Quit3 \in Seq(StepName)
  BY DEF Quit3, StepName
<1>28. Quit4 \in Seq(StepName)
  BY DEF Quit4, StepName
<1>29. Quit5 \in Seq(StepName)
  BY DEF Quit5, StepName
<1>30. Quit6 \in Seq(StepName)
  BY DEF Quit6, StepName
<1>31. Quit7 \in Seq(StepName)
  BY DEF Quit7, StepName
<1>32. Quit8 \in Seq(StepName)
  BY DEF Quit8, StepName
<1>33. <<>> \in Seq(StepName)
  OBVIOUS
<1> QED
  BY <1>1, <1>2, <1>3, <1>4, <1>5, <1>6, <1>7, <1>8, <1>9, <1>10, <1>11, <1>12, <1>13, <1>14, <1>15,
     <1>16, <1>17, <1>18, <1>19, <1>20, <1>21, <1>22, <1>23, <1>24, <1>25, <1>26, <1>27, <1>28,
     <1>29, <1>30, <1>31, <1>32, <1>33
     DEF AnyList, UiLists, HelperLists, SchedulerLists, QuitLists

-----------------------------------------------------------------------------
(* How the calls move on *)

ListsOf(a) ==
  IF a = "ui" THEN UiLists
  ELSE IF a = "helper" THEN HelperLists
  ELSE IF a = "scheduler" THEN SchedulerLists ELSE QuitLists

\* Each caller is somewhere in a call of its own, and ec_destroy has been called
\* when its list is under way.
Listed ==
  /\ todo \in [Caller -> AnyList]
  /\ \A a \in Caller : todo[a] \in ListsOf(a)
  /\ shutting \in BOOLEAN
  /\ ~shutting => todo["quit"] = <<>>

\* The call of a goes on with the list l.
Goes(a, l) == todo' = [todo EXCEPT ![a] = l]

\* It goes from one of these lists to the next.
From(a, pairs) == \E p \in pairs : todo[a] = p[1] /\ Goes(a, p[2])

LEMMA OwnLists == ASSUME NEW a \in Caller PROVE ListsOf(a) \subseteq AnyList
BY DEF ListsOf, AnyList

LEMMA JoinEmptyList == ASSUME NEW l \in Seq(StepName) PROVE <<>> \o l = l /\ l \o <<>> = l
OBVIOUS

\* What a step does to the list of its caller: it takes one step off, or puts
\* others in the place of the last.
LEMMA StepGoes ==
  ASSUME Listed, NEW a \in Caller, NEW step, Does(a, step)
  PROVE  /\ todo[a] \in AnyList /\ todo[a] # <<>> /\ Head(todo[a]) = step
         /\ Proceed(a) => Goes(a, Tail(todo[a]))
         /\ \A steps \in AnyList : Tail(todo[a]) = <<>> /\ Then(a, steps) => Goes(a, steps)
<1>1. todo[a] \in AnyList
  BY OwnLists DEF Listed
<1>2. todo[a] # <<>> /\ Head(todo[a]) = step
  BY DEF Does, Idle
<1>3. Tail(todo[a]) \in Seq(StepName)
  BY <1>1, <1>2, ListTypes
<1>4. Proceed(a) => Goes(a, Tail(todo[a]))
  BY <1>3, JoinEmptyList DEF Proceed, Then, Goes
<1>5. ASSUME NEW steps \in AnyList, Tail(todo[a]) = <<>>, Then(a, steps)
      PROVE  Goes(a, steps)
  BY <1>5, ListTypes, JoinEmptyList DEF Then, Goes
<1> QED
  BY <1>1, <1>2, <1>4, <1>5

\* An error ends the call, except that the schedule turns its switch back.
LEMMA FailGoes ==
  ASSUME Listed, NEW a \in Caller, NEW step, Does(a, step), Fail(a)
  PROVE  \/ Goes(a, <<>>)
         \/ a = "scheduler" /\ step \in {"enter_sync", "publish"} /\ Goes(a, SwitchBack)
BY DEF Fail, Does, Idle, Goes, SwitchBack

LEMMA TakeCaptureGoes ==
  ASSUME Listed, NEW a \in Caller, TakeCapture(a)
  PROVE  From(a, {<<TakeJoin, Join>>, <<TakeJoinEnter, JoinEnter>>, <<TakeEmpty, JoinEmpty>>,
                  <<Quit6, Quit5>>})
<1>1. Does(a, "take_capture") /\ Proceed(a)
  BY DEF TakeCapture
<1>2. todo[a] \in {TakeJoin, TakeJoinEnter, TakeEmpty, Quit6} /\ Goes(a, Tail(todo[a]))
  BY <1>1, StepGoes, StepLists DEF Under
<1>3. Tail(TakeJoin) = Join /\ Tail(TakeJoinEnter) = JoinEnter /\ Tail(TakeEmpty) = JoinEmpty /\
    Tail(Quit6) = Quit5
  BY CaptureLists, ClearLists, EndLists DEF Begins
<1> QED
  BY <1>2, <1>3 DEF From

\* The thread that a caller has in hand has panicked.
HoldsPanicked(a) == held[a] # NoThread /\ threads[held[a]].at = "panicked"

LEMMA JoinCaptureGoes ==
  ASSUME Listed, NEW a \in Caller, JoinCapture(a)
  PROVE  \/ From(a, {<<Join, <<>>>>, <<JoinSpawn, SpawnIt>>, <<JoinEnter, Enter>>,
                     <<JoinEmpty, Empty>>, <<Quit5, Quit4>>}) /\ captureLock' = captureLock
         \/ /\ HoldsPanicked(a)
            /\ From(a, {<<Join, <<>>>>, <<JoinSpawn, <<>>>>, <<JoinEnter, <<>>>>,
                        <<JoinEmpty, <<>>>>, <<Quit5, <<>>>>})
<1>1. Does(a, "join_capture")
  BY DEF JoinCapture
<1>2. todo[a] \in {Join, JoinSpawn, JoinEnter, JoinEmpty, Quit5}
  BY <1>1, StepGoes, StepLists DEF Under
<1>3. CASE HoldsPanicked(a)
  <2>1. Goes(a, <<>>)
    BY <1>1, <1>3, FailGoes DEF JoinCapture, HoldsPanicked
  <2> QED
    BY <1>2, <1>3, <2>1 DEF From
<1>4. CASE ~HoldsPanicked(a)
  <2>1. Goes(a, Tail(todo[a])) /\ captureLock' = captureLock
    BY <1>1, <1>4, StepGoes DEF JoinCapture, HoldsPanicked
  <2>2. Tail(Join) = <<>> /\ Tail(JoinSpawn) = SpawnIt /\ Tail(JoinEnter) = Enter /\
      Tail(JoinEmpty) = Empty /\ Tail(Quit5) = Quit4
    BY CaptureLists, ClearLists, EndLists DEF Begins
  <2> QED
    BY <1>2, <2>1, <2>2 DEF From
<1> QED
  BY <1>3, <1>4

LEMMA StopClientGoes ==
  ASSUME Listed, NEW a \in Caller, StopClient(a)
  PROVE  From(a, {<<StopUpload, <<>>>>, <<StopAndSet, SetAndEnter>>, <<ClearAll, TakeEmpty>>,
                  <<Quit2, Quit1>>})
<1>1. Does(a, "stop_sync") /\ Proceed(a)
  BY DEF StopClient
<1>2. todo[a] \in {StopUpload, StopAndSet, ClearAll, Quit2} /\ Goes(a, Tail(todo[a]))
  BY <1>1, StepGoes, StepLists DEF Under
<1>3. Tail(StopUpload) = <<>> /\ Tail(StopAndSet) = SetAndEnter /\ Tail(ClearAll) = TakeEmpty /\
    Tail(Quit2) = Quit1
  BY UploadLists, ClearLists, EndLists DEF Begins
<1> QED
  BY <1>2, <1>3 DEF From

LEMMA SetConfigGoes ==
  ASSUME Listed, NEW a \in Caller, SetConfig(a)
  PROVE  From(a, {<<SetAndEnter, Activate>>})
<1>1. Does(a, "set_config") /\ Proceed(a)
  BY DEF SetConfig
<1>2. todo[a] \in {SetAndEnter} /\ Goes(a, Tail(todo[a]))
  BY <1>1, StepGoes, StepLists DEF Under
<1>3. Tail(SetAndEnter) = Activate
  BY UploadLists DEF Begins
<1> QED
  BY <1>2, <1>3 DEF From

LEMMA TakeWorkerGoes ==
  ASSUME Listed, NEW a \in Caller, TakeWorker(a)
  PROVE  From(a, {<<Empty, Refill>>})
<1>1. Does(a, "take_worker") /\ Proceed(a)
  BY DEF TakeWorker
<1>2. todo[a] \in {Empty} /\ Goes(a, Tail(todo[a]))
  BY <1>1, StepGoes, StepLists DEF Under
<1>3. Tail(Empty) = Refill
  BY ClearLists DEF Begins
<1> QED
  BY <1>2, <1>3 DEF From

LEMMA RequestStopGoes ==
  ASSUME Listed, NEW a \in Caller, RequestStop(a)
  PROVE  From(a, {<<Quit8, Quit7>>})
<1>1. Does(a, "request_stop") /\ Proceed(a)
  BY DEF RequestStop
<1>2. todo[a] \in {Quit8} /\ Goes(a, Tail(todo[a]))
  BY <1>1, StepGoes, StepLists DEF Under
<1>3. Tail(Quit8) = Quit7
  BY EndLists DEF Begins
<1> QED
  BY <1>2, <1>3 DEF From

LEMMA CancelExportsGoes ==
  ASSUME Listed, NEW a \in Caller, CancelExports(a)
  PROVE  From(a, {<<Quit7, Quit6>>})
<1>1. Does(a, "cancel_exports") /\ Proceed(a)
  BY DEF CancelExports
<1>2. todo[a] \in {Quit7} /\ Goes(a, Tail(todo[a]))
  BY <1>1, StepGoes, StepLists DEF Under
<1>3. Tail(Quit7) = Quit6
  BY EndLists DEF Begins
<1> QED
  BY <1>2, <1>3 DEF From

LEMMA StopSchedulerGoes ==
  ASSUME Listed, NEW a \in Caller, StopScheduler(a)
  PROVE  From(a, {<<Quit4, Quit3>>})
<1>1. Does(a, "stop_scheduler") /\ Proceed(a)
  BY DEF StopScheduler
<1>2. todo[a] \in {Quit4} /\ Goes(a, Tail(todo[a]))
  BY <1>1, StepGoes, StepLists DEF Under
<1>3. Tail(Quit4) = Quit3
  BY EndLists DEF Begins
<1> QED
  BY <1>2, <1>3 DEF From

LEMMA JoinSchedulerGoes ==
  ASSUME Listed, NEW a \in Caller, JoinScheduler(a)
  PROVE  \/ From(a, {<<Quit3, Quit2>>})
         \/ thread = "panicked" /\ From(a, {<<Quit3, <<>>>>})
<1>1. Does(a, "join_scheduler") /\ (Proceed(a) \/ (thread = "panicked" /\ Fail(a)))
  BY DEF JoinScheduler
<1>2. todo[a] = Quit3 /\ Tail(Quit3) = Quit2
  BY <1>1, StepGoes, StepLists, EndLists DEF Under, Begins
<1>3. Proceed(a) => Goes(a, Quit2)
  BY <1>1, <1>2, StepGoes
<1>4. Fail(a) => Goes(a, <<>>)
  BY <1>1, FailGoes
<1> QED
  BY <1>1, <1>2, <1>3, <1>4 DEF From

LEMMA EndWorkerGoes ==
  ASSUME Listed, NEW a \in Caller, EndWorker(a)
  PROVE  From(a, {<<Quit1, <<>>>>})
<1>1. Does(a, "end_worker") /\ Proceed(a)
  BY DEF EndWorker
<1>2. todo[a] \in {Quit1} /\ Goes(a, Tail(todo[a]))
  BY <1>1, StepGoes, StepLists DEF Under
<1>3. Tail(Quit1) = <<>>
  BY EndLists DEF Begins
<1> QED
  BY <1>2, <1>3 DEF From

LEMMA EnterCaptureGoes ==
  ASSUME Listed, NEW a \in Caller, EnterCapture(a)
  PROVE  From(a, {<<Enter, <<>>>>, <<Enter, JoinSpawn>>, <<Enter, SpawnIt>>})
<1>1. Does(a, "enter_capture") /\ (Proceed(a) \/ Fail(a) \/ Then(a, JoinSpawn) \/ Then(a, SpawnIt))
  BY DEF EnterCapture, JoinSpawn, SpawnIt
<1>2. todo[a] = Enter
  BY <1>1, StepGoes, StepLists DEF Under
<1>3. Tail(Enter) = <<>>
  BY CaptureLists DEF Begins
<1>4. Proceed(a) => Goes(a, <<>>)
  BY <1>1, <1>2, <1>3, StepGoes
<1>5. Fail(a) => Goes(a, <<>>)
  BY <1>1, FailGoes
<1>6. (Then(a, JoinSpawn) => Goes(a, JoinSpawn)) /\ (Then(a, SpawnIt) => Goes(a, SpawnIt))
  BY <1>1, <1>2, <1>3, StepGoes DEF AnyList, UiLists
<1> QED
  BY <1>1, <1>2, <1>4, <1>5, <1>6 DEF From

LEMMA SpawnGoes ==
  ASSUME Listed, NEW a \in Caller, Spawn(a)
  PROVE  From(a, {<<SpawnIt, Await>>})
<1>1. Does(a, "spawn") /\ (Then(a, Await))
  BY DEF Spawn, Await
<1>2. todo[a] = SpawnIt
  BY <1>1, StepGoes, StepLists DEF Under
<1>3. Tail(SpawnIt) = <<>>
  BY CaptureLists DEF Begins
<1>4. Then(a, Await) => Goes(a, Await)
  BY <1>1, <1>2, <1>3, StepGoes DEF AnyList, UiLists
<1> QED
  BY <1>1, <1>2, <1>4 DEF From

LEMMA AwaitReadyGoes ==
  ASSUME Listed, NEW a \in Caller, AwaitReady(a)
  PROVE  From(a, {<<Await, <<>>>>})
<1>1. Does(a, "await_ready") /\ (Proceed(a) \/ Fail(a))
  BY DEF AwaitReady
<1>2. todo[a] = Await
  BY <1>1, StepGoes, StepLists DEF Under
<1>3. Tail(Await) = <<>>
  BY CaptureLists DEF Begins
<1>4. Proceed(a) => Goes(a, <<>>)
  BY <1>1, <1>2, <1>3, StepGoes
<1>5. Fail(a) => Goes(a, <<>>)
  BY <1>1, FailGoes
<1> QED
  BY <1>1, <1>2, <1>4, <1>5 DEF From

LEMMA EnterSyncGoes ==
  ASSUME Listed, NEW a \in Caller, EnterSync(a)
  PROVE  \/ From(a, {<<Activate, <<>>>>, <<Activate, PublishIt>>})
         \/ a = "scheduler" /\ From(a, {<<Activate, SwitchBack>>})
<1>1. Does(a, "enter_sync") /\ (Proceed(a) \/ Fail(a) \/ Then(a, PublishIt))
  BY DEF EnterSync, PublishIt
<1>2. todo[a] = Activate
  BY <1>1, StepGoes, StepLists DEF Under
<1>3. Tail(Activate) = <<>>
  BY UploadLists DEF Begins
<1>4. Proceed(a) => Goes(a, <<>>)
  BY <1>1, <1>2, <1>3, StepGoes
<1>5. Fail(a) => Goes(a, <<>>) \/ (a = "scheduler" /\ Goes(a, SwitchBack))
  BY <1>1, FailGoes
<1>6. Then(a, PublishIt) => Goes(a, PublishIt)
  BY <1>1, <1>2, <1>3, StepGoes DEF AnyList, UiLists
<1> QED
  BY <1>1, <1>2, <1>4, <1>5, <1>6 DEF From

LEMMA PublishGoes ==
  ASSUME Listed, NEW a \in Caller, Publish(a)
  PROVE  \/ From(a, {<<PublishIt, <<>>>>})
         \/ a = "scheduler" /\ From(a, {<<PublishIt, SwitchBack>>})
<1>1. Does(a, "publish") /\ (Proceed(a) \/ Fail(a))
  BY DEF Publish
<1>2. todo[a] = PublishIt
  BY <1>1, StepGoes, StepLists DEF Under
<1>3. Tail(PublishIt) = <<>>
  BY UploadLists DEF Begins
<1>4. Proceed(a) => Goes(a, <<>>)
  BY <1>1, <1>2, <1>3, StepGoes
<1>5. Fail(a) => Goes(a, <<>>) \/ (a = "scheduler" /\ Goes(a, SwitchBack))
  BY <1>1, FailGoes
<1> QED
  BY <1>1, <1>2, <1>4, <1>5 DEF From

LEMMA RestartWorkerGoes ==
  ASSUME Listed, NEW a \in Caller, RestartWorker(a)
  PROVE  From(a, {<<Refill, <<>>>>, <<Refill, Activate>>})
<1>1. Does(a, "restart_worker") /\ (Proceed(a) \/ Fail(a))
  BY DEF RestartWorker
<1>2. todo[a] = Refill
  BY <1>1, StepGoes, StepLists DEF Under
<1>3. Tail(Refill) = Activate
  BY ClearLists DEF Begins
<1>4. Proceed(a) => Goes(a, Activate)
  BY <1>1, <1>2, <1>3, StepGoes
<1>5. Fail(a) => Goes(a, <<>>)
  BY <1>1, FailGoes
<1> QED
  BY <1>1, <1>2, <1>4, <1>5 DEF From

LEMMA EnterSaveGoes ==
  ASSUME Listed, NEW a \in Caller, EnterSave(a)
  PROVE  From(a, {<<SaveIt, <<>>>>, <<SaveIt, WaitIt>>})
<1>1. Does(a, "enter_save") /\ (Proceed(a) \/ Fail(a))
  BY DEF EnterSave
<1>2. todo[a] = SaveIt
  BY <1>1, StepGoes, StepLists DEF Under
<1>3. Tail(SaveIt) = WaitIt
  BY ClearLists DEF Begins
<1>4. Proceed(a) => Goes(a, WaitIt)
  BY <1>1, <1>2, <1>3, StepGoes
<1>5. Fail(a) => Goes(a, <<>>)
  BY <1>1, FailGoes
<1> QED
  BY <1>1, <1>2, <1>4, <1>5 DEF From

LEMMA SwitchGoes ==
  ASSUME Listed, NEW a \in Caller, Switch(a)
  PROVE  From(a, {<<SwitchOn, StopAndSet>>, <<SwitchOff, StopUpload>>, <<SwitchBack, <<>>>>})
<1>1. \E step \in {"switch_on", "switch_off", "switch_back"} : Does(a, step)
  BY DEF Switch
<1>2. Proceed(a)
  BY DEF Switch
<1>3. todo[a] \in {SwitchOn, SwitchOff, SwitchBack} /\ Goes(a, Tail(todo[a]))
  BY <1>1, <1>2, StepGoes, StepLists DEF Under
<1>4. Tail(SwitchOn) = StopAndSet /\ Tail(SwitchOff) = StopUpload /\ Tail(SwitchBack) = <<>>
  BY UploadLists DEF Begins
<1> QED
  BY <1>3, <1>4 DEF From

LEMMA WaitSaveGoes ==
  ASSUME Listed, NEW a \in Caller, WaitSave(a)
  PROVE  todo[a] = WaitIt /\ (todo' = todo \/ Goes(a, <<>>))
<1>1. Does(a, "wait_save") /\ (todo' = todo \/ Proceed(a))
  BY DEF WaitSave
<1>2. todo[a] = WaitIt
  BY <1>1, StepGoes, StepLists DEF Under
<1>3. Tail(WaitIt) = <<>>
  BY ClearLists DEF Begins
<1>4. Proceed(a) => Goes(a, <<>>)
  BY <1>1, <1>2, <1>3, StepGoes
<1> QED
  BY <1>1, <1>2, <1>4

LEMMA EqualLists ==
  ASSUME NEW l \in Seq(StepName), NEW m \in Seq(StepName), Len(l) = Len(m),
         \A i \in 1..Len(l) : l[i] = m[i]
  PROVE  l = m
OBVIOUS

LEMMA JoinedLists ==
  /\ StopCapture \o StartCapture = TakeJoinEnter
  /\ Clear = ClearAll
  /\ <<"switch_on">> \o StopSync \o <<"set_config">> \o StartSync = SwitchOn
  /\ <<"switch_off">> \o StopSync = SwitchOff
  /\ QuitSteps = Quit8
<1>1. StopCapture \o StartCapture = TakeJoinEnter
  <2> DEFINE l == StopCapture \o StartCapture
             m == TakeJoinEnter
  <2>1. l \in Seq(StepName) /\ Len(l) = 3
    BY DEF StopCapture, StartCapture, StepName
  <2>2. /\ l[1] = "take_capture"
        /\ l[2] = "join_capture"
        /\ l[3] = "enter_capture"
    BY DEF StopCapture, StartCapture
  <2>3. m \in Seq(StepName) /\ Len(m) = 3
    BY DEF TakeJoinEnter, StepName
  <2>4. /\ m[1] = "take_capture"
        /\ m[2] = "join_capture"
        /\ m[3] = "enter_capture"
    BY DEF TakeJoinEnter
  <2> HIDE DEF l, m
  <2>5. \A i \in 1..3 : i \in {1, 2, 3}
    OBVIOUS
  <2>6. \A i \in 1..3 : l[i] = m[i]
    BY <2>2, <2>4, <2>5
  <2>7. l = m
    BY <2>1, <2>3, <2>6, EqualLists
  <2> QED
    BY <2>7 DEF l, m
<1>2. Clear = ClearAll
  <2> DEFINE l == Clear
             m == ClearAll
  <2>1. l \in Seq(StepName) /\ Len(l) = 6
    BY DEF Clear, StopSync, StopCapture, StartSync, StepName
  <2>2. /\ l[1] = "stop_sync"
        /\ l[2] = "take_capture"
        /\ l[3] = "join_capture"
        /\ l[4] = "take_worker"
        /\ l[5] = "restart_worker"
        /\ l[6] = "enter_sync"
    BY DEF Clear, StopSync, StopCapture, StartSync
  <2>3. m \in Seq(StepName) /\ Len(m) = 6
    BY DEF ClearAll, StepName
  <2>4. /\ m[1] = "stop_sync"
        /\ m[2] = "take_capture"
        /\ m[3] = "join_capture"
        /\ m[4] = "take_worker"
        /\ m[5] = "restart_worker"
        /\ m[6] = "enter_sync"
    BY DEF ClearAll
  <2> HIDE DEF l, m
  <2>5. \A i \in 1..6 : i \in {1, 2, 3, 4, 5, 6}
    OBVIOUS
  <2>6. \A i \in 1..6 : l[i] = m[i]
    BY <2>2, <2>4, <2>5
  <2>7. l = m
    BY <2>1, <2>3, <2>6, EqualLists
  <2> QED
    BY <2>7 DEF l, m
<1>3. <<"switch_on">> \o StopSync \o <<"set_config">> \o StartSync = SwitchOn
  <2> DEFINE l == <<"switch_on">> \o StopSync \o <<"set_config">> \o StartSync
             m == SwitchOn
  <2>1. l \in Seq(StepName) /\ Len(l) = 4
    BY DEF StopSync, StartSync, StepName
  <2>2. /\ l[1] = "switch_on"
        /\ l[2] = "stop_sync"
        /\ l[3] = "set_config"
        /\ l[4] = "enter_sync"
    BY DEF StopSync, StartSync
  <2>3. m \in Seq(StepName) /\ Len(m) = 4
    BY DEF SwitchOn, StepName
  <2>4. /\ m[1] = "switch_on"
        /\ m[2] = "stop_sync"
        /\ m[3] = "set_config"
        /\ m[4] = "enter_sync"
    BY DEF SwitchOn
  <2> HIDE DEF l, m
  <2>5. \A i \in 1..4 : i \in {1, 2, 3, 4}
    OBVIOUS
  <2>6. \A i \in 1..4 : l[i] = m[i]
    BY <2>2, <2>4, <2>5
  <2>7. l = m
    BY <2>1, <2>3, <2>6, EqualLists
  <2> QED
    BY <2>7 DEF l, m
<1>4. <<"switch_off">> \o StopSync = SwitchOff
  <2> DEFINE l == <<"switch_off">> \o StopSync
             m == SwitchOff
  <2>1. l \in Seq(StepName) /\ Len(l) = 2
    BY DEF StopSync, StepName
  <2>2. /\ l[1] = "switch_off"
        /\ l[2] = "stop_sync"
    BY DEF StopSync
  <2>3. m \in Seq(StepName) /\ Len(m) = 2
    BY DEF SwitchOff, StepName
  <2>4. /\ m[1] = "switch_off"
        /\ m[2] = "stop_sync"
    BY DEF SwitchOff
  <2> HIDE DEF l, m
  <2>5. \A i \in 1..2 : i \in {1, 2}
    OBVIOUS
  <2>6. \A i \in 1..2 : l[i] = m[i]
    BY <2>2, <2>4, <2>5
  <2>7. l = m
    BY <2>1, <2>3, <2>6, EqualLists
  <2> QED
    BY <2>7 DEF l, m
<1>5. QuitSteps = Quit8
  <2> DEFINE l == QuitSteps
             m == Quit8
  <2>1. l \in Seq(StepName) /\ Len(l) = 8
    BY DEF QuitSteps, StopCapture, StopSync, StepName
  <2>2. /\ l[1] = "request_stop"
        /\ l[2] = "cancel_exports"
        /\ l[3] = "take_capture"
        /\ l[4] = "join_capture"
        /\ l[5] = "stop_scheduler"
        /\ l[6] = "join_scheduler"
        /\ l[7] = "stop_sync"
        /\ l[8] = "end_worker"
    BY DEF QuitSteps, StopCapture, StopSync
  <2>3. m \in Seq(StepName) /\ Len(m) = 8
    BY DEF Quit8, StepName
  <2>4. /\ m[1] = "request_stop"
        /\ m[2] = "cancel_exports"
        /\ m[3] = "take_capture"
        /\ m[4] = "join_capture"
        /\ m[5] = "stop_scheduler"
        /\ m[6] = "join_scheduler"
        /\ m[7] = "stop_sync"
        /\ m[8] = "end_worker"
    BY DEF Quit8
  <2> HIDE DEF l, m
  <2>5. \A i \in 1..8 : i \in {1, 2, 3, 4, 5, 6, 7, 8}
    OBVIOUS
  <2>6. \A i \in 1..8 : l[i] = m[i]
    BY <2>2, <2>4, <2>5
  <2>7. l = m
    BY <2>1, <2>3, <2>6, EqualLists
  <2> QED
    BY <2>7 DEF l, m
<1> QED
  BY <1>1, <1>2, <1>3, <1>4, <1>5

LEMMA LookAtCaptureGoes ==
  ASSUME Listed, NEW a \in Caller, LookAtCapture(a)
  PROVE  From(a, {<<Look, <<>>>>, <<Look, TakeJoinEnter>>})
<1>1. Does(a, "look_at_capture") /\ (Proceed(a) \/ Then(a, TakeJoinEnter))
  BY JoinedLists DEF LookAtCapture
<1>2. todo[a] = Look
  BY <1>1, StepGoes, StepLists DEF Under
<1>3. Tail(Look) = <<>>
  BY CaptureLists DEF Begins
<1>4. Proceed(a) => Goes(a, <<>>)
  BY <1>1, <1>2, <1>3, StepGoes
<1>5. Then(a, TakeJoinEnter) => Goes(a, TakeJoinEnter)
  BY <1>1, <1>2, <1>3, StepGoes DEF AnyList, UiLists
<1> QED
  BY <1>1, <1>2, <1>4, <1>5 DEF From

\* The calls begin with nothing under way.
LEMMA CallUiGoes ==
  ASSUME NEW op \in UiCalls, CallUi(op)
  PROVE  /\ todo["ui"] = <<>>
         /\ \E l \in {Enter, Look, ClearAll, SwitchOn, SwitchOff} : Goes("ui", l)
<1>1. todo["ui"] = <<>> /\ Goes("ui", UiSteps[op])
  BY DEF CallUi, MayCall, Idle, Call, Goes
<1>2. op \in UiOperation
  BY RecorderConstants
<1>3. UiSteps[op] \in {Enter, Look, ClearAll, SwitchOn, SwitchOff}
  BY <1>2, JoinedLists DEF UiSteps, UiOperation, StartCapture, Enter, Look
<1> QED
  BY <1>1, <1>3

LEMMA CallHelperGoes ==
  ASSUME NEW op \in HelperCalls, CallHelper(op)
  PROVE  todo["helper"] = <<>> /\ \E l \in {TakeJoin, SaveIt} : Goes("helper", l)
BY RecorderConstants
   DEF CallHelper, MayCall, Idle, Call, Goes, HelperOperation, HelperSteps, StopCapture, Save,
       TakeJoin, SaveIt

LEMMA RunScheduledGoes ==
  ASSUME NEW action \in Scheduled, RunScheduled(action)
  PROVE  /\ todo["scheduler"] = <<>>
         /\ \E l \in {<<>>, Activate, StopUpload, TakeJoin, Enter, SaveIt} : Goes("scheduler", l)
<1>1. todo["scheduler"] = <<>>
  BY DEF RunScheduled, MayCall, Idle
<1>2. \E l \in {<<>>, StartSync, StopSync, StopCapture, StartCapture, Save} : Call("scheduler", l)
  BY RecorderConstants DEF RunScheduled, Reports, Carries
<1> QED
  BY <1>1, <1>2
     DEF Call, Goes, StartSync, Activate, StopSync, StopUpload, StopCapture, TakeJoin,
         StartCapture, Enter, Save, SaveIt

LEMMA QuitGoes == Quit => Goes("quit", Quit8)
BY JoinedLists DEF Quit, Goes

\* Whose call a list can belong to.
Owned(l, owners) == \A a \in Caller : l \in ListsOf(a) => a \in owners

LEMMA Whose ==
  /\ Owned(Look, {"ui"})
  /\ Owned(JoinEnter, {"ui"})
  /\ Owned(TakeJoinEnter, {"ui"})
  /\ Owned(SwitchOff, {"ui"})
  /\ Owned(SetAndEnter, {"ui"})
  /\ Owned(StopAndSet, {"ui"})
  /\ Owned(SwitchOn, {"ui"})
  /\ Owned(Refill, {"ui"})
  /\ Owned(Empty, {"ui"})
  /\ Owned(JoinEmpty, {"ui"})
  /\ Owned(TakeEmpty, {"ui"})
  /\ Owned(ClearAll, {"ui"})
  /\ Owned(Enter, {"ui", "scheduler"})
  /\ Owned(SpawnIt, {"ui", "scheduler"})
  /\ Owned(Await, {"ui", "scheduler"})
  /\ Owned(JoinSpawn, {"ui", "scheduler"})
  /\ Owned(Activate, {"ui", "scheduler"})
  /\ Owned(PublishIt, {"ui", "scheduler"})
  /\ Owned(StopUpload, {"ui", "scheduler"})
  /\ Owned(Join, {"helper", "scheduler"})
  /\ Owned(TakeJoin, {"helper", "scheduler"})
  /\ Owned(WaitIt, {"helper", "scheduler"})
  /\ Owned(SaveIt, {"helper", "scheduler"})
  /\ Owned(SwitchBack, {"scheduler"})
  /\ Owned(Quit1, {"quit"})
  /\ Owned(Quit2, {"quit"})
  /\ Owned(Quit3, {"quit"})
  /\ Owned(Quit4, {"quit"})
  /\ Owned(Quit5, {"quit"})
  /\ Owned(Quit6, {"quit"})
  /\ Owned(Quit7, {"quit"})
  /\ Owned(Quit8, {"quit"})
<1> USE Heads, Apart DEF Owned, ListsOf, Caller, UiLists, HelperLists, SchedulerLists, QuitLists
<1>1. Owned(Look, {"ui"})
  OBVIOUS
<1>2. Owned(JoinEnter, {"ui"})
  OBVIOUS
<1>3. Owned(TakeJoinEnter, {"ui"})
  OBVIOUS
<1>4. Owned(SwitchOff, {"ui"})
  OBVIOUS
<1>5. Owned(SetAndEnter, {"ui"})
  OBVIOUS
<1>6. Owned(StopAndSet, {"ui"})
  OBVIOUS
<1>7. Owned(SwitchOn, {"ui"})
  OBVIOUS
<1>8. Owned(Refill, {"ui"})
  OBVIOUS
<1>9. Owned(Empty, {"ui"})
  OBVIOUS
<1>10. Owned(JoinEmpty, {"ui"})
  OBVIOUS
<1>11. Owned(TakeEmpty, {"ui"})
  OBVIOUS
<1>12. Owned(ClearAll, {"ui"})
  OBVIOUS
<1>13. Owned(Enter, {"ui", "scheduler"})
  OBVIOUS
<1>14. Owned(SpawnIt, {"ui", "scheduler"})
  OBVIOUS
<1>15. Owned(Await, {"ui", "scheduler"})
  OBVIOUS
<1>16. Owned(JoinSpawn, {"ui", "scheduler"})
  OBVIOUS
<1>17. Owned(Activate, {"ui", "scheduler"})
  OBVIOUS
<1>18. Owned(PublishIt, {"ui", "scheduler"})
  OBVIOUS
<1>19. Owned(StopUpload, {"ui", "scheduler"})
  OBVIOUS
<1>20. Owned(Join, {"helper", "scheduler"})
  OBVIOUS
<1>21. Owned(TakeJoin, {"helper", "scheduler"})
  OBVIOUS
<1>22. Owned(WaitIt, {"helper", "scheduler"})
  OBVIOUS
<1>23. Owned(SaveIt, {"helper", "scheduler"})
  OBVIOUS
<1>24. Owned(SwitchBack, {"scheduler"})
  OBVIOUS
<1>25. Owned(Quit1, {"quit"})
  OBVIOUS
<1>26. Owned(Quit2, {"quit"})
  OBVIOUS
<1>27. Owned(Quit3, {"quit"})
  OBVIOUS
<1>28. Owned(Quit4, {"quit"})
  OBVIOUS
<1>29. Owned(Quit5, {"quit"})
  OBVIOUS
<1>30. Owned(Quit6, {"quit"})
  OBVIOUS
<1>31. Owned(Quit7, {"quit"})
  OBVIOUS
<1>32. Owned(Quit8, {"quit"})
  OBVIOUS
<1> QED
  BY <1>1, <1>2, <1>3, <1>4, <1>5, <1>6, <1>7, <1>8, <1>9, <1>10, <1>11, <1>12, <1>13, <1>14, <1>15,
     <1>16, <1>17, <1>18, <1>19, <1>20, <1>21, <1>22, <1>23, <1>24, <1>25, <1>26, <1>27, <1>28,
     <1>29, <1>30, <1>31, <1>32

-----------------------------------------------------------------------------
(* The calls stay what they are *)

\* A caller of its own lists stays in them.
LEMMA FromListed ==
  ASSUME Listed, NEW a \in Caller, NEW pairs, From(a, pairs), shutting' = shutting,
         \A p \in pairs : p[1] # <<>> /\ (p[1] \in ListsOf(a) => p[2] \in ListsOf(a))
  PROVE  Listed'
<1>1. PICK p \in pairs : todo[a] = p[1] /\ Goes(a, p[2])
  BY DEF From
<1>2. p[2] \in ListsOf(a)
  BY <1>1 DEF Listed
<1>3. /\ todo' \in [Caller -> AnyList]
      /\ \A b \in Caller : todo'[b] = IF b = a THEN p[2] ELSE todo[b]
  BY <1>1, <1>2, OwnLists DEF Goes, Listed
<1>4. ~shutting => a # "quit"
  BY <1>1 DEF Listed
<1> QED
  BY <1>2, <1>3, <1>4 DEF Listed, Caller, ListsOf

\* A new call, of one who is not the teardown.
LEMMA CallListed ==
  ASSUME Listed, NEW a \in Caller \ {"quit"}, NEW l \in ListsOf(a), Goes(a, l),
         shutting' = shutting
  PROVE  Listed'
<1>1. /\ todo' \in [Caller -> AnyList]
      /\ \A b \in Caller : todo'[b] = IF b = a THEN l ELSE todo[b]
  BY OwnLists DEF Goes, Listed
<1> QED
  BY <1>1 DEF Listed, Caller

LEMMA ListedStays == Listed /\ UNCHANGED <<shutting, todo>> => Listed'
BY DEF Listed

LEMMA StepListed ==
  ASSUME Listed, NEW a \in Caller, Step(a)
  PROVE  Listed'
<1> USE Heads, Whose DEF Owned, Caller, ListsOf, UiLists, HelperLists, SchedulerLists, QuitLists
<1>0. shutting' = shutting
  BY DEF Step, TakeCapture, JoinCapture, EnterCapture, Spawn, AwaitReady, LookAtCapture,
         Switch, StopClient, SetConfig, EnterSync, Publish, TakeWorker, RestartWorker, EnterSave,
         WaitSave, RequestStop, CancelExports, StopScheduler, JoinScheduler, EndWorker,
         controlVars
<1>1. CASE TakeCapture(a)
  BY <1>0, <1>1, TakeCaptureGoes, FromListed
<1>2. CASE JoinCapture(a)
  BY <1>0, <1>2, JoinCaptureGoes, FromListed
<1>3. CASE EnterCapture(a)
  BY <1>0, <1>3, EnterCaptureGoes, FromListed
<1>4. CASE Spawn(a)
  BY <1>0, <1>4, SpawnGoes, FromListed
<1>5. CASE AwaitReady(a)
  BY <1>0, <1>5, AwaitReadyGoes, FromListed
<1>6. CASE LookAtCapture(a)
  BY <1>0, <1>6, LookAtCaptureGoes, FromListed
<1>7. CASE Switch(a)
  BY <1>0, <1>7, SwitchGoes, FromListed
<1>8. CASE StopClient(a)
  BY <1>0, <1>8, StopClientGoes, FromListed
<1>9. CASE SetConfig(a)
  BY <1>0, <1>9, SetConfigGoes, FromListed
<1>10. CASE EnterSync(a)
  BY <1>0, <1>10, EnterSyncGoes, FromListed
<1>11. CASE Publish(a)
  BY <1>0, <1>11, PublishGoes, FromListed
<1>12. CASE TakeWorker(a)
  BY <1>0, <1>12, TakeWorkerGoes, FromListed
<1>13. CASE RestartWorker(a)
  BY <1>0, <1>13, RestartWorkerGoes, FromListed
<1>14. CASE EnterSave(a)
  BY <1>0, <1>14, EnterSaveGoes, FromListed
<1>15. CASE WaitSave(a)
  <2>1. todo' = todo \/ From(a, {<<WaitIt, <<>>>>})
    BY <1>15, WaitSaveGoes DEF From
  <2> QED
    BY <1>0, <2>1, ListedStays, FromListed
<1>16. CASE RequestStop(a)
  BY <1>0, <1>16, RequestStopGoes, FromListed
<1>17. CASE CancelExports(a)
  BY <1>0, <1>17, CancelExportsGoes, FromListed
<1>18. CASE StopScheduler(a)
  BY <1>0, <1>18, StopSchedulerGoes, FromListed
<1>19. CASE JoinScheduler(a)
  BY <1>0, <1>19, JoinSchedulerGoes, FromListed
<1>20. CASE EndWorker(a)
  BY <1>0, <1>20, EndWorkerGoes, FromListed
<1> QED
  BY <1>1, <1>2, <1>3, <1>4, <1>5, <1>6, <1>7, <1>8, <1>9, <1>10, <1>11, <1>12, <1>13, <1>14,
     <1>15, <1>16, <1>17, <1>18, <1>19, <1>20 DEF Step

LEMMA NextListed ==
  ASSUME Listed, [Next]_vars
  PROVE  Listed'
<1>1. ASSUME NEW a \in Caller, Step(a)
      PROVE  Listed'
  BY <1>1, StepListed
<1>2. ASSUME NEW a \in Caller, ExportEnds(a)
      PROVE  Listed'
  BY <1>2, ListedStays DEF ExportEnds, controlVars
<1>3. ASSUME NEW t \in 1..Len(threads), ThreadStep(t) \/ StreamFails(t) \/ Panics(t)
      PROVE  Listed'
  BY <1>3, ListedStays
     DEF ThreadStep, StreamFails, Panics, OpenStreams, Push, Leave, controlVars
<1>4. ASSUME NEW op \in UiCalls, CallUi(op)
      PROVE  Listed'
  <2>1. PICK l \in {Enter, Look, ClearAll, SwitchOn, SwitchOff} : Goes("ui", l)
    BY <1>4, CallUiGoes
  <2>2. l \in ListsOf("ui") /\ shutting' = shutting
    BY <1>4, <2>1 DEF ListsOf, UiLists, CallUi
  <2> QED
    BY <2>1, <2>2, CallListed DEF Caller
<1>5. ASSUME NEW op \in HelperCalls, CallHelper(op)
      PROVE  Listed'
  <2>1. PICK l \in {TakeJoin, SaveIt} : Goes("helper", l)
    BY <1>5, CallHelperGoes
  <2>2. l \in ListsOf("helper") /\ shutting' = shutting
    BY <1>5, <2>1 DEF ListsOf, HelperLists, CallHelper
  <2> QED
    BY <2>1, <2>2, CallListed DEF Caller
<1>6. ASSUME NEW action \in Scheduled, RunScheduled(action)
      PROVE  Listed'
  <2>1. PICK l \in {<<>>, Activate, StopUpload, TakeJoin, Enter, SaveIt} : Goes("scheduler", l)
    BY <1>6, RunScheduledGoes
  <2>2. l \in ListsOf("scheduler") /\ shutting' = shutting
    BY <1>6, <2>1 DEF ListsOf, SchedulerLists, RunScheduled
  <2> QED
    BY <2>1, <2>2, CallListed DEF Caller
<1>7. CASE Note \/ SchedulerEnds \/ SchedulerPanics \/ DropHandle
  BY <1>7, ListedStays DEF Note, SchedulerEnds, SchedulerPanics, DropHandle, controlVars
<1>8. CASE Quit
  <2>1. Goes("quit", Quit8) /\ shutting' = TRUE
    BY <1>8, QuitGoes DEF Quit
  <2>2. Quit8 \in ListsOf("quit")
    BY DEF ListsOf, QuitLists
  <2>3. /\ todo' \in [Caller -> AnyList]
        /\ \A b \in Caller : todo'[b] = IF b = "quit" THEN Quit8 ELSE todo[b]
    BY <2>1, <2>2, OwnLists DEF Goes, Listed, Caller
  <2> QED
    BY <2>1, <2>2, <2>3 DEF Listed
<1>9. CASE UNCHANGED vars
  BY <1>9, ListedStays DEF vars, controlVars
<1> QED
  BY <1>1, <1>2, <1>3, <1>4, <1>5, <1>6, <1>7, <1>8, <1>9 DEF Next

\* A call begins: somebody who did nothing is before the first step of a list.
CallBegins ==
  \E a \in Caller \ {"quit"} :
    /\ todo[a] = <<>>
    /\ \E l \in AnyList \ {JoinSpawn, SpawnIt, Await, PublishIt, Refill, WaitIt} : Goes(a, l)

LEMMA CallsBegin ==
  ASSUME \/ \E op \in UiCalls : CallUi(op)
         \/ \E op \in HelperCalls : CallHelper(op)
         \/ \E action \in Scheduled : RunScheduled(action)
  PROVE  CallBegins
<1> USE Heads, Apart DEF CallBegins, Caller, AnyList
<1>1. ASSUME NEW op \in UiCalls, CallUi(op)
      PROVE  CallBegins
  BY <1>1, CallUiGoes DEF UiLists
<1>2. ASSUME NEW op \in HelperCalls, CallHelper(op)
      PROVE  CallBegins
  BY <1>2, CallHelperGoes DEF HelperLists
<1>3. ASSUME NEW action \in Scheduled, RunScheduled(action)
      PROVE  CallBegins
  BY <1>3, RunScheduledGoes DEF SchedulerLists
<1> QED
  BY <1>1, <1>2, <1>3

-----------------------------------------------------------------------------
(* Captures *)

\* The rest of a start that keeps the capture slot's lock.
Guarding == {JoinSpawn, SpawnIt, Await}

\* ec_destroy is past its look at the capture slot.
PastTaking == {<<>>, Quit1, Quit2, Quit3, Quit4, Quit5}
PastCapture == shutting /\ todo["quit"] \in PastTaking

\* The threads, and what the callers and the slot have of them.
ThreadTypes ==
  /\ threads \in Seq(CaptureThread) /\ slot \in 0..Len(threads)
  /\ held \in [Caller -> 0..Len(threads)]
  /\ running \in BOOLEAN

\* Who is starting a thread has the lock and the slot is empty; a thread that lives
\* is in the slot or in the hands of that caller; and once ec_destroy has looked at the
\* slot, nobody is.
Captures ==
  /\ captureLock \in Caller \cup {None}
  /\ \A a \in Caller : todo[a] \in Guarding <=> captureLock = a
  /\ captureLock # None => slot = NoThread
  /\ \A a \in Caller : todo[a] = Await => held[a] # NoThread
  /\ \A t \in 1..Len(threads) :
       Live(t) => t = slot \/ \E a \in Caller : todo[a] = Await /\ held[a] = t
  /\ PastCapture => captureLock = None /\ slot = NoThread

\* Nothing that concerns captures: the slot and its threads stay, and no list enters
\* or leaves a start, nor passes the slot.
CaptureRests ==
  /\ UNCHANGED <<captureLock, slot, threads, held>>
  /\ \A a \in Caller : todo'[a] = todo[a] \/ {todo[a], todo'[a]} \cap Guarding = {}
  /\ PastCapture' => PastCapture

LEMMA CapturesRest == Captures /\ CaptureRests => Captures'
BY DEF Captures, CaptureRests, Live, Ended, Guarding

\* A step of a call that neither enters nor leaves a start.
LEMMA FromRests ==
  ASSUME Listed, NEW a \in Caller, NEW pairs, From(a, pairs), shutting' = shutting,
         UNCHANGED <<captureLock, slot, threads, held>>,
         \A p \in pairs : /\ {p[1], p[2]} \cap Guarding = {}
                          /\ p[1] \in QuitLists /\ p[2] \in PastTaking => p[1] \in PastTaking
  PROVE  CaptureRests
<1>1. PICK p \in pairs : todo[a] = p[1] /\ Goes(a, p[2])
  BY DEF From
<1>2. DOMAIN todo = Caller /\ \A b \in Caller : todo'[b] = IF b = a THEN p[2] ELSE todo[b]
  BY <1>1 DEF Goes, Listed
<1> QED
  BY <1>1, <1>2 DEF CaptureRests, PastCapture, Caller, Listed, ListsOf

LEMMA CapturesQuiet ==
  ASSUME Listed, NEW a \in Caller,
         \/ LookAtCapture(a) \/ Switch(a) \/ StopClient(a) \/ SetConfig(a) \/ EnterSync(a)
         \/ Publish(a) \/ TakeWorker(a) \/ RestartWorker(a) \/ EnterSave(a) \/ WaitSave(a)
         \/ RequestStop(a) \/ CancelExports(a) \/ StopScheduler(a) \/ JoinScheduler(a)
         \/ EndWorker(a)
  PROVE  CaptureRests
<1> USE Heads, Apart DEF Guarding, QuitLists, PastTaking
<1>0. shutting' = shutting /\ UNCHANGED <<captureLock, slot, threads, held>>
  BY DEF LookAtCapture, Switch, StopClient, SetConfig, EnterSync, Publish, TakeWorker,
         RestartWorker, EnterSave, WaitSave, RequestStop, CancelExports, StopScheduler,
         JoinScheduler, EndWorker, controlVars, captureVars
<1>1. CASE LookAtCapture(a)
  BY <1>0, <1>1, LookAtCaptureGoes, FromRests
<1>2. CASE Switch(a)
  BY <1>0, <1>2, SwitchGoes, FromRests
<1>3. CASE StopClient(a)
  BY <1>0, <1>3, StopClientGoes, FromRests
<1>4. CASE SetConfig(a)
  BY <1>0, <1>4, SetConfigGoes, FromRests
<1>5. CASE EnterSync(a)
  BY <1>0, <1>5, EnterSyncGoes, FromRests
<1>6. CASE Publish(a)
  BY <1>0, <1>6, PublishGoes, FromRests
<1>7. CASE TakeWorker(a)
  BY <1>0, <1>7, TakeWorkerGoes, FromRests
<1>8. CASE RestartWorker(a)
  BY <1>0, <1>8, RestartWorkerGoes, FromRests
<1>9. CASE EnterSave(a)
  BY <1>0, <1>9, EnterSaveGoes, FromRests
<1>10. CASE WaitSave(a)
  <2>1. CASE todo' = todo
    BY <1>0, <2>1 DEF CaptureRests, PastCapture
  <2>2. CASE From(a, {<<WaitIt, <<>>>>})
    BY <1>0, <2>2, FromRests
  <2> QED
    BY <1>10, <2>1, <2>2, WaitSaveGoes DEF From
<1>11. CASE RequestStop(a)
  BY <1>0, <1>11, RequestStopGoes, FromRests
<1>12. CASE CancelExports(a)
  BY <1>0, <1>12, CancelExportsGoes, FromRests
<1>13. CASE StopScheduler(a)
  BY <1>0, <1>13, StopSchedulerGoes, FromRests
<1>14. CASE JoinScheduler(a)
  BY <1>0, <1>14, JoinSchedulerGoes, FromRests
<1>15. CASE EndWorker(a)
  BY <1>0, <1>15, EndWorkerGoes, FromRests
<1> QED
  BY <1>1, <1>2, <1>3, <1>4, <1>5, <1>6, <1>7, <1>8, <1>9, <1>10, <1>11, <1>12, <1>13, <1>14,
     <1>15

\* A call that begins is no start that has the lock yet.
LEMMA CallsQuiet ==
  ASSUME Listed,
         \/ \E op \in UiCalls : CallUi(op)
         \/ \E op \in HelperCalls : CallHelper(op)
         \/ \E action \in Scheduled : RunScheduled(action)
  PROVE  CaptureRests
<1>1. UNCHANGED <<captureLock, slot, threads, held, shutting>>
  BY DEF CallUi, CallHelper, RunScheduled, captureVars
<1>2. CallBegins
  BY CallsBegin
<1> QED
  BY <1>1, <1>2, Heads DEF CallBegins, Guarding, CaptureRests, PastCapture, Caller, Goes, Listed

\* A thread is changed and the others stay.
Changes(t, r) ==
  /\ threads' \in Seq(CaptureThread) /\ Len(threads') = Len(threads)
  /\ threads'[t] = r
  /\ \A u \in 1..Len(threads) \ {t} : threads'[u] = threads[u]

LEMMA ThreadChanges ==
  ASSUME threads \in Seq(CaptureThread), NEW t \in 1..Len(threads), NEW r \in CaptureThread,
         threads' = [threads EXCEPT ![t] = r]
  PROVE  Changes(t, r)
BY DEF Changes

LEMMA IsTold ==
  ASSUME threads \in Seq(CaptureThread), NEW t \in 1..Len(threads), threads' = Told(t)
  PROVE  Changes(t, [threads[t] EXCEPT !.told = TRUE])
<1>1. threads[t] \in CaptureThread
  OBVIOUS
<1>2. [threads[t] EXCEPT !.told = TRUE] \in CaptureThread
  BY <1>1 DEF CaptureThread
<1> QED
  BY <1>2, ThreadChanges DEF Told

LEMMA ThreadStepTypes ==
  ASSUME ThreadTypes, NEW t \in 1..Len(threads), ThreadStep(t) \/ StreamFails(t) \/ Panics(t)
  PROVE  /\ UNCHANGED <<captureLock, slot, held, todo, shutting>> /\ running' \in BOOLEAN
         /\ \/ threads' = threads
            \/ \E r \in CaptureThread :
                 /\ Changes(t, r) /\ ~Ended(t) /\ r.told = threads[t].told
                 /\ threads[t].failed => r.failed
<1> USE DEF Ended
<1>1. threads[t] \in CaptureThread
  BY DEF ThreadTypes
<1>2. CASE OpenStreams(t)
  <2>1. CASE threads' = [threads EXCEPT ![t].at = "recording", ![t].ready = TRUE]
    <3> DEFINE r == [threads[t] EXCEPT !.at = "recording", !.ready = TRUE]
    <3>1. r \in CaptureThread
      BY <1>1 DEF CaptureThread
    <3>2. threads' = [threads EXCEPT ![t] = r]
      BY <2>1
    <3>3. Changes(t, r)
      BY <3>1, <3>2, ThreadChanges DEF ThreadTypes
    <3> QED
      BY <1>1, <1>2, <3>1, <3>3 DEF OpenStreams, CaptureThread, ThreadTypes
  <2>2. CASE Moves(t, "gone")
    <3> DEFINE r == [threads[t] EXCEPT !.at = "gone"]
    <3>1. r \in CaptureThread
      BY <1>1 DEF CaptureThread
    <3>2. Changes(t, r)
      BY <2>2, <3>1, ThreadChanges DEF ThreadTypes, Moves
    <3> QED
      BY <1>1, <1>2, <3>1, <3>2 DEF OpenStreams, CaptureThread, ThreadTypes
  <2> QED
    BY <1>2, <2>1, <2>2 DEF OpenStreams
<1>3. CASE StreamFails(t)
  <2> DEFINE r == [threads[t] EXCEPT !.failed = TRUE]
  <2>1. r \in CaptureThread
    BY <1>1 DEF CaptureThread
  <2>2. Changes(t, r)
    BY <1>3, <2>1, ThreadChanges DEF ThreadTypes, StreamFails
  <2> QED
    BY <1>1, <1>3, <2>1, <2>2 DEF StreamFails, CaptureThread, ThreadTypes
<1>4. CASE Push(t)
  BY <1>4 DEF Push, ThreadTypes, controlVars
<1>5. CASE Leave(t)
  <2> DEFINE r == [threads[t] EXCEPT !.at = "gone"]
  <2>1. r \in CaptureThread
    BY <1>1 DEF CaptureThread
  <2>2. Changes(t, r)
    BY <1>5, <2>1, ThreadChanges DEF ThreadTypes, Leave, Moves
  <2> QED
    BY <1>1, <1>5, <2>1, <2>2 DEF Leave, CaptureThread, ThreadTypes, controlVars
<1>6. CASE Panics(t)
  <2> DEFINE r == [threads[t] EXCEPT !.at = "panicked"]
  <2>1. r \in CaptureThread
    BY <1>1 DEF CaptureThread
  <2>2. Changes(t, r)
    BY <1>6, <2>1, ThreadChanges DEF ThreadTypes, Panics, Moves
  <2> QED
    BY <1>1, <1>6, <2>1, <2>2 DEF Panics, CaptureThread, ThreadTypes
<1> QED
  BY <1>2, <1>3, <1>4, <1>5, <1>6 DEF ThreadStep

\* Nothing lives that did not live before.
LEMMA LiveChanges ==
  ASSUME threads \in Seq(CaptureThread), NEW t \in 1..Len(threads), NEW r \in CaptureThread,
         Changes(t, r), ~Ended(t), threads[t].told => r.told,
         threads[t].failed => r.failed
  PROVE  \A u \in 1..Len(threads') : u \in 1..Len(threads) /\ (Live(u)' => Live(u))
BY DEF Changes, Live, Ended, CaptureThread

LEMMA ThreadStepCaptures ==
  ASSUME ThreadTypes, Captures, NEW t \in 1..Len(threads),
         ThreadStep(t) \/ StreamFails(t) \/ Panics(t)
  PROVE  ThreadTypes' /\ Captures'
<1>1. /\ UNCHANGED <<captureLock, slot, held, todo, shutting>> /\ running' \in BOOLEAN
      /\ \/ threads' = threads
         \/ \E r \in CaptureThread :
              /\ Changes(t, r) /\ ~Ended(t) /\ r.told = threads[t].told
              /\ threads[t].failed => r.failed
  BY ThreadStepTypes
<1>2. Len(threads') = Len(threads) /\ threads' \in Seq(CaptureThread)
  BY <1>1 DEF Changes, ThreadTypes
<1>3. \A u \in 1..Len(threads') : u \in 1..Len(threads) /\ (Live(u)' => Live(u))
  BY <1>1, LiveChanges DEF ThreadTypes, Live, Ended
<1> QED
  BY <1>1, <1>2, <1>3 DEF ThreadTypes, Captures, PastCapture

\* stop_capture_thread tells the thread in the slot to end.
LEMMA TakeCaptureCaptures ==
  ASSUME Listed, ThreadTypes, Captures, NEW a \in Caller, TakeCapture(a)
  PROVE  ThreadTypes' /\ Captures'
<1>1. /\ captureLock = None /\ slot' = NoThread /\ held' = [held EXCEPT ![a] = slot]
      /\ UNCHANGED <<captureLock, running, shutting>>
      /\ threads' = IF slot = NoThread THEN threads ELSE Told(slot)
  BY DEF TakeCapture, controlVars
<1>2. /\ Len(threads') = Len(threads) /\ threads' \in Seq(CaptureThread)
      /\ \A t \in 1..Len(threads) : Live(t)' => Live(t) /\ t # slot
  <2>1. CASE slot = NoThread
    BY <1>1, <2>1 DEF ThreadTypes, NoThread, Live, Ended
  <2>2. CASE slot # NoThread
    <3>1. slot \in 1..Len(threads)
      BY <2>2 DEF ThreadTypes, NoThread
    <3>2. Changes(slot, [threads[slot] EXCEPT !.told = TRUE])
      BY <1>1, <2>2, <3>1, IsTold DEF ThreadTypes
    <3>3. threads[slot] \in CaptureThread
      BY <3>1 DEF ThreadTypes
    <3>4. threads'[slot].told
      BY <3>2, <3>3 DEF Changes, CaptureThread
    <3> QED
      BY <3>1, <3>2, <3>4 DEF Changes, Live, Ended
  <2> QED
    BY <2>1, <2>2
<1>3. \E p \in {<<TakeJoin, Join>>, <<TakeJoinEnter, JoinEnter>>, <<TakeEmpty, JoinEmpty>>,
                <<Quit6, Quit5>>} : todo[a] = p[1] /\ Goes(a, p[2])
  BY TakeCaptureGoes DEF From
<1>4. DOMAIN todo' = Caller /\ \A b \in Caller \ {a} : todo'[b] = todo[b]
  BY <1>3 DEF Goes, Listed
<1>5. todo[a] \notin Guarding /\ todo'[a] \notin Guarding
  BY <1>3, Heads, Apart DEF Guarding, Goes, Listed
<1>6. \A b \in Caller : todo[b] # Await
  BY <1>1, RecorderConstants DEF Captures, Guarding
<1> QED
  BY <1>1, <1>2, <1>4, <1>5, <1>6 DEF ThreadTypes, Captures, NoThread, Guarding

\* stop_join_capture
LEMMA JoinCaptureCaptures ==
  ASSUME Listed, ThreadTypes, Captures, NEW a \in Caller, JoinCapture(a)
  PROVE  ThreadTypes' /\ Captures'
<1>1. /\ held' = [held EXCEPT ![a] = NoThread] /\ running' = FALSE
      /\ UNCHANGED <<slot, threads, shutting>>
      /\ HoldsPanicked(a) => captureLock' = IF captureLock = a THEN None ELSE captureLock
  BY DEF JoinCapture, HoldsPanicked, controlVars
<1>2. PICK l \in {<<>>, SpawnIt, Enter, Empty, Quit4} :
        /\ todo[a] \in {Join, JoinSpawn, JoinEnter, JoinEmpty, Quit5} /\ Goes(a, l)
        /\ l = SpawnIt => todo[a] = JoinSpawn /\ captureLock' = captureLock
        /\ todo[a] = JoinSpawn /\ l # SpawnIt => HoldsPanicked(a)
        /\ captureLock' = captureLock \/ HoldsPanicked(a)
  <2>1. CASE From(a, {<<Join, <<>>>>, <<JoinSpawn, SpawnIt>>, <<JoinEnter, Enter>>,
                      <<JoinEmpty, Empty>>, <<Quit5, Quit4>>}) /\ captureLock' = captureLock
    BY <2>1, Heads, Apart DEF From
  <2>2. CASE HoldsPanicked(a) /\ From(a, {<<Join, <<>>>>, <<JoinSpawn, <<>>>>,
                      <<JoinEnter, <<>>>>, <<JoinEmpty, <<>>>>, <<Quit5, <<>>>>})
    BY <2>2, Heads DEF From
  <2> QED
    BY <2>1, <2>2, JoinCaptureGoes
<1>3. DOMAIN todo' = Caller /\ todo'[a] = l /\ \A b \in Caller \ {a} : todo'[b] = todo[b]
  BY <1>2 DEF Goes, Listed
<1>4. todo[a] # Await /\ todo'[a] # Await
  BY <1>2, <1>3, Heads
<1>5. \A b \in Caller : todo'[b] \in Guarding <=> captureLock' = b
  <2>1. l \in Guarding <=> l = SpawnIt
    BY <1>2, Heads DEF Guarding
  <2>2. todo[a] \in Guarding <=> todo[a] = JoinSpawn
    BY <1>2, Heads, Apart DEF Guarding
  <2>3. CASE captureLock = a
    BY <1>1, <1>2, <1>3, <2>1, <2>2, <2>3, RecorderConstants DEF Captures
  <2>4. CASE captureLock # a
    BY <1>1, <1>2, <1>3, <2>1, <2>2, <2>4 DEF Captures
  <2> QED
    BY <2>3, <2>4
<1>6. PastCapture' => PastCapture
  BY <1>1, <1>2, <1>3, Heads, Apart DEF PastCapture, PastTaking, Listed, Caller, ListsOf,
     QuitLists
<1>7. ThreadTypes'
  <2>1. Len(threads) \in Nat
    BY DEF ThreadTypes
  <2>2. held' \in [Caller -> 0..Len(threads)]
    BY <1>1, <2>1 DEF ThreadTypes, NoThread
  <2> QED
    BY <1>1, <2>2 DEF ThreadTypes
<1>8. \A t \in 1..Len(threads) : Live(t)' <=> Live(t)
  BY <1>1 DEF Live, Ended
<1>9. captureLock' \in {captureLock, None}
  BY <1>1, <1>2
<1> QED
  BY <1>1, <1>3, <1>4, <1>5, <1>6, <1>7, <1>8, <1>9 DEF ThreadTypes, Captures

LEMMA EnterCaptureCaptures ==
  ASSUME Listed, ThreadTypes, Captures, NEW a \in Caller, EnterCapture(a)
  PROVE  ThreadTypes' /\ Captures'
<1>1. captureLock = None /\ UNCHANGED <<running, shutting>>
  BY DEF EnterCapture, controlVars
<1>2. todo[a] = Enter /\ \E l \in {<<>>, JoinSpawn, SpawnIt} : Goes(a, l)
  BY EnterCaptureGoes DEF From
<1>3. DOMAIN todo' = Caller /\ \A b \in Caller \ {a} : todo'[b] = todo[b]
  BY <1>2 DEF Goes, Listed
<1>4. todo[a] \notin Guarding /\ todo'[a] # Await
  BY <1>2, Heads DEF Guarding, Goes, Listed
<1>5. \A b \in Caller : todo[b] \notin Guarding
  BY <1>1, RecorderConstants DEF Captures
<1>6. a # "quit"
  BY <1>2, Whose DEF Listed, Owned
<1>7. CASE UNCHANGED <<captureLock, slot, threads, held>> /\ (Proceed(a) \/ Fail(a))
  <2>1. Does(a, "enter_capture") /\ Tail(todo[a]) = <<>>
    BY <1>2, CaptureLists DEF EnterCapture, Begins
  <2>2. Goes(a, <<>>)
    <3>1. Proceed(a) => Goes(a, <<>>)
      BY <2>1, StepGoes
    <3>2. Fail(a) => Goes(a, <<>>)
      BY <2>1, FailGoes
    <3> QED
      BY <1>7, <3>1, <3>2
  <2>3. todo'[a] = <<>>
    BY <2>2 DEF Goes, Listed
  <2>4. todo'[a] \notin Guarding
    BY <2>3, Heads DEF Guarding
  <2>5. CaptureRests
    BY <1>1, <1>3, <1>4, <1>6, <1>7, <2>4 DEF CaptureRests, PastCapture, Caller
  <2> QED
    BY <1>1, <1>7, <2>5, CapturesRest DEF ThreadTypes
<1>8. ASSUME ~shutting, captureLock' = a, slot' = NoThread, todo'[a] \in Guarding,
             threads' \in Seq(CaptureThread), Len(threads') = Len(threads),
             held' \in [Caller -> 0..Len(threads)],
             \A t \in 1..Len(threads) : Live(t)' => Live(t) /\ t # slot
      PROVE  ThreadTypes' /\ Captures'
  <2>1. ThreadTypes'
    BY <1>1, <1>8 DEF ThreadTypes, NoThread
  <2>2. \A b \in Caller : todo'[b] \in Guarding <=> b = a
    BY <1>3, <1>5, <1>8
  <2>3. \A b \in Caller : todo'[b] # Await
    BY <1>3, <1>4, <1>5 DEF Guarding
  <2>4. \A t \in 1..Len(threads) : ~Live(t)
            \/ t = slot
    BY <1>5 DEF Captures, Guarding
  <2> QED
    BY <1>1, <1>8, <2>1, <2>2, <2>3, <2>4 DEF Captures, PastCapture
<1>9. CASE /\ MayStart /\ slot # NoThread /\ Guarded(a) /\ threads' = Told(slot)
           /\ held' = [held EXCEPT ![a] = slot] /\ slot' = NoThread
           /\ Then(a, <<"join_capture", "spawn">>)
  <2>1. slot \in 1..Len(threads) /\ threads[slot] \in CaptureThread
    BY <1>9 DEF ThreadTypes, NoThread
  <2>2. Changes(slot, [threads[slot] EXCEPT !.told = TRUE])
    BY <1>9, <2>1, IsTold DEF ThreadTypes
  <2>3. threads'[slot].told
    BY <2>1, <2>2 DEF Changes, CaptureThread
  <2>4. \A t \in 1..Len(threads) : Live(t)' => Live(t) /\ t # slot
    BY <2>1, <2>2, <2>3 DEF Changes, Live, Ended
  <2>5. held' \in [Caller -> 0..Len(threads)]
    BY <1>9 DEF ThreadTypes
  <2>6. Does(a, "enter_capture") /\ Tail(todo[a]) = <<>>
    BY <1>2, CaptureLists DEF EnterCapture, Begins
  <2>7. Goes(a, JoinSpawn)
    BY <1>9, <2>6, StepGoes DEF JoinSpawn, AnyList, UiLists
  <2>8. todo'[a] \in Guarding
    BY <2>7 DEF Goes, Listed, Guarding
  <2> QED
    BY <1>8, <1>9, <2>2, <2>4, <2>5, <2>8 DEF Changes, MayStart, Guarded
<1>10. CASE /\ MayStart /\ slot = NoThread /\ Guarded(a) /\ Then(a, <<"spawn">>)
            /\ UNCHANGED <<slot, threads, held>>
  <2>1. Does(a, "enter_capture") /\ Tail(todo[a]) = <<>>
    BY <1>2, CaptureLists DEF EnterCapture, Begins
  <2>2. Goes(a, SpawnIt)
    BY <1>10, <2>1, StepGoes DEF SpawnIt, AnyList, UiLists
  <2>3. todo'[a] \in Guarding
    BY <2>2 DEF Goes, Listed, Guarding
  <2>4. \A t \in 1..Len(threads) : Live(t)' => Live(t) /\ t # slot
    BY <1>10 DEF Live, Ended, NoThread
  <2> QED
    BY <1>8, <1>10, <2>3, <2>4 DEF ThreadTypes, MayStart, Guarded
<1> QED
  BY <1>7, <1>9, <1>10 DEF EnterCapture

LEMMA SpawnCaptures ==
  ASSUME Listed, ThreadTypes, Captures, NEW a \in Caller, Spawn(a)
  PROVE  ThreadTypes' /\ Captures'
<1> DEFINE new == [at |-> "opening", told |-> FALSE, failed |-> FALSE, ready |-> FALSE]
<1>1. /\ UNCHANGED <<captureLock, slot, running, shutting>>
      /\ threads' = Append(threads, new) /\ held' = [held EXCEPT ![a] = Len(threads')]
  BY DEF Spawn, controlVars
<1>2. todo[a] = SpawnIt /\ Goes(a, Await)
  BY SpawnGoes DEF From
<1>3. DOMAIN todo' = Caller /\ todo'[a] = Await /\ \A b \in Caller \ {a} : todo'[b] = todo[b]
  BY <1>2 DEF Goes, Listed
<1>4. captureLock = a /\ slot = NoThread
  BY <1>2, RecorderConstants DEF Captures, Guarding
<1>5. new \in CaptureThread
  BY DEF CaptureThread
<1>6. /\ threads' \in Seq(CaptureThread) /\ Len(threads') = Len(threads) + 1
      /\ \A t \in 1..Len(threads) : threads'[t] = threads[t]
  BY <1>1, <1>5 DEF ThreadTypes
<1>7. \A b \in Caller : todo[b] # Await
  <2>1. SpawnIt # Await
    BY Heads
  <2> QED
    BY <1>2, <1>4, <2>1 DEF Captures, Guarding
<1>8. \A t \in 1..Len(threads) : ~Live(t)
  BY <1>4, <1>7 DEF Captures, NoThread
<1>9. held'[a] = Len(threads') /\ \A b \in Caller \ {a} : held'[b] = held[b]
  BY <1>1 DEF ThreadTypes
<1>10. \A t \in 1..Len(threads') : Live(t)' => t = Len(threads')
  BY <1>6, <1>8 DEF Live, Ended, ThreadTypes
<1>11. ThreadTypes'
  <2>1. Len(threads) \in Nat
    BY DEF ThreadTypes
  <2>2. held' \in [Caller -> 0..Len(threads')]
    BY <1>1, <1>6, <2>1 DEF ThreadTypes
  <2> QED
    BY <1>1, <1>6, <2>1, <2>2 DEF ThreadTypes
<1>12. ~PastCapture'
  <2>1. ~PastCapture
    BY <1>4, RecorderConstants DEF Captures
  <2>2. a # "quit"
    BY <1>2, Whose DEF Listed, Owned
  <2> QED
    BY <1>1, <1>3, <2>1, <2>2 DEF PastCapture, Caller
<1>13. \A b \in Caller : todo'[b] \in Guarding <=> captureLock' = b
  BY <1>1, <1>2, <1>3, <1>4 DEF Captures, Guarding
<1>14. Len(threads') # NoThread
  BY <1>6 DEF ThreadTypes, NoThread
<1>15. \A b \in Caller : todo'[b] = Await => b = a
  BY <1>3, <1>7
<1> QED
  BY <1>1, <1>3, <1>4, <1>9, <1>10, <1>11, <1>12, <1>13, <1>14, <1>15 DEF Captures

LEMMA AwaitReadyCaptures ==
  ASSUME Listed, ThreadTypes, Captures, NEW a \in Caller, AwaitReady(a)
  PROVE  ThreadTypes' /\ Captures'
<1>1. /\ UNCHANGED <<threads, running, shutting>> /\ captureLock' = None
      /\ held' = [held EXCEPT ![a] = NoThread]
      /\ \/ slot' = held[a]
         \/ Ended(held[a]) /\ slot' = slot
  BY DEF AwaitReady, controlVars
<1>2. todo[a] = Await /\ Goes(a, <<>>)
  BY AwaitReadyGoes DEF From
<1>3. DOMAIN todo' = Caller /\ todo'[a] = <<>> /\ \A b \in Caller \ {a} : todo'[b] = todo[b]
  BY <1>2 DEF Goes, Listed
<1>4. captureLock = a /\ slot = NoThread /\ held[a] # NoThread
  BY <1>2, RecorderConstants DEF Captures, Guarding
<1>5. Len(threads) \in Nat
  BY DEF ThreadTypes
<1>6. held' \in [Caller -> 0..Len(threads)]
  BY <1>1, <1>5 DEF ThreadTypes, NoThread
<1>7. slot' \in 0..Len(threads)
  BY <1>1 DEF ThreadTypes
<1>8. \A b \in Caller \ {a} : todo'[b] \notin Guarding
  BY <1>3, <1>4 DEF Captures
<1>9. \A b \in Caller : todo'[b] \notin Guarding
  BY <1>3, <1>8, Heads DEF Guarding
<1>10. \A t \in 1..Len(threads) : Live(t) => t = held[a]
  <2>1. \A b \in Caller : todo[b] = Await => b = a
    BY <1>4 DEF Captures, Guarding
  <2> QED
    BY <1>4, <2>1 DEF Captures, NoThread
<1>11. \A t \in 1..Len(threads) : Live(t)' => t = slot'
  BY <1>1, <1>10 DEF Live, Ended
<1>12. ~PastCapture'
  <2>1. ~PastCapture
    BY <1>4, RecorderConstants DEF Captures
  <2>2. a # "quit"
    BY <1>2, Whose DEF Listed, Owned
  <2> QED
    BY <1>1, <1>3, <2>1, <2>2 DEF PastCapture, Caller
<1>13. ThreadTypes'
  BY <1>1, <1>6, <1>7 DEF ThreadTypes
<1> QED
  BY <1>1, <1>9, <1>11, <1>12, <1>13, RecorderConstants DEF Captures, Guarding

LEMMA NextCaptures ==
  ASSUME Listed, ThreadTypes, Captures, [Next]_vars
  PROVE  ThreadTypes' /\ Captures'
<1>1. ASSUME NEW a \in Caller, Step(a)
      PROVE  ThreadTypes' /\ Captures'
  <2>1. CASE TakeCapture(a) \/ JoinCapture(a) \/ EnterCapture(a) \/ Spawn(a) \/ AwaitReady(a)
    BY <2>1, TakeCaptureCaptures, JoinCaptureCaptures, EnterCaptureCaptures, SpawnCaptures,
       AwaitReadyCaptures
  <2>2. CASE \/ LookAtCapture(a) \/ Switch(a) \/ StopClient(a) \/ SetConfig(a) \/ EnterSync(a)
             \/ Publish(a) \/ TakeWorker(a) \/ RestartWorker(a) \/ EnterSave(a) \/ WaitSave(a)
             \/ RequestStop(a) \/ CancelExports(a) \/ StopScheduler(a) \/ JoinScheduler(a)
             \/ EndWorker(a)
    <3>1. CaptureRests
      BY <2>2, CapturesQuiet
    <3>2. UNCHANGED <<slot, threads, held, running>>
      BY <2>2
         DEF LookAtCapture, Switch, StopClient, SetConfig, EnterSync, Publish, TakeWorker,
             RestartWorker, EnterSave, WaitSave, RequestStop, CancelExports, StopScheduler,
             JoinScheduler, EndWorker, captureVars
    <3> QED
      BY <3>1, <3>2, CapturesRest DEF ThreadTypes
  <2> QED
    BY <1>1, <2>1, <2>2 DEF Step
<1>2. ASSUME NEW t \in 1..Len(threads), ThreadStep(t) \/ StreamFails(t) \/ Panics(t)
      PROVE  ThreadTypes' /\ Captures'
  BY <1>2, ThreadStepCaptures
<1>3. CASE \/ \E op \in UiCalls : CallUi(op)
           \/ \E op \in HelperCalls : CallHelper(op)
           \/ \E action \in Scheduled : RunScheduled(action)
  <2>1. UNCHANGED <<slot, threads, held, running>>
    BY <1>3 DEF CallUi, CallHelper, RunScheduled, captureVars
  <2> QED
    BY <1>3, <2>1, CallsQuiet, CapturesRest DEF ThreadTypes
<1>4. CASE (\E a \in Caller : ExportEnds(a)) \/ Note \/ SchedulerEnds \/ SchedulerPanics
           \/ DropHandle \/ UNCHANGED vars
  <2>1. UNCHANGED <<captureVars, todo, shutting>>
    BY <1>4 DEF ExportEnds, Note, SchedulerEnds, SchedulerPanics, DropHandle, vars, controlVars
  <2> QED
    BY <2>1, CapturesRest DEF captureVars, ThreadTypes, CaptureRests, PastCapture
<1>5. CASE Quit
  <2>1. ~shutting /\ UNCHANGED captureVars
    BY <1>5 DEF Quit
  <2>2. todo["quit"] = <<>> /\ Goes("quit", Quit8)
    BY <1>5, <2>1, QuitGoes DEF Listed
  <2>3. CaptureRests
    <3>1. todo'["quit"] = Quit8 /\ \A a \in Caller \ {"quit"} : todo'[a] = todo[a]
      BY <2>2 DEF Goes, Listed, Caller
    <3> QED
      BY <2>1, <2>2, <3>1, Heads, Apart
         DEF CaptureRests, captureVars, PastCapture, PastTaking, Guarding, Caller
  <2> QED
    BY <2>1, <2>3, CapturesRest DEF captureVars, ThreadTypes
<1> QED
  BY <1>1, <1>2, <1>3, <1>4, <1>5 DEF Next

LEMMA InitCaptures == Init => Listed /\ ThreadTypes /\ Captures
<1> SUFFICES ASSUME Init PROVE Listed /\ ThreadTypes /\ Captures
  OBVIOUS
<1>1. Listed
  BY DEF Init, Listed, AnyList, ListsOf, UiLists, HelperLists, SchedulerLists, QuitLists, Caller
<1>2. ThreadTypes
  <2>1. threads \in Seq(CaptureThread) /\ Len(threads) = 0
    BY DEF Init
  <2>2. slot \in 0..Len(threads) /\ held \in [Caller -> 0..Len(threads)]
    BY <2>1 DEF Init, NoThread
  <2> QED
    BY <2>1, <2>2 DEF Init, ThreadTypes
<1>3. Captures
  BY Heads, RecorderConstants DEF Init, Captures, Guarding, PastCapture, NoThread
<1> QED
  BY <1>1, <1>2, <1>3

CaptureInv == Listed /\ ThreadTypes /\ Captures

LEMMA CaptureInvariance == Spec => []CaptureInv
<1>1. Init => CaptureInv
  BY InitCaptures DEF CaptureInv
<1>2. CaptureInv /\ [Next]_vars => CaptureInv'
  BY NextListed, NextCaptures DEF CaptureInv
<1> QED
  BY <1>1, <1>2, PTL DEF Spec

\* Two capture threads never feed the recorder at once, unless one has been told to
\* end, whoever starts and stops recordings at the same time.
THEOREM OneThreadRecords == Spec => []OneRecorder
<1>1. CaptureInv => OneRecorder
  <2> SUFFICES ASSUME CaptureInv, NEW t \in 1..Len(threads), NEW u \in 1..Len(threads),
                      IsRecording(t), IsRecording(u)
               PROVE  t = u
    BY DEF OneRecorder
  <2>1. Live(t) /\ Live(u)
    BY DEF IsRecording
  <2>2. CASE slot # NoThread
    <3>1. \A a \in Caller : todo[a] # Await
      BY <2>2, RecorderConstants DEF CaptureInv, Captures, Guarding
    <3> QED
      BY <2>1, <3>1 DEF CaptureInv, Captures
  <2>3. CASE slot = NoThread
    <3>1. \A a, b \in Caller : todo[a] = Await /\ todo[b] = Await => a = b
      BY DEF CaptureInv, Captures, Guarding
    <3> QED
      BY <2>1, <2>3, <3>1 DEF CaptureInv, Captures, NoThread
  <2> QED
    BY <2>2, <2>3
<1> QED
  BY <1>1, CaptureInvariance, PTL

\* When ec_destroy has returned no thread records, and none is being started, also if
\* the start came from another caller.
THEOREM NoCaptureSurvives == Spec => []NoCaptureAfterDestroy
<1>1. CaptureInv => NoCaptureAfterDestroy
  <2> SUFFICES ASSUME CaptureInv, IsDestroyed
               PROVE  slot = NoThread /\ \A t \in 1..Len(threads) : ~Live(t)
    BY DEF NoCaptureAfterDestroy
  <2>1. PastCapture
    BY DEF IsDestroyed, Idle, PastCapture, PastTaking
  <2>2. captureLock = None /\ slot = NoThread
    BY <2>1 DEF CaptureInv, Captures
  <2>3. \A a \in Caller : todo[a] # Await
    BY <2>2, RecorderConstants DEF CaptureInv, Captures, Guarding
  <2> QED
    BY <2>2, <2>3 DEF CaptureInv, Captures, NoThread
<1> QED
  BY <1>1, CaptureInvariance, PTL

-----------------------------------------------------------------------------
(* Panics *)

LEMMA PanicsRest ==
  ASSUME thread' = "panicked" <=> thread = "panicked", UNCHANGED threads
  PROVE  HasPanicked' <=> HasPanicked
BY DEF HasPanicked

\* A step of a call neither panics nor undoes a panic.
LEMMA StepPanics ==
  ASSUME ThreadTypes, NEW a \in Caller, Step(a)
  PROVE  HasPanicked' <=> HasPanicked
<1>1. thread' = "panicked" <=> thread = "panicked"
  BY DEF Step, TakeCapture, JoinCapture, EnterCapture, Spawn, AwaitReady, LookAtCapture,
         Switch, StopClient, SetConfig, EnterSync, Publish, TakeWorker, RestartWorker, EnterSave,
         WaitSave, RequestStop, CancelExports, StopScheduler, JoinScheduler, EndWorker,
         controlVars
<1>2. CASE slot # NoThread /\ threads' = Told(slot)
  <2>1. slot \in 1..Len(threads) /\ threads[slot] \in CaptureThread
    BY <1>2 DEF ThreadTypes, NoThread
  <2>2. Changes(slot, [threads[slot] EXCEPT !.told = TRUE])
    BY <1>2, <2>1, IsTold DEF ThreadTypes
  <2>3. \A u \in 1..Len(threads) : threads'[u].at = threads[u].at
    BY <2>1, <2>2 DEF Changes, CaptureThread
  <2> QED
    BY <1>1, <2>2, <2>3 DEF HasPanicked, Changes
<1>3. CASE Spawn(a)
  <2> DEFINE new == [at |-> "opening", told |-> FALSE, failed |-> FALSE, ready |-> FALSE]
  <2>1. new \in CaptureThread /\ threads' = Append(threads, new)
    BY <1>3 DEF Spawn, CaptureThread
  <2>2. /\ Len(threads') = Len(threads) + 1 /\ threads'[Len(threads) + 1] = new
        /\ \A u \in 1..Len(threads) : threads'[u] = threads[u]
    BY <2>1 DEF ThreadTypes
  <2>3. \A u \in 1..Len(threads') : u \in 1..Len(threads) \/ u = Len(threads) + 1
    BY <2>2 DEF ThreadTypes
  <2>4. \A u \in 1..Len(threads) : u \in 1..Len(threads')
    BY <2>2 DEF ThreadTypes
  <2> QED
    BY <1>1, <2>2, <2>3, <2>4 DEF HasPanicked
<1>4. CASE threads' = threads
  BY <1>1, <1>4, PanicsRest
<1>5. (slot # NoThread /\ threads' = Told(slot)) \/ Spawn(a) \/ threads' = threads
  BY DEF Step, TakeCapture, JoinCapture, EnterCapture, AwaitReady, LookAtCapture,
         Switch, StopClient, SetConfig, EnterSync, Publish, TakeWorker, RestartWorker, EnterSave,
         WaitSave, RequestStop, CancelExports, StopScheduler, JoinScheduler, EndWorker,
         captureVars
<1> QED
  BY <1>2, <1>3, <1>4, <1>5

\* A panic is a fault, and stays.
LEMMA NextPanics ==
  ASSUME ThreadTypes, [Next]_vars
  PROVE  /\ HasPanicked => HasPanicked'
         /\ HasPanicked' => HasPanicked \/ \E kind \in FaultKinds : Fault(kind)
<1>1. ASSUME NEW a \in Caller, Step(a)
      PROVE  HasPanicked' <=> HasPanicked
  BY <1>1, StepPanics
<1>2. ASSUME NEW t \in 1..Len(threads), ThreadStep(t) \/ StreamFails(t) \/ Panics(t)
      PROVE  /\ HasPanicked => HasPanicked'
             /\ HasPanicked' => HasPanicked \/ \E kind \in FaultKinds : Fault(kind)
  <2>1. thread' = thread
    BY <1>2 DEF ThreadStep, OpenStreams, Push, Leave, StreamFails, Panics, controlVars
  <2>2. CASE threads' = threads
    BY <2>1, <2>2, PanicsRest
  <2>3. CASE threads' # threads
    <3>1. PICK r \in CaptureThread : Changes(t, r) /\ ~Ended(t)
      BY <1>2, <2>3, ThreadStepTypes
    <3>2. HasPanicked => HasPanicked'
      BY <2>1, <3>1 DEF HasPanicked, Changes, Ended
    <3>3. CASE Panics(t)
      BY <3>2, <3>3 DEF Panics, Fault
    <3>4. CASE ThreadStep(t) \/ StreamFails(t)
      <4>1. threads[t] \in CaptureThread
        BY DEF ThreadTypes
      <4>2. threads'[t].at # "panicked"
        BY <3>1, <3>4, <4>1
           DEF ThreadStep, OpenStreams, Push, Leave, StreamFails, Moves, Ended, ThreadTypes,
               CaptureThread
      <4> QED
        BY <2>1, <3>1, <3>2, <4>2 DEF HasPanicked, Changes
    <3> QED
      BY <1>2, <3>3, <3>4
  <2> QED
    BY <2>2, <2>3
<1>3. CASE SchedulerPanics
  BY <1>3 DEF SchedulerPanics, Fault, HasPanicked, captureVars
<1>4. CASE \/ \E op \in UiCalls : CallUi(op)
           \/ \E op \in HelperCalls : CallHelper(op)
           \/ \E action \in Scheduled : RunScheduled(action)
           \/ \E a \in Caller : ExportEnds(a)
           \/ Note \/ SchedulerEnds \/ Quit \/ DropHandle \/ UNCHANGED vars
  <2>1. UNCHANGED threads /\ (thread' = "panicked" <=> thread = "panicked")
    BY <1>4
       DEF CallUi, CallHelper, RunScheduled, ExportEnds, Note, SchedulerEnds, Quit, DropHandle,
           vars, captureVars, controlVars
  <2> QED
    BY <2>1, PanicsRest
<1> QED
  BY <1>1, <1>2, <1>3, <1>4 DEF Next

-----------------------------------------------------------------------------
(* The upload client and the end of the recorder *)

\* ec_destroy is past its look at the client's slot.
PastUpload == shutting /\ todo["quit"] \in {<<>>, Quit1}

\* And no panic has ended it before it came there.
HasEmptied == PastUpload /\ ~HasPanicked

\* Who publishes a client has the slot's lock, and once ec_destroy has emptied the
\* slot, nobody does.
Publishing ==
  /\ syncLock \in Caller \cup {None}
  /\ \A a \in Caller : todo[a] = PublishIt <=> syncLock = a
  /\ HasEmptied => client = None /\ syncLock = None

\* Nothing that concerns the client's slot.
UploadRests ==
  /\ UNCHANGED <<syncLock, client>>
  /\ \A a \in Caller : todo'[a] = todo[a] \/ PublishIt \notin {todo[a], todo'[a]}
  /\ HasEmptied' => HasEmptied

LEMMA PublishingRests == Publishing /\ UploadRests => Publishing'
BY DEF Publishing, UploadRests

LEMMA FromRestsUpload ==
  ASSUME Listed, NEW a \in Caller, NEW pairs, From(a, pairs), shutting' = shutting,
         UNCHANGED <<syncLock, client>>, HasPanicked => HasPanicked',
         \A p \in pairs : /\ PublishIt \notin {p[1], p[2]}
                          /\ \/ HasPanicked'
                             \/ p[1] \in QuitLists /\ p[2] \in {<<>>, Quit1} => p[1] = Quit1
  PROVE  UploadRests
<1>1. PICK p \in pairs : todo[a] = p[1] /\ Goes(a, p[2])
  BY DEF From
<1>2. DOMAIN todo = Caller /\ \A b \in Caller : todo'[b] = IF b = a THEN p[2] ELSE todo[b]
  BY <1>1 DEF Goes, Listed
<1> QED
  BY <1>1, <1>2 DEF UploadRests, HasEmptied, PastUpload, Caller, Listed, ListsOf

LEMMA StepPublishing ==
  ASSUME Listed, ThreadTypes, Publishing, NEW a \in Caller, Step(a)
  PROVE  Publishing'
<1> USE Heads, Apart DEF QuitLists
<1>0. shutting' = shutting /\ (HasPanicked' <=> HasPanicked)
  BY StepPanics
     DEF Step, TakeCapture, JoinCapture, EnterCapture, Spawn, AwaitReady, LookAtCapture,
         Switch, StopClient, SetConfig, EnterSync, Publish, TakeWorker, RestartWorker, EnterSave,
         WaitSave, RequestStop, CancelExports, StopScheduler, JoinScheduler, EndWorker,
         controlVars
<1>1. ASSUME UploadRests PROVE Publishing'
  BY <1>1, PublishingRests
<1>2. CASE TakeCapture(a) \/ JoinCapture(a) \/ EnterCapture(a) \/ Spawn(a) \/ AwaitReady(a)
           \/ LookAtCapture(a) \/ Switch(a) \/ SetConfig(a) \/ TakeWorker(a) \/ RestartWorker(a)
           \/ EnterSave(a) \/ WaitSave(a) \/ RequestStop(a) \/ CancelExports(a)
           \/ StopScheduler(a) \/ JoinScheduler(a) \/ EndWorker(a)
  <2>0. UNCHANGED <<syncLock, client>>
    BY <1>2
       DEF TakeCapture, JoinCapture, EnterCapture, Spawn, AwaitReady, LookAtCapture, Switch,
           SetConfig, TakeWorker, RestartWorker, EnterSave, WaitSave, RequestStop,
           CancelExports, StopScheduler, JoinScheduler, EndWorker, syncVars
  <2>1. CASE TakeCapture(a)
    BY <1>0, <1>1, <2>0, <2>1, TakeCaptureGoes, FromRestsUpload
  <2>2. CASE JoinCapture(a)
    <3>1. CASE From(a, {<<Join, <<>>>>, <<JoinSpawn, SpawnIt>>, <<JoinEnter, Enter>>,
                        <<JoinEmpty, Empty>>, <<Quit5, Quit4>>})
      BY <1>0, <1>1, <2>0, <3>1, FromRestsUpload
    <3>2. CASE HoldsPanicked(a) /\ From(a, {<<Join, <<>>>>, <<JoinSpawn, <<>>>>,
                        <<JoinEnter, <<>>>>, <<JoinEmpty, <<>>>>, <<Quit5, <<>>>>})
      <4>1. HasPanicked'
        BY <1>0, <3>2 DEF HoldsPanicked, HasPanicked, ThreadTypes, NoThread
      <4> QED
        BY <1>0, <1>1, <2>0, <3>2, <4>1, FromRestsUpload
    <3> QED
      BY <2>2, <3>1, <3>2, JoinCaptureGoes
  <2>3. CASE EnterCapture(a)
    BY <1>0, <1>1, <2>0, <2>3, EnterCaptureGoes, FromRestsUpload
  <2>4. CASE Spawn(a)
    BY <1>0, <1>1, <2>0, <2>4, SpawnGoes, FromRestsUpload
  <2>5. CASE AwaitReady(a)
    BY <1>0, <1>1, <2>0, <2>5, AwaitReadyGoes, FromRestsUpload
  <2>6. CASE LookAtCapture(a)
    BY <1>0, <1>1, <2>0, <2>6, LookAtCaptureGoes, FromRestsUpload
  <2>7. CASE Switch(a)
    BY <1>0, <1>1, <2>0, <2>7, SwitchGoes, FromRestsUpload
  <2>8. CASE SetConfig(a)
    BY <1>0, <1>1, <2>0, <2>8, SetConfigGoes, FromRestsUpload
  <2>9. CASE TakeWorker(a)
    BY <1>0, <1>1, <2>0, <2>9, TakeWorkerGoes, FromRestsUpload
  <2>10. CASE RestartWorker(a)
    BY <1>0, <1>1, <2>0, <2>10, RestartWorkerGoes, FromRestsUpload
  <2>11. CASE EnterSave(a)
    BY <1>0, <1>1, <2>0, <2>11, EnterSaveGoes, FromRestsUpload
  <2>12. CASE WaitSave(a)
    <3>1. CASE todo' = todo
      BY <1>0, <1>1, <2>0, <3>1 DEF UploadRests, HasEmptied, PastUpload
    <3>2. CASE From(a, {<<WaitIt, <<>>>>})
      BY <1>0, <1>1, <2>0, <3>2, FromRestsUpload
    <3> QED
      BY <2>12, <3>1, <3>2, WaitSaveGoes DEF From
  <2>13. CASE RequestStop(a)
    BY <1>0, <1>1, <2>0, <2>13, RequestStopGoes, FromRestsUpload
  <2>14. CASE CancelExports(a)
    BY <1>0, <1>1, <2>0, <2>14, CancelExportsGoes, FromRestsUpload
  <2>15. CASE StopScheduler(a)
    BY <1>0, <1>1, <2>0, <2>15, StopSchedulerGoes, FromRestsUpload
  <2>16. CASE JoinScheduler(a)
    <3>1. CASE From(a, {<<Quit3, Quit2>>})
      BY <1>0, <1>1, <2>0, <3>1, FromRestsUpload
    <3>2. CASE thread = "panicked" /\ From(a, {<<Quit3, <<>>>>})
      <4>1. HasPanicked'
        BY <1>0, <3>2 DEF HasPanicked
      <4> QED
        BY <1>0, <1>1, <2>0, <3>2, <4>1, FromRestsUpload
    <3> QED
      BY <2>16, <3>1, <3>2, JoinSchedulerGoes
  <2>17. CASE EndWorker(a)
    BY <1>0, <1>1, <2>0, <2>17, EndWorkerGoes, FromRestsUpload
  <2> QED
    BY <1>2, <2>1, <2>2, <2>3, <2>4, <2>5, <2>6, <2>7, <2>8, <2>9, <2>10, <2>11, <2>12, <2>13,
       <2>14, <2>15, <2>16, <2>17
<1>3. CASE StopClient(a)
  <2>1. syncLock = None /\ client' = None /\ syncLock' = None
    BY <1>3 DEF StopClient
  <2>2. \E p \in {<<StopUpload, <<>>>>, <<StopAndSet, SetAndEnter>>, <<ClearAll, TakeEmpty>>,
                  <<Quit2, Quit1>>} : todo[a] = p[1] /\ Goes(a, p[2])
    BY <1>3, StopClientGoes DEF From
  <2>3. \A b \in Caller : todo[b] # PublishIt
    BY <2>1, RecorderConstants DEF Publishing
  <2>4. \A b \in Caller : todo'[b] # PublishIt
    BY <2>2, <2>3 DEF Goes, Listed
  <2> QED
    BY <2>1, <2>4, RecorderConstants DEF Publishing
<1>4. CASE EnterSync(a)
  <2>1. todo[a] = Activate /\ \E l \in {<<>>, PublishIt, SwitchBack} : Goes(a, l)
    BY <1>4, EnterSyncGoes DEF From
  <2>2. DOMAIN todo' = Caller /\ \A b \in Caller \ {a} : todo'[b] = todo[b]
    BY <2>1 DEF Goes, Listed
  <2>3. a # "quit"
    BY <2>1, Whose DEF Listed, Owned
  <2>4. syncLock = None /\ client' = client
    BY <1>4 DEF EnterSync
  <2>5. \A b \in Caller : todo[b] # PublishIt
    BY <2>4, RecorderConstants DEF Publishing
  <2>6. Does(a, "enter_sync") /\ Tail(todo[a]) = <<>>
    BY <1>4, <2>1, UploadLists DEF EnterSync, Begins
  <2>7. CASE syncLock' = syncLock /\ (Proceed(a) \/ Fail(a))
    <3>1. \E l \in {<<>>, SwitchBack} : Goes(a, l)
      <4>1. Proceed(a) => Goes(a, <<>>)
        BY <2>6, StepGoes
      <4>2. Fail(a) => Goes(a, <<>>) \/ Goes(a, SwitchBack)
        BY <2>6, FailGoes
      <4> QED
        BY <2>7, <4>1, <4>2
    <3>2. todo'[a] # PublishIt
      BY <3>1 DEF Goes, Listed
    <3>3. HasEmptied' => HasEmptied
      BY <1>0, <2>2, <2>3 DEF HasEmptied, PastUpload, Caller
    <3>4. UploadRests
      BY <2>2, <2>4, <2>5, <2>7, <3>2, <3>3 DEF UploadRests
    <3> QED
      BY <1>1, <3>4
  <2>8. CASE MayActivate /\ syncLock' = a /\ Then(a, <<"publish">>)
    <3>1. Goes(a, PublishIt)
      BY <2>6, <2>8, StepGoes DEF PublishIt, AnyList, UiLists
    <3>2. todo'[a] = PublishIt
      BY <3>1 DEF Goes, Listed
    <3> QED
      BY <1>0, <2>2, <2>5, <2>8, <3>2 DEF Publishing, MayActivate, HasEmptied, PastUpload
  <2> QED
    BY <1>4, <2>7, <2>8 DEF EnterSync, syncVars
<1>5. CASE Publish(a)
  <2>1. todo[a] = PublishIt /\ \E l \in {<<>>, SwitchBack} : Goes(a, l)
    BY <1>5, PublishGoes DEF From
  <2>2. DOMAIN todo' = Caller /\ todo'[a] # PublishIt /\ \A b \in Caller \ {a} : todo'[b] = todo[b]
    BY <2>1 DEF Goes, Listed
  <2>3. a # "quit"
    BY <2>1, Whose DEF Listed, Owned
  <2>4. syncLock = a /\ syncLock' = None
    BY <1>5, <2>1 DEF Publish, Publishing
  <2>5. \A b \in Caller : todo'[b] # PublishIt
    BY <2>2, <2>4 DEF Publishing
  <2>6. ~HasEmptied
    BY <2>4, RecorderConstants DEF Publishing
  <2>7. ~HasEmptied'
    BY <1>0, <2>2, <2>3, <2>6 DEF HasEmptied, PastUpload, Caller
  <2> QED
    BY <2>4, <2>5, <2>7, RecorderConstants DEF Publishing
<1> QED
  BY <1>2, <1>3, <1>4, <1>5 DEF Step

LEMMA NextPublishing ==
  ASSUME Listed, ThreadTypes, Publishing, [Next]_vars
  PROVE  Publishing'
<1> USE Heads, Apart
<1>0. HasPanicked => HasPanicked'
  BY NextPanics
<1>1. ASSUME NEW a \in Caller, Step(a)
      PROVE  Publishing'
  BY <1>1, StepPublishing
<1>2. CASE \/ \E op \in UiCalls : CallUi(op)
           \/ \E op \in HelperCalls : CallHelper(op)
           \/ \E action \in Scheduled : RunScheduled(action)
  <2>1. UNCHANGED <<syncLock, client, shutting>>
    BY <1>2 DEF CallUi, CallHelper, RunScheduled, syncVars
  <2>2. CallBegins
    BY <1>2, CallsBegin
  <2>3. UploadRests
    BY <1>0, <2>1, <2>2 DEF CallBegins, UploadRests, HasEmptied, PastUpload, Goes, Listed, Caller
  <2> QED
    BY <2>3, PublishingRests
<1>3. CASE (\E a \in Caller : ExportEnds(a)) \/ Note \/ SchedulerEnds \/ SchedulerPanics
           \/ (\E t \in 1..Len(threads) : ThreadStep(t) \/ StreamFails(t) \/ Panics(t))
           \/ UNCHANGED vars
  <2>1. UNCHANGED <<syncVars, todo, shutting>>
    BY <1>3
       DEF ExportEnds, Note, SchedulerEnds, SchedulerPanics, ThreadStep, OpenStreams, Push, Leave,
           StreamFails, Panics, vars, controlVars
  <2> QED
    BY <1>0, <2>1, PublishingRests DEF syncVars, UploadRests, HasEmptied, PastUpload
<1>4. CASE Quit
  <2>1. ~shutting /\ UNCHANGED syncVars
    BY <1>4 DEF Quit
  <2>2. todo["quit"] = <<>> /\ Goes("quit", Quit8)
    BY <1>4, <2>1, QuitGoes DEF Listed
  <2>3. todo'["quit"] = Quit8 /\ \A a \in Caller \ {"quit"} : todo'[a] = todo[a]
    BY <2>2 DEF Goes, Listed, Caller
  <2>4. UploadRests
    BY <1>0, <2>1, <2>2, <2>3 DEF UploadRests, syncVars, HasEmptied, PastUpload, Caller
  <2> QED
    BY <2>4, PublishingRests
<1>5. CASE DropHandle
  <2>1. syncLock' = syncLock /\ client' = None /\ UNCHANGED <<todo, shutting>>
    BY <1>5 DEF DropHandle, controlVars
  <2> QED
    BY <1>0, <2>1 DEF Publishing, HasEmptied, PastUpload
<1> QED
  BY <1>1, <1>2, <1>3, <1>4, <1>5 DEF Next

UploadInv == CaptureInv /\ Publishing

LEMMA UploadInvariance == Spec => []UploadInv
<1>1. Init => UploadInv
  BY InitCaptures, Heads, RecorderConstants DEF Init, UploadInv, CaptureInv, Publishing, HasEmptied, PastUpload
<1>2. UploadInv /\ [Next]_vars => UploadInv'
  BY NextListed, NextCaptures, NextPublishing DEF UploadInv, CaptureInv
<1> QED
  BY <1>1, <1>2, PTL DEF Spec

\* When ec_destroy has returned there is no upload client, and nobody publishes one: the
\* comment of start_configured_sync.  Unless a thread of the recorder has panicked: that
\* error ends ec_destroy before it stops the upload.
THEOREM NoUploadSurvives == Spec => []NoUploadAfterDestroy
<1>1. UploadInv => NoUploadAfterDestroy
  BY DEF UploadInv, Publishing, HasEmptied, PastUpload, NoUploadAfterDestroy, IsDestroyed, Idle
<1> QED
  BY <1>1, UploadInvariance, PTL

\* ec_destroy leaves no capture behind, whoever calls what when, nor an upload, unless a
\* thread has panicked.
THEOREM NothingSurvives == Spec => []NothingAfterDestroy
BY NoCaptureSurvives, NoUploadSurvives, PTL DEF NothingAfterDestroy

-----------------------------------------------------------------------------
(* The worker's lock, and the types *)

\* The caller of a clear that has emptied the worker's slot holds its lock, and one
\* that waits for an export reads it, which keeps the worker where it is.
WorkerLock ==
  /\ made \in Nat
  /\ worker \in 1..made \cup {None} /\ client \in 1..made \cup {None}
  /\ writer \in Caller \cup {None}
  /\ \A a \in Caller : todo[a] = Refill <=> writer = a
  /\ readers \subseteq Caller
  /\ \A a \in readers : todo[a] = WaitIt
  /\ readers # {} => writer = None /\ worker # None

\* The list neither is nor becomes one of those.
LockRests ==
  \A a \in Caller : todo'[a] = todo[a] \/ {todo[a], todo'[a]} \cap {Refill, WaitIt} = {}

LEMMA WorkerLockRests ==
  ASSUME WorkerLock, LockRests, UNCHANGED <<made, worker, writer, readers>>,
         client' \in {None, client, worker}
  PROVE  WorkerLock'
BY DEF WorkerLock, LockRests

LEMMA FromRestsLock ==
  ASSUME Listed, NEW a \in Caller, NEW pairs, From(a, pairs),
         \A p \in pairs : {p[1], p[2]} \cap {Refill, WaitIt} = {}
  PROVE  LockRests
<1>1. PICK p \in pairs : todo[a] = p[1] /\ Goes(a, p[2])
  BY DEF From
<1>2. DOMAIN todo = Caller /\ \A b \in Caller : todo'[b] = IF b = a THEN p[2] ELSE todo[b]
  BY <1>1 DEF Goes, Listed
<1> QED
  BY <1>1, <1>2 DEF LockRests

LEMMA StepLockRests ==
  ASSUME Listed, NEW a \in Caller,
         \/ TakeCapture(a) \/ JoinCapture(a) \/ EnterCapture(a) \/ Spawn(a) \/ AwaitReady(a)
         \/ LookAtCapture(a) \/ Switch(a) \/ StopClient(a) \/ SetConfig(a) \/ EnterSync(a)
         \/ Publish(a) \/ RequestStop(a) \/ CancelExports(a) \/ StopScheduler(a)
         \/ JoinScheduler(a) \/ EndWorker(a)
  PROVE  LockRests
<1> USE Heads, Apart
<1>1. CASE TakeCapture(a)
  BY <1>1, TakeCaptureGoes, FromRestsLock
<1>2. CASE JoinCapture(a)
  BY <1>2, JoinCaptureGoes, FromRestsLock
<1>3. CASE EnterCapture(a)
  BY <1>3, EnterCaptureGoes, FromRestsLock
<1>4. CASE Spawn(a)
  BY <1>4, SpawnGoes, FromRestsLock
<1>5. CASE AwaitReady(a)
  BY <1>5, AwaitReadyGoes, FromRestsLock
<1>6. CASE LookAtCapture(a)
  BY <1>6, LookAtCaptureGoes, FromRestsLock
<1>7. CASE Switch(a)
  BY <1>7, SwitchGoes, FromRestsLock
<1>8. CASE StopClient(a)
  BY <1>8, StopClientGoes, FromRestsLock
<1>9. CASE SetConfig(a)
  BY <1>9, SetConfigGoes, FromRestsLock
<1>10. CASE EnterSync(a)
  BY <1>10, EnterSyncGoes, FromRestsLock
<1>11. CASE Publish(a)
  BY <1>11, PublishGoes, FromRestsLock
<1>12. CASE RequestStop(a)
  BY <1>12, RequestStopGoes, FromRestsLock
<1>13. CASE CancelExports(a)
  BY <1>13, CancelExportsGoes, FromRestsLock
<1>14. CASE StopScheduler(a)
  BY <1>14, StopSchedulerGoes, FromRestsLock
<1>15. CASE JoinScheduler(a)
  BY <1>15, JoinSchedulerGoes, FromRestsLock
<1>16. CASE EndWorker(a)
  BY <1>16, EndWorkerGoes, FromRestsLock
<1> QED
  BY <1>1, <1>2, <1>3, <1>4, <1>5, <1>6, <1>7, <1>8, <1>9, <1>10, <1>11, <1>12, <1>13, <1>14,
     <1>15, <1>16

LEMMA StepWorkerLock ==
  ASSUME Listed, WorkerLock, NEW a \in Caller, Step(a)
  PROVE  WorkerLock'
<1> USE Heads, Apart
<1>1. CASE \/ TakeCapture(a) \/ JoinCapture(a) \/ EnterCapture(a) \/ Spawn(a) \/ AwaitReady(a)
           \/ LookAtCapture(a) \/ Switch(a) \/ StopClient(a) \/ SetConfig(a) \/ EnterSync(a)
           \/ Publish(a) \/ RequestStop(a) \/ CancelExports(a) \/ StopScheduler(a)
           \/ JoinScheduler(a)
  <2>1. LockRests
    BY <1>1, StepLockRests
  <2>2. UNCHANGED <<made, worker, writer, readers>> /\ client' \in {None, client, worker}
    BY <1>1
       DEF TakeCapture, JoinCapture, EnterCapture, Spawn, AwaitReady, LookAtCapture, Switch,
           StopClient, SetConfig, EnterSync, Publish, RequestStop, CancelExports, StopScheduler,
           JoinScheduler, workerVars, syncVars
  <2> QED
    BY <2>1, <2>2, WorkerLockRests
<1>2. CASE EndWorker(a)
  <2>1. LockRests
    BY <1>2, StepLockRests
  <2>2. /\ readers = {} /\ worker' = None /\ UNCHANGED <<made, writer, readers>>
        /\ client' = client
    BY <1>2 DEF EndWorker, MayWrite, syncVars
  <2> QED
    BY <2>1, <2>2 DEF WorkerLock, LockRests
<1>3. CASE TakeWorker(a)
  <2>1. /\ writer = None /\ readers = {} /\ writer' = a /\ worker' = None
        /\ UNCHANGED <<made, readers, client>>
    BY <1>3 DEF TakeWorker, MayWrite, syncVars
  <2>2. todo[a] = Empty /\ Goes(a, Refill)
    BY <1>3, TakeWorkerGoes DEF From
  <2>3. todo'[a] = Refill /\ \A b \in Caller \ {a} : todo'[b] = todo[b]
    BY <2>2 DEF Goes, Listed
  <2>4. \A b \in Caller : todo[b] # Refill
    BY <2>1, RecorderConstants DEF WorkerLock
  <2> QED
    BY <2>1, <2>3, <2>4 DEF WorkerLock
<1>4. CASE RestartWorker(a)
  <2>1. /\ writer' = None /\ UNCHANGED <<readers, client>>
        /\ \/ worker' = made + 1 /\ made' = made + 1
           \/ UNCHANGED <<worker, made>>
    BY <1>4 DEF RestartWorker, syncVars
  <2>2. todo[a] = Refill /\ \E l \in {<<>>, Activate} : Goes(a, l)
    BY <1>4, RestartWorkerGoes DEF From
  <2>3. writer = a /\ readers = {}
    BY <2>2, RecorderConstants DEF WorkerLock
  <2>4. todo'[a] # Refill /\ \A b \in Caller \ {a} : todo'[b] = todo[b]
    BY <2>2 DEF Goes, Listed
  <2>5. \A b \in Caller : todo'[b] # Refill
    BY <2>3, <2>4 DEF WorkerLock
  <2>6. /\ made' \in Nat
        /\ worker' \in 1..made' \cup {None} /\ client' \in 1..made' \cup {None}
    BY <2>1 DEF WorkerLock
  <2> QED
    BY <2>1, <2>3, <2>5, <2>6, RecorderConstants DEF WorkerLock
<1>5. CASE EnterSave(a)
  <2>1. /\ writer = None /\ UNCHANGED <<made, worker, writer, client>>
        /\ \/ Fail(a) /\ readers' = readers
           \/ worker # None /\ Proceed(a) /\ readers' = readers \cup {a}
    BY <1>5 DEF EnterSave, MayRead, syncVars
  <2>2. todo[a] = SaveIt /\ Tail(SaveIt) = WaitIt
    BY <1>5, EnterSaveGoes, ClearLists DEF From, Begins
  <2>3. Does(a, "enter_save")
    BY <1>5 DEF EnterSave
  <2>4. Proceed(a) => Goes(a, WaitIt)
    BY <2>2, <2>3, StepGoes
  <2>5. Fail(a) => Goes(a, <<>>)
    BY <2>3, FailGoes
  <2>6. a \notin readers
    BY <2>2 DEF WorkerLock
  <2>7. CASE Fail(a) /\ readers' = readers
    <3>1. todo'[a] = <<>> /\ \A b \in Caller \ {a} : todo'[b] = todo[b]
      BY <2>5, <2>7 DEF Goes, Listed
    <3> QED
      BY <2>1, <2>2, <2>6, <2>7, <3>1 DEF WorkerLock
  <2>8. CASE worker # None /\ Proceed(a) /\ readers' = readers \cup {a}
    <3>1. todo'[a] = WaitIt /\ \A b \in Caller \ {a} : todo'[b] = todo[b]
      BY <2>4, <2>8 DEF Goes, Listed
    <3> QED
      BY <2>1, <2>2, <2>8, <3>1 DEF WorkerLock
  <2> QED
    BY <2>1, <2>7, <2>8
<1>6. CASE WaitSave(a)
  <2>1. /\ UNCHANGED <<made, worker, writer, client>>
        /\ \/ UNCHANGED <<readers, todo>>
           \/ readers' = readers \ {a}
    BY <1>6 DEF WaitSave, syncVars
  <2>2. todo[a] = WaitIt /\ (todo' = todo \/ Goes(a, <<>>))
    BY <1>6, WaitSaveGoes
  <2>3. \A b \in Caller \ {a} : todo'[b] = todo[b]
    BY <2>2 DEF Goes, Listed
  <2>4. todo'[a] # Refill
    BY <2>2 DEF Goes, Listed
  <2> QED
    BY <2>1, <2>2, <2>3, <2>4 DEF WorkerLock
<1> QED
  BY <1>1, <1>2, <1>3, <1>4, <1>5, <1>6 DEF Step

LEMMA NextWorkerLock ==
  ASSUME Listed, WorkerLock, [Next]_vars
  PROVE  WorkerLock'
<1>1. ASSUME NEW a \in Caller, Step(a)
      PROVE  WorkerLock'
  BY <1>1, StepWorkerLock
<1>2. CASE \/ \E op \in UiCalls : CallUi(op)
           \/ \E op \in HelperCalls : CallHelper(op)
           \/ \E action \in Scheduled : RunScheduled(action)
  <2>1. UNCHANGED <<client, workerVars>>
    BY <1>2 DEF CallUi, CallHelper, RunScheduled, syncVars
  <2>2. CallBegins
    BY <1>2, CallsBegin
  <2>3. LockRests
    BY <2>2, Heads DEF CallBegins, LockRests, Goes, Listed
  <2> QED
    BY <2>1, <2>3, WorkerLockRests DEF workerVars
<1>3. CASE (\E a \in Caller : ExportEnds(a)) \/ Note \/ SchedulerEnds \/ SchedulerPanics
           \/ (\E t \in 1..Len(threads) : ThreadStep(t) \/ StreamFails(t) \/ Panics(t))
           \/ UNCHANGED vars
  <2>1. UNCHANGED <<client, made, worker, writer, readers, todo>>
    BY <1>3
       DEF ExportEnds, Note, SchedulerEnds, SchedulerPanics, ThreadStep, OpenStreams, Push, Leave,
           StreamFails, Panics, vars, syncVars, workerVars
  <2> QED
    BY <2>1, WorkerLockRests DEF LockRests
<1>4. CASE DropHandle
  <2>1. UNCHANGED <<made, writer, readers, todo>> /\ worker' = None /\ client' = None
    BY <1>4 DEF DropHandle
  <2>2. \A a \in Caller : todo[a] # WaitIt
    BY <1>4, Heads DEF DropHandle, Idle
  <2>3. readers = {}
    BY <2>2 DEF WorkerLock
  <2> QED
    BY <2>1, <2>3 DEF WorkerLock
<1>5. CASE Quit
  <2>1. ~shutting /\ UNCHANGED <<client, workerVars>>
    BY <1>5 DEF Quit, syncVars
  <2>2. todo["quit"] = <<>> /\ Goes("quit", Quit8)
    BY <1>5, <2>1, QuitGoes DEF Listed
  <2>3. LockRests
    BY <2>2, Heads DEF LockRests, Goes, Listed
  <2> QED
    BY <2>1, <2>3, WorkerLockRests DEF workerVars
<1> QED
  BY <1>1, <1>2, <1>3, <1>4, <1>5 DEF Next

\* What the lists and the locks say nothing of.
PlainTypes ==
  /\ enabled \in BOOLEAN /\ config \in {None, "valid", "invalid"}
  /\ exports \in [Caller -> {None, "running", "canceling", "ended"}]
  /\ calls \in [Caller -> Nat] /\ faults \in Nat
  /\ result \in Scheduled \cup {None} /\ thread \in {"up", "told", "ended", "panicked"}

LEMMA NextPlainTypes ==
  ASSUME PlainTypes, [Next]_vars
  PROVE  PlainTypes'
<1> USE DEF PlainTypes, captureVars, syncVars, workerVars, controlVars
<1>1. ASSUME NEW a \in Caller, Step(a)
      PROVE  PlainTypes'
  <2>1. CASE TakeCapture(a) \/ JoinCapture(a) \/ EnterCapture(a) \/ Spawn(a) \/ AwaitReady(a)
             \/ LookAtCapture(a)
    BY <2>1 DEF TakeCapture, JoinCapture, EnterCapture, Spawn, AwaitReady, LookAtCapture
  <2>2. CASE Switch(a) \/ StopClient(a) \/ SetConfig(a) \/ EnterSync(a) \/ Publish(a)
    BY <2>2 DEF Switch, StopClient, SetConfig, EnterSync, Publish
  <2>3. CASE TakeWorker(a) \/ EndWorker(a)
    BY <2>3 DEF TakeWorker, EndWorker
  <2>4. CASE RestartWorker(a)
    BY <2>4 DEF RestartWorker, Fault
  <2>5. CASE EnterSave(a) \/ WaitSave(a)
    BY <2>5 DEF EnterSave, WaitSave
  <2>6. CASE RequestStop(a) \/ StopScheduler(a) \/ JoinScheduler(a)
    BY <2>6 DEF RequestStop, StopScheduler, JoinScheduler
  <2>7. CASE CancelExports(a)
    BY <2>7 DEF CancelExports
  <2> QED
    BY <1>1, <2>1, <2>2, <2>3, <2>4, <2>5, <2>6, <2>7 DEF Step
<1>2. ASSUME NEW a \in Caller, ExportEnds(a)
      PROVE  PlainTypes'
  BY <1>2 DEF ExportEnds
<1>3. ASSUME NEW t \in 1..Len(threads), ThreadStep(t) \/ StreamFails(t) \/ Panics(t)
      PROVE  PlainTypes'
  BY <1>3 DEF ThreadStep, OpenStreams, Push, Leave, StreamFails, Panics, Fault
<1>4. ASSUME NEW op \in UiCalls, CallUi(op)
      PROVE  PlainTypes'
  BY <1>4 DEF CallUi, Call, Caller
<1>5. ASSUME NEW op \in HelperCalls, CallHelper(op)
      PROVE  PlainTypes'
  BY <1>5 DEF CallHelper, Call, Caller
<1>6. ASSUME NEW action \in Scheduled, RunScheduled(action)
      PROVE  PlainTypes'
  <2>1. enabled' \in BOOLEAN /\ result' \in Scheduled \cup {None}
    BY <1>6 DEF RunScheduled, Reports, Carries
  <2>2. calls' = [calls EXCEPT !["scheduler"] = @ + 1]
    BY <1>6 DEF RunScheduled, Reports, Carries, Call
  <2>3. calls' \in [Caller -> Nat]
    BY <2>2 DEF Caller
  <2> QED
    BY <1>6, <2>1, <2>3 DEF RunScheduled
<1>7. CASE Note \/ SchedulerEnds \/ SchedulerPanics \/ Quit \/ DropHandle
  BY <1>7 DEF Note, SchedulerEnds, SchedulerPanics, Fault, Quit, DropHandle
<1>8. CASE UNCHANGED vars
  BY <1>8 DEF vars
<1> QED
  BY <1>1, <1>2, <1>3, <1>4, <1>5, <1>6, <1>7, <1>8 DEF Next

TypeInv == CaptureInv /\ Publishing /\ WorkerLock /\ PlainTypes

LEMMA TypeInvariance == Spec => []TypeInv
<1>1. Init => TypeInv
  <2> SUFFICES ASSUME Init PROVE TypeInv
    OBVIOUS
  <2>1. CaptureInv
    BY InitCaptures DEF CaptureInv
  <2>2. WorkerLock /\ Publishing
    BY Heads, RecorderConstants DEF Init, WorkerLock, Publishing, HasEmptied, PastUpload
  <2>3. PlainTypes
    BY DEF Init, PlainTypes
  <2> QED
    BY <2>1, <2>2, <2>3 DEF TypeInv
<1>2. TypeInv /\ [Next]_vars => TypeInv'
  BY NextListed, NextCaptures, NextPublishing, NextWorkerLock, NextPlainTypes
     DEF TypeInv, CaptureInv
<1> QED
  BY <1>1, <1>2, PTL DEF Spec

\* Every variable keeps its type; each lock has a caller as its holder, and while a
\* worker is read nobody takes it out of its slot.
THEOREM TypeCorrect == Spec => []TypeOK
<1>1. TypeInv => TypeOK
  <2> SUFFICES ASSUME TypeInv PROVE TypeOK
    OBVIOUS
  <2>1. todo \in [Caller -> Seq(StepName)]
    <3>1. \A a \in Caller : todo[a] \in Seq(StepName)
      BY OwnLists, ListTypes DEF TypeInv, CaptureInv, Listed
    <3> QED
      BY <3>1 DEF TypeInv, CaptureInv, Listed
  <2> QED
    BY <2>1 DEF TypeInv, CaptureInv, Listed, ThreadTypes, Captures, Publishing, WorkerLock,
                PlainTypes, TypeOK
<1> QED
  BY <1>1, TypeInvariance, PTL

-----------------------------------------------------------------------------
(* Which worker an upload reads *)

(* An upload that the schedule publishes while the cache is cleared reads   *)
(* the worker that goes.  It is put right by the end of the clearing, which *)
(* publishes the new worker - unless the upload has been switched off, and  *)
(* then whoever switched it off has still to stop it.                       *)

\* From the moment its client is stopped until the new worker is there.
Emptying == {TakeEmpty, JoinEmpty, Empty, Refill}
Activating == {Activate, PublishIt}

\* The clearing will replace the client.
WillReplace == enabled /\ config = "valid" /\ todo["scheduler"] # SwitchBack
\* The schedule will stop it.
WillStop == todo["scheduler"] = StopUpload

Follows ==
  /\ writer = None => worker # None
  /\ todo["ui"] \in Emptying /\ client # None => WillReplace \/ WillStop
  /\ todo["ui"] \in Activating /\ client \notin {None, worker} => WillReplace \/ WillStop
  /\ todo["ui"] \notin Emptying \cup Activating => client \in {None, worker} \/ WillStop
  /\ todo["ui"] \in Emptying /\ todo["scheduler"] = PublishIt => enabled /\ config # None

\* While nothing has failed and the recorder is there.
Sound == faults = 0 /\ ~shutting
\* A panic is a fault.
Uploads == Sound => Follows /\ ~HasPanicked

\* Nothing that concerns the upload.
FollowRests ==
  /\ UNCHANGED <<client, worker, writer, enabled, config>>
  /\ todo'["ui"] \in Emptying <=> todo["ui"] \in Emptying
  /\ todo'["ui"] \in Activating <=> todo["ui"] \in Activating
  /\ \/ todo'["scheduler"] = todo["scheduler"]
     \/ {todo["scheduler"], todo'["scheduler"]} \cap {SwitchBack, StopUpload, PublishIt} = {}

LEMMA FollowsRest ==
  ASSUME Follows, FollowRests
  PROVE  Follows'
<1>1. /\ WillReplace' <=> WillReplace
      /\ WillStop' <=> WillStop
      /\ todo'["scheduler"] = PublishIt <=> todo["scheduler"] = PublishIt
  BY DEF FollowRests, WillReplace, WillStop
<1>2. todo'["ui"] \in Emptying \cup Activating <=> todo["ui"] \in Emptying \cup Activating
  BY DEF FollowRests
<1> QED
  BY <1>1, <1>2 DEF Follows, FollowRests

LEMMA FromFollows ==
  ASSUME Listed, NEW a \in Caller, NEW pairs, From(a, pairs),
         UNCHANGED <<client, worker, writer, enabled, config>>,
         \A p \in pairs : /\ p[2] \in Emptying <=> p[1] \in Emptying
                          /\ {p[1], p[2]} \cap {Activate, PublishIt} = {}
                          /\ {p[1], p[2]} \cap {SwitchBack, StopUpload, PublishIt} = {}
  PROVE  FollowRests
<1>1. PICK p \in pairs : todo[a] = p[1] /\ Goes(a, p[2])
  BY DEF From
<1>2. \A b \in Caller : todo'[b] = IF b = a THEN p[2] ELSE todo[b]
  BY <1>1 DEF Goes, Listed
<1> QED
  BY <1>1, <1>2 DEF FollowRests, Caller, Activating

\* No step forgets a fault, or what ec_destroy has begun.
LEMMA SoundBefore ==
  ASSUME PlainTypes, [Next]_vars, Sound'
  PROVE  Sound
<1> USE DEF PlainTypes, Sound, controlVars
<1>1. ASSUME NEW a \in Caller, Step(a)
      PROVE  Sound
  BY <1>1
     DEF Step, TakeCapture, JoinCapture, EnterCapture, Spawn, AwaitReady, LookAtCapture, Switch,
         StopClient, SetConfig, EnterSync, Publish, TakeWorker, RestartWorker, EnterSave,
         WaitSave, RequestStop, CancelExports, StopScheduler, JoinScheduler, EndWorker, Fault
<1>2. ASSUME NEW a \in Caller, ExportEnds(a)
      PROVE  Sound
  BY <1>2 DEF ExportEnds
<1>3. ASSUME NEW t \in 1..Len(threads), ThreadStep(t) \/ StreamFails(t) \/ Panics(t)
      PROVE  Sound
  BY <1>3 DEF ThreadStep, OpenStreams, Push, Leave, StreamFails, Panics, Fault
<1>4. ASSUME NEW op \in UiCalls, CallUi(op)
      PROVE  Sound
  BY <1>4 DEF CallUi
<1>5. ASSUME NEW op \in HelperCalls, CallHelper(op)
      PROVE  Sound
  BY <1>5 DEF CallHelper
<1>6. ASSUME NEW action \in Scheduled, RunScheduled(action)
      PROVE  Sound
  BY <1>6 DEF RunScheduled
<1>7. CASE Note \/ SchedulerEnds \/ SchedulerPanics \/ Quit \/ DropHandle \/ UNCHANGED vars
  BY <1>7 DEF Note, SchedulerEnds, SchedulerPanics, Fault, Quit, DropHandle, vars
<1> QED
  BY <1>1, <1>2, <1>3, <1>4, <1>5, <1>6, <1>7 DEF Next

\* Captures, exports and the steps of the teardown leave the upload alone.
LEMMA StepFollowRests ==
  ASSUME Listed, ThreadTypes, ~HasPanicked, NEW a \in Caller,
         \/ TakeCapture(a) \/ JoinCapture(a) \/ EnterCapture(a) \/ Spawn(a) \/ AwaitReady(a)
         \/ LookAtCapture(a) \/ EnterSave(a) \/ WaitSave(a) \/ RequestStop(a)
         \/ CancelExports(a) \/ StopScheduler(a) \/ JoinScheduler(a)
  PROVE  FollowRests
<1> USE Heads, Apart DEF Emptying
<1>0. UNCHANGED <<client, worker, writer, enabled, config>>
  BY DEF TakeCapture, JoinCapture, EnterCapture, Spawn, AwaitReady, LookAtCapture, EnterSave,
         WaitSave, RequestStop, CancelExports, StopScheduler, JoinScheduler, syncVars, workerVars
<1>1. CASE TakeCapture(a)
  BY <1>0, <1>1, TakeCaptureGoes, FromFollows
<1>2. CASE JoinCapture(a)
  <2>1. ~HoldsPanicked(a)
    BY DEF HoldsPanicked, HasPanicked, ThreadTypes, NoThread
  <2> QED
    BY <1>0, <1>2, <2>1, JoinCaptureGoes, FromFollows
<1>3. CASE EnterCapture(a)
  BY <1>0, <1>3, EnterCaptureGoes, FromFollows
<1>4. CASE Spawn(a)
  BY <1>0, <1>4, SpawnGoes, FromFollows
<1>5. CASE AwaitReady(a)
  BY <1>0, <1>5, AwaitReadyGoes, FromFollows
<1>6. CASE LookAtCapture(a)
  BY <1>0, <1>6, LookAtCaptureGoes, FromFollows
<1>7. CASE EnterSave(a)
  BY <1>0, <1>7, EnterSaveGoes, FromFollows
<1>8. CASE WaitSave(a)
  <2>1. CASE todo' = todo
    BY <1>0, <2>1 DEF FollowRests
  <2>2. CASE From(a, {<<WaitIt, <<>>>>})
    BY <1>0, <2>2, FromFollows
  <2> QED
    BY <1>8, <2>1, <2>2, WaitSaveGoes DEF From
<1>9. CASE RequestStop(a)
  BY <1>0, <1>9, RequestStopGoes, FromFollows
<1>10. CASE CancelExports(a)
  BY <1>0, <1>10, CancelExportsGoes, FromFollows
<1>11. CASE StopScheduler(a)
  BY <1>0, <1>11, StopSchedulerGoes, FromFollows
<1>12. CASE JoinScheduler(a)
  BY <1>0, <1>12, JoinSchedulerGoes, FromFollows DEF HasPanicked
<1> QED
  BY <1>1, <1>2, <1>3, <1>4, <1>5, <1>6, <1>7, <1>8, <1>9, <1>10, <1>11, <1>12

\* Lists of one class or another, or of none.
LEMMA Classes ==
  /\ Activate \in Activating /\ PublishIt \in Activating
  /\ Emptying \cap Activating = {}
  /\ {<<>>, ClearAll, SwitchOn, StopAndSet, SetAndEnter, SwitchOff, StopUpload, Quit2, Quit1}
       \cap (Emptying \cup Activating) = {}
BY Heads, Apart DEF Emptying, Activating

LEMMA SwitchFollows ==
  ASSUME Listed, Follows, NEW a \in Caller, Switch(a)
  PROVE  Follows'
<1> USE Heads, Apart, Classes
<1>1. UNCHANGED <<client, worker, writer, config>>
  BY DEF Switch, workerVars
<1>2. \E p \in {<<SwitchOn, StopAndSet>>, <<SwitchOff, StopUpload>>, <<SwitchBack, <<>>>>} :
        todo[a] = p[1] /\ Goes(a, p[2])
  BY SwitchGoes DEF From
<1>3. a \in {"ui", "scheduler"}
  BY <1>2, Whose DEF Listed, Owned
<1>4. CASE a = "ui"
  <2>1. todo[a] # SwitchBack
    BY <1>4, Whose DEF Listed, Owned
  <2>2. {todo["ui"], todo'["ui"]} \cap (Emptying \cup Activating) = {}
    BY <1>2, <1>4, <2>1 DEF Goes, Listed
  <2>3. todo'["scheduler"] = todo["scheduler"]
    BY <1>2, <1>4 DEF Goes, Listed
  <2> QED
    BY <1>1, <2>2, <2>3 DEF Follows, WillStop
<1>5. CASE a = "scheduler"
  <2>1. todo[a] = SwitchBack /\ Goes(a, <<>>)
    BY <1>2, <1>5, Whose DEF Listed, Owned
  <2>2. todo'["ui"] = todo["ui"] /\ todo'["scheduler"] = <<>>
    BY <1>5, <2>1 DEF Goes, Listed, Caller
  <2>3. ~WillReplace /\ ~WillStop
    BY <1>5, <2>1 DEF WillReplace, WillStop
  <2> QED
    BY <1>1, <2>2, <2>3 DEF Follows
<1> QED
  BY <1>3, <1>4, <1>5

LEMMA StopClientFollows ==
  ASSUME Listed, Follows, Publishing, NEW a \in Caller, StopClient(a)
  PROVE  Follows'
<1>1. /\ UNCHANGED <<worker, writer, enabled, config>> /\ client' = None /\ syncLock = None
  BY DEF StopClient, workerVars
<1>2. \E p \in {<<StopUpload, <<>>>>, <<StopAndSet, SetAndEnter>>, <<ClearAll, TakeEmpty>>,
                <<Quit2, Quit1>>} : todo[a] = p[1] /\ Goes(a, p[2])
  BY StopClientGoes DEF From
<1>3. \A b \in Caller : todo[b] # PublishIt
  BY <1>1, RecorderConstants DEF Publishing
<1>4. todo'["scheduler"] # PublishIt
  BY <1>2, <1>3, Heads DEF Goes, Listed, Caller
<1> QED
  BY <1>1, <1>4 DEF Follows

LEMMA SetConfigFollows ==
  ASSUME Listed, Follows, NEW a \in Caller, SetConfig(a)
  PROVE  Follows'
<1> USE Heads, Apart, Classes
<1>1. UNCHANGED <<client, worker, writer>>
  BY DEF SetConfig, workerVars
<1>2. todo[a] = SetAndEnter /\ Goes(a, Activate) /\ a = "ui"
  BY SetConfigGoes, Whose DEF From, Listed, Owned
<1>3. todo'["ui"] = Activate /\ todo'["scheduler"] = todo["scheduler"]
  BY <1>2 DEF Goes, Listed
<1>4. client \in {None, worker} \/ WillStop
  BY <1>2 DEF Follows
<1> QED
  BY <1>1, <1>3, <1>4 DEF Follows, WillStop

LEMMA EnterSyncFollows ==
  ASSUME Listed, Follows, Sound, NEW a \in Caller, EnterSync(a)
  PROVE  Follows'
<1> USE Heads, Apart, Classes
<1>1. UNCHANGED <<client, worker, writer, enabled, config>>
  BY DEF EnterSync, workerVars
<1>2. todo[a] = Activate /\ \E l \in {<<>>, PublishIt, SwitchBack} : Goes(a, l)
  BY EnterSyncGoes DEF From
<1>3. a \in {"ui", "scheduler"}
  BY <1>2, Whose DEF Listed, Owned
<1>4. Does(a, "enter_sync") /\ Tail(todo[a]) = <<>>
  BY <1>2, UploadLists DEF EnterSync, Begins
<1>5. Proceed(a) => Goes(a, <<>>)
  BY <1>4, StepGoes
<1>6. Fail(a) => Goes(a, <<>>) \/ (a = "scheduler" /\ Goes(a, SwitchBack))
  BY <1>4, FailGoes
<1>7. \/ enabled /\ config = None /\ Fail(a)
      \/ ~enabled /\ Proceed(a)
      \/ enabled /\ config # None
  BY DEF EnterSync, Sound, MayActivate
<1>8. CASE a = "ui"
  <2>1. todo'["scheduler"] = todo["scheduler"]
    BY <1>2, <1>8 DEF Goes, Listed
  <2>2. todo'["ui"] \in {<<>>, PublishIt}
    <3>1. From(a, {<<Activate, <<>>>>, <<Activate, PublishIt>>})
      BY <1>8, EnterSyncGoes
    <3> QED
      BY <1>8, <3>1 DEF Goes, Listed, From
  <2>3. WillReplace' <=> WillReplace
    BY <1>1, <2>1 DEF WillReplace
  <2>4. WillStop' <=> WillStop
    BY <2>1 DEF WillStop
  <2>5. CASE todo'["ui"] = PublishIt
    BY <1>1, <1>2, <1>8, <2>1, <2>3, <2>4, <2>5 DEF Follows
  <2>6. CASE todo'["ui"] = <<>>
    <3>1. ~(enabled /\ config # None)
      <4>1. CASE enabled /\ config # None
        <5>1. Then(a, <<"publish">>)
          BY <4>1 DEF EnterSync, Sound, MayActivate
        <5>2. Goes(a, PublishIt)
          BY <1>4, <5>1, StepGoes DEF PublishIt, AnyList, UiLists
        <5> QED
          BY <1>8, <2>6, <5>2 DEF Goes, Listed
      <4> QED
        BY <4>1
    <3>2. ~WillReplace
      BY <3>1, RecorderConstants DEF WillReplace
    <3> QED
      BY <1>1, <1>2, <1>8, <2>4, <2>6, <3>2 DEF Follows
  <2> QED
    BY <2>2, <2>5, <2>6
<1>9. CASE a = "scheduler"
  <2>1. todo'["ui"] = todo["ui"] /\ ~WillStop
    BY <1>2, <1>9 DEF Goes, Listed, Caller, WillStop
  <2>2. CASE enabled /\ config # None
    <3>1. Then(a, <<"publish">>)
      BY <2>2 DEF EnterSync, Sound, MayActivate
    <3>2. Goes(a, PublishIt)
      BY <1>4, <3>1, StepGoes DEF PublishIt, AnyList, UiLists
    <3>3. todo'["scheduler"] = PublishIt
      BY <1>9, <3>2 DEF Goes, Listed
    <3>4. WillReplace => WillReplace'
      BY <1>1, <3>3 DEF WillReplace
    <3> QED
      BY <1>1, <2>1, <2>2, <3>3, <3>4 DEF Follows
  <2>3. CASE ~(enabled /\ config # None)
    <3>1. ~WillReplace
      BY <2>3, RecorderConstants DEF WillReplace
    <3>2. todo'["scheduler"] # PublishIt
      BY <1>5, <1>6, <1>7, <1>9, <2>3 DEF Goes, Listed
    <3> QED
      BY <1>1, <2>1, <3>1, <3>2 DEF Follows
  <2> QED
    BY <2>2, <2>3
<1> QED
  BY <1>3, <1>8, <1>9

LEMMA PublishFollows ==
  ASSUME Listed, Follows, Publishing, PlainTypes, NEW a \in Caller, Publish(a)
  PROVE  Follows'
<1> USE Heads, Apart, Classes
<1>1. /\ UNCHANGED <<worker, writer, enabled, config>> /\ writer = None
      /\ \/ worker # None /\ config = "valid" /\ client' = worker /\ Proceed(a)
         \/ (worker = None \/ config = "invalid") /\ Fail(a) /\ client' = client
  BY DEF Publish, MayRead, workerVars
<1>2. worker # None
  BY <1>1 DEF Follows
<1>3. todo[a] = PublishIt /\ Tail(todo[a]) = <<>> /\ Does(a, "publish")
  <2>1. todo[a] = PublishIt
    BY PublishGoes DEF From
  <2> QED
    BY <2>1, UploadLists DEF Publish, Begins
<1>4. a \in {"ui", "scheduler"}
  BY <1>3, Whose DEF Listed, Owned
<1>5. Proceed(a) => Goes(a, <<>>)
  BY <1>3, StepGoes
<1>6. Fail(a) => Goes(a, <<>>) \/ (a = "scheduler" /\ Goes(a, SwitchBack))
  BY <1>3, FailGoes
<1>7. config = "valid" \/ (config = "invalid" /\ client' = client)
  BY <1>1, <1>2
<1>8. config = "valid" => client' = worker
  BY <1>1, <1>2
<1>9. config # "valid" => ~WillReplace
  BY DEF WillReplace
<1>10. CASE a = "ui"
  <2>1. todo'["ui"] = <<>> /\ todo'["scheduler"] = todo["scheduler"]
    BY <1>1, <1>5, <1>6, <1>10 DEF Goes, Listed, Caller
  <2>2. WillStop' <=> WillStop
    BY <2>1 DEF WillStop
  <2>3. client' \in {None, worker} \/ WillStop
    BY <1>3, <1>7, <1>8, <1>9, <1>10 DEF Follows
  <2> QED
    BY <1>1, <1>2, <2>1, <2>2, <2>3 DEF Follows
<1>11. CASE a = "scheduler"
  <2>1. todo'["ui"] = todo["ui"] /\ todo'["scheduler"] \in {<<>>, SwitchBack}
    BY <1>1, <1>5, <1>6, <1>11 DEF Goes, Listed, Caller
  <2>2. ~WillStop
    BY <1>3, <1>11 DEF WillStop
  <2>3. todo'["scheduler"] # PublishIt
    BY <2>1
  <2>4. CASE config = "valid"
    <3>1. Goes(a, <<>>)
      BY <1>1, <1>2, <1>5, <2>4
    <3>2. todo'["scheduler"] = <<>>
      BY <1>11, <3>1 DEF Goes, Listed
    <3>3. todo["ui"] \in Emptying => WillReplace'
      BY <1>1, <1>3, <1>11, <2>4, <3>2 DEF Follows, WillReplace
    <3> QED
      BY <1>1, <1>2, <1>8, <2>1, <2>3, <2>4, <3>3 DEF Follows
  <2>5. CASE config # "valid"
    <3>1. client' = client
      BY <1>7, <2>5
    <3> QED
      BY <1>1, <1>2, <1>9, <2>1, <2>2, <2>3, <2>5, <3>1 DEF Follows
  <2> QED
    BY <2>4, <2>5
<1> QED
  BY <1>4, <1>10, <1>11

LEMMA TakeWorkerFollows ==
  ASSUME Listed, Follows, NEW a \in Caller, TakeWorker(a)
  PROVE  Follows'
<1> USE Heads, Apart, Classes
<1>1. UNCHANGED <<client, enabled, config>> /\ writer' = a /\ worker' = None
  BY DEF TakeWorker, syncVars
<1>2. todo[a] = Empty /\ Goes(a, Refill) /\ a = "ui"
  BY TakeWorkerGoes, Whose DEF From, Listed, Owned
<1>3. todo'["ui"] = Refill /\ todo'["scheduler"] = todo["scheduler"]
  BY <1>2 DEF Goes, Listed
<1>4. todo["ui"] \in Emptying /\ todo'["ui"] \in Emptying
  BY <1>2, <1>3 DEF Emptying
<1>5. (WillReplace' <=> WillReplace) /\ (WillStop' <=> WillStop)
  BY <1>1, <1>3 DEF WillReplace, WillStop
<1> QED
  BY <1>1, <1>3, <1>4, <1>5, RecorderConstants DEF Follows

LEMMA RestartWorkerFollows ==
  ASSUME Listed, WorkerLock, PlainTypes, Follows, NEW a \in Caller, RestartWorker(a), Sound'
  PROVE  Follows'
<1> USE Heads, Apart, Classes
<1>1. /\ UNCHANGED <<client, enabled, config>> /\ writer' = None
      /\ worker' = made + 1 /\ Proceed(a)
  BY DEF RestartWorker, syncVars, Fault, Sound, PlainTypes
<1>2. todo[a] = Refill /\ Tail(Refill) = Activate /\ a = "ui"
  BY RestartWorkerGoes, Whose, ClearLists DEF From, Listed, Owned, Begins
<1>3. Does(a, "restart_worker")
  BY DEF RestartWorker
<1>4. Goes(a, Activate)
  BY <1>1, <1>2, <1>3, StepGoes
<1>5. todo'["ui"] = Activate /\ todo'["scheduler"] = todo["scheduler"]
  BY <1>2, <1>4 DEF Goes, Listed
<1>6. todo["ui"] \in Emptying
  BY <1>2 DEF Emptying
<1>7. (WillReplace' <=> WillReplace) /\ (WillStop' <=> WillStop)
  BY <1>1, <1>5 DEF WillReplace, WillStop
<1>8. worker' # None
  BY <1>1, RecorderConstants DEF WorkerLock
<1> QED
  BY <1>1, <1>5, <1>6, <1>7, <1>8 DEF Follows

LEMMA RunScheduledFollows ==
  ASSUME Listed, Follows, NEW action \in Scheduled, RunScheduled(action)
  PROVE  Follows'
<1> USE Heads, Apart, Classes
<1>1. UNCHANGED <<client, worker, writer, config>> /\ todo["scheduler"] = <<>>
  BY DEF RunScheduled, workerVars, MayCall, Idle
<1>2. PICK l \in {<<>>, Activate, StopUpload, TakeJoin, Enter, SaveIt} : Goes("scheduler", l)
  BY RunScheduledGoes
<1>3. todo'["ui"] = todo["ui"] /\ todo'["scheduler"] = l
  BY <1>2 DEF Goes, Listed, Caller
<1>4. enabled' = enabled \/ l = StopUpload \/ ~enabled
  <2>1. CASE enabled /\ ~enabled'
    <3>1. Call("scheduler", StopSync)
      BY <2>1 DEF RunScheduled, Carries
    <3>2. todo' = [todo EXCEPT !["scheduler"] = StopUpload]
      BY <3>1 DEF Call, StopSync, StopUpload
    <3> QED
      BY <1>3, <3>2 DEF Listed, Caller
  <2>2. enabled' = enabled \/ (enabled /\ ~enabled') \/ ~enabled
    BY DEF RunScheduled
  <2> QED
    BY <2>1, <2>2
<1>5. ~WillStop /\ l \notin {SwitchBack, PublishIt}
  BY <1>1 DEF WillStop
<1>6. WillReplace => WillReplace' \/ WillStop'
  BY <1>1, <1>3, <1>4, <1>5 DEF WillReplace, WillStop
<1> QED
  BY <1>1, <1>3, <1>5, <1>6 DEF Follows

LEMMA NextUploads ==
  ASSUME TypeInv, Uploads, [Next]_vars
  PROVE  Uploads'
<1> SUFFICES ASSUME Sound'
             PROVE  Follows' /\ ~HasPanicked'
  BY DEF Uploads
<1>1. /\ Sound /\ Follows /\ Listed /\ Publishing /\ WorkerLock /\ PlainTypes
      /\ ThreadTypes /\ ~HasPanicked
  BY SoundBefore DEF TypeInv, CaptureInv, Uploads
<1>0. ~HasPanicked'
  BY <1>1, NextPanics DEF Fault, Sound, PlainTypes
<1> SUFFICES Follows'
  BY <1>0
<1>2. ASSUME NEW a \in Caller, Step(a)
      PROVE  Follows'
  <2>1. CASE \/ TakeCapture(a) \/ JoinCapture(a) \/ EnterCapture(a) \/ Spawn(a) \/ AwaitReady(a)
             \/ LookAtCapture(a) \/ EnterSave(a) \/ WaitSave(a) \/ RequestStop(a)
             \/ CancelExports(a) \/ StopScheduler(a) \/ JoinScheduler(a)
    BY <1>1, <2>1, StepFollowRests, FollowsRest
  <2>2. CASE Switch(a)
    BY <1>1, <2>2, SwitchFollows
  <2>3. CASE StopClient(a)
    BY <1>1, <2>3, StopClientFollows
  <2>4. CASE SetConfig(a)
    BY <1>1, <2>4, SetConfigFollows
  <2>5. CASE EnterSync(a)
    BY <1>1, <2>5, EnterSyncFollows
  <2>6. CASE Publish(a)
    BY <1>1, <2>6, PublishFollows
  <2>7. CASE TakeWorker(a)
    BY <1>1, <2>7, TakeWorkerFollows
  <2>8. CASE RestartWorker(a)
    BY <1>1, <2>8, RestartWorkerFollows
  <2>9. CASE EndWorker(a)
    <3>1. todo[a] = Quit1 /\ a = "quit"
      BY <1>1, <2>9, EndWorkerGoes, Whose DEF From, Listed, Owned
    <3> QED
      BY <1>1, <3>1, Heads DEF Listed, Sound
  <2> QED
    BY <1>2, <2>1, <2>2, <2>3, <2>4, <2>5, <2>6, <2>7, <2>8, <2>9 DEF Step
<1>3. CASE \/ \E op \in UiCalls : CallUi(op)
           \/ \E op \in HelperCalls : CallHelper(op)
  <2>1. UNCHANGED <<client, worker, writer, enabled, config>>
    BY <1>3 DEF CallUi, CallHelper, syncVars, workerVars
  <2>2. CASE \E op \in UiCalls : CallUi(op)
    <3>1. todo["ui"] = <<>>
          /\ \E l \in {Enter, Look, ClearAll, SwitchOn, SwitchOff} : Goes("ui", l)
      BY <2>2, CallUiGoes
    <3>2. {todo["ui"], todo'["ui"]} \cap (Emptying \cup Activating) = {}
      BY <1>1, <3>1, Heads, Apart DEF Goes, Listed, Caller, Emptying, Activating
    <3>3. todo'["scheduler"] = todo["scheduler"]
      BY <1>1, <3>1 DEF Goes, Listed
    <3> QED
      BY <1>1, <2>1, <3>2, <3>3, FollowsRest DEF FollowRests
  <2>3. CASE \E op \in HelperCalls : CallHelper(op)
    <3>1. todo'["ui"] = todo["ui"] /\ todo'["scheduler"] = todo["scheduler"]
      <4>1. \E l \in {TakeJoin, SaveIt} : Goes("helper", l)
        BY <2>3, CallHelperGoes
      <4> QED
        BY <1>1, <4>1 DEF Goes, Listed, Caller
    <3> QED
      BY <1>1, <2>1, <3>1, FollowsRest DEF FollowRests
  <2> QED
    BY <1>3, <2>2, <2>3
<1>4. ASSUME NEW action \in Scheduled, RunScheduled(action)
      PROVE  Follows'
  BY <1>1, <1>4, RunScheduledFollows
<1>5. CASE (\E a \in Caller : ExportEnds(a)) \/ Note \/ SchedulerEnds \/ SchedulerPanics
           \/ (\E t \in 1..Len(threads) : ThreadStep(t) \/ StreamFails(t) \/ Panics(t))
           \/ UNCHANGED vars
  <2>1. UNCHANGED <<client, worker, writer, enabled, config, todo>>
    BY <1>5
       DEF ExportEnds, Note, SchedulerEnds, SchedulerPanics, ThreadStep, OpenStreams, Push, Leave,
           StreamFails, Panics, vars, syncVars, workerVars
  <2> QED
    BY <1>1, <2>1, FollowsRest DEF FollowRests
<1>6. CASE DropHandle \/ Quit
  BY <1>1, <1>6 DEF DropHandle, Quit, Sound, controlVars
<1> QED
  BY <1>2, <1>3, <1>4, <1>5, <1>6 DEF Next

LEMMA UploadsInvariance == Spec => [](TypeInv /\ Uploads)
<1>1. Init => Uploads
  <2> SUFFICES ASSUME Init PROVE Follows /\ ~HasPanicked
    BY DEF Uploads
  <2>0. ~HasPanicked
    BY DEF Init, HasPanicked
  <2>1. todo["ui"] = <<>> /\ client = None /\ worker = 1 /\ 1 # None
    BY RecorderConstants DEF Init, Caller
  <2>2. todo["ui"] \notin Emptying \cup Activating
    BY <2>1, Heads DEF Emptying, Activating
  <2> QED
    BY <2>0, <2>1, <2>2 DEF Follows
<1>2. TypeInv /\ Uploads /\ [Next]_vars => Uploads'
  BY NextUploads
<1> QED
  BY <1>1, <1>2, TypeInvariance, PTL DEF Spec

\* While nothing fails, an upload that is there when nobody is at work reads the worker
\* that records, however the schedule and a clearing of the cache came together.
THEOREM UploadFollowsTheWorker == Spec => []UploadReadsTheRecorder
<1>1. TypeInv /\ Uploads => UploadReadsTheRecorder
  <2> SUFFICES ASSUME Uploads, Sound, \A a \in Caller : Idle(a), client # None
               PROVE  client = worker
    BY DEF UploadReadsTheRecorder, Sound
  <2>1. todo["ui"] = <<>> /\ todo["scheduler"] = <<>>
    BY DEF Idle, Caller
  <2>2. todo["ui"] \notin Emptying \cup Activating /\ ~WillStop
    BY <2>1, Heads DEF Emptying, Activating, WillStop
  <2> QED
    BY <2>2 DEF Uploads, Follows
<1> QED
  BY <1>1, UploadsInvariance, PTL

=============================================================================
