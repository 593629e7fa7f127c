-------------------------- MODULE MCWindowsRecorder --------------------------
(* Small instances of WindowsRecorder for TLC.                             *)
EXTENDS WindowsRecorder

CONSTANTS PerUi, PerHelper, PerScheduler

MCMaxCalls ==
  [a \in Caller |-> CASE a = "ui" -> PerUi
                      [] a = "helper" -> PerHelper
                      [] a = "scheduler" -> PerScheduler
                      [] a = "quit" -> 0]

=============================================================================
