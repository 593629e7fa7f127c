----------------------------- MODULE UploadLog ------------------------------
(***************************************************************************)
(* What the realtime upload promises, without epochs, messages, files or   *)
(* crashes: one log that only grows, with at most one writer at a time,    *)
(* who appends a gapless run of its own recording and never repeats what   *)
(* it has written before.                                                  *)
(***************************************************************************)
EXTENDS Integers, Sequences

CONSTANTS Client, None

VARIABLES log, writer

logVars == <<log, writer>>

Run(client, from, count) == [i \in 1..count |-> <<client, from + i - 1>>]

LogInit == log = <<>> /\ writer = None

\* A writer takes over, beyond everything it wrote earlier.
TakeOver ==
  /\ writer' # None
  /\ \A i \in 1..Len(log) :
       log[i][1] = writer'.client => log[i][2] < writer'.next
  /\ UNCHANGED log

Extend(count) ==
  /\ writer # None
  /\ log' = log \o Run(writer.client, writer.next, count)
  /\ writer' = [writer EXCEPT !.next = @ + count]

Release == writer' = None /\ UNCHANGED log

LogNext == TakeOver \/ Release \/ \E count \in 0..(Len(log') - Len(log)) : Extend(count)

LogSpec == LogInit /\ [][LogNext]_logVars

=============================================================================
