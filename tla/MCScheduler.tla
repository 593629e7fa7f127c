----------------------------- MODULE MCScheduler -----------------------------
\* Small instances of Scheduler: a closing action, one that can be too late, a
\* countdown, a time point and a disabled task.
EXTENDS Scheduler

MCActionSets == {{"stop", "save"}, {"save"}}

MCInput ==
  {[enabled |-> TRUE, trigger |-> [kind |-> "countdown", delay |-> 1],
    actions |-> {"stop", "save"}],
   [enabled |-> FALSE, trigger |-> [kind |-> "timepoint", due |-> 2],
    actions |-> {"save"}]}
=============================================================================
