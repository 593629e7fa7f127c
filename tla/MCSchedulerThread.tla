-------------------------- MODULE MCSchedulerThread --------------------------
\* Small instances of SchedulerThread: a countdown to an action that can be too
\* late, and a time point that is not enabled yet.
EXTENDS SchedulerThread

MCActionSets == {{"stop", "save"}, {"save"}}

MCInput ==
  {[enabled |-> TRUE, trigger |-> [kind |-> "countdown", delay |-> 1],
    actions |-> {"save"}],
   [enabled |-> FALSE, trigger |-> [kind |-> "timepoint", due |-> 2],
    actions |-> {"stop", "save"}]}
=============================================================================
