------------------------ MODULE MCScheduleCoordinator ------------------------
\* Small instances of ScheduleCoordinator: countdowns to an action that can be
\* too late.
EXTENDS ScheduleCoordinator

MCActionSets == {{"save"}}

MCInput ==
  {[enabled |-> TRUE, trigger |-> [kind |-> "countdown", delay |-> 1],
    actions |-> {"save"}]}
=============================================================================
