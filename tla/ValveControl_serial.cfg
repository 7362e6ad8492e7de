\* No work item becomes due inside a command.
CONSTANT Preemption = FALSE
SPECIFICATION FairSpec
PROPERTY ImplementsFairValve
