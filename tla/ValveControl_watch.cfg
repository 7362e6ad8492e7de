CONSTANT Preemption = FALSE
SPECIFICATION Spec
INVARIANT RunningMotorIsWatched
