\* One handle at a time, made and deleted again and again.
SPECIFICATION Spec
CONSTANT Garbage = {TRUE, FALSE}
INVARIANTS TypeOK OneReactorTask RunsWhileUsed StopReachesReactor
PROPERTIES LoopLeftFirst RemoveReturns
