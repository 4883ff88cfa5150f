SPECIFICATION Spec
CHECK_DEADLOCK FALSE
CONSTANTS
    Thread = {t1, t2}
    Item = {a, b}
    Stub = Stub
    Sleeping = Sleeping
    Null = Null
    Local = {stop}
    StopTask = stop
    High = {stop}
INVARIANT NoUseAfterFree
INVARIANT NoLostWakeup
PROPERTY HandedOverInOrder
PROPERTY LoopProgresses
PROPERTY IsChannel
