SPECIFICATION LiveSpec
CONSTANTS
    t1 = t1  t2 = t2  k1 = k1  k2 = k2  demo = demo  other = other
    Task = {t1, t2}
    Session = {s1, s2}
    Worker = {w1}
    Kind = {demo, other}
    Wanted = {AnyKind}
    Request <- EitherBook
    NoTask = NoTask  NoSession = NoSession  NoWorker = NoWorker
    AnyKind = AnyKind  NoRequest = NoRequest
    LeaseDuration = 1
    RecoverLimit = 1
    HeartbeatUntil = 0
    MaxFaults = 1
PROPERTIES EveryTaskEnds EverySessionEnds
