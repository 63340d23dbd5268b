SPECIFICATION Spec
CONSTANTS
    t1 = t1  t2 = t2  k1 = k1  k2 = k2  demo = demo  other = other
    Task = {t1}
    Session = {s1, s2}
    Worker = {w1, w2}
    Kind = {demo, other}
    Wanted = {AnyKind}
    Request <- OneTask
    NoTask = NoTask  NoSession = NoSession  NoWorker = NoWorker
    AnyKind = AnyKind  NoRequest = NoRequest
    LeaseDuration = 1
    RecoverLimit = 1
    HeartbeatUntil = 1
    MaxFaults = 1
SYMMETRY Symmetric
INVARIANTS TypeOK AuditTrail SessionInv
PROPERTIES TerminalIsFinal LeaseRespected CompletedByHolder ImplementsLeaseQueue
