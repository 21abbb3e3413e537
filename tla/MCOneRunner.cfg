SPECIFICATION Spec
CONSTANTS
    r1 = r1
    r2 = r2
    q1 = q1
    q2 = q2
    Runners = {r2}
    Queries = {q1,q2}
    Stamps = {t1}
    CtxIds = {c1, c2, c3}
    Rejects <- MCRejects
    Suspending = {r2}
    Reloading = {r2}
    AllRunners = AllRunners
    NoSuchRunner = NoSuchRunner
    NoTerm = NoTerm
    NoStamp = NoStamp
    NoCtx = NoCtx
    NoJob = NoJob
    SessionEnds = TRUE
    MaxInbox = 1
    MaxEvents = 2
SYMMETRY CtxSymmetry
INVARIANTS TypeOK NoStaleMatches JobsBelongToQuery StaleShownOnlyWhileStalling
PROPERTIES HeldContextStable ImplementsDisplay
