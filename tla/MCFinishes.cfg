SPECIFICATION FairSpec
CONSTANTS
    r1 = r1
    r2 = r2
    q1 = q1
    q2 = q2
    Runners = {r2}
    Queries = {q1}
    Stamps = {t1}
    CtxIds = {c1, c2}
    Rejects = {}
    Suspending = {}
    Reloading = {}
    AllRunners = AllRunners
    NoSuchRunner = NoSuchRunner
    NoTerm = NoTerm
    NoStamp = NoStamp
    NoCtx = NoCtx
    NoJob = NoJob
    SessionEnds = FALSE
    MaxInbox = 1
    MaxEvents = 1
PROPERTY AlreadySearching

