--------------------------- MODULE QueryLifecycle ---------------------------
(***************************************************************************)
(* One RunnerManager, the plugin runners it asks, and the RunnerContext    *)
(* they share.  The manager lives in the main thread; every runner lives   *)
(* in a thread of its own with a FIFO event queue (QThread).  The manager  *)
(* calls a runner by posting to that queue, a runner answers by posting to *)
(* the main thread's queue.  The context is explicitly shared: a reset     *)
(* marks the old data invalid and, when a runner still has a copy, detaches *)
(* the manager's context from it.                                          *)
(*                                                                         *)
(* The set of loaded runners is fixed here and none of them is disabled.   *)
(***************************************************************************)
EXTENDS Integers, Sequences, FiniteSets

CONSTANTS
    Runners,        \* ids of the loaded plugin runners
    Queries,        \* non-empty trimmed search terms
    Stamps,         \* values of QDateTime::currentMSecsSinceEpoch()
    CtxIds,         \* bound: RunnerContextPrivate objects alive at a time
    Rejects,        \* <<runner, term>>: too short for it, or regex mismatch
    Suspending,     \* runners whose plugin calls suspendMatching itself
    Reloading,      \* runners whose configuration the user edits
    SessionEnds,    \* whether the client ever calls matchSessionComplete
    AllRunners,     \* the empty runnerName: no single runner mode
    NoSuchRunner,   \* a runnerName that cannot be loaded
    NoTerm,         \* the empty query string
    NoStamp,        \* queryStartTs of a fresh RunnerContextPrivate (0)
    NoCtx,          \* no context held
    NoJob,          \* the empty job id
    MaxInbox,       \* bound: queued calls of a runner when a caller adds one
    MaxEvents       \* bound: main-thread events when the environment acts

Terms == Queries \cup {NoTerm}
Modes == Runners \cup {AllRunners, NoSuchRunner}
Match == [runner : Runners, term : Terms]
Context == [valid : BOOLEAN, term : Terms, stamp : Stamps \cup {NoStamp},
            matches : SUBSET Match]
\* runnerJobId: the id "<runner>-<term>-<timestamp>" as a record.
Job == [runner : Runners, term : Terms, stamp : Stamps \cup {NoStamp}]

Call == [op : {"reload"}] \cup [op : {"match"}, ctx : CtxIds]
Event == [kind : {"matchesChanged", "nothingToRun", "queryFinished"}]
         \cup [kind : {"resumed"}, runner : Runners]
         \cup [kind : {"jobFinished"}, job : Job]

ASSUME ConstantsAssumption ==
    /\ Runners # {} /\ Queries # {} /\ Stamps # {} /\ CtxIds # {}
    /\ NoTerm \notin Queries
    /\ NoStamp \notin Stamps
    /\ AllRunners \notin Runners /\ NoSuchRunner \notin Runners
    /\ AllRunners # NoSuchRunner
    /\ NoCtx \notin CtxIds
    /\ NoJob \notin Job
    /\ Rejects \subseteq Runners \X Terms
    /\ Suspending \subseteq Runners /\ Reloading \subseteq Runners
    /\ SessionEnds \in BOOLEAN
    /\ MaxInbox \in Nat /\ MaxEvents \in Nat

VARIABLES
    \* RunnerContextPrivate objects, and the one RunnerManager::d->context points to
    heap, d,
    \* RunnerManagerPrivate
    single,         \* singleModeRunnerId (AllRunners when empty)
    typed,          \* untrimmedTerm.trimmed() is not empty
    currentJobs,    \* set of job ids
    pending,        \* pendingJobsAfterSuspend: job id per runner, or NoJob
    querying,       \* m_querying
    timer,          \* matchChangeTimer is active
    shown,          \* argument of the last matchesChanged signal
    events,         \* main-thread queue of events for the manager
    \* AbstractRunnerPrivate::suspendMatching: an optional<bool>
    suspended,
    \* each runner's thread
    inbox,          \* queued calls
    at,             \* where the thread is
    held,           \* the context that its running matchInternal has a copy of
    told            \* the term its match() read from that context

managerVars == <<single, typed, currentJobs, pending, querying>>
displayVars == <<timer, shown>>
threadVars == <<inbox, at, held, told>>
vars == <<heap, d, managerVars, displayVars, events, suspended, threadVars>>

-----------------------------------------------------------------------------
(* The shared context *)

Blank == [valid |-> TRUE, term |-> NoTerm, stamp |-> NoStamp, matches |-> {}]

MatchCall(c) == [op |-> "match", ctx |-> c]

Queued(r, c) == \E i \in DOMAIN inbox[r] : inbox[r][i] = MatchCall(c)

\* A queued call and a running matchInternal each have a copy of the context.
Shared(c) == \E r \in Runners : held[r] = c \/ Queued(r, c)

\* Fault: reset() without d.detach().
NeverDetached == {d}

\* QExplicitlySharedDataPointer::detach clones only data that is shared.
Detached == IF Shared(d) THEN {c \in CtxIds \ {d} : ~Shared(c)} ELSE {d}

\* Fault: reset() without matches.clear(), which the unshared data needs.
ResetKeepingMatches(c, term, stamp) ==
    /\ d' = c
    /\ heap' = [heap EXCEPT
          ![d].valid = FALSE,
          ![c] = [valid |-> TRUE, term |-> term, stamp |-> stamp,
                  matches |-> IF c = d THEN heap[d].matches ELSE {}]]

\* RunnerContext::reset, the old data invalidated and the data it then points
\* to at c; the clone has no timestamp, unshared data keeps its own.
ResetTo(c, term, stamp) ==
    /\ d' = c
    /\ heap' = [heap EXCEPT
          ![d].valid = FALSE,
          ![c] = [valid |-> TRUE, term |-> term, stamp |-> stamp, matches |-> {}]]

StampAfterReset(c) == IF c = d THEN heap[d].stamp ELSE NoStamp

\* Fault: the stall is forgotten, the old list stays.
ScheduleNothing(isTyped, found) ==
    /\ timer' = FALSE
    /\ shown' = IF isTyped THEN shown ELSE found

\* scheduleMatchesChanged while the context has no term: stall the display if the
\* input box holds one (a search is about to start), else show what there is.
ScheduleWithoutQuery(isTyped, found) ==
    /\ timer' = isTyped
    /\ shown' = IF isTyped THEN shown ELSE found

\* RunnerContext::reset calls it at once, with the matches just cleared.
ScheduleOnReset(isTyped) == ScheduleWithoutQuery(isTyped, {})

JobId(r, c) == [runner |-> r, term |-> heap[c].term, stamp |-> heap[c].stamp]

-----------------------------------------------------------------------------
(* RunnerManager: calls made by the client *)

\* Bounds: the client waits while the queues are this long.
Room == Len(events) < MaxEvents
RoomFor(r) == Len(inbox[r]) < MaxInbox

NoPending == [r \in Runners |-> NoJob]

\* launchQuery(term, runner) when the runner cannot be loaded.
LaunchUnknownRunner(isTyped) ==
    /\ Room
    /\ pending' = NoPending
    /\ typed' = isTyped
    /\ single' = NoSuchRunner
    /\ currentJobs' = {}
    /\ \E c \in Detached : ResetTo(c, NoTerm, StampAfterReset(c))
    /\ ScheduleOnReset(isTyped)
    /\ UNCHANGED <<querying, events, suspended, threadVars>>

\* launchQuery with blanks only.
LaunchEmpty(mode) ==
    /\ Room
    /\ pending' = NoPending
    /\ typed' = FALSE
    /\ single' = mode
    /\ currentJobs' = {}
    /\ \E c \in Detached : ResetTo(c, NoTerm, StampAfterReset(c))
    /\ ScheduleOnReset(FALSE)
    /\ events' = Append(events, [kind |-> "queryFinished"])
    /\ UNCHANGED <<querying, suspended, threadVars>>

\* launchQuery with the term and the runner it is already searching.
LaunchSame ==
    /\ Room
    /\ heap[d].term # NoTerm
    /\ pending' = NoPending
    /\ typed' = TRUE
    /\ UNCHANGED <<heap, d, single, currentJobs, querying, displayVars,
                   events, suspended, threadVars>>

\* launchQuery with anything else.  A runner whose matching is suspended is put
\* on the pending list, one that would reject the term is skipped (unless it is
\* the single runner), and the others are called.
LaunchNew(q, mode, now) ==
    LET asked == IF mode = AllRunners THEN Runners ELSE {mode}
        waiting == {r \in asked : suspended[r] # "no"}
        started == {r \in asked \ waiting :
                      mode # AllRunners \/ <<r, q>> \notin Rejects}
        job(r) == [runner |-> r, term |-> q, stamp |-> now]
    IN  /\ Room /\ \A r \in Runners : RoomFor(r)
        /\ ~(heap[d].term = q /\ single = mode)
        /\ typed' = TRUE
        /\ single' = mode
        /\ pending' = [r \in Runners |-> IF r \in waiting THEN job(r) ELSE NoJob]
        /\ currentJobs' = {job(r) : r \in waiting \cup started}
        /\ querying' = (waiting \cup started # {})
        /\ events' = IF waiting \cup started = {}
                     THEN Append(events, [kind |-> "nothingToRun"]) ELSE events
        /\ \E c \in Detached :
              /\ ResetTo(c, q, now)
              /\ inbox' = [r \in Runners |->
                    IF r \in started THEN Append(inbox[r], MatchCall(c))
                                     ELSE inbox[r]]
        /\ ScheduleOnReset(TRUE)
        /\ UNCHANGED <<suspended, at, held, told>>

\* Fault: reset() without currentJobs.clear().
ResetKeepingJobs ==
    /\ Room
    /\ \E c \in Detached : ResetTo(c, NoTerm, StampAfterReset(c))
    /\ ScheduleOnReset(typed)
    /\ UNCHANGED <<single, typed, currentJobs, pending, querying, events, suspended,
                   threadVars>>

\* reset(): the pending list, the input text and the mode stay.
Reset ==
    /\ Room
    /\ currentJobs' = {}
    /\ \E c \in Detached : ResetTo(c, NoTerm, StampAfterReset(c))
    /\ ScheduleOnReset(typed)
    /\ UNCHANGED <<single, typed, pending, querying, events, suspended,
                   threadVars>>

\* matchSessionComplete, whose teardown drops the pending jobs.  It returns early
\* when no match session is set up; then no job is pending, as launchQuery sets
\* one up and only a teardown ends it.
MatchSessionComplete ==
    /\ pending' = NoPending
    /\ UNCHANGED <<heap, d, single, typed, currentJobs, querying, displayVars,
                   events, suspended, threadVars>>

\* The config watcher posts reloadConfigurationInternal to the runner.
ReloadConfig(r) ==
    /\ Room /\ RoomFor(r)
    /\ inbox' = [inbox EXCEPT ![r] = Append(@, [op |-> "reload"])]
    /\ UNCHANGED <<heap, d, managerVars, displayVars, events, suspended,
                   at, held, told>>

-----------------------------------------------------------------------------
(* RunnerManager: its timer and the events posted to the main thread *)

\* matchChangeTimer times out.
TimerFires ==
    /\ timer
    /\ timer' = FALSE
    /\ shown' = heap[d].matches
    /\ UNCHANGED <<heap, d, managerVars, events, suspended, threadVars>>

NextEvent(kind) == events # <<>> /\ Head(events).kind = kind

\* scheduleMatchesChanged for an event that a runner's addMatches has posted.
\* Whether 250 ms have passed since the last signal is left open.
OnMatchesChanged ==
    /\ NextEvent("matchesChanged")
    /\ events' = Tail(events)
    /\ IF heap[d].term = NoTerm
       THEN ScheduleWithoutQuery(typed, heap[d].matches)
       ELSE \/ timer' = FALSE /\ shown' = heap[d].matches
            \/ timer' = TRUE /\ UNCHANGED shown
    /\ UNCHANGED <<heap, d, managerVars, suspended, threadVars>>

\* Fault: the last job stops the timer and does not flush the display.
JobFinishedUnflushed(job) ==
    LET last == currentJobs = {job}
    IN  /\ currentJobs' = currentJobs \ {job}
        /\ querying' = (querying /\ ~last)
        /\ timer' = (timer /\ ~last)
        /\ UNCHANGED shown

\* Fault: the end of a job is left to the refresh when one is scheduled.
JobFinishedLater(job) ==
    /\ IF timer THEN UNCHANGED <<currentJobs, querying>>
                ELSE /\ currentJobs' = currentJobs \ {job}
                     /\ querying' = (currentJobs # {job} /\ querying)
    /\ UNCHANGED <<timer, shown>>

\* onRunnerJobFinished: the last job of the query flushes the display.
JobFinished(job) ==
    LET last == currentJobs = {job}
    IN  /\ currentJobs' = currentJobs \ {job}
        /\ IF last
           THEN /\ querying' = FALSE
                /\ timer' = FALSE
                /\ shown' = IF timer \/ heap[d].matches = {} THEN heap[d].matches
                                                             ELSE shown
           ELSE UNCHANGED <<querying, timer, shown>>

OnJobFinished ==
    /\ NextEvent("jobFinished")
    /\ events' = Tail(events)
    /\ JobFinished(Head(events).job)
    /\ UNCHANGED <<heap, d, single, typed, pending, suspended, threadVars>>

\* runnerMatchingResumed.
Ignores(r) == pending[r] = NoJob \/ single \notin {AllRunners, r}
Accepts(r) == single # AllRunners \/ <<r, heap[d].term>> \notin Rejects

OnMatchingResumed ==
    /\ NextEvent("resumed")
    /\ events' = Tail(events)
    /\ LET r == Head(events).runner
       IN  \/ /\ Ignores(r)
              /\ UNCHANGED <<currentJobs, querying, displayVars, inbox>>
           \/ /\ ~Ignores(r) /\ Accepts(r)
              /\ inbox' = [inbox EXCEPT ![r] = Append(@, MatchCall(d))]
              /\ UNCHANGED <<currentJobs, querying, displayVars>>
           \/ /\ ~Ignores(r) /\ ~Accepts(r)
              /\ JobFinished(pending[r])
              /\ UNCHANGED inbox
    /\ UNCHANGED <<heap, d, single, typed, pending, suspended,
                   at, held, told>>

\* The zero-timer of launchQuery for a query that no runner was asked.
OnNothingToRun ==
    /\ NextEvent("nothingToRun")
    /\ events' = Tail(events)
    /\ currentJobs' = {}
    /\ shown' = {}
    /\ UNCHANGED <<heap, d, single, typed, pending, querying, timer,
                   suspended, threadVars>>

\* The zero-timer of launchQuery for an empty term only emits queryFinished.
OnQueryFinished ==
    /\ NextEvent("queryFinished")
    /\ events' = Tail(events)
    /\ UNCHANGED <<heap, d, managerVars, displayVars, suspended, threadVars>>

-----------------------------------------------------------------------------
(* AbstractRunner: calls of suspendMatching, from any of the plugin's code *)

\* Fault: the first suspendMatching(false) of a runner, whose flag has no value
\* yet, is taken for a call that changes nothing.
SuspendMatchingIfSet(r, suspend) ==
    /\ suspended' = [suspended EXCEPT ![r] = IF suspend THEN "yes" ELSE "no"]
    /\ events' = IF ~suspend /\ suspended[r] = "yes"
                 THEN Append(events, [kind |-> "resumed", runner |-> r])
                 ELSE events

\* suspendMatching(suspend): matchingResumed is emitted only on a change.
SuspendMatching(r, suspend) ==
    LET value == IF suspend THEN "yes" ELSE "no"
    IN  /\ suspended' = [suspended EXCEPT ![r] = value]
        /\ events' = IF ~suspend /\ suspended[r] # "no"
                     THEN Append(events, [kind |-> "resumed", runner |-> r])
                     ELSE events

\* Bound: a plugin only suspends while the queues are short.
PluginSuspend(r) ==
    /\ suspended[r] = "no"
    /\ Room /\ RoomFor(r)
    /\ SuspendMatching(r, TRUE)
    /\ UNCHANGED <<heap, d, managerVars, displayVars, threadVars>>

PluginResume(r) ==
    /\ suspended[r] = "yes"
    /\ SuspendMatching(r, FALSE)
    /\ UNCHANGED <<heap, d, managerVars, displayVars, threadVars>>

-----------------------------------------------------------------------------
(* AbstractRunner: the calls its thread takes from its queue *)

NextCall(r, op) == at[r] = "idle" /\ inbox[r] # <<>> /\ Head(inbox[r]).op = op

TakeCall(r) == inbox' = [inbox EXCEPT ![r] = Tail(@)]

Goto(r, place) == at' = [at EXCEPT ![r] = place]

\* The constructor's zero-timer, the first event of the thread: init(), which may
\* suspend explicitly; if it does not, matching is resumed.
RunInit(r, suspend) ==
    /\ at[r] = "starting"
    /\ suspend => r \in Suspending
    /\ Goto(r, "idle")
    /\ SuspendMatching(r, suspend)
    /\ UNCHANGED <<heap, d, managerVars, displayVars, inbox, held, told>>

\* reloadConfigurationInternal: remember the state, suspend, reload, restore.
BeginReload(r) ==
    /\ NextCall(r, "reload")
    /\ TakeCall(r)
    /\ Goto(r, IF suspended[r] = "no" THEN "reloading" ELSE "reloadingSuspended")
    /\ SuspendMatching(r, TRUE)
    /\ UNCHANGED <<heap, d, managerVars, displayVars, held, told>>

EndReload(r) ==
    /\ at[r] \in {"reloading", "reloadingSuspended"}
    /\ Goto(r, "idle")
    /\ SuspendMatching(r, at[r] = "reloadingSuspended")
    /\ UNCHANGED <<heap, d, managerVars, displayVars, inbox, held, told>>

\* matchInternal: match() runs only if the context is valid; the plugin reads
\* the term from it.
StartMatch(r) ==
    LET c == Head(inbox[r]).ctx
    IN  /\ NextCall(r, "match")
        /\ TakeCall(r)
        /\ held' = [held EXCEPT ![r] = c]
        /\ IF heap[c].valid
           THEN Goto(r, "match") /\ told' = [told EXCEPT ![r] = heap[c].term]
           ELSE Goto(r, "matched") /\ UNCHANGED told
        /\ UNCHANGED <<heap, d, managerVars, displayVars, events, suspended>>

\* Fault: a call for an invalid context returns without reporting its end.
ReturnIfInvalid(r) ==
    /\ at[r] = "match"
    /\ Goto(r, IF heap[held[r]].valid THEN "adding" ELSE "idle")
    /\ UNCHANGED <<heap, d, managerVars, displayVars, events, suspended,
                   inbox, held, told>>

\* RunnerContext::addMatches, part 1: isValid() under the lock.
CheckValid(r) ==
    /\ at[r] = "match"
    /\ Goto(r, IF heap[held[r]].valid THEN "adding" ELSE "matched")
    /\ UNCHANGED <<heap, d, managerVars, displayVars, events, suspended,
                   inbox, held, told>>

\* Part 2: the lock is taken again and the matches appended, valid or not.
AppendMatches(r) ==
    /\ at[r] = "adding"
    /\ heap' = [heap EXCEPT ![held[r]].matches =
                   @ \cup {[runner |-> r, term |-> told[r]]}]
    /\ Goto(r, "added")
    /\ UNCHANGED <<d, managerVars, displayVars, events, suspended,
                   inbox, held, told>>

\* Part 3: without the lock, onMatchesChanged is posted to the manager.
PostMatchesChanged(r) ==
    /\ at[r] = "added"
    /\ events' = Append(events, [kind |-> "matchesChanged"])
    /\ Goto(r, "matched")
    /\ UNCHANGED <<heap, d, managerVars, displayVars, suspended,
                   inbox, held, told>>

\* match() returns, with or without having found something; matchInternal posts
\* matchInternalFinished and its copy of the context goes.  The last copy of an
\* abandoned context frees it.
EndMatch(r) ==
    LET c == held[r]
        last == c # d /\ ~Queued(r, c)
                /\ \A o \in Runners \ {r} : held[o] # c /\ ~Queued(o, c)
    IN  /\ at[r] \in {"match", "matched"}
        /\ events' = Append(events, [kind |-> "jobFinished", job |-> JobId(r, c)])
        /\ heap' = IF last THEN [heap EXCEPT ![c] = Blank] ELSE heap
        /\ held' = [held EXCEPT ![r] = NoCtx]
        /\ told' = [told EXCEPT ![r] = NoTerm]
        /\ Goto(r, "idle")
        /\ UNCHANGED <<d, managerVars, displayVars, suspended, inbox>>

-----------------------------------------------------------------------------

Init ==
    /\ heap = [c \in CtxIds |-> Blank]
    /\ d \in CtxIds
    /\ single = AllRunners
    /\ typed = FALSE
    /\ currentJobs = {}
    /\ pending = NoPending
    /\ querying = FALSE
    /\ timer = FALSE
    /\ shown = {}
    /\ events = <<>>
    /\ suspended = [r \in Runners |-> "unset"]
    /\ inbox = [r \in Runners |-> <<>>]
    /\ at = [r \in Runners |-> "starting"]
    /\ held = [r \in Runners |-> NoCtx]
    /\ told = [r \in Runners |-> NoTerm]

\* What the client of the manager, or a config file, may do at any time.
UserAction ==
    \/ \E isTyped \in BOOLEAN : LaunchUnknownRunner(isTyped)
    \/ \E mode \in Runners \cup {AllRunners} : LaunchEmpty(mode)
    \/ LaunchSame
    \/ \E q \in Queries, mode \in Runners \cup {AllRunners}, now \in Stamps :
          LaunchNew(q, mode, now)
    \/ Reset
    \/ SessionEnds /\ MatchSessionComplete
    \/ \E r \in Reloading : ReloadConfig(r)

ManagerEvent ==
    \/ OnMatchesChanged
    \/ OnJobFinished
    \/ OnMatchingResumed
    \/ OnNothingToRun
    \/ OnQueryFinished

RunnerStep(r) ==
    \/ \E suspend \in BOOLEAN : RunInit(r, suspend)
    \/ BeginReload(r)
    \/ EndReload(r)
    \/ StartMatch(r)
    \/ CheckValid(r)
    \/ AppendMatches(r)
    \/ PostMatchesChanged(r)
    \/ EndMatch(r)

Next ==
    \/ UserAction
    \/ TimerFires
    \/ ManagerEvent
    \/ \E r \in Suspending : PluginSuspend(r) \/ PluginResume(r)
    \/ \E r \in Runners : RunnerStep(r)

Spec == Init /\ [][Next]_vars

\* Event loops and timers run, match(), init() and reloadConfiguration()
\* return, and a plugin does not stay suspended ("Do not permanently suspend
\* the runner", abstractrunner.h).  The client and the config files owe nothing.
Fairness ==
    /\ WF_vars(TimerFires)
    /\ WF_vars(ManagerEvent)
    /\ \A r \in Runners : WF_vars(RunnerStep(r))
    /\ \A r \in Suspending : WF_vars(PluginResume(r))

FairSpec == Spec /\ Fairness

-----------------------------------------------------------------------------
(* Types *)

Places == {"starting", "idle", "match", "adding", "added", "matched",
           "reloading", "reloadingSuspended"}
Matching == {"match", "adding", "added", "matched"}

\* Every variable has its type, and a runner has a copy of a context exactly
\* while its matchInternal runs (runnercontext.h: the context is passed by value).
TypeOK ==
    /\ heap \in [CtxIds -> Context]
    /\ d \in CtxIds
    /\ single \in Modes
    /\ typed \in BOOLEAN
    /\ currentJobs \subseteq Job
    /\ pending \in [Runners -> Job \cup {NoJob}]
    /\ querying \in BOOLEAN
    /\ timer \in BOOLEAN
    /\ shown \subseteq Match
    /\ events \in Seq(Event)
    /\ suspended \in [Runners -> {"unset", "yes", "no"}]
    /\ inbox \in [Runners -> Seq(Call)]
    /\ at \in [Runners -> Places]
    /\ held \in [Runners -> CtxIds \cup {NoCtx}]
    /\ told \in [Runners -> Terms]
    /\ \A r \in Runners : held[r] = NoCtx <=> at[r] \notin Matching

-----------------------------------------------------------------------------
(* Safety *)

\* A context never contains a match that was found for another term than its
\* own, although addMatches checks isValid() and appends in two critical
\* sections and a reset may come between them: reset() detaches first.
NoStaleMatches ==
    \A c \in CtxIds : \A m \in heap[c].matches : m.term = heap[c].term

\* The open jobs and, while a query is set, the pending ones are jobs of the
\* query that the manager's context is set to, and the manager is querying
\* whenever a job is open: launchQuery, reset, the zero-timer, the resumption of
\* a runner and late answers to older queries all leave it so.
JobsBelongToQuery ==
    /\ \A j \in currentJobs : j = JobId(j.runner, d)
    /\ currentJobs # {} => querying /\ heap[d].term # NoTerm
    /\ heap[d].term # NoTerm =>
          \A r \in Runners : pending[r] \in {NoJob, JobId(r, d)}

\* The client shows matches of an older query only during the 250 ms that
\* scheduleMatchesChanged stalls: whatever is shown and is not a current match
\* has a refresh coming, and a blank input box never shows any.
StaleShownOnlyWhileStalling ==
    ~(shown \subseteq heap[d].matches) => timer /\ typed

EventQueued(kind) == \E i \in DOMAIN events : events[i].kind = kind

\* The client is never left with a list that differs from the matches found:
\* a refresh is on the timer, queued, or about to be posted by a runner.
DirtyIsScheduled ==
    shown # heap[d].matches =>
        \/ timer
        \/ EventQueued("matchesChanged")
        \/ \E r \in Runners : at[r] = "added" /\ held[r] = d

\* r has still to answer, or has answered, a call for the current context.
Answering(r) ==
    \/ Queued(r, d)
    \/ held[r] = d
    \/ \E i \in DOMAIN events :
          events[i] = [kind |-> "jobFinished", job |-> JobId(r, d)]

\* A pending job of a runner that is not suspended (any more) is not forgotten:
\* the notice of its resumption is queued or the job is being run, whatever the
\* order in which the runner resumes and launchQuery asks isMatchingSuspended.
NoLostWakeup ==
    \A r \in Runners :
        pending[r] # NoJob /\ pending[r] \in currentJobs /\ suspended[r] = "no" =>
            \/ Answering(r)
            \/ \E i \in DOMAIN events : events[i] = [kind |-> "resumed", runner |-> r]

\* What a step may not do: a context that some runner has a copy of keeps its
\* term and timestamp, so the job id it reports is that of the query it was
\* called for, and it never becomes valid again.
HeldContextStable ==
    [][\A c \in CtxIds : Shared(c) /\ Shared(c)' =>
          /\ heap'[c].term = heap[c].term
          /\ heap'[c].stamp = heap[c].stamp
          /\ heap'[c].valid => heap[c].valid]_vars

-----------------------------------------------------------------------------
(* The abstract specification *)

\* The client's view of the manager: its query, its matches and what it last
\* signalled; runners, threads, contexts and the refresh timer are hidden.
Display == INSTANCE MatchDisplay WITH
    query <- heap[d].term,
    results <- heap[d].matches

\* Whatever the threads do, the client only ever sees a query change, a match of
\* the current query being added, or a refresh (matchesChanged, runnermanager.h).
ImplementsDisplay == Display!Spec

-----------------------------------------------------------------------------
(* Liveness, under FairSpec *)

\* A job that a runner has been called for leaves the set of open jobs.
StartedJobsEnd ==
    \A r \in Runners :
        (Answering(r) /\ JobId(r, d) \in currentJobs) ~> JobId(r, d) \notin currentJobs

\* A job that waits for a suspended runner ends as well, unless the pending
\* list is cleared meanwhile.
PendingJobsEnd ==
    \A r \in Runners :
        (pending[r] # NoJob /\ pending[r] \in currentJobs)
            ~> (pending[r] = NoJob \/ pending[r] \notin currentJobs)

\* Once the client and the configuration stay quiet the client sees exactly the
\* matches that the runners have found.
DisplayConverges ==
    <>[][~UserAction]_vars => <>[](shown = heap[d].matches)

-----------------------------------------------------------------------------
(* What the documentation says and the code does not do *)

\* runnermanager.h:159 "If the RunnerManager is currently querying".
QueryingIsAccurate == querying => currentJobs # {}

\* runnermanager.h:243 "Reset the current data and stops the query": without a
\* query no matches are collected.
NothingWithoutQuery == heap[d].term = NoTerm => heap[d].matches = {}

\* runnermanager.cpp:577 "we already are searching for this!": a client that only
\* repeats the query it has set, within one session, gets that query finished.
AlreadySearching ==
    <>[][UserAction => LaunchSame]_vars => <>[](currentJobs = {})

=============================================================================
