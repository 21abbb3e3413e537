------------------------- MODULE QueryProgressProofs -------------------------
(***************************************************************************)
(* Proofs that QueryLifecycle forgets neither a refresh of the display nor *)
(* a pending job of a runner that has resumed.  Both are facts about what  *)
(* is still in the main thread's queue.                                    *)
(***************************************************************************)
EXTENDS QueryLifecycleProofs

USE DEF managerVars, displayVars, threadVars

\* An element of a sequence that is not its head is an element of its tail, and
\* appending keeps every element and adds the new one.
LEMMA KeptInTail ==
    ASSUME NEW S, NEW s \in Seq(S), s # <<>>, NEW e,
           \E i \in DOMAIN s : s[i] = e, Head(s) # e
    PROVE  \E i \in DOMAIN Tail(s) : Tail(s)[i] = e
<1>1. PICK i \in 1..Len(s) : s[i] = e
  OBVIOUS
<1>2. i # 1 /\ i - 1 \in 1..Len(Tail(s)) /\ Tail(s)[i - 1] = s[i]
  BY <1>1
<1>3. \E j \in 1..Len(Tail(s)) : Tail(s)[j] = e
  BY <1>1, <1>2
<1>4. Tail(s) \in Seq(S) /\ DOMAIN Tail(s) = 1..Len(Tail(s))
  OBVIOUS
<1>. QED  BY <1>3, <1>4

LEMMA KeptByAppend ==
    ASSUME NEW S, NEW s \in Seq(S), NEW x \in S
    PROVE  /\ \A e : (\E i \in DOMAIN s : s[i] = e)
                       => \E i \in DOMAIN Append(s, x) : Append(s, x)[i] = e
           /\ \E i \in DOMAIN Append(s, x) : Append(s, x)[i] = x
<1>1. ASSUME NEW e, \E i \in DOMAIN s : s[i] = e
      PROVE  \E i \in DOMAIN Append(s, x) : Append(s, x)[i] = e
  <2>1. PICK i \in 1..Len(s) : s[i] = e
    BY <1>1
  <2>2. i \in 1..Len(Append(s, x)) /\ Append(s, x)[i] = e
    BY <2>1
  <2>. QED  BY <2>2
<1>2. Len(s) + 1 \in 1..Len(Append(s, x)) /\ Append(s, x)[Len(s) + 1] = x
  OBVIOUS
<1>. QED  BY <1>1, <1>2

-----------------------------------------------------------------------------
(* The display *)

\* A runner is about to post onMatchesChanged for the current context.
Refreshing == \E r \in Runners : at[r] = "added" /\ held[r] = d

\* The zero-timer of a query that no runner was asked blanks the display.  It may
\* run when a newer query has found matches: then a refresh follows it.
BlankingIsRepaired ==
    \A i \in DOMAIN events :
        events[i].kind = "nothingToRun" /\ heap[d].matches # {} =>
            \/ Refreshing
            \/ \E k \in DOMAIN events : k > i /\ events[k].kind = "matchesChanged"

DirtyInv == TypeOK /\ DirtyIsScheduled /\ BlankingIsRepaired

LEMMA DirtyInit == Init => DirtyInv
BY InitTypes DEF Init, DirtyInv, DirtyIsScheduled, BlankingIsRepaired, Blank

\* A handler that takes an event: the events behind it move up.
LEMMA BlankingTail ==
    ASSUME TypeOK, BlankingIsRepaired, events # <<>>, events' = Tail(events),
           UNCHANGED <<heap, d, at, held>>
    PROVE  BlankingIsRepaired'
<1>. SUFFICES ASSUME NEW i \in DOMAIN events', events'[i].kind = "nothingToRun",
                     heap[d].matches # {}, ~Refreshing
              PROVE  \E k \in DOMAIN events' :
                        k > i /\ events'[k].kind = "matchesChanged"
  BY DEF BlankingIsRepaired, Refreshing
<1>0. events \in Seq(Event)
  BY DEF TypeOK
<1>1. /\ i \in 1..(Len(events) - 1) /\ i + 1 \in 1..Len(events)
      /\ events[i + 1].kind = "nothingToRun"
  BY <1>0
<1>2. PICK k \in 1..Len(events) : k > i + 1 /\ events[k].kind = "matchesChanged"
  BY <1>0, <1>1 DEF BlankingIsRepaired
<1>3. k - 1 \in DOMAIN Tail(events) /\ Tail(events)[k - 1] = events[k] /\ k - 1 > i
  BY <1>0, <1>1, <1>2
<1>. QED  BY <1>2, <1>3

\* A step that appends an event of another kind.
LEMMA BlankingAppend ==
    ASSUME TypeOK, BlankingIsRepaired, NEW e \in Event, e.kind # "nothingToRun",
           events' = Append(events, e), heap'[d'].matches = heap[d].matches,
           Refreshing => Refreshing' \/ e.kind = "matchesChanged"
    PROVE  BlankingIsRepaired'
<1>. SUFFICES ASSUME NEW i \in DOMAIN events', events'[i].kind = "nothingToRun",
                     heap[d].matches # {}, ~Refreshing'
              PROVE  \E k \in DOMAIN events' :
                        k > i /\ events'[k].kind = "matchesChanged"
  BY DEF BlankingIsRepaired
<1>0. events \in Seq(Event)
  BY DEF TypeOK
<1>1. i \in 1..Len(events) /\ events[i] = events'[i]
  BY <1>0
<1>2. CASE e.kind = "matchesChanged"
  <2>1. /\ Len(events) + 1 \in DOMAIN events' /\ Len(events) + 1 > i
        /\ events'[Len(events) + 1] = e
    BY <1>0, <1>1
  <2>. QED  BY <1>2, <2>1
<1>3. CASE e.kind # "matchesChanged"
  <2>1. PICK k \in 1..Len(events) : k > i /\ events[k].kind = "matchesChanged"
    BY <1>0, <1>1, <1>3 DEF BlankingIsRepaired
  <2>2. k \in DOMAIN events' /\ events'[k] = events[k]
    BY <1>0, <2>1
  <2>. QED  BY <2>1, <2>2
<1>. QED  BY <1>2, <1>3

\* Taking an event of another kind, or appending one, leaves a queued
\* onMatchesChanged in the queue.
LEMMA QueuedStays ==
    ASSUME TypeOK, EventQueued("matchesChanged"),
           \/ events # <<>> /\ Head(events).kind # "matchesChanged"
                 /\ events' = Tail(events)
           \/ \E e \in Event : events' = Append(events, e)
           \/ UNCHANGED events
    PROVE  EventQueued("matchesChanged")'
<1>0. events \in Seq(Event)
  BY DEF TypeOK
<1>1. PICK i \in DOMAIN events : events[i].kind = "matchesChanged"
  BY DEF EventQueued
<1>2. CASE events # <<>> /\ Head(events).kind # "matchesChanged"
              /\ events' = Tail(events)
  BY <1>0, <1>1, <1>2, KeptInTail DEF EventQueued
<1>3. ASSUME NEW e \in Event, events' = Append(events, e)
      PROVE  EventQueued("matchesChanged")'
  BY <1>0, <1>1, <1>3, KeptByAppend DEF EventQueued
<1>. QED  BY <1>1, <1>2, <1>3 DEF EventQueued

LEMMA DirtyUser == DirtyInv /\ UserAction => DirtyIsScheduled' /\ BlankingIsRepaired'
<1>. SUFFICES ASSUME DirtyInv, UserAction
              PROVE  DirtyIsScheduled' /\ BlankingIsRepaired'
  OBVIOUS
<1>0. TypeOK /\ DirtyIsScheduled /\ BlankingIsRepaired
  BY DEF DirtyInv
<1>1. CASE \/ \E t \in BOOLEAN : LaunchUnknownRunner(t)
           \/ \E m \in Runners \cup {AllRunners} : LaunchEmpty(m)
           \/ Reset
  <2>1. heap'[d'].matches = {} /\ ScheduleOnReset(typed')
    BY <1>0, <1>1, ClientResets
  <2>. QED
    BY <2>1 DEF ScheduleOnReset, ScheduleWithoutQuery, DirtyIsScheduled,
                BlankingIsRepaired
<1>2. ASSUME NEW q \in Queries, NEW m \in Runners \cup {AllRunners},
             NEW now \in Stamps, LaunchNew(q, m, now)
      PROVE  DirtyIsScheduled' /\ BlankingIsRepaired'
  <2>1. heap'[d'].matches = {}
    BY <1>0, <1>2, ClientLaunches
  <2>2. timer'
    BY <1>2 DEF LaunchNew, ScheduleOnReset, ScheduleWithoutQuery
  <2>. QED  BY <2>1, <2>2 DEF DirtyIsScheduled, BlankingIsRepaired
<1>3. CASE LaunchSame \/ MatchSessionComplete
  BY <1>0, <1>3 DEF LaunchSame, MatchSessionComplete, DirtyIsScheduled,
                    BlankingIsRepaired, EventQueued, Refreshing
<1>4. ASSUME NEW r \in Reloading, ReloadConfig(r)
      PROVE  DirtyIsScheduled' /\ BlankingIsRepaired'
  BY <1>0, <1>4 DEF ReloadConfig, DirtyIsScheduled, BlankingIsRepaired,
                    EventQueued, Refreshing
<1>. QED  BY <1>1, <1>2, <1>3, <1>4 DEF UserAction

LEMMA BlankingManager ==
    DirtyInv /\ (TimerFires \/ ManagerEvent) => BlankingIsRepaired'
<1>. SUFFICES ASSUME DirtyInv, TimerFires \/ ManagerEvent
              PROVE  BlankingIsRepaired'
  OBVIOUS
<1>0. TypeOK /\ BlankingIsRepaired
  BY DEF DirtyInv
<1>1. UNCHANGED <<heap, d, at, held>>
  BY ManagerHeap
<1>2. CASE TimerFires
  BY <1>0, <1>1, <1>2 DEF TimerFires, BlankingIsRepaired, Refreshing
<1>3. CASE ManagerEvent
  <2>1. events # <<>> /\ events' = Tail(events)
    BY <1>3 DEF ManagerEvent, OnMatchesChanged, OnJobFinished, OnMatchingResumed,
                OnNothingToRun, OnQueryFinished, NextEvent
  <2>. QED  BY <1>0, <1>1, <2>1, BlankingTail
<1>. QED  BY <1>2, <1>3

LEMMA DirtyManager ==
    DirtyInv /\ (TimerFires \/ ManagerEvent) => DirtyIsScheduled'
<1>. SUFFICES ASSUME DirtyInv, TimerFires \/ ManagerEvent
              PROVE  DirtyIsScheduled'
  OBVIOUS
<1>0. TypeOK /\ DirtyIsScheduled /\ BlankingIsRepaired
  BY DEF DirtyInv
<1>1. UNCHANGED <<heap, d, at, held>>
  BY ManagerHeap
<1>2. CASE TimerFires
  BY <1>1, <1>2 DEF TimerFires, DirtyIsScheduled
<1>4. CASE OnMatchesChanged
  BY <1>1, <1>4 DEF OnMatchesChanged, ScheduleWithoutQuery, DirtyIsScheduled
<1>5. ASSUME events # <<>> /\ Head(events).kind # "matchesChanged",
             events' = Tail(events), UNCHANGED <<timer, shown>>
      PROVE  DirtyIsScheduled'
  BY <1>0, <1>1, <1>5, QueuedStays DEF DirtyIsScheduled
<1>6. ASSUME events # <<>> /\ Head(events).kind # "matchesChanged",
             events' = Tail(events), NEW job, JobFinished(job)
      PROVE  DirtyIsScheduled'
  <2>1. \/ UNCHANGED <<timer, shown>>
        \/ shown' = heap[d].matches
        \/ ~timer /\ UNCHANGED shown
    BY <1>6, JobFinishedDisplay
  <2>2. CASE shown' = heap[d].matches
    BY <1>1, <2>2 DEF DirtyIsScheduled
  <2>3. CASE ~timer /\ UNCHANGED shown
    BY <1>0, <1>1, <1>6, <2>3, QueuedStays DEF DirtyIsScheduled
  <2>. QED  BY <1>5, <1>6, <2>1, <2>2, <2>3
<1>7. CASE OnJobFinished
  BY <1>6, <1>7 DEF OnJobFinished, NextEvent
<1>8. CASE OnMatchingResumed
  BY <1>5, <1>6, <1>8 DEF OnMatchingResumed, NextEvent
<1>9. CASE OnNothingToRun
  <2>0. events \in Seq(Event)
    BY <1>0 DEF TypeOK
  <2>1. /\ events # <<>> /\ events[1].kind = "nothingToRun" /\ 1 \in DOMAIN events
        /\ events' = Tail(events) /\ shown' = {}
    BY <1>9, <2>0 DEF OnNothingToRun, NextEvent
  <2>2. CASE heap[d].matches = {}
    BY <1>1, <2>1, <2>2 DEF DirtyIsScheduled
  <2>3. CASE Refreshing
    BY <1>1, <2>3 DEF Refreshing, DirtyIsScheduled
  <2>4. ASSUME NEW k \in DOMAIN events, k > 1, events[k].kind = "matchesChanged"
        PROVE  DirtyIsScheduled'
    <3>1. k - 1 \in DOMAIN Tail(events) /\ Tail(events)[k - 1] = events[k]
      BY <2>0, <2>1, <2>4
    <3>2. EventQueued("matchesChanged")'
      BY <2>1, <2>4, <3>1 DEF EventQueued
    <3>. QED  BY <3>2 DEF DirtyIsScheduled
  <2>. QED  BY <1>0, <2>1, <2>2, <2>3, <2>4 DEF BlankingIsRepaired
<1>10. CASE OnQueryFinished
  BY <1>5, <1>10 DEF OnQueryFinished, NextEvent
<1>. QED  BY <1>2, <1>4, <1>7, <1>8, <1>9, <1>10 DEF ManagerEvent

\* suspendMatching posts nothing or a matchingResumed.
LEMMA SuspendQueue ==
    ASSUME NEW r \in Runners, NEW suspend \in BOOLEAN, SuspendMatching(r, suspend)
    PROVE  \/ UNCHANGED events
           \/ \E e \in Event : e.kind = "resumed" /\ events' = Append(events, e)
BY EventTypes DEF SuspendMatching

\* A runner's step other than addMatches' appending: it finds nothing, posts at
\* most one event and only leaves "added" by posting onMatchesChanged.
LEMMA RunnerQueue ==
    ASSUME TypeOK, NEW r \in Runners, RunnerStep(r), ~AppendMatches(r)
    PROVE  /\ heap'[d'].matches = heap[d].matches /\ UNCHANGED <<d, timer, shown>>
           /\ \/ UNCHANGED events /\ (Refreshing => Refreshing')
              \/ \E e \in Event :
                    /\ e.kind # "nothingToRun" /\ events' = Append(events, e)
                    /\ Refreshing => Refreshing' \/ e.kind = "matchesChanged"
<1>. DEFINE Goal == \/ UNCHANGED events /\ (Refreshing => Refreshing')
                    \/ \E e \in Event :
                          /\ e.kind # "nothingToRun" /\ events' = Append(events, e)
                          /\ Refreshing => Refreshing' \/ e.kind = "matchesChanged"
<1>1. UNCHANGED <<d, timer, shown>>
  BY RunnerHeap
<1>2. heap'[d].matches = heap[d].matches
  <2>1. CASE UNCHANGED heap
    BY <2>1
  <2>2. CASE EndMatch(r)
    BY <2>2 DEF EndMatch, TypeOK
  <2>. QED
    BY <2>1, <2>2 DEF RunnerStep, RunInit, BeginReload, EndReload, StartMatch,
                      CheckValid, PostMatchesChanged
<1>3. ASSUME PostMatchesChanged(r) PROVE Goal
  BY <1>3, EventTypes DEF PostMatchesChanged
<1>4. ASSUME at[r] # "added",
             \A o \in Runners \ {r} : at'[o] = at[o] /\ held'[o] = held[o]
      PROVE  Refreshing => Refreshing'
  BY <1>1, <1>4 DEF Refreshing
<1>5. ASSUME StartMatch(r) \/ CheckValid(r) PROVE Goal
  <2>1. UNCHANGED events /\ at[r] # "added"
    BY <1>5 DEF StartMatch, CheckValid, NextCall
  <2>2. \A o \in Runners \ {r} : at'[o] = at[o] /\ held'[o] = held[o]
    BY <1>5 DEF StartMatch, CheckValid, Goto, TypeOK
  <2>. QED  BY <1>4, <2>1, <2>2
<1>6. ASSUME EndMatch(r) PROVE Goal
  <2>0. PICK c \in CtxIds : c = held[r]
    BY <1>6, HeldType DEF EndMatch, Matching
  <2>1. /\ events' = Append(events, [kind |-> "jobFinished", job |-> JobId(r, c)])
        /\ at[r] # "added"
    BY <1>6, <2>0 DEF EndMatch
  <2>2. [kind |-> "jobFinished", job |-> JobId(r, c)] \in Event
    BY ContextType, EventTypes
  <2>3. \A o \in Runners \ {r} : at'[o] = at[o] /\ held'[o] = held[o]
    BY <1>6 DEF EndMatch, Goto, TypeOK
  <2>. QED  BY <1>4, <2>1, <2>2, <2>3
<1>7. ASSUME \/ \E suspend \in BOOLEAN : RunInit(r, suspend)
             \/ BeginReload(r) \/ EndReload(r)
      PROVE  Goal
  <2>1. \E suspend \in BOOLEAN : SuspendMatching(r, suspend)
    BY <1>7 DEF RunInit, BeginReload, EndReload
  <2>2. at[r] # "added"
    BY <1>7 DEF RunInit, BeginReload, EndReload, NextCall
  <2>3. \A o \in Runners \ {r} : at'[o] = at[o] /\ held'[o] = held[o]
    BY <1>7 DEF RunInit, BeginReload, EndReload, Goto, TypeOK
  <2>. QED  BY <1>4, <2>1, <2>2, <2>3, SuspendQueue
<1>8. Goal
  BY <1>3, <1>5, <1>6, <1>7 DEF RunnerStep
<1>. QED  BY <1>1, <1>2, <1>8

\* The same steps keep both parts of the invariant.
LEMMA DirtyKept ==
    ASSUME TypeOK, DirtyIsScheduled, BlankingIsRepaired, UNCHANGED <<d, timer, shown>>,
           heap'[d'].matches = heap[d].matches,
           \/ UNCHANGED events /\ (Refreshing => Refreshing')
           \/ \E e \in Event :
                 /\ e.kind # "nothingToRun" /\ events' = Append(events, e)
                 /\ Refreshing => Refreshing' \/ e.kind = "matchesChanged"
    PROVE  DirtyIsScheduled' /\ BlankingIsRepaired'
<1>0. events \in Seq(Event)
  BY DEF TypeOK
<1>1. CASE UNCHANGED events /\ (Refreshing => Refreshing')
  <2>1. BlankingIsRepaired'
    BY <1>1 DEF BlankingIsRepaired
  <2>2. EventQueued("matchesChanged") => EventQueued("matchesChanged")'
    BY <1>1 DEF EventQueued
  <2>3. DirtyIsScheduled'
    BY <1>1, <2>2 DEF DirtyIsScheduled, Refreshing
  <2>. QED  BY <2>1, <2>3
<1>2. ASSUME NEW e \in Event, e.kind # "nothingToRun", events' = Append(events, e),
             Refreshing => Refreshing' \/ e.kind = "matchesChanged"
      PROVE  DirtyIsScheduled' /\ BlankingIsRepaired'
  <2>1. BlankingIsRepaired'
    BY <1>2, BlankingAppend
  <2>2. EventQueued("matchesChanged") => EventQueued("matchesChanged")'
    BY <1>2, QueuedStays
  <2>3. e.kind = "matchesChanged" => EventQueued("matchesChanged")'
    BY <1>0, <1>2, KeptByAppend DEF EventQueued
  <2>4. DirtyIsScheduled'
    BY <1>2, <2>2, <2>3 DEF DirtyIsScheduled, Refreshing
  <2>. QED  BY <2>1, <2>4
<1>. QED  BY <1>1, <1>2

\* addMatches appends: to the manager's context, and then a refresh is about to be
\* posted, or to one that was abandoned, and then nothing the manager sees changes.
LEMMA DirtyAppend ==
    ASSUME TypeOK, DirtyIsScheduled, BlankingIsRepaired,
           NEW r \in Runners, AppendMatches(r)
    PROVE  DirtyIsScheduled' /\ BlankingIsRepaired'
<1>0. PICK c \in CtxIds : c = held[r]
  BY HeldType DEF AppendMatches, Matching
<1>1. /\ at' = [at EXCEPT ![r] = "added"] /\ at[r] = "adding"
      /\ UNCHANGED <<d, events, timer, shown, held>>
      /\ heap' = [heap EXCEPT ![c].matches = @ \cup {[runner |-> r, term |-> told[r]]}]
  BY <1>0 DEF AppendMatches, Goto
<1>2. CASE c = d
  <2>1. Refreshing'
    BY <1>0, <1>1, <1>2 DEF Refreshing, TypeOK
  <2>2. DirtyIsScheduled'
    BY <2>1 DEF Refreshing, DirtyIsScheduled
  <2>3. BlankingIsRepaired'
    BY <2>1 DEF BlankingIsRepaired
  <2>. QED  BY <2>2, <2>3
<1>3. CASE c # d
  <2>1. heap'[d'].matches = heap[d].matches
    BY <1>1, <1>3 DEF TypeOK
  <2>2. Refreshing => Refreshing'
    BY <1>1 DEF Refreshing, TypeOK
  <2>. QED  BY <1>1, <2>1, <2>2, DirtyKept
<1>. QED  BY <1>2, <1>3

LEMMA DirtyStep == DirtyInv /\ [Next]_vars => DirtyInv'
<1>. SUFFICES ASSUME DirtyInv, [Next]_vars PROVE DirtyIsScheduled' /\ BlankingIsRepaired'
  BY NextTypes DEF DirtyInv
<1>0. TypeOK /\ DirtyIsScheduled /\ BlankingIsRepaired
  BY DEF DirtyInv
<1>1. CASE UserAction
  BY <1>1, DirtyUser
<1>2. CASE TimerFires \/ ManagerEvent
  BY <1>2, DirtyManager, BlankingManager
<1>3. ASSUME NEW r \in Suspending, PluginSuspend(r) \/ PluginResume(r)
      PROVE  DirtyIsScheduled' /\ BlankingIsRepaired'
  <2>1. r \in Runners
    BY ConstantsAssumption
  <2>2. \E suspend \in BOOLEAN : SuspendMatching(r, suspend)
    BY <1>3 DEF PluginSuspend, PluginResume
  <2>3. UNCHANGED <<heap, d, timer, shown, at, held>>
    BY <1>3 DEF PluginSuspend, PluginResume
  <2>4. Refreshing => Refreshing'
    BY <2>3 DEF Refreshing
  <2>5. \/ UNCHANGED events
        \/ \E e \in Event : e.kind = "resumed" /\ events' = Append(events, e)
    BY <2>1, <2>2, SuspendQueue
  <2>. QED  BY <1>0, <2>3, <2>4, <2>5, DirtyKept
<1>4. ASSUME NEW r \in Runners, RunnerStep(r)
      PROVE  DirtyIsScheduled' /\ BlankingIsRepaired'
  <2>1. CASE AppendMatches(r)
    BY <1>0, <2>1, DirtyAppend
  <2>2. CASE ~AppendMatches(r)
    BY <1>0, <1>4, <2>2, RunnerQueue, DirtyKept
  <2>. QED  BY <2>1, <2>2
<1>5. CASE UNCHANGED vars
  <2>1. UNCHANGED <<heap, d, timer, shown, at, held, events>>
    BY <1>5 DEF vars
  <2>2. Refreshing => Refreshing'
    BY <2>1 DEF Refreshing
  <2>. QED  BY <1>0, <2>1, <2>2, DirtyKept
<1>. QED  BY <1>1, <1>2, <1>3, <1>4, <1>5 DEF Next

\* Whenever the last list the client received is not the list of matches found, a
\* refresh is on the timer, in the queue, or about to be posted by a runner.
THEOREM DirtyIsScheduledTheorem == Spec => []DirtyIsScheduled
<1>1. DirtyInv => DirtyIsScheduled
  BY DEF DirtyInv
<1>. QED  BY <1>1, DirtyInit, DirtyStep, PTL DEF Spec

-----------------------------------------------------------------------------
(* Pending jobs *)

InEvents(e) == \E i \in DOMAIN events : events[i] = e
ResumedBy(r) == [kind |-> "resumed", runner |-> r]
FinishedJob(j) == [kind |-> "jobFinished", job |-> j]

\* The job that waits for r is open although r is not suspended (any more).
Awaits(r) == pending[r] # NoJob /\ pending[r] \in currentJobs /\ suspended[r] = "no"

Woken(r) == Answering(r) \/ InEvents(ResumedBy(r))

\* Jobs are only kept for runners that the mode has asked, so that
\* runnerMatchingResumed does not turn away the runner they wait for.
PendingModes == \A r \in Runners : pending[r] # NoJob => single \in {AllRunners, r}

WakeupInv == JobsInv /\ NoLostWakeup /\ PendingModes

LEMMA WakeupShape ==
    /\ NoLostWakeup <=> \A r \in Runners : Awaits(r) => Woken(r)
    /\ \A r \in Runners : Woken(r) <=> \/ Queued(r, d) \/ held[r] = d
                                       \/ InEvents(FinishedJob(JobId(r, d)))
                                       \/ InEvents(ResumedBy(r))
BY DEF NoLostWakeup, Awaits, Woken, Answering, InEvents, ResumedBy, FinishedJob

LEMMA WakeupInit == Init => WakeupInv
BY JobsInit DEF Init, WakeupInv, NoLostWakeup, PendingModes, NoPending

\* What a queue holds stays in it unless it is taken from its head.
LEMMA EventStays ==
    ASSUME TypeOK, NEW e, InEvents(e),
           \/ events # <<>> /\ Head(events) # e /\ events' = Tail(events)
           \/ \E x \in Event : events' = Append(events, x)
           \/ UNCHANGED events
    PROVE  InEvents(e)'
<1>0. events \in Seq(Event)
  BY DEF TypeOK
<1>1. CASE events # <<>> /\ Head(events) # e /\ events' = Tail(events)
  BY <1>0, <1>1, KeptInTail DEF InEvents
<1>2. ASSUME NEW x \in Event, events' = Append(events, x) PROVE InEvents(e)'
  BY <1>0, <1>2, KeptByAppend DEF InEvents
<1>. QED  BY <1>1, <1>2 DEF InEvents

LEMMA CallStays ==
    ASSUME TypeOK, NEW r \in Runners, NEW c, Queued(r, c),
           \/ inbox[r] # <<>> /\ Head(inbox[r]) # MatchCall(c)
                 /\ inbox'[r] = Tail(inbox[r])
           \/ \E x \in Call : inbox'[r] = Append(inbox[r], x)
           \/ inbox'[r] = inbox[r]
    PROVE  Queued(r, c)'
<1>0. inbox[r] \in Seq(Call)
  BY DEF TypeOK
<1>1. CASE inbox[r] # <<>> /\ Head(inbox[r]) # MatchCall(c)
              /\ inbox'[r] = Tail(inbox[r])
  <2>1. \E i \in DOMAIN Tail(inbox[r]) : Tail(inbox[r])[i] = MatchCall(c)
    BY <1>0, <1>1, KeptInTail DEF Queued
  <2>. QED  BY <1>1, <2>1 DEF Queued, MatchCall
<1>2. ASSUME NEW x \in Call, inbox'[r] = Append(inbox[r], x) PROVE Queued(r, c)'
  <2>1. \E i \in DOMAIN Append(inbox[r], x) : Append(inbox[r], x)[i] = MatchCall(c)
    BY <1>0, KeptByAppend DEF Queued
  <2>. QED  BY <1>2, <2>1 DEF Queued, MatchCall
<1>3. CASE inbox'[r] = inbox[r]
  BY <1>3 DEF Queued, MatchCall
<1>. QED  BY <1>1, <1>2, <1>3

LEMMA EventAdded ==
    ASSUME TypeOK, NEW e \in Event, events' = Append(events, e)
    PROVE  InEvents(e)'
<1>0. events \in Seq(Event)
  BY DEF TypeOK
<1>. QED  BY <1>0, KeptByAppend DEF InEvents

LEMMA CallAdded ==
    ASSUME TypeOK, NEW r \in Runners, NEW c \in CtxIds,
           inbox'[r] = Append(inbox[r], MatchCall(c))
    PROVE  Queued(r, c)'
<1>0. inbox[r] \in Seq(Call) /\ MatchCall(c) \in Call
  BY CallTypes DEF TypeOK
<1>1. \E i \in DOMAIN Append(inbox[r], MatchCall(c)) :
         Append(inbox[r], MatchCall(c))[i] = MatchCall(c)
  BY <1>0, KeptByAppend
<1>. QED  BY <1>1 DEF Queued, MatchCall

\* A runner stays woken in a step that leaves the manager's context its query and
\* that takes neither the runner's call nor its notices without replacing them.
LEMMA WokenStays ==
    ASSUME TypeOK, NEW r \in Runners, Woken(r), d' = d,
           heap'[d].term = heap[d].term, heap'[d].stamp = heap[d].stamp,
           NEW c, c = d, NEW j, j = JobId(r, d),
           Queued(r, c) => Queued(r, c)' \/ held'[r] = c,
           held[r] = c => held'[r] = c \/ InEvents(FinishedJob(j))',
           InEvents(FinishedJob(j)) => InEvents(FinishedJob(j))',
           InEvents(ResumedBy(r)) => InEvents(ResumedBy(r))'
    PROVE  Woken(r)'
<1>1. JobId(r, d)' = j /\ d' = c
  BY DEF JobId
<1>2. \/ Queued(r, c) \/ held[r] = c
      \/ InEvents(FinishedJob(j)) \/ InEvents(ResumedBy(r))
  BY WakeupShape
<1>3. \/ Queued(r, c)' \/ held'[r] = c
      \/ InEvents(FinishedJob(j))' \/ InEvents(ResumedBy(r))'
  BY <1>2
<1>4. CASE Queued(r, c)'
  BY <1>1, <1>4 DEF Woken, Answering, Queued, MatchCall
<1>5. CASE held'[r] = c
  BY <1>1, <1>5 DEF Woken, Answering
<1>6. CASE InEvents(FinishedJob(j))'
  BY <1>1, <1>6 DEF Woken, Answering, InEvents, FinishedJob
<1>7. CASE InEvents(ResumedBy(r))'
  BY <1>7 DEF Woken
<1>. QED  BY <1>3, <1>4, <1>5, <1>6, <1>7

\* The steps of runners and the suspension calls of plugins.
LEMMA RunnerWoken ==
    ASSUME TypeOK, NEW r \in Runners, RunnerStep(r), NEW o \in Runners, Woken(o)
    PROVE  Woken(o)'
<1>1. PICK c \in CtxIds : c = d
  BY DEF TypeOK
<1>2. PICK j : j = JobId(o, d)
  OBVIOUS
<1>3. d' = d /\ heap'[d].term = heap[d].term /\ heap'[d].stamp = heap[d].stamp
  BY RunnerHeap DEF TypeOK
<1>4. UNCHANGED events \/ \E x \in Event : events' = Append(events, x)
  <2>1. CASE AppendMatches(r)
    BY <2>1 DEF AppendMatches
  <2>. QED  BY <2>1, RunnerQueue
<1>5. InEvents(FinishedJob(j)) => InEvents(FinishedJob(j))'
  BY <1>4, EventStays DEF FinishedJob
<1>6. InEvents(ResumedBy(o)) => InEvents(ResumedBy(o))'
  BY <1>4, EventStays DEF ResumedBy
<1>7. Queued(o, c) => Queued(o, c)' \/ held'[o] = c
  <2>1. CASE o # r
    <3>1. inbox'[o] = inbox[o]
      BY <2>1 DEF RunnerStep, RunInit, BeginReload, EndReload, StartMatch, CheckValid,
                  AppendMatches, PostMatchesChanged, EndMatch, TakeCall, TypeOK
    <3>. QED  BY <3>1, CallStays
  <2>2. CASE o = r /\ StartMatch(r)
    <3>1. /\ inbox[r] # <<>> /\ Head(inbox[r]).op = "match"
          /\ held'[r] = Head(inbox[r]).ctx /\ inbox'[r] = Tail(inbox[r])
      BY <2>2 DEF StartMatch, NextCall, TakeCall, TypeOK
    <3>2. CASE Head(inbox[r]).ctx = c
      BY <2>2, <3>1, <3>2
    <3>3. CASE Head(inbox[r]) # MatchCall(c)
      BY <2>2, <3>1, <3>3, CallStays
    <3>. QED  BY <3>2, <3>3 DEF MatchCall
  <2>3. CASE o = r /\ BeginReload(r)
    <3>1. /\ inbox[r] # <<>> /\ Head(inbox[r]).op = "reload"
          /\ inbox'[r] = Tail(inbox[r])
      BY <2>3 DEF BeginReload, NextCall, TakeCall, TypeOK
    <3>2. Head(inbox[r]) # MatchCall(c)
      BY <3>1 DEF MatchCall
    <3>. QED  BY <2>3, <3>1, <3>2, CallStays
  <2>4. CASE o = r /\ ~StartMatch(r) /\ ~BeginReload(r)
    <3>1. inbox' = inbox
      BY <2>4 DEF RunnerStep, RunInit, EndReload, CheckValid, AppendMatches,
                  PostMatchesChanged, EndMatch
    <3>. QED  BY <3>1, CallStays
  <2>. QED  BY <2>1, <2>2, <2>3, <2>4
<1>8. held[o] = c => held'[o] = c \/ InEvents(FinishedJob(j))'
  <2>1. CASE EndMatch(r) /\ o = r /\ held[o] = c
    <3>1. /\ events' = Append(events, FinishedJob(j))
      BY <1>1, <1>2, <2>1 DEF EndMatch, FinishedJob
    <3>2. FinishedJob(j) \in Event
      BY <1>2, ContextType, EventTypes DEF FinishedJob, TypeOK
    <3>. QED  BY <3>1, <3>2, EventAdded
  <2>2. CASE EndMatch(r) /\ o # r
    BY <2>2 DEF EndMatch, TypeOK
  <2>3. CASE StartMatch(r) /\ held[o] = c
    <3>1. o # r
      BY <2>3, ConstantsAssumption DEF StartMatch, NextCall, Matching, TypeOK
    <3>. QED  BY <2>3, <3>1 DEF StartMatch, TypeOK
  <2>4. CASE ~EndMatch(r) /\ ~StartMatch(r)
    BY <2>4 DEF RunnerStep, RunInit, BeginReload, EndReload, CheckValid, AppendMatches,
                PostMatchesChanged
  <2>. QED  BY <2>1, <2>2, <2>3, <2>4
<1>. QED  BY <1>1, <1>2, <1>3, <1>5, <1>6, <1>7, <1>8, WokenStays

\* Steps that only append to queues.
LEMMA WokenAppend ==
    ASSUME TypeOK, NEW r \in Runners, Woken(r), UNCHANGED <<heap, d, held>>,
           UNCHANGED events \/ \E x \in Event : events' = Append(events, x),
           inbox'[r] = inbox[r] \/ \E x \in Call : inbox'[r] = Append(inbox[r], x)
    PROVE  Woken(r)'
<1>1. PICK c : c = d
  OBVIOUS
<1>2. PICK j : j = JobId(r, d)
  OBVIOUS
<1>3. Queued(r, c) => Queued(r, c)'
  BY CallStays
<1>4. InEvents(FinishedJob(j)) => InEvents(FinishedJob(j))'
  BY EventStays DEF FinishedJob
<1>5. InEvents(ResumedBy(r)) => InEvents(ResumedBy(r))'
  BY EventStays DEF ResumedBy
<1>. QED  BY <1>1, <1>2, <1>3, <1>4, <1>5, WokenStays

\* A handler of an event that is not a notice of this runner's.
LEMMA WokenTail ==
    ASSUME TypeOK, NEW r \in Runners, Woken(r), UNCHANGED <<heap, d, held>>,
           events # <<>>, events' = Tail(events),
           Head(events) # ResumedBy(r), Head(events) # FinishedJob(JobId(r, d)),
           inbox'[r] = inbox[r] \/ \E x \in Call : inbox'[r] = Append(inbox[r], x)
    PROVE  Woken(r)'
<1>1. PICK c : c = d
  OBVIOUS
<1>2. PICK j : j = JobId(r, d)
  OBVIOUS
<1>3. Queued(r, c) => Queued(r, c)'
  BY CallStays
<1>4. InEvents(FinishedJob(j)) => InEvents(FinishedJob(j))'
  BY <1>2, EventStays DEF FinishedJob
<1>5. InEvents(ResumedBy(r)) => InEvents(ResumedBy(r))'
  BY EventStays DEF ResumedBy
<1>. QED  BY <1>1, <1>2, <1>3, <1>4, <1>5, WokenStays

\* launchQuery only keeps a job pending for a runner it found suspended.
LEMMA WakeupUser == WakeupInv /\ UserAction => NoLostWakeup' /\ PendingModes'
<1>. SUFFICES ASSUME WakeupInv, UserAction PROVE NoLostWakeup' /\ PendingModes'
  OBVIOUS
<1>0. TypeOK /\ NoLostWakeup /\ PendingModes
  BY DEF WakeupInv, JobsInv
<1>1. CASE \/ \E t \in BOOLEAN : LaunchUnknownRunner(t)
           \/ \E m \in Runners \cup {AllRunners} : LaunchEmpty(m)
           \/ LaunchSame \/ MatchSessionComplete
  <2>1. pending' = NoPending
    BY <1>1 DEF LaunchUnknownRunner, LaunchEmpty, LaunchSame, MatchSessionComplete
  <2>. QED  BY <2>1 DEF NoPending, NoLostWakeup, PendingModes
<1>2. CASE Reset
  BY <1>0, <1>2 DEF Reset, NoLostWakeup, PendingModes
<1>3. ASSUME NEW q \in Queries, NEW m \in Runners \cup {AllRunners},
             NEW now \in Stamps, LaunchNew(q, m, now)
      PROVE  NoLostWakeup' /\ PendingModes'
  <2>1. /\ \A r \in Runners : pending'[r] # NoJob =>
              suspended[r] # "no" /\ (m = AllRunners \/ m = r)
        /\ suspended' = suspended /\ single' = m
    BY <1>3 DEF LaunchNew
  <2>2. NoLostWakeup'
    BY <2>1 DEF NoLostWakeup
  <2>3. PendingModes'
    BY <2>1 DEF PendingModes
  <2>. QED  BY <2>2, <2>3
<1>4. ASSUME NEW r \in Reloading, ReloadConfig(r)
      PROVE  NoLostWakeup' /\ PendingModes'
  <2>1. /\ UNCHANGED <<heap, d, held, events, pending, currentJobs, suspended, single>>
        /\ \A o \in Runners : inbox'[o] = inbox[o]
              \/ \E x \in Call : inbox'[o] = Append(inbox[o], x)
    BY <1>0, <1>4, CallTypes, ConstantsAssumption DEF ReloadConfig, TypeOK
  <2>2. \A o \in Runners : Awaits(o)' => Awaits(o)
    BY <2>1 DEF Awaits
  <2>3. \A o \in Runners : Woken(o) => Woken(o)'
    BY <1>0, <2>1, WokenAppend
  <2>4. NoLostWakeup'
    BY <1>0, <2>2, <2>3, WakeupShape DEF NoLostWakeup, Awaits, Woken, InEvents,
                                         ResumedBy
  <2>5. PendingModes'
    BY <1>0, <2>1 DEF PendingModes
  <2>. QED  BY <2>4, <2>5
<1>. QED  BY <1>1, <1>2, <1>3, <1>4 DEF UserAction

\* What a step has to show for each runner.
LEMMA WakeupByRunner ==
    ASSUME NoLostWakeup,
           \A r \in Runners : Awaits(r)' => Woken(r)' \/ (Awaits(r) /\ (Woken(r) => Woken(r)'))
    PROVE  NoLostWakeup'
<1>1. \A r \in Runners : Awaits(r) => Woken(r)
  BY WakeupShape
<1>2. \A r \in Runners : Awaits(r)' => Woken(r)'
  BY <1>1
<1>. QED
  BY <1>2 DEF NoLostWakeup, Awaits, Woken, InEvents, ResumedBy

\* A job that is open is gone after the end of it was handled.
LEMMA JobGone ==
    ASSUME NEW job, JobFinished(job)
    PROVE  job \notin currentJobs' /\ currentJobs' \subseteq currentJobs
BY DEF JobFinished

\* The job a runner waits with is the one it reports.
LEMMA AwaitedJob ==
    ASSUME JobsInv, NEW r \in Runners, pending[r] # NoJob, pending[r] \in currentJobs
    PROVE  pending[r] = JobId(r, d)
BY DEF JobsInv, JobsBelongToQuery

\* Events and the timer: the notice of a resumed runner leads to a call or to the
\* end of the job, the answer to a call to the end of the job.
LEMMA WakeupManager ==
    WakeupInv /\ (TimerFires \/ ManagerEvent) => NoLostWakeup'
<1>. SUFFICES ASSUME WakeupInv, TimerFires \/ ManagerEvent,
                     NEW r \in Runners, Awaits(r)'
              PROVE  Woken(r)' \/ (Awaits(r) /\ (Woken(r) => Woken(r)'))
  BY WakeupByRunner DEF WakeupInv
<1>0. TypeOK /\ JobsInv /\ PendingModes
  BY DEF WakeupInv, JobsInv
<1>1. UNCHANGED <<heap, d, at, held>>
  BY ManagerHeap
<1>2. UNCHANGED <<pending, suspended>>
  BY DEF TimerFires, ManagerEvent, OnMatchesChanged, OnJobFinished, OnMatchingResumed,
         OnNothingToRun, OnQueryFinished
<1>3. CASE TimerFires
  <2>1. UNCHANGED <<events, inbox, currentJobs>>
    BY <1>3 DEF TimerFires
  <2>2. Awaits(r)
    BY <1>2, <2>1 DEF Awaits
  <2>. QED  BY <1>0, <1>1, <2>1, <2>2, WokenAppend
<1>4. CASE OnMatchesChanged \/ OnQueryFinished
  <2>1. /\ UNCHANGED <<inbox, currentJobs>> /\ events # <<>> /\ events' = Tail(events)
        /\ Head(events).kind \in {"matchesChanged", "queryFinished"}
    BY <1>4 DEF OnMatchesChanged, OnQueryFinished, NextEvent
  <2>2. Awaits(r)
    BY <1>2, <2>1 DEF Awaits
  <2>3. Head(events) # ResumedBy(r) /\ Head(events) # FinishedJob(JobId(r, d))
    BY <2>1 DEF ResumedBy, FinishedJob
  <2>. QED  BY <1>0, <1>1, <2>1, <2>2, <2>3, WokenTail
<1>5. CASE OnNothingToRun
  BY <1>5 DEF OnNothingToRun, Awaits
<1>6. CASE OnJobFinished
  <2>1. /\ UNCHANGED inbox /\ events # <<>> /\ events' = Tail(events)
        /\ Head(events).kind = "jobFinished" /\ JobFinished(Head(events).job)
    BY <1>6 DEF OnJobFinished, NextEvent
  <2>2. /\ Head(events).job \notin currentJobs' /\ currentJobs' \subseteq currentJobs
    BY <2>1, JobGone
  <2>3. Awaits(r) /\ pending[r] # Head(events).job
    BY <1>2, <2>2 DEF Awaits
  <2>4. JobId(r, d) # Head(events).job
    BY <1>0, <2>3, AwaitedJob DEF Awaits
  <2>5. Head(events) # ResumedBy(r) /\ Head(events) # FinishedJob(JobId(r, d))
    BY <2>1, <2>4 DEF ResumedBy, FinishedJob
  <2>. QED  BY <1>0, <1>1, <2>1, <2>3, <2>5, WokenTail
<1>7. CASE OnMatchingResumed
  <2>. DEFINE o == Head(events).runner
  <2>1. /\ events # <<>> /\ events' = Tail(events) /\ Head(events).kind = "resumed"
        /\ UNCHANGED single
    BY <1>7 DEF OnMatchingResumed, NextEvent
  <2>2. o \in Runners
    BY <1>0, <2>1, HeadOfEvents DEF TypeOK
  <2>3. Head(events) # FinishedJob(JobId(r, d))
    BY <2>1 DEF FinishedJob
  <2>4. \/ Ignores(o) /\ UNCHANGED <<currentJobs, inbox>>
        \/ /\ inbox' = [inbox EXCEPT ![o] = Append(@, MatchCall(d))]
           /\ UNCHANGED currentJobs
        \/ JobFinished(pending[o]) /\ UNCHANGED inbox
    BY <1>7 DEF OnMatchingResumed
  <2>5. Awaits(r)
    BY <1>2, <2>4, JobGone DEF Awaits
  <2>6. CASE o # r
    <3>1. Head(events) # ResumedBy(r)
      BY <2>6 DEF ResumedBy
    <3>2. inbox'[r] = inbox[r]
      BY <1>0, <2>2, <2>4, <2>6 DEF TypeOK
    <3>. QED  BY <1>0, <1>1, <2>1, <2>3, <2>5, <3>1, <3>2, WokenTail
  <2>7. CASE o = r
    <3>1. ~Ignores(r)
      BY <1>0, <2>5 DEF Ignores, PendingModes, Awaits
    <3>2. ~JobFinished(pending[r])
      BY <1>2, JobGone DEF Awaits
    <3>3. inbox' = [inbox EXCEPT ![r] = Append(@, MatchCall(d))]
      BY <2>4, <2>7, <3>1, <3>2
    <3>4. PICK c \in CtxIds : c = d
      BY <1>0 DEF TypeOK
    <3>5. inbox'[r] = Append(inbox[r], MatchCall(c))
      BY <1>0, <3>3, <3>4 DEF TypeOK
    <3>6. Queued(r, c)'
      BY <1>0, <3>5, CallAdded
    <3>7. Woken(r)'
      BY <1>1, <3>4, <3>6 DEF Woken, Answering, Queued, MatchCall
    <3>. QED  BY <3>7
  <2>. QED  BY <2>6, <2>7
<1>. QED  BY <1>3, <1>4, <1>5, <1>6, <1>7 DEF ManagerEvent

\* suspendMatching: a runner that is not suspended afterwards and was before has
\* its notice queued; other runners keep theirs.
LEMMA SuspensionWakes ==
    ASSUME TypeOK, NEW r \in Runners, NEW suspend \in BOOLEAN,
           SuspendMatching(r, suspend), NEW o \in Runners, suspended'[o] = "no"
    PROVE  suspended[o] = "no" \/ InEvents(ResumedBy(o))'
<1>1. CASE o # r \/ suspend
  BY <1>1 DEF SuspendMatching, TypeOK
<1>2. CASE o = r /\ ~suspend /\ suspended[r] # "no"
  <2>1. events' = Append(events, ResumedBy(o))
    BY <1>2 DEF SuspendMatching, ResumedBy
  <2>2. ResumedBy(o) \in Event
    BY EventTypes DEF ResumedBy
  <2>. QED  BY <2>1, <2>2, EventAdded
<1>. QED  BY <1>1, <1>2

LEMMA WakeupStep == WakeupInv /\ [Next]_vars => WakeupInv'
<1>. SUFFICES ASSUME WakeupInv, [Next]_vars PROVE NoLostWakeup' /\ PendingModes'
  BY JobsStep DEF WakeupInv
<1>0. TypeOK /\ NoLostWakeup /\ PendingModes
  BY DEF WakeupInv, JobsInv
<1>1. CASE UserAction
  BY <1>1, WakeupUser
<1>2. CASE TimerFires \/ ManagerEvent
  <2>1. UNCHANGED <<pending, single>>
    BY <1>2 DEF TimerFires, ManagerEvent, OnMatchesChanged, OnJobFinished,
                OnMatchingResumed, OnNothingToRun, OnQueryFinished
  <2>2. PendingModes'
    BY <1>0, <2>1 DEF PendingModes
  <2>. QED  BY <1>2, <2>2, WakeupManager
<1>3. ASSUME NEW r \in Suspending, PluginSuspend(r) \/ PluginResume(r)
      PROVE  NoLostWakeup' /\ PendingModes'
  <2>1. /\ \E suspend \in BOOLEAN : SuspendMatching(r, suspend)
        /\ UNCHANGED <<heap, d, held, inbox, pending, single, currentJobs>>
    BY <1>3 DEF PluginSuspend, PluginResume
  <2>2. r \in Runners
    BY ConstantsAssumption
  <2>3. ASSUME NEW o \in Runners, Awaits(o)'
        PROVE  Woken(o)' \/ (Awaits(o) /\ (Woken(o) => Woken(o)'))
    <3>1. suspended[o] = "no" \/ InEvents(ResumedBy(o))'
      BY <1>0, <2>1, <2>2, <2>3, SuspensionWakes DEF Awaits
    <3>2. CASE InEvents(ResumedBy(o))'
      BY <3>2 DEF Woken
    <3>3. CASE suspended[o] = "no"
      <4>1. Awaits(o)
        BY <2>1, <2>3, <3>3 DEF Awaits
      <4>2. UNCHANGED events \/ \E x \in Event : events' = Append(events, x)
        BY <2>1, <2>2, SuspendQueue
      <4>3. Woken(o) => Woken(o)'
        BY <1>0, <2>1, <4>2, WokenAppend
      <4>. QED  BY <4>1, <4>3
    <3>. QED  BY <3>1, <3>2, <3>3
  <2>4. NoLostWakeup'
    BY <1>0, <2>3, WakeupByRunner
  <2>5. PendingModes'
    BY <1>0, <2>1 DEF PendingModes
  <2>. QED  BY <2>4, <2>5
<1>4. ASSUME NEW r \in Runners, RunnerStep(r)
      PROVE  NoLostWakeup' /\ PendingModes'
  <2>1. UNCHANGED <<single, currentJobs, pending>>
    BY <1>0, <1>4, RunnerHeap
  <2>2. \/ \E suspend \in BOOLEAN : SuspendMatching(r, suspend)
        \/ UNCHANGED suspended
    BY <1>4 DEF RunnerStep, RunInit, BeginReload, EndReload, StartMatch, CheckValid,
                AppendMatches, PostMatchesChanged, EndMatch
  <2>3. ASSUME NEW o \in Runners, Awaits(o)'
        PROVE  Woken(o)' \/ (Awaits(o) /\ (Woken(o) => Woken(o)'))
    <3>1. suspended[o] = "no" \/ InEvents(ResumedBy(o))'
      BY <1>0, <2>2, <2>3, SuspensionWakes DEF Awaits
    <3>2. CASE InEvents(ResumedBy(o))'
      BY <3>2 DEF Woken
    <3>3. CASE suspended[o] = "no"
      <4>1. Awaits(o)
        BY <2>1, <2>3, <3>3 DEF Awaits
      <4>2. Woken(o) => Woken(o)'
        BY <1>0, <1>4, RunnerWoken
      <4>. QED  BY <4>1, <4>2
    <3>. QED  BY <3>1, <3>2, <3>3
  <2>4. NoLostWakeup'
    BY <1>0, <2>3, WakeupByRunner
  <2>5. PendingModes'
    BY <1>0, <2>1 DEF PendingModes
  <2>. QED  BY <2>4, <2>5
<1>5. CASE UNCHANGED vars
  <2>1. UNCHANGED <<heap, d, held, inbox, events, suspended, pending, single,
                    currentJobs>>
    BY <1>5 DEF vars
  <2>2. \A o \in Runners : Awaits(o)' => Awaits(o)
    BY <2>1 DEF Awaits
  <2>3. \A o \in Runners : Woken(o) => Woken(o)'
    BY <1>0, <2>1, WokenAppend
  <2>4. NoLostWakeup'
    BY <1>0, <2>2, <2>3, WakeupByRunner
  <2>5. PendingModes'
    BY <1>0, <2>1 DEF PendingModes
  <2>. QED  BY <2>4, <2>5
<1>. QED  BY <1>1, <1>2, <1>3, <1>4, <1>5 DEF Next

\* No pending job of a runner that resumed is forgotten: the runner has its call,
\* or its answer or the notice that it resumed is in the queue, in whichever order
\* the runner's resumption and launchQuery's look at isMatchingSuspended come.
THEOREM NoLostWakeupTheorem == Spec => []NoLostWakeup
<1>1. WakeupInv => NoLostWakeup
  BY DEF WakeupInv
<1>. QED  BY <1>1, WakeupInit, WakeupStep, PTL DEF Spec

=============================================================================
