------------------------ MODULE QueryLifecycleProofs ------------------------
(***************************************************************************)
(* Proofs about QueryLifecycle, for any number of runners, queries,        *)
(* timestamps and contexts and any queue bounds.                           *)
(***************************************************************************)
EXTENDS QueryLifecycle, TLAPS

USE DEF managerVars, displayVars, threadVars

\* The events that actions post are events.
LEMMA EventTypes ==
    /\ [kind |-> "matchesChanged"] \in Event
    /\ [kind |-> "nothingToRun"] \in Event
    /\ [kind |-> "queryFinished"] \in Event
    /\ \A r \in Runners : [kind |-> "resumed", runner |-> r] \in Event
    /\ \A j \in Job : [kind |-> "jobFinished", job |-> j] \in Event
BY DEF Event

\* The calls that actions post are calls.
LEMMA CallTypes ==
    /\ [op |-> "reload"] \in Call
    /\ \A c \in CtxIds : MatchCall(c) \in Call
BY DEF Call, MatchCall

LEMMA HeadOfCalls ==
    ASSUME NEW s \in Seq(Call), s # <<>>
    PROVE  /\ Tail(s) \in Seq(Call)
           /\ Head(s) \in Call
           /\ Head(s).op = "match" => Head(s).ctx \in CtxIds
<1>1. Head(s) \in Call /\ Tail(s) \in Seq(Call)
  OBVIOUS
<1>. QED  BY <1>1 DEF Call

LEMMA HeadOfEvents ==
    ASSUME NEW s \in Seq(Event), s # <<>>
    PROVE  /\ Tail(s) \in Seq(Event)
           /\ Head(s) \in Event
           /\ Head(s).kind = "resumed" => Head(s).runner \in Runners
           /\ Head(s).kind = "jobFinished" => Head(s).job \in Job
<1>1. Head(s) \in Event /\ Tail(s) \in Seq(Event)
  OBVIOUS
<1>. QED  BY <1>1 DEF Event

\* A reset leads to a context of the heap and leaves a heap of contexts.
LEMMA ResetType ==
    ASSUME TypeOK, NEW c \in Detached, NEW q \in Terms,
           NEW s \in Stamps \cup {NoStamp}, ResetTo(c, q, s)
    PROVE  /\ c \in CtxIds
           /\ d' \in CtxIds
           /\ heap' \in [CtxIds -> Context]
           /\ d' = c
<1>1. c \in CtxIds
  BY DEF Detached, TypeOK
<1>2. [valid |-> TRUE, term |-> q, stamp |-> s, matches |-> {}] \in Context
  BY DEF Context
<1>3. [heap[d] EXCEPT !.valid = FALSE] \in Context
  BY DEF TypeOK, Context
<1>4. heap' = [[heap EXCEPT ![d] = [heap[d] EXCEPT !.valid = FALSE]]
                   EXCEPT ![c] = [valid |-> TRUE, term |-> q, stamp |-> s, matches |-> {}]]
  BY DEF ResetTo, TypeOK
<1>. QED  BY <1>1, <1>2, <1>3, <1>4 DEF TypeOK, ResetTo

\* suspendMatching sets the flag and at most posts an event.
LEMMA SuspendType ==
    ASSUME TypeOK, NEW r \in Runners, NEW suspend \in BOOLEAN,
           SuspendMatching(r, suspend)
    PROVE  /\ suspended' \in [Runners -> {"unset", "yes", "no"}]
           /\ events' \in Seq(Event)
BY EventTypes DEF SuspendMatching, TypeOK

\* The end of a job changes the job list and the display within their types.
LEMMA JobFinishedType ==
    ASSUME TypeOK, NEW job, JobFinished(job)
    PROVE  /\ currentJobs' \subseteq Job
           /\ querying' \in BOOLEAN /\ timer' \in BOOLEAN
           /\ shown' \subseteq Match
<1>1. heap[d].matches \subseteq Match
  BY DEF TypeOK, Context
<1>. QED  BY <1>1 DEF JobFinished, TypeOK

LEMMA ContextType ==
    ASSUME TypeOK, NEW c \in CtxIds
    PROVE  /\ heap[c] \in Context
           /\ heap[c].valid \in BOOLEAN /\ heap[c].term \in Terms
           /\ heap[c].stamp \in Stamps \cup {NoStamp}
           /\ heap[c].matches \subseteq Match
           /\ \A r \in Runners : JobId(r, c) \in Job
BY DEF TypeOK, Context, JobId, Job

\* A runner in one of the phases of matchInternal has a copy of a context.
LEMMA HeldType ==
    ASSUME TypeOK, NEW r \in Runners, at[r] \in Matching
    PROVE  held[r] \in CtxIds
BY DEF TypeOK

LEMMA NoPendingType == NoPending \in [Runners -> Job \cup {NoJob}]
BY DEF NoPending

LEMMA InitTypes == Init => TypeOK
<1>1. Blank \in Context
  BY DEF Blank, Context, Terms
<1>2. <<>> \in Seq(Event) /\ <<>> \in Seq(Call)
  OBVIOUS
<1>. SUFFICES ASSUME Init PROVE TypeOK
  OBVIOUS
<1>3. heap \in [CtxIds -> Context] /\ d \in CtxIds /\ told \in [Runners -> Terms]
  BY <1>1 DEF Init, Terms
<1>4. events \in Seq(Event) /\ inbox \in [Runners -> Seq(Call)]
  BY <1>2 DEF Init
<1>5. /\ at \in [Runners -> Places] /\ held \in [Runners -> CtxIds \cup {NoCtx}]
      /\ \A r \in Runners : held[r] = NoCtx <=> at[r] \notin Matching
  BY DEF Init, Places, Matching
<1>6. /\ single \in Modes /\ typed \in BOOLEAN /\ currentJobs \subseteq Job
      /\ pending \in [Runners -> Job \cup {NoJob}]
      /\ querying \in BOOLEAN /\ timer \in BOOLEAN /\ shown \subseteq Match
      /\ suspended \in [Runners -> {"unset", "yes", "no"}]
  BY NoPendingType DEF Init, Modes
<1>. QED  BY <1>3, <1>4, <1>5, <1>6 DEF TypeOK

LEMMA UserTypes == TypeOK /\ UserAction => TypeOK'
<1>. SUFFICES ASSUME TypeOK, UserAction PROVE TypeOK'
  OBVIOUS
<1>. USE NoPendingType
<1>1. ASSUME NEW t \in BOOLEAN, LaunchUnknownRunner(t) PROVE TypeOK'
  <2>1. PICK c \in Detached : ResetTo(c, NoTerm, StampAfterReset(c))
    BY <1>1 DEF LaunchUnknownRunner
  <2>2. StampAfterReset(c) \in Stamps \cup {NoStamp} /\ NoTerm \in Terms
    BY ContextType DEF StampAfterReset, TypeOK, Terms
  <2>3. d' \in CtxIds /\ heap' \in [CtxIds -> Context]
    BY <2>1, <2>2, ResetType
  <2>. QED  BY <1>1, <2>3 DEF LaunchUnknownRunner, ScheduleOnReset, ScheduleWithoutQuery, TypeOK, Modes
<1>2. ASSUME NEW mode \in Runners \cup {AllRunners}, LaunchEmpty(mode) PROVE TypeOK'
  <2>1. PICK c \in Detached : ResetTo(c, NoTerm, StampAfterReset(c))
    BY <1>2 DEF LaunchEmpty
  <2>2. StampAfterReset(c) \in Stamps \cup {NoStamp} /\ NoTerm \in Terms
    BY ContextType DEF StampAfterReset, TypeOK, Terms
  <2>3. d' \in CtxIds /\ heap' \in [CtxIds -> Context]
    BY <2>1, <2>2, ResetType
  <2>4. events' \in Seq(Event)
    BY <1>2, EventTypes DEF LaunchEmpty, TypeOK
  <2>. QED  BY <1>2, <2>3, <2>4 DEF LaunchEmpty, ScheduleOnReset, ScheduleWithoutQuery, TypeOK, Modes
<1>3. CASE LaunchSame
  BY <1>3 DEF LaunchSame, TypeOK
<1>4. ASSUME NEW q \in Queries, NEW mode \in Runners \cup {AllRunners},
             NEW now \in Stamps, LaunchNew(q, mode, now)
      PROVE  TypeOK'
  <2>. DEFINE job(r) == [runner |-> r, term |-> q, stamp |-> now]
              asked == IF mode = AllRunners THEN Runners ELSE {mode}
              waiting == {r \in asked : suspended[r] # "no"}
              started == {r \in asked \ waiting :
                            mode # AllRunners \/ <<r, q>> \notin Rejects}
  <2>1. PICK c \in Detached :
           /\ ResetTo(c, q, now)
           /\ inbox' = [r \in Runners |->
                 IF r \in started THEN Append(inbox[r], MatchCall(c)) ELSE inbox[r]]
    BY <1>4 DEF LaunchNew
  <2>2. c \in CtxIds /\ d' \in CtxIds /\ heap' \in [CtxIds -> Context]
    BY <2>1, ResetType DEF Terms
  <2>3. inbox' \in [Runners -> Seq(Call)]
    BY <2>1, <2>2, CallTypes DEF TypeOK
  <2>4. asked \subseteq Runners /\ \A r \in Runners : job(r) \in Job
    BY DEF Job, Terms
  <2>5. currentJobs' \subseteq Job /\ pending' \in [Runners -> Job \cup {NoJob}]
    BY <1>4, <2>4 DEF LaunchNew
  <2>6. events' \in Seq(Event)
    BY <1>4, EventTypes DEF LaunchNew, TypeOK
  <2>7. querying' \in BOOLEAN /\ typed' \in BOOLEAN /\ single' \in Modes
    BY <1>4 DEF LaunchNew, Modes
  <2>8. timer' \in BOOLEAN /\ shown' \subseteq Match
    BY <1>4 DEF LaunchNew, ScheduleOnReset, ScheduleWithoutQuery, TypeOK
  <2>. QED  BY <1>4, <2>2, <2>3, <2>5, <2>6, <2>7, <2>8 DEF LaunchNew, TypeOK
<1>5. CASE Reset
  <2>1. PICK c \in Detached : ResetTo(c, NoTerm, StampAfterReset(c))
    BY <1>5 DEF Reset
  <2>2. StampAfterReset(c) \in Stamps \cup {NoStamp} /\ NoTerm \in Terms
    BY ContextType DEF StampAfterReset, TypeOK, Terms
  <2>3. d' \in CtxIds /\ heap' \in [CtxIds -> Context]
    BY <2>1, <2>2, ResetType
  <2>. QED  BY <1>5, <2>3 DEF Reset, ScheduleOnReset, ScheduleWithoutQuery, TypeOK
<1>6. CASE MatchSessionComplete
  BY <1>6 DEF MatchSessionComplete, TypeOK
<1>7. ASSUME NEW r \in Reloading, ReloadConfig(r) PROVE TypeOK'
  BY <1>7, CallTypes, ConstantsAssumption DEF ReloadConfig, TypeOK
<1>. QED  BY <1>1, <1>2, <1>3, <1>4, <1>5, <1>6, <1>7 DEF UserAction

LEMMA ManagerTypes == TypeOK /\ (TimerFires \/ ManagerEvent) => TypeOK'
<1>. SUFFICES ASSUME TypeOK, TimerFires \/ ManagerEvent PROVE TypeOK'
  OBVIOUS
<1>0. heap[d].matches \subseteq Match
  BY ContextType DEF TypeOK
<1>1. CASE TimerFires
  BY <1>0, <1>1 DEF TimerFires, TypeOK
<1>2. CASE OnMatchesChanged
  <2>1. events' \in Seq(Event)
    BY <1>2, HeadOfEvents DEF OnMatchesChanged, NextEvent, TypeOK
  <2>2. timer' \in BOOLEAN /\ shown' \subseteq Match
    BY <1>0, <1>2 DEF OnMatchesChanged, ScheduleOnReset, ScheduleWithoutQuery, TypeOK
  <2>. QED  BY <1>2, <2>1, <2>2 DEF OnMatchesChanged, TypeOK
<1>3. CASE OnJobFinished
  <2>1. events' \in Seq(Event)
    BY <1>3, HeadOfEvents DEF OnJobFinished, NextEvent, TypeOK
  <2>2. JobFinished(Head(events).job)
    BY <1>3 DEF OnJobFinished
  <2>. QED  BY <1>3, <2>1, <2>2, JobFinishedType DEF OnJobFinished, TypeOK
<1>4. CASE OnMatchingResumed
  <2>. DEFINE r == Head(events).runner
  <2>1. events' \in Seq(Event) /\ r \in Runners
    BY <1>4, HeadOfEvents DEF OnMatchingResumed, NextEvent, TypeOK
  <2>2. \/ UNCHANGED <<currentJobs, querying, displayVars, inbox>>
        \/ /\ inbox' = [inbox EXCEPT ![r] = Append(@, MatchCall(d))]
           /\ UNCHANGED <<currentJobs, querying, displayVars>>
        \/ JobFinished(pending[r]) /\ UNCHANGED inbox
    BY <1>4 DEF OnMatchingResumed
  <2>3. inbox' \in [Runners -> Seq(Call)]
    <3>1. Append(inbox[r], MatchCall(d)) \in Seq(Call)
      BY <2>1, CallTypes DEF TypeOK
    <3>. QED  BY <2>1, <2>2, <3>1 DEF TypeOK
  <2>4. /\ currentJobs' \subseteq Job
        /\ querying' \in BOOLEAN /\ timer' \in BOOLEAN /\ shown' \subseteq Match
    BY <2>2, JobFinishedType DEF TypeOK
  <2>. QED  BY <1>4, <2>1, <2>3, <2>4 DEF OnMatchingResumed, TypeOK
<1>5. CASE OnNothingToRun
  <2>1. events' \in Seq(Event)
    BY <1>5, HeadOfEvents DEF OnNothingToRun, NextEvent, TypeOK
  <2>. QED  BY <1>5, <2>1 DEF OnNothingToRun, TypeOK
<1>6. CASE OnQueryFinished
  <2>1. events' \in Seq(Event)
    BY <1>6, HeadOfEvents DEF OnQueryFinished, NextEvent, TypeOK
  <2>. QED  BY <1>6, <2>1 DEF OnQueryFinished, TypeOK
<1>. QED  BY <1>1, <1>2, <1>3, <1>4, <1>5, <1>6 DEF ManagerEvent

\* What the thread of a runner does.
LEMMA RunnerTypes ==
    ASSUME TypeOK, NEW r \in Runners, RunnerStep(r)
    PROVE  TypeOK'
<1>0. /\ at[r] \in Places
      /\ {"idle", "match", "adding", "added", "matched"} \subseteq Places
      /\ {"reloading", "reloadingSuspended"} \subseteq Places
  BY DEF TypeOK, Places
<1>1. ASSUME NEW suspend \in BOOLEAN, RunInit(r, suspend) PROVE TypeOK'
  <2>1. suspended' \in [Runners -> {"unset", "yes", "no"}] /\ events' \in Seq(Event)
    BY <1>1, SuspendType DEF RunInit
  <2>. QED  BY <1>0, <1>1, <2>1 DEF RunInit, Goto, TypeOK, Matching
<1>2. CASE BeginReload(r)
  <2>1. suspended' \in [Runners -> {"unset", "yes", "no"}] /\ events' \in Seq(Event)
    BY <1>2, SuspendType DEF BeginReload
  <2>2. inbox' \in [Runners -> Seq(Call)]
    BY <1>2, HeadOfCalls DEF BeginReload, NextCall, TakeCall, TypeOK
  <2>. QED  BY <1>0, <1>2, <2>1, <2>2 DEF BeginReload, NextCall, Goto, TypeOK, Matching
<1>3. CASE EndReload(r)
  <2>1. suspended' \in [Runners -> {"unset", "yes", "no"}] /\ events' \in Seq(Event)
    BY <1>3, SuspendType DEF EndReload
  <2>. QED  BY <1>0, <1>3, <2>1 DEF EndReload, Goto, TypeOK, Matching
<1>4. CASE StartMatch(r)
  <2>. DEFINE c == Head(inbox[r]).ctx
  <2>1. c \in CtxIds /\ inbox' \in [Runners -> Seq(Call)]
    BY <1>4, HeadOfCalls DEF StartMatch, NextCall, TakeCall, TypeOK
  <2>2. told' \in [Runners -> Terms]
    BY <1>4, <2>1, ContextType DEF StartMatch, TypeOK
  <2>3. /\ held' = [held EXCEPT ![r] = c]
        /\ at' \in [Runners -> Places]
        /\ at' \in {[at EXCEPT ![r] = "match"], [at EXCEPT ![r] = "matched"]}
    BY <1>0, <1>4 DEF StartMatch, Goto, TypeOK
  <2>4. \A s \in Runners : held'[s] = NoCtx <=> at'[s] \notin Matching
    BY <2>1, <2>3, ConstantsAssumption DEF TypeOK, Matching
  <2>. QED  BY <1>4, <2>1, <2>2, <2>3, <2>4 DEF StartMatch, TypeOK
<1>5. CASE CheckValid(r)
  BY <1>0, <1>5 DEF CheckValid, Goto, TypeOK, Matching
<1>6. CASE AppendMatches(r)
  <2>1. held[r] \in CtxIds
    BY <1>6, HeldType DEF AppendMatches, Matching
  <2>2. [runner |-> r, term |-> told[r]] \in Match
    BY DEF TypeOK, Match
  <2>3. heap' \in [CtxIds -> Context]
    BY <1>6, <2>1, <2>2 DEF AppendMatches, TypeOK, Context
  <2>. QED  BY <1>0, <1>6, <2>3 DEF AppendMatches, Goto, TypeOK, Matching
<1>7. CASE PostMatchesChanged(r)
  <2>1. events' \in Seq(Event)
    BY <1>7, EventTypes DEF PostMatchesChanged, TypeOK
  <2>. QED  BY <1>0, <1>7, <2>1 DEF PostMatchesChanged, Goto, TypeOK, Matching
<1>8. CASE EndMatch(r)
  <2>1. held[r] \in CtxIds
    BY <1>8, HeldType DEF EndMatch, Matching
  <2>2. events' \in Seq(Event)
    BY <1>8, <2>1, ContextType, EventTypes DEF EndMatch, TypeOK
  <2>3. Blank \in Context
    BY DEF Blank, Context, Terms
  <2>4. heap' \in [CtxIds -> Context]
    BY <1>8, <2>3 DEF EndMatch, TypeOK
  <2>5. held' \in [Runners -> CtxIds \cup {NoCtx}] /\ told' \in [Runners -> Terms]
    BY <1>8 DEF EndMatch, TypeOK, Terms
  <2>6. \A s \in Runners : held'[s] = NoCtx <=> at'[s] \notin Matching
    BY <1>8 DEF EndMatch, Goto, TypeOK, Matching
  <2>. QED  BY <1>0, <1>8, <2>2, <2>4, <2>5, <2>6 DEF EndMatch, Goto, TypeOK
<1>. QED  BY <1>1, <1>2, <1>3, <1>4, <1>5, <1>6, <1>7, <1>8 DEF RunnerStep

LEMMA SuspensionTypes ==
    ASSUME TypeOK, NEW r \in Suspending, PluginSuspend(r) \/ PluginResume(r)
    PROVE  TypeOK'
<1>1. r \in Runners
  BY ConstantsAssumption
<1>2. suspended' \in [Runners -> {"unset", "yes", "no"}] /\ events' \in Seq(Event)
  BY <1>1, SuspendType DEF PluginSuspend, PluginResume
<1>. QED  BY <1>2 DEF PluginSuspend, PluginResume, TypeOK

\* Every step preserves the types, a stuttering step included.
LEMMA NextTypes == TypeOK /\ [Next]_vars => TypeOK'
<1>1. ASSUME TypeOK, UNCHANGED vars PROVE TypeOK'
  BY <1>1 DEF vars, TypeOK
<1>. QED
  BY <1>1, UserTypes, ManagerTypes, RunnerTypes, SuspensionTypes DEF Next

\* Every variable always has its type; in particular a runner has a copy of a
\* context exactly while its matchInternal runs.
THEOREM TypeCorrect == Spec => []TypeOK
BY InitTypes, NextTypes, PTL DEF Spec

-----------------------------------------------------------------------------
(* Contexts: what a runner has a copy of does not change under it *)

\* The two parts of addMatches are safe together because the term a runner read
\* from its context is still that context's term when the matches are appended.
ToldIsTerm ==
    \A r \in Runners : at[r] \in {"match", "adding"} => told[r] = heap[held[r]].term

ContextInv == TypeOK /\ NoStaleMatches /\ ToldIsTerm

\* A reset puts new data where no runner looks, and elsewhere it only invalidates
\* the old data.
LEMMA ResetFacts ==
    ASSUME TypeOK, NEW c \in Detached, NEW q, NEW s, ResetTo(c, q, s)
    PROVE  /\ c \in CtxIds /\ ~Shared(c) /\ d' = c
           /\ heap'[c] = [valid |-> TRUE, term |-> q, stamp |-> s, matches |-> {}]
           /\ heap'[c].term = q /\ heap'[c].matches = {}
           /\ \A x \in CtxIds \ {c} :
                 /\ heap'[x].term = heap[x].term
                 /\ heap'[x].stamp = heap[x].stamp
                 /\ heap'[x].matches = heap[x].matches
                 /\ heap'[x].valid => heap[x].valid
<1>1. c \in CtxIds /\ ~Shared(c)
  BY DEF Detached, TypeOK
<1>2. heap'[c] = [valid |-> TRUE, term |-> q, stamp |-> s, matches |-> {}]
  BY <1>1 DEF ResetTo, TypeOK
<1>3. ASSUME NEW x \in CtxIds \ {c}
      PROVE  /\ heap'[x].term = heap[x].term
             /\ heap'[x].stamp = heap[x].stamp
             /\ heap'[x].matches = heap[x].matches
             /\ heap'[x].valid => heap[x].valid
  BY <1>3, ContextType DEF ResetTo, TypeOK, Context
<1>4. heap'[c].term = q /\ heap'[c].matches = {}
  <2>. DEFINE fresh == [valid |-> TRUE, term |-> q, stamp |-> s, matches |-> {}]
  <2>1. fresh.term = q /\ fresh.matches = {}
    OBVIOUS
  <2>2. heap'[c] = fresh
    BY <1>2
  <2>. HIDE DEF fresh
  <2>. QED  BY <2>1, <2>2
<1>5. d' = c
  BY DEF ResetTo
<1>. QED  BY <1>1, <1>2, <1>3, <1>4, <1>5

\* Every step of the client leaves the contexts alone or resets them.
LEMMA UserHeap ==
    ASSUME TypeOK, UserAction
    PROVE  /\ UNCHANGED <<at, held, told>>
           /\ \/ UNCHANGED <<heap, d>>
              \/ \E c \in Detached, q \in Terms, s \in Stamps \cup {NoStamp} :
                    ResetTo(c, q, s)
<1>1. \A c \in Detached : StampAfterReset(c) \in Stamps \cup {NoStamp}
  BY ContextType DEF StampAfterReset, TypeOK
<1>2. NoTerm \in Terms /\ Queries \subseteq Terms
  BY DEF Terms
<1>3. ASSUME NEW t \in BOOLEAN, LaunchUnknownRunner(t)
      PROVE  UNCHANGED <<at, held, told>> /\ \E c \in Detached :
                ResetTo(c, NoTerm, StampAfterReset(c))
  BY <1>3 DEF LaunchUnknownRunner
<1>4. ASSUME NEW m \in Runners \cup {AllRunners}, LaunchEmpty(m)
      PROVE  UNCHANGED <<at, held, told>> /\ \E c \in Detached :
                ResetTo(c, NoTerm, StampAfterReset(c))
  BY <1>4 DEF LaunchEmpty
<1>5. CASE LaunchSame
  BY <1>5 DEF LaunchSame
<1>6. ASSUME NEW q \in Queries, NEW m \in Runners \cup {AllRunners},
             NEW now \in Stamps, LaunchNew(q, m, now)
      PROVE  UNCHANGED <<at, held, told>> /\ \E c \in Detached : ResetTo(c, q, now)
  BY <1>6 DEF LaunchNew
<1>7. ASSUME Reset
      PROVE  UNCHANGED <<at, held, told>> /\ \E c \in Detached :
                ResetTo(c, NoTerm, StampAfterReset(c))
  BY <1>7 DEF Reset
<1>8. CASE MatchSessionComplete
  BY <1>8 DEF MatchSessionComplete
<1>9. ASSUME NEW r \in Reloading, ReloadConfig(r)
      PROVE  UNCHANGED <<heap, d, at, held, told>>
  BY <1>9 DEF ReloadConfig
<1>. QED
  BY <1>1, <1>2, <1>3, <1>4, <1>5, <1>6, <1>7, <1>8, <1>9 DEF UserAction

\* Neither the manager's events nor a plugin's suspensions touch a context.
LEMMA ManagerHeap ==
    ASSUME \/ TimerFires \/ ManagerEvent
           \/ \E r \in Suspending : PluginSuspend(r) \/ PluginResume(r)
    PROVE  UNCHANGED <<heap, d, at, held, told>>
BY DEF TimerFires, ManagerEvent, OnMatchesChanged, OnJobFinished,
       OnMatchingResumed, OnNothingToRun, OnQueryFinished, PluginSuspend,
       PluginResume

LEMMA ContextInit == Init => ContextInv
BY InitTypes DEF Init, ContextInv, NoStaleMatches, ToldIsTerm, Blank

LEMMA ContextStep == ContextInv /\ [Next]_vars => ContextInv'
<1>. SUFFICES ASSUME ContextInv, [Next]_vars PROVE ContextInv'
  OBVIOUS
<1>0. TypeOK /\ TypeOK'
  BY NextTypes DEF ContextInv
<1>1. CASE UserAction
  <2>1. UNCHANGED <<at, held, told>>
    BY <1>0, <1>1, UserHeap
  <2>2. CASE UNCHANGED <<heap, d>>
    BY <1>0, <2>1, <2>2 DEF ContextInv, NoStaleMatches, ToldIsTerm
  <2>3. ASSUME NEW c \in Detached, NEW q \in Terms, NEW s \in Stamps \cup {NoStamp},
               ResetTo(c, q, s)
        PROVE  ContextInv'
    <3>0. /\ c \in CtxIds /\ ~Shared(c) /\ heap'[c].matches = {}
          /\ \A x \in CtxIds \ {c} :
                heap'[x].term = heap[x].term /\ heap'[x].matches = heap[x].matches
      BY <1>0, <2>3, ResetFacts
    <3>1. ASSUME NEW x \in CtxIds, NEW m \in heap'[x].matches
          PROVE  m.term = heap'[x].term
      BY <3>0, <3>1 DEF ContextInv, NoStaleMatches
    <3>2. ASSUME NEW r \in Runners, at[r] \in {"match", "adding"}
          PROVE  told[r] = heap'[held[r]].term
      <4>1. held[r] \in CtxIds /\ held[r] # c
        BY <1>0, <3>0, <3>2, HeldType DEF Shared, Matching
      <4>2. heap'[held[r]].term = heap[held[r]].term
        BY <3>0, <4>1
      <4>. QED  BY <3>2, <4>2 DEF ContextInv, ToldIsTerm
    <3>. QED  BY <1>0, <2>1, <3>1, <3>2 DEF ContextInv, NoStaleMatches, ToldIsTerm
  <2>. QED  BY <1>0, <1>1, <2>2, <2>3, UserHeap
<1>2. CASE \/ TimerFires \/ ManagerEvent
           \/ \E r \in Suspending : PluginSuspend(r) \/ PluginResume(r)
  BY <1>0, <1>2, ManagerHeap DEF ContextInv, NoStaleMatches, ToldIsTerm
<1>3. ASSUME NEW r \in Runners, RunnerStep(r) PROVE ContextInv'
  <2>1. CASE \/ \E suspend \in BOOLEAN : RunInit(r, suspend)
             \/ BeginReload(r) \/ EndReload(r) \/ PostMatchesChanged(r)
    <3>1. /\ UNCHANGED <<heap, held, told>>
          /\ \A x \in Runners : at'[x] \in {"match", "adding"} => at'[x] = at[x]
      BY <1>0, <2>1 DEF RunInit, BeginReload, EndReload, PostMatchesChanged, Goto, TypeOK
    <3>. QED  BY <1>0, <3>1 DEF ContextInv, NoStaleMatches, ToldIsTerm
  <2>2. CASE StartMatch(r)
    <3>1. UNCHANGED heap
      BY <2>2 DEF StartMatch
    <3>2. \A x \in Runners : at'[x] \in {"match", "adding"} =>
             told'[x] = heap[held'[x]].term
      BY <1>0, <2>2 DEF StartMatch, Goto, TypeOK, ContextInv, ToldIsTerm
    <3>. QED  BY <1>0, <3>1, <3>2 DEF ContextInv, NoStaleMatches, ToldIsTerm
  <2>3. CASE CheckValid(r)
    <3>1. /\ UNCHANGED <<heap, held, told>>
          /\ \A x \in Runners :
                at'[x] \in {"match", "adding"} => at[x] \in {"match", "adding"}
      BY <1>0, <2>3 DEF CheckValid, Goto, TypeOK
    <3>. QED  BY <1>0, <3>1 DEF ContextInv, NoStaleMatches, ToldIsTerm
  <2>4. CASE AppendMatches(r)
    <3>1. held[r] \in CtxIds /\ told[r] = heap[held[r]].term
      BY <1>0, <2>4, HeldType DEF AppendMatches, Matching, ContextInv, ToldIsTerm
    <3>2. \A x \in CtxIds : heap'[x].term = heap[x].term
      BY <1>0, <2>4, ContextType DEF AppendMatches, TypeOK, Context
    <3>3. \A x \in CtxIds : heap'[x].matches =
             IF x = held[r] THEN heap[x].matches \cup {[runner |-> r, term |-> told[r]]}
                            ELSE heap[x].matches
      BY <1>0, <2>4, ContextType DEF AppendMatches, TypeOK, Context
    <3>4. ASSUME NEW x \in CtxIds, NEW m \in heap'[x].matches
          PROVE  m.term = heap'[x].term
      <4>1. CASE m \in heap[x].matches
        BY <3>2, <4>1 DEF ContextInv, NoStaleMatches
      <4>2. CASE m \notin heap[x].matches
        <5>1. x = held[r] /\ m = [runner |-> r, term |-> told[r]]
          BY <3>3, <3>4, <4>2
        <5>. QED  BY <3>1, <3>2, <5>1
      <4>. QED  BY <4>1, <4>2
    <3>5. /\ UNCHANGED <<held, told>>
          /\ \A x \in Runners : at'[x] \in {"match", "adding"} => at'[x] = at[x]
      BY <1>0, <2>4 DEF AppendMatches, Goto, TypeOK
    <3>6. ToldIsTerm'
      BY <1>0, <3>2, <3>5, HeldType DEF ContextInv, ToldIsTerm, Matching
    <3>. QED  BY <1>0, <3>4, <3>6 DEF ContextInv, NoStaleMatches
  <2>5. CASE EndMatch(r)
    <3>. DEFINE c == held[r]
    <3>1. c \in CtxIds /\ at' = [at EXCEPT ![r] = "idle"]
          /\ held' = [held EXCEPT ![r] = NoCtx] /\ told' = [told EXCEPT ![r] = NoTerm]
      BY <1>0, <2>5, HeldType DEF EndMatch, Goto, Matching
    <3>2. \/ UNCHANGED heap
          \/ /\ heap' = [heap EXCEPT ![c] = Blank]
             /\ \A o \in Runners \ {r} : held[o] # c
      BY <2>5 DEF EndMatch
    <3>3. ASSUME NEW x \in CtxIds, NEW m \in heap'[x].matches
          PROVE  m.term = heap'[x].term
      <4>1. heap'[x] = heap[x] \/ heap'[x] = Blank
        BY <1>0, <3>2 DEF TypeOK
      <4>2. Blank.matches = {}
        BY DEF Blank
      <4>. QED  BY <3>3, <4>1, <4>2 DEF ContextInv, NoStaleMatches
    <3>4. ASSUME NEW x \in Runners, at'[x] \in {"match", "adding"}
          PROVE  told'[x] = heap'[held'[x]].term
      <4>1. x # r /\ at[x] = at'[x] /\ held'[x] = held[x] /\ told'[x] = told[x]
        BY <1>0, <3>1, <3>4 DEF TypeOK
      <4>2. held[x] \in CtxIds /\ told[x] = heap[held[x]].term
        BY <1>0, <3>4, <4>1, HeldType DEF Matching, ContextInv, ToldIsTerm
      <4>. QED  BY <1>0, <3>1, <3>2, <4>1, <4>2 DEF TypeOK
    <3>. QED  BY <1>0, <3>3, <3>4 DEF ContextInv, NoStaleMatches, ToldIsTerm
  <2>. QED  BY <1>3, <2>1, <2>2, <2>3, <2>4, <2>5 DEF RunnerStep
<1>4. CASE UNCHANGED vars
  BY <1>0, <1>4 DEF vars, ContextInv, NoStaleMatches, ToldIsTerm
<1>. QED  BY <1>1, <1>2, <1>3, <1>4 DEF Next

\* No context ever contains a match that was found for another term.
THEOREM NoStaleMatchesTheorem == Spec => []NoStaleMatches
<1>1. ContextInv => NoStaleMatches
  BY DEF ContextInv
<1>. QED  BY <1>1, ContextInit, ContextStep, PTL DEF Spec

\* A runner's step leaves the term, timestamp and validity of every context that
\* is still used alone, and the manager's other state too.
LEMMA RunnerHeap ==
    ASSUME TypeOK, NEW r \in Runners, RunnerStep(r)
    PROVE  /\ UNCHANGED <<d, managerVars, displayVars>>
           /\ \A x \in CtxIds :
                 \/ /\ heap'[x].term = heap[x].term
                    /\ heap'[x].stamp = heap[x].stamp
                    /\ heap'[x].valid = heap[x].valid
                    /\ heap[x].matches \subseteq heap'[x].matches
                 \/ x # d /\ ~Shared(x)'
<1>1. CASE \/ \E suspend \in BOOLEAN : RunInit(r, suspend)
           \/ BeginReload(r) \/ EndReload(r) \/ PostMatchesChanged(r)
           \/ StartMatch(r) \/ CheckValid(r)
  BY <1>1 DEF RunInit, BeginReload, EndReload, PostMatchesChanged, StartMatch,
              CheckValid
<1>2. CASE AppendMatches(r)
  <2>1. UNCHANGED <<d, managerVars, displayVars>>
    BY <1>2 DEF AppendMatches
  <2>2. \A x \in CtxIds : /\ heap'[x].term = heap[x].term
                          /\ heap'[x].stamp = heap[x].stamp
                          /\ heap'[x].valid = heap[x].valid
                          /\ heap[x].matches \subseteq heap'[x].matches
    BY <1>2, ContextType DEF AppendMatches, TypeOK, Context
  <2>. QED  BY <2>1, <2>2
<1>3. CASE EndMatch(r)
  <2>1. UNCHANGED <<d, managerVars, displayVars, inbox>>
    BY <1>3 DEF EndMatch
  <2>2. CASE UNCHANGED heap
    BY <2>1, <2>2
  <2>3. CASE ~UNCHANGED heap
    <3>0. PICK c \in CtxIds : c = held[r]
      BY <1>3, HeldType DEF EndMatch, Matching
    <3>1. /\ heap' = [heap EXCEPT ![c] = Blank]
          /\ c # d /\ ~Queued(r, c)
          /\ \A o \in Runners \ {r} : held[o] # c /\ ~Queued(o, c)
      BY <1>3, <2>3, <3>0 DEF EndMatch
    <3>2. held' = [held EXCEPT ![r] = NoCtx]
      BY <1>3 DEF EndMatch
    <3>3. \A o \in Runners : held'[o] # c /\ ~Queued(o, c)'
      BY <2>1, <3>1, <3>2, ConstantsAssumption DEF Queued, TypeOK
    <3>4. ~Shared(c)'
      BY <3>3 DEF Shared
    <3>5. \A x \in CtxIds \ {c} : heap'[x] = heap[x]
      BY <3>1 DEF TypeOK
    <3>. QED  BY <2>1, <3>1, <3>4, <3>5
  <2>. QED  BY <2>2, <2>3
<1>. QED  BY <1>1, <1>2, <1>3 DEF RunnerStep

\* While a runner has a copy of a context its term and timestamp, and with them
\* the job id it will report, are those it was called with, and an invalidated
\* context never becomes valid again.
THEOREM HeldContextStableTheorem == Spec => HeldContextStable
<1>. DEFINE Stable == \A c \in CtxIds : Shared(c) /\ Shared(c)' =>
                         /\ heap'[c].term = heap[c].term
                         /\ heap'[c].stamp = heap[c].stamp
                         /\ heap'[c].valid => heap[c].valid
<1>1. ASSUME TypeOK, Next PROVE Stable
  <2>1. CASE UserAction
    <3>1. CASE UNCHANGED <<heap, d>>
      BY <3>1
    <3>2. ASSUME NEW c \in Detached, NEW q \in Terms, NEW s \in Stamps \cup {NoStamp},
                 ResetTo(c, q, s)
          PROVE  Stable
      BY <1>1, <3>2, ResetFacts
    <3>. QED  BY <1>1, <2>1, <3>1, <3>2, UserHeap
  <2>2. CASE \/ TimerFires \/ ManagerEvent
             \/ \E r \in Suspending : PluginSuspend(r) \/ PluginResume(r)
    BY <2>2, ManagerHeap
  <2>3. ASSUME NEW r \in Runners, RunnerStep(r) PROVE Stable
    BY <1>1, <2>3, RunnerHeap
  <2>. QED  BY <1>1, <2>1, <2>2, <2>3 DEF Next
<1>2. TypeOK /\ [Next]_vars => [Stable]_vars
  BY <1>1
<1>. QED  BY <1>2, TypeCorrect, PTL DEF Spec, HeldContextStable

-----------------------------------------------------------------------------
(* Jobs: the open ones belong to the query that is set *)

\* Where launchQuery gives up and reset() lead to.
LEMMA ClientResets ==
    ASSUME TypeOK,
           \/ \E t \in BOOLEAN : LaunchUnknownRunner(t)
           \/ \E m \in Runners \cup {AllRunners} : LaunchEmpty(m)
           \/ Reset
    PROVE  /\ currentJobs' = {}
           /\ heap'[d'].term = NoTerm /\ heap'[d'].matches = {}
           /\ ScheduleOnReset(typed')
<1>1. PICK c \in Detached : ResetTo(c, NoTerm, StampAfterReset(c))
  BY DEF LaunchUnknownRunner, LaunchEmpty, Reset
<1>2. heap'[d'].term = NoTerm /\ heap'[d'].matches = {}
  BY <1>1, ResetFacts
<1>3. currentJobs' = {} /\ ScheduleOnReset(typed')
  BY DEF LaunchUnknownRunner, LaunchEmpty, Reset
<1>. QED  BY <1>2, <1>3

\* Where a launchQuery that searches leads to.
LEMMA ClientLaunches ==
    ASSUME TypeOK, NEW q \in Queries, NEW m \in Runners \cup {AllRunners},
           NEW now \in Stamps, LaunchNew(q, m, now)
    PROVE  /\ heap'[d'].term = q /\ heap'[d'].stamp = now /\ heap'[d'].matches = {}
           /\ typed' = TRUE /\ ScheduleOnReset(TRUE)
           /\ \A j \in currentJobs' :
                 j = [runner |-> j.runner, term |-> q, stamp |-> now]
           /\ currentJobs' # {} => querying'
           /\ \A r \in Runners :
                 pending'[r] \in {NoJob, [runner |-> r, term |-> q, stamp |-> now]}
<1>1. PICK c \in Detached : ResetTo(c, q, now)
  BY DEF LaunchNew
<1>2. heap'[d'].term = q /\ heap'[d'].matches = {}
  BY <1>1, ResetFacts
<1>3. heap'[d'].stamp = now
  <2>. DEFINE fresh == [valid |-> TRUE, term |-> q, stamp |-> now, matches |-> {}]
  <2>1. fresh.stamp = now
    OBVIOUS
  <2>2. heap'[d'] = fresh
    BY <1>1, ResetFacts
  <2>. HIDE DEF fresh
  <2>. QED  BY <2>1, <2>2
<1>4. typed' = TRUE /\ ScheduleOnReset(TRUE)
  BY DEF LaunchNew
<1>5. /\ \A j \in currentJobs' :
            j = [runner |-> j.runner, term |-> q, stamp |-> now]
      /\ currentJobs' # {} => querying'
  <2>. DEFINE job(r) == [runner |-> r, term |-> q, stamp |-> now]
              asked == IF m = AllRunners THEN Runners ELSE {m}
              waiting == {r \in asked : suspended[r] # "no"}
              started == {r \in asked \ waiting :
                            m # AllRunners \/ <<r, q>> \notin Rejects}
  <2>1. /\ currentJobs' = {job(r) : r \in waiting \cup started}
        /\ querying' = (waiting \cup started # {})
    BY DEF LaunchNew
  <2>2. \A r : job(r) = [runner |-> job(r).runner, term |-> q, stamp |-> now]
    OBVIOUS
  <2>. HIDE DEF job, waiting, started
  <2>3. \A j \in currentJobs' : \E r : j = job(r)
    BY <2>1
  <2>4. currentJobs' # {} => querying'
    BY <2>1
  <2>. QED  BY <2>2, <2>3, <2>4
<1>6. \A r \in Runners :
         pending'[r] \in {NoJob, [runner |-> r, term |-> q, stamp |-> now]}
  BY DEF LaunchNew
<1>. QED  BY <1>2, <1>3, <1>4, <1>5, <1>6

\* The end of a job closes at most that job, and the query with the last one.
LEMMA JobFinishedJobs ==
    ASSUME NEW job, JobFinished(job)
    PROVE  /\ currentJobs' \subseteq currentJobs
           /\ currentJobs' # {} => UNCHANGED querying
BY DEF JobFinished

JobsInv == TypeOK /\ JobsBelongToQuery

LEMMA JobsInit == Init => JobsInv
BY InitTypes DEF Init, JobsInv, JobsBelongToQuery, Blank

LEMMA JobsStep == JobsInv /\ [Next]_vars => JobsInv'
<1>. SUFFICES ASSUME JobsInv, [Next]_vars PROVE JobsBelongToQuery'
  BY NextTypes DEF JobsInv
<1>0. TypeOK /\ JobsBelongToQuery
  BY DEF JobsInv
<1>1. CASE UserAction
  <2>1. CASE \/ \E t \in BOOLEAN : LaunchUnknownRunner(t)
             \/ \E m \in Runners \cup {AllRunners} : LaunchEmpty(m)
             \/ Reset
    BY <1>0, <2>1, ClientResets DEF JobsBelongToQuery
  <2>2. CASE LaunchSame \/ MatchSessionComplete
    BY <1>0, <2>2 DEF LaunchSame, MatchSessionComplete, NoPending, JobsBelongToQuery, JobId
  <2>3. ASSUME NEW q \in Queries, NEW m \in Runners \cup {AllRunners},
               NEW now \in Stamps, LaunchNew(q, m, now)
        PROVE  JobsBelongToQuery'
    <3>1. heap'[d'].term = q /\ heap'[d'].stamp = now
      BY <1>0, <2>3, ClientLaunches
    <3>2. \A j \in currentJobs' :
             j = [runner |-> j.runner, term |-> q, stamp |-> now]
      BY <1>0, <2>3, ClientLaunches
    <3>3. currentJobs' # {} => querying'
      BY <1>0, <2>3, ClientLaunches
    <3>4. \A r \in Runners :
             pending'[r] \in {NoJob, [runner |-> r, term |-> q, stamp |-> now]}
      BY <1>0, <2>3, ClientLaunches
    <3>5. \A r : JobId(r, d)' = [runner |-> r, term |-> q, stamp |-> now]
      BY <3>1 DEF JobId
    <3>6. q # NoTerm
      BY ConstantsAssumption
    <3>. QED  BY <3>1, <3>2, <3>3, <3>4, <3>5, <3>6 DEF JobsBelongToQuery
  <2>4. ASSUME NEW r \in Reloading, ReloadConfig(r) PROVE JobsBelongToQuery'
    BY <1>0, <2>4 DEF ReloadConfig, JobsBelongToQuery, JobId
  <2>. QED  BY <1>1, <2>1, <2>2, <2>3, <2>4 DEF UserAction
<1>2. CASE TimerFires \/ OnMatchesChanged \/ OnQueryFinished
  BY <1>0, <1>2 DEF TimerFires, OnMatchesChanged, OnQueryFinished,
                    JobsBelongToQuery, JobId
<1>3. CASE OnJobFinished
  <2>1. UNCHANGED <<heap, d, pending>> /\ JobFinished(Head(events).job)
    BY <1>3 DEF OnJobFinished
  <2>. QED  BY <1>0, <2>1, JobFinishedJobs DEF JobsBelongToQuery, JobId
<1>4. CASE OnMatchingResumed
  <2>1. /\ UNCHANGED <<heap, d, pending>>
        /\ \/ UNCHANGED <<currentJobs, querying>>
           \/ JobFinished(pending[Head(events).runner])
    BY <1>4 DEF OnMatchingResumed
  <2>. QED  BY <1>0, <2>1, JobFinishedJobs DEF JobsBelongToQuery, JobId
<1>5. CASE OnNothingToRun
  BY <1>0, <1>5 DEF OnNothingToRun, JobsBelongToQuery, JobId
<1>6. ASSUME NEW r \in Suspending, PluginSuspend(r) \/ PluginResume(r)
      PROVE  JobsBelongToQuery'
  BY <1>0, <1>6 DEF PluginSuspend, PluginResume, JobsBelongToQuery, JobId
<1>7. ASSUME NEW r \in Runners, RunnerStep(r) PROVE JobsBelongToQuery'
  <2>1. /\ UNCHANGED <<d, currentJobs, querying, pending>>
        /\ heap'[d].term = heap[d].term /\ heap'[d].stamp = heap[d].stamp
    BY <1>0, <1>7, RunnerHeap DEF TypeOK
  <2>. QED  BY <1>0, <2>1 DEF JobsBelongToQuery, JobId
<1>8. CASE UNCHANGED vars
  BY <1>0, <1>8 DEF vars, JobsBelongToQuery, JobId
<1>. QED
  BY <1>1, <1>2, <1>3, <1>4, <1>5, <1>6, <1>7, <1>8 DEF Next, ManagerEvent

\* The open jobs are jobs of the query that is set, the manager is querying while
\* there are any, and the jobs that wait for a suspended runner are of the same
\* query: late answers and late resumptions cannot finish or start another one.
THEOREM JobsBelongToQueryTheorem == Spec => []JobsBelongToQuery
<1>1. JobsInv => JobsBelongToQuery
  BY DEF JobsInv
<1>. QED  BY <1>1, JobsInit, JobsStep, PTL DEF Spec

-----------------------------------------------------------------------------
(* The display: old matches are shown only while the refresh is stalled *)

\* The end of a job shows the current matches, or leaves the display as it is.
LEMMA JobFinishedDisplay ==
    ASSUME NEW job, JobFinished(job)
    PROVE  \/ UNCHANGED <<timer, shown>>
           \/ shown' = heap[d].matches
           \/ ~timer /\ UNCHANGED shown
BY DEF JobFinished

\* A runner's step only adds to the matches of the manager's context.
LEMMA RunnerMatches ==
    ASSUME TypeOK, NEW r \in Runners, RunnerStep(r)
    PROVE  /\ heap'[d'].term = heap[d].term
           /\ heap[d].matches \subseteq heap'[d'].matches
           /\ UNCHANGED <<typed, timer, shown>>
BY RunnerHeap DEF TypeOK

StaleInv == TypeOK /\ StaleShownOnlyWhileStalling

LEMMA StaleInit == Init => StaleInv
BY InitTypes DEF Init, StaleInv, StaleShownOnlyWhileStalling

LEMMA StaleStep == StaleInv /\ [Next]_vars => StaleInv'
<1>. SUFFICES ASSUME StaleInv, [Next]_vars PROVE StaleShownOnlyWhileStalling'
  BY NextTypes DEF StaleInv
<1>. USE DEF StaleShownOnlyWhileStalling
<1>0. TypeOK /\ StaleShownOnlyWhileStalling
  BY DEF StaleInv
<1>1. CASE UserAction
  <2>1. CASE \/ \E t \in BOOLEAN : LaunchUnknownRunner(t)
             \/ \E m \in Runners \cup {AllRunners} : LaunchEmpty(m)
             \/ Reset
    <3>1. ScheduleOnReset(typed')
      BY <1>0, <2>1, ClientResets
    <3>. QED  BY <3>1 DEF ScheduleOnReset, ScheduleWithoutQuery
  <2>2. CASE LaunchSame \/ MatchSessionComplete
    BY <1>0, <2>2 DEF LaunchSame, MatchSessionComplete
  <2>3. ASSUME NEW q \in Queries, NEW m \in Runners \cup {AllRunners},
               NEW now \in Stamps, LaunchNew(q, m, now)
        PROVE  StaleShownOnlyWhileStalling'
    BY <2>3 DEF LaunchNew, ScheduleOnReset, ScheduleWithoutQuery
  <2>4. ASSUME NEW r \in Reloading, ReloadConfig(r)
        PROVE  StaleShownOnlyWhileStalling'
    BY <1>0, <2>4 DEF ReloadConfig
  <2>. QED  BY <1>1, <2>1, <2>2, <2>3, <2>4 DEF UserAction
<1>2. CASE TimerFires
  BY <1>2 DEF TimerFires
<1>3. CASE OnMatchesChanged
  BY <1>0, <1>3 DEF OnMatchesChanged, ScheduleWithoutQuery
<1>4. CASE OnJobFinished
  <2>1. UNCHANGED <<heap, d, typed>> /\ JobFinished(Head(events).job)
    BY <1>4 DEF OnJobFinished
  <2>. QED  BY <1>0, <2>1, JobFinishedDisplay
<1>5. CASE OnMatchingResumed
  <2>1. /\ UNCHANGED <<heap, d, typed>>
        /\ \/ UNCHANGED <<timer, shown>>
           \/ JobFinished(pending[Head(events).runner])
    BY <1>5 DEF OnMatchingResumed
  <2>. QED  BY <1>0, <2>1, JobFinishedDisplay
<1>6. CASE OnNothingToRun
  BY <1>6 DEF OnNothingToRun
<1>7. CASE OnQueryFinished
  BY <1>0, <1>7 DEF OnQueryFinished
<1>8. ASSUME NEW r \in Suspending, PluginSuspend(r) \/ PluginResume(r)
      PROVE  StaleShownOnlyWhileStalling'
  BY <1>0, <1>8 DEF PluginSuspend, PluginResume
<1>9. ASSUME NEW r \in Runners, RunnerStep(r) PROVE StaleShownOnlyWhileStalling'
  BY <1>0, <1>9, RunnerMatches
<1>10. CASE UNCHANGED vars
  BY <1>0, <1>10 DEF vars
<1>. QED
  BY <1>1, <1>2, <1>3, <1>4, <1>5, <1>6, <1>7, <1>8, <1>9, <1>10
  DEF Next, ManagerEvent

\* What is shown and was not found for the current query is gone when the timer
\* fires, and it is shown only for a query the user has typed.
THEOREM StaleShownTheorem == Spec => []StaleShownOnlyWhileStalling
<1>1. StaleInv => StaleShownOnlyWhileStalling
  BY DEF StaleInv
<1>. QED  BY <1>1, StaleInit, StaleStep, PTL DEF Spec

-----------------------------------------------------------------------------
(* Refinement: the manager implements MatchDisplay *)

LEMMA DisplayInit == Init => Display!Init
BY DEF Init, Display!Init, Blank

LEMMA DisplayStep == ContextInv /\ [Next]_vars => [Display!Next]_(Display!vars)
<1>. SUFFICES ASSUME ContextInv, [Next]_vars PROVE [Display!Next]_(Display!vars)
  OBVIOUS
<1>. USE DEF Display!vars
<1>0. TypeOK
  BY DEF ContextInv
<1>1. CASE UserAction
  <2>1. CASE \/ \E t \in BOOLEAN : LaunchUnknownRunner(t)
             \/ \E m \in Runners \cup {AllRunners} : LaunchEmpty(m)
             \/ Reset
    <3>1. /\ heap'[d'].term = NoTerm /\ heap'[d'].matches = {}
          /\ shown' \in {shown, {}}
      BY <1>0, <2>1, ClientResets DEF ScheduleOnReset, ScheduleWithoutQuery
    <3>2. Display!SetQuery(NoTerm) /\ NoTerm \in Terms
      BY <3>1 DEF Display!SetQuery, Terms
    <3>. QED  BY <3>2 DEF Display!Next
  <2>2. CASE LaunchSame \/ MatchSessionComplete
    BY <2>2 DEF LaunchSame, MatchSessionComplete
  <2>3. ASSUME NEW q \in Queries, NEW m \in Runners \cup {AllRunners},
               NEW now \in Stamps, LaunchNew(q, m, now)
        PROVE  Display!Next
    <3>1. heap'[d'].term = q
      BY <1>0, <2>3, ClientLaunches
    <3>2. heap'[d'].matches = {}
      BY <1>0, <2>3, ClientLaunches
    <3>3. shown' = shown
      BY <2>3 DEF LaunchNew, ScheduleOnReset, ScheduleWithoutQuery
    <3>4. Display!SetQuery(q) /\ q \in Terms
      BY <3>1, <3>2, <3>3 DEF Display!SetQuery, Terms
    <3>. QED  BY <3>4 DEF Display!Next
  <2>4. ASSUME NEW r \in Reloading, ReloadConfig(r) PROVE UNCHANGED Display!vars
    BY <2>4 DEF ReloadConfig
  <2>. QED  BY <1>1, <2>1, <2>2, <2>3, <2>4 DEF UserAction
<1>2. CASE \/ TimerFires \/ ManagerEvent
           \/ \E r \in Suspending : PluginSuspend(r) \/ PluginResume(r)
  <2>1. UNCHANGED <<heap, d>>
    BY <1>2, ManagerHeap
  <2>2. shown' \in {shown, {}, heap[d].matches}
    BY <1>2, JobFinishedDisplay
    DEF TimerFires, ManagerEvent, OnMatchesChanged, ScheduleWithoutQuery, OnJobFinished,
        OnMatchingResumed, OnNothingToRun, OnQueryFinished, PluginSuspend, PluginResume
  <2>. QED  BY <2>1, <2>2 DEF Display!Next, Display!Show, Display!ShowNothing
<1>3. ASSUME NEW r \in Runners, RunnerStep(r)
      PROVE  Display!Next \/ UNCHANGED Display!vars
  <2>1. UNCHANGED shown /\ heap'[d'].term = heap[d].term /\ UNCHANGED d
    BY <1>0, <1>3, RunnerMatches, RunnerHeap
  <2>2. CASE AppendMatches(r) /\ held[r] = d
    <3>. DEFINE m == [runner |-> r, term |-> told[r]]
    <3>1. m \in Match /\ m.term = heap[d].term
      BY <1>0, <2>2 DEF AppendMatches, ContextInv, ToldIsTerm, TypeOK, Match
    <3>2. heap'[d].matches = heap[d].matches \cup {m}
      BY <1>0, <2>2, ContextType DEF AppendMatches, TypeOK, Context
    <3>3. Display!Found(m)
      BY <2>1, <3>1, <3>2 DEF Display!Found
    <3>. QED  BY <3>1, <3>3 DEF Display!Next
  <2>3. CASE ~(AppendMatches(r) /\ held[r] = d)
    <3>1. heap'[d] = heap[d]
      BY <1>0, <1>3, <2>3
      DEF RunnerStep, RunInit, BeginReload, EndReload, StartMatch, CheckValid,
          AppendMatches, PostMatchesChanged, EndMatch, TypeOK
    <3>. QED  BY <2>1, <3>1
  <2>. QED  BY <2>2, <2>3
<1>4. CASE UNCHANGED vars
  BY <1>4 DEF vars
<1>. QED  BY <1>1, <1>2, <1>3, <1>4 DEF Next

\* The manager with its threads, contexts and timer implements the display that
\* its client is promised: every step sets the query, adds a match of the query,
\* shows the matches or nothing, or changes nothing the client sees.
THEOREM Refinement == Spec => ImplementsDisplay
<1>. QED
  BY DisplayInit, DisplayStep, ContextInit, ContextStep, PTL
  DEF Spec, ImplementsDisplay, Display!Spec

=============================================================================
