---------------------------- MODULE DBusRunnerProofs ----------------------------
(***************************************************************************)
(* Proofs about DBusRunner, for any services, metadata, replies to Config  *)
(* and numbers of events.                                                  *)
(***************************************************************************)
EXTENDS DBusRunner, FiniteSetTheorems, SequenceTheorems, TLAPS

ConfigCalls == {c \in calls : c.kind = "Config"}

Notice == [service : Services, old : BOOLEAN, new : BOOLEAN]

\* Each job that is begun, posted or may still be posted has used up half an event, or
\* is the one after init().
Budget ==
    /\ IsFiniteSet(ConfigCalls)
    /\ begun + posted + Cardinality(ConfigCalls) + (IF initPosted THEN 1 ELSE 0) <= 2 * events + 1

\* Nothing happened to jobs that are not begun.
Untouched ==
    /\ \A c \in calls : c.kind = "Config" \/ c.nr \in 1..begun
    /\ \A j \in Jobs : j > begun => answers[j] = 0

\* What was asked for actions is remembered.
AskedIsRemembered ==
    /\ ~actionsForSessionRequested => \A s \in Services : sessionActions[s] = 0
    /\ meta.once => \A s \in Services : s \notin requestedActionServices => everActions[s] = 0

\* Before init() only a reload suspends.
EarlySuspension == initPosted /\ suspended = "yes" => reloadedEarly

\* What the handling of a notice makes of the matching services.
Handled(n, before, after) ==
    after = IF n.old /\ n.new THEN before
            ELSE IF n.new THEN before \cup {n.service} ELSE before \ {n.service}

\* The matching services when all notices are handled: those on the bus, but for the
\* services that were missed.
Noticed == (running \ missed) \cup (missed \ running)

\* h is what the matching services become while the notices are handled.
IsHistory(h) ==
    /\ h \in [0..Len(notices) -> SUBSET Services]
    /\ h[0] = matchingServices /\ h[Len(notices)] = Noticed
    /\ \A i \in 1..Len(notices) : Handled(notices[i], h[i - 1], h[i])

NoticesTell ==
    /\ ~constructed => notices = <<>>
    /\ constructed /\ meta.wildcard => \E h : IsHistory(h)

IInv ==
    /\ TypeOK /\ Budget /\ Untouched /\ AskedIsRemembered /\ EarlySuspension /\ NoticesTell
    /\ WaitsForItsCalls /\ ActionsAtMostOnce /\ NeverStuck

-----------------------------------------------------------------------------

LEMMA JobsFacts == Jobs \subseteq Nat /\ 0 \notin Jobs /\ \A n \in Nat : n + 1 \in Nat
BY BoundsAssumption DEF Jobs

LEMMA InitInv == Init => IInv
<1>. SUFFICES ASSUME Init PROVE IInv
  OBVIOUS
<1>1. TypeOK
  <2>1. matchingServices \subseteq Services
    <3>1. RequestedService \in Services
      BY BoundsAssumption DEF RequestedService
    <3>. QED  BY <3>1 DEF Init
  <2>2. notices \in Seq(Notice)
    BY DEF Init
  <2>3. running \subseteq Services /\ missed \subseteq Services
    BY DEF Init
  <2>4. /\ actions \in [Services -> ActionLists \cup {{}}]
        /\ requestedActionServices \subseteq Services /\ calls \subseteq AnyCall
        /\ pendingServices \in [Jobs -> SUBSET Services] /\ answers \in [Jobs -> Nat]
        /\ sessionActions \in [Services -> 0..2] /\ everActions \in [Services -> 0..2]
    BY DEF Init
  <2>5. posted \in Nat /\ begun \in Nat /\ begun + posted = 0 /\ events \in 0..MaxEvents
    BY BoundsAssumption DEF Init
  <2>. QED  BY <2>1, <2>2, <2>3, <2>4, <2>5 DEF Init, TypeOK, Notice
<1>2. Budget
  <2>1. ConfigCalls = {}
    BY DEF Init, ConfigCalls
  <2>. QED  BY <2>1, FS_EmptySet, BoundsAssumption DEF Init, Budget
<1>3. Untouched /\ AskedIsRemembered /\ EarlySuspension /\ NeverStuck
  BY DEF Init, Untouched, AskedIsRemembered, EarlySuspension, NeverStuck
<1>4. NoticesTell
  BY DEF Init, NoticesTell
<1>5. WaitsForItsCalls
  BY DEF Init, WaitsForItsCalls
<1>6. ActionsAtMostOnce
  BY DEF Init, ActionsAtMostOnce
<1>. QED  BY <1>1, <1>2, <1>3, <1>4, <1>5, <1>6 DEF IInv

-----------------------------------------------------------------------------
(* Watching and being queried leave most of the runner alone *)

LEMMA WatchFacts ==
    ASSUME IInv, Watch
    PROVE  /\ UNCHANGED <<meta, running, notices, matchingServices, actionVars, matchWasCalled>>
           /\ UNCHANGED <<suspended, initPosted, reloadedEarly, filter, triggerWords>>
           /\ UNCHANGED <<managerVars, posted, jobVars, reported, calls, crashed, events>>
           /\ constructed' = TRUE /\ missed' \subseteq Services
BY DEF Watch, IInv, TypeOK

LEMMA AnyQueryFacts ==
    ASSUME AnyQuery
    PROVE  /\ UNCHANGED <<meta, serviceVars, actionVars, matchWasCalled, suspended, configVars>>
           /\ UNCHANGED <<jobVars, calls, crashed>>
           /\ events' = events + 1 /\ events < meta.events
           /\ posted' \in {posted, posted + 1} /\ reported' = 0
           /\ query' \in Queries \cup {query, <<>>} /\ single' \in {single} \cup BOOLEAN
           /\ session' \in {session, TRUE} /\ waiting' \in {waiting} \cup BOOLEAN
<1>1. ASSUME NEW term \in Queries, NEW alone \in BOOLEAN, LaunchQuery(term, alone)
      PROVE  /\ UNCHANGED <<meta, serviceVars, actionVars, matchWasCalled, suspended, configVars>>
             /\ UNCHANGED <<jobVars, calls, crashed>>
             /\ events' = events + 1 /\ events < meta.events
             /\ posted' \in {posted, posted + 1} /\ reported' = 0
             /\ query' = term /\ single' = alone /\ session' = TRUE /\ waiting' \in BOOLEAN
  BY <1>1 DEF LaunchQuery, Event
<1>2. ASSUME NEW same \in BOOLEAN, LaunchWithoutJob(same)
      PROVE  /\ UNCHANGED <<meta, serviceVars, actionVars, matchWasCalled, suspended, configVars>>
             /\ UNCHANGED <<jobVars, calls, crashed, posted, session>>
             /\ events' = events + 1 /\ events < meta.events /\ reported' = 0
             /\ query' \in {query, <<>>} /\ single' \in {single, FALSE} /\ waiting' = FALSE
  BY <1>2 DEF LaunchWithoutJob, Event
<1>3. ASSUME Reset
      PROVE  /\ UNCHANGED <<meta, serviceVars, actionVars, matchWasCalled, suspended, configVars>>
             /\ UNCHANGED <<jobVars, calls, crashed, posted, single, session, waiting>>
             /\ events' = events + 1 /\ events < meta.events /\ reported' = 0
             /\ query' = <<>>
  BY <1>3 DEF Reset, Event
<1>. QED  BY <1>1, <1>2, <1>3 DEF AnyQuery

-----------------------------------------------------------------------------
(* Types and bounds *)

LEMMA RequestConfigFacts ==
    ASSUME NEW nr, RequestConfig(nr), IsFiniteSet(ConfigCalls)
    PROVE  /\ calls \subseteq calls'
           /\ \A c \in calls' \ calls :
                c \in {[kind |-> "Config", service |-> s, nr |-> nr] : s \in matchingServices}
           /\ crashed' \in {crashed, TRUE}
           /\ crashed' \/ \E c \in calls' : c.kind = "Config"
           /\ IsFiniteSet(ConfigCalls') /\ Cardinality(ConfigCalls') <= Cardinality(ConfigCalls) + 1
<1>1. CASE calls' = calls /\ crashed' = TRUE
  BY <1>1, FS_CardinalityType DEF ConfigCalls
<1>2. CASE matchingServices # {} /\ UNCHANGED crashed
           /\ \E s \in matchingServices :
                calls' = calls \cup {[kind |-> "Config", service |-> s, nr |-> nr]}
  <2>1. PICK s \in matchingServices :
            calls' = calls \cup {[kind |-> "Config", service |-> s, nr |-> nr]}
    BY <1>2
  <2>. DEFINE c == [kind |-> "Config", service |-> s, nr |-> nr]
  <2>2. c.kind = "Config" /\ c \in calls' /\ calls' = calls \cup {c}
    BY <2>1
  <2>. HIDE DEF c
  <2>3. ConfigCalls' = ConfigCalls \cup {c}
    BY <2>2 DEF ConfigCalls
  <2>4. /\ IsFiniteSet(ConfigCalls') /\ Cardinality(ConfigCalls') <= Cardinality(ConfigCalls) + 1
    <3>1. /\ IsFiniteSet(ConfigCalls \cup {c})
          /\ Cardinality(ConfigCalls \cup {c}) =
                IF c \in ConfigCalls THEN Cardinality(ConfigCalls) ELSE Cardinality(ConfigCalls) + 1
      BY FS_AddElement
    <3>2. Cardinality(ConfigCalls) \in Nat
      BY FS_CardinalityType
    <3>. QED  BY <2>3, <3>1, <3>2
  <2>. QED  BY <1>2, <2>2, <2>4 DEF c
<1>. QED  BY <1>1, <1>2 DEF RequestConfig

LEMMA CallAnswered ==
    ASSUME NEW c \in calls, calls' = calls \ {c}, IsFiniteSet(ConfigCalls)
    PROVE  /\ IsFiniteSet(ConfigCalls')
           /\ Cardinality(ConfigCalls') =
                (IF c.kind = "Config" THEN Cardinality(ConfigCalls) - 1 ELSE Cardinality(ConfigCalls))
<1>1. ConfigCalls' = ConfigCalls \ {c} /\ (c.kind = "Config" <=> c \in ConfigCalls)
  BY DEF ConfigCalls
<1>. QED  BY <1>1, FS_RemoveElement

LEMMA BudgetInv == ASSUME IInv, [Next]_vars PROVE Budget'
<1>0. /\ IsFiniteSet(ConfigCalls) /\ Cardinality(ConfigCalls) \in Nat
      /\ begun \in Nat /\ posted \in Nat /\ events \in Nat
      /\ begun + posted + Cardinality(ConfigCalls) + (IF initPosted THEN 1 ELSE 0) <= 2 * events + 1
  BY FS_CardinalityType, BoundsAssumption DEF IInv, Budget, TypeOK
<1>1. ASSUME NEW s \in Services, NEW new \in BOOLEAN, OwnerChanges(s, new) PROVE Budget'
  BY <1>0, <1>1 DEF OwnerChanges, Event, Budget, ConfigCalls, configVars, jobVars
<1>2. CASE ServiceOwnerChanged \/ Watch \/ Teardown \/ UNCHANGED vars
  <2>1. UNCHANGED <<begun, posted, initPosted, events, calls>>
    BY <1>2, WatchFacts DEF ServiceOwnerChanged, Teardown, vars, configVars, jobVars
  <2>2. ConfigCalls' = ConfigCalls
    BY <2>1 DEF ConfigCalls
  <2>. QED  BY <1>0, <2>1, <2>2 DEF Budget
<1>3. CASE RunInit
  <2>1. /\ IsFiniteSet(ConfigCalls') /\ Cardinality(ConfigCalls') \in Nat
        /\ Cardinality(ConfigCalls') + posted' <= Cardinality(ConfigCalls) + posted + 1
    <3>1. CASE meta.lifecycle
      <4>1. RequestConfig(0) /\ posted' = posted
        BY <1>3, <3>1 DEF RunInit, ReloadConfiguration
      <4>2. IsFiniteSet(ConfigCalls') /\ Cardinality(ConfigCalls') <= Cardinality(ConfigCalls) + 1
        BY <1>0, <4>1, RequestConfigFacts
      <4>3. Cardinality(ConfigCalls') \in Nat
        BY <4>2, FS_CardinalityType
      <4>. QED  BY <1>0, <4>1, <4>2, <4>3
    <3>2. CASE ~meta.lifecycle
      <4>1. calls' = calls /\ posted' \in {posted, posted + 1}
        BY <1>3, <3>2 DEF RunInit, ReloadConfiguration, Resume
      <4>2. ConfigCalls' = ConfigCalls
        BY <4>1 DEF ConfigCalls
      <4>. QED  BY <1>0, <4>1, <4>2
    <3>. QED  BY <3>1, <3>2
  <2>2. initPosted /\ ~initPosted' /\ UNCHANGED <<begun, events>> /\ posted' \in Nat
    BY <1>0, <1>3 DEF RunInit, ReloadConfiguration, Resume, jobVars
  <2>. QED  BY <1>0, <2>1, <2>2 DEF Budget
<1>4. CASE ReloadConfigurationInternal
  <2>1. /\ IsFiniteSet(ConfigCalls') /\ Cardinality(ConfigCalls') \in Nat
        /\ Cardinality(ConfigCalls') <= Cardinality(ConfigCalls) + 1
    <3>1. CASE meta.lifecycle
      BY <1>0, <1>4, <3>1, RequestConfigFacts, FS_CardinalityType DEF ReloadConfigurationInternal,
          ReloadConfiguration
    <3>2. CASE ~meta.lifecycle
      BY <1>0, <1>4, <3>2 DEF ReloadConfigurationInternal, ReloadConfiguration, ConfigCalls
    <3>. QED  BY <3>1, <3>2
  <2>2. UNCHANGED <<begun, initPosted>> /\ posted' \in {posted, posted + 1} /\ events' = events + 1
    BY <1>4 DEF ReloadConfigurationInternal, ReloadConfiguration, Event, jobVars
  <2>. QED  BY <1>0, <2>1, <2>2 DEF Budget
<1>5. CASE AnyQuery
  <2>1. /\ UNCHANGED <<begun, initPosted, calls>> /\ posted' \in {posted, posted + 1}
        /\ events' = events + 1
    BY <1>5, AnyQueryFacts DEF configVars, jobVars
  <2>2. ConfigCalls' = ConfigCalls
    BY <2>1 DEF ConfigCalls
  <2>. QED  BY <1>0, <2>1, <2>2 DEF Budget
<1>6. CASE MatchInternal
  <2>1. /\ posted > 0 /\ posted' = posted - 1 /\ begun' = begun + 1
        /\ UNCHANGED <<initPosted, events>>
        /\ calls' = calls \cup CallsFor("Actions", Unknown, begun + 1)
                          \cup CallsFor("Match", matchingServices \ Unknown, begun + 1)
    BY <1>6 DEF MatchInternal, StartJob, Take, configVars
  <2>2. ConfigCalls' = ConfigCalls
    BY <2>1 DEF ConfigCalls, CallsFor
  <2>. QED  BY <1>0, <2>1, <2>2 DEF Budget
<1>7. ASSUME NEW c \in calls, Reply(c) PROVE Budget'
  <2>1. ASSUME ConfigError(c) \/ \E config \in Configs : ConfigReply(c, config) PROVE Budget'
    <3>1. /\ c.kind = "Config" /\ calls' = calls \ {c} /\ UNCHANGED <<begun, initPosted, events>>
          /\ posted' \in {posted, posted + 1}
      BY <2>1 DEF ConfigError, ConfigReply, Resume, configVars, jobVars
    <3>2. IsFiniteSet(ConfigCalls') /\ Cardinality(ConfigCalls') = Cardinality(ConfigCalls) - 1
      BY <1>0, <3>1, CallAnswered
    <3>. QED  BY <1>0, <3>1, <3>2 DEF Budget
  <2>2. ASSUME NEW ok \in BOOLEAN, ActionsReply(c, ok) PROVE Budget'
    <3>1. ConfigCalls' = ConfigCalls
      BY <2>2 DEF ActionsReply, ConfigCalls, CallsFor
    <3>. QED  BY <1>0, <2>2, <3>1 DEF ActionsReply, Budget, configVars, jobVars
  <2>3. ASSUME NEW ok \in BOOLEAN, MatchReply(c, ok) PROVE Budget'
    <3>1. ConfigCalls' = ConfigCalls
      BY <2>3 DEF MatchReply, ConfigCalls
    <3>. QED  BY <1>0, <2>3, <3>1 DEF MatchReply, Budget, configVars
  <2>. QED  BY <1>7, <2>1, <2>2, <2>3 DEF Reply
<1>. QED  BY <1>1, <1>2, <1>3, <1>4, <1>5, <1>6, <1>7 DEF Next, AnyReply

\* The types of the variables but for begun + posted.
Types ==
    /\ meta \in Metas
    /\ running \subseteq Services /\ matchingServices \subseteq Services
    /\ missed \subseteq Services /\ notices \in Seq(Notice)
    /\ actions \in [Services -> ActionLists \cup {{}}] /\ requestedActionServices \subseteq Services
    /\ actionsForSessionRequested \in BOOLEAN /\ matchWasCalled \in BOOLEAN
    /\ suspended \in {"unset", "yes", "no"} /\ initPosted \in BOOLEAN
    /\ constructed \in BOOLEAN /\ reloadedEarly \in BOOLEAN
    /\ query \in Queries \cup {<<>>} /\ single \in BOOLEAN
    /\ session \in BOOLEAN /\ events \in 0..MaxEvents /\ waiting \in BOOLEAN
    /\ posted \in Nat /\ begun \in Nat
    /\ calls \subseteq AnyCall
    /\ pendingServices \in [Jobs -> SUBSET Services]
    /\ reported \in Jobs \cup {0} /\ answers \in [Jobs -> Nat]
    /\ sessionActions \in [Services -> 0..2] /\ everActions \in [Services -> 0..2]
    /\ crashed \in BOOLEAN

\* The next job that is posted is one of Jobs.
LEMMA NextJob == ASSUME IInv PROVE posted > 0 => begun + 1 \in Jobs
<1>1. /\ Cardinality(ConfigCalls) \in Nat /\ begun \in Nat /\ posted \in Nat
      /\ events \in 0..MaxEvents /\ MaxEvents \in Nat
      /\ begun + posted + Cardinality(ConfigCalls) + (IF initPosted THEN 1 ELSE 0) <= 2 * events + 1
  BY FS_CardinalityType, BoundsAssumption DEF IInv, Budget, TypeOK
<1>. QED  BY <1>1 DEF Jobs

LEMMA CountType ==
    ASSUME NEW counts \in [Services -> 0..2], NEW asked
    PROVE  Count(counts, asked) \in [Services -> 0..2]
BY DEF Count

LEMMA CallsForType ==
    ASSUME NEW kind \in {"Config", "Actions", "Match"}, NEW asked \in SUBSET Services,
           NEW job \in Jobs
    PROVE  CallsFor(kind, asked, job) \subseteq AnyCall
BY DEF CallsFor, AnyCall

LEMMA RequestConfigType ==
    ASSUME NEW nr \in Jobs \cup {0}, RequestConfig(nr), calls \subseteq AnyCall,
           matchingServices \subseteq Services, crashed \in BOOLEAN
    PROVE  calls' \subseteq AnyCall /\ crashed' \in BOOLEAN
<1>1. \A s \in Services : [kind |-> "Config", service |-> s, nr |-> nr] \in AnyCall
  BY DEF AnyCall
<1>2. CASE matchingServices = {}
  BY <1>2 DEF RequestConfig
<1>3. CASE matchingServices # {}
  <2>1. PICK s \in matchingServices :
            calls' = calls \cup {[kind |-> "Config", service |-> s, nr |-> nr]}
    BY <1>3 DEF RequestConfig
  <2>2. [kind |-> "Config", service |-> s, nr |-> nr] \in AnyCall
    BY <1>1
  <2>. QED  BY <1>3, <2>1, <2>2 DEF RequestConfig
<1>. QED  BY <1>2, <1>3

LEMMA TypesInv == ASSUME IInv, Next PROVE Types'
<1>0. Types /\ Notice = [service : Services, old : BOOLEAN, new : BOOLEAN]
  BY DEF IInv, TypeOK, Types, Notice
<1>1. /\ MaxEvents \in Nat /\ Jobs = 1..(2 * MaxEvents + 1)
      /\ meta.events \in 0..MaxEvents
  BY <1>0, BoundsAssumption DEF Jobs, Types
<1>2. ASSUME NEW s \in Services, NEW new \in BOOLEAN, OwnerChanges(s, new) PROVE Types'
  <2>1. notices' \in Seq(Notice)
    <3>. DEFINE n == [service |-> s, old |-> s \in running, new |-> new]
    <3>1. n \in Notice
      BY DEF Notice
    <3>2. notices' = notices \/ notices' = Append(notices, n)
      BY <1>2 DEF OwnerChanges
    <3>. HIDE DEF n
    <3>3. Append(notices, n) \in Seq(Notice)
      BY <1>0, <3>1 DEF Types
    <3>. QED  BY <1>0, <3>2, <3>3 DEF Types
  <2>2. /\ events' \in 0..MaxEvents /\ reported' = 0
        /\ running' \subseteq Services /\ missed' \subseteq Services
    BY <1>0, <1>1, <1>2 DEF OwnerChanges, Event, Types
  <2>3. /\ UNCHANGED <<meta, matchingServices, actionVars, matchWasCalled, suspended>>
        /\ UNCHANGED <<configVars, managerVars, posted, jobVars, calls, crashed>>
    BY <1>2 DEF OwnerChanges
  <2>. QED
    BY <1>0, <2>1, <2>2, <2>3 DEF Types, actionVars, configVars, managerVars, jobVars
<1>3. CASE ServiceOwnerChanged
  <2>1. notices' \in Seq(Notice) /\ Head(notices) \in Notice
    BY <1>0, <1>3, HeadTailProperties DEF ServiceOwnerChanged, Types
  <2>2. matchingServices' \subseteq Services
    <3>1. Head(notices).service \in Services
      BY <2>1 DEF Notice
    <3>. QED  BY <1>0, <1>3, <3>1 DEF ServiceOwnerChanged, Types
  <2>3. /\ reported' = 0
        /\ UNCHANGED <<meta, running, missed, actionVars, matchWasCalled, suspended>>
        /\ UNCHANGED <<configVars, managerVars, posted, jobVars, calls, crashed, events>>
    BY <1>3 DEF ServiceOwnerChanged
  <2>. QED
    BY <1>0, <2>1, <2>2, <2>3 DEF Types, actionVars, configVars, managerVars, jobVars
<1>4. CASE RunInit
  <2>1. calls' \subseteq AnyCall /\ crashed' \in BOOLEAN
    BY <1>0, <1>4, RequestConfigType DEF RunInit, ReloadConfiguration, Types
  <2>2. suspended' \in {"unset", "yes", "no"} /\ posted' \in Nat
    BY <1>0, <1>4 DEF RunInit, ReloadConfiguration, Resume, Types
  <2>3. /\ reported' = 0 /\ initPosted' = FALSE
        /\ UNCHANGED <<meta, serviceVars, actionVars, matchWasCalled, managerVars, jobVars>>
        /\ UNCHANGED <<constructed, reloadedEarly, filter, triggerWords, events>>
    BY <1>4 DEF RunInit, ReloadConfiguration
  <2>. QED
    BY <1>0, <2>1, <2>2, <2>3 DEF Types, actionVars, serviceVars, managerVars, jobVars
<1>5. CASE ReloadConfigurationInternal
  <2>1. events' \in 0..MaxEvents /\ events' \in Jobs
    BY <1>0, <1>1, <1>5 DEF ReloadConfigurationInternal, ReloadConfiguration, Event, Types
  <2>2. calls' \subseteq AnyCall /\ crashed' \in BOOLEAN
    BY <1>0, <1>5, <2>1, RequestConfigType DEF ReloadConfigurationInternal,
        ReloadConfiguration, Types
  <2>3. /\ suspended' \in {"unset", "yes", "no"} /\ posted' \in Nat /\ reloadedEarly' \in BOOLEAN
    BY <1>0, <1>5 DEF ReloadConfigurationInternal, ReloadConfiguration, Types
  <2>4. /\ reported' = 0
        /\ UNCHANGED <<meta, serviceVars, actionVars, matchWasCalled, managerVars, jobVars>>
        /\ UNCHANGED <<constructed, initPosted, filter, triggerWords>>
    BY <1>5 DEF ReloadConfigurationInternal, ReloadConfiguration
  <2>. QED
    BY <1>0, <2>1, <2>2, <2>3, <2>4 DEF Types, actionVars, serviceVars, managerVars, jobVars
<1>6. CASE AnyQuery
  <2>1. /\ UNCHANGED <<meta, serviceVars, actionVars, matchWasCalled, suspended, configVars>>
        /\ UNCHANGED <<jobVars, calls, crashed>>
    BY <1>6, AnyQueryFacts
  <2>2. /\ events' \in 0..MaxEvents /\ posted' \in Nat /\ reported' = 0
        /\ query' \in Queries \cup {<<>>} /\ single' \in BOOLEAN
        /\ session' \in BOOLEAN /\ waiting' \in BOOLEAN
    <3>1. /\ events \in Nat /\ posted \in Nat /\ query \in Queries \cup {<<>>}
          /\ single \in BOOLEAN /\ session \in BOOLEAN /\ waiting \in BOOLEAN
      BY <1>0 DEF Types
    <3>2. /\ events' = events + 1 /\ events < meta.events /\ reported' = 0
          /\ posted' \in {posted, posted + 1}
      BY <1>6, AnyQueryFacts
    <3>3. /\ query' \in Queries \cup {query, <<>>} /\ single' \in {single} \cup BOOLEAN
          /\ session' \in {session, TRUE} /\ waiting' \in {waiting} \cup BOOLEAN
      BY <1>6, AnyQueryFacts
    <3>4. query' \in Queries \cup {<<>>}
      BY <3>1, <3>3
    <3>5. single' \in BOOLEAN /\ session' \in BOOLEAN /\ waiting' \in BOOLEAN
      BY <3>1, <3>3
    <3>. QED  BY <1>1, <3>1, <3>2, <3>4, <3>5
  <2>. QED  BY <1>0, <2>1, <2>2 DEF Types, actionVars, serviceVars, configVars, jobVars
<1>10. CASE Watch
  BY <1>0, <1>10, WatchFacts DEF Types, actionVars, managerVars, jobVars
<1>7. CASE Teardown
  <2>1. /\ session' = FALSE /\ waiting' = FALSE /\ actionsForSessionRequested' = FALSE
        /\ sessionActions' \in [Services -> 0..2] /\ matchWasCalled' = FALSE /\ reported' = 0
    BY <1>7 DEF Teardown
  <2>2. /\ UNCHANGED <<meta, serviceVars, actions, requestedActionServices, everActions>>
        /\ UNCHANGED <<query, single, suspended, configVars, posted, jobVars, calls, crashed, events>>
    BY <1>7 DEF Teardown
  <2>. QED  BY <1>0, <2>1, <2>2 DEF Types, serviceVars, configVars, jobVars
<1>8. CASE MatchInternal
  <2>. DEFINE job == begun + 1
  <2>1. job \in Jobs /\ posted > 0 /\ posted' = posted - 1 /\ begun' = job
    BY <1>8, NextJob DEF MatchInternal, StartJob, Take
  <2>2. posted' \in Nat /\ begun' \in Nat
    BY <1>0, <2>1 DEF Types
  <2>. HIDE DEF job
  <2>3. Unknown \subseteq matchingServices /\ matchingServices \subseteq Services
    BY <1>0 DEF Unknown, Types
  <2>4. calls' \subseteq AnyCall
    <3>1. calls' = calls \cup CallsFor("Actions", Unknown, job)
                         \cup CallsFor("Match", matchingServices \ Unknown, job)
      BY <1>8 DEF MatchInternal, StartJob, job
    <3>2. /\ CallsFor("Actions", Unknown, job) \subseteq AnyCall
          /\ CallsFor("Match", matchingServices \ Unknown, job) \subseteq AnyCall
      BY <2>1, <2>3, CallsForType
    <3>. QED  BY <1>0, <3>1, <3>2 DEF Types
  <2>5. /\ pendingServices' \in [Jobs -> SUBSET Services] /\ answers' \in [Jobs -> Nat]
    <3>1. /\ pendingServices' = [pendingServices EXCEPT ![job] = matchingServices]
          /\ answers' \in {answers, [answers EXCEPT ![job] = @ + 1]}
      BY <1>8 DEF MatchInternal, StartJob, job
    <3>2. pendingServices' \in [Jobs -> SUBSET Services]
      BY <1>0, <2>3, <3>1 DEF Types
    <3>3. answers' \in [Jobs -> Nat]
      BY <1>0, <3>1 DEF Types
    <3>. QED  BY <3>2, <3>3
  <2>6. /\ sessionActions' \in [Services -> 0..2] /\ everActions' \in [Services -> 0..2]
        /\ requestedActionServices' \subseteq Services
    BY <1>0, <1>8, <2>3, CountType DEF MatchInternal, StartJob, Types
  <2>7. /\ actionsForSessionRequested' = TRUE /\ matchWasCalled' = TRUE /\ reported' = 0
        /\ UNCHANGED <<meta, serviceVars, actions, suspended, configVars, managerVars>>
        /\ UNCHANGED <<crashed, events>>
    BY <1>8 DEF MatchInternal, StartJob
  <2>. QED
    BY <1>0, <2>2, <2>4, <2>5, <2>6, <2>7 DEF Types, serviceVars, configVars, managerVars
<1>9. ASSUME NEW c \in calls, Reply(c) PROVE Types'
  <2>0. c \in AnyCall /\ c.service \in Services
    BY <1>0 DEF Types, AnyCall
  <2>1. CASE ConfigError(c)
    <3>1. /\ calls' = calls \ {c} /\ suspended' = "no" /\ posted' \in Nat /\ reported' = 0
      BY <1>0, <2>1 DEF ConfigError, Resume, Types
    <3>2. /\ UNCHANGED <<meta, serviceVars, actionVars, matchWasCalled, configVars, managerVars>>
          /\ UNCHANGED <<jobVars, crashed, events>>
      BY <2>1 DEF ConfigError
    <3>. QED
      BY <1>0, <3>1, <3>2 DEF Types, serviceVars, actionVars, configVars, managerVars, jobVars
  <2>2. ASSUME NEW config \in Configs, ConfigReply(c, config) PROVE Types'
    <3>1. /\ calls' = calls \ {c} /\ suspended' = "no" /\ posted' \in Nat /\ reported' = 0
          /\ requestedActionServices' \subseteq Services
      BY <1>0, <2>0, <2>2 DEF ConfigReply, Resume, Types
    <3>3. actions' \in [Services -> ActionLists \cup {{}}]
      <4>1. "actions" \in DOMAIN config => config.actions \in ActionLists
        BY ConfigsAssumption
      <4>2. \/ actions' = actions
            \/ "actions" \in DOMAIN config /\ actions' = [actions EXCEPT ![c.service] = config.actions]
        BY <2>2 DEF ConfigReply
      <4>. QED  BY <1>0, <4>1, <4>2 DEF Types
    <3>2. /\ UNCHANGED <<meta, serviceVars, actionsForSessionRequested, sessionActions>>
          /\ UNCHANGED <<everActions, matchWasCalled, managerVars, jobVars, crashed, events>>
          /\ UNCHANGED <<constructed, initPosted, reloadedEarly>>
      BY <2>2 DEF ConfigReply
    <3>. QED  BY <1>0, <3>1, <3>2, <3>3 DEF Types, serviceVars, managerVars, jobVars
  <2>3. ASSUME NEW ok \in BOOLEAN, ActionsReply(c, ok) PROVE Types'
    <3>1. c.nr \in Jobs
      BY <2>3, JobsFacts DEF ActionsReply, IInv, Untouched, TypeOK, AnyCall
    <3>2. calls' \subseteq AnyCall /\ reported' = 0
      BY <1>0, <2>0, <2>3, <3>1, CallsForType DEF ActionsReply, Types
    <3>3. /\ UNCHANGED <<meta, serviceVars, requestedActionServices, actionsForSessionRequested>>
          /\ UNCHANGED <<sessionActions, everActions, matchWasCalled, suspended, configVars>>
          /\ UNCHANGED <<managerVars, posted, jobVars, crashed, events>>
      BY <2>3 DEF ActionsReply
    <3>4. actions' \in [Services -> ActionLists \cup {{}}]
      <4>1. \/ actions' = actions
            \/ \E list \in ActionLists : actions' = [actions EXCEPT ![c.service] = list]
        BY <2>3 DEF ActionsReply
      <4>. QED  BY <1>0, <4>1 DEF Types
    <3>. QED  BY <1>0, <3>2, <3>3, <3>4 DEF Types, serviceVars, configVars, managerVars, jobVars
  <2>4. ASSUME NEW ok \in BOOLEAN, MatchReply(c, ok) PROVE Types'
    <3>1. /\ calls' = calls \ {c} /\ reported' \in Jobs \cup {0}
          /\ pendingServices' \in [Jobs -> SUBSET Services] /\ answers' \in [Jobs -> Nat]
      <4>1. c.nr \in Jobs \cup {0}
        BY <1>0 DEF Types, AnyCall
      <4>2. pendingServices' = [pendingServices EXCEPT ![c.nr] = @ \ {c.service}]
        BY <2>4 DEF MatchReply
      <4>3. pendingServices' \in [Jobs -> SUBSET Services]
        BY <1>0, <4>2 DEF Types
      <4>4. answers' \in {answers, [answers EXCEPT ![c.nr] = @ + 1]}
        BY <2>4 DEF MatchReply
      <4>5. answers' \in [Jobs -> Nat]
        BY <1>0, <4>4 DEF Types
      <4>. QED  BY <2>4, <4>1, <4>3, <4>5 DEF MatchReply
    <3>2. /\ UNCHANGED <<meta, serviceVars, actionVars, matchWasCalled, suspended, configVars>>
          /\ UNCHANGED <<managerVars, posted, begun, crashed, events>>
      BY <2>4 DEF MatchReply
    <3>. QED  BY <1>0, <3>1, <3>2 DEF Types, serviceVars, actionVars, configVars, managerVars
  <2>. QED  BY <1>9, <2>1, <2>2, <2>3, <2>4 DEF Reply
<1>. QED
  BY <1>2, <1>3, <1>4, <1>5, <1>6, <1>7, <1>8, <1>9, <1>10 DEF Next, AnyReply

LEMMA TypeInv == ASSUME IInv, [Next]_vars PROVE TypeOK'
<1>1. Types'
  <2>1. CASE UNCHANGED vars
    BY <2>1
    DEF IInv, TypeOK, Types, Notice, vars, serviceVars, actionVars, configVars, managerVars, jobVars
  <2>. QED  BY <2>1, TypesInv
<1>2. Budget'
  BY BudgetInv
<1>3. begun' + posted' \in Jobs \cup {0}
  <2>. DEFINE b == begun'
              p == posted'
              e == events'
              n == Cardinality(ConfigCalls')
              k == IF initPosted' THEN 1 ELSE 0
  <2>1. n \in Nat
    BY <1>2, FS_CardinalityType DEF Budget
  <2>2. b \in Nat /\ p \in Nat /\ e \in 0..MaxEvents /\ MaxEvents \in Nat /\ k \in Nat
    BY <1>1, BoundsAssumption DEF Types
  <2>3. b + p + n + k <= 2 * e + 1
    BY <1>2 DEF Budget
  <2>. HIDE DEF b, p, e, n, k
  <2>4. b + p \in 0..(2 * MaxEvents + 1)
    BY <2>1, <2>2, <2>3
  <2>. QED  BY <2>4 DEF Jobs, b, p
<1>. QED  BY <1>1, <1>3 DEF TypeOK, Types, Notice

-----------------------------------------------------------------------------
(* Jobs and their calls *)

JobCalls == {c \in calls : c.kind # "Config"}

LEMMA JobCallsFacts ==
    /\ \A j : CallsOf(j) = {c \in JobCalls : c.nr = j}
    /\ Untouched <=> /\ \A c \in JobCalls : c.nr \in 1..begun
                     /\ \A j \in Jobs : j > begun => answers[j] = 0
BY DEF CallsOf, JobCalls, Untouched

\* Handlers that neither begin a job nor hear of one.
LEMMA QuietInv ==
    ASSUME IInv, JobCalls' = JobCalls, UNCHANGED jobVars
    PROVE  WaitsForItsCalls' /\ Untouched'
<1>1. /\ \A j : CallsOf(j)' = CallsOf(j)
      /\ Untouched' <=> Untouched
  <2>1. Untouched' <=> /\ \A c \in JobCalls' : c.nr \in 1..begun'
                       /\ \A j \in Jobs : j > begun' => answers'[j] = 0
    BY DEF JobCalls, Untouched
  <2>2. \A j : CallsOf(j)' = {c \in JobCalls' : c.nr = j}
    BY DEF CallsOf, JobCalls
  <2>. QED  BY <2>1, <2>2, JobCallsFacts DEF jobVars
<1>. QED  BY <1>1 DEF IInv, WaitsForItsCalls, jobVars

LEMMA CallsForFacts ==
    ASSUME NEW kind, NEW asked, NEW job
    PROVE  /\ \A c \in CallsFor(kind, asked, job) :
                c.kind = kind /\ c.nr = job /\ c.service \in asked
           /\ \A s \in asked : \E c \in CallsFor(kind, asked, job) : c.service = s
           /\ \A c, d \in CallsFor(kind, asked, job) : c.service = d.service => c = d
<1>. DEFINE f(s) == [kind |-> kind, service |-> s, nr |-> job]
<1>1. \A s \in asked : f(s).kind = kind /\ f(s).nr = job /\ f(s).service = s
  OBVIOUS
<1>2. CallsFor(kind, asked, job) = {f(s) : s \in asked}
  BY DEF CallsFor
<1>. HIDE DEF f
<1>. QED  BY <1>1, <1>2

LEMMA BeginInv ==
    ASSUME IInv, MatchInternal, NEW job, job = begun + 1
    PROVE  WaitsForItsCalls' /\ Untouched'
<1>. DEFINE asked == CallsFor("Actions", Unknown, job)
                          \cup CallsFor("Match", matchingServices \ Unknown, job)
<1>1. /\ job \in Jobs /\ begun \in Nat /\ begun' = job
      /\ pendingServices \in [Jobs -> SUBSET Services] /\ answers \in [Jobs -> Nat]
      /\ Untouched /\ WaitsForItsCalls /\ Unknown \subseteq matchingServices
  BY NextJob DEF MatchInternal, StartJob, Take, IInv, TypeOK, Unknown
<1>2. JobCalls' = JobCalls \cup asked
  <2>1. calls' = calls \cup asked
    BY DEF MatchInternal, StartJob
  <2>2. \A c \in asked : c.kind # "Config"
    BY DEF CallsFor
  <2>. HIDE DEF asked
  <2>. QED  BY <2>1, <2>2 DEF JobCalls
<1>3. /\ \A c \in asked : c.nr = job
      /\ {c.service : c \in asked} = matchingServices
      /\ \A c, d \in asked : c.service = d.service => c = d
  <2>. DEFINE rest == matchingServices \ Unknown
              known == CallsFor("Match", rest, job)
              unknown == CallsFor("Actions", Unknown, job)
  <2>1. /\ \A c \in known : c.nr = job /\ c.service \in rest
        /\ \A s \in rest : \E c \in known : c.service = s
        /\ \A c, d \in known : c.service = d.service => c = d
    <3>. HIDE DEF rest
    <3>. QED  BY CallsForFacts
  <2>2. /\ \A c \in unknown : c.nr = job /\ c.service \in Unknown
        /\ \A s \in Unknown : \E c \in unknown : c.service = s
        /\ \A c, d \in unknown : c.service = d.service => c = d
    BY CallsForFacts
  <2>3. asked = unknown \cup known
    OBVIOUS
  <2>. HIDE DEF known, unknown, asked
  <2>4. {c.service : c \in asked} \subseteq matchingServices
    BY <1>1, <2>1, <2>2, <2>3
  <2>5. matchingServices \subseteq {c.service : c \in asked}
    BY <2>1, <2>2, <2>3
  <2>6. (\A c \in asked : c.nr = job) /\ \A c, d \in asked : c.service = d.service => c = d
    BY <2>1, <2>2, <2>3
  <2>. QED  BY <2>4, <2>5, <2>6
<1>4. /\ pendingServices' = [pendingServices EXCEPT ![job] = matchingServices]
      /\ answers' = IF matchingServices = {} THEN [answers EXCEPT ![job] = @ + 1] ELSE answers
  BY DEF MatchInternal, StartJob
<1>. HIDE DEF asked
<1>5. CallsOf(job)' = asked
  <2>1. CallsOf(job)' = {c \in JobCalls' : c.nr = job}
    BY DEF CallsOf, JobCalls
  <2>2. \A c \in JobCalls : c.nr # job
    BY <1>1, JobCallsFacts
  <2>. QED  BY <1>2, <1>3, <2>1, <2>2
<1>6. \A j \in 1..begun : CallsOf(j)' = CallsOf(j)
  BY <1>1, <1>2, <1>3 DEF CallsOf, JobCalls
<1>7. answers[job] = 0
  BY <1>1 DEF Untouched
<1>8. WaitsForItsCalls'
  <2>. SUFFICES ASSUME NEW j \in 1..begun'
                PROVE  /\ pendingServices'[j] = {c.service : c \in CallsOf(j)'}
                       /\ \A c, d \in CallsOf(j)' : c.service = d.service => c = d
                       /\ answers'[j] = (IF CallsOf(j)' = {} THEN 1 ELSE 0)
    BY DEF WaitsForItsCalls
  <2>1. CASE j = job
    <3>1. matchingServices = {} <=> asked = {}
      BY <1>3
    <3>2. pendingServices'[job] = matchingServices
      BY <1>1, <1>4
    <3>3. answers'[job] = (IF matchingServices = {} THEN 1 ELSE 0)
      BY <1>1, <1>4, <1>7
    <3>. QED  BY <1>3, <1>5, <2>1, <3>1, <3>2, <3>3
  <2>2. CASE j \in 1..begun
    <3>1. j # job /\ j \in Jobs
      BY <1>1, <2>2, BoundsAssumption DEF Jobs
    <3>2. pendingServices'[j] = pendingServices[j] /\ answers'[j] = answers[j]
      BY <1>1, <1>4, <3>1
    <3>. QED  BY <1>1, <1>6, <2>2, <3>2 DEF WaitsForItsCalls
  <2>. QED  BY <1>1, <2>1, <2>2
<1>9. Untouched'
  <2>1. \A c \in JobCalls' : c.nr \in 1..begun'
    BY <1>1, <1>2, <1>3, JobCallsFacts
  <2>2. \A j \in Jobs : j > begun' => answers'[j] = 0
    BY <1>1, <1>4, BoundsAssumption DEF Untouched, Jobs
  <2>. QED  BY <2>1, <2>2 DEF Untouched, JobCalls
<1>. QED  BY <1>8, <1>9

\* The reply to c is handled and the calls of other jobs are what they were.
LEMMA ActionsReplyInv ==
    ASSUME IInv, NEW c \in calls, NEW ok \in BOOLEAN, ActionsReply(c, ok)
    PROVE  WaitsForItsCalls' /\ Untouched'
<1>. DEFINE d == [kind |-> "Match", service |-> c.service, nr |-> c.nr]
<1>1. /\ c \in CallsOf(c.nr) /\ c.nr \in 1..begun /\ UNCHANGED jobVars
      /\ calls' = (calls \ {c}) \cup {d}
  BY DEF ActionsReply, CallsOf, IInv, Untouched, CallsFor
<1>2. d.kind # "Config" /\ d.service = c.service /\ d.nr = c.nr
  OBVIOUS
<1>. HIDE DEF d
<1>3. \A j : CallsOf(j)' = IF j = c.nr THEN (CallsOf(j) \ {c}) \cup {d} ELSE CallsOf(j)
  BY <1>1, <1>2 DEF CallsOf
<1>4. WaitsForItsCalls'
  <2>. SUFFICES ASSUME NEW j \in 1..begun
                PROVE  /\ pendingServices[j] = {x.service : x \in CallsOf(j)'}
                       /\ \A x, y \in CallsOf(j)' : x.service = y.service => x = y
                       /\ answers[j] = (IF CallsOf(j)' = {} THEN 1 ELSE 0)
    BY <1>1 DEF WaitsForItsCalls, jobVars
  <2>1. /\ pendingServices[j] = {x.service : x \in CallsOf(j)}
        /\ \A x, y \in CallsOf(j) : x.service = y.service => x = y
        /\ answers[j] = (IF CallsOf(j) = {} THEN 1 ELSE 0)
    BY DEF IInv, WaitsForItsCalls
  <2>2. CASE j = c.nr
    <3>1. CallsOf(j)' = (CallsOf(j) \ {c}) \cup {d} /\ c \in CallsOf(j)
      BY <1>1, <1>3, <2>2
    <3>. QED  BY <1>2, <2>1, <3>1
  <2>3. CASE j # c.nr
    BY <1>3, <2>1, <2>3
  <2>. QED  BY <2>2, <2>3
<1>5. Untouched'
  BY <1>1, <1>2 DEF IInv, Untouched, jobVars
<1>. QED  BY <1>4, <1>5

LEMMA MatchReplyInv ==
    ASSUME IInv, NEW c \in calls, NEW ok \in BOOLEAN, MatchReply(c, ok)
    PROVE  WaitsForItsCalls' /\ Untouched'
<1>1. /\ c \in CallsOf(c.nr) /\ c.nr \in 1..begun /\ begun' = begun /\ calls' = calls \ {c}
      /\ pendingServices' = [pendingServices EXCEPT ![c.nr] = @ \ {c.service}]
      /\ answers' = IF pendingServices[c.nr] \ {c.service} = {}
                    THEN [answers EXCEPT ![c.nr] = @ + 1] ELSE answers
  BY DEF MatchReply, CallsOf, IInv, Untouched
<1>2. \A j : CallsOf(j)' = CallsOf(j) \ {c}
  BY <1>1 DEF CallsOf
<1>3. 1..begun \subseteq Jobs /\ begun \in Nat
  <2>1. begun \in Nat /\ posted \in Nat /\ begun + posted \in Jobs \cup {0}
    BY DEF IInv, TypeOK
  <2>. QED  BY <2>1, BoundsAssumption DEF Jobs
<1>4. pendingServices \in [Jobs -> SUBSET Services] /\ answers \in [Jobs -> Nat]
  BY DEF IInv, TypeOK
<1>5. WaitsForItsCalls'
  <2>. SUFFICES ASSUME NEW j \in 1..begun
                PROVE  /\ pendingServices'[j] = {x.service : x \in CallsOf(j)'}
                       /\ \A x, y \in CallsOf(j)' : x.service = y.service => x = y
                       /\ answers'[j] = (IF CallsOf(j)' = {} THEN 1 ELSE 0)
    BY <1>1 DEF WaitsForItsCalls
  <2>1. /\ pendingServices[j] = {x.service : x \in CallsOf(j)}
        /\ \A x, y \in CallsOf(j) : x.service = y.service => x = y
        /\ answers[j] = (IF CallsOf(j) = {} THEN 1 ELSE 0)
    BY DEF IInv, WaitsForItsCalls
  <2>2. CASE j = c.nr
    <3>1. /\ CallsOf(j)' = CallsOf(j) \ {c} /\ c \in CallsOf(j) /\ answers[j] = 0
          /\ pendingServices'[j] = pendingServices[j] \ {c.service}
      BY <1>1, <1>2, <1>3, <1>4, <2>1, <2>2
    <3>2. pendingServices'[j] = {x.service : x \in CallsOf(j)'}
      BY <2>1, <3>1
    <3>3. answers'[j] = (IF pendingServices'[j] = {} THEN 1 ELSE 0)
      BY <1>1, <1>3, <1>4, <2>2, <3>1
    <3>. QED  BY <2>1, <3>1, <3>2, <3>3
  <2>3. CASE j # c.nr
    <3>1. c \notin CallsOf(j)
      BY <2>3 DEF CallsOf
    <3>2. CallsOf(j)' = CallsOf(j)
      BY <1>2, <3>1
    <3>3. pendingServices'[j] = pendingServices[j] /\ answers'[j] = answers[j]
      BY <1>1, <1>3, <1>4, <2>3
    <3>. QED  BY <2>1, <3>2, <3>3
  <2>. QED  BY <2>2, <2>3
<1>6. Untouched'
  <2>1. \A x \in calls' : x.kind = "Config" \/ x.nr \in 1..begun'
    BY <1>1 DEF IInv, Untouched
  <2>2. \A j \in Jobs : j > begun' => answers'[j] = 0
    BY <1>1, <1>3, <1>4 DEF IInv, Untouched, Jobs
  <2>. QED  BY <2>1, <2>2 DEF Untouched
<1>. QED  BY <1>5, <1>6

LEMMA WaitsInv == ASSUME IInv, [Next]_vars PROVE WaitsForItsCalls' /\ Untouched'
<1>1. CASE \/ \E s \in Services, new \in BOOLEAN : OwnerChanges(s, new)
           \/ ServiceOwnerChanged \/ Watch \/ AnyQuery \/ Teardown \/ UNCHANGED vars
  <2>1. UNCHANGED <<calls, jobVars>>
    BY <1>1, WatchFacts, AnyQueryFacts DEF OwnerChanges, ServiceOwnerChanged, Teardown, vars
  <2>. QED  BY <2>1, QuietInv DEF JobCalls
<1>2. CASE RunInit \/ ReloadConfigurationInternal
  <2>1. UNCHANGED jobVars
    BY <1>2 DEF RunInit, ReloadConfigurationInternal, ReloadConfiguration
  <2>2. UNCHANGED calls \/ \E nr : RequestConfig(nr)
    BY <1>2 DEF RunInit, ReloadConfigurationInternal, ReloadConfiguration
  <2>3. JobCalls' = JobCalls
    BY <2>2 DEF RequestConfig, JobCalls
  <2>. QED  BY <2>1, <2>3, QuietInv
<1>3. ASSUME NEW c \in calls,
             ConfigError(c) \/ \E config \in Configs : ConfigReply(c, config)
      PROVE  WaitsForItsCalls' /\ Untouched'
  <2>1. UNCHANGED jobVars /\ c.kind = "Config" /\ calls' = calls \ {c}
    BY <1>3 DEF ConfigError, ConfigReply
  <2>. QED  BY <2>1, QuietInv DEF JobCalls
<1>. QED
  BY <1>1, <1>2, <1>3, BeginInv, ActionsReplyInv, MatchReplyInv DEF Next, AnyReply, Reply

-----------------------------------------------------------------------------
(* Actions *)

LEMMA ActionsInv == ASSUME IInv, [Next]_vars PROVE AskedIsRemembered' /\ ActionsAtMostOnce'
<1>0. /\ AskedIsRemembered /\ ActionsAtMostOnce
      /\ sessionActions \in [Services -> 0..2] /\ everActions \in [Services -> 0..2]
  BY DEF IInv, TypeOK
<1>1. ASSUME UNCHANGED <<meta, actionVars>>
      PROVE  AskedIsRemembered' /\ ActionsAtMostOnce'
  BY <1>0, <1>1 DEF AskedIsRemembered, ActionsAtMostOnce, actionVars
<1>2. CASE \/ \E s \in Services, new \in BOOLEAN : OwnerChanges(s, new)
           \/ ServiceOwnerChanged \/ RunInit \/ ReloadConfigurationInternal \/ Watch \/ AnyQuery
           \/ UNCHANGED vars
  <2>1. UNCHANGED <<meta, actionVars>>
    BY <1>2, WatchFacts, AnyQueryFacts
    DEF OwnerChanges, ServiceOwnerChanged, RunInit, ReloadConfigurationInternal,
        ReloadConfiguration, vars
  <2>. QED  BY <1>1, <2>1
<1>3. CASE Teardown
  <2>1. /\ \A s \in Services : sessionActions'[s] = 0
        /\ UNCHANGED <<meta, requestedActionServices, everActions>>
    BY <1>3 DEF Teardown
  <2>. QED  BY <1>0, <2>1 DEF AskedIsRemembered, ActionsAtMostOnce
<1>4. CASE MatchInternal
  <2>1. /\ sessionActions' = Count(sessionActions, Unknown)
        /\ everActions' = IF meta.once THEN Count(everActions, Unknown) ELSE everActions
        /\ requestedActionServices' =
                IF meta.once THEN requestedActionServices \cup Unknown ELSE requestedActionServices
        /\ actionsForSessionRequested' = TRUE /\ UNCHANGED meta
    BY <1>4 DEF MatchInternal, StartJob
  <2>2. \A counts \in [Services -> 0..2], s \in Services :
            Count(counts, Unknown)[s] \in
                IF s \in Unknown THEN {counts[s], counts[s] + 1} ELSE {counts[s]}
    BY DEF Count
  <2>3. \A s \in Unknown : sessionActions[s] = 0 \/ s \notin Services
    BY <1>0 DEF Unknown, AskedIsRemembered
  <2>4. meta.once => \A s \in Unknown : everActions[s] = 0 \/ s \notin Services
    BY <1>0 DEF Unknown, AskedIsRemembered
  <2>5. \A s \in Services : sessionActions'[s] <= 1
    <3>. SUFFICES ASSUME NEW s \in Services PROVE sessionActions'[s] <= 1
      OBVIOUS
    <3>1. sessionActions'[s] \in
            IF s \in Unknown THEN {sessionActions[s], sessionActions[s] + 1} ELSE {sessionActions[s]}
      BY <1>0, <2>1, <2>2
    <3>. QED  BY <1>0, <2>3, <3>1 DEF ActionsAtMostOnce
  <2>6. meta.once => \A s \in Services :
            /\ everActions'[s] <= 1
            /\ s \notin requestedActionServices' => everActions'[s] = 0
    <3>. SUFFICES ASSUME meta.once, NEW s \in Services
                  PROVE  /\ everActions'[s] <= 1
                         /\ s \notin requestedActionServices' => everActions'[s] = 0
      OBVIOUS
    <3>1. everActions'[s] \in
            IF s \in Unknown THEN {everActions[s], everActions[s] + 1} ELSE {everActions[s]}
      BY <1>0, <2>1, <2>2
    <3>2. requestedActionServices' = requestedActionServices \cup Unknown
      BY <2>1
    <3>. QED  BY <1>0, <2>4, <3>1, <3>2 DEF ActionsAtMostOnce, AskedIsRemembered
  <2>. QED  BY <2>1, <2>5, <2>6 DEF AskedIsRemembered, ActionsAtMostOnce
<1>5. ASSUME NEW c \in calls, Reply(c) PROVE AskedIsRemembered' /\ ActionsAtMostOnce'
  <2>1. /\ UNCHANGED <<meta, actionsForSessionRequested, sessionActions, everActions>>
        /\ requestedActionServices \subseteq requestedActionServices'
    BY <1>5 DEF Reply, ConfigError, ConfigReply, ActionsReply, MatchReply, actionVars
  <2>. QED  BY <1>0, <2>1 DEF AskedIsRemembered, ActionsAtMostOnce
<1>. QED  BY <1>2, <1>3, <1>4, <1>5 DEF Next, AnyReply

-----------------------------------------------------------------------------
(* Suspension *)

LEMMA SuspensionInv == ASSUME IInv, [Next]_vars PROVE EarlySuspension' /\ NeverStuck'
<1>0. /\ EarlySuspension /\ NeverStuck /\ suspended \in {"unset", "yes", "no"}
      /\ initPosted \in BOOLEAN /\ reloadedEarly \in BOOLEAN /\ crashed \in BOOLEAN
      /\ IsFiniteSet(ConfigCalls)
  BY DEF IInv, TypeOK, Budget
<1>1. ASSUME UNCHANGED <<meta, suspended, initPosted, reloadedEarly, crashed>>,
             ConfigCalls \subseteq calls'
      PROVE  EarlySuspension' /\ NeverStuck'
  BY <1>0, <1>1 DEF EarlySuspension, NeverStuck, ConfigCalls
<1>2. CASE \/ \E s \in Services, new \in BOOLEAN : OwnerChanges(s, new)
           \/ ServiceOwnerChanged \/ Watch \/ AnyQuery \/ Teardown \/ MatchInternal
           \/ UNCHANGED vars
  <2>1. /\ UNCHANGED <<meta, suspended, initPosted, reloadedEarly, crashed>>
        /\ calls \subseteq calls'
    BY <1>2, WatchFacts, AnyQueryFacts
    DEF OwnerChanges, ServiceOwnerChanged, Teardown, MatchInternal, StartJob, vars, configVars
  <2>. QED  BY <1>1, <2>1 DEF ConfigCalls
<1>3. CASE RunInit
  <2>1. initPosted /\ ~initPosted' /\ UNCHANGED <<meta, reloadedEarly>>
    BY <1>3 DEF RunInit, ReloadConfiguration
  <2>2. CASE meta.lifecycle
    <3>1. RequestConfig(0)
      BY <1>3, <2>2 DEF RunInit, ReloadConfiguration
    <3>2. crashed' \/ \E c \in calls' : c.kind = "Config"
      BY <1>0, <3>1, RequestConfigFacts
    <3>. QED  BY <2>1, <3>2 DEF EarlySuspension, NeverStuck
  <2>3. CASE ~meta.lifecycle
    <3>1. suspended' = IF suspended = "unset" THEN "no" ELSE suspended
      BY <1>3, <2>3 DEF RunInit, ReloadConfiguration, Resume
    <3>. QED  BY <1>0, <2>1, <2>3, <3>1 DEF EarlySuspension, NeverStuck
  <2>. QED  BY <2>2, <2>3
<1>4. CASE ReloadConfigurationInternal
  <2>1. /\ reloadedEarly' = (reloadedEarly \/ initPosted) /\ UNCHANGED <<meta, initPosted>>
        /\ suspended' = IF suspended = "no" THEN "no" ELSE "yes"
    BY <1>4 DEF ReloadConfigurationInternal, ReloadConfiguration
  <2>2. EarlySuspension'
    BY <2>1 DEF EarlySuspension
  <2>3. calls \subseteq calls' /\ (crashed => crashed')
    <3>1. RequestConfig(events') \/ UNCHANGED <<calls, crashed>>
      BY <1>4 DEF ReloadConfigurationInternal, ReloadConfiguration
    <3>. QED  BY <3>1 DEF RequestConfig
  <2>4. NeverStuck'
    BY <1>0, <2>1, <2>3 DEF NeverStuck
  <2>. QED  BY <2>2, <2>4
<1>5. ASSUME NEW c \in calls, Reply(c) PROVE EarlySuspension' /\ NeverStuck'
  <2>1. CASE ConfigError(c) \/ \E config \in Configs : ConfigReply(c, config)
    <3>1. suspended' = "no"
      BY <2>1 DEF ConfigError, ConfigReply, Resume
    <3>. QED  BY <3>1 DEF EarlySuspension, NeverStuck
  <2>2. CASE \E ok \in BOOLEAN : ActionsReply(c, ok) \/ MatchReply(c, ok)
    <3>1. /\ c.kind # "Config" /\ calls \ {c} \subseteq calls'
          /\ UNCHANGED <<meta, suspended, initPosted, reloadedEarly, crashed>>
      BY <2>2 DEF ActionsReply, MatchReply, configVars
    <3>. QED  BY <1>1, <3>1 DEF ConfigCalls
  <2>. QED  BY <1>5, <2>1, <2>2 DEF Reply
<1>. QED  BY <1>2, <1>3, <1>4, <1>5 DEF Next, AnyReply

-----------------------------------------------------------------------------
(* Services *)

LEMMA OwnerChangesInv ==
    ASSUME IInv, NEW s \in Services, NEW new \in BOOLEAN, OwnerChanges(s, new)
    PROVE  NoticesTell'
<1>. DEFINE n == [service |-> s, old |-> s \in running, new |-> new]
            len == Len(notices)
<1>0. CASE ~constructed
  BY <1>0 DEF OwnerChanges, configVars, IInv, NoticesTell
<1>. SUFFICES ASSUME constructed PROVE NoticesTell'
  BY <1>0
<1>1. /\ meta.wildcard /\ UNCHANGED <<constructed, matchingServices>>
      /\ notices' = Append(notices, n)
      /\ Handled(n, Noticed, Noticed')
  <2>1. /\ running' = IF new THEN running \cup {s} ELSE running \ {s}
        /\ missed' = IF s \in running /\ new THEN missed ELSE missed \ {s}
        /\ s \in running \/ new
    BY DEF OwnerChanges
  <2>2. Handled(n, Noticed, Noticed')
    <3>1. CASE s \in running /\ new
      BY <2>1, <3>1 DEF Handled, Noticed
    <3>2. CASE s \notin running /\ new
      BY <2>1, <3>2 DEF Handled, Noticed
    <3>3. CASE ~new
      BY <2>1, <3>3 DEF Handled, Noticed
    <3>. QED  BY <3>1, <3>2, <3>3
  <2>. QED  BY <2>2 DEF OwnerChanges, configVars
<1>2. /\ notices \in Seq(Notice) /\ Noticed \subseteq Services /\ Noticed' \subseteq Services
  <2>1. notices \in Seq(Notice) /\ running \subseteq Services /\ missed \subseteq Services
    BY DEF IInv, TypeOK, Notice
  <2>2. running' \subseteq Services /\ missed' \subseteq Services
    BY <2>1 DEF OwnerChanges
  <2>. QED  BY <2>1, <2>2 DEF Noticed
<1>3. n \in Notice
  BY DEF Notice
<1>. HIDE DEF n
<1>4. PICK h : IsHistory(h)
  BY <1>1 DEF IInv, NoticesTell
<1>5. /\ len \in Nat /\ Len(notices') = len + 1
      /\ \A i \in 1..len : notices'[i] = notices[i]
      /\ notices'[len + 1] = n
  BY <1>1, <1>2, <1>3
<1>. HIDE DEF len
<1>6. /\ h \in [0..len -> SUBSET Services] /\ h[0] = matchingServices /\ h[len] = Noticed
      /\ \A i \in 1..len : Handled(notices[i], h[i - 1], h[i])
  BY <1>4 DEF IsHistory, len
<1>7. \E g : /\ g \in [0..(len + 1) -> SUBSET Services]
             /\ g[0] = matchingServices' /\ g[len + 1] = Noticed'
             /\ \A i \in 0..len : g[i] = h[i]
  <2>. DEFINE f == [i \in 0..(len + 1) |-> IF i <= len THEN h[i] ELSE Noticed']
  <2>1. /\ f \in [0..(len + 1) -> SUBSET Services]
        /\ f[0] = matchingServices' /\ f[len + 1] = Noticed'
        /\ \A i \in 0..len : f[i] = h[i]
    BY <1>1, <1>2, <1>5, <1>6
  <2>. HIDE DEF f
  <2>. QED  BY <2>1
<1>8. PICK g : /\ g \in [0..(len + 1) -> SUBSET Services]
               /\ g[0] = matchingServices' /\ g[len + 1] = Noticed'
               /\ \A i \in 0..len : g[i] = h[i]
  BY <1>7
<1>9. ASSUME NEW i \in 1..(len + 1) PROVE Handled(notices'[i], g[i - 1], g[i])
  <2>1. CASE i \in 1..len
    <3>1. g[i] = h[i] /\ g[i - 1] = h[i - 1] /\ notices'[i] = notices[i]
      BY <1>5, <1>8, <2>1
    <3>. QED  BY <1>6, <2>1, <3>1
  <2>2. CASE i = len + 1
    <3>1. g[i] = Noticed' /\ g[i - 1] = Noticed /\ notices'[i] = n
      BY <1>5, <1>6, <1>8, <2>2
    <3>. QED  BY <1>1, <3>1
  <2>. QED  BY <1>5, <2>1, <2>2
<1>10. IsHistory(g)'
  BY <1>5, <1>8, <1>9 DEF IsHistory, Handled
<1>. QED  BY <1>1, <1>10 DEF NoticesTell

LEMMA NoticeHandledInv == ASSUME IInv, ServiceOwnerChanged PROVE NoticesTell'
<1>. DEFINE n == Head(notices)
            len == Len(notices)
<1>1. /\ notices # <<>> /\ notices' = Tail(notices) /\ UNCHANGED <<meta, running, missed, constructed>>
      /\ matchingServices' = IF n.old /\ n.new THEN matchingServices
                             ELSE IF n.new THEN matchingServices \cup {n.service}
                             ELSE matchingServices \ {n.service}
  BY DEF ServiceOwnerChanged, configVars
<1>2. notices \in Seq(Notice)
  BY DEF IInv, TypeOK, Notice
<1>3. /\ len \in Nat \ {0} /\ Len(notices') = len - 1 /\ n = notices[1]
      /\ \A i \in 1..(len - 1) : notices'[i] = notices[i + 1]
  BY <1>1, <1>2, HeadTailProperties
<1>. SUFFICES ASSUME meta.wildcard PROVE \E g : IsHistory(g)'
  BY <1>1 DEF IInv, NoticesTell
<1>4. PICK h : IsHistory(h)
  BY <1>1 DEF IInv, NoticesTell
<1>. HIDE DEF len, n
<1>5. /\ h \in [0..len -> SUBSET Services] /\ h[0] = matchingServices /\ h[len] = Noticed
      /\ \A i \in 1..len : Handled(notices[i], h[i - 1], h[i])
  BY <1>4 DEF IsHistory, len
<1>6. matchingServices' = h[1]
  <2>1. 1 \in 1..len /\ 1 - 1 = 0
    BY <1>3
  <2>. QED  BY <1>1, <1>3, <1>5, <2>1 DEF Handled
<1>7. PICK g : g = [i \in 0..(len - 1) |-> h[i + 1]]
  OBVIOUS
<1>8. /\ g \in [0..(len - 1) -> SUBSET Services]
      /\ g[0] = matchingServices' /\ g[len - 1] = Noticed'
      /\ \A i \in 0..(len - 1) : g[i] = h[i + 1]
  <2>1. \A i \in 0..(len - 1) : i + 1 \in 0..len /\ g[i] = h[i + 1]
    BY <1>3, <1>7
  <2>2. 0 \in 0..(len - 1) /\ len - 1 \in 0..(len - 1) /\ 0 + 1 = 1 /\ (len - 1) + 1 = len
    BY <1>3
  <2>3. g[0] = h[1] /\ g[len - 1] = h[len]
    <3>1. g[0] = h[0 + 1] /\ g[len - 1] = h[(len - 1) + 1]
      BY <2>1, <2>2
    <3>. QED  BY <2>2, <3>1
  <2>4. g \in [0..(len - 1) -> SUBSET Services]
    BY <1>5, <1>7, <2>1
  <2>5. Noticed' = Noticed
    BY <1>1 DEF Noticed
  <2>. QED  BY <1>1, <1>5, <1>6, <2>1, <2>3, <2>4, <2>5
<1>9. ASSUME NEW i \in 1..(len - 1) PROVE Handled(notices'[i], g[i - 1], g[i])
  <2>1. g[i] = h[i + 1] /\ notices'[i] = notices[i + 1]
    BY <1>3, <1>8
  <2>2. g[i - 1] = h[(i - 1) + 1] /\ (i - 1) + 1 = i
    BY <1>3, <1>8
  <2>3. Handled(notices[i + 1], h[(i + 1) - 1], h[i + 1]) /\ (i + 1) - 1 = i
    BY <1>3, <1>5
  <2>. QED  BY <2>1, <2>2, <2>3
<1>10. IsHistory(g)'
  BY <1>3, <1>8, <1>9 DEF IsHistory, Handled
<1>. QED  BY <1>10

\* When the runner starts to watch, what it does not know is missed.
LEMMA WatchInv == ASSUME IInv, Watch PROVE NoticesTell'
<1>. SUFFICES ASSUME meta.wildcard PROVE \E h : IsHistory(h)'
  BY WatchFacts DEF NoticesTell
<1>1. /\ notices = <<>> /\ notices' = <<>> /\ matchingServices' = matchingServices
      /\ matchingServices \subseteq Services /\ running \subseteq Services
  BY DEF Watch, IInv, NoticesTell, TypeOK
<1>2. Noticed' = matchingServices
  <2>1. /\ missed' = (running \ matchingServices) \cup (matchingServices \ running)
        /\ running' = running
    BY DEF Watch
  <2>. QED  BY <2>1 DEF Noticed
<1>3. PICK h : h = [i \in 0..0 |-> matchingServices]
  OBVIOUS
<1>4. IsHistory(h)'
  BY <1>1, <1>2, <1>3 DEF IsHistory, Handled
<1>. QED  BY <1>4

LEMMA NoticesInv == ASSUME IInv, [Next]_vars PROVE NoticesTell'
<1>1. ASSUME UNCHANGED <<meta, constructed, serviceVars>> PROVE NoticesTell'
  <2>1. \A h : IsHistory(h)' <=> IsHistory(h)
    BY <1>1 DEF IsHistory, Noticed, serviceVars
  <2>. QED  BY <1>1, <2>1 DEF IInv, NoticesTell, serviceVars
<1>2. CASE RunInit \/ ReloadConfigurationInternal \/ AnyQuery \/ Teardown \/ MatchInternal
           \/ AnyReply \/ UNCHANGED vars
  <2>1. UNCHANGED <<meta, constructed, serviceVars>>
    BY <1>2, AnyQueryFacts
    DEF RunInit, ReloadConfigurationInternal,
        ReloadConfiguration, Teardown, MatchInternal, StartJob,
        AnyReply, Reply, ConfigError, ConfigReply, ActionsReply, MatchReply, vars, configVars
  <2>. QED  BY <1>1, <2>1
<1>. QED  BY <1>2, OwnerChangesInv, WatchInv, NoticeHandledInv DEF Next

LEMMA NextInv == IInv /\ [Next]_vars => IInv'
BY BudgetInv, TypeInv, WaitsInv, ActionsInv, SuspensionInv, NoticesInv DEF IInv

LEMMA InvTheorem == Spec => []IInv
BY InitInv, NextInv, PTL DEF Spec

-----------------------------------------------------------------------------

\* Every variable has its type; the jobs that the manager posts are bounded by what
\* happens to it.
THEOREM TypeTheorem == Spec => []TypeOK
BY InvTheorem, PTL DEF IInv

\* A job waits for exactly the services that still owe it a reply and is answered once
\* there are none, for any services and any order of replies, errors and changes.
THEOREM WaitsTheorem == Spec => []WaitsForItsCalls
BY InvTheorem, PTL DEF IInv

\* Actions are asked for once a session, and once ever if the plugin wants that.
THEOREM ActionsTheorem == Spec => []ActionsAtMostOnce
BY InvTheorem, PTL DEF IInv

\* A suspended runner is always going to be resumed, but for a reload before init().
THEOREM NeverStuckTheorem == Spec => []NeverStuck
BY InvTheorem, PTL DEF IInv

\* When all changes of owners are handled the runner knows the services on the bus, but for
\* those it missed, whether the list failed or the bus changed before it watched.
THEOREM ServicesTheorem == Spec => []ServicesTracked
<1>1. IInv => ServicesTracked
  <2>. SUFFICES ASSUME IInv, meta.wildcard, constructed, notices = <<>>,
                       NEW s \in Services \ missed
                PROVE  s \in matchingServices <=> s \in running
    BY DEF ServicesTracked
  <2>1. PICK h : IsHistory(h)
    BY DEF IInv, NoticesTell
  <2>2. matchingServices = Noticed
    BY <2>1 DEF IsHistory
  <2>. QED  BY <2>2 DEF Noticed
<1>. QED  BY <1>1, InvTheorem, PTL

\* The runner implements the contract that the manager relies on.
THEOREM ContractTheorem == Spec => KeepsContract
<1>1. Init => Contract!Init
  BY DEF Init, Contract!Init
<1>2. IInv /\ [Next]_vars => [Contract!Next]_(Contract!jobVars)
  <2>. SUFFICES ASSUME IInv, [Next]_vars PROVE Contract!Next \/ UNCHANGED Contract!jobVars
    OBVIOUS
  <2>1. CASE UNCHANGED vars
    BY <2>1 DEF vars, jobVars, Contract!jobVars
  <2>2. CASE MatchInternal
    <3>1. begun + 1 \in Jobs /\ answers \in [Jobs -> Nat] /\ answers[begun + 1] = 0
      <4>1. begun + 1 \in Jobs /\ begun \in Nat
        BY <2>2, NextJob DEF MatchInternal, StartJob, Take, IInv, TypeOK
      <4>. QED  BY <4>1 DEF IInv, TypeOK, Untouched
    <3>2. /\ begun' = begun + 1 /\ reported' = 0
          /\ answers' = IF matchingServices = {} THEN [answers EXCEPT ![begun + 1] = @ + 1]
                        ELSE answers
      BY <2>2 DEF MatchInternal, StartJob, Take
    <3>3. Contract!Start
      BY <3>1, <3>2 DEF Contract!Start
    <3>. QED  BY <3>3 DEF Contract!Next
  <2>3. ASSUME NEW c \in calls, NEW ok \in BOOLEAN, MatchReply(c, ok) PROVE Contract!Next
    <3>1. /\ c \in CallsOf(c.nr) /\ c.nr \in 1..begun /\ answers[c.nr] = 0
          /\ begun \in Nat /\ begun + posted \in Jobs \cup {0} /\ posted \in Nat
          /\ answers \in [Jobs -> Nat]
      <4>1. c \in CallsOf(c.nr) /\ c.nr \in 1..begun
        BY <2>3 DEF MatchReply, CallsOf, IInv, Untouched
      <4>. QED  BY <4>1 DEF IInv, TypeOK, WaitsForItsCalls
    <3>2. c.nr \in Jobs /\ c.nr <= begun
      BY <3>1, BoundsAssumption DEF Jobs
    <3>3. /\ reported' \in {0, c.nr} /\ UNCHANGED begun
          /\ answers' \in {answers, [answers EXCEPT ![c.nr] = 1]}
      BY <2>3, <3>1 DEF MatchReply
    <3>4. Contract!Work(c.nr)
      BY <3>1, <3>2, <3>3 DEF Contract!Work
    <3>. QED  BY <3>2, <3>4 DEF Contract!Next
  <2>4. CASE \/ \E s \in Services, new \in BOOLEAN : OwnerChanges(s, new)
             \/ ServiceOwnerChanged \/ RunInit \/ ReloadConfigurationInternal \/ AnyQuery
             \/ Teardown
             \/ \E c \in calls : \/ ConfigError(c) \/ \E ok \in BOOLEAN : ActionsReply(c, ok)
                                 \/ \E config \in Configs : ConfigReply(c, config)
    <3>1. reported' = 0 /\ UNCHANGED <<begun, answers>>
      BY <2>4, AnyQueryFacts
      DEF OwnerChanges, ServiceOwnerChanged, RunInit, ReloadConfigurationInternal,
          ReloadConfiguration,
          Teardown, ConfigError, ActionsReply, ConfigReply, jobVars
    <3>. QED  BY <3>1 DEF Contract!Next, Contract!Idle
  <2>5. CASE Watch
    BY <2>5, WatchFacts DEF jobVars, Contract!jobVars
  <2>. QED  BY <2>1, <2>2, <2>3, <2>4, <2>5 DEF Next, AnyReply, Reply
<1>. QED  BY <1>1, <1>2, InvTheorem, PTL DEF Spec, KeepsContract, Contract!Spec

=============================================================================
