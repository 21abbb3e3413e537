----------------------------- MODULE DBusRunner -----------------------------
(***************************************************************************)
(* A runner whose matches come from other processes.  It lives in the main *)
(* thread: every handler here is one event of that thread, and everything  *)
(* that is asked over the bus is answered by a later event, in any order,  *)
(* with a reply or an error.                                               *)
(***************************************************************************)
EXTENDS ImageDecoding, Sequences, FiniteSets

CONSTANTS
    Services,       \* bus names that match the requested name
    Metas,          \* the metadata to look at, each with a bound of its own on the events
    Chars,          \* the characters that texts, here sequences of them, are made of
    RunnerId,       \* the plugin id, a text
    Remotes,        \* the matches that services send: an id, maybe some actions or a picture
    ActionLists,    \* the replies to Actions, here sets of ids of actions
    Configs,        \* the replies to Config, records with some of the keys
    Terms,          \* texts
    Queries,        \* the texts that are queried
    MaxEvents       \* bound: queries, resets, reloads and changes of the services, together

\* A job is posted by launchQuery or when the runner resumes: after init, after a
\* reload and when that reload's Config is answered.
Jobs == 1..(2 * MaxEvents + 1)

ASSUME ConfigsAssumption ==
    \A c \in Configs :
        /\ "words" \in DOMAIN c => c.words \in Seq(Seq(Chars))
        /\ "actions" \in DOMAIN c => c.actions \in ActionLists

ASSUME TextsAssumption ==
    /\ "_" \in Chars /\ RunnerId \in Seq(Chars) \ {<<>>} /\ Terms \subseteq Seq(Chars)
    /\ Queries \subseteq Seq(Chars) \ {<<>>}
    /\ \A r \in Remotes : r.id \in Seq(Chars)

ASSUME BoundsAssumption ==
    /\ MaxEvents \in Nat
    /\ \A m \in Metas : /\ {m.wildcard, m.once, m.lifecycle, m.unique} \subseteq BOOLEAN
                        /\ m.events \in 0..MaxEvents
    /\ Services # {}

VARIABLES
    meta,                       \* the plugin's metadata
    constructed,                \* the constructor is done
    running,                    \* the services on the bus
    notices,                    \* serviceOwnerChanged signals, in order
    matchingServices,
    missed,                     \* auxiliary: the services whose last change was not seen
    actions,                    \* what each service has told of its actions
    requestedActionServices,
    actionsForSessionRequested,
    matchWasCalled,
    suspended,                  \* d->suspendMatching: "unset", "yes" or "no"
    initPosted,                 \* init() is still to be called
    reloadedEarly,              \* auxiliary: reloaded before init() was called
    filter,                     \* minLetterCount and the alternatives of matchRegex
    triggerWords,               \* auxiliary: the trigger words that filter stands for
    query,                      \* what this runner is queried, or <<>>
    single,                     \* singleMode: the query is for this runner only
    session,                    \* prepped of the manager
    events,                     \* what MaxEvents bounds
    waiting,                    \* the runner is in pendingJobsAfterSuspend
    posted,                     \* matchInternal events in the queue
    begun,                      \* matchInternal calls so far
    calls,                      \* D-Bus calls that are not answered yet
    pendingServices,            \* for each job
    reported,                   \* the job whose context the last step added matches to
    answers,                    \* how often each job was reported as finished
    sessionActions,             \* auxiliary: Actions calls of each service, up to 2
    everActions,                \* the same with meta.once, over all sessions
    crashed                     \* the process is gone

serviceVars == <<running, notices, matchingServices, missed>>
actionVars == <<actions, requestedActionServices, actionsForSessionRequested,
                sessionActions, everActions>>
configVars == <<constructed, initPosted, reloadedEarly, filter, triggerWords>>
managerVars == <<query, single, session, waiting>>
jobVars == <<begun, pendingServices, answers>>
vars == <<meta, serviceVars, actionVars, matchWasCalled, suspended, configVars,
          managerVars, posted, jobVars, reported, calls, crashed, events>>

-----------------------------------------------------------------------------
(* The filter of a runner *)

\* A pattern is a word that is looked for everywhere or only at the start.
Matches(p, term) ==
    \E i \in 0..(Len(term) - Len(p.word)) :
        /\ p.anchored => i = 0
        /\ SubSeq(term, i + 1, i + Len(p.word)) = p.word

\* No alternatives mean that the regex is empty or not valid.
HasMatchRegex(f) == f.regex # {}

\* What launchQuery asks of the filter.
Accepts(f, term) ==
    /\ Len(term) >= f.min
    /\ HasMatchRegex(f) => \E p \in f.regex : Matches(p, term)

\* What launchQuery and runnerMatchingResumed ask; in single mode they ask nothing.
Passes(f, term, alone) == alone \/ Accepts(f, term)

\* The anchor "^" belongs to the first alternative only.  Empty words are alternatives,
\* which match everything, but for those that come before any other.
WordsRegex(words) ==
    LET spelt == {i \in DOMAIN words : words[i] # <<>>}
        first == CHOOSE i \in spelt : \A j \in spelt : i <= j
    IN  IF spelt = {} THEN {[word |-> <<>>, anchored |-> TRUE]}
        ELSE {[word |-> words[i], anchored |-> i = first] : i \in {j \in DOMAIN words : first <= j}}

\* The length of the shortest word after the last empty one; 0 stands for no word so far.
WordsMin(words) ==
    LET shortest[i \in 0..Len(words)] ==
            IF i = 0 THEN 0
            ELSE IF shortest[i - 1] = 0 \/ Len(words[i]) < shortest[i - 1]
                 THEN Len(words[i]) ELSE shortest[i - 1]
    IN  shortest[Len(words)]

SetMinLetterCount(f, count) == [min |-> count, regex |-> f.regex]
SetMatchRegex(f, regex) == [min |-> f.min, regex |-> regex]
SetTriggerWords(f, words) ==
    SetMatchRegex(SetMinLetterCount(f, WordsMin(words)), WordsRegex(words))

\* The filter that the metadata of a plugin sets.
MetadataFilter == [min |-> meta.min, regex |-> meta.regex]

Key(c, key, default) == IF key \in DOMAIN c THEN c[key] ELSE default

\* Fault: the keys are handled in another order, MinLetterCount after TriggerWords.
ConfiguredMinLast(f, c) ==
    LET matching == SetMatchRegex(f, Key(c, "regex", f.regex))
        worded == IF "words" \in DOMAIN c THEN SetTriggerWords(matching, c.words) ELSE matching
    IN  SetMinLetterCount(worded, Key(c, "min", worded.min))

\* The keys of a Config reply come in alphabetical order, so that TriggerWords are last
\* and replace what MatchRegex and MinLetterCount of the same reply have set.
Configured(f, c) ==
    LET matching == SetMatchRegex(f, Key(c, "regex", f.regex))
        counting == SetMinLetterCount(matching, Key(c, "min", f.min))
    IN  IF "words" \in DOMAIN c THEN SetTriggerWords(counting, c.words) ELSE counting

-----------------------------------------------------------------------------
(* Matches *)

\* What is known of the id of a QueryMatch that this runner makes.
NewMatch == [id |-> <<>>, idSetByData |-> FALSE]

\* setId, with the mark of the runner if its results are not unique.
SetId(match, newId) ==
    [id |-> IF meta.unique THEN newId ELSE RunnerId \o <<"_">> \o newId,
     idSetByData |-> FALSE]

\* setData: data that is a text, other than <<>>, serves as id until one is set.
SetData(match, text) ==
    IF text # <<>> /\ (match.id = <<>> \/ match.idSetByData)
    THEN [id |-> SetId(match, text).id, idSetByData |-> TRUE] ELSE match

\* QueryMatch::id: a match without an id goes by that of its runner.
MatchId(match) == IF match.id = <<>> THEN RunnerId ELSE match.id

\* Fault: the separator is not cut off.
RunIdShort(id) == IF meta.unique THEN id ELSE SubSeq(id, Len(RunnerId) + 1, Len(id))

\* The id that run() sends to the service.
RunId(id) == IF meta.unique THEN id ELSE SubSeq(id, Len(RunnerId) + 2, Len(id))

\* The icon of a match: its picture if it can be decoded, else what its iconName names.
Icon(remote) ==
    IF "image" \in DOMAIN remote /\ ~IsNull(DecodeImage(remote.image))
    THEN DecodeImage(remote.image) ELSE "named"

\* convertMatches: the data is the list of the service, which is not a text.  A match has
\* the actions it names, or all, of those its service has told.
ConvertMatch(s, remote) ==
    [data |-> s,
     id |-> MatchId(SetId(SetData(NewMatch, <<>>), remote.id)),
     actions |-> IF "actions" \in DOMAIN remote THEN actions[s] \cap remote.actions
                 ELSE actions[s],
     icon |-> Icon(remote), selectedAction |-> "none"]

\* RunnerManager::run sets the action in a copy of the match, all else is copied.
SelectAction(match, action) == [match EXCEPT !.selectedAction = action]

\* The calls that run() sends; there is a token if Wayland gives one.
Run(match, token) ==
    LET run == [method |-> "Run", service |-> match.data,
                id |-> RunId(match.id), action |-> match.selectedAction]
    IN  IF token THEN <<[method |-> "SetActivationToken", service |-> match.data], run>>
        ELSE <<run>>

-----------------------------------------------------------------------------
(* Services come and go *)

\* X-Plasma-DBusRunner-Service without a wildcard names one service.
RequestedService == CHOOSE s \in Services : TRUE

\* What comes from outside happens while the process lives, and within the bound.
Event == events < meta.events /\ events' = events + 1 /\ ~crashed

\* The constructor has listed the services on the bus; now it watches for changes.  What
\* has changed in between, or was not listed because of an error, it does not know.
Watch ==
    /\ ~constructed
    /\ constructed' = TRUE
    /\ missed' = IF meta.wildcard
                 THEN (running \ matchingServices) \cup (matchingServices \ running) ELSE {}
    /\ UNCHANGED <<meta, running, notices, matchingServices, actionVars, matchWasCalled>>
    /\ UNCHANGED <<suspended, initPosted, reloadedEarly, filter, triggerWords, managerVars>>
    /\ UNCHANGED <<posted, jobVars, reported, calls, crashed, events>>

\* The owner of a bus name changes.  A runner of one name does not listen.
OwnerChanges(s, new) ==
    /\ Event
    /\ meta.wildcard
    /\ s \in running \/ new
    /\ running' = IF new THEN running \cup {s} ELSE running \ {s}
    /\ LET notice == [service |-> s, old |-> s \in running, new |-> new]
       IN  notices' = IF constructed THEN Append(notices, notice) ELSE notices
    /\ missed' = IF s \in running /\ new THEN missed ELSE missed \ {s}
    /\ reported' = 0
    /\ UNCHANGED <<meta, matchingServices, actionVars, matchWasCalled, suspended>>
    /\ UNCHANGED <<configVars, managerVars, posted, jobVars, calls, crashed>>

\* Fault: a change from one owner to another counts as the end of the service.
ServiceOwnerChangedAlways ==
    /\ notices # <<>> /\ ~crashed
    /\ notices' = Tail(notices)
    /\ LET n == Head(notices)
           kept == IF n.old THEN matchingServices \ {n.service} ELSE matchingServices
       IN  matchingServices' =
                IF n.new /\ ~n.old THEN matchingServices \cup {n.service} ELSE kept
    /\ reported' = 0
    /\ UNCHANGED <<meta, running, missed, actionVars, matchWasCalled, suspended>>
    /\ UNCHANGED <<configVars, managerVars, posted, jobVars, calls, crashed, events>>

\* The slot of serviceOwnerChanged.
ServiceOwnerChanged ==
    /\ notices # <<>> /\ ~crashed
    /\ notices' = Tail(notices)
    /\ LET n == Head(notices)
       IN  matchingServices' = IF n.old /\ n.new THEN matchingServices
                               ELSE IF n.new THEN matchingServices \cup {n.service}
                               ELSE matchingServices \ {n.service}
    /\ reported' = 0
    /\ UNCHANGED <<meta, running, missed, actionVars, matchWasCalled, suspended>>
    /\ UNCHANGED <<configVars, managerVars, posted, jobVars, calls, crashed, events>>

-----------------------------------------------------------------------------
(* Suspension and configuration *)

\* suspendMatching(false): matchingResumed makes the manager post the job that waits, if
\* the filter f lets it through.  The job goes on waiting.
Resume(f) ==
    /\ suspended' = "no"
    /\ posted' = IF suspended # "no" /\ waiting /\ Passes(f, query, single)
                 THEN posted + 1 ELSE posted

\* requestConfig: one service is asked.  Without a service the iterator it reads
\* points nowhere, and the process dies.
RequestConfig(nr) ==
    IF matchingServices = {}
    THEN crashed' = TRUE /\ UNCHANGED calls
    ELSE /\ \E s \in matchingServices :
                calls' = calls \cup {[kind |-> "Config", service |-> s, nr |-> nr]}
         /\ UNCHANGED crashed

\* reloadConfiguration but for its flag.
ReloadConfiguration(nr) ==
    IF meta.lifecycle THEN RequestConfig(nr) ELSE UNCHANGED <<calls, crashed>>

\* init() and what follows it in the constructor's timer.
RunInit ==
    /\ constructed /\ initPosted /\ ~crashed
    /\ initPosted' = FALSE
    /\ ReloadConfiguration(0)
    /\ IF meta.lifecycle THEN suspended' = "yes" /\ UNCHANGED posted
       ELSE IF suspended = "unset" THEN Resume(filter) ELSE UNCHANGED <<suspended, posted>>
    /\ reported' = 0
    /\ UNCHANGED <<meta, serviceVars, actionVars, matchWasCalled, managerVars, jobVars>>
    /\ UNCHANGED <<constructed, reloadedEarly, filter, triggerWords, events>>

\* reloadConfigurationInternal, which the config watcher calls at once: it goes back
\* to the earlier suspension although a Config request may be on its way.
ReloadConfigurationInternal ==
    /\ Event /\ constructed
    /\ reloadedEarly' = (reloadedEarly \/ initPosted)
    /\ suspended' = IF suspended = "no" THEN "no" ELSE "yes"
    /\ posted' = IF suspended = "no" /\ waiting /\ Passes(filter, query, single)
                 THEN posted + 1 ELSE posted
    /\ ReloadConfiguration(events')
    /\ reported' = 0
    /\ UNCHANGED <<meta, serviceVars, actionVars, matchWasCalled, managerVars, jobVars>>
    /\ UNCHANGED <<constructed, initPosted, filter, triggerWords>>

\* Fault: after an error the runner is not resumed.
ConfigErrorSilent(c) ==
    /\ c.kind = "Config" /\ ~crashed
    /\ calls' = calls \ {c}
    /\ reported' = 0
    /\ UNCHANGED <<meta, serviceVars, actionVars, matchWasCalled, configVars, managerVars>>
    /\ UNCHANGED <<jobVars, suspended, posted, crashed, events>>

\* A Config request fails or times out.
ConfigError(c) ==
    /\ c.kind = "Config" /\ ~crashed
    /\ calls' = calls \ {c}
    /\ Resume(filter)
    /\ reported' = 0
    /\ UNCHANGED <<meta, serviceVars, actionVars, matchWasCalled, configVars, managerVars>>
    /\ UNCHANGED <<jobVars, crashed, events>>

\* A Config request is answered.
ConfigReply(c, config) ==
    /\ c.kind = "Config" /\ ~crashed
    /\ calls' = calls \ {c}
    /\ filter' = Configured(filter, config)
    /\ triggerWords' = IF {"words", "min", "regex"} \cap DOMAIN config = {} THEN triggerWords
                       ELSE Key(config, "words", <<>>)
    /\ IF "actions" \in DOMAIN config
       THEN /\ actions' = [actions EXCEPT ![c.service] = config.actions]
            /\ requestedActionServices' = requestedActionServices \cup {c.service}
       ELSE UNCHANGED <<actions, requestedActionServices>>
    /\ Resume(filter')
    /\ reported' = 0
    /\ UNCHANGED <<meta, serviceVars, actionsForSessionRequested, sessionActions>>
    /\ UNCHANGED <<everActions, matchWasCalled, managerVars, jobVars, crashed, events>>
    /\ UNCHANGED <<constructed, initPosted, reloadedEarly>>

-----------------------------------------------------------------------------
(* The manager: queries and sessions *)

\* launchQuery of a new query, in single mode or not.  If the runner is suspended the job
\* waits, and its filter is only looked at when it resumes.
LaunchQuery(term, alone) ==
    /\ Event /\ constructed
    /\ query # term \/ single # alone
    /\ query' = term /\ single' = alone
    /\ session' = TRUE
    /\ waiting' = (suspended # "no")
    /\ posted' = IF suspended = "no" /\ Passes(filter, term, alone) THEN posted + 1 ELSE posted
    /\ reported' = 0
    /\ UNCHANGED <<meta, serviceVars, actionVars, matchWasCalled, suspended, configVars>>
    /\ UNCHANGED <<jobVars, calls, crashed>>

\* launchQuery returns early, but for waiting jobs, which it has dropped: the query is the
\* same; or it resets because there is no query for this runner (blanks, or the id of
\* another runner).
LaunchWithoutJob(same) ==
    /\ Event /\ constructed
    /\ waiting' = FALSE
    /\ IF same THEN query # <<>> /\ UNCHANGED <<query, single>>
       ELSE query' = <<>> /\ single' = FALSE
    /\ reported' = 0
    /\ UNCHANGED <<meta, serviceVars, actionVars, matchWasCalled, suspended, configVars>>
    /\ UNCHANGED <<session, posted, jobVars, calls, crashed>>

\* reset(): there is no query any more, and jobs that wait go on waiting.
Reset ==
    /\ Event /\ constructed
    /\ query' = <<>>
    /\ reported' = 0
    /\ UNCHANGED <<meta, serviceVars, actionVars, matchWasCalled, suspended, configVars>>
    /\ UNCHANGED <<single, session, waiting, posted, jobVars, calls, crashed>>

\* matchSessionComplete and the slot of teardown().  Teardown calls are not awaited.
Teardown ==
    /\ session /\ ~crashed
    /\ session' = FALSE /\ waiting' = FALSE
    /\ actionsForSessionRequested' = FALSE
    /\ sessionActions' = [s \in Services |-> 0]
    /\ matchWasCalled' = FALSE
    /\ reported' = 0
    /\ UNCHANGED <<meta, serviceVars, actions, requestedActionServices, everActions>>
    /\ UNCHANGED <<query, single, suspended, configVars, posted, jobVars, calls, crashed, events>>

-----------------------------------------------------------------------------
(* Jobs *)

\* The services that requestActionsForService asks for their actions.
Unknown ==
    IF actionsForSessionRequested THEN {}
    ELSE IF meta.once THEN matchingServices \ requestedActionServices
    ELSE matchingServices

Count(counts, asked) ==
    [s \in Services |-> IF s \in asked /\ counts[s] < 2 THEN counts[s] + 1 ELSE counts[s]]

CallsFor(kind, asked, job) == {[kind |-> kind, service |-> s, nr |-> job] : s \in asked}

\* Fault: the event stays in the queue.
TakeAgain(job) == posted > 0 /\ UNCHANGED posted /\ begun' = job

\* One event that startJob posted leads to one call.
Take(job) == posted > 0 /\ posted' = posted - 1 /\ begun' = job

\* matchInternal but for its answer and its flag.
StartJob(job) ==
    /\ Take(job) /\ ~crashed
    /\ pendingServices' = [pendingServices EXCEPT ![job] = matchingServices]
    /\ calls' = calls \cup CallsFor("Actions", Unknown, job)
                      \cup CallsFor("Match", matchingServices \ Unknown, job)
    /\ sessionActions' = Count(sessionActions, Unknown)
    /\ everActions' = IF meta.once THEN Count(everActions, Unknown) ELSE everActions
    /\ requestedActionServices' =
            IF meta.once THEN requestedActionServices \cup Unknown ELSE requestedActionServices
    /\ matchWasCalled' = TRUE
    /\ UNCHANGED <<meta, serviceVars, actions, suspended, configVars, managerVars>>
    /\ reported' = 0
    /\ UNCHANGED <<crashed, events>>

\* Fault: without services the job is not answered.
MatchInternalSilent ==
    /\ StartJob(begun + 1)
    /\ actionsForSessionRequested' = TRUE
    /\ UNCHANGED answers

\* Fault: the session does not remember that it asked for the actions.
MatchInternalForgetting ==
    /\ StartJob(begun + 1)
    /\ answers' = IF matchingServices = {} THEN [answers EXCEPT ![begun + 1] = @ + 1]
                  ELSE answers
    /\ UNCHANGED actionsForSessionRequested

\* matchInternal, an event the manager has posted: every service is asked for matches,
\* those whose actions are to be fetched after they have replied.
MatchInternal ==
    /\ StartJob(begun + 1)
    /\ answers' = IF matchingServices = {} THEN [answers EXCEPT ![begun + 1] = @ + 1]
                  ELSE answers
    /\ actionsForSessionRequested' = TRUE

\* A service has sent its actions, or an error; now it is asked for matches.
ActionsReply(c, ok) ==
    /\ c.kind = "Actions" /\ ~crashed
    /\ calls' = (calls \ {c}) \cup CallsFor("Match", {c.service}, c.nr)
    /\ IF ok THEN \E list \in ActionLists : actions' = [actions EXCEPT ![c.service] = list]
       ELSE UNCHANGED actions
    /\ reported' = 0
    /\ UNCHANGED <<meta, serviceVars, requestedActionServices, actionsForSessionRequested>>
    /\ UNCHANGED <<sessionActions, everActions, matchWasCalled, suspended, configVars>>
    /\ UNCHANGED <<managerVars, posted, jobVars, crashed, events>>

\* Fault: the first service that replies finishes the job.
MatchReplyEager(c, ok) ==
    /\ c.kind = "Match" /\ ~crashed
    /\ calls' = calls \ {c}
    /\ pendingServices' = [pendingServices EXCEPT ![c.nr] = @ \ {c.service}]
    /\ reported' = IF ok THEN c.nr ELSE 0
    /\ answers' = IF answers[c.nr] = 0 THEN [answers EXCEPT ![c.nr] = 1] ELSE answers
    /\ UNCHANGED <<meta, serviceVars, actionVars, matchWasCalled, suspended, configVars>>
    /\ UNCHANGED <<managerVars, posted, begun, crashed, events>>

\* A service has sent its matches, or an error; the last one finishes the job.
MatchReply(c, ok) ==
    /\ c.kind = "Match" /\ ~crashed
    /\ calls' = calls \ {c}
    /\ pendingServices' = [pendingServices EXCEPT ![c.nr] = @ \ {c.service}]
    /\ reported' = IF ok THEN c.nr ELSE 0
    /\ answers' = IF pendingServices[c.nr] \ {c.service} = {}
                  THEN [answers EXCEPT ![c.nr] = @ + 1] ELSE answers
    /\ UNCHANGED <<meta, serviceVars, actionVars, matchWasCalled, suspended, configVars>>
    /\ UNCHANGED <<managerVars, posted, begun, crashed, events>>

-----------------------------------------------------------------------------

\* The constructor up to the listing of the services, which may fail.
Init ==
    /\ meta \in Metas /\ constructed = FALSE
    /\ running \in IF meta.wildcard THEN SUBSET Services ELSE {Services}
    /\ notices = <<>> /\ missed = {}
    /\ matchingServices \in IF meta.wildcard THEN {running, {}} ELSE {{RequestedService}}
    /\ actions = [s \in Services |-> {}]
    /\ requestedActionServices = {}
    /\ actionsForSessionRequested = FALSE /\ matchWasCalled = FALSE
    /\ suspended = "unset" /\ initPosted = TRUE
    /\ reloadedEarly = FALSE
    /\ filter = MetadataFilter /\ triggerWords = <<>>
    /\ query = <<>> /\ single = FALSE /\ session = FALSE /\ waiting = FALSE
    /\ events = 0
    /\ posted = 0 /\ begun = 0 /\ calls = {}
    /\ pendingServices = [j \in Jobs |-> {}]
    /\ reported = 0
    /\ answers = [j \in Jobs |-> 0]
    /\ sessionActions = [s \in Services |-> 0]
    /\ everActions = [s \in Services |-> 0]
    /\ crashed = FALSE

Reply(c) ==
    \/ ConfigError(c)
    \/ \E config \in Configs : ConfigReply(c, config)
    \/ \E ok \in BOOLEAN : ActionsReply(c, ok) \/ MatchReply(c, ok)

AnyReply == \E c \in calls : Reply(c)

AnyQuery ==
    \/ \E term \in Queries, alone \in BOOLEAN : LaunchQuery(term, alone)
    \/ \E same \in BOOLEAN : LaunchWithoutJob(same)
    \/ Reset

Next ==
    \/ \E s \in Services, new \in BOOLEAN : OwnerChanges(s, new)
    \/ Watch
    \/ ServiceOwnerChanged
    \/ RunInit
    \/ ReloadConfigurationInternal
    \/ AnyQuery
    \/ Teardown
    \/ MatchInternal
    \/ AnyReply

\* While there are calls under way one of them is answered at some time, by an error
\* after a timeout at the latest, and the event loop handles what was posted.
Fairness == WF_vars(RunInit) /\ WF_vars(MatchInternal) /\ WF_vars(AnyReply)

Spec == Init /\ [][Next]_vars /\ Fairness

-----------------------------------------------------------------------------

AnyCall == [kind : {"Config", "Actions", "Match"}, service : Services, nr : Jobs \cup {0}]
CallsOf(job) == {c \in calls : c.kind # "Config" /\ c.nr = job}

\* Every variable has its type; the runner never begins more jobs than were posted.
TypeOK ==
    /\ meta \in Metas
    /\ running \cup matchingServices \cup missed \subseteq Services
    /\ notices \in Seq([service : Services, old : BOOLEAN, new : BOOLEAN])
    /\ actions \in [Services -> ActionLists \cup {{}}] /\ requestedActionServices \subseteq Services
    /\ actionsForSessionRequested \in BOOLEAN /\ matchWasCalled \in BOOLEAN
    /\ suspended \in {"unset", "yes", "no"} /\ initPosted \in BOOLEAN
    /\ constructed \in BOOLEAN /\ reloadedEarly \in BOOLEAN
    /\ query \in Queries \cup {<<>>} /\ single \in BOOLEAN
    /\ session \in BOOLEAN /\ events \in 0..MaxEvents /\ waiting \in BOOLEAN
    /\ posted \in Nat /\ begun \in Nat /\ begun + posted \in Jobs \cup {0}
    /\ calls \subseteq AnyCall
    /\ pendingServices \in [Jobs -> SUBSET Services]
    /\ reported \in Jobs \cup {0} /\ answers \in [Jobs -> Nat]
    /\ sessionActions \in [Services -> 0..2] /\ everActions \in [Services -> 0..2]
    /\ crashed \in BOOLEAN

\* A job waits for exactly the services that still have a call under way, one each, and
\* is answered when there are none: however replies, errors and changes of the services
\* fall into its time.
WaitsForItsCalls ==
    \A j \in 1..begun :
        /\ pendingServices[j] = {c.service : c \in CallsOf(j)}
        /\ \A c, d \in CallsOf(j) : c.service = d.service => c = d
        /\ answers[j] = (IF CallsOf(j) = {} THEN 1 ELSE 0)

\* The Actions method of a service is called at most once in a session, and with
\* X-Plasma-Request-Actions-Once at most once ever, also when the sessions and the
\* queries follow each other before a reply has come.
ActionsAtMostOnce ==
    \A s \in Services : sessionActions[s] <= 1 /\ (meta.once => everActions[s] <= 1)

\* A runner that is suspended will be resumed: it is still to be initialised, or a
\* Config request is under way.  A reload before init() is the exception: it leaves a
\* runner without lifecycle methods suspended for good.
NeverStuck ==
    \/ suspended = "no" \/ initPosted \/ crashed
    \/ \E c \in calls : c.kind = "Config"
    \/ reloadedEarly /\ ~meta.lifecycle

\* Once the signals are handled, a wildcard runner knows which services are on the bus,
\* those excepted that it has missed: the list could not be read, or they came or went
\* between the list and the watch, and they have not come or gone since.
ServicesTracked ==
    meta.wildcard /\ constructed /\ notices = <<>> =>
        \A s \in Services \ missed : s \in matchingServices <=> s \in running

\* A query that starts with a trigger word passes the filter, whichever of MatchRegex,
\* MinLetterCount and TriggerWords came in the same reply, unless an empty word comes
\* after that trigger word: then the shortest word after it counts.
TriggersAccepted ==
    \A i \in DOMAIN triggerWords, term \in Terms :
        /\ triggerWords[i] # <<>>
        /\ \A j \in DOMAIN triggerWords : triggerWords[j] = <<>> => j < i
        /\ Len(triggerWords[i]) <= Len(term)
        /\ SubSeq(term, 1, Len(triggerWords[i])) = triggerWords[i]
        => Accepts(filter, term)

\* The last call of run() asks the service that found the match, for the id it gave to it
\* and the chosen action, unless the id was empty and the results are unique: such a
\* match has the runner's id in its place.
RunsWhatWasFound ==
    \A s \in Services, remote \in Remotes, token \in BOOLEAN :
        LET match == ConvertMatch(s, remote)
        IN  \A action \in match.actions \cup {"none"} :
                LET sent == Run(SelectAction(match, action), token)
                IN  ~(meta.unique /\ remote.id = <<>>) =>
                        sent[Len(sent)] = [method |-> "Run", service |-> s,
                                           id |-> remote.id, action |-> action]

\* The runner keeps the contract of every job: it reports matches only until it
\* answers, and it answers once.
Contract == INSTANCE JobContract
KeepsContract == Contract!Spec

\* Every job that was posted is begun and answered, as long as the process lives.
Outstanding == posted > 0 \/ \E j \in 1..begun : answers[j] = 0
JobsAnswered == Outstanding ~> ~Outstanding \/ crashed

=============================================================================
