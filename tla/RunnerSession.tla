---------------------------- MODULE RunnerSession ----------------------------
(***************************************************************************)
(* Which runners a RunnerManager has loaded, which of them take part in a  *)
(* query, and the match sessions that prepare them and tear them down.     *)
(* Jobs, contexts and threads are the subject of QueryLifecycle: here a    *)
(* runner is asked, and that is all.                                       *)
(***************************************************************************)

CONSTANTS
    Libraries,      \* the ids of the plugins in kf6/krunner
    DesktopFiles,   \* the ids of the desktop files in krunner/dbusplugins
    Broken,         \* plugins that cannot be instantiated
    NameOf,         \* the translated name of a plugin's runner
    Requested,      \* the runner names that clients give to launchQuery
    Terms,          \* trimmed query terms
    Rejects,        \* pairs of a plugin and a term its runner rejects
    LoadAll,        \* the entry "loadAll" of the state config
    EnabledSets,    \* bound: the plugins that pluginConf may enable
    WhiteLists,     \* bound: the lists given to setAllowedRunners
    None,           \* no plugin, no runner, no term
    Places          \* bound: where the runners of each plugin live

\* runnerMetaDataList: a desktop file whose id a library has is left out.
Plugins == Libraries \cup DesktopFiles

\* A runner is an object at a place in memory.  A plugin may be loaded again while its
\* removed runner lives on, and a place is used again after a runner was deleted.
Runner == UNION {[id : {p}, place : Places[p]] : p \in Plugins}

ASSUME PluginsAssumption ==
    /\ Broken \subseteq Plugins
    /\ EnabledSets \subseteq SUBSET Plugins /\ WhiteLists \subseteq SUBSET Plugins
    /\ Rejects \subseteq Plugins \X Terms
    /\ LoadAll \in BOOLEAN
    /\ None \notin Plugins \cup Runner \cup Terms \cup Requested

\* Names are texts for the user, not ids.
ASSUME NamesAssumption == \A p \in Plugins : NameOf[p] \notin Plugins

VARIABLES
    enabled,                \* plugins that pluginConf enables
    whiteList,              \* setAllowedRunners; {} allows every plugin
    runners,                \* the loaded runners
    removed,                \* runners that were taken out and are not deleted yet
    disabledRunnerIds,      \* disabled, but loaded for single runner mode
    manual,                 \* auxiliary: loadRunner was used since the last loadRunners
    singleModeRunnerId,     \* None outside single runner mode
    currentSingleRunner,
    prepped, allRunnersPrepped, singleRunnerPrepped,
    prepared,               \* runners that were sent prepare and no teardown since
    suspended,              \* runners with isMatchingSuspended
    query,                  \* the term of the context
    pending,                \* keys of pendingJobsAfterSuspend
    asked,                  \* the runners that the last step asked the query
    disciplined             \* whether the client keeps to a mode in a session, see below

loadVars == <<enabled, whiteList, runners, removed, disabledRunnerIds, manual>>
sessionVars == <<prepped, allRunnersPrepped, singleRunnerPrepped>>
modeVars == <<singleModeRunnerId, currentSingleRunner>>
queryVars == <<query, pending, asked>>
vars == <<loadVars, sessionVars, modeVars, queryVars, prepared, suspended, disciplined>>

-----------------------------------------------------------------------------
(* Loading *)

Ids(rs) == {r.id : r \in rs}

\* What loading reads and writes, so that a handler can load more than once.
Loader == [enabled |-> enabled, whiteList |-> whiteList, runners |-> runners,
           removed |-> removed, disabled |-> disabledRunnerIds,
           manual |-> manual, prepared |-> prepared, suspended |-> suspended]

Selected(l) ==
    {p \in Plugins :
        \/ LoadAll
        \/ p \in l.disabled
        \/ p \in l.enabled /\ (l.whiteList = {} \/ p \in l.whiteList)}

\* Fault: a runner that is loaded during a session is not prepared.
WithNewUnprepared(l, new) ==
    [l EXCEPT !.runners = @ \cup new,
              !.suspended = @ \cup new]

\* loadInstalledRunner: a new runner is suspended until its init() has run, and is
\* prepared at once when a session is on.
WithNew(l, new) ==
    [l EXCEPT !.runners = @ \cup new,
              !.prepared = IF prepped THEN @ \cup new ELSE @,
              !.suspended = @ \cup new]

Free(l, p) == {r \in Runner : r.id = p} \ (l.runners \cup l.removed)

\* One new runner of each of the plugins ps that is not loaded and can be.
NewRunners(l, ps) ==
    {CHOOSE r \in Free(l, p) : TRUE : p \in (ps \ Broken) \ Ids(l.runners)}

\* Fault: loaded runners that are no longer selected stay.
LoadRunnersKeeping(l, name) ==
    LET wanted == Selected(l) \cup ({name} \cap Plugins)
        kept == [l EXCEPT !.disabled = @ \cup (wanted \ Selected(l)), !.manual = FALSE]
    IN  WithNew(kept, NewRunners(l, wanted))

\* Fault: a runner that is no longer selected is looked up for its deletion, not taken out.
LoadRunnersLooking(l, name) ==
    LET wanted == Selected(l) \cup ({name} \cap Plugins)
        dead == {r \in l.runners : r.id \notin wanted}
        kept == [l EXCEPT !.removed = @ \cup dead,
                          !.disabled = @ \cup (wanted \ Selected(l)), !.manual = FALSE]
    IN  WithNew(kept, NewRunners(l, wanted))

\* loadRunners(name): selected plugins are loaded and the others are removed; the
\* plugin that is asked for by name is loaded although it is disabled.
LoadRunners(l, name) ==
    LET wanted == Selected(l) \cup ({name} \cap Plugins)
        dead == {r \in l.runners : r.id \notin wanted}
        kept == [l EXCEPT !.runners = @ \ dead, !.removed = @ \cup dead,
                          !.disabled = @ \cup (wanted \ Selected(l)), !.manual = FALSE]
    IN  WithNew(kept, NewRunners(l, wanted))

\* runner(id) and runners(): they load the runners if there are none.
EnsureLoaded(l) == IF l.runners = {} THEN LoadRunners(l, None) ELSE l

RunnerOf(l, name) ==
    IF name \in Ids(l.runners) THEN CHOOSE r \in l.runners : r.id = name ELSE None

\* currentSingleRunner after loadSingleRunner, which keeps the one of that name.
SingleRunner(l, name) ==
    IF currentSingleRunner # None /\ currentSingleRunner.id = name THEN currentSingleRunner
    ELSE RunnerOf(l, name)

\* What loadSingleRunner loads for the requested name.
LoadSingleRunner(l, name) ==
    IF name = None THEN l
    ELSE IF currentSingleRunner # None /\ currentSingleRunner.id = name THEN l
    ELSE LET tried == EnsureLoaded(l)
         IN  IF name \in Ids(tried.runners) THEN tried
             ELSE EnsureLoaded(LoadRunners(tried, name))

\* The bound: there is a place for each runner that may have to be made.
HasRoom == \A p \in Plugins \ Ids(runners) : Free(Loader, p) # {}

\* The loader's result becomes the state.
Store(l) ==
    /\ enabled' = l.enabled /\ whiteList' = l.whiteList
    /\ runners' = l.runners /\ removed' = l.removed
    /\ disabledRunnerIds' = l.disabled /\ manual' = l.manual
    /\ suspended' = l.suspended

\* A disciplined client does not load runners during a session in single runner mode.
MayLoad == disciplined /\ prepped => singleModeRunnerId = None

\* Fault: the pointer to the single runner survives a reload.
ReloadedKeepingSingle(l) ==
    /\ Store(l)
    /\ prepared' = l.prepared
    /\ asked' = {}
    /\ UNCHANGED <<sessionVars, modeVars, query, pending, disciplined>>

\* loadRunners as the last call of a handler: it forgets currentSingleRunner.
Reloaded(l) ==
    /\ Store(l)
    /\ prepared' = l.prepared
    /\ currentSingleRunner' = None
    /\ asked' = {}
    /\ UNCHANGED <<sessionVars, singleModeRunnerId, query, pending, disciplined>>

ReloadConfiguration(ps) ==
    /\ MayLoad
    /\ Reloaded(LoadRunners([Loader EXCEPT !.enabled = ps], None))

SetAllowedRunners(ps) ==
    /\ MayLoad
    /\ IF runners # {}
       THEN Reloaded(LoadRunners([Loader EXCEPT !.whiteList = ps], None))
       ELSE /\ whiteList' = ps
            /\ asked' = {}
            /\ UNCHANGED <<enabled, runners, removed, disabledRunnerIds, manual>>
            /\ UNCHANGED <<sessionVars, modeVars, query, pending>>
            /\ UNCHANGED <<prepared, suspended, disciplined>>

\* runners(), which ResultsModel calls first of all.
GetRunners ==
    /\ MayLoad
    /\ runners = {}
    /\ Reloaded(EnsureLoaded(Loader))

\* RunnerManager::loadRunner of a client's own plugin.
LoadRunner(p) ==
    LET new == NewRunners(Loader, {p})
    IN  /\ MayLoad
        /\ new # {}
        /\ Store([WithNew(Loader, new) EXCEPT !.manual = TRUE])
        /\ prepared' = WithNew(Loader, new).prepared
        /\ asked' = {}
        /\ UNCHANGED <<sessionVars, modeVars, query, pending, disciplined>>

\* deleteRunners: the thread has ended, or the deferred delete was handled.
DeleteRunner(r) ==
    /\ r \in removed
    /\ removed' = removed \ {r}
    /\ prepared' = prepared \ {r}
    /\ suspended' = suspended \ {r}
    /\ asked' = {}
    /\ UNCHANGED <<enabled, whiteList, runners, disabledRunnerIds, manual>>
    /\ UNCHANGED <<sessionVars, modeVars, query, pending, disciplined>>

-----------------------------------------------------------------------------
(* Sessions *)

\* The runners that setupMatchSession prepares.  It looks the name up among ids.
ToPrepare(rs, current, name) ==
    IF name # None THEN {current} \ {None}
    ELSE {r \in rs : NameOf[r.id] \notin disabledRunnerIds}

\* setupMatchSession with the given runners and mode.
Setup(l, current, name) ==
    /\ prepped' = TRUE
    /\ IF prepped
       THEN /\ prepared' = l.prepared
            /\ UNCHANGED <<allRunnersPrepped, singleRunnerPrepped>>
       ELSE /\ prepared' = l.prepared \cup ToPrepare(l.runners, current, name)
            /\ singleRunnerPrepped' = (singleRunnerPrepped \/ (name # None /\ current # None))
            /\ allRunnersPrepped' = (allRunnersPrepped \/ name = None)

SetupMatchSession ==
    /\ disciplined => singleModeRunnerId = None
    /\ ~prepped
    /\ Setup(Loader, currentSingleRunner, singleModeRunnerId)
    /\ asked' = {}
    /\ UNCHANGED <<loadVars, modeVars, query, pending, suspended, disciplined>>

\* The runners that teardown() reaches.
TornDown ==
    (IF allRunnersPrepped THEN runners ELSE {})
        \cup (IF singleRunnerPrepped THEN {currentSingleRunner} \ {None} ELSE {})

\* Fault: jobs that wait for a resumption outlive the session.
MatchSessionCompleteKeeping ==
    /\ prepped
    /\ prepared' = prepared \ TornDown
    /\ prepped' = FALSE /\ allRunnersPrepped' = FALSE /\ singleRunnerPrepped' = FALSE
    /\ asked' = {}
    /\ UNCHANGED <<loadVars, modeVars, query, pending, suspended, disciplined>>

\* Fault: a session of all runners ends without their teardown.
MatchSessionCompleteSilent ==
    /\ prepped
    /\ pending' = {} /\ asked' = {}
    /\ prepped' = FALSE /\ allRunnersPrepped' = FALSE /\ singleRunnerPrepped' = FALSE
    /\ UNCHANGED <<loadVars, modeVars, query, prepared, suspended, disciplined>>

\* matchSessionComplete and teardown.
MatchSessionComplete ==
    /\ prepped
    /\ pending' = {} /\ asked' = {}
    /\ prepared' = prepared \ TornDown
    /\ prepped' = FALSE /\ allRunnersPrepped' = FALSE /\ singleRunnerPrepped' = FALSE
    /\ UNCHANGED <<loadVars, modeVars, query, suspended, disciplined>>

-----------------------------------------------------------------------------
(* Queries *)

\* A disciplined client keeps the mode for the whole session.
MayLaunch(name) == disciplined /\ prepped => name = singleModeRunnerId

\* The start of launchQuery: the mode is set and its runner looked up or loaded.
\* l is the loader afterwards.
EnterMode(l, name) ==
    /\ MayLaunch(name)
    /\ singleModeRunnerId' = name
    /\ currentSingleRunner' = SingleRunner(l, name)
    /\ UNCHANGED disciplined

\* reset() of a query that ends without a new one.
NoQuery == query' = None /\ pending' = {} /\ asked' = {}

\* launchQuery of a runner that cannot be loaded.
LaunchUnknownRunner(name) ==
    LET l == LoadSingleRunner(Loader, name)
    IN  /\ name # None
        /\ SingleRunner(l, name) = None
        /\ EnterMode(l, name) /\ Store(l) /\ NoQuery
        /\ prepared' = l.prepared
        /\ UNCHANGED sessionVars

\* launchQuery of a blank term.
LaunchBlank(name) ==
    LET l == LoadSingleRunner(Loader, name)
    IN  /\ name # None => SingleRunner(l, name) # None
        /\ EnterMode(l, name) /\ Store(l) /\ NoQuery
        /\ prepared' = l.prepared
        /\ UNCHANGED sessionVars

\* launchQuery of the query that is set: it returns, but the pending jobs are gone.
LaunchSame(term, name) ==
    LET l == LoadSingleRunner(Loader, name)
    IN  /\ term = query /\ name = singleModeRunnerId
        /\ name # None => SingleRunner(l, name) # None
        /\ EnterMode(l, name) /\ Store(l)
        /\ pending' = {} /\ asked' = {}
        /\ prepared' = l.prepared
        /\ UNCHANGED <<sessionVars, query>>

\* Whether a runner takes part in the query when it is not suspended.
TakesPart(l, r, term, name) ==
    name # None \/ (r.id \notin l.disabled /\ <<r.id, term>> \notin Rejects)

\* launchQuery of a new query.
LaunchNew(term, name) ==
    LET tried == LoadSingleRunner(Loader, name)
        l == IF name = None THEN EnsureLoaded(tried) ELSE tried
        runnable == IF name = None THEN l.runners ELSE {SingleRunner(l, name)} \ {None}
    IN  /\ ~(term = query /\ name = singleModeRunnerId)
        /\ name # None => SingleRunner(l, name) # None
        /\ EnterMode(l, name) /\ Store(l)
        /\ Setup(l, SingleRunner(l, name), name)
        /\ query' = term
        /\ pending' = runnable \cap l.suspended
        /\ asked' = {r \in runnable \ l.suspended : TakesPart(l, r, term, name)}

\* A runner suspends itself.
SuspendMatching(r) ==
    /\ r \notin suspended
    /\ suspended' = suspended \cup {r}
    /\ asked' = {}
    /\ UNCHANGED <<loadVars, sessionVars, modeVars, query, pending, prepared, disciplined>>

\* A runner resumes and runnerMatchingResumed handles its notice.  The two are steps of
\* their own in QueryLifecycle, where a query may come between them; here the notice only
\* matters for whom it asks, which the key that is still pending decides.
MatchingResumed(r) ==
    /\ r \in suspended
    /\ suspended' = suspended \ {r}
    /\ asked' = IF /\ r \in pending
                   /\ singleModeRunnerId \in {None, r.id}
                   /\ singleModeRunnerId # None \/ <<r.id, query>> \notin Rejects
                THEN {r} ELSE {}
    /\ UNCHANGED <<loadVars, sessionVars, modeVars, query, pending, prepared, disciplined>>

-----------------------------------------------------------------------------

Init ==
    /\ enabled \in EnabledSets
    /\ whiteList = {}
    /\ runners = {} /\ removed = {} /\ manual = FALSE
    /\ disabledRunnerIds = {}
    /\ singleModeRunnerId = None /\ currentSingleRunner = None
    /\ prepped = FALSE /\ allRunnersPrepped = FALSE /\ singleRunnerPrepped = FALSE
    /\ prepared = {} /\ suspended = {}
    /\ query = None /\ pending = {} /\ asked = {}
    /\ disciplined \in BOOLEAN

Launch ==
    \E name \in Requested \cup {None} :
        \/ LaunchUnknownRunner(name)
        \/ LaunchBlank(name)
        \/ \E term \in Terms : LaunchSame(term, name) \/ LaunchNew(term, name)

Load ==
    \/ \E ps \in EnabledSets : ReloadConfiguration(ps)
    \/ \E ps \in WhiteLists : SetAllowedRunners(ps)
    \/ GetRunners
    \/ \E p \in Plugins : LoadRunner(p)

Next ==
    \/ HasRoom /\ (Load \/ Launch)
    \/ \E r \in removed : DeleteRunner(r)
    \/ SetupMatchSession
    \/ MatchSessionComplete
    \/ \E r \in runners : SuspendMatching(r)
    \/ \E r \in runners \cup removed : MatchingResumed(r)

Spec == Init /\ [][Next]_vars

-----------------------------------------------------------------------------

\* Every variable has its type; runners are told apart by their plugin, and only
\* living runners are prepared or suspended.
TypeOK ==
    /\ enabled \subseteq Plugins /\ whiteList \subseteq Plugins
    /\ runners \subseteq Runner /\ removed \subseteq Runner /\ runners \cap removed = {}
    /\ \A r, s \in runners : r.id = s.id => r = s
    /\ disabledRunnerIds \subseteq Plugins /\ manual \in BOOLEAN
    /\ singleModeRunnerId \in Requested \cup {None}
    /\ currentSingleRunner \in Runner \cup {None}
    /\ prepped \in BOOLEAN /\ allRunnersPrepped \in BOOLEAN
    /\ singleRunnerPrepped \in BOOLEAN /\ disciplined \in BOOLEAN
    /\ prepared \subseteq runners \cup removed /\ suspended \subseteq runners \cup removed
    /\ query \in Terms \cup {None} /\ pending \subseteq Runner /\ asked \subseteq Runner

\* The single runner is never a runner that was removed, whatever is reloaded when
\* ("just to be sure we do not have a dangeling pointer", runnermanager.cpp:169).
NoDanglingRunner == currentSingleRunner \in runners \cup {None}

\* Unless a client loaded runners of its own, exactly the plugins are loaded that the
\* configuration and the white list select, or that were asked for by name.
RunnersFollowConfig ==
    runners # {} /\ ~manual => Ids(runners) = Selected(Loader) \ Broken

\* In a session of all runners every loaded runner has been prepared, those that
\* were loaded during the session or for single runner mode included.
AllPrepared == allRunnersPrepped => runners \subseteq prepared

\* A client that keeps the mode finds no runner prepared outside a session: what was
\* prepared was torn down.
TornDownAfterSession == disciplined /\ ~prepped => prepared \cap runners = {}

\* For such a client only prepared runners are asked, also those that resume late:
\* neither before their prepare nor after the teardown of their session.
AskedArePrepared == disciplined => asked \subseteq prepared

-----------------------------------------------------------------------------

\* abstractrunner.h:205, of prepare: "This signal is emitted when matching is about to
\* commence, giving runners an opportunity to prepare themselves".
PreparedWhenAsked == asked \subseteq prepared

=============================================================================
