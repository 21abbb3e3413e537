# A TLA+ verification development for KRunner

KRunner is the framework behind Plasma's search: a `RunnerManager` sends a
query to a set of plugins (*runners*), each of which looks for matches in a thread
of its own, and hands the growing list of matches to a client. This directory
holds TLA+ models of that code, TLC instances that check them, and theorems that
TLAPS proves about them. Paths are relative to the repository.

## 1. Inventory of the system

| Component | State | Operations | Interacts with |
|---|---|---|---|
| `RunnerManager`, query lifecycle (`src/runnermanager.cpp`) | `context`, `currentJobs`, `pendingJobsAfterSuspend`, `singleModeRunnerId`, `untrimmedTerm`, `m_querying`, `matchChangeTimer`, `lastMatchChangeSignalled` | `launchQuery`, `reset`, `matchSessionComplete`, `onRunnerJobFinished`, `runnerMatchingResumed`, `scheduleMatchesChanged`, zero-timers | posts `matchInternal` and `reloadConfigurationInternal` to the runners; receives `matchInternalFinished`, `matchingResumed`, `onMatchesChanged`; emits `matchesChanged`, `queryFinished`, `queryingChanged` |
| `RunnerContext` (`src/runnercontext.cpp`) | an explicitly shared `RunnerContextPrivate`: validity, term, matches, unique ids, timestamp, lock | copy, `reset`, `setQuery`, `isValid`, `addMatches`, `runnerJobId` | copied into every queued call; calls back `RunnerManager::onMatchesChanged` |
| `AbstractRunner` (`src/abstractrunner.cpp`) | `optional<bool> suspendMatching` under a lock; minimum letters, regular expression, syntaxes | `init` (zero-timer), `suspendMatching`, `isMatchingSuspended`, `matchInternal`, `reloadConfigurationInternal`, `setTriggerWords` | runs in its thread; the manager reads its flags from the main thread |
| Plugin loading and sessions (`src/runnermanager.cpp`) | `runners`, `disabledRunnerIds`, `whiteList`, `currentSingleRunner`, `prepped`, `allRunnersPrepped`, `singleRunnerPrepped` | `loadRunners`, `loadSingleRunner`, `deleteRunners`, `setAllowedRunners`, `setupMatchSession`, `teardown` | creates and ends the runners' threads |
| History (`src/runnermanager.cpp`) | per-environment list in the state config | `addToHistory`, `removeFromHistory`, `getHistorySuggestion` | `run` |
| `DBusRunner` (`src/dbusrunner.cpp`) | matching services, actions per service, session flags | `Match`, `Actions`, `Config`, `Teardown`, `Run` calls and their asynchronous replies | lives in the main thread; services come and go |
| `RunnerResultsModel`, `ResultsModel` (`src/model/`) | categories and their matches; proxies that sort, limit and flatten | `onMatchesChanged` (difference of two lists as row signals), `setQueryString`, `clear`, `run` | client of `RunnerManager` |
| `QueryMatch`, `Action`, `RunnerSyntax`, D-Bus types, metadata conversion, `AbstractRunnerTest` | value objects and helpers | - | - |

What is hard in this code: the shared context is reset by the main thread while
runners still append to copies of it; answers to old queries arrive during new
ones; a runner may suspend and resume at any time; refreshes of the client are
stalled, restarted and flushed by a timer; the open and the pending jobs are two
collections that different calls clear at different times. `PROJECT.json` lists
these hazards with their lines.

What makes each component correct:

* Query lifecycle and context: matches always belong to the query they are
  collected for; late answers cannot disturb a newer query; every job ends; the
  client's list converges to the matches found and is old only during the stall.
* Suspension: a job that waits for a suspended runner is run or closed when it resumes.
* Match list: one match per unique id, weak results give way to strong ones.
* Loading and sessions: exactly the selected runners take part and are prepared
  before and torn down after a session.
* `DBusRunner`: each job is reported finished exactly once, after the last reply.
* Models: the row signals turn the old list into the new one.
* History: bounded, most recent first, no duplicates.

## 2. Modules

| Module | Content |
|---|---|
| `QueryLifecycle` | the manager's query lifecycle, the shared contexts and the runners' threads, composed |
| `MatchDisplay` | the abstract specification: what a client of the manager may see |
| `MCQueryLifecycle` and `MC*.cfg` | instances for TLC |
| `QueryLifecycleProofs` | types, safety invariants, the action property and the refinement |
| `QueryProgressProofs` | no forgotten refresh, no lost wakeup |
| `MatchStore`, `MCMatchStore` | the match list of one context: duplicates, weak and strong results |
| `MatchStoreProofs` | its inductive invariant and the theorems about replacement |
| `RunnerSession`, `MCRunnerSession` | which runners are loaded, which are prepared, which a query asks |
| `RunnerSessionProofs` | its inductive invariant and the theorems about loading and sessions |
| `JobContract` | the abstract specification of a runner: what it owes the manager for every job |
| `DBusRunner`, `MCDBusRunner` | a runner whose matches come from services on the bus |
| `ImageDecoding` | `decodeImage`: which lines of a picture that a service sends are copied |
| `DBusRunnerProofs`, `DBusFilterProofs` | the runner's safety and the refinement of `JobContract`; trigger words, match ids and pictures |
| `ResultDistribution` | how `CategoryDistributionProxyModel` shares out a limited number of rows |
| `ResultsModel`, `MCResultsModel` | the item models a client shows, the query string and the history |
| `ResultsModelProofs` | its inductive invariant: the tree and its signals, the order of the categories, the history |
| `ResultsShownProofs` | the bounds of the distribution, and which match a row of the shown list runs |

The modules meet at the calls of the code. `QueryLifecycle` takes the loaded runners
and their answers for granted; `RunnerSession` says which runners those are, and
`JobContract` what an answer is, which `DBusRunner` is shown to implement. `MatchStore`
refines the append that `QueryLifecycle` makes to a context. The client's list in
`QueryLifecycle` (`shown`) is the list that `MatchesChanged` hands to `ResultsModel`.

### How `QueryLifecycle` corresponds to the code

State. `heap` holds the `RunnerContextPrivate` objects and `d` says which of them
the manager's `context` points to; a copy of a context is a reference to the same
object, kept by a queued call (`inbox`) or a running `matchInternal` (`held`), so
that "the reference count is above one" is `Shared`. `currentJobs`, `pending`,
`single`, `typed`, `querying` and `timer` are the manager's fields; the string
`untrimmedTerm` is only needed for being blank or not, and a job id
`"<runner>-<term>-<timestamp>"` is a record of the three. `events` is the main
thread's queue, `inbox[r]` and `at[r]` are runner `r`'s queue and the place its
thread has reached. `shown` is the argument of the last `matchesChanged`, the
client's list.

Actions. A handler that runs in the main thread is one action, because nothing
else runs there meanwhile; the runners' threads are cut where another thread may
come between: `matchInternal` into the call of `match()` (`StartMatch`), the
validity check (`CheckValid`), the append under the second lock (`AppendMatches`),
the notice to the manager (`PostMatchesChanged`) and the return (`EndMatch`);
`reloadConfigurationInternal` into its suspension and its restoration; the
constructor's zero-timer is `RunInit`. `launchQuery` has four exits and is four
actions, each with everything that `reset()` and `RunnerContext::reset()` do on
the way, the detaching and the first `scheduleMatchesChanged` included.

Abstractions. `match()` adds at most one batch of matches, a match is
known by its runner and the term it was found for, whether 250 ms have passed since
the last signal is left open, and the rejection of a term by length or by regular
expression is the constant relation `Rejects`. The set of loaded runners is fixed
and no runner is disabled. A context whose last copy goes is blanked and its name
can be used again. Slots of the client that call back into the manager while
it emits a signal are not modelled. Runners are taken to live in their own
threads, which is so for C++ plugins; `DBusRunner` overrides `matchInternal` and
is the subject of `DBusRunner`.

`MatchDisplay` has three variables: the query, its matches, and what the client was
shown. `SetQuery` empties the matches, `Found` adds one *for that query*, `Show`
and `ShowNothing` are the two emissions of `matchesChanged`. The refinement
mapping reads the query and the matches from the context `d` points to.

### How `MatchStore` corresponds to the code

`matches` and `uniqueIds` are the fields of `RunnerContextPrivate`. The three
branches of its `addMatch` are the actions `AddDuplicate`, `AddNew` and `AddPlain`.
The code compares matches by identity, so every `QueryMatch` gets a number, and
the list is a set, since clients sort it by relevance. `addMatches` holds the write lock
for a batch; here a batch is added match by match and batches may interleave,
which allows more orders than the code has. `DeleteRunner` is the end of
`deleteRunners`, when the `QPointer` of the runner's matches becomes null and they
are no longer taken for weak. `Reset` is `RunnerContext::reset` as seen from the
manager's context; what happens to contexts that runners share is the subject of
`QueryLifecycle`, which in turn takes every match as plain.

### How `RunnerSession` corresponds to the code

State. `runners`, `disabledRunnerIds`, `whiteList`, `currentSingleRunner`,
`singleModeRunnerId` and the three session flags are fields of `RunnerManagerPrivate`;
`enabled` is what `pluginConf` says, and `prepared` and `suspended` are kept by the runner
objects. A runner is an object at a place in memory: a plugin can be loaded again while
its removed runner (`removed`) still works, and a place is used again after
`DeleteRunner`, which is what would turn a kept pointer into another runner.

Actions. `reloadConfiguration`, `setAllowedRunners`, `runners()`, `loadRunner`,
`setupMatchSession`, `matchSessionComplete` and the exits of `launchQuery` are one action
each. `launchQuery` may load runners twice (`runner(id)` loads all if there are
none, then `loadSingleRunner` loads the one by name), so loading is an operator on a
record of what it reads and writes (`Loader`), which the handlers apply as often as the
code does. `asked` names the runners that the step sends the query to, whether
`launchQuery` or `runnerMatchingResumed` does it.

`disciplined` divides the clients: one that begins a session in one mode (all runners, or
one by name), keeps it until `matchSessionComplete` and does not reload in single runner
mode meanwhile gets the guarantees of `TornDownAfterSession` and `AskedArePrepared`; the
others do not, and `PreparedWhenAsked` shows it. The other invariants hold for both.

### How `DBusRunner` and `JobContract` correspond to the code

A `DBusRunner` lives in the main thread, so that every handler is one action and
everything asynchronous is an element of `calls` that a later event answers, in any order
and with a reply or an error (a timeout is one). `matchInternal` asks every
matching service for its matches, those whose actions are to be fetched after their
`Actions` reply. `pendingServices[j]` is what the shared set of a job holds, and
`answers[j]` counts `matchInternalFinished`. `notices` is the queue of
`serviceOwnerChanged` signals: the set of services is older than the bus by these. The
suspension and the reload go through the base class, whose `reloadConfigurationInternal`
restores the earlier suspension at once, although the `Config` request is still on its
way. `requestConfig` without a service dereferences the end of an empty set: the model lets the
process die, the outcome that excludes all others (`crashed`).

The constructor of a wildcard runner lists the services on the bus and only then connects to
`serviceOwnerChanged`. Both are steps of their own: `Init` is the state after the list,
which is empty if the bus returned an error, and `Watch` is the connection; in between
services come and go unseen. `missed` remembers which ones the runner is wrong about
until their owner changes again.

Of the manager the model keeps what a runner feels: `LaunchQuery` with a text, in single
runner mode or for all runners, whose job is posted if the filter lets it through and waits if
the runner is suspended; `LaunchWithoutJob`, the exits of `launchQuery` for a blank or
repeated query and for another single runner, which drop the waiting job; `Reset`; and the end
of a session. A waiting job is posted when the runner resumes, if the filter of that moment
accepts the query or the runner is the single one, as `runnerMatchingResumed` decides.

Texts are sequences of characters here, because two properties are about them: the trigger
words and the ids. `Configured` applies the setters in the order of the keys.
`WordsRegex` and `WordsMin` are `setTriggerWords`: only the first alternative that is not
empty is anchored, leading empty words leave no trace in the expression, later ones are
alternatives that match everything, and an empty word makes the search for the shortest one start anew.
`ConvertMatch` builds a match as `convertMatches` does, with the `QueryMatch` setters for
its id, the actions its service has told so far and its icon, which is the picture if
`DecodeImage` returns one. `SelectAction` is the copy of the match that
`RunnerManager::run` makes, `Run` the calls that follow: the activation token, if Wayland
gives one, and `Run`. The list of actions a service may send is a constant set.

`JobContract` has three variables: the jobs begun, the job that the last step reported
matches for, and the answers. `DBusRunner` implements it with the same variables.

In `ImageDecoding` a picture is its size, its format and the length of its data. The loop of
`decodeImage` stops at the first line that the data do not hold, so that a line is copied if it and
all before it are complete.

### How `ResultsModel` and `ResultDistribution` correspond to the code

`categories` and `matches` are the members of `RunnerResultsModel`. `onMatchesChanged`
is cut at each signal it emits (`RemoveCategory`, `ChangeRows`, `GrowRows`,
`ShrinkRows`, `EndUpdate`), because the code of views runs there and sees the tree half
updated. `view` is what such a view knows if it applies each signal to what it had and reads only
the announced rows; after a reset it reads everything.

`Within` picks the elements of a list that belong to a set, as the loop does that appends each match
to the rows of its category; `Arranged` is the stable sort, since the relations it is given
decide equals by their earlier places.

The proxies of `ResultsModel` are functions of the tree: `SortedRows` and `sorted` are
`SortProxyModel`, `Flattened` is `CategoryDistributionProxyModel` with
`KDescendantsProxyModel` on top, `Shown` adds `HideRootLevelProxyModel`. Only the order of the
categories is state: Qt re-sorts the rows that a signal touches, but the categories are
sorted anew only when `SortProxyModel` finds new words in the query string, and
inserted ones get the place that a search in a possibly unsorted list finds. That Qt's
proxies update themselves as they should is taken for granted.

Matches have a runner that is still loaded or not (`Valid`), are enabled or not, and have a
number of actions; `CanRun` and `CanRunAction` are what `run` and `runAction` check before they
call the manager. The favourite index of a category is that of its first valid match, and relevances are
rounded to integers as `toInt()` does. A match keeps its validity throughout a behaviour: the
deletion of a runner whose matches are on display is not in this model. `MatchesChanged` has no
matches while the manager has no query. The manager could emit some then for a job that
waited during a `reset()` (the run `reset`), but in this module whatever empties the query
also drops those jobs: `clear()` ends the session, and `launchQuery` clears them itself.

`Next` is the public interface of `ResultsModel`; `setLimit` needs no action, since the
properties speak of every limit at once. `Distribution` is the arithmetic of `filterAcceptsRow`. The history is that of one environment;
`WithEntry` is `addToHistory` with its cut, and `ignored` the flag that
`ignoreCurrentMatchForHistory` sets. `RemoveFromHistory` has no negative index: the code hands it
to `QList::removeAt`, which is undefined for it.

## 3. Runs

| Run | Instance | Shows |
|---|---|---|
| `one_runner` | 1 runner, 2 terms (one rejected by the runner), 3 contexts, `MaxInbox` 1, `MaxEvents` 2 | types, `NoStaleMatches`, `JobsBelongToQuery`, `StaleShownOnlyWhileStalling`, `HeldContextStable`, `ImplementsDisplay` |
| `two_runners` | 2 runners, one of which suspends itself, 1 term, 3 contexts, both bounds 1, no session end | `DirtyIsScheduled`, `NoLostWakeup` |
| `liveness` | 1 runner that suspends and is reloaded, 1 term, 2 contexts, both bounds 1 | `StartedJobsEnd`, `PendingJobsEnd`, `DisplayConverges` |
| `querying` | as `liveness` | violation: `querying()` stays true after `reset()` |
| `reset` | as `liveness` | violation: a resuming runner is asked the empty query after `reset()` |
| `finishes` | 1 runner that only initialises, no session end | violation: a repeated `launchQuery` of the same term never finishes |
| `match_store` | 4 runners (plain, weak, two strong), 2 ids, 4 matches | types, `FoundIdsStay`, `ListedIdsAreKnown`, `StrongFirstIsUnique`, `OnlyWeakIsReplaced` |
| `duplicates` | 3 runners (weak, two strong), 1 id, 3 matches | violation: after weak and strong, another strong match with the id is listed besides |
| `sessions` | 3 plugins (1 broken, 1 excluded by a configuration, 1 by the white list and rejecting the term), 2 places for one of them | types, `NoDanglingRunner`, `RunnersFollowConfig`, `AllPrepared`, `TornDownAfterSession`, `AskedArePrepared` |
| `unprepared` | as `sessions` | violation: a session begun for one single runner and continued for another asks that one unprepared |
| `dbus` | 2 services, 3 kinds of plugins with 3, 2 and 3 events, 2 queries, one full reply to `Config` with an empty trigger word, 4 replies to `Match` | types, `WaitsForItsCalls`, `ActionsAtMostOnce`, `NeverStuck`, `ServicesTracked`, `TriggersAccepted`, `RunsWhatWasFound`, `KeepsContract`, `JobsAnswered` |
| `results` | 6 matches in 3 categories, 3 lists, 5 inputs, 2 limits, history of 3 entries | types, `ViewMirrors`, `TreeShowsList`, `CategoriesKeepOrder`, `SortedForNewWords`, `EveryCategoryShown`, `RunsTheShownMatch`, `EmptyInputShowsNothing`, `HistoryTidy` |

Bounds. `MaxInbox` and `MaxEvents` bound the queues only when the client, a
configuration file or a suspending plugin acts; handlers and runners always post, so
queues do get longer than the bounds. Three contexts are enough for the one
in use, one that a runner still works on and one that is still queued; two
terms distinguish old matches from new ones; one timestamp makes the ids of equal
terms collide, the harder case. With two runners, one
answers while the other is suspended, resumes or starts; the end of a session is in
the runs with one. Four matches of two ids are enough for a weak match, its
replacement, a later duplicate and a match of another id or of a plain runner. Contexts are
interchangeable, hence the symmetry in the safety runs; the liveness runs use none.

Two loadable plugins are enough for one that is asked by name and another that is not, or
one that is disabled and one that is not; the second place of `files` lets its removed
runner live beside the new one. A broken plugin is the one a query asks for in vain.
Two services let replies overtake each other, one fail and one disappear; three events are
two queries and a change of owner or a reload between them, or two reloads that overlap;
the three kinds of plugins combine the wildcard, the actions asked for once, the lifecycle
methods and unique ids; the one with both the wildcard and lifecycle methods, which has the most
behaviours, has two events. Both queries are too short for the
filters that two of the plugins come with; the one reply to `Config` changes every part of the
filter and lets one of them through. Of the replies to `Match` one has
no id, one is the separator, one looks like the mark that `setId` adds, and one has a picture
with incomplete data. `ImagesAreDecoded` compares `DecodeImage` with the bytes it
reads for all pictures of up to 2 by 2 pixels. The three lists add, remove, reorder and resize
categories and leave one alone; the limits are none and the number of
categories (the theorems are about all of them); stored histories that are full stand for those the run does not get to. The runs
`sessions`, `dbus` and `results` have 0.3 to 0.7 million states each (`dbus` 368,520 and `results` 469,520).

Only `dbus` allows deadlock: its bound on events ends a behaviour, as does the death of the
process. In all other runs the client may always act.

Fairness (`FairSpec`). Each event loop handles its queue in order (`ManagerEvent`,
`RunnerStep`), an active timer fires, `match()`, `init()` and
`reloadConfiguration()` return, and a plugin that suspended itself resumes, as
`abstractrunner.h` demands ("Do not permanently suspend the runner"). Nothing is
assumed of the client, and weak fairness is enough everywhere. `DBusRunner` assumes that
posted events and the constructor's timer are handled, and that while calls are under way one
of them is answered at some time: QtDBus reports an error after a timeout at the latest.

The violations are explained under "findings" in `PROJECT.json`. Each is a
promise of the documentation or of a comment that the code breaks, and in each
one piece of state (`currentJobs`, `pendingJobsAfterSuspend`, the match list, the mode) is
changed and its companion (`m_querying`, `uniqueIds`, the session flags) is not.

Observations. Behaviour of the code that no run reports as a violation and that a
maintainer may want to know; where it contradicts a comment of the code, that is said:

* A `reloadConfiguration` that arrives before `init()` has run leaves a D-Bus runner without
  lifecycle methods suspended for good: it finds no suspension to restore, suspends, and
  `init()` then finds a flag that is set (`reloadedEarly` in `NeverStuck`).
* A D-Bus runner is asked while the reply to a reload's `Config` is outstanding; what it
  reports then follows the old configuration.
* The second query of a session does not wait for the `Actions` reply the first one has
  asked for: its matches have no actions. A service that appears during a session is not asked for its
  actions in it, and with `X-Plasma-Request-Actions-Once` a failed `Actions` call is never repeated.
* Of several trigger words only the first is anchored at the start: `^w1|w2` lets through
  `xw2`, although `abstractrunner.h:187` speaks of "a regex which requires the query to start with
  the trigger words".
* Nothing keeps a service from sending an empty trigger word. One that is not first is an alternative
  that matches everything, and the minimum length is the shortest of the words after the last
  empty one, not "the shortest word in the list" (`abstractrunner.h:190`): with `foo`, the
  empty word and `barbaz` the query `foo` is rejected.
* A wildcard runner does not notice that the list of services could not be read, nor a service
  that appears between the list and the connection to `serviceOwnerChanged`; it asks that service only
  after its owner has changed once more (`missed`).
* An image with too little data is not rejected; the lines that are missing show whatever the memory
  of the new image held.
* With unique results, a match with an empty id goes by the runner's id, and that is what `run()`
  sends to the service.
* `disabledRunnerIds` only grows: a runner once asked for by name while disabled is left out of
  normal queries although the user enables it later.
* Setting the query string from a word to a blank neither clears the model nor launches
  anything, and a blank string set to the empty one is not noticed as a change.
* `ignoreCurrentMatchForHistory` holds for every match that is run until the query changes. So
  does the text of `requestQueryStringUpdate`: every later `run()` of that query emits
  `requestUpdateQueryString` again and returns false (read, not modelled).
* Later batches of matches and changed favourites do not re-sort the categories. The favourites then
  need not come first, although `resultsmodel.h:133` says of them: "Those plugins are always in a fixed
  order before the other ones." `SortedForNewWords` states what holds, the order of the first
  list for new words.
* `RunnerResultsModel::setRunnerManager` calls `disconnect(m_manager)`, which disconnects signals of the
  model and not those of the old manager: its `matchesChanged` still reaches the model (read, not
  modelled: there is one manager).
* An index a client keeps over the removal of an earlier category points to another
  category afterwards.

## 4. Proofs

For every set of runners, terms, timestamps and contexts and any bounds that
satisfy `ConstantsAssumption`, TLAPS proves of `Spec`:

* `TypeCorrect`: `TypeOK`, which includes that a runner holds a context exactly
  while its `matchInternal` runs. `TypeOK` is inductive; every other
  proof starts from it.
* `NoStaleMatchesTheorem`. The property is not inductive: it needs that the term a
  running `match()` has read is the term of the context it holds, and that a
  queued or held context is never blanked or reused (`ContextInv`). The decisive
  step is `reset()`: if anybody shares the context, `Detached` contains only
  contexts that nobody shares.
* `HeldContextStableTheorem`, an action property, from the same facts.
* `JobsBelongToQueryTheorem`, from a directly inductive formula over job ids.
* `StaleShownTheorem` and `DirtyIsScheduledTheorem`, the two halves of "the client is
  not left with a wrong list". The second needs `BlankingIsRepaired`: behind a
  zero-timer that will blank the display there is a refresh in the queue if there
  are matches to show.
* `NoLostWakeupTheorem`, which needs `JobsBelongToQuery` (an open job of a pending
  runner is the one it reports) and `PendingModes` (jobs are pending only for
  runners the current mode admits).
* `Refinement`: `Spec => ImplementsDisplay`, by mapping each action to a step of
  `MatchDisplay` or to a stutter, from `ContextInv`.

For every set of runners, of which any are unique and any are weak, and every set of
ids, TLAPS proves of `MatchStore`'s `Spec`: `TypeTheorem`, `ListedIdsTheorem`,
`FoundIdsStayTheorem`, `StrongFirstTheorem` and `OnlyWeakTheorem`. The inductive invariant
is `TypeOK` (the hash has matches of unique runners under their own ids) with `FoundIdsStay`,
`ListedIdsAreKnown` and `StrongFirstIsUnique`; `ListedIdsAreKnown` is what makes the
first match of an id the only one, and `DuplicateStep` says that a duplicate
changes the matches of its own id only.

Of `RunnerSession`, for any plugins, names, configurations and places that satisfy
`PluginsAssumption` and `NamesAssumption`, all six invariants of the run `sessions` are proved.
Together they are inductive once `Modes` is added, which relates the flags of a session
to the mode a disciplined client keeps (in single runner mode no runner is prepared but the
single one) and says that runners with a pending job are prepared. The loader is dealt with in
lemmas of its own (`NewRunnersFacts`, `LoadRunnersFacts`, `LoadSingleRunnerFacts`): what any
number of loadings preserves, so that the proof of an action does not look into them.
`NamesAssumption` (the translated names are no ids) is needed: `setupMatchSession`
looks for names among ids, and if a name were the id of a disabled runner, its runner would not be
prepared.

Of `DBusRunner`, for any services, kinds of plugins, replies and bound:

* `TypeTheorem`, `WaitsTheorem`, `ActionsTheorem`, `NeverStuckTheorem` and
  `ServicesTheorem` in `DBusRunnerProofs`. `Budget` relates the jobs to the events
  that can have caused them (a waiting job is posted again by each resumption, and each
  resumption needs `init()`, a reload or a `Config` reply of its own), which is why `Jobs`
  is large enough. `EarlySuspension` says which suspensions nobody is going to end.
  `ServicesTracked` needs to know what the notices in the queue amount to: `NoticesTell`
  says that there is a history of sets, from the one the runner knows to the one on the
  bus, of which each notice is one step, for the services that are not `missed`. The theorem
  allows any failure of the list and any changes before the watch: `missed` is the exact set of
  services the runner is then wrong about, and shrinks with each change of owner.
* `ContractTheorem`: `Spec => KeepsContract`, the refinement of `JobContract`. The
  decisive fact is `WaitsForItsCalls`: while a call of a job is under way the job is not
  answered.
* `TriggersTheorem`, `IdsTheorem` and `ImageTheorem` in `DBusFilterProofs`. The first is for any
  trigger words, empty ones included: a word after the last empty one is accepted at the start of
  a query. The minimum is defined by a recursive function; that from some word on it is no longer
  than that word, if none after it is empty, is proved by looking at the least index at which it
  would fail (`NatLessThanWellFounded` and `WFMin`), since the induction theorems with an
  operator as a parameter cannot be used. `IdsTheorem` needs that a plugin id is not empty, which
  `loadRunner` checks. `ImageTheorem` is about the operators of `ImageDecoding`, for any size, stride
  and length of the data: the complete lines are the first ones, and no byte beyond the data is read.

Of `ResultsModel`, for any matches, categories, lists, strings, favourites, limits and stored
histories that satisfy `ResultsAssumption`, all its seven invariants and both action
properties:

* `ResultsInvariance` in `ResultsModelProofs` proves the inductive invariant `ResultsInv`.
  Neither `ViewMirrors` nor `TreeShowsList` is inductive: appending the announced rows to what the
  view has gives the new rows only if those it has were overwritten before, and the end of
  the update must find every category right. `WalkDone` says both: the
  categories the walk has passed have the rows of the new list and, between the
  two steps of a category, the rows both lists have are overwritten. `WalkAfterRemoval` says that the
  walk starts when no category is left that is gone, and `UpdateOfEmitted` that the update is
  made of the list the manager has emitted last. From `ResultsInv` follow `TypeTheorem`,
  `ViewMirrorsTheorem`, `TreeShowsListTheorem`, `EmptyInputTheorem`, `HistoryTheorem` and the two action
  properties `CategoriesKeepOrderTheorem` and `SortedForNewWordsTheorem`.
* `Within` and `Arranged` have lemmas of their own. `WithinPicks` names the places that a
  selection keeps; `ArrangedProperties` says that the `CHOOSE` finds something for every
  strict order of a finite set (an element's place is the number of those before it), and
  `KeysOrder` that favourites, relevance and earlier place make such an order.
* `DistributionBounds` in `ResultsShownProofs`, for any limit and any categories. The
  function `taken` is defined by recursion; `RecursionExists` says that such functions
  exist, and `UpTo` is induction over a set of numbers, which takes the place of the induction
  theorems that have an operator as a parameter. The decisive fact is that a share is either one
  row or leaves the reserve of `CeilDiv(limit, n)` rows (`ShareBounds`), so that i
  categories have at most `limit - CeilDiv(limit, n) + i` rows.
  `EveryCategoryShownTheorem` is this for the categories of the tree.
* `RunsTheShownMatchTheorem`: `ShownProperties` says exactly which indexes the flat list
  holds and that it holds none twice, because the pieces of two categories have
  different parents; `MatchAt` that the view and `fetchMatch` find the same match at each of them;
  `HiddenIsWorse` that what a limit hides is further down in the order of its category.

Only model-checked is liveness (`StartedJobsEnd`, `PendingJobsEnd`, `DisplayConverges`,
`JobsAnswered`): it needs `ENABLED` and fairness, which the prover does not handle. Every invariant and
every action property that a passing run checks is also a theorem.

## 5. Not modelled, and the plan

What the models leave out of the parts they cover:

* Client slots that call back into the manager while it emits a signal. With them
  `reset()` (`runnermanager.cpp:671`), `onRunnerJobFinished` and `suspendMatching` (which
  emits with its lock held, `abstractrunner.cpp:116`) would have to be cut at each signal, and the slot
  be any call of the manager.
* `minLetterCount` and `matchRegex` are read by the main thread without a lock while a
  runner in another thread may set them. The rejection of a term is constant in `QueryLifecycle`;
  `DBusRunner` changes its filter, but in the main thread.
* The job ids of a runner that is removed during a query: `RunnerSession` has no
  jobs and `QueryLifecycle` no removal. The composition of the two has not been tried.
* Of a `DBusRunner`: texts, urls, relevance and category of its matches, the pixels of its pictures,
  syntaxes, and the early return of the constructor for a desktop entry without a service name or
  path (such a runner has no services).
* A negative index for `removeFromHistory`, and the deletion of a runner whose matches a
  `ResultsModel` shows.
* `requestedQueryString`, `setRunnerManager` of the models, environments of the
  history (independent lists), the manager's destructor, the watchers of the
  configuration files (their effect, a reload, is an action).
* The proxies' incremental updates, which are Qt's.

Next, in this order: the removal of runners in `QueryLifecycle`; the
re-entrant slots and the suspension with its lock as separate steps; the refinement of the
append in `QueryLifecycle` by `MatchStore`.

Left out for good: value objects and marshalling (`Action`, `RunnerSyntax`, D-Bus
types, metadata conversion), the test helper, autotests and project
templates, which keep no state that another component depends on.
