------------------------- MODULE RunnerSessionProofs -------------------------
(***************************************************************************)
(* Proofs about RunnerSession, for any plugins, places in memory, names,   *)
(* configurations and queries.                                             *)
(***************************************************************************)
EXTENDS RunnerSession, TLAPS

Loaders ==
    [enabled : SUBSET Plugins, whiteList : SUBSET Plugins, runners : SUBSET Runner,
     removed : SUBSET Runner, disabled : SUBSET Plugins, manual : BOOLEAN,
     prepared : SUBSET Runner, suspended : SUBSET Runner]

\* What holds of the loader between any two calls of loadRunners.
Sound(l) ==
    /\ l.runners \cap l.removed = {}
    /\ \A r, s \in l.runners : r.id = s.id => r = s
    /\ Ids(l.runners) \cap Broken = {}
    /\ l.prepared \subseteq l.runners \cup l.removed
    /\ l.suspended \subseteq l.runners \cup l.removed

Follows(l) == l.runners # {} /\ ~l.manual => Ids(l.runners) = Selected(l) \ Broken

\* l comes from k by loading runners and taking some out.
Extends(k, l) ==
    /\ k.runners \cup k.removed \subseteq l.runners \cup l.removed
    /\ l.runners \cap (k.runners \cup k.removed) \subseteq k.runners
    /\ k.prepared \subseteq l.prepared
    /\ prepped => (l.runners \cup l.removed) \ (k.runners \cup k.removed) \subseteq l.prepared
    /\ ~prepped => l.prepared = k.prepared

\* There is a place for every runner of ps that has to be made.
Room(l, ps) == \A p \in (ps \ Broken) \ Ids(l.runners) : Free(l, p) # {}

-----------------------------------------------------------------------------
(* Loading *)

LEMMA RunnerId == \A r \in Runner : r.id \in Plugins
BY DEF Runner

\* New runners live at free places and belong to different plugins.
LEMMA NewRunnersFacts ==
    ASSUME NEW l, NEW ps, Room(l, ps)
    PROVE  /\ NewRunners(l, ps) \subseteq Runner \ (l.runners \cup l.removed)
           /\ \A r, s \in NewRunners(l, ps) : r.id = s.id => r = s
           /\ Ids(NewRunners(l, ps)) = (ps \ Broken) \ Ids(l.runners)
<1>. DEFINE X == (ps \ Broken) \ Ids(l.runners)
            f(p) == CHOOSE r \in Free(l, p) : TRUE
<1>1. \A p \in X : f(p) \in Free(l, p)
  BY DEF Room
<1>2. \A p \in X : f(p) \in Runner /\ f(p).id = p /\ f(p) \notin l.runners \cup l.removed
  BY <1>1 DEF Free
<1>3. NewRunners(l, ps) = {f(p) : p \in X}
  BY DEF NewRunners
<1>. HIDE DEF X, f
<1>4. Ids(NewRunners(l, ps)) = X
  BY <1>2, <1>3 DEF Ids
<1>. QED  BY <1>2, <1>3, <1>4 DEF X

LEMMA WithNewFields ==
    ASSUME NEW l \in Loaders, NEW new \in SUBSET Runner
    PROVE  LET k == WithNew(l, new)
           IN  /\ k \in Loaders
               /\ k.runners = l.runners \cup new /\ k.removed = l.removed
               /\ k.prepared = (IF prepped THEN l.prepared \cup new ELSE l.prepared)
               /\ k.suspended = l.suspended \cup new
               /\ k.enabled = l.enabled /\ k.whiteList = l.whiteList
               /\ k.disabled = l.disabled /\ k.manual = l.manual
BY DEF WithNew, Loaders

\* loadRunners keeps the loader sound and leaves exactly the selected runners.
LEMMA LoadRunnersFacts ==
    ASSUME NEW l \in Loaders, Sound(l), NEW name,
           Room(l, Selected(l) \cup ({name} \cap Plugins))
    PROVE  LET k == LoadRunners(l, name)
           IN  /\ k \in Loaders /\ Sound(k) /\ Extends(l, k)
               /\ Ids(k.runners) = Selected(k) \ Broken
               /\ ~k.manual
               /\ l.runners = {} => k.removed = l.removed
<1>. DEFINE wanted == Selected(l) \cup ({name} \cap Plugins)
            dead == {r \in l.runners : r.id \notin wanted}
            kept == [l EXCEPT !.runners = @ \ dead, !.removed = @ \cup dead,
                              !.disabled = @ \cup (wanted \ Selected(l)), !.manual = FALSE]
            new == NewRunners(l, wanted)
            k == WithNew(kept, new)
<1>1. LoadRunners(l, name) = k
  BY DEF LoadRunners
<1>2. wanted \subseteq Plugins
  BY DEF Selected
<1>3. /\ kept \in Loaders
      /\ kept.runners = l.runners \ dead /\ kept.removed = l.removed \cup dead
      /\ kept.disabled = l.disabled \cup (wanted \ Selected(l)) /\ kept.manual = FALSE
      /\ kept.enabled = l.enabled /\ kept.whiteList = l.whiteList
      /\ kept.prepared = l.prepared /\ kept.suspended = l.suspended
  BY <1>2 DEF Loaders
<1>4. /\ new \subseteq Runner \ (l.runners \cup l.removed)
      /\ \A r, s \in new : r.id = s.id => r = s
      /\ Ids(new) = (wanted \ Broken) \ Ids(l.runners)
  BY NewRunnersFacts
<1>. HIDE DEF kept, new
<1>5. /\ k \in Loaders
      /\ k.runners = (l.runners \ dead) \cup new /\ k.removed = l.removed \cup dead
      /\ k.prepared = (IF prepped THEN l.prepared \cup new ELSE l.prepared)
      /\ k.suspended = l.suspended \cup new
      /\ k.enabled = l.enabled /\ k.whiteList = l.whiteList
      /\ k.disabled = l.disabled \cup (wanted \ Selected(l)) /\ ~k.manual
  <2>1. new \in SUBSET Runner
    BY <1>4
  <2>2. /\ k \in Loaders
        /\ k.runners = kept.runners \cup new /\ k.removed = kept.removed
        /\ k.prepared = (IF prepped THEN kept.prepared \cup new ELSE kept.prepared)
        /\ k.suspended = kept.suspended \cup new
        /\ k.enabled = kept.enabled /\ k.whiteList = kept.whiteList
        /\ k.disabled = kept.disabled /\ k.manual = kept.manual
    BY <1>3, <2>1, WithNewFields
  <2>. HIDE DEF k
  <2>. QED  BY <1>3, <2>2
<1>. HIDE DEF k
<1>6. Selected(k) = wanted
  BY <1>2, <1>5 DEF Selected
<1>7. Ids(l.runners \ dead) = Ids(l.runners) \cap wanted
  BY DEF Ids
<1>8. Ids(k.runners) = Selected(k) \ Broken
  <2>1. Ids(k.runners) = Ids(l.runners \ dead) \cup Ids(new)
    BY <1>5 DEF Ids
  <2>. QED  BY <2>1, <1>4, <1>6, <1>7 DEF Sound
<1>9. \A r, s \in k.runners : r.id = s.id => r = s
  <2>1. \A r \in l.runners, s \in new : r.id # s.id
    BY <1>4 DEF Ids
  <2>. QED  BY <2>1, <1>4, <1>5 DEF Sound
<1>10. Sound(k)
  <2>1. k.runners \cap k.removed = {}
    BY <1>4, <1>5 DEF Sound
  <2>2. k.runners \cup k.removed = l.runners \cup l.removed \cup new
    BY <1>5
  <2>. QED  BY <2>1, <2>2, <1>5, <1>8, <1>9 DEF Sound
<1>11. Extends(l, k)
  BY <1>4, <1>5 DEF Extends
<1>12. l.runners = {} => k.removed = l.removed
  BY <1>5
<1>. QED  BY <1>1, <1>5, <1>8, <1>10, <1>11, <1>12

LEMMA ExtendsRefl == ASSUME NEW l PROVE Extends(l, l)
BY DEF Extends

LEMMA ExtendsTrans ==
    ASSUME NEW j, NEW k, NEW l, Extends(j, k), Extends(k, l) PROVE Extends(j, l)
BY DEF Extends

\* runner() and runners().
LEMMA EnsureLoadedFacts ==
    ASSUME NEW l \in Loaders, Sound(l), Follows(l), Room(l, Selected(l)), None \notin Plugins
    PROVE  LET k == EnsureLoaded(l)
           IN  /\ k \in Loaders /\ Sound(k) /\ Follows(k) /\ Extends(l, k)
               /\ l.runners # {} => k = l
               /\ l.runners = {} => k.removed = l.removed
<1>1. Selected(l) \cup ({None} \cap Plugins) = Selected(l)
  OBVIOUS
<1>2. CASE l.runners = {}
  BY <1>1, <1>2, LoadRunnersFacts DEF EnsureLoaded, Follows
<1>3. CASE l.runners # {}
  BY <1>3, ExtendsRefl DEF EnsureLoaded
<1>. QED  BY <1>2, <1>3

\* After loadRunners there is nothing left to load.
LEMMA NothingToLoad ==
    ASSUME NEW l, Ids(l.runners) = Selected(l) \ Broken PROVE Room(l, Selected(l))
BY DEF Room

LEMMA LoadSingleRunnerFacts ==
    ASSUME NEW l \in Loaders, Sound(l), Follows(l), Room(l, Plugins), None \notin Plugins,
           NEW name
    PROVE  LET k == LoadSingleRunner(l, name)
           IN  k \in Loaders /\ Sound(k) /\ Follows(k) /\ Extends(l, k)
<1>. DEFINE tried == EnsureLoaded(l)
            loaded == LoadRunners(tried, name)
<1>1. Selected(l) \subseteq Plugins
  BY DEF Selected
<1>2. /\ tried \in Loaders /\ Sound(tried) /\ Follows(tried) /\ Extends(l, tried)
      /\ l.runners # {} => tried = l
      /\ l.runners = {} => tried.removed = l.removed
  <2>1. Room(l, Selected(l))
    BY <1>1 DEF Room
  <2>. QED  BY <2>1, EnsureLoadedFacts
<1>3. CASE LoadSingleRunner(l, name) = l
  BY <1>3, ExtendsRefl
<1>4. CASE LoadSingleRunner(l, name) = tried
  BY <1>4, <1>2
<1>5. CASE LoadSingleRunner(l, name) = EnsureLoaded(loaded) /\ name \notin Ids(tried.runners)
  <2>1. Room(tried, Selected(tried) \cup ({name} \cap Plugins))
    <3>1. CASE l.runners # {}
      BY <3>1, <1>1, <1>2 DEF Room
    <3>2. CASE l.runners = {}
      <4>1. Ids(tried.runners) = Selected(tried) \ Broken
        <5>1. Room(l, Selected(l) \cup ({None} \cap Plugins))
          BY <1>1 DEF Room
        <5>. QED  BY <5>1, <3>2, LoadRunnersFacts DEF EnsureLoaded
      <4>2. ASSUME NEW p \in ({name} \cap Plugins) \ Broken PROVE Free(tried, p) # {}
        <5>1. Free(tried, p) = {r \in Runner : r.id = p} \ l.removed
          BY <1>2, <1>5, <3>2 DEF Free, Ids
        <5>2. Free(l, p) = {r \in Runner : r.id = p} \ l.removed
          BY <3>2 DEF Free
        <5>3. Free(l, p) # {}
          BY <3>2 DEF Room, Ids
        <5>. QED  BY <5>1, <5>2, <5>3
      <4>. QED  BY <4>1, <4>2 DEF Room
    <3>. QED  BY <3>1, <3>2
  <2>2. /\ loaded \in Loaders /\ Sound(loaded) /\ Extends(tried, loaded)
        /\ Ids(loaded.runners) = Selected(loaded) \ Broken
    BY <2>1, <1>2, LoadRunnersFacts
  <2>. HIDE DEF loaded, tried
  <2>3. Room(loaded, Selected(loaded)) /\ Follows(loaded)
    BY <2>2, NothingToLoad DEF Follows
  <2>4. LET k == EnsureLoaded(loaded)
        IN  k \in Loaders /\ Sound(k) /\ Follows(k) /\ Extends(loaded, k)
    BY <2>2, <2>3, EnsureLoadedFacts
  <2>5. Extends(l, EnsureLoaded(loaded))
    BY <2>2, <2>4, <1>2, ExtendsTrans
  <2>. QED  BY <1>5, <2>4, <2>5
<1>6. \/ LoadSingleRunner(l, name) = l
      \/ LoadSingleRunner(l, name) = tried
      \/ LoadSingleRunner(l, name) = EnsureLoaded(loaded) /\ name \notin Ids(tried.runners)
  BY DEF LoadSingleRunner
<1>. QED  BY <1>3, <1>4, <1>5, <1>6

-----------------------------------------------------------------------------
(* The inductive invariant *)

\* What a session and a mode mean for the runners, for every client and for one that
\* keeps its mode.
Modes ==
    /\ Ids(runners) \cap Broken = {}
    /\ allRunnersPrepped \/ singleRunnerPrepped => prepped
    /\ ~prepped => pending = {}
    /\ disciplined => pending \cap (runners \cup removed) \subseteq prepared
    /\ disciplined /\ prepped /\ singleModeRunnerId = None => allRunnersPrepped
    /\ disciplined /\ prepped /\ singleModeRunnerId # None =>
            /\ singleRunnerPrepped
            /\ currentSingleRunner # None /\ currentSingleRunner.id = singleModeRunnerId
            /\ currentSingleRunner \in prepared
            /\ prepared \cap runners \subseteq {currentSingleRunner}

IInv ==
    /\ TypeOK /\ NoDanglingRunner /\ RunnersFollowConfig
    /\ AllPrepared /\ TornDownAfterSession /\ AskedArePrepared
    /\ Modes

LEMMA NoneIsNothing == None \notin Plugins /\ None \notin Runner
BY PluginsAssumption

LEMMA LoaderFacts ==
    ASSUME IInv PROVE Loader \in Loaders /\ Sound(Loader) /\ Follows(Loader)
BY DEF IInv, TypeOK, Modes, RunnersFollowConfig, Loader, Loaders, Sound, Follows

LEMMA HasRoomFacts == ASSUME HasRoom PROVE Room(Loader, Plugins)
BY DEF HasRoom, Room, Loader

\* A sound loader becomes a sound state.
LEMMA StoreFacts ==
    ASSUME NEW l \in Loaders, Sound(l), Follows(l), Store(l),
           NEW more \in SUBSET l.runners, prepared' = l.prepared \cup more
    PROVE  /\ enabled' \subseteq Plugins /\ whiteList' \subseteq Plugins
           /\ runners' \subseteq Runner /\ removed' \subseteq Runner
           /\ runners' \cap removed' = {}
           /\ \A r, s \in runners' : r.id = s.id => r = s
           /\ disabledRunnerIds' \subseteq Plugins /\ manual' \in BOOLEAN
           /\ prepared' \subseteq runners' \cup removed'
           /\ suspended' \subseteq runners' \cup removed'
           /\ RunnersFollowConfig'
           /\ Ids(runners') \cap Broken = {}
<1>1. /\ enabled' = l.enabled /\ whiteList' = l.whiteList
      /\ runners' = l.runners /\ removed' = l.removed
      /\ disabledRunnerIds' = l.disabled /\ manual' = l.manual
      /\ suspended' = l.suspended
  BY DEF Store
<1>2. Selected(Loader)' = Selected(l)
  BY <1>1 DEF Selected, Loader
<1>. QED  BY <1>1, <1>2 DEF Loaders, Sound, Follows, RunnersFollowConfig

\* What loading does not disturb.
LEMMA Carried ==
    ASSUME IInv, NEW l, Extends(Loader, l)
    PROVE  /\ allRunnersPrepped => l.runners \subseteq l.prepared
           /\ disciplined /\ ~prepped => l.prepared \cap l.runners = {}
           /\ disciplined => pending \cap (l.runners \cup l.removed) \subseteq l.prepared
<1>1. /\ Loader.runners = runners /\ Loader.removed = removed /\ Loader.prepared = prepared
  BY DEF Loader
<1>2. allRunnersPrepped => l.runners \subseteq l.prepared
  BY <1>1 DEF IInv, Modes, AllPrepared, Extends
<1>3. disciplined /\ ~prepped => l.prepared \cap l.runners = {}
  BY <1>1 DEF IInv, TypeOK, TornDownAfterSession, Extends
<1>4. disciplined => pending \cap (l.runners \cup l.removed) \subseteq l.prepared
  BY <1>1 DEF IInv, Modes, Extends
<1>. QED  BY <1>2, <1>3, <1>4

LEMMA InitInv == Init => IInv
<1>. SUFFICES ASSUME Init PROVE IInv
  OBVIOUS
<1>1. TypeOK
  BY PluginsAssumption DEF Init, TypeOK
<1>2. NoDanglingRunner /\ RunnersFollowConfig /\ AllPrepared
  BY DEF Init, NoDanglingRunner, RunnersFollowConfig, AllPrepared
<1>3. TornDownAfterSession /\ AskedArePrepared
  BY DEF Init, TornDownAfterSession, AskedArePrepared
<1>4. Modes
  BY DEF Init, Modes, Ids
<1>. QED  BY <1>1, <1>2, <1>3, <1>4 DEF IInv

-----------------------------------------------------------------------------
(* Handlers that load *)

LEMMA ReloadedInv ==
    ASSUME IInv, MayLoad, NEW l \in Loaders, Sound(l), Follows(l), Extends(Loader, l),
           Reloaded(l)
    PROVE  IInv'
<1>1. /\ Store(l) /\ prepared' = l.prepared \cup {}
      /\ currentSingleRunner' = None /\ asked' = {}
      /\ UNCHANGED <<sessionVars, singleModeRunnerId, query, pending, disciplined>>
  BY DEF Reloaded
<1>2. /\ runners' = l.runners /\ removed' = l.removed
  BY <1>1 DEF Store
<1>3. TypeOK' /\ RunnersFollowConfig' /\ Ids(runners') \cap Broken = {}
  BY <1>1, StoreFacts DEF IInv, TypeOK, sessionVars
<1>4. NoDanglingRunner' /\ AskedArePrepared'
  BY <1>1 DEF NoDanglingRunner, AskedArePrepared
<1>5. AllPrepared' /\ TornDownAfterSession'
  BY <1>1, <1>2, Carried DEF AllPrepared, TornDownAfterSession, sessionVars
<1>6. Modes'
  BY <1>1, <1>2, <1>3, Carried DEF IInv, Modes, MayLoad, sessionVars
<1>. QED  BY <1>3, <1>4, <1>5, <1>6 DEF IInv

LEMMA LoadInv == ASSUME IInv, HasRoom, Load PROVE IInv'
<1>0. Loader \in Loaders /\ Sound(Loader) /\ Follows(Loader) /\ Room(Loader, Plugins)
  BY LoaderFacts, HasRoomFacts
<1>1. \A l : Selected(l) \cup ({None} \cap Plugins) \subseteq Plugins
  BY DEF Selected
<1>2. ASSUME NEW ps \in SUBSET Plugins, MayLoad,
             NEW k, k \in {[Loader EXCEPT !.enabled = ps], [Loader EXCEPT !.whiteList = ps]},
             Reloaded(LoadRunners(k, None))
      PROVE  IInv'
  <2>1. k \in Loaders /\ Sound(k)
    BY <1>0, <1>2 DEF Loaders, Sound
  <2>2. Room(k, Selected(k) \cup ({None} \cap Plugins))
    BY <1>0, <1>1, <1>2 DEF Room, Free, Loader
  <2>. DEFINE l == LoadRunners(k, None)
  <2>3. /\ l \in Loaders /\ Sound(l) /\ Extends(k, l)
        /\ Ids(l.runners) = Selected(l) \ Broken
    BY <2>1, <2>2, LoadRunnersFacts
  <2>. HIDE DEF l
  <2>4. Extends(Loader, l) /\ Follows(l)
    BY <1>2, <2>3 DEF Extends, Follows, Loader
  <2>. QED  BY <1>2, <2>3, <2>4, ReloadedInv DEF l
<1>3. ASSUME NEW ps \in EnabledSets, ReloadConfiguration(ps) PROVE IInv'
  BY <1>2, <1>3, PluginsAssumption DEF ReloadConfiguration
<1>4. ASSUME NEW ps \in WhiteLists, SetAllowedRunners(ps) PROVE IInv'
  <2>1. CASE runners # {}
    BY <1>2, <1>4, <2>1, PluginsAssumption DEF SetAllowedRunners
  <2>2. CASE runners = {}
    <3>1. /\ whiteList' = ps /\ ps \subseteq Plugins /\ asked' = {}
          /\ UNCHANGED <<enabled, runners, removed, disabledRunnerIds, manual>>
          /\ UNCHANGED <<sessionVars, modeVars, query, pending>>
          /\ UNCHANGED <<prepared, suspended, disciplined>>
      BY <1>4, <2>2, PluginsAssumption DEF SetAllowedRunners
    <3>. QED
      BY <3>1, <2>2
      DEF IInv, TypeOK, NoDanglingRunner, RunnersFollowConfig, AllPrepared,
          TornDownAfterSession, AskedArePrepared, Modes, sessionVars, modeVars
  <2>. QED  BY <2>1, <2>2
<1>5. CASE GetRunners
  <2>1. Room(Loader, Selected(Loader))
    BY <1>0, <1>1 DEF Room
  <2>. QED  BY <1>0, <1>5, <2>1, EnsureLoadedFacts, ReloadedInv, NoneIsNothing DEF GetRunners
<1>6. ASSUME NEW p \in Plugins, LoadRunner(p) PROVE IInv'
  <2>. DEFINE new == NewRunners(Loader, {p})
              l == [WithNew(Loader, new) EXCEPT !.manual = TRUE]
  <2>1. Room(Loader, {p})
    BY <1>0 DEF Room
  <2>2. /\ new \subseteq Runner \ (runners \cup removed)
        /\ \A r, s \in new : r.id = s.id => r = s
        /\ Ids(new) = ({p} \ Broken) \ Ids(runners)
    <3>1. Loader.runners = runners /\ Loader.removed = removed
      BY DEF Loader
    <3>2. /\ new \subseteq Runner \ (Loader.runners \cup Loader.removed)
          /\ \A r, s \in new : r.id = s.id => r = s
          /\ Ids(new) = ({p} \ Broken) \ Ids(Loader.runners)
      BY <2>1, NewRunnersFacts
    <3>. HIDE DEF new
    <3>. QED  BY <3>1, <3>2
  <2>3. /\ Store(l) /\ prepared' = WithNew(Loader, new).prepared /\ MayLoad
        /\ asked' = {}
        /\ UNCHANGED <<sessionVars, modeVars, query, pending, disciplined>>
    BY <1>6 DEF LoadRunner
  <2>. HIDE DEF new
  <2>4. /\ WithNew(Loader, new) \in Loaders
        /\ LET k == WithNew(Loader, new)
           IN  /\ k.runners = runners \cup new /\ k.removed = removed
               /\ k.prepared = (IF prepped THEN prepared \cup new ELSE prepared)
               /\ k.suspended = suspended \cup new
    <3>1. new \in SUBSET Runner
      BY <2>2
    <3>. QED  BY <1>0, <3>1, WithNewFields DEF Loader
  <2>5. /\ l \in Loaders /\ l.manual = TRUE
        /\ l.runners = runners \cup new /\ l.removed = removed
        /\ l.prepared = (IF prepped THEN prepared \cup new ELSE prepared)
        /\ l.suspended = suspended \cup new
        /\ prepared' = l.prepared \cup {}
    BY <2>3, <2>4 DEF Loaders
  <2>. HIDE DEF l
  <2>6. Sound(l)
    <3>1. Ids(runners \cup new) = Ids(runners) \cup Ids(new)
      BY DEF Ids
    <3>2. \A r \in runners, s \in new : r.id # s.id
      BY <2>2 DEF Ids
    <3>3. \A r, s \in l.runners : r.id = s.id => r = s
      BY <2>2, <2>5, <3>2 DEF IInv, TypeOK
    <3>4. Ids(l.runners) \cap Broken = {}
      BY <2>2, <2>5, <3>1 DEF IInv, Modes
    <3>5. /\ l.runners \cap l.removed = {}
          /\ l.prepared \subseteq l.runners \cup l.removed
          /\ l.suspended \subseteq l.runners \cup l.removed
      BY <2>2, <2>5 DEF IInv, TypeOK
    <3>. QED  BY <3>3, <3>4, <3>5 DEF Sound
  <2>7. Extends(Loader, l) /\ Follows(l)
    BY <2>2, <2>5 DEF Extends, Follows, Loader
  <2>8. TypeOK' /\ RunnersFollowConfig' /\ Ids(runners') \cap Broken = {}
    BY <2>3, <2>5, <2>6, <2>7, StoreFacts DEF IInv, TypeOK, sessionVars, modeVars
  <2>9. /\ runners' = l.runners /\ removed' = l.removed
    BY <2>3 DEF Store
  <2>10. NoDanglingRunner' /\ AskedArePrepared'
    BY <2>3, <2>5, <2>9 DEF IInv, NoDanglingRunner, AskedArePrepared, modeVars
  <2>11. AllPrepared' /\ TornDownAfterSession'
    BY <2>3, <2>5, <2>7, <2>9, Carried DEF AllPrepared, TornDownAfterSession, sessionVars
  <2>12. Modes'
    BY <2>3, <2>5, <2>7, <2>8, <2>9, Carried DEF IInv, Modes, MayLoad, sessionVars, modeVars
  <2>. QED  BY <2>8, <2>10, <2>11, <2>12 DEF IInv
<1>. QED  BY <1>3, <1>4, <1>5, <1>6 DEF Load

-----------------------------------------------------------------------------
(* launchQuery *)

\* The loader after launchQuery has entered the mode, and its single runner.
LEMMA ModeFacts ==
    ASSUME IInv, HasRoom, NEW name, MayLaunch(name)
    PROVE  LET l == LoadSingleRunner(Loader, name)
               s == SingleRunner(l, name)
           IN  /\ l \in Loaders /\ Sound(l) /\ Follows(l) /\ Extends(Loader, l)
               /\ s \in l.runners \cup {None}
               /\ s # None => s.id = name
               /\ name = None => s = None /\ l = Loader
               /\ disciplined /\ prepped /\ name # None =>
                    s = currentSingleRunner /\ l = Loader
<1>. DEFINE l == LoadSingleRunner(Loader, name)
            s == SingleRunner(l, name)
<1>1. l \in Loaders /\ Sound(l) /\ Follows(l) /\ Extends(Loader, l)
  BY LoaderFacts, HasRoomFacts, NoneIsNothing, LoadSingleRunnerFacts
<1>2. currentSingleRunner \in runners \cup {None} /\ runners \subseteq Runner
  BY DEF IInv, TypeOK, NoDanglingRunner
<1>3. name = None => l = Loader
  BY DEF LoadSingleRunner
<1>4. currentSingleRunner # None /\ currentSingleRunner.id = name =>
        l = Loader /\ s = currentSingleRunner
  BY DEF LoadSingleRunner, SingleRunner
<1>5. ~(currentSingleRunner # None /\ currentSingleRunner.id = name) => s = RunnerOf(l, name)
  BY DEF SingleRunner
<1>. HIDE DEF l, s
<1>6. \/ RunnerOf(l, name) \in l.runners /\ RunnerOf(l, name).id = name
      \/ RunnerOf(l, name) = None
  BY DEF RunnerOf, Ids
<1>7. Loader.runners = runners
  BY DEF Loader
<1>8. s \in l.runners \cup {None} /\ (s # None => s.id = name)
  BY <1>2, <1>4, <1>5, <1>6, <1>7
<1>9. name = None => s = None
  <2>1. l.runners \subseteq Runner
    BY <1>1 DEF Loaders
  <2>. QED  BY <2>1, <1>8, RunnerId, NoneIsNothing
<1>10. disciplined /\ prepped /\ name # None => s = currentSingleRunner /\ l = Loader
  BY <1>4 DEF IInv, Modes, MayLaunch
<1>. QED  BY <1>1, <1>3, <1>8, <1>9, <1>10 DEF l, s

\* launchQuery that ends before it sets up a session.
LEMMA ReturnInv ==
    ASSUME IInv, HasRoom, NEW name \in Requested \cup {None},
           LET l == LoadSingleRunner(Loader, name)
           IN  EnterMode(l, name) /\ Store(l) /\ prepared' = l.prepared,
           pending' = {}, asked' = {}, query' \in Terms \cup {None}, UNCHANGED sessionVars
    PROVE  IInv'
<1>. DEFINE l == LoadSingleRunner(Loader, name)
            s == SingleRunner(l, name)
<1>1. /\ MayLaunch(name) /\ Store(l) /\ prepared' = l.prepared \cup {}
      /\ singleModeRunnerId' = name /\ currentSingleRunner' = s
      /\ UNCHANGED <<sessionVars, disciplined>>
  BY DEF EnterMode
<1>2. /\ l \in Loaders /\ Sound(l) /\ Follows(l) /\ Extends(Loader, l)
      /\ s \in l.runners \cup {None} /\ (s # None => s.id = name)
      /\ disciplined /\ prepped /\ name # None => s = currentSingleRunner /\ l = Loader
  BY <1>1, ModeFacts
<1>. HIDE DEF l, s
<1>3. /\ runners' = l.runners /\ removed' = l.removed
  BY <1>1 DEF Store
<1>4. /\ TypeOK' /\ RunnersFollowConfig' /\ Ids(runners') \cap Broken = {}
  <2>1. l.runners \subseteq Runner
    BY <1>2 DEF Loaders
  <2>2. /\ enabled' \subseteq Plugins /\ whiteList' \subseteq Plugins
        /\ runners' \subseteq Runner /\ removed' \subseteq Runner
        /\ runners' \cap removed' = {}
        /\ \A r, q \in runners' : r.id = q.id => r = q
        /\ disabledRunnerIds' \subseteq Plugins /\ manual' \in BOOLEAN
        /\ prepared' \subseteq runners' \cup removed'
        /\ suspended' \subseteq runners' \cup removed'
        /\ RunnersFollowConfig'
        /\ Ids(runners') \cap Broken = {}
    <3>1. {} \in SUBSET l.runners /\ prepared' = l.prepared \cup {}
      BY <1>1
    <3>. QED  BY <1>1, <1>2, <3>1, StoreFacts
  <2>. QED  BY <1>1, <1>2, <2>1, <2>2 DEF IInv, TypeOK, sessionVars
<1>5. NoDanglingRunner' /\ AskedArePrepared'
  BY <1>1, <1>2, <1>3 DEF NoDanglingRunner, AskedArePrepared
<1>6. AllPrepared' /\ TornDownAfterSession'
  BY <1>1, <1>2, <1>3, Carried DEF AllPrepared, TornDownAfterSession, sessionVars
<1>7. Modes'
  <2>1. CASE disciplined /\ prepped /\ name # None
    <3>1. /\ s = currentSingleRunner /\ runners' = runners /\ prepared' = prepared
      BY <1>1, <1>2, <1>3, <2>1 DEF Loader
    <3>. QED  BY <1>1, <1>4, <2>1, <3>1 DEF IInv, Modes, MayLaunch, sessionVars
  <2>2. CASE ~(disciplined /\ prepped /\ name # None)
    BY <1>1, <1>4, <2>2 DEF IInv, Modes, MayLaunch, sessionVars
  <2>. QED  BY <2>1, <2>2
<1>. QED  BY <1>4, <1>5, <1>6, <1>7 DEF IInv

\* launchQuery that queries runners, after it has set up a session.
LEMMA LaunchNewInv ==
    ASSUME IInv, HasRoom, NEW name \in Requested \cup {None}, NEW term \in Terms,
           LaunchNew(term, name)
    PROVE  IInv'
<1>. DEFINE tried == LoadSingleRunner(Loader, name)
            l == IF name = None THEN EnsureLoaded(tried) ELSE tried
            s == SingleRunner(l, name)
            runnable == IF name = None THEN l.runners ELSE {s} \ {None}
            more == IF prepped THEN {} ELSE ToPrepare(l.runners, s, name)
<1>1. /\ MayLaunch(name) /\ Store(l) /\ Setup(l, s, name)
      /\ singleModeRunnerId' = name /\ currentSingleRunner' = s /\ UNCHANGED disciplined
      /\ name # None => s # None
      /\ query' = term /\ pending' = runnable \cap l.suspended
      /\ asked' \subseteq runnable
  BY DEF LaunchNew, EnterMode
<1>2. /\ l \in Loaders /\ Sound(l) /\ Follows(l) /\ Extends(Loader, l)
      /\ s \in l.runners \cup {None} /\ (s # None => s.id = name)
      /\ name = None => s = None
      /\ disciplined /\ prepped /\ name # None => s = currentSingleRunner /\ l = Loader
  <2>1. CASE name # None
    BY <1>1, <2>1, ModeFacts
  <2>2. CASE name = None
    <3>1. tried = Loader
      BY <1>1, <2>2, ModeFacts
    <3>2. Room(Loader, Selected(Loader))
      BY HasRoomFacts DEF Room, Selected
    <3>3. l \in Loaders /\ Sound(l) /\ Follows(l) /\ Extends(Loader, l)
      BY <2>2, <3>1, <3>2, LoaderFacts, NoneIsNothing, EnsureLoadedFacts
    <3>4. s = None
      <4>1. l.runners \subseteq Runner /\ runners \subseteq Runner
        BY <3>3 DEF Loaders, IInv, TypeOK
      <4>2. currentSingleRunner \in runners \cup {None}
        BY DEF IInv, NoDanglingRunner
      <4>. HIDE DEF l
      <4>. QED  BY <2>2, <4>1, <4>2, RunnerId, NoneIsNothing DEF SingleRunner, RunnerOf, Ids
    <3>. QED  BY <2>2, <3>3, <3>4
  <2>. QED  BY <2>1, <2>2
<1>. HIDE DEF l, s
<1>3. /\ runners' = l.runners /\ removed' = l.removed /\ disabledRunnerIds' = l.disabled
  BY <1>1 DEF Store
<1>4. ~prepped => ToPrepare(l.runners, s, name) = runnable
  <2>1. l.runners \subseteq Runner /\ disabledRunnerIds \subseteq Plugins
    BY <1>2 DEF Loaders, IInv, TypeOK
  <2>2. \A r \in l.runners : NameOf[r.id] \notin disabledRunnerIds
    BY <2>1, RunnerId, NamesAssumption
  <2>. QED  BY <2>2 DEF ToPrepare
<1>5. more \in SUBSET l.runners /\ runnable \subseteq l.runners
  BY <1>2, <1>4
<1>6. /\ prepared' = l.prepared \cup more /\ prepped'
      /\ prepped => UNCHANGED <<allRunnersPrepped, singleRunnerPrepped>>
      /\ ~prepped => /\ allRunnersPrepped' = (name = None)
                     /\ singleRunnerPrepped' = (name # None)
  BY <1>1 DEF Setup, IInv, Modes, TypeOK
<1>7. more = IF prepped THEN {} ELSE runnable
  BY <1>4
<1>. HIDE DEF more
<1>8. TypeOK' /\ RunnersFollowConfig' /\ Ids(runners') \cap Broken = {}
  <2>1. l.runners \subseteq Runner
    BY <1>2 DEF Loaders
  <2>2. /\ enabled' \subseteq Plugins /\ whiteList' \subseteq Plugins
        /\ runners' \subseteq Runner /\ removed' \subseteq Runner
        /\ runners' \cap removed' = {}
        /\ \A r, q \in runners' : r.id = q.id => r = q
        /\ disabledRunnerIds' \subseteq Plugins /\ manual' \in BOOLEAN
        /\ prepared' \subseteq runners' \cup removed'
        /\ suspended' \subseteq runners' \cup removed'
        /\ RunnersFollowConfig'
        /\ Ids(runners') \cap Broken = {}
    BY <1>1, <1>2, <1>5, <1>6, StoreFacts
  <2>3. prepped' \in BOOLEAN /\ allRunnersPrepped' \in BOOLEAN /\ singleRunnerPrepped' \in BOOLEAN
    <3>1. prepped' \in BOOLEAN
      BY <1>1 DEF Setup
    <3>2. allRunnersPrepped' \in BOOLEAN /\ singleRunnerPrepped' \in BOOLEAN
      BY <1>6 DEF IInv, TypeOK
    <3>. QED  BY <3>1, <3>2
  <2>. QED  BY <1>1, <1>2, <1>5, <2>1, <2>2, <2>3 DEF IInv, TypeOK
<1>9. NoDanglingRunner'
  BY <1>1, <1>2, <1>3 DEF NoDanglingRunner
<1>10. allRunnersPrepped' => l.runners \subseteq prepared'
  BY <1>2, <1>6, <1>7, Carried
<1>11. disciplined => runnable \subseteq prepared'
  <2>1. CASE ~prepped
    BY <1>6, <1>7, <2>1
  <2>2. CASE prepped /\ name = None
    BY <1>1, <1>2, <1>6, <2>2, Carried DEF IInv, Modes, MayLaunch
  <2>3. CASE prepped /\ name # None
    BY <1>1, <1>2, <1>6, <2>3 DEF IInv, Modes, MayLaunch, Loader
  <2>. QED  BY <2>1, <2>2, <2>3
<1>12. AllPrepared' /\ TornDownAfterSession' /\ AskedArePrepared'
  BY <1>1, <1>3, <1>6, <1>10, <1>11 DEF AllPrepared, TornDownAfterSession, AskedArePrepared
<1>13. Modes'
  <2>1. disciplined /\ name = None => allRunnersPrepped'
    <3>1. CASE prepped
      BY <1>1, <1>6, <3>1 DEF IInv, Modes, MayLaunch
    <3>2. CASE ~prepped
      BY <1>6, <3>2
    <3>. QED  BY <3>1, <3>2
  <2>2. disciplined /\ name # None =>
          /\ singleRunnerPrepped' /\ s # None /\ s.id = name /\ s \in prepared'
          /\ prepared' \cap l.runners \subseteq {s}
    <3>1. CASE prepped
      BY <1>1, <1>2, <1>6, <1>7, <3>1 DEF IInv, Modes, MayLaunch, Loader
    <3>2. CASE ~prepped
      BY <1>1, <1>2, <1>6, <1>7, <3>2, Carried
    <3>. QED  BY <3>1, <3>2
  <2>. QED  BY <1>1, <1>3, <1>6, <1>8, <1>11, <2>1, <2>2 DEF Modes
<1>. QED  BY <1>8, <1>9, <1>12, <1>13 DEF IInv

LEMMA LaunchInv == ASSUME IInv, HasRoom, Launch PROVE IInv'
<1>1. query \in Terms \cup {None}
  BY DEF IInv, TypeOK
<1>2. ASSUME NEW name \in Requested \cup {None},
             LaunchUnknownRunner(name) \/ LaunchBlank(name)
      PROVE  IInv'
  BY <1>2, ReturnInv DEF LaunchUnknownRunner, LaunchBlank, NoQuery
<1>3. ASSUME NEW name \in Requested \cup {None}, NEW term \in Terms, LaunchSame(term, name)
      PROVE  IInv'
  BY <1>1, <1>3, ReturnInv DEF LaunchSame
<1>. QED  BY <1>2, <1>3, LaunchNewInv DEF Launch

-----------------------------------------------------------------------------
(* The other handlers *)

LEMMA DeleteRunnerInv == ASSUME IInv, NEW r \in removed, DeleteRunner(r) PROVE IInv'
<1>1. /\ removed' = removed \ {r} /\ prepared' = prepared \ {r} /\ suspended' = suspended \ {r}
      /\ asked' = {}
      /\ UNCHANGED <<enabled, whiteList, runners, disabledRunnerIds, manual>>
      /\ UNCHANGED <<sessionVars, modeVars, query, pending, disciplined>>
  BY DEF DeleteRunner
<1>2. r \notin runners
  BY DEF IInv, TypeOK
<1>3. TypeOK'
  BY <1>1, <1>2 DEF IInv, TypeOK, sessionVars, modeVars
<1>4. Selected(Loader)' = Selected(Loader)
  BY <1>1 DEF Selected, Loader
<1>5. NoDanglingRunner' /\ RunnersFollowConfig' /\ AskedArePrepared'
  BY <1>1, <1>4 DEF IInv, NoDanglingRunner, RunnersFollowConfig, AskedArePrepared, modeVars
<1>6. AllPrepared' /\ TornDownAfterSession'
  BY <1>1, <1>2 DEF IInv, AllPrepared, TornDownAfterSession, sessionVars
<1>7. Modes'
  BY <1>1, <1>2 DEF IInv, Modes, NoDanglingRunner, sessionVars, modeVars
<1>. QED  BY <1>3, <1>5, <1>6, <1>7 DEF IInv

LEMMA SetupInv == ASSUME IInv, SetupMatchSession PROVE IInv'
<1>. DEFINE more == ToPrepare(runners, currentSingleRunner, singleModeRunnerId)
<1>1. /\ disciplined => singleModeRunnerId = None
      /\ ~prepped /\ prepped' = TRUE /\ asked' = {}
      /\ prepared' = prepared \cup more
      /\ singleRunnerPrepped' = (singleRunnerPrepped \/ (singleModeRunnerId # None /\ currentSingleRunner # None))
      /\ allRunnersPrepped' = (allRunnersPrepped \/ singleModeRunnerId = None)
      /\ UNCHANGED <<loadVars, modeVars, query, pending, suspended, disciplined>>
  BY DEF SetupMatchSession, Setup, Loader
<1>2. more \subseteq runners
  BY DEF ToPrepare, IInv, NoDanglingRunner
<1>3. singleModeRunnerId = None => more = runners
  BY RunnerId, NamesAssumption DEF ToPrepare, IInv, TypeOK
<1>. HIDE DEF more
<1>4. TypeOK'
  BY <1>1, <1>2 DEF IInv, TypeOK, loadVars, modeVars
<1>5. Selected(Loader)' = Selected(Loader)
  BY <1>1 DEF Selected, Loader, loadVars
<1>6. NoDanglingRunner' /\ RunnersFollowConfig' /\ AskedArePrepared'
  BY <1>1, <1>5 DEF IInv, NoDanglingRunner, RunnersFollowConfig, AskedArePrepared, loadVars, modeVars
<1>7. AllPrepared' /\ TornDownAfterSession'
  BY <1>1, <1>3 DEF IInv, Modes, AllPrepared, TornDownAfterSession, loadVars
<1>8. Modes'
  BY <1>1 DEF IInv, Modes, loadVars, modeVars
<1>. QED  BY <1>4, <1>6, <1>7, <1>8 DEF IInv

LEMMA CompleteInv == ASSUME IInv, MatchSessionComplete PROVE IInv'
<1>1. /\ prepped /\ pending' = {} /\ asked' = {} /\ prepared' = prepared \ TornDown
      /\ prepped' = FALSE /\ allRunnersPrepped' = FALSE /\ singleRunnerPrepped' = FALSE
      /\ UNCHANGED <<loadVars, modeVars, query, suspended, disciplined>>
  BY DEF MatchSessionComplete
<1>2. TypeOK'
  BY <1>1 DEF IInv, TypeOK, loadVars, modeVars
<1>3. Selected(Loader)' = Selected(Loader)
  BY <1>1 DEF Selected, Loader, loadVars
<1>4. NoDanglingRunner' /\ RunnersFollowConfig' /\ AskedArePrepared' /\ AllPrepared'
  BY <1>1, <1>3
  DEF IInv, NoDanglingRunner, RunnersFollowConfig, AskedArePrepared, AllPrepared, loadVars, modeVars
<1>5. disciplined => prepared \cap runners \subseteq TornDown
  BY <1>1 DEF IInv, Modes, TornDown
<1>6. TornDownAfterSession'
  BY <1>1, <1>5 DEF TornDownAfterSession, loadVars
<1>7. Modes'
  BY <1>1 DEF IInv, Modes, loadVars, modeVars
<1>. QED  BY <1>2, <1>4, <1>6, <1>7 DEF IInv

LEMMA SuspensionInv ==
    ASSUME IInv, NEW r \in runners \cup removed, SuspendMatching(r) \/ MatchingResumed(r)
    PROVE  IInv'
<1>1. /\ suspended' \subseteq suspended \cup {r}
      /\ asked' \subseteq {r} \cap pending
      /\ UNCHANGED <<loadVars, sessionVars, modeVars, query, pending, prepared, disciplined>>
  BY DEF SuspendMatching, MatchingResumed
<1>2. TypeOK'
  BY <1>1 DEF IInv, TypeOK, loadVars, sessionVars, modeVars
<1>3. Selected(Loader)' = Selected(Loader)
  BY <1>1 DEF Selected, Loader, loadVars
<1>4. NoDanglingRunner' /\ RunnersFollowConfig' /\ AllPrepared' /\ TornDownAfterSession'
  BY <1>1, <1>3
  DEF IInv, NoDanglingRunner, RunnersFollowConfig, AllPrepared, TornDownAfterSession, loadVars,
      sessionVars, modeVars
<1>5. AskedArePrepared'
  BY <1>1 DEF IInv, Modes, AskedArePrepared
<1>6. Modes'
  BY <1>1 DEF IInv, Modes, loadVars, sessionVars, modeVars
<1>. QED  BY <1>2, <1>4, <1>5, <1>6 DEF IInv

LEMMA NextInv == IInv /\ [Next]_vars => IInv'
<1>. SUFFICES ASSUME IInv, [Next]_vars PROVE IInv'
  OBVIOUS
<1>1. CASE HasRoom /\ Load
  BY <1>1, LoadInv
<1>2. CASE HasRoom /\ Launch
  BY <1>2, LaunchInv
<1>3. ASSUME NEW r \in removed, DeleteRunner(r) PROVE IInv'
  BY <1>3, DeleteRunnerInv
<1>4. CASE SetupMatchSession \/ MatchSessionComplete
  BY <1>4, SetupInv, CompleteInv
<1>5. ASSUME NEW r \in runners \cup removed, SuspendMatching(r) \/ MatchingResumed(r)
      PROVE  IInv'
  BY <1>5, SuspensionInv
<1>6. CASE UNCHANGED vars
  <2>1. Selected(Loader)' = Selected(Loader)
    BY <1>6 DEF vars, Selected, Loader, loadVars
  <2>. QED
    BY <1>6, <2>1
    DEF IInv, TypeOK, NoDanglingRunner, RunnersFollowConfig, AllPrepared, TornDownAfterSession,
        AskedArePrepared, Modes, vars, loadVars, sessionVars, modeVars, queryVars
<1>. QED  BY <1>1, <1>2, <1>3, <1>4, <1>5, <1>6 DEF Next

LEMMA InvTheorem == Spec => []IInv
BY InitInv, NextInv, PTL DEF Spec

-----------------------------------------------------------------------------

\* Loaded and removed runners stay apart, one runner is loaded of each plugin, and only
\* living runners are prepared or suspended.
THEOREM TypeTheorem == Spec => []TypeOK
BY InvTheorem, PTL DEF IInv

\* Whatever is reloaded when, currentSingleRunner is loaded or null.
THEOREM NoDanglingRunnerTheorem == Spec => []NoDanglingRunner
BY InvTheorem, PTL DEF IInv

\* The loaded runners are those that the configuration and the white list select, and
\* those that a query asked for by name.
THEOREM RunnersFollowConfigTheorem == Spec => []RunnersFollowConfig
BY InvTheorem, PTL DEF IInv

\* In a session of all runners every loaded runner was sent prepare.
THEOREM AllPreparedTheorem == Spec => []AllPrepared
BY InvTheorem, PTL DEF IInv

\* For a client that keeps the mode of a session, no loaded runner stays prepared
\* after it.
THEOREM TornDownTheorem == Spec => []TornDownAfterSession
BY InvTheorem, PTL DEF IInv

\* For such a client a query reaches only runners that are prepared.
THEOREM AskedArePreparedTheorem == Spec => []AskedArePrepared
BY InvTheorem, PTL DEF IInv

=============================================================================
