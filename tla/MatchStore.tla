----------------------------- MODULE MatchStore -----------------------------
(***************************************************************************)
(* The match list of one RunnerContextPrivate: which matches it keeps when  *)
(* runners with unique, weak and strong results add matches in any order.   *)
(* addMatches holds the write lock for a whole batch; here the matches of a *)
(* batch are added one at a time, so that batches may also interleave.      *)
(***************************************************************************)
EXTENDS Naturals

CONSTANTS
    Runners,        \* runners that add matches
    Unique,         \* those with X-Plasma-Runner-Unique-Results
    Weak,           \* those with X-Plasma-Runner-Weak-Results
    Ids,            \* match ids
    NoMatch,        \* an id that uniqueIds does not contain
    MaxMatches      \* bound: QueryMatch objects made

\* QueryMatch compares by its shared data, so that every object is a match of its
\* own; nr tells them apart.
Match == [runner : Runners, id : Ids, nr : Nat]

ASSUME RunnersAssumption ==
    /\ Unique \subseteq Runners /\ Weak \subseteq Runners
    /\ NoMatch \notin Match
    /\ MaxMatches \in Nat

VARIABLES
    matches,        \* the list, as a set: the client sorts it by relevance
    uniqueIds,      \* hash from ids to matches
    loaded,         \* runners that have not been deleted
    made            \* QueryMatch objects made so far

vars == <<matches, uniqueIds, loaded, made>>

-----------------------------------------------------------------------------

NoIds == [id \in Ids |-> NoMatch]

Known(id) == uniqueIds[id] # NoMatch

\* A QPointer to a deleted runner is null.
IsWeak(m) == m.runner \in loaded /\ m.runner \in Weak

\* Fault: the weak match goes without the new one taking its place.
DropWeak(m) ==
    /\ m.runner \in Unique /\ Known(m.id)
    /\ matches' = IF IsWeak(uniqueIds[m.id]) THEN matches \ {uniqueIds[m.id]} ELSE matches
    /\ UNCHANGED uniqueIds

\* Fault: any known match is replaced, whatever its runner's results are.
ReplaceAny(m) ==
    /\ m.runner \in Unique /\ Known(m.id)
    /\ matches' = (matches \ {uniqueIds[m.id]}) \cup {m}
    /\ UNCHANGED uniqueIds

\* addMatch of a match whose id is known: it replaces the known one if that is
\* weak and is dropped otherwise.  uniqueIds keeps the match it had.
AddDuplicate(m) ==
    /\ m.runner \in Unique /\ Known(m.id)
    /\ matches' = IF IsWeak(uniqueIds[m.id])
                  THEN (matches \ {uniqueIds[m.id]}) \cup {m} ELSE matches
    /\ UNCHANGED uniqueIds

\* Fault: the match is appended and not entered in the hash.
AddUnrecorded(m) ==
    /\ m.runner \in Unique /\ ~Known(m.id)
    /\ matches' = matches \cup {m}
    /\ UNCHANGED uniqueIds

\* Fault: matches are entered whether their runner's results are unique or not.
AddNewOfAny(m) ==
    /\ ~Known(m.id)
    /\ matches' = matches \cup {m}
    /\ uniqueIds' = [uniqueIds EXCEPT ![m.id] = m]

\* addMatch of a match of a unique runner whose id is not known yet.
AddNew(m) ==
    /\ m.runner \in Unique /\ ~Known(m.id)
    /\ matches' = matches \cup {m}
    /\ uniqueIds' = [uniqueIds EXCEPT ![m.id] = m]

\* A match of a runner without unique results.
AddPlain(m) ==
    /\ m.runner \notin Unique
    /\ matches' = matches \cup {m}
    /\ UNCHANGED uniqueIds

\* Only a loaded runner is asked to match.
AddMatch(r, id) ==
    LET m == [runner |-> r, id |-> id, nr |-> made]
    IN  /\ r \in loaded
        /\ made < MaxMatches
        /\ made' = made + 1
        /\ AddDuplicate(m) \/ AddNew(m) \/ AddPlain(m)
        /\ UNCHANGED loaded

\* Fault: reset() of unshared data without uniqueIds.clear().
ResetKeepingIds ==
    /\ matches' = {}
    /\ UNCHANGED <<uniqueIds, loaded, made>>

\* RunnerContext::reset: shared data is left to the runners that still hold it and
\* the manager's list starts afresh; unshared data is cleared.
Reset ==
    /\ matches' = {}
    /\ uniqueIds' = NoIds
    /\ UNCHANGED <<loaded, made>>

\* deleteRunners: the matches stay, without a runner.
DeleteRunner(r) ==
    /\ r \in loaded
    /\ loaded' = loaded \ {r}
    /\ UNCHANGED <<matches, uniqueIds, made>>

Init ==
    /\ matches = {}
    /\ uniqueIds = NoIds
    /\ loaded = Runners
    /\ made = 0

Next ==
    \/ \E r \in Runners, id \in Ids : AddMatch(r, id)
    \/ Reset
    \/ \E r \in Runners : DeleteRunner(r)

Spec == Init /\ [][Next]_vars

-----------------------------------------------------------------------------

\* Matches have their types, the hash has only matches of unique runners, under
\* their ids, and the numbers of all matches are below made.
TypeOK ==
    /\ matches \subseteq Match
    /\ uniqueIds \in [Ids -> Match \cup {NoMatch}]
    /\ \A id \in Ids : Known(id) => uniqueIds[id].id = id /\ uniqueIds[id].runner \in Unique
    /\ loaded \subseteq Runners
    /\ made \in 0..MaxMatches
    /\ \A m \in matches : m.nr < made
    /\ \A id \in Ids : Known(id) => uniqueIds[id].nr < made

\* The matches of unique runners that share an id.
SameId(id) == {m \in matches : m.runner \in Unique /\ m.id = id}

\* An id that some runner has found stays in the list, through any sequence of
\* replacements: removeOne never takes the last match of an id away.
FoundIdsStay == \A id \in Ids : Known(id) => SameId(id) # {}

\* A list that has a match of an id only has it because the hash knows the id, so
\* that a later duplicate is recognised, also after a reset of the same data.
ListedIdsAreKnown == \A id \in Ids : SameId(id) # {} => Known(id)

\* If the match that was found first is strong it is the only one of its id: no
\* weak or later match is shown besides it ("duplicates from this runner are
\* removed", querymatch.h).
StrongFirstIsUnique ==
    \A id \in Ids :
        Known(id) /\ uniqueIds[id].runner \notin Weak => SameId(id) = {uniqueIds[id]}

\* What adding may never do: a match leaves the list before the next reset only if
\* its runner is unique and weak and a newer match with its id takes its place.
OnlyWeakIsReplaced ==
    [][\A m \in matches \ matches' :
          \/ matches' = {} /\ uniqueIds' = NoIds
          \/ /\ m.runner \in Unique \cap Weak
             /\ \E n \in matches' : n.id = m.id /\ n.nr >= made /\ n.runner \in Unique]_vars

-----------------------------------------------------------------------------

\* querymatch.h:160 "This allows KRunner to de-duplicate results from different
\* runners": two runners with unique, strong results show an id once.
NoDuplicates ==
    \A m, n \in matches :
        /\ m.runner \in Unique \ Weak /\ n.runner \in Unique \ Weak
        /\ m.id = n.id
        => m.runner = n.runner

=============================================================================
