---------------------------- MODULE MatchDisplay ----------------------------
(***************************************************************************)
(* What a RunnerManager promises to its client: after launchQuery has set  *)
(* a query, the matches that are collected are matches for that query, none *)
(* of them goes until the query does, and the lists that matchesChanged    *)
(* hands out are the collected matches.  There are no threads, contexts or  *)
(* timers here; QueryLifecycle implements this specification.              *)
(***************************************************************************)
CONSTANTS
    Terms,          \* search terms, the empty one among them
    NoTerm,         \* no query is set
    Match           \* matches: records with a field term

VARIABLES
    query,          \* the query that is set
    results,        \* the matches found for it
    shown           \* what the client last received

vars == <<query, results, shown>>

Init ==
    /\ query = NoTerm
    /\ results = {}
    /\ shown = {}

\* launchQuery or reset: the client keeps the old list for now, or gets an empty
\* one at once.
SetQuery(q) ==
    /\ query' = q
    /\ results' = {}
    /\ shown' \in {shown, {}}

\* A runner adds a match: only one for the query that is set.  (After a reset()
\* a runner may even be asked for the empty query; see NothingWithoutQuery.)
Found(m) ==
    /\ m.term = query
    /\ results' = results \cup {m}
    /\ UNCHANGED <<query, shown>>

\* matchesChanged(matches()).
Show ==
    /\ shown' = results
    /\ UNCHANGED <<query, results>>

\* matchesChanged({}), for a query that no runner was asked.
ShowNothing ==
    /\ shown' = {}
    /\ UNCHANGED <<query, results>>

Next ==
    \/ \E q \in Terms : SetQuery(q)
    \/ \E m \in Match : Found(m)
    \/ Show
    \/ ShowNothing

Spec == Init /\ [][Next]_vars
=============================================================================
