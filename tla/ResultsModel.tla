---------------------------- MODULE ResultsModel ----------------------------
(***************************************************************************)
(* The item models that show the matches of a RunnerManager: the query     *)
(* string, the tree of categories and matches and the row signals a view   *)
(* gets when the tree is updated, the order and the limit of what is shown, *)
(* and the history of the queries whose matches were run.                  *)
(*                                                                         *)
(* Everything happens in the main thread.  One call of onMatchesChanged is *)
(* split at the signals it emits, where the code of views runs.            *)
(***************************************************************************)
EXTENDS ResultDistribution, SequencesExt

CONSTANTS
    Categories,
    Match,          \* QueryMatch objects, equal only to themselves
    Valid,          \* those whose runner is still loaded
    Enabled,        \* those that are enabled themselves
    ActionCount,    \* how many actions they have
    Numbers,        \* numbers of actions that a client asks to run
    OwnCategory,    \* the category each of them was given, or ""
    RunnerOf,       \* the id of the runner that found a match
    NameOf,         \* the translated name of a runner
    CategoryRank,   \* its categoryRelevance, in tenths
    Rank,           \* its place by relevance, and by text if that is equal
    Lists,          \* the lists of matches that the manager may show
    Strings,        \* what the user types, "" among it
    Terms,          \* the same without blanks at the ends
    Trimmed,        \* the term of each string
    Indented,       \* those that start with a blank
    SingleRunners,  \* runner ids; "" asks all runners
    Favorites,      \* lists of runner ids for favoriteIds
    Limits,         \* values of the property limit
    MaxEntries,     \* the history is cut at 50 entries
    Histories,      \* histories that were stored earlier, full ones among them
    NoUpdate

\* An update of the tree: the list it is made of, and how far the walk over the
\* categories has come.
Updates == [new : Lists, category : Nat \ {0}, step : {"change", "resize"}]

ASSUME ResultsAssumption ==
    /\ OwnCategory \in [Match -> Categories \cup {""}]
    /\ Enabled \subseteq Match /\ Valid \subseteq Match
    /\ ActionCount \in [Match -> Nat] /\ Numbers \subseteq Int
    /\ \A m \in Valid : NameOf[RunnerOf[m]] \in Categories
    /\ Valid # Match => "" \in Categories
    /\ CategoryRank \in [Match -> Nat]
    /\ Rank \in [Match -> Nat]
    /\ Lists \subseteq Seq(Match) /\ <<>> \in Lists
    /\ "" \in Strings /\ "" \in Terms /\ "" \in SingleRunners
    /\ Trimmed \in [Strings -> Terms] /\ Trimmed[""] = ""
    /\ Indented \subseteq Strings
    /\ Limits \subseteq Nat /\ MaxEntries \in Nat \ {0}
    /\ Favorites \subseteq Seq(STRING) /\ Histories \subseteq Seq(STRING)
    /\ \A h \in Histories : IsInjective(h) /\ Len(h) <= MaxEntries
    /\ NoUpdate \notin Updates

VARIABLES
    query, queryRunner,             \* the manager's query and single runner
    indented,                       \* untrimmedTerm starts with a blank
    ignored,                        \* shouldIgnoreCurrentMatchForHistory
    history,
    queryString, prevRunner, singleRunner,
    categories,                     \* m_categories
    matches,                        \* m_matches
    update,                         \* the update of the tree that is going on
    emitted,                        \* auxiliary: the list that the tree is to show
    sorted,                         \* the categories as SortProxyModel orders them
    words,                          \* m_words of the SortProxyModel
    favorites,                      \* m_favoriteIds
    view                            \* what a view knows that follows the signals

managerVars == <<query, queryRunner, indented, ignored>>
stringVars == <<queryString, prevRunner, singleRunner>>
treeVars == <<categories, matches, view>>
orderVars == <<sorted, words, favorites>>
vars == <<managerVars, history, stringVars, treeVars, orderVars, update, emitted>>

-----------------------------------------------------------------------------
(* Sequences *)

\* The elements of s that belong to S, in the order of s.
Within(s, S) ==
    LET part[i \in 0..Len(s)] ==
            IF i = 0 THEN <<>>
            ELSE IF s[i] \in S THEN Append(part[i - 1], s[i]) ELSE part[i - 1]
    IN  part[Len(s)]

Without(s, e) == Within(s, Range(s) \ {e})

Place(s, e) == SelectInSeq(s, LAMBDA x : x = e)

\* What s and t have in common is in the same order in both.
SameOrder(s, t) ==
    \A i, j \in DOMAIN s, k, l \in DOMAIN t :
        s[i] = t[k] /\ s[j] = t[l] => (i < j <=> k < l)

\* The elements of S, each before those that the relation puts it before.
Arranged(S, before) ==
    CHOOSE s \in SetToSeqs(S) : \A i, j \in DOMAIN s : i < j => <<s[i], s[j]>> \in before

-----------------------------------------------------------------------------
(* The tree *)

IsValid(m) == m \in Valid
IsEnabled(m) == m \in Enabled /\ IsValid(m)

\* matchCategory: a match without a category of its own goes to that of its runner.
Category(m) ==
    IF OwnCategory[m] = "" /\ IsValid(m) THEN NameOf[RunnerOf[m]] ELSE OwnCategory[m]

Rows(c) == IF c \in DOMAIN matches THEN matches[c] ELSE <<>>

\* The new rows of a category: its matches in the order of the list.
NewRows(list, c) == Within(list, {m \in Range(list) : Category(m) = c})
NewCategories(list) == {Category(m) : m \in Range(list)}

\* An index is a row with the number of its category, or 0 for a category itself.
Index(row, parent) == [row |-> row, internalId |-> parent + 1]
CategoryIndex(row) == [row |-> row, internalId |-> 0]
Parent(index) == CategoryIndex(index.internalId - 1)

\* Fault: the id is taken for the row of the category.
FetchMatchWrong(index) ==
    IF index.internalId + 1 \in DOMAIN categories
       /\ index.row + 1 \in DOMAIN Rows(categories[index.internalId + 1])
    THEN {Rows(categories[index.internalId + 1])[index.row + 1]} ELSE {}

\* fetchMatch: the match at an index, in a set that is empty when there is none.
FetchMatch(index) ==
    LET number == index.internalId
    IN  IF number \in DOMAIN categories /\ index.row + 1 \in DOMAIN Rows(categories[number])
        THEN {Rows(categories[number])[index.row + 1]} ELSE {}

\* What run() and runAction() check before they hand the match to the manager.
CanRun(index) == \E m \in FetchMatch(index) : IsValid(m) /\ IsEnabled(m)
CanRunAction(index, number) ==
    /\ CanRun(index)
    /\ \E m \in FetchMatch(index) : 0 <= number /\ number < ActionCount[m]

\* What a view reads after a reset.
Tree(cs, rows) == [i \in DOMAIN cs |-> [name |-> cs[i], rows |-> rows[cs[i]]]]

-----------------------------------------------------------------------------
(* The order of the categories *)

\* The places among the favourites of the runner of the first match that has a runner.
FavoritePlaces(rows, c) ==
    LET valid == {k \in DOMAIN rows[c] : IsValid(rows[c][k])}
    IN  {i \in DOMAIN favorites : valid # {} /\ favorites[i] = RunnerOf[rows[c][Min(valid)]]}

\* Fault: what is not a favourite gets the lowest index.
FavoriteIndexFirst(rows, c) ==
    IF FavoritePlaces(rows, c) = {} THEN 0 ELSE Min(FavoritePlaces(rows, c))

\* data() for FavoriteIndexRole.
FavoriteIndex(rows, c) ==
    IF FavoritePlaces(rows, c) = {} THEN Len(favorites) + 1 ELSE Min(FavoritePlaces(rows, c))

\* data() for CategoryRelevanceRole of a match, as an int: toInt() rounds, and a match
\* without a runner has no data.
IntRelevance(m) == IF IsValid(m) THEN (CategoryRank[m] + 5) \div 10 ELSE 0

\* The same of a category: the highest of its matches.
CategoryRelevance(rows, c) == Max({0} \cup {IntRelevance(m) : m \in Range(rows[c])})

LessThan(rows, c, d) ==
    LET f == FavoriteIndex(rows, c)
        g == FavoriteIndex(rows, d)
    IN  f > g \/ (f = g /\ CategoryRelevance(rows, c) < CategoryRelevance(rows, d))

\* A stable sort in descending order.
Sorting(rows, cs) ==
    Arranged(Range(cs),
        {p \in Range(cs) \X Range(cs) :
            \/ LessThan(rows, p[2], p[1])
            \/ ~LessThan(rows, p[1], p[2]) /\ Place(cs, p[1]) < Place(cs, p[2])})

\* Rows that are inserted do not move the others.  They get the places that a search
\* finds, which is the right one if the others are in order.
InOrder(rows, s) == \A i, j \in DOMAIN s : i < j => ~LessThan(rows, s[i], s[j])
Inserted(rows, s, new) ==
    {t \in SetToSeqs(Range(s) \cup new) :
        /\ SameOrder(s, t)
        /\ InOrder(rows, s) => InOrder(rows, t)}

\* The rows of a category in their order, the best first.
RowLessThan(c, i, j) == Rank[Rows(c)[i]] < Rank[Rows(c)[j]]
SortedRows(c) ==
    LET places == DOMAIN Rows(c)
    IN  Arranged(places,
            {p \in places \X places :
                RowLessThan(c, p[2], p[1]) \/ (~RowLessThan(c, p[1], p[2]) /\ p[1] < p[2])})

\* The tree that CategoryDistributionProxyModel lets through, flattened: every category
\* is followed by its rows.  A row is known by its index in the RunnerResultsModel.
Flattened(limit) ==
    LET counts == [i \in DOMAIN sorted |-> Len(Rows(sorted[i]))]
        shares == Distribution(limit, counts)
        part(i) == LET parent == Place(categories, sorted[i]) - 1
                       rows == SubSeq(SortedRows(sorted[i]), 1, shares[i])
                   IN  <<CategoryIndex(parent)>> \o [k \in DOMAIN rows |-> Index(rows[k] - 1, parent)]
    IN  FlattenSeq([i \in DOMAIN sorted |-> part(i)])

\* HideRootLevelProxyModel: what has no parent is left out.  The list a client shows.
HideRootLevel(list) == Within(list, {index \in Range(list) : index.internalId # 0})
Shown(limit) == HideRootLevel(Flattened(limit))

\* setFavoriteIds stores the list; nothing is sorted again.
SetFavoriteIds(ids) ==
    /\ update = NoUpdate
    /\ ids # favorites
    /\ favorites' = ids
    /\ UNCHANGED <<managerVars, history, stringVars, treeVars, sorted, words, update, emitted>>

-----------------------------------------------------------------------------
(* onMatchesChanged *)

\* The manager emits matchesChanged: for a query, or the empty list at any time.  There
\* are no matches without a query here: a runner that resumes could have some for a job
\* that waited during a reset(), but whatever empties the query in this module also drops
\* the jobs that wait, clear() by ending the session and launchQuery by itself.
MatchesChanged(list) ==
    /\ update = NoUpdate
    /\ query # "" \/ list = <<>>
    /\ update' = [new |-> list, category |-> 1, step |-> "change"]
    /\ emitted' = list
    /\ UNCHANGED <<managerVars, history, stringVars, treeVars, orderVars>>

Stale == {i \in DOMAIN categories : categories[i] \notin NewCategories(update.new)}

\* The walk over the categories that are left, with the rows there before and after.
At(step) ==
    /\ update # NoUpdate /\ Stale = {} /\ update.step = step
    /\ update.category \in DOMAIN categories
Current == categories[update.category]
OldCount == Len(Rows(Current))
NewCount == Len(NewRows(update.new, Current))
NextCategory ==
    [new |-> update.new, category |-> update.category + 1, step |-> "change"]

\* Fault: the last category is moved to the place of the one that is erased.
RemoveCategorySwapping ==
    /\ update # NoUpdate /\ Stale # {}
    /\ LET n == Min(Stale)
           moved == [categories EXCEPT ![n] = Last(categories)]
       IN  /\ categories' = SubSeq(moved, 1, Len(moved) - 1)
           /\ matches' = [c \in DOMAIN matches \ {categories[n]} |-> matches[c]]
           /\ view' = Tree(categories', matches')
           /\ sorted' = Without(sorted, categories[n])
    /\ UNCHANGED <<managerVars, history, stringVars, update, emitted, words, favorites>>

\* Fault: the rows of a category that is gone are kept for its return.
RemoveCategoryKeeping ==
    /\ update # NoUpdate /\ Stale # {}
    /\ categories' = RemoveAt(categories, Min(Stale))
    /\ view' = RemoveAt(view, Min(Stale))
    /\ sorted' = Without(sorted, categories[Min(Stale)])
    /\ UNCHANGED <<managerVars, history, stringVars, update, emitted, words, favorites>>
    /\ UNCHANGED matches

\* beginRemoveRows and endRemoveRows of the first category that is gone.
RemoveCategory ==
    /\ update # NoUpdate /\ Stale # {}
    /\ LET n == Min(Stale)
       IN  /\ categories' = RemoveAt(categories, n)
           /\ matches' = [c \in DOMAIN matches \ {categories[n]} |-> matches[c]]
           /\ view' = RemoveAt(view, n)
           /\ sorted' = Without(sorted, categories[n])
    /\ UNCHANGED <<managerVars, history, stringVars, update, emitted, words, favorites>>

\* The rows that a category has before and after.
Common == Min({OldCount, NewCount})
Changed == \E i \in 1..Common : Rows(Current)[i] # NewRows(update.new, Current)[i]
Overwritten(old, new) == [i \in DOMAIN old |-> IF i <= Common THEN new[i] ELSE old[i]]

\* The rows both lists have are overwritten, and dataChanged is emitted if one of them
\* differs; the view reads the rows of that range again.
ChangeRows ==
    /\ At("change")
    /\ LET rows == Overwritten(Rows(Current), NewRows(update.new, Current))
       IN  /\ matches' = [matches EXCEPT ![Current] = rows]
           /\ view' = IF Changed
                      THEN [view EXCEPT ![update.category].rows = Overwritten(@, rows)]
                      ELSE view
    /\ update' = [update EXCEPT !.step = "resize"]
    /\ UNCHANGED <<managerVars, history, stringVars, categories, orderVars, emitted>>

\* Fault: one row too few is announced.
GrowRowsShort ==
    LET new == NewRows(update.new, Current)
    IN  /\ At("resize") /\ NewCount >= OldCount
        /\ matches' = [matches EXCEPT ![Current] = new]
        /\ view' = [view EXCEPT ![update.category].rows =
                        @ \o SubSeq(new, OldCount + 1, NewCount - 1)]
        /\ update' = NextCategory
        /\ UNCHANGED <<managerVars, history, stringVars, categories, orderVars, emitted>>

\* Rows are inserted at the end of a category, or it keeps its size.
GrowRows ==
    LET new == NewRows(update.new, Current)
    IN  /\ At("resize") /\ NewCount >= OldCount
        /\ matches' = [matches EXCEPT ![Current] = new]
        /\ view' = [view EXCEPT ![update.category].rows =
                        @ \o SubSeq(new, OldCount + 1, NewCount)]
        /\ update' = NextCategory
        /\ UNCHANGED <<managerVars, history, stringVars, categories, orderVars, emitted>>

\* Fault: rows that are gone stay.
ShrinkRowsNot ==
    /\ At("resize") /\ NewCount < OldCount
    /\ update' = NextCategory
    /\ UNCHANGED <<managerVars, history, stringVars, treeVars, orderVars, emitted>>

\* Rows are removed at the end of a category.
ShrinkRows ==
    /\ At("resize") /\ NewCount < OldCount
    /\ matches' = [matches EXCEPT ![Current] = NewRows(update.new, Current)]
    /\ view' = [view EXCEPT ![update.category].rows = SubSeq(@, 1, NewCount)]
    /\ update' = NextCategory
    /\ UNCHANGED <<managerVars, history, stringVars, categories, orderVars, emitted>>

\* The end of the update: the genuinely new categories are added, in the order of a
\* hash and as one insertion.  At matchesChanged the order is made anew if the query
\* string has other words than before.
EndUpdate ==
    LET new == NewCategories(update.new) \ Range(categories)
    IN  /\ update # NoUpdate /\ Stale = {} /\ update.category > Len(categories)
        /\ \E order \in SetToSeqs(new) :
            /\ categories' = categories \o order
            /\ matches' = [c \in DOMAIN matches \cup new |->
                                IF c \in new THEN NewRows(update.new, c) ELSE matches[c]]
            /\ view' = view \o Tree(order, matches')
        /\ words' = Trimmed[queryString]
        /\ sorted' \in IF words' # words THEN {Sorting(matches', categories')}
                      ELSE Inserted(matches', sorted, new)
        /\ update' = NoUpdate
        /\ UNCHANGED <<managerVars, history, stringVars, favorites, emitted>>

-----------------------------------------------------------------------------
(* The query string *)

\* launchQuery of the manager: a new query, the one that is set, or none because the
\* single runner is no longer there.
LaunchQuery(s) ==
    /\ queryRunner' = singleRunner
    /\ indented' = (s \in Indented)
    /\ \/ /\ query' = Trimmed[s]
          /\ ignored' = (ignored /\ query = Trimmed[s] /\ queryRunner = singleRunner)
       \/ /\ singleRunner # ""
          /\ query' = "" /\ ignored' = FALSE

\* Fault: the rows stay.
ResetTreeNot ==
    /\ query' = "" /\ ignored' = FALSE
    /\ emitted' = <<>>
    /\ UNCHANGED <<queryRunner, indented, categories, matches, view, orderVars>>

\* RunnerResultsModel::clear: the manager forgets the query and the session ends, the
\* model is reset.
ResetTree ==
    /\ query' = "" /\ ignored' = FALSE
    /\ categories' = <<>> /\ matches' = <<>> /\ view' = <<>> /\ sorted' = <<>>
    /\ emitted' = <<>>
    /\ UNCHANGED <<queryRunner, indented, words, favorites>>

Clear ==
    /\ update = NoUpdate
    /\ queryString' = ""
    /\ ResetTree
    /\ UNCHANGED <<history, prevRunner, singleRunner, update>>

\* setQueryString.  A string that differs only in blanks at its ends is not noticed, and
\* a blank one neither clears nor launches.
SetQueryString(s) ==
    /\ update = NoUpdate
    /\ Trimmed[queryString] # Trimmed[s] \/ prevRunner # singleRunner
    /\ prevRunner' = singleRunner
    /\ queryString' = s
    /\ \/ s = "" /\ ResetTree
       \/ /\ s # "" /\ Trimmed[s] = ""
          /\ UNCHANGED <<managerVars, categories, matches, view, orderVars, emitted>>
       \/ /\ Trimmed[s] # "" /\ LaunchQuery(s)
          /\ UNCHANGED <<categories, matches, view, orderVars, emitted>>
    /\ UNCHANGED <<history, singleRunner, update>>

\* setSingleRunner: it takes effect with the next query string.
SetSingleRunner(r) ==
    /\ update = NoUpdate
    /\ r # singleRunner
    /\ singleRunner' = r
    /\ UNCHANGED <<managerVars, history, queryString, prevRunner, treeVars, orderVars>>
    /\ UNCHANGED <<update, emitted>>

-----------------------------------------------------------------------------
(* Running a match, and the history *)

Entries(s) == SubSeq(s, 1, Min({Len(s), MaxEntries}))

\* Fault: the entry is not removed from its old place.
WithEntryTwice(h, term) == IF h # <<>> /\ h[1] = term THEN h ELSE Entries(<<term>> \o h)

\* addToHistory: to the front, and only there.
WithEntry(h, term) ==
    IF h # <<>> /\ h[1] = term THEN h
    ELSE Entries(<<term>> \o Without(h, term))

\* ignoreCurrentMatchForHistory is never taken back while the query stays, so that it
\* holds for all matches that are run after it.
Ignored(ignore) == ignored \/ ignore

\* setHistoryEnabled may be called at any time, so that run() may find either value.
HistoryEnabled == BOOLEAN

AddToHistory(historyEnabled) ==
    history' = IF ~historyEnabled \/ query = "" \/ indented THEN history
               ELSE WithEntry(history, query)

\* run() of the match at an index; the runner may ask to ignore it for the history.
Run(index, ignore, historyEnabled) ==
    /\ CanRun(index)
    /\ ignored' = Ignored(ignore)
    /\ IF ignored' THEN UNCHANGED history ELSE AddToHistory(historyEnabled)
    /\ UNCHANGED <<query, queryRunner, indented, stringVars, treeVars, orderVars>>
    /\ UNCHANGED <<update, emitted>>

\* An action of a match is run; nothing but the runner knows which.
RunAction(index, number, ignore, historyEnabled) ==
    CanRunAction(index, number) /\ Run(index, ignore, historyEnabled)

\* An index beyond the end is ignored; below zero, which the code does not check, there is
\* no behaviour to model.
RemoveFromHistory(i) ==
    /\ update = NoUpdate
    /\ history' = RemoveAt(history, i)
    /\ UNCHANGED <<managerVars, stringVars, treeVars, orderVars, update, emitted>>

-----------------------------------------------------------------------------

Init ==
    /\ query = "" /\ queryRunner = "" /\ indented = FALSE /\ ignored = FALSE
    /\ history = <<>>
    /\ queryString = "" /\ prevRunner = "" /\ singleRunner = ""
    /\ categories = <<>> /\ matches = <<>> /\ view = <<>>
    /\ sorted = <<>> /\ words = "" /\ favorites = <<>>
    /\ update = NoUpdate /\ emitted = <<>>

Update ==
    \/ RemoveCategory \/ ChangeRows \/ GrowRows \/ ShrinkRows
    \/ EndUpdate

\* run(), runAction(), getMimeData() and getQueryMatch() of the ResultsModel map a row of
\* the flat list to its index in the tree.  Whatever the limit is, a row that can be run
\* is a row of the whole list.
Indexes == Range(Shown(0))

Next ==
    \/ \E list \in Lists : MatchesChanged(list)
    \/ Update
    \/ Clear
    \/ \E s \in Strings : SetQueryString(s)
    \/ \E r \in SingleRunners : SetSingleRunner(r)
    \/ \E ids \in Favorites : SetFavoriteIds(ids)
    \/ /\ update = NoUpdate
       /\ \E index \in Indexes, ignore \in BOOLEAN, enabled \in HistoryEnabled :
                \/ Run(index, ignore, enabled)
                \/ \E number \in Numbers : RunAction(index, number, ignore, enabled)
    \/ \E i \in DOMAIN history : RemoveFromHistory(i)

Spec == Init /\ [][Next]_vars

-----------------------------------------------------------------------------

\* Every variable has its type; a category is listed once and has rows ("shouldn't
\* m_categories and m_matches be in sync?", runnerresultsmodel.cpp:71).
TypeOK ==
    /\ query \in Terms /\ queryRunner \in SingleRunners
    /\ indented \in BOOLEAN /\ ignored \in BOOLEAN
    /\ history \in Seq(Terms)
    /\ queryString \in Strings /\ prevRunner \in SingleRunners /\ singleRunner \in SingleRunners
    /\ categories \in Seq(Categories) /\ IsInjective(categories)
    /\ DOMAIN matches = Range(categories)
    /\ \A c \in DOMAIN matches : matches[c] \in Seq(Match) \ {<<>>}
    /\ sorted \in Seq(Categories) /\ IsInjective(sorted) /\ Range(sorted) = Range(categories)
    /\ words \in Terms /\ favorites \in Favorites \cup {<<>>}
    /\ emitted \in Lists
    /\ update \in Updates \cup {NoUpdate}

\* A view that applies every signal, and reads the announced rows when it comes, shows
\* the tree after each of them: no signal has a wrong range, wrong order or is missing.
ViewMirrors == view = Tree(categories, matches)

\* When an update is over, the tree shows the list it was given: every match in its
\* category, in the order of the list, and nothing else, whatever was shown before.
TreeShowsList ==
    update = NoUpdate =>
        /\ Range(categories) = NewCategories(emitted)
        /\ \A c \in Range(categories) : matches[c] = NewRows(emitted, c)

\* The categories that stay keep their order ("we'll make sure to keep the order of
\* existing categories to avoid pointless model changes", runnerresultsmodel.cpp:38).
CategoriesKeepOrder == [][SameOrder(categories, categories')]_vars

\* Once the first matches for other words are shown, the favourites come first, in their
\* order, and equals by the best of their matches; whatever order the matches of the
\* earlier query were left in.
Stars(c) == FavoritePlaces(matches, c)
BestFirst ==
    \A i, j \in DOMAIN sorted :
        i < j =>
            /\ \A k \in Stars(sorted[j]) : \E l \in Stars(sorted[i]) : l <= k
            /\ Stars(sorted[i]) = Stars(sorted[j]) =>
                    \A m \in Range(matches[sorted[j]]) :
                        \E n \in Range(matches[sorted[i]]) : IntRelevance(n) >= IntRelevance(m)
SortedForNewWords == [][words' # words => BestFirst']_vars

\* Whatever the limit is and in whatever order the matches have come: each category is
\* shown, the first of several has no more than half of the limit, and the limit is
\* exceeded by less than one row for each category.
EveryCategoryShown ==
    update = NoUpdate =>
        \A limit \in Limits :
            LET counts == [i \in DOMAIN sorted |-> Len(Rows(sorted[i]))]
                rows == Distribution(limit, counts)
            IN  /\ \A i \in DOMAIN sorted : rows[i] \in 1..counts[i]
                /\ limit > 0 /\ sorted # <<>> =>
                    /\ Total(rows) < limit + Len(sorted)
                    /\ Len(sorted) > 1 => rows[1] <= CeilDiv(limit, 2)

\* Every row of the list that a client shows runs a match, the one that the tree has at
\* its place; no row is shown twice, and no match is hidden for a worse one of its category.
RunsTheShownMatch ==
    update = NoUpdate =>
        \A limit \in Limits :
            LET list == Shown(limit)
                match(k) == view[Parent(list[k]).row + 1].rows[list[k].row + 1]
                shown == {match(k) : k \in DOMAIN list}
            IN  /\ \A k \in DOMAIN list : FetchMatch(list[k]) = {match(k)}
                /\ IsInjective(list)
                /\ \A m \in shown, n \in Range(emitted) \ shown :
                        Category(m) = Category(n) => Rank[m] >= Rank[n]

\* No query string, no matches: none is shown when the input was emptied, and none that
\* the manager still had comes back later.
EmptyInputShowsNothing == queryString = "" => categories = <<>> /\ query = ""

\* An entry that is added comes first and the latest of the others follow.
EntryGoesFirst(h) ==
    \A term \in Terms \ {""} :
        LET others == Without(h, term)
        IN  WithEntry(h, term) = <<term>> \o SubSeq(others, 1, Min({Len(others), MaxEntries - 1}))
EntriesGoFirst == \A h \in Histories : EntryGoesFirst(h)

\* The history has no entry twice, none that is blank, and is bounded.  Whatever it is,
\* or was in an earlier run of the program, the entries keep the order of their last use.
HistoryTidy ==
    /\ IsInjective(history) /\ Len(history) <= MaxEntries
    /\ \A i \in DOMAIN history : history[i] # ""
    /\ EntryGoesFirst(history)
    /\ EntriesGoFirst

=============================================================================
