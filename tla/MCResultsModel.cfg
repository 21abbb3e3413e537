SPECIFICATION Spec
CONSTANTS
    a1 = a1
    a2 = a2
    a3 = a3
    f1 = f1
    f2 = f2
    w1 = w1
    Categories <- MCCategories
    Match <- MCMatch
    Valid <- MCValid
    Enabled <- MCEnabled
    ActionCount <- MCActionCount
    Numbers <- MCNumbers
    OwnCategory <- MCOwnCategory
    RunnerOf <- MCRunnerOf
    NameOf <- MCNameOf
    CategoryRank <- MCCategoryRank
    Rank <- MCRank
    Lists <- MCLists
    Strings <- MCStrings
    Terms = {"", "a", "b"}
    Trimmed <- MCTrimmed
    Indented = {" ", " b"}
    SingleRunners = {"", "r"}
    Favorites <- MCFavorites
    Limits = {0, 3}
    MaxEntries = 3
    Histories <- MCHistories
    NoUpdate = NoUpdate
INVARIANTS TypeOK ViewMirrors TreeShowsList EveryCategoryShown RunsTheShownMatch EmptyInputShowsNothing HistoryTidy
PROPERTIES CategoriesKeepOrder SortedForNewWords
