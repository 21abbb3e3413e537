--------------------------- MODULE MCResultsModel ---------------------------
(***************************************************************************)
(* An instance of ResultsModel for TLC: three categories of up to three    *)
(* matches, lists that add, change, reorder and remove matches and         *)
(* categories, and input with and without blanks.                          *)
(***************************************************************************)
EXTENDS ResultsModel

CONSTANTS a1, a2, a3, f1, f2, w1

MCCategories == {"Applications", "Files", "Web", ""}
MCMatch == {a1, a2, a3, f1, f2, w1}
MCValid == Match \ {a1}
MCEnabled == Match \ {w1}
MCActionCount == [m \in Match |-> IF m = f2 THEN 1 ELSE 0]
MCNumbers == {-1, 0, 1}
MCOwnCategory ==
    [m \in Match |-> CASE m \in {a1, a3} -> "Applications" [] m = w1 -> "Web" [] OTHER -> ""]
MCNameOf ==
    [r \in {"launcher", "search", "bookmarks"} |->
        CASE r = "launcher" -> "Applications" [] r = "search" -> "Files" [] OTHER -> "Web"]
MCRunnerOf ==
    [m \in Match |-> CASE m \in {a1, a2} -> "launcher" [] m = w1 -> "bookmarks" [] OTHER -> "search"]
MCCategoryRank == [m \in Match |-> CASE m \in {a1, f2} -> 24 [] m = a3 -> 25 [] OTHER -> 10]
MCRank == [m \in Match |-> CASE m \in {a1, f2} -> 7 [] m = a3 -> 9 [] OTHER -> 5]
MCLists ==
    { <<>>, <<a2, f1>>, <<f2, a1, a3, w1>> }
MCHistories == {<<"c", "d", "e">>, <<"c", "a", "b">>}
MCFavorites == {<<>>, <<"search", "launcher">>}
MCStrings == {"", " ", "a", "b", " b"}
MCTrimmed == [s \in Strings |-> CASE s = " " -> "" [] s = " b" -> "b" [] OTHER -> s]
=============================================================================
