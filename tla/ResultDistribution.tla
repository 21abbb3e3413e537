-------------------------- MODULE ResultDistribution --------------------------
(***************************************************************************)
(* How CategoryDistributionProxyModel shares out the rows of a limited     *)
(* list: the further down a category is, the fewer of its matches appear.  *)
(***************************************************************************)
EXTENDS Integers, Sequences, FiniteSetsExt

CeilDiv(a, b) == (a + b - 1) \div b

\* Fault: a category after the limit is used up gets no row.
ShareUnguarded(limit, n, i, before) ==
    Min({limit - before - CeilDiv(limit, n), CeilDiv(limit, i + 1)})

\* The rows that the i-th of n categories may occupy when those above it take before:
\* a half, a third and so on, less a reserve for the others, but one row at least.
Share(limit, n, i, before) ==
    Max({1, Min({limit - before - CeilDiv(limit, n), CeilDiv(limit, i + 1)})})

\* How many of its counts[i] rows filterAcceptsRow lets through for every category.
Distribution(limit, counts) ==
    LET n == Len(counts)
        taken[i \in 0..n] ==
            IF i = 0 THEN 0
            ELSE taken[i - 1] + Min({counts[i], Share(limit, n, i, taken[i - 1])})
    IN  IF limit <= 0 THEN counts
        ELSE IF n = 1 THEN <<Min({counts[1], limit})>>
        ELSE [i \in 1..n |-> taken[i] - taken[i - 1]]

Total(counts) ==
    LET sum[i \in 0..Len(counts)] == IF i = 0 THEN 0 ELSE sum[i - 1] + counts[i]
    IN  sum[Len(counts)]

=============================================================================
