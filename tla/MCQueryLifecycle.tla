-------------------------- MODULE MCQueryLifecycle --------------------------
(***************************************************************************)
(* Instances of QueryLifecycle for TLC.                                    *)
(***************************************************************************)
EXTENDS QueryLifecycle, TLC

CONSTANTS r1, r2, q1, q2

\* r2 rejects q2 (it is too short for it); r1 takes every term.
MCRejects == {<<r2, q2>>}

\* Contexts are interchangeable: no definition tells two of them apart.
CtxSymmetry == Permutations(CtxIds)
=============================================================================
