----------------------------- MODULE JobContract -----------------------------
(***************************************************************************)
(* What a runner owes the RunnerManager for every job it is asked: matches *)
(* while it works, then one answer, and nothing after that.  QueryLifecycle *)
(* relies on it; a DBusRunner that waits for several services keeps it.    *)
(***************************************************************************)
EXTENDS Naturals

CONSTANT
    Jobs            \* the jobs in the order they are started, 1..n

VARIABLES
    begun,          \* the jobs 1..begun have been started
    reported,       \* the job that the last step reported matches for, or 0
    answers         \* how often each job was reported as finished

jobVars == <<begun, reported, answers>>

Init ==
    /\ begun = 0
    /\ reported = 0
    /\ answers = [j \in Jobs |-> 0]

\* A job is started; a runner that has nowhere to look answers at once.
Start ==
    /\ begun + 1 \in Jobs
    /\ begun' = begun + 1
    /\ answers' \in {answers, [answers EXCEPT ![begun + 1] = 1]}
    /\ reported' = 0

\* Matches are reported for a job that is not answered, or it is answered, or both.
Work(j) ==
    /\ j <= begun /\ answers[j] = 0
    /\ reported' \in {0, j}
    /\ answers' \in {answers, [answers EXCEPT ![j] = 1]}
    /\ UNCHANGED begun

\* The runner does something else.
Idle == reported' = 0 /\ UNCHANGED <<begun, answers>>

Next == Start \/ Idle \/ \E j \in Jobs : Work(j)

Spec == Init /\ [][Next]_jobVars

=============================================================================
