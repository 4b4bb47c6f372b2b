----------------------------- MODULE Deployment -----------------------------
(* What the deploy command promises the learner who follows it: a program is *)
(* replaced at most once, "successful" is said only of a program that was    *)
(* replaced, and a cancelled deployment leaves the program alone for good.   *)
(* DeployFlow is shown to implement it.                                      *)

VARIABLES deployState,  \* PgGlobal.deployState
          program,      \* "old" (or none at all) or "new"
          outcome       \* how the command ended

vars == <<deployState, program, outcome>>

Init ==
    /\ deployState = "ready"
    /\ program = "old"
    /\ outcome = "none"

Start ==
    /\ deployState = "ready" /\ outcome = "none"
    /\ deployState' = "loading"
    /\ UNCHANGED <<program, outcome>>

\* Pause or resume.
Toggle ==
    /\ deployState \in {"loading", "paused"}
    /\ deployState' \in {"loading", "paused"}
    /\ UNCHANGED <<program, outcome>>

\* A deployment may be cancelled only while the program is still the old one.
Cancel ==
    /\ deployState \in {"loading", "paused"} /\ program = "old"
    /\ deployState' = "cancelled"
    /\ UNCHANGED <<program, outcome>>

\* The chain replaces the program, possibly after the command gave up.
TakeEffect ==
    /\ program = "old"
    /\ deployState \in {"loading", "paused"} \/ outcome = "failed"
    /\ program' = "new"
    /\ UNCHANGED <<deployState, outcome>>

Succeed ==
    /\ deployState \in {"loading", "paused"} /\ program = "new"
    /\ deployState' = "ready" /\ outcome' = "success"
    /\ UNCHANGED program

Fail ==
    /\ deployState \in {"loading", "paused"}
    /\ deployState' = "ready" /\ outcome' = "failed"
    /\ UNCHANGED program

EndCancelled ==
    /\ deployState = "cancelled"
    /\ deployState' = "ready" /\ outcome' = "cancelled"
    /\ UNCHANGED program

Next == Start \/ Toggle \/ Cancel \/ TakeEffect \/ Succeed \/ Fail \/ EndCancelled

Spec == Init /\ [][Next]_vars
=============================================================================
