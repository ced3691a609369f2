----------------------------- MODULE MCBrainEngine -----------------------------
(* Instances of BrainEngine for TLC. *)
EXTENDS BrainEngine, TLC

CONSTANTS e1, e2, w1, w2, open_site, run_command, home, finances

\* Two conversations, each with its own fork and one request at a time.
TwoSessions == w1 :> e1 @@ w2 :> e2

\* Two requests at a time on the shared engine of POST /brain/think.
OneEngine == w1 :> e1 @@ w2 :> e1

OneSession == w1 :> e1

\* planner.py: "secure my home" starts with the step that needs approval,
\* "review my finances" has only steps that need none.
HomeSteps     == <<run_command, open_site>>
FinancesSteps == <<open_site, open_site>>
PlanSteps     == [p \in Plans |-> IF p = home THEN HomeSteps ELSE FinancesSteps]

\* The two sessions are interchangeable.
SessionSymmetry == {w1 :> w1 @@ w2 :> w2 @@ e1 :> e1 @@ e2 :> e2,
                    w1 :> w2 @@ w2 :> w1 @@ e1 :> e2 @@ e2 :> e1}

\* The two threads on the shared engine are, too.
ThreadSymmetry == Permutations(Workers)
================================================================================
