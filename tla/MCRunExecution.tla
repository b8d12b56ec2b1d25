--------------------------- MODULE MCRunExecution ---------------------------
(***************************************************************************)
(* Instances of RunExecution for TLC.  The per-business chain is cut to    *)
(* its two ends, corroboration and scoring: settlement never reads which   *)
(* of the stages between them a task is at.                                *)
(***************************************************************************)
EXTENDS RunExecution, TLC

CONSTANTS r1, r2, b1, b2, s1, s2, codex, claude

MCBusinessStage == {"CorroborateBusiness", "ScoreCandidate"}
MCSuccessors == [CorroborateBusiness |-> {Done, "ScoreCandidate"}, ScoreCandidate |-> {Done}]
\* A missing runtime blocks the middle of the chain (assessment).
MCStageFailures == [CorroborateBusiness |-> {"Transient", "Blocked", "Infrastructure"},
                    ScoreCandidate |-> {"Infrastructure"}]

\* Slots and businesses are interchangeable.
Symmetry == Permutations(Slot) \cup Permutations(Business)
=============================================================================
