\* One run with two businesses, whose outcomes combine into the run's.
SPECIFICATION Spec
CONSTANTS
    r1 = r1
    b1 = b1
    b2 = b2
    r2 = r2
    s1 = s1
    s2 = s2
    codex = codex
    claude = claude
    Run = {r1}
    Business = {b1, b2}
    Runtime = {codex}
    Slot = {s1, s2}
    Target = 1
    MaxAttempts = 2
    MaxCrashes = 1
    MaxErrors = 0
    BusinessStage <- MCBusinessStage
    FirstStage = "CorroborateBusiness"
    Successors <- MCSuccessors
    StageFailures <- MCStageFailures
SYMMETRY Symmetry
INVARIANTS
    CleanOutcomeIsEarned
    BusinessFailureIsIsolated
    OneStageAtATime
