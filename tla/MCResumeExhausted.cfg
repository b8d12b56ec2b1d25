SPECIFICATION Spec
CONSTANTS
    r1 = r1
    b1 = b1
    b2 = b2
    r2 = r2
    s1 = s1
    s2 = s2
    codex = codex
    claude = claude
    Run = {r1}
    Business = {b1}
    Runtime = {codex}
    Slot = {s1, s2}
    Target = 1
    MaxAttempts = 3
    MaxCrashes = 1
    MaxErrors = 1
    BusinessStage <- MCBusinessStage
    FirstStage = "CorroborateBusiness"
    Successors <- MCSuccessors
    StageFailures <- MCStageFailures
INVARIANTS
    ResumedWorkIsClaimable
