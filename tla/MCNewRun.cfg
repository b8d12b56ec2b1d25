\* Three requests: a preflight, a confirmation and its repetition, or a
\* reassessment between them.
SPECIFICATION Spec
CONSTANTS
    Locations <- MCLocations
    Areas <- MCAreas
    AreasOf <- MCAreasOf
    MaxPosts = 3
    MaxChanges = 1
INVARIANT RunsAreConfirmed
INVARIANT RunsAreSound
