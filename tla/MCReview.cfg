\* Two businesses, scored three times in all while the desk works on its copies:
\* two requests, and one reading besides those that follow them.
SPECIFICATION Spec
CONSTANTS
    Businesses = {b1, b2}
    Statuses = {"Rejected"}
    Filters = {"Unreviewed"}
    MaxScores = 3
    MaxRequests = 2
    MaxReadings = 1
SYMMETRY Exchangeable
INVARIANT QueueIsEarned
PROPERTY NotesTravel
PROPERTY SavedIsSeen
