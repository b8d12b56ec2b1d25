\* Two calls at once, of each way a call can differ, and no output allowed.
SPECIFICATION CallSpec
CONSTANTS
    Calls = {c1, c2}
    Asked <- MCAsked
    OutputLimit = 1
INVARIANT NoProcessIsLeft
PROPERTY CallsEnd
