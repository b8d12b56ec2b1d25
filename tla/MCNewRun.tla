------------------------------ MODULE MCNewRun ------------------------------
(* Instances of NewRun for TLC.                                            *)
EXTENDS NewRun

(* One location of two areas, one of which another location shares.        *)
MCLocations == {"town", "village"}
MCAreas == {"a1", "a2"}
MCAreasOf == [l \in MCLocations |-> IF l = "town" THEN {"a1", "a2"} ELSE {"a2"}]
=============================================================================
