--------------------------- MODULE MCReviewedSync ---------------------------
(* Instances of ReviewedSync for TLC. *)
EXTENDS ReviewedSync, TLC

CONSTANTS d1, d2, d3, e1, e2, v1, v2

MCTwo == {d1, d2}
MCActors == (Devices \cup {Origin}) \X (0 .. MaxRestarts)
MCEntries == {e1, e2}
MCOneEntry == {e1}
MCFields == {"password", "custom"}
MCOneField == {"password"}
MCAccountFields == {"password", "username"}
MCOptional == {"custom"}
MCValues == {v1, v2}
MCNone == {}
MCSymmetry == Permutations(Devices) \cup Permutations(Values)
=============================================================================
