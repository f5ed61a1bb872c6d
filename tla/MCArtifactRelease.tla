------------------------- MODULE MCArtifactRelease -------------------------
(* Small instances of ArtifactRelease for TLC.                             *)
EXTENDS ArtifactReleaseClaims, TLC

CONSTANTS a1, a2, v1, v2, w1, w2

OneVersion == a1 :> v1
TwoVersions == a1 :> v1 @@ a2 :> v2

SymmetricWorkers == Permutations(Workers)
=============================================================================
