----------------------- MODULE ArtifactReleaseClaims -----------------------
(***************************************************************************)
(* What the repository's documents say of the release process and          *)
(* ArtifactRelease shows the code not to do.  README.md tells the          *)
(* counterexample.                                                         *)
(***************************************************************************)
EXTENDS ArtifactRelease

(* requirements.md: no stable pointer to an object that does not exist.    *)
(* The plugin's current, published release has its package in the bucket.  *)
StablePointerHasObject ==
    current # None /\ pub[current] = "published" => current \in objects
=============================================================================
