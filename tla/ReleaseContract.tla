-------------------------- MODULE ReleaseContract --------------------------
(***************************************************************************)
(* What the review domain promises of a plugin's releases, without jobs,   *)
(* workers, storage or failures: when a candidate may be released, where   *)
(* the plugin's pointer goes, and what a withdrawal may still do.          *)
(* ArtifactRelease implements it.                                          *)
(***************************************************************************)
CONSTANTS Artifacts, None

VARIABLES
    review,   \* plugin_artifacts.review_status
    pub,      \* plugin_artifacts.publication_status
    current   \* market_plugins.current_artifact_id

vars == <<review, pub, current>>

Init ==
    /\ review = [a \in Artifacts |-> "pending_review"]
    /\ pub = [a \in Artifacts |-> "unpublished"]
    /\ current = None

(* A human decides once.                                                   *)
Decide(a) ==
    /\ review[a] = "pending_review"
    /\ \E verdict \in {"approved", "rejected", "changes_requested"} :
          review' = [review EXCEPT ![a] = verdict]
    /\ UNCHANGED <<pub, current>>

(* Publishing starts, and starts again, only under an approval.            *)
StartPublishing(a) ==
    /\ review[a] = "approved"
    /\ pub[a] \in {"unpublished", "publish_failed"}
    /\ pub' = [pub EXCEPT ![a] = "publishing"]
    /\ UNCHANGED <<review, current>>

FailToPublish(a) ==
    /\ pub[a] = "publishing"
    /\ pub' = [pub EXCEPT ![a] = "publish_failed"]
    /\ UNCHANGED <<review, current>>

(* Status and pointer move together; delivery is at least once, so a       *)
(* release may be committed again.                                         *)
Release(a) ==
    /\ pub[a] \in {"publishing", "published"}
    /\ pub' = [pub EXCEPT ![a] = "published"]
    /\ current' = a
    /\ UNCHANGED review

(* Only the current release is withdrawn; a withdrawal that failed starts  *)
(* again, whatever is current by then.                                     *)
StartWithdrawal(a) ==
    /\ \/ current = a /\ pub[a] = "published"
       \/ pub[a] = "revoke_failed"
    /\ pub' = [pub EXCEPT ![a] = "revoking"]
    /\ UNCHANGED <<review, current>>

FinishWithdrawal(a) ==
    /\ pub[a] = "revoking"
    /\ pub' = [pub EXCEPT ![a] = "revoked"]
    /\ current' = IF current = a THEN None ELSE current
    /\ UNCHANGED review

FailToWithdraw(a) ==
    /\ pub[a] = "revoking"
    /\ pub' = [pub EXCEPT ![a] = "revoke_failed"]
    /\ UNCHANGED <<review, current>>

Next == \E a \in Artifacts :
    \/ Decide(a)
    \/ StartPublishing(a) \/ FailToPublish(a) \/ Release(a)
    \/ StartWithdrawal(a) \/ FinishWithdrawal(a) \/ FailToWithdraw(a)

Spec == Init /\ [][Next]_vars
=============================================================================
