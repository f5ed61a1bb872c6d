--------------------------- MODULE ReviewContract --------------------------
(***************************************************************************)
(* What the automated review promises, without workers, jobs or leases: a  *)
(* submission moves through the review states, the required stages finish  *)
(* in the order of their phases, and the policy approves only what every   *)
(* one of them has passed.  A manual retry begins a new attempt at the     *)
(* same artifact.                                                          *)
(***************************************************************************)
EXTENDS Naturals

CONSTANTS
    Stages,       \* the required stages of the policy
    Phase,        \* the phase of each
    MaxAttempt    \* bound: attempts at the review

VARIABLES
    status,       \* where the artifact stands
    attempt,      \* which attempt at its review
    finished,     \* the stages that have run to their end in this attempt
    passed,       \* those of them whose result is complete
    approvedBy    \* who has approved the artifact

vars == <<status, attempt, finished, passed, approvedBy>>

Undecided == {"quarantined", "prechecking", "scanning", "pending_review", "processing_failed"}
Decided   == {"approved", "rejected", "changes_requested"}
Retriable == {"scanning", "pending_review", "processing_failed"}

Upstream(s) == {u \in Stages : Phase[u] < Phase[s]}

Init ==
    /\ status = "quarantined"
    /\ attempt = 1
    /\ finished = {}
    /\ passed = {}
    /\ approvedBy = "none"

Become(from, to) == status \in from /\ status' = to /\ UNCHANGED <<attempt, finished, passed>>
Move(from, to)   == Become(from, to) /\ UNCHANGED approvedBy

Precheck == Move({"quarantined", "processing_failed"}, "prechecking")
Scan     == Move({"prechecking", "processing_failed"}, "scanning")
GiveUp   == Move({"prechecking", "scanning"}, "processing_failed")

(* Automation hands over to a person.                                      *)
AskPerson == Move({"scanning"}, "pending_review")

Reject         == Move(Undecided, "rejected")
RequestChanges == Move({"pending_review"}, "changes_requested")

(* A person may approve what is not settled; the policy only what has      *)
(* passed every stage.                                                     *)
ApproveByHand   == Become(Retriable, "approved") /\ approvedBy' = "person"
ApproveByPolicy == /\ passed = Stages
                   /\ Become({"scanning"}, "approved")
                   /\ approvedBy' = "policy"

Finish(s) ==
    /\ Upstream(s) \subseteq finished
    /\ finished' = finished \cup {s}
    /\ passed' \in {passed, passed \cup {s}}
    /\ UNCHANGED <<status, attempt, approvedBy>>

Retry ==
    /\ status \in Retriable
    /\ attempt < MaxAttempt
    /\ status' \in {"scanning", "processing_failed"}
    /\ attempt' = attempt + 1
    /\ finished' = {}
    /\ passed' = {}
    /\ UNCHANGED approvedBy

Next ==
    \/ Precheck \/ Scan \/ GiveUp \/ AskPerson
    \/ Reject \/ RequestChanges \/ ApproveByHand \/ ApproveByPolicy
    \/ \E s \in Stages : Finish(s)
    \/ Retry

Spec == Init /\ [][Next]_vars
=============================================================================
