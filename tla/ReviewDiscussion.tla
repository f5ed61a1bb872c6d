-------------------------- MODULE ReviewDiscussion -------------------------
(***************************************************************************)
(* What people do around one review: comment threads, to which events are  *)
(* appended under an expected version, the decision that locks them, and a *)
(* finding that is used to withdraw the plugin's current release in a      *)
(* hurry.  A request carries what its page showed; one whose answer is     *)
(* lost is made again under the same idempotency key.                      *)
(***************************************************************************)
EXTENDS Naturals, Sequences, SequencesExt

CONSTANTS
    Threads,       \* comment threads, by the key that creates them
    Asks,          \* idempotency keys of the other requests
    Releases, NoRelease,
    MaxRepeats,    \* bound: lost answers
    MaxTurns       \* bound: decisions, reopenings, triages and publications

VARIABLES
    verdict,       \* whether the artifact's review is decided
    thread,        \* review_comments
    notes,         \* review_comment_events of a thread
    closings,      \* how long each thread was at each decision
    finding,       \* review_findings: version, triage and the release it is linked to
    release,       \* publication_status of the plugin's releases
    stable,        \* current_artifact_id
    withdrawals,   \* review_decisions that revoke, with the link and the notification
    ask,           \* a request and what its page showed
    turns          \* repeats and turns so far

vars == <<verdict, thread, notes, closings, finding, release, stable, withdrawals, ask, turns>>
talk == <<verdict, thread, notes, closings>>
risk == <<finding, release, stable, withdrawals>>

Kinds == {"edit", "reply", "resolve", "reopen", "author_addressed"}
Blank == [op |-> "none", thread |-> CHOOSE t \in Threads : TRUE, version |-> 0,
          release |-> NoRelease, over |-> FALSE]

Init ==
    /\ verdict = "open"
    /\ thread = [t \in Threads |-> [made |-> FALSE, resolved |-> FALSE, version |-> 0, locked |-> FALSE]]
    /\ notes = [t \in Threads |-> <<>>]
    /\ closings = <<>>
    /\ finding = [version |-> 1, status |-> "open", release |-> NoRelease]
    /\ stable \in Releases
    /\ release = [r \in Releases |-> IF r = stable THEN "published" ELSE "unpublished"]
    /\ withdrawals = <<>>
    /\ ask = [k \in Asks |-> Blank]
    /\ turns = [repeats |-> 0, turns |-> 0]

Turn == turns.turns < MaxTurns /\ turns' = [turns EXCEPT !.turns = @ + 1]

(* create_review_comment, again where its answer was lost.                 *)
CreateThread(t) ==
    /\ ~thread[t].made /\ verdict = "open"
    /\ thread' = [thread EXCEPT ![t] = [@ EXCEPT !.made = TRUE, !.version = 1]]
    /\ notes' = [notes EXCEPT ![t] = <<[kind |-> "create", key |-> t, sees |-> 0]>>]
    /\ UNCHANGED <<verdict, closings, risk, ask, turns>>

(* A page is opened and a request made from what it shows.                 *)
AskEvent(k, kind, t) ==
    /\ ask[k] = Blank /\ thread[t].made
    /\ ask' = [ask EXCEPT ![k] = [Blank EXCEPT !.op = kind, !.thread = t, !.version = thread[t].version]]
    /\ UNCHANGED <<talk, risk, turns>>

Close(k) == ask' = [ask EXCEPT ![k].over = TRUE]

(* A bug: an event is appended to whatever the thread has become.          *)
SeesAnything(k) == TRUE

SeesThread(k) == thread[ask[k].thread].version = ask[k].version

(* append_review_comment_event                                             *)
Resolved(kind, was) == kind = "resolve" \/ (kind # "reopen" /\ was)

AppendEvent(k) ==
    LET t == ask[k].thread
        kind == ask[k].op
        repeated == \E i \in 1..Len(notes[t]) : notes[t][i].key = k
    IN
    /\ kind \in Kinds /\ ~ask[k].over
    /\ IF repeated \/ verdict = "decided" \/ thread[t].locked \/ ~SeesThread(k)
       THEN UNCHANGED <<thread, notes>>
       ELSE /\ thread' = [thread EXCEPT ![t] = [@ EXCEPT !.version = thread[t].version + 1,
                                                !.resolved = Resolved(kind, thread[t].resolved)]]
            /\ notes' = [notes EXCEPT ![t] = Append(@, [kind |-> kind, key |-> k, sees |-> ask[k].version])]
    /\ Close(k)
    /\ UNCHANGED <<verdict, closings, risk, turns>>

(* The answer is lost and the request is made again as it was.             *)
Repeat(k) ==
    /\ ask[k].over /\ turns.repeats < MaxRepeats
    /\ turns' = [turns EXCEPT !.repeats = @ + 1]
    /\ ask' = [ask EXCEPT ![k].over = FALSE]
    /\ UNCHANGED <<talk, risk>>

(* A bug: the threads are left as they are.                                *)
LeaveThreads == UNCHANGED thread

(* decide_artifact and its kin, in the transaction of the decision.        *)
LockThreads ==
    thread' = [t \in Threads |-> IF thread[t].made THEN [thread[t] EXCEPT !.locked = TRUE] ELSE thread[t]]

Decide ==
    /\ verdict = "open" /\ Turn
    /\ verdict' = "decided"
    /\ LockThreads
    /\ closings' = Append(closings, [t \in Threads |-> Len(notes[t])])
    /\ UNCHANGED <<notes, risk, ask>>

(* A manual retry opens the review again; its old threads stay locked.     *)
Reopen ==
    /\ verdict = "decided" /\ Turn
    /\ verdict' = "open"
    /\ UNCHANGED <<thread, notes, closings, risk, ask>>

(* update_finding_state                                                    *)
Triage ==
    /\ Turn
    /\ \E status \in {"open", "false_positive"} \ {finding.status} :
          finding' = [finding EXCEPT !.version = @ + 1, !.status = status]
    /\ UNCHANGED <<talk, release, stable, withdrawals, ask>>

(* Publication moves the pointer on, withdrawal takes it away: the release *)
(* model has the steps.                                                    *)
PublishRelease(r) ==
    /\ release[r] = "unpublished" /\ Turn
    /\ release' = [release EXCEPT ![r] = "published"]
    /\ stable' = r
    /\ UNCHANGED <<talk, finding, withdrawals, ask>>

Withdrawn(r) ==
    /\ release[r] = "revoking"
    /\ release' = [release EXCEPT ![r] = "revoked"]
    /\ stable' = IF stable = r THEN NoRelease ELSE stable
    /\ UNCHANGED <<talk, finding, withdrawals, ask, turns>>

(* StableRiskService.request_revoke reads the finding and the release.     *)
StableOf == IF stable # NoRelease THEN stable ELSE finding.release

AskWithdrawal(k) ==
    /\ ask[k] = Blank /\ finding.status = "open" /\ StableOf # NoRelease
    /\ stable = NoRelease \/ finding.release \in {NoRelease, stable}
    /\ ask' = [ask EXCEPT ![k] = [Blank EXCEPT !.op = "withdraw", !.version = finding.version,
                                               !.release = StableOf]]
    /\ UNCHANGED <<talk, risk, turns>>

(* A bug: the finding is linked whatever was made of it meanwhile.         *)
SeesAnyFinding(k) == TRUE

SeesFinding(k) == finding.version = ask[k].version

(* A bug: any published release may be withdrawn.                          *)
IsPublished(r) == release[r] = "published"

IsCurrent(r) == stable = r /\ release[r] = "published"

(* request_revoke_artifact: the decision, the link of the finding and the  *)
(* notification in one transaction.                                        *)
RequestWithdrawal(k) ==
    LET r == ask[k].release
        repeated == \E i \in 1..Len(withdrawals) : withdrawals[i].key = k
    IN
    /\ ask[k].op = "withdraw" /\ ~ask[k].over
    /\ IF repeated \/ ~IsCurrent(r) \/ ~SeesFinding(k)
       THEN UNCHANGED <<finding, release, withdrawals>>
       ELSE /\ finding' = [version |-> finding.version + 1, status |-> "open", release |-> r]
            /\ release' = [release EXCEPT ![r] = "revoking"]
            /\ withdrawals' = Append(withdrawals, [key |-> k, release |-> r])
    /\ Close(k)
    /\ UNCHANGED <<talk, stable, turns>>

Next ==
    \/ \E t \in Threads : CreateThread(t)
    \/ \E k \in Asks :
          \/ \E kind \in Kinds, t \in Threads : AskEvent(k, kind, t)
          \/ AppendEvent(k) \/ Repeat(k) \/ AskWithdrawal(k) \/ RequestWithdrawal(k)
    \/ Decide \/ Reopen \/ Triage
    \/ \E r \in Releases : PublishRelease(r) \/ Withdrawn(r)
-----------------------------------------------------------------------------
TypeOK ==
    /\ verdict \in {"open", "decided"}
    /\ thread \in [Threads -> [made : BOOLEAN, resolved : BOOLEAN, version : Nat, locked : BOOLEAN]]
    /\ \A t \in Threads : \A i \in 1..Len(notes[t]) : notes[t][i].kind \in Kinds \cup {"create"}
    /\ finding.version \in Nat /\ finding.status \in {"open", "false_positive"}
    /\ finding.release \in Releases \cup {NoRelease}
    /\ release \in [Releases -> {"unpublished", "published", "revoking", "revoked"}]
    /\ stable \in Releases \cup {NoRelease}
    /\ ask \in [Asks -> [op : Kinds \cup {"none", "withdraw"}, thread : Threads, version : Nat,
                         release : Releases \cup {NoRelease}, over : BOOLEAN]]

(* A thread is the sum of its events, each of which was written by someone *)
(* who had seen all the others, whoever else wrote at the same time        *)
(* (advanced_repository.py, append_review_comment_event): it is resolved   *)
(* if one resolved it and no later one opened it again.                    *)
IsResolved(events) ==
    \E i \in 1..Len(events) :
        /\ events[i].kind = "resolve"
        /\ \A j \in 1..Len(events) : j > i => events[j].kind # "reopen"

ThreadIsItsHistory ==
    \A t \in Threads :
        /\ thread[t].version = Len(notes[t])
        /\ thread[t].resolved = IsResolved(notes[t])
        /\ \A i \in 1..Len(notes[t]) : notes[t][i].sees = i - 1

(* What was said before a decision stays as it was then, even when the     *)
(* review is opened again (repository.py, decide_artifact).                *)
DecisionClosesThreads ==
    \A i \in 1..Len(closings) : \A t \in Threads :
        closings[i][t] > 0 => Len(notes[t]) = closings[i][t]

(* A release is withdrawn in a hurry only while it is the current one and  *)
(* the finding is what the administrator saw, not dismissed since          *)
(* (repository.py, request_revoke_artifact).                               *)
WithdrawsWarranted ==
    \A r \in Releases :
       release[r] # "revoking" /\ release'[r] = "revoking"
           => /\ stable = r
              /\ finding.status = "open" /\ finding'.release = r
=============================================================================
