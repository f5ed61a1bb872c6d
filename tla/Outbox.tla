------------------------------- MODULE Outbox ------------------------------
(***************************************************************************)
(* Notifications: the rows of outbox_events, the dispatchers that claim    *)
(* them in batches, and what they deliver to each recipient, a message on  *)
(* the site and then a mail.  A batch is delivered one event after the     *)
(* other under one lease that nobody renews.                               *)
(***************************************************************************)
EXTENDS Naturals, Sequences, FiniteSets, SequencesExt

CONSTANTS
    Messages,     \* events, by their dedupe_key: 1..n, in the order they come
    Users,        \* who may be a recipient
    Dispatchers,  \* processes that deliver: 1..n; the first that rests claims next
    Nobody,       \* no lease_owner
    Batch,        \* the limit of a claim
    Tries,        \* the limit on attempts
    MaxTroubles   \* bound: refused mails, deaths and stalls

VARIABLES
    outbox,       \* outbox_events
    site,         \* market_notifications, by event and user
    mails,        \* how many mails of an event a user was sent
    courier,      \* what a dispatcher is delivering
    troubles      \* how many troubles there have been

vars == <<outbox, site, mails, courier, troubles>>

Row == [status : {"absent", "queued", "running", "delivered", "failed", "cancelled"},
        attempts : 0..Tries, owner : Dispatchers \cup {Nobody}, lapsed : BOOLEAN]

(* batch: events claimed and not begun; left: recipients not yet reached.  *)
Resting == [event |-> Nobody, batch |-> <<>>, left |-> {}, at |-> "idle"]

Init ==
    /\ outbox = [m \in Messages |-> [status |-> "absent", attempts |-> 0, owner |-> Nobody,
                                     lapsed |-> FALSE]]
    /\ site = {}
    /\ mails = [m \in Messages |-> [u \in Users |-> 0]]
    /\ courier = [d \in Dispatchers |-> Resting]
    /\ troubles = 0

Trouble == troubles < MaxTroubles /\ troubles' = troubles + 1

(* enqueue_outbox: a row under the same key is left as it is.              *)
EnqueueOutbox(m) ==
    /\ outbox[m].status = "absent" /\ \A n \in Messages : n < m => outbox[n].status # "absent"
    /\ outbox' = [outbox EXCEPT ![m].status = "queued"]
    /\ UNCHANGED <<site, mails, courier, troubles>>

(* A bug: attempts are not looked at.                                      *)
ClaimableForEver(m) ==
    \/ outbox[m].status \in {"queued", "failed"}
    \/ outbox[m].status = "running" /\ outbox[m].lapsed

(* claim_outbox                                                            *)
Claimable(m) ==
    /\ outbox[m].attempts < Tries
    /\ \/ outbox[m].status \in {"queued", "failed"}
       \/ outbox[m].status = "running" /\ outbox[m].lapsed

ClaimOutbox(d) ==
    /\ courier[d] = Resting /\ \A e \in Dispatchers : e < d => courier[e] # Resting
    /\ \E taken \in SUBSET {m \in Messages : Claimable(m)} :
          /\ Cardinality(taken) \in 1..Batch
          /\ outbox' = [m \in Messages |->
                 IF m \in taken
                 THEN [status |-> "running", attempts |-> outbox[m].attempts + 1, owner |-> d,
                       lapsed |-> FALSE]
                 ELSE outbox[m]]
          /\ \E order \in SetToSeqs(taken) :
                courier' = [courier EXCEPT ![d].batch = order]
    /\ UNCHANGED <<site, mails, troubles>>

(* _deliver of the next event of the batch: its recipient and the admins.  *)
Deliver(d) ==
    /\ courier[d].at = "idle" /\ courier[d].batch # <<>>
    /\ courier' = [courier EXCEPT ![d] = [event |-> Head(@.batch), batch |-> Tail(@.batch),
                                          left |-> Users, at |-> "deliver"]]
    /\ UNCHANGED <<outbox, site, mails, troubles>>

(* _notify_user: create_notification_once, which is safe to repeat, then   *)
(* the mail, which is not.                                                 *)
NotifyOnSite(d, u) ==
    /\ courier[d].at = "deliver" /\ u \in courier[d].left
    /\ site' = site \cup {<<courier[d].event, u>>}
    /\ courier' = [courier EXCEPT ![d].at = u, ![d].left = @ \ {u}]
    /\ UNCHANGED <<outbox, mails, troubles>>

(* send_artifact_status_email; where it is refused the whole event fails.  *)
Mail(d, u) ==
    /\ courier[d].at = u
    /\ \/ /\ mails' = [mails EXCEPT ![courier[d].event][u] = @ + 1]
          /\ courier' = [courier EXCEPT ![d].at = IF courier[d].left = {} THEN "done" ELSE "deliver"]
          /\ UNCHANGED troubles
       \/ /\ Trouble
          /\ courier' = [courier EXCEPT ![d].at = "failed"]
          /\ UNCHANGED mails
    /\ UNCHANGED <<outbox, site>>

(* A bug: whoever has delivered reports it.                                *)
AnyoneHolds(d, m) == TRUE

(* The claim still stands.                                                 *)
Holds(d, m) == outbox[m].status = "running" /\ outbox[m].owner = d

Settle(d, status) ==
    LET m == courier[d].event IN
    /\ outbox' = IF Holds(d, m)
                 THEN [outbox EXCEPT ![m] = [@ EXCEPT !.status = status, !.owner = Nobody,
                                                      !.lapsed = FALSE]]
                 ELSE outbox
    /\ courier' = [courier EXCEPT ![d] = [Resting EXCEPT !.batch = courier[d].batch]]
    /\ UNCHANGED <<site, mails, troubles>>

CompleteOutbox(d) == courier[d].at = "done" /\ Settle(d, "delivered")

(* A bug: a failed event waits for another attempt, though there is none.  *)
FailForEver(d) == courier[d].at = "failed" /\ Settle(d, "failed")

FailOutbox(d) ==
    /\ courier[d].at = "failed"
    /\ Settle(d, IF outbox[courier[d].event].attempts < Tries THEN "failed" ELSE "cancelled")

(* Time passes for a dispatcher that is slow with its batch.               *)
LeaseLapses(m) ==
    /\ outbox[m].status = "running" /\ ~outbox[m].lapsed
    /\ Trouble
    /\ outbox' = [outbox EXCEPT ![m].lapsed = TRUE]
    /\ UNCHANGED <<site, mails, courier>>

(* A dispatcher dies.                                                      *)
Die(d) ==
    /\ courier[d] # Resting
    /\ Trouble
    /\ courier' = [courier EXCEPT ![d] = Resting]
    /\ outbox' = [m \in Messages |-> IF Holds(d, m) THEN [outbox[m] EXCEPT !.lapsed = TRUE]
                                     ELSE outbox[m]]
    /\ UNCHANGED <<site, mails>>

DispatcherStep(d) ==
    \/ ClaimOutbox(d) \/ Deliver(d)
    \/ \E u \in Users : NotifyOnSite(d, u) \/ Mail(d, u)
    \/ CompleteOutbox(d) \/ FailOutbox(d)

Next ==
    \/ \E m \in Messages : EnqueueOutbox(m) \/ LeaseLapses(m)
    \/ \E d \in Dispatchers : DispatcherStep(d) \/ Die(d)
-----------------------------------------------------------------------------
TypeOK ==
    /\ outbox \in [Messages -> Row]
    /\ site \subseteq Messages \X Users
    /\ mails \in [Messages -> [Users -> 0..Tries]]
    /\ courier \in [Dispatchers -> [event : Messages \cup {Nobody}, batch : Seq(Messages),
                                    left : SUBSET Users,
                                    at : {"idle", "deliver", "done", "failed"} \cup Users]]
    /\ troubles \in 0..MaxTroubles

(* An event reported as delivered has reached everyone on the site and by  *)
(* mail, whoever reports it (repository.py, complete_outbox).              *)
DeliveredHasReachedAll ==
    \A m \in Messages : outbox[m].status = "delivered" =>
        \A u \in Users : <<m, u>> \in site /\ mails[m][u] > 0

(* Nobody is mailed an event more often than it was claimed, and it is     *)
(* given up only after the last attempt (repository.py, claim_outbox).     *)
MailsAreAttempts ==
    \A m \in Messages :
        /\ \A u \in Users : mails[m][u] <= outbox[m].attempts
        /\ outbox[m].status = "cancelled" => outbox[m].attempts = Tries

(* What is settled stays as it is: a dispatcher that was taken over for    *)
(* being slow, and fails in the end, undoes nothing (repository.py,        *)
(* complete_outbox and fail_outbox).                                       *)
SettledStays ==
    \A m \in Messages : outbox[m].status \in {"delivered", "cancelled"} => outbox'[m] = outbox[m]

(* Every event is delivered or given up, or its dispatcher died in the     *)
(* last attempt: nobody takes it over then (repository.py, claim_outbox).  *)
Settled(m) ==
    \/ outbox[m].status \in {"delivered", "cancelled"}
    \/ outbox[m].status = "running" /\ outbox[m].lapsed /\ outbox[m].attempts = Tries
EventsSettle == \A m \in Messages : outbox[m].status = "queued" ~> Settled(m)
=============================================================================
