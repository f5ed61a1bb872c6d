----------------------------- MODULE Background -----------------------------
(***************************************************************************)
(* The work that goes on in the background: the delivery of notifications, *)
(* the review of the versions that a CDN consent asks for, and the         *)
(* containers of the sandbox.  Each has its own rows and its own hazards;  *)
(* a behaviour is of one of them, the focus, and the others stay idle.     *)
(***************************************************************************)
EXTENDS Naturals, Sequences, FiniteSets
CONSTANTS
    Foci,          \* the services that are looked at
    Unused,          \* the state of the others
    \* Outbox
    Messages, Users, Dispatchers, Nobody, Batch, Tries, MaxTroubles,
    \* CdnSubscription
    Syncers, Reviewers, Owners, Versions, MaxGen, MaxFaults,
    \* Containers
    Attempts, Runners, NoAttempt, MaxBreaks

VARIABLES
    focus,         \* the service whose behaviour this is
    \* Outbox
    outbox, site, mails, courier, troubles,
    \* CdnSubscription
    plugin, row, github, syncer, reviewer, packages, faults,
    \* Containers
    task, states, prepared, engine, underway, lapsed, breaks

Outbox == INSTANCE Outbox
CdnSubscription == INSTANCE CdnSubscription
Containers == INSTANCE Containers

outboxVars ==
    <<outbox, site, mails, courier, troubles>>
cdnVars ==
    <<plugin, row, github, syncer, reviewer, packages, faults>>
containersVars ==
    <<task, states, prepared, engine, underway, lapsed, breaks>>
vars == <<focus, outboxVars, cdnVars, containersVars>>

Init ==
    /\ focus \in Foci
    /\ IF focus = "outbox" THEN Outbox!Init
       ELSE /\ outbox = Unused /\ site = Unused /\ mails = Unused
            /\ courier = Unused /\ troubles = Unused
    /\ IF focus = "cdn" THEN CdnSubscription!Init
       ELSE /\ plugin = Unused /\ row = Unused /\ github = Unused
            /\ syncer = Unused /\ reviewer = Unused /\ packages = Unused
            /\ faults = Unused
    /\ IF focus = "containers" THEN Containers!Init
       ELSE /\ task = Unused /\ states = Unused /\ prepared = Unused
            /\ engine = Unused /\ underway = Unused /\ lapsed = Unused
            /\ breaks = Unused

OutboxStep ==
    /\ focus = "outbox" /\ Outbox!Next
    /\ UNCHANGED <<focus, cdnVars, containersVars>>

CdnSubscriptionStep ==
    /\ focus = "cdn" /\ CdnSubscription!Next
    /\ UNCHANGED <<focus, outboxVars, containersVars>>

ContainersStep ==
    /\ focus = "containers" /\ Containers!Next
    /\ UNCHANGED <<focus, outboxVars, cdnVars>>

Next ==
    \/ OutboxStep \/ CdnSubscriptionStep \/ ContainersStep

Spec == Init /\ [][Next]_vars

(* Processes go on as long as they can: a dispatcher polls, a refresh and  *)
(* a CDN review go through their steps, runners sweep at their interval.   *)
DispatcherGoesOn(d) ==
    /\ focus = "outbox" /\ Outbox!DispatcherStep(d)
    /\ UNCHANGED <<focus, cdnVars, containersVars>>
SyncerGoesOn(s) ==
    /\ focus = "cdn" /\ CdnSubscription!SyncerStep(s)
    /\ UNCHANGED <<focus, outboxVars, containersVars>>
ReviewerGoesOn(r) ==
    /\ focus = "cdn" /\ CdnSubscription!ReviewerStep(r)
    /\ UNCHANGED <<focus, outboxVars, containersVars>>
RunnerSweeps(r) ==
    /\ focus = "containers" /\ Containers!Sweep(r)
    /\ UNCHANGED <<focus, outboxVars, cdnVars>>

FairSpec ==
    /\ Spec
    /\ \A d \in Dispatchers : WF_vars(DispatcherGoesOn(d))
    /\ \A s \in Syncers : WF_vars(SyncerGoesOn(s))
    /\ \A r \in Reviewers : WF_vars(ReviewerGoesOn(r))
    /\ \A r \in Runners : WF_vars(RunnerSweeps(r))
-----------------------------------------------------------------------------
TypeOK ==
    CASE focus = "outbox" -> Outbox!TypeOK
      [] focus = "cdn" -> CdnSubscription!TypeOK
      [] focus = "containers" -> Containers!TypeOK

(* An event is reported as delivered when everyone has it, and given up    *)
(* after as many attempts as are allowed, none of which mails anyone       *)
(* twice; neither is undone by a dispatcher that was taken over            *)
(* (repository.py, claim_outbox, complete_outbox and fail_outbox).         *)
DeliveredHasReachedAll ==
    /\ [](focus = "outbox" => Outbox!DeliveredHasReachedAll /\ Outbox!MailsAreAttempts)
    /\ [][focus = "outbox" => Outbox!SettledStays]_vars

(* A runner that reports a passed cleanup has left nothing of the attempt  *)
(* behind (docker_executor.py, cleanup).                                   *)
ReportedCleanIsClean == focus = "containers" => Containers!ReportedCleanIsClean

(* Every notification is delivered or given up, every version that the     *)
(* consent stands for is answered, and what nobody remembers of an attempt *)
(* in the sandbox is removed (notifications.py, run_once; cdn.py,          *)
(* process_cdn_reviews; docker_executor.py, cleanup_orphans).              *)
BackgroundWorkEnds ==
    /\ \A m \in Messages :
          (focus = "outbox" /\ outbox[m].status = "queued") ~>
              (focus = "outbox" /\ Outbox!Settled(m))
    /\ (focus = "cdn" /\ CdnSubscription!Standing) ~>
          (focus = "cdn" /\ (CdnSubscription!Answered \/ ~CdnSubscription!Standing))
    /\ \A a \in Attempts :
          (focus = "containers" /\ Containers!Forgotten(a)) ~>
              (focus = "containers" /\ Containers!Gone(a))
=============================================================================
