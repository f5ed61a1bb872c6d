-------------------------- MODULE ArtifactRelease --------------------------
(***************************************************************************)
(* Publication, revocation and orphan cleanup of reviewed plugin packages: *)
(* the PostgreSQL rows of one plugin (market_plugins, plugin_artifacts,    *)
(* artifact_jobs), the public bucket, the artifact workers that execute    *)
(* leased jobs, the administrators' decisions and the GitHub metadata sync *)
(* of the API process.  One action per database transaction, storage call  *)
(* or in-memory decision between two of them.                              *)
(*                                                                         *)
(* An artifact's published key is a function of the artifact, so the       *)
(* bucket is a set of artifacts.  All artifacts belong to one plugin.      *)
(***************************************************************************)
EXTENDS Naturals, FiniteSets

CONSTANTS
    Artifacts,      \* the candidate packages of the plugin
    Workers,        \* artifact-worker processes
    Versions,       \* normalized versions
    VersionOf,      \* Artifacts -> Versions, plugin_artifacts.normalized_version
    None,           \* no artifact, no job, no snapshot
    Gone,           \* lease owner whose process no longer exists
    MaxAttempts,    \* artifact_jobs.max_attempts (5 for these job types)
    BatchLimit,     \* jobs one claim takes (run_once(limit=4))
    MaxRetries,     \* bound: retry-publish requests per artifact
    MaxRevokes,     \* bound: revoke requests per artifact
    MaxGeneration,  \* bound: CDN consent generations
    Events,         \* which of EventKinds may happen
    MaxEvents       \* bound: how many of them happen

(* What nobody in the release process decides: a worker process dies, a    *)
(* worker is stalled past its lease, a storage or authorization call fails,*)
(* a database call fails and its error is suppressed ("database") or ends  *)
(* the handler ("outage"), the metadata sync updates the plugin, a         *)
(* moderator sets the listing, the CDN task resumes a publication.         *)
EventKinds == {"crash", "stall", "fault", "database", "outage", "sync", "listing", "resume"}

ASSUME ConstantsAssumption ==
    /\ VersionOf \in [Artifacts -> Versions]
    /\ None \notin Artifacts
    /\ Gone \notin Workers
    /\ MaxAttempts \in Nat \ {0}
    /\ BatchLimit \in Nat \ {0}
    /\ {MaxRetries, MaxRevokes, MaxGeneration, MaxEvents} \subseteq Nat
    /\ Events \subseteq EventKinds

VARIABLES
    review,      \* plugin_artifacts.review_status
    pub,         \* plugin_artifacts.publication_status
    current,     \* market_plugins.current_artifact_id
    listing,     \* market_plugins.status
    repoVersion, \* market_plugins.repo_version
    consent,     \* market_plugins.metadata cdn_enabled and cdn_generation
    objects,     \* artifacts whose package is in the public bucket
    jobs,        \* artifact_jobs, one per idempotency key
    batch,       \* jobs a worker has claimed and not started
    task,        \* job a worker is executing
    pc,          \* where in its handler the worker is
    tries,       \* attempts of the job as the worker read it at the claim
    retry,       \* whether the failure being reported may be retried
    asked,       \* publish jobs of requests that were checked, before their INSERT
    sync,        \* plugin row read by update_plugin_metadata, before its UPDATE
    happened     \* how many events have happened

workerVars == <<batch, task, pc, tries, retry>>
apiVars == <<asked, sync>>
pluginVars == <<current, listing, repoVersion, consent>>
vars == <<review, pub, pluginVars, objects, jobs, workerVars, apiVars, happened>>
-----------------------------------------------------------------------------
ReviewStatus == {"pending_review", "changes_requested", "approved", "rejected"}

PublicationStatus == {"unpublished", "publishing", "published", "publish_failed",
                      "revoking", "revoked", "revoke_failed"}

(* Mutant: a failed publication may be committed after all.                *)
LaxPublicationTransitions ==
    [unpublished    |-> {"publishing"},
     publishing     |-> {"published", "publish_failed"},
     published      |-> {"revoking"},
     publish_failed |-> {"publishing", "published"},
     revoking       |-> {"revoked", "revoke_failed"},
     revoked        |-> {},
     revoke_failed  |-> {"revoking"}]

(* PUBLICATION_TRANSITIONS: the targets allowed from each status.          *)
PublicationTransitions ==
    [unpublished    |-> {"publishing"},
     publishing     |-> {"published", "publish_failed"},
     published      |-> {"revoking"},
     publish_failed |-> {"publishing"},
     revoking       |-> {"revoked", "revoke_failed"},
     revoked        |-> {},
     revoke_failed  |-> {"revoking"}]

(* validate_publication_transition accepts a repeated status.              *)
ValidPublication(from, to) == from = to \/ to \in PublicationTransitions[from]

(* Idempotency keys: one publish job per approval, one per administrator's *)
(* retry, one per CDN generation; a revoke job per request; one cleanup    *)
(* job per published key, for ever.                                        *)
JobIds == {"publish", "cleanup"} \X Artifacts \X {0}
          \cup {"retry"} \X Artifacts \X (1..MaxRetries)
          \cup {"revoke"} \X Artifacts \X (1..MaxRevokes)
          \cup {"resume"} \X Artifacts \X (0..MaxGeneration)

JobArtifact(id) == id[2]
JobType(id) == IF id[1] \in {"publish", "retry", "resume"} THEN "publish" ELSE id[1]

JobRecord == [status: {"absent", "queued", "running", "succeeded", "failed"},
              attempts: 0..MaxAttempts,
              owner: Workers \cup {Gone, None},
              leased: BOOLEAN,
              version: Versions \cup {None},
              generation: 0..MaxGeneration]

NoJob == [status |-> "absent", attempts |-> 0, owner |-> None, leased |-> FALSE,
          version |-> None, generation |-> 0]

NewJob(version, generation) ==
    [status |-> "queued", attempts |-> 0, owner |-> None, leased |-> FALSE,
     version |-> version, generation |-> generation]

ClaimedJob(job, w) ==
    [status |-> "running", attempts |-> job.attempts + 1, owner |-> w, leased |-> TRUE,
     version |-> job.version, generation |-> job.generation]

(* The lease is given back with the new status.                            *)
ReturnedJob(job, status) ==
    [status |-> status, attempts |-> job.attempts, owner |-> None, leased |-> FALSE,
     version |-> job.version, generation |-> job.generation]

Consent == [enabled : BOOLEAN, generation : 0..MaxGeneration]

PluginSnapshot == [listing : {"pending", "listed", "unlisted"}, consent : Consent,
                   version : Versions]

Labels == {"idle", "publish", "stat", "transition", "put", "commit", "mark",
           "mark_orphan", "orphan", "revoke", "revoke_transition", "revoke_delete",
           "revoke_finish", "cleanup", "cleanup_delete", "complete", "record", "fail"}

Absent(id)  == jobs[id].status = "absent"
Settled(id) == jobs[id].status \in {"absent", "succeeded", "failed"}

(* INSERT ... ON CONFLICT (idempotency_key): an existing row is returned   *)
(* as it is.  publication_payload adds the CDN generation.                 *)
Insert(id, version, generation) ==
    jobs' = IF Absent(id) THEN [jobs EXCEPT ![id] = NewJob(version, generation)] ELSE jobs

Happens(kind) == /\ kind \in Events
                 /\ happened < MaxEvents
                 /\ happened' = happened + 1
-----------------------------------------------------------------------------
(* Initially every candidate has passed the automated stages, nothing is   *)
(* published and the plugin is listed through its GitHub repository.       *)
Init ==
    /\ review = [a \in Artifacts |-> "pending_review"]
    /\ pub = [a \in Artifacts |-> "unpublished"]
    /\ current = None
    /\ listing = "listed"
    /\ repoVersion \in Versions
    /\ consent = [enabled |-> TRUE, generation |-> 0]
    /\ objects = {}
    /\ jobs = [id \in JobIds |-> NoJob]
    /\ batch = [w \in Workers |-> {}]
    /\ task = [w \in Workers |-> None]
    /\ pc = [w \in Workers |-> "idle"]
    /\ tries = [w \in Workers |-> 0]
    /\ retry = [w \in Workers |-> FALSE]
    /\ asked = {}
    /\ sync = None
    /\ happened = 0
-----------------------------------------------------------------------------
(* Administrators, plugin owner and API.                                   *)

(* approve and approve_artifact: decision, status and publish job in one   *)
(* transaction that holds the artifact and plugin rows.                    *)
Approve(a) ==
    /\ review[a] = "pending_review"
    /\ repoVersion = VersionOf[a]
    /\ review' = [review EXCEPT ![a] = "approved"]
    /\ Insert(<<"publish", a, 0>>, repoVersion, consent.generation)
    /\ UNCHANGED <<pub, pluginVars, objects, workerVars, apiVars, happened>>

(* Mutant: decide_artifact without its look at the review status.          *)
DeclineWhenever(a) ==
    /\ \E verdict \in {"rejected", "changes_requested"} :
          review' = [review EXCEPT ![a] = verdict]
    /\ UNCHANGED <<pub, pluginVars, objects, jobs, workerVars, apiVars, happened>>

(* reject and request_changes, through decide_artifact.                    *)
Decline(a) ==
    /\ review[a] = "pending_review"
    /\ \E verdict \in {"rejected", "changes_requested"} :
          review' = [review EXCEPT ![a] = verdict]
    /\ UNCHANGED <<pub, pluginVars, objects, jobs, workerVars, apiVars, happened>>

(* retry_publish: the state is checked on a read, the job is queued later *)
(* under a key of its own, with the repository version of that read.       *)
RetryPublish(a) ==
    /\ review[a] = "approved"
    /\ pub[a] = "publish_failed"
    /\ \E n \in 1..MaxRetries :
          /\ Absent(<<"retry", a, n>>)
          /\ asked' = asked \cup {<<<<"retry", a, n>>, repoVersion>>}
    /\ UNCHANGED <<review, pub, pluginVars, objects, jobs, workerVars, sync, happened>>

(* process_cdn_reviews finds the approved package of the version it was    *)
(* asked for, to publish it once per CDN generation.                       *)
CdnResume(a) ==
    /\ consent.enabled
    /\ repoVersion = VersionOf[a]
    /\ review[a] = "approved"
    /\ pub[a] \in {"unpublished", "publish_failed"}
    /\ Happens("resume")
    /\ asked' = asked \cup {<<<<"resume", a, consent.generation>>, repoVersion>>}
    /\ UNCHANGED <<review, pub, pluginVars, objects, jobs, workerVars, sync>>

(* enqueue_job, in a transaction after those reads: the CDN generation is  *)
(* that of now.                                                            *)
QueuePublication(request) ==
    /\ Insert(request[1], request[2], consent.generation)
    /\ asked' = asked \ {request}
    /\ UNCHANGED <<review, pub, pluginVars, objects, workerVars, sync, happened>>

(* request_revoke_artifact: only the current release; decision, status,    *)
(* listing and job in one transaction.                                     *)
RequestRevoke(a) ==
    /\ current = a
    /\ ValidPublication(pub[a], "revoking")
    /\ \E n \in 1..MaxRevokes : /\ Absent(<<"revoke", a, n>>)
                             /\ Insert(<<"revoke", a, n>>, None, 0)
    /\ pub' = [pub EXCEPT ![a] = "revoking"]
    /\ listing' = "unlisted"
    /\ UNCHANGED <<review, current, repoVersion, consent, objects, workerVars, apiVars, happened>>

(* CdnSubscriptions.configure: the generation moves when the consent is    *)
(* toggled and when an enabled plugin is authorized for another scope.     *)
ConfigureCdn ==
    /\ consent.generation < MaxGeneration
    /\ \E enabled \in BOOLEAN :
          /\ enabled \/ consent.enabled
          /\ consent' = [enabled |-> enabled, generation |-> consent.generation + 1]
    /\ UNCHANGED <<review, pub, current, listing, repoVersion, objects, jobs, workerVars,
                   apiVars, happened>>

(* list_plugin, unlist_plugin and request_plugin_listing; the last one     *)
(* looks at the listing in an earlier read only.                           *)
SetListing(status) ==
    /\ listing # status
    /\ Happens("listing")
    /\ listing' = status
    /\ UNCHANGED <<review, pub, current, repoVersion, consent, objects, jobs, workerVars, apiVars>>

(* update_plugin_metadata reads the whole plugin row, merges its patch and *)
(* writes every column back in a later statement, without a lock; only     *)
(* current_artifact_id is not among the columns it writes.                 *)
SyncRead ==
    /\ sync = None
    /\ Happens("sync")
    /\ \E v \in Versions : sync' = [listing |-> listing, consent |-> consent, version |-> v]
    /\ UNCHANGED <<asked, review, pub, pluginVars, objects, jobs, workerVars>>

SyncWrite ==
    /\ sync # None
    /\ listing' = sync.listing
    /\ consent' = sync.consent
    /\ repoVersion' = sync.version
    /\ sync' = None
    /\ UNCHANGED <<asked, review, pub, current, objects, jobs, workerVars, happened>>
-----------------------------------------------------------------------------
(* The job queue and its leases.                                           *)

(* Mutant: claims without counting attempts.                               *)
ClaimableForEver(id) ==
    \/ jobs[id].status = "queued"
    \/ jobs[id].status = "running" /\ ~jobs[id].leased

(* claim_jobs: due queued jobs and running jobs whose lease has lapsed, if *)
(* an attempt is left.                                                     *)
Claimable(id) ==
    /\ jobs[id].attempts < MaxAttempts
    /\ \/ jobs[id].status = "queued"
       \/ jobs[id].status = "running" /\ ~jobs[id].leased

Claim(w) ==
    /\ pc[w] = "idle"
    /\ batch[w] = {}
    /\ \E taken \in SUBSET {id \in JobIds : Claimable(id)} :
          /\ taken # {}
          /\ Cardinality(taken) <= BatchLimit
          /\ jobs' = [id \in JobIds |->
                        IF id \in taken THEN ClaimedJob(jobs[id], w) ELSE jobs[id]]
          /\ batch' = [batch EXCEPT ![w] = {<<id, jobs'[id].attempts>> : id \in taken}]
    /\ UNCHANGED <<review, pub, pluginVars, objects, task, pc, tries, retry, apiVars, happened>>

(* A lease lapses when its owner is gone, when the job still waits in the  *)
(* owner's batch (_renew_lease runs only for the job being executed), or   *)
(* when the owner is stalled.                                              *)
LeaseLapses(id) ==
    /\ jobs[id].status = "running"
    /\ jobs[id].leased
    /\ IF jobs[id].owner \in Workers /\ task[jobs[id].owner] = id
       THEN Happens("stall") ELSE UNCHANGED happened
    /\ jobs' = [jobs EXCEPT ![id].leased = FALSE]
    /\ UNCHANGED <<review, pub, pluginVars, objects, workerVars, apiVars>>

(* renew_job_lease asks for ownership, not for an unexpired lease.         *)
RenewLease(w) ==
    LET id == task[w] IN
    /\ id # None
    /\ jobs[id].status = "running"
    /\ jobs[id].owner = w
    /\ ~jobs[id].leased
    /\ jobs' = [jobs EXCEPT ![id].leased = TRUE]
    /\ UNCHANGED <<review, pub, pluginVars, objects, workerVars, apiVars, happened>>

(* A worker process dies; its successor starts under another worker_id.    *)
Crash(w) ==
    /\ task[w] # None \/ batch[w] # {}
    /\ Happens("crash")
    /\ jobs' = [id \in JobIds |-> IF jobs[id].owner = w
                                  THEN [jobs[id] EXCEPT !.owner = Gone] ELSE jobs[id]]
    /\ batch' = [batch EXCEPT ![w] = {}]
    /\ task' = [task EXCEPT ![w] = None]
    /\ pc' = [pc EXCEPT ![w] = "idle"]
    /\ tries' = [tries EXCEPT ![w] = 0]
    /\ retry' = [retry EXCEPT ![w] = FALSE]
    /\ UNCHANGED <<review, pub, pluginVars, objects, apiVars>>
-----------------------------------------------------------------------------
(* Control flow of a handler.                                              *)

Goto(w, label) == /\ pc' = [pc EXCEPT ![w] = label]
                  /\ UNCHANGED <<task, batch, tries, retry>>

(* An exception leaves the handler; _fail_job continues at label.          *)
Raise(w, label, retryable) == /\ pc' = [pc EXCEPT ![w] = label]
                              /\ retry' = [retry EXCEPT ![w] = retryable]
                              /\ UNCHANGED <<task, batch, tries>>

Executing(w, label) == pc[w] = label /\ task[w] # None
Subject(w) == JobArtifact(task[w])

(* _execute takes the next job of the batch, starts its lease heartbeat    *)
(* and calls its handler.                                                  *)
Begin(w) ==
    /\ pc[w] = "idle"
    /\ \E b \in batch[w] :
          /\ task' = [task EXCEPT ![w] = b[1]]
          /\ tries' = [tries EXCEPT ![w] = b[2]]
          /\ batch' = [batch EXCEPT ![w] = @ \ {b}]
          /\ pc' = [pc EXCEPT ![w] = JobType(b[1])]
    /\ UNCHANGED <<review, pub, pluginVars, objects, jobs, retry, apiVars, happened>>

(* _run_publish: the checks made on the row that get_artifact returned.    *)
PublishRead(w) ==
    LET a == Subject(w)  j == jobs[task[w]] IN
    /\ Executing(w, "publish")
    /\ IF ~consent.enabled \/ consent.generation # j.generation
         THEN Raise(w, "mark", FALSE)
       ELSE IF review[a] # "approved"
         THEN Raise(w, "record", FALSE)
       ELSE IF j.version # repoVersion \/ repoVersion # VersionOf[a]
         THEN Raise(w, "mark", FALSE)
       ELSE CASE pub[a] = "published"  -> Goto(w, "stat")
              [] pub[a] = "publishing" -> Goto(w, "put")
              [] pub[a] \in {"unpublished", "publish_failed"} -> Goto(w, "transition")
              [] OTHER -> Raise(w, "record", FALSE)
    /\ UNCHANGED <<review, pub, pluginVars, objects, jobs, apiVars, happened>>

(* An already published artifact: its object must be there.                *)
PublishStat(w) ==
    /\ Executing(w, "stat")
    /\ IF Subject(w) \in objects THEN Goto(w, "complete") ELSE Raise(w, "record", FALSE)
    /\ UNCHANGED <<review, pub, pluginVars, objects, jobs, apiVars, happened>>

PublishTransition(w) ==
    LET a == Subject(w) IN
    /\ Executing(w, "transition")
    /\ IF ValidPublication(pub[a], "publishing")
         THEN /\ pub' = [pub EXCEPT ![a] = "publishing"]
              /\ Goto(w, "put")
         ELSE /\ Raise(w, "record", TRUE)
              /\ UNCHANGED pub
    /\ UNCHANGED <<review, pluginVars, objects, jobs, apiVars, happened>>

(* publication_authorizer.verify, then storage.publish_if_absent; neither  *)
(* reads the rows modelled here.  A refused authorization leaves no object;*)
(* a storage call that fails, or whose result does not fit, may have put   *)
(* it there.                                                               *)
PublishPut(w) ==
    LET a == Subject(w) IN
    /\ Executing(w, "put")
    /\ \/ /\ objects' = objects \cup {a}
          /\ Goto(w, "commit")
          /\ UNCHANGED happened
       \/ /\ Happens("fault")
          /\ \E retryable \in BOOLEAN :
                \/ /\ Raise(w, "mark_orphan", retryable)
                   /\ objects' \in {objects, objects \cup {a}}
                \/ /\ Raise(w, "mark", retryable)
                   /\ UNCHANGED objects
    /\ UNCHANGED <<review, pub, pluginVars, jobs, apiVars>>

(* Mutant: the publication status is not checked again at the commit.      *)
CommitAllowedInAnyStatus(w) ==
    LET a == Subject(w)  j == jobs[task[w]] IN
    /\ consent.enabled
    /\ consent.generation = j.generation
    /\ repoVersion = j.version
    /\ \A b \in Artifacts \ {a} : pub[b] = "published" => VersionOf[b] # VersionOf[a]

(* Mutant: the repository version is not checked again at the commit.      *)
CommitAllowedForAnyVersion(w) ==
    LET a == Subject(w)  j == jobs[task[w]] IN
    /\ consent.enabled
    /\ consent.generation = j.generation
    /\ ValidPublication(pub[a], "published")
    /\ \A b \in Artifacts \ {a} : pub[b] = "published" => VersionOf[b] # VersionOf[a]

(* publish_artifact: consent, repository version, transition and the       *)
(* unique published version are checked again under the row locks.         *)
CommitAllowed(w) ==
    LET a == Subject(w)  j == jobs[task[w]] IN
    /\ consent.enabled
    /\ consent.generation = j.generation
    /\ repoVersion = j.version
    /\ ValidPublication(pub[a], "published")
    /\ \A b \in Artifacts \ {a} : pub[b] = "published" => VersionOf[b] # VersionOf[a]

PublishCommit(w) ==
    LET a == Subject(w) IN
    /\ Executing(w, "commit")
    /\ \/ /\ CommitAllowed(w)
          /\ pub' = [pub EXCEPT ![a] = "published"]
          /\ current' = a
          /\ listing' = "listed"
          /\ Goto(w, "complete")
       \/ /\ ~CommitAllowed(w)
          /\ Raise(w, "mark_orphan", TRUE)
          /\ UNCHANGED <<pub, current, listing>>
    /\ UNCHANGED <<review, repoVersion, consent, objects, jobs, apiVars, happened>>

(* A status update made with suppress(Exception): refused by the           *)
(* transition table, or lost with the database call.                       *)
Recorded(a, status) ==
    IF ValidPublication(pub[a], status) THEN [pub EXCEPT ![a] = status] ELSE pub

Attempt(a, status) ==
    \/ pub' = Recorded(a, status) /\ UNCHANGED happened
    \/ UNCHANGED pub /\ Happens("database")

(* _mark_publish_failed.                                                   *)
MarkPublishFailed(w) ==
    /\ \/ Executing(w, "mark") /\ Goto(w, "record")
       \/ Executing(w, "mark_orphan") /\ Goto(w, "orphan")
    /\ Attempt(Subject(w), "publish_failed")
    /\ UNCHANGED <<review, pluginVars, objects, jobs, apiVars>>

(* Mutant: the cleanup is left to the attempt that is not retried.         *)
EnqueueCleanupAtTheEnd(w) ==
    /\ Executing(w, "orphan")
    /\ IF retry[w] THEN UNCHANGED jobs ELSE Insert(<<"cleanup", Subject(w), 0>>, None, 0)
    /\ Goto(w, "record")
    /\ UNCHANGED <<review, pub, pluginVars, objects, apiVars, happened>>

EnqueueCleanup(w) ==
    /\ Executing(w, "orphan")
    /\ Insert(<<"cleanup", Subject(w), 0>>, None, 0)
    /\ Goto(w, "record")
    /\ UNCHANGED <<review, pub, pluginVars, objects, apiVars, happened>>
-----------------------------------------------------------------------------
(* _run_revoke.                                                            *)
RevokeRead(w) ==
    LET a == Subject(w) IN
    /\ Executing(w, "revoke")
    /\ CASE pub[a] = "revoked"  -> Goto(w, "complete")
         [] pub[a] = "revoking" -> Goto(w, "revoke_delete")
         [] pub[a] \in {"published", "revoke_failed"} -> Goto(w, "revoke_transition")
         [] OTHER -> Raise(w, "record", FALSE)
    /\ UNCHANGED <<review, pub, pluginVars, objects, jobs, apiVars, happened>>

RevokeTransition(w) ==
    LET a == Subject(w) IN
    /\ Executing(w, "revoke_transition")
    /\ IF ValidPublication(pub[a], "revoking")
         THEN /\ pub' = [pub EXCEPT ![a] = "revoking"]
              /\ Goto(w, "revoke_delete")
         ELSE /\ Raise(w, "record", TRUE)
              /\ UNCHANGED pub
    /\ UNCHANGED <<review, pluginVars, objects, jobs, apiVars, happened>>

(* storage.revoke_published, for a revocation or for an orphan.  A call    *)
(* that fails, which is retried, may have deleted the object.              *)
DeleteObject(w) ==
    /\ Executing(w, "revoke_delete") \/ Executing(w, "cleanup_delete")
    /\ \/ /\ objects' = objects \ {Subject(w)}
          /\ Goto(w, IF pc[w] = "revoke_delete" THEN "revoke_finish" ELSE "complete")
          /\ UNCHANGED happened
       \/ /\ Happens("fault")
          /\ objects' \in {objects, objects \ {Subject(w)}}
          /\ Raise(w, "record", TRUE)
    /\ UNCHANGED <<review, pub, pluginVars, jobs, apiVars>>

(* Mutant: the withdrawal forgets the plugin's pointer.                    *)
RevokeFinishKeepingPointer(w) ==
    LET a == Subject(w) IN
    /\ Executing(w, "revoke_finish")
    /\ IF ValidPublication(pub[a], "revoked")
         THEN /\ pub' = [pub EXCEPT ![a] = "revoked"]
              /\ Goto(w, "complete")
         ELSE /\ Raise(w, "record", TRUE)
              /\ UNCHANGED pub
    /\ UNCHANGED <<review, pluginVars, objects, jobs, apiVars, happened>>

(* revoke_artifact: the plugin is touched only if it still points here.    *)
RevokeFinish(w) ==
    LET a == Subject(w) IN
    /\ Executing(w, "revoke_finish")
    /\ IF ValidPublication(pub[a], "revoked")
         THEN /\ pub' = [pub EXCEPT ![a] = "revoked"]
              /\ current' = IF current = a THEN None ELSE current
              /\ listing' = IF current = a THEN "unlisted" ELSE listing
              /\ Goto(w, "complete")
         ELSE /\ Raise(w, "record", TRUE)
              /\ UNCHANGED <<pub, current, listing>>
    /\ UNCHANGED <<review, repoVersion, consent, objects, jobs, apiVars, happened>>

(* _run_cleanup_orphan: the row is read, the object deleted later.         *)
CleanupRead(w) ==
    /\ Executing(w, "cleanup")
    /\ IF pub[Subject(w)] = "published" THEN Goto(w, "complete") ELSE Goto(w, "cleanup_delete")
    /\ UNCHANGED <<review, pub, pluginVars, objects, jobs, apiVars, happened>>
-----------------------------------------------------------------------------
(* A read or a transaction of the handler fails, with nothing done, or the *)
(* notification that follows a status update.  The error may be retried.   *)
Outage(w) ==
    /\ task[w] # None
    /\ Happens("outage")
    /\ \/ /\ \/ pc[w] \in {"publish", "stat", "transition", "orphan", "revoke",
                            "revoke_transition", "revoke_finish", "cleanup"}
             \/ pc[w] = "complete" /\ JobType(task[w]) \in {"publish", "revoke"}
          /\ Raise(w, "record", TRUE)
          /\ UNCHANGED pub
       \/ /\ pc[w] = "commit"
          /\ Raise(w, "mark_orphan", TRUE)
          /\ UNCHANGED pub
       \/ /\ pc[w] \in {"mark", "mark_orphan"}
          /\ Raise(w, "record", TRUE)
          /\ pub' \in {pub, Recorded(Subject(w), "publish_failed")}
    /\ UNCHANGED <<review, pluginVars, objects, jobs, apiVars>>
-----------------------------------------------------------------------------
(* The end of a job.                                                       *)
Owns(w) == jobs[task[w]].status = "running" /\ jobs[task[w]].owner = w

Release(w) == /\ pc' = [pc EXCEPT ![w] = "idle"]
              /\ task' = [task EXCEPT ![w] = None]
              /\ tries' = [tries EXCEPT ![w] = 0]
              /\ retry' = [retry EXCEPT ![w] = FALSE]
              /\ UNCHANGED batch

(* complete_job: a no-op for a worker that no longer owns the job.         *)
CompleteJob(w) ==
    /\ Executing(w, "complete")
    /\ jobs' = IF Owns(w)
               THEN [jobs EXCEPT ![task[w]] = ReturnedJob(@, "succeeded")]
               ELSE jobs
    /\ Release(w)
    /\ UNCHANGED <<review, pub, pluginVars, objects, apiVars, happened>>

(* Mutant: a publication is marked as failed where the error arose only.   *)
RecordRevokeFailureOnly(w) ==
    LET a == Subject(w)
        willRetry == retry[w] /\ tries[w] < MaxAttempts IN
    /\ Executing(w, "record")
    /\ IF JobType(task[w]) = "revoke" /\ pub[a] = "revoking" /\ ~willRetry
         THEN Attempt(a, "revoke_failed") ELSE UNCHANGED <<pub, happened>>
    /\ Goto(w, "fail")
    /\ UNCHANGED <<review, pluginVars, objects, jobs, apiVars>>

(* _record_stage_failure, before fail_job and whoever owns the lease.      *)
RecordFailure(w) ==
    LET a == Subject(w)
        willRetry == retry[w] /\ tries[w] < MaxAttempts IN
    /\ Executing(w, "record")
    /\ CASE JobType(task[w]) = "publish" /\ pub[a] = "publishing" -> Attempt(a, "publish_failed")
         [] JobType(task[w]) = "revoke" /\ pub[a] = "revoking" /\ ~willRetry
              -> Attempt(a, "revoke_failed")
         [] OTHER -> UNCHANGED <<pub, happened>>
    /\ Goto(w, "fail")
    /\ UNCHANGED <<review, pluginVars, objects, jobs, apiVars>>

(* Mutant: requeued whenever the error is retryable.                       *)
FailJobForEver(w) ==
    /\ Executing(w, "fail")
    /\ jobs' = IF Owns(w)
               THEN [jobs EXCEPT ![task[w]] =
                                    ReturnedJob(@, IF retry[w] THEN "queued" ELSE "failed")]
               ELSE jobs
    /\ Release(w)
    /\ UNCHANGED <<review, pub, pluginVars, objects, apiVars, happened>>

(* fail_job: requeued if the error is retryable and an attempt is left.    *)
FailJob(w) ==
    LET again == retry[w] /\ jobs[task[w]].attempts < MaxAttempts IN
    /\ Executing(w, "fail")
    /\ jobs' = IF Owns(w)
               THEN [jobs EXCEPT ![task[w]] =
                                    ReturnedJob(@, IF again THEN "queued" ELSE "failed")]
               ELSE jobs
    /\ Release(w)
    /\ UNCHANGED <<review, pub, pluginVars, objects, apiVars, happened>>
-----------------------------------------------------------------------------
Administer ==
    \/ \E a \in Artifacts : Approve(a) \/ Decline(a) \/ RetryPublish(a) \/ CdnResume(a)
                            \/ RequestRevoke(a)
    \/ \E request \in asked : QueuePublication(request)
    \/ ConfigureCdn
    \/ \E status \in {"pending", "listed", "unlisted"} : SetListing(status)

Handle(w) ==
    \/ Begin(w) \/ PublishRead(w) \/ PublishStat(w) \/ PublishTransition(w)
    \/ PublishPut(w) \/ PublishCommit(w) \/ MarkPublishFailed(w)
    \/ EnqueueCleanup(w) \/ RevokeRead(w) \/ RevokeTransition(w) \/ DeleteObject(w)
    \/ RevokeFinish(w) \/ CleanupRead(w) \/ CompleteJob(w) \/ RecordFailure(w) \/ FailJob(w)

Next ==
    \/ Administer
    \/ SyncRead \/ SyncWrite
    \/ \E id \in JobIds : LeaseLapses(id)
    \/ \E w \in Workers : Claim(w) \/ Handle(w) \/ Outage(w) \/ RenewLease(w) \/ Crash(w)

Spec == Init /\ [][Next]_vars

(* Workers poll for ever (run_forever), asyncio runs every handler step,   *)
(* and claim_jobs serves due jobs in the order they became available, so a *)
(* job that keeps becoming claimable is claimed.  A lapsed lease is a      *)
(* matter of time.  Nobody is obliged to decide, retry or sync.            *)
ClaimOf(id) == \E w \in Workers : Claim(w) /\ jobs[id] # jobs'[id]

Fairness ==
    /\ \A w \in Workers : WF_vars(Handle(w))
    /\ \A id \in JobIds : SF_vars(ClaimOf(id)) /\ WF_vars(LeaseLapses(id))

FairSpec == Spec /\ Fairness
-----------------------------------------------------------------------------
TypeOK ==
    /\ review \in [Artifacts -> ReviewStatus]
    /\ pub \in [Artifacts -> PublicationStatus]
    /\ current \in Artifacts \cup {None}
    /\ listing \in {"pending", "listed", "unlisted"}
    /\ repoVersion \in Versions
    /\ consent \in Consent
    /\ objects \subseteq Artifacts
    /\ jobs \in [JobIds -> JobRecord]
    /\ batch \in [Workers -> SUBSET (JobIds \X (1..MaxAttempts))]
    /\ task \in [Workers -> JobIds \cup {None}]
    /\ pc \in [Workers -> Labels]
    /\ tries \in [Workers -> 0..MaxAttempts]
    /\ retry \in [Workers -> BOOLEAN]
    /\ asked \subseteq JobIds \X Versions
    /\ sync \in PluginSnapshot \cup {None}
    /\ happened \in 0..MaxEvents

(* A package reaches the public bucket, or leaves the unpublished state,   *)
(* only under an approval, however old the job that carries it there.      *)
OnlyApprovedIsReleased ==
    \A a \in Artifacts : a \in objects \/ pub[a] # "unpublished" => review[a] = "approved"

Withdrawn == {"revoking", "revoked", "revoke_failed"}

(* The plugin points at a release that is published or being withdrawn,    *)
(* never at one that failed to publish or is revoked.                      *)
PointerIsARelease ==
    current # None => pub[current] \in {"published", "revoking", "revoke_failed"}

(* A revocation that was asked for is never undone by a publish job that   *)
(* was on its way.                                                         *)
RevocationStands ==
    [][\A a \in Artifacts : pub[a] \in Withdrawn => pub'[a] \in Withdrawn]_vars

(* The facts the safety properties rest on.  A job at work is in the       *)
(* queue's table; a handler's step belongs to a job of its type; a publish *)
(* job exists, or is about to, only for an approved artifact; a revoke job *)
(* only for one being withdrawn.                                           *)
WorkIsOnRecord ==
    \A w \in Workers : /\ task[w] # None => ~Absent(task[w])
                       /\ \A b \in batch[w] : ~Absent(b[1])

PublishLabels == {"publish", "stat", "transition", "put", "commit", "mark", "mark_orphan",
                  "orphan"}
RevokeLabels == {"revoke", "revoke_transition", "revoke_delete", "revoke_finish"}

HandlerFitsJob ==
    \A w \in Workers : task[w] # None =>
        /\ pc[w] \in PublishLabels => JobType(task[w]) = "publish"
        /\ pc[w] \in RevokeLabels => JobType(task[w]) = "revoke"

PublishNeedsApproval ==
    \A id \in JobIds : JobType(id) = "publish" /\ ~Absent(id)
                          => review[JobArtifact(id)] = "approved"

RequestsAreApproved ==
    \A request \in asked : /\ JobType(request[1]) = "publish"
                           /\ review[JobArtifact(request[1])] = "approved"

RevokeMeansWithdrawn ==
    \A id \in JobIds : JobType(id) = "revoke" /\ ~Absent(id)
                          => pub[JobArtifact(id)] \in Withdrawn

Inv == /\ TypeOK
       /\ WorkIsOnRecord
       /\ HandlerFitsJob
       /\ PublishNeedsApproval
       /\ RequestsAreApproved
       /\ RevokeMeansWithdrawn
       /\ OnlyApprovedIsReleased
       /\ PointerIsARelease

(* A release is committed only for the version that the repository has now *)
(* and under a CDN consent that is still given, whatever both were when    *)
(* its job was queued or when the worker last looked.                      *)
ReleaseFitsPlugin ==
    [][\A a \in Artifacts : pub[a] # "published" /\ pub'[a] = "published"
          => consent.enabled /\ repoVersion = VersionOf[a]]_vars

(* Every step is a step of the release contract, or none.                  *)
Contract == INSTANCE ReleaseContract
    WITH review <- review, pub <- pub, current <- current
ImplementsContract == Contract!Spec

(* An object nobody refers to is on record: a publish job of its artifact  *)
(* is still open, a worker is still in its handler, or a cleanup job was   *)
(* queued for its key.                                                     *)
Attended(a) ==
    \E w \in Workers : \/ task[w] # None /\ Subject(w) = a
                       \/ \E b \in batch[w] : JobArtifact(b[1]) = a

OpenJob(a, type) ==
    \E id \in JobIds : JobArtifact(id) = a /\ JobType(id) = type /\ ~Settled(id)

OrphanIsOnRecord ==
    \A a \in objects : \/ pub[a] \in {"published", "revoking", "revoke_failed"}
                       \/ Attended(a)
                       \/ OpenJob(a, "publish")
                       \/ ~Absent(<<"cleanup", a, 0>>)

(* While workers live, nothing stays on its way: an artifact in publishing *)
(* leaves it although a status update of its handler may be lost, and      *)
(* every job that was queued comes to its end.                             *)
PublishingEnds == \A a \in Artifacts : pub[a] = "publishing" ~> pub[a] # "publishing"

JobsEnd == \A id \in JobIds : jobs[id].status \in {"queued", "running"} ~> Settled(id)
=============================================================================
