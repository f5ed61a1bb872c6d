----------------------- MODULE ArtifactRelease_proofs -----------------------
(***************************************************************************)
(* Proofs about ArtifactRelease, for any number of artifacts, versions,    *)
(* workers, attempts and events.                                           *)
(***************************************************************************)
EXTENDS ArtifactRelease, TLAPS

(* What the idempotency keys are made of.                                  *)
LEMMA JobIdParts ==
    /\ \A id \in JobIds : JobArtifact(id) \in Artifacts
                          /\ JobType(id) \in {"publish", "revoke", "cleanup"}
    /\ \A a \in Artifacts :
          /\ <<"publish", a, 0>> \in JobIds
          /\ <<"cleanup", a, 0>> \in JobIds
          /\ \A n \in 1..MaxRetries : <<"retry", a, n>> \in JobIds
          /\ \A n \in 1..MaxRevokes : <<"revoke", a, n>> \in JobIds
          /\ \A n \in 0..MaxGeneration : <<"resume", a, n>> \in JobIds
  BY SMT DEF JobIds, JobArtifact, JobType

(* The job records that are written are records of artifact_jobs.          *)
LEMMA JobRecords ==
    /\ NoJob \in JobRecord
    /\ \A v \in Versions \cup {None}, g \in 0..MaxGeneration : NewJob(v, g) \in JobRecord
    /\ \A j \in JobRecord, w \in Workers :
          j.attempts < MaxAttempts => ClaimedJob(j, w) \in JobRecord
    /\ \A j \in JobRecord, s \in {"succeeded", "queued", "failed"} :
          ReturnedJob(j, s) \in JobRecord
  BY ConstantsAssumption DEF NoJob, NewJob, ClaimedJob, ReturnedJob, JobRecord

(* A lease that lapses or comes back, and an owner that dies, leave a job  *)
(* record.                                                                 *)
LEMMA JobRecordUpdates ==
    ASSUME NEW j \in JobRecord
    PROVE  /\ \A b \in BOOLEAN : [j EXCEPT !.leased = b] \in JobRecord
           /\ \A o \in Workers \cup {Gone, None} : [j EXCEPT !.owner = o] \in JobRecord
  BY DEF JobRecord

(* An insertion adds a queued job under a new key, or nothing.             *)
LEMMA InsertIsTyped ==
    ASSUME jobs \in [JobIds -> JobRecord],
           NEW id \in JobIds, NEW v \in Versions \cup {None}, NEW g \in 0..MaxGeneration,
           Insert(id, v, g)
    PROVE  jobs' \in [JobIds -> JobRecord]
  BY JobRecords DEF Insert

(* The variables start within their types.                                 *)
THEOREM InitTypeOK == Init => TypeOK
  BY ConstantsAssumption, JobRecords
     DEF Init, TypeOK, ReviewStatus, PublicationStatus, Consent, Labels

(* Decisions, retries, revocations, consent and listing keep the types.    *)
LEMMA AdministerTypeOK ==
    ASSUME TypeOK, Administer PROVE TypeOK'
  <1> USE DEF TypeOK, pluginVars, workerVars, apiVars
  <1>1. ASSUME NEW a \in Artifacts, Approve(a) PROVE TypeOK'
    <2>1. jobs' \in [JobIds -> JobRecord]
      BY <1>1, JobIdParts, InsertIsTyped DEF Approve, Consent
    <2> QED BY <1>1, <2>1 DEF Approve, ReviewStatus
  <1>2. ASSUME NEW a \in Artifacts, Decline(a) PROVE TypeOK'
    BY <1>2 DEF Decline, ReviewStatus
  <1>3. ASSUME NEW a \in Artifacts, RetryPublish(a) PROVE TypeOK'
    <2>1. PICK n \in 1..MaxRetries : asked' = asked \cup {<<<<"retry", a, n>>, repoVersion>>}
      BY <1>3 DEF RetryPublish
    <2>2. <<"retry", a, n>> \in JobIds
      BY JobIdParts, Zenon
    <2> QED BY <1>3, <2>1, <2>2 DEF RetryPublish
  <1>4. ASSUME NEW a \in Artifacts, CdnResume(a) PROVE TypeOK'
    <2>1. consent.generation \in 0..MaxGeneration
      BY DEF Consent
    <2>2. <<"resume", a, consent.generation>> \in JobIds
      BY <2>1, JobIdParts, Zenon
    <2> QED BY <1>4, <2>2, ConstantsAssumption DEF CdnResume, Happens
  <1>8. ASSUME NEW request \in asked, QueuePublication(request) PROVE TypeOK'
    <2>1. request[1] \in JobIds /\ request[2] \in Versions
      OBVIOUS
    <2>2. jobs' \in [JobIds -> JobRecord]
      BY <1>8, <2>1, InsertIsTyped DEF QueuePublication, Consent
    <2> QED BY <1>8, <2>2 DEF QueuePublication
  <1>5. ASSUME NEW a \in Artifacts, RequestRevoke(a) PROVE TypeOK'
    <2>1. PICK n \in 1..MaxRevokes : Insert(<<"revoke", a, n>>, None, 0)
      BY <1>5 DEF RequestRevoke
    <2>2. 0 \in 0..MaxGeneration
      BY ConstantsAssumption
    <2>3. jobs' \in [JobIds -> JobRecord]
      BY <2>1, <2>2, JobIdParts, InsertIsTyped
    <2> QED BY <1>5, <2>3 DEF RequestRevoke, PublicationStatus
  <1>6. ASSUME ConfigureCdn PROVE TypeOK'
    BY <1>6, ConstantsAssumption DEF ConfigureCdn, Consent
  <1>7. ASSUME NEW status \in {"pending", "listed", "unlisted"}, SetListing(status) PROVE TypeOK'
    BY <1>7, ConstantsAssumption DEF SetListing, Happens
  <1> QED BY <1>1, <1>2, <1>3, <1>4, <1>5, <1>6, <1>7, <1>8 DEF Administer

(* So do claims, leases, crashes, the sync and the start of a handler.     *)
LEMMA QueueTypeOK ==
    ASSUME TypeOK,
           \/ SyncRead \/ SyncWrite
           \/ \E id \in JobIds : LeaseLapses(id)
           \/ \E w \in Workers : Claim(w) \/ RenewLease(w) \/ Crash(w)
    PROVE  TypeOK'
  <1> USE DEF TypeOK, pluginVars, workerVars, apiVars
  <1>1. ASSUME SyncRead PROVE TypeOK'
    BY <1>1, ConstantsAssumption DEF SyncRead, Happens, PluginSnapshot
  <1>2. ASSUME SyncWrite PROVE TypeOK'
    BY <1>2 DEF SyncWrite, PluginSnapshot
  <1>3. ASSUME NEW id \in JobIds, LeaseLapses(id) PROVE TypeOK'
    <2>1. jobs' \in [JobIds -> JobRecord]
      BY <1>3, JobRecordUpdates DEF LeaseLapses
    <2>2. happened' \in 0..MaxEvents
      BY <1>3, ConstantsAssumption DEF LeaseLapses, Happens
    <2> QED BY <1>3, <2>1, <2>2 DEF LeaseLapses
  <1>4. ASSUME NEW w \in Workers, Claim(w) PROVE TypeOK'
    <2>1. PICK taken \in SUBSET {id \in JobIds : Claimable(id)} :
             /\ jobs' = [id \in JobIds |->
                           IF id \in taken THEN ClaimedJob(jobs[id], w) ELSE jobs[id]]
             /\ batch' = [batch EXCEPT ![w] = {<<id, jobs'[id].attempts>> : id \in taken}]
      BY <1>4 DEF Claim
    <2>2. taken \subseteq JobIds /\ \A id \in taken : jobs[id].attempts < MaxAttempts
      BY DEF Claimable
    <2>3. jobs' \in [JobIds -> JobRecord]
      BY <2>1, <2>2, JobRecords
    <2>4. ASSUME NEW id \in taken PROVE jobs'[id].attempts \in 1..MaxAttempts
      <3>1. jobs'[id].attempts = jobs[id].attempts + 1
        BY <2>1, <2>2 DEF ClaimedJob
      <3>2. jobs[id].attempts \in 0..MaxAttempts
        BY <2>2 DEF JobRecord
      <3> QED BY <3>1, <3>2, <2>2, ConstantsAssumption
    <2>5. {<<id, jobs'[id].attempts>> : id \in taken} \in SUBSET (JobIds \X (1..MaxAttempts))
      BY <2>2, <2>4
    <2>6. batch' \in [Workers -> SUBSET (JobIds \X (1..MaxAttempts))]
      BY <2>1, <2>5
    <2> QED BY <1>4, <2>3, <2>6 DEF Claim
  <1>5. ASSUME NEW w \in Workers, RenewLease(w) PROVE TypeOK'
    <2>1. jobs' \in [JobIds -> JobRecord]
      BY <1>5, JobRecordUpdates DEF RenewLease
    <2> QED BY <1>5, <2>1 DEF RenewLease
  <1>6. ASSUME NEW w \in Workers, Crash(w) PROVE TypeOK'
    <2>1. jobs' \in [JobIds -> JobRecord]
      BY <1>6, JobRecordUpdates DEF Crash
    <2>2. happened' \in 0..MaxEvents
      BY <1>6, ConstantsAssumption DEF Crash, Happens
    <2>3. tries' \in [Workers -> 0..MaxAttempts]
      BY <1>6, ConstantsAssumption DEF Crash
    <2> QED BY <1>6, <2>1, <2>2, <2>3 DEF Crash, Labels
  <1> QED BY <1>1, <1>2, <1>3, <1>4, <1>5, <1>6

(* The next label of a handler is a label, also when it raises.            *)
LEMMA GotoIsTyped ==
    ASSUME TypeOK, NEW w \in Workers, NEW label \in Labels,
           \/ Goto(w, label)
           \/ \E r \in BOOLEAN : Raise(w, label, r)
    PROVE  /\ batch' = batch /\ task' = task /\ tries' = tries
           /\ pc' \in [Workers -> Labels]
           /\ retry' \in [Workers -> BOOLEAN]
  BY DEF TypeOK, Goto, Raise

(* A worker that lets go of its job is idle again.                         *)
LEMMA ReleaseIsTyped ==
    ASSUME TypeOK, NEW w \in Workers, Release(w)
    PROVE  /\ batch' = batch
           /\ task' \in [Workers -> JobIds \cup {None}]
           /\ pc' \in [Workers -> Labels]
           /\ tries' \in [Workers -> 0..MaxAttempts]
           /\ retry' \in [Workers -> BOOLEAN]
  BY ConstantsAssumption DEF TypeOK, Release, Labels

(* A suppressed status update leaves a publication status.                 *)
LEMMA AttemptIsTyped ==
    ASSUME TypeOK, NEW a \in Artifacts, NEW status \in PublicationStatus, Attempt(a, status)
    PROVE  /\ pub' \in [Artifacts -> PublicationStatus]
           /\ happened' \in 0..MaxEvents
  BY ConstantsAssumption DEF TypeOK, Attempt, Recorded, Happens

(* An executing worker has a job, and the job an artifact.                 *)
LEMMA ExecutingHasSubject ==
    ASSUME TypeOK, NEW w \in Workers, task[w] # None
    PROVE  /\ task[w] \in JobIds
           /\ Subject(w) \in Artifacts
           /\ JobType(task[w]) \in {"publish", "revoke", "cleanup"}
  BY JobIdParts DEF TypeOK, Subject

(* The steps of _run_publish keep the types.                               *)
LEMMA PublishTypeOK ==
    ASSUME TypeOK, NEW w \in Workers,
           \/ Begin(w) \/ PublishRead(w) \/ PublishStat(w) \/ PublishTransition(w)
           \/ PublishPut(w) \/ PublishCommit(w) \/ MarkPublishFailed(w) \/ EnqueueCleanup(w)
    PROVE  TypeOK'
  <1> USE DEF pluginVars, apiVars
  <1>1. CASE Begin(w)
    <2>1. PICK b \in batch[w] :
             /\ task' = [task EXCEPT ![w] = b[1]]
             /\ tries' = [tries EXCEPT ![w] = b[2]]
             /\ batch' = [batch EXCEPT ![w] = @ \ {b}]
             /\ pc' = [pc EXCEPT ![w] = JobType(b[1])]
      BY <1>1 DEF Begin
    <2>2. b[1] \in JobIds /\ b[2] \in 0..MaxAttempts
      BY ConstantsAssumption DEF TypeOK
    <2>3. JobType(b[1]) \in Labels
      BY <2>2, JobIdParts DEF Labels
    <2>4. batch' \in [Workers -> SUBSET (JobIds \X (1..MaxAttempts))]
      BY <2>1 DEF TypeOK
    <2> QED BY <1>1, <2>1, <2>2, <2>3, <2>4 DEF TypeOK, Begin
  <1>2. CASE PublishRead(w)
    <2>1. \E label \in Labels : Goto(w, label) \/ \E r \in BOOLEAN : Raise(w, label, r)
      BY <1>2 DEF PublishRead, Labels
    <2> QED BY <1>2, <2>1, GotoIsTyped DEF TypeOK, PublishRead
  <1>3. CASE PublishStat(w)
    <2>1. \E label \in Labels : Goto(w, label) \/ \E r \in BOOLEAN : Raise(w, label, r)
      BY <1>3 DEF PublishStat, Labels
    <2> QED BY <1>3, <2>1, GotoIsTyped DEF TypeOK, PublishStat
  <1>4. CASE PublishTransition(w)
    <2>1. \E label \in Labels : Goto(w, label) \/ \E r \in BOOLEAN : Raise(w, label, r)
      BY <1>4 DEF PublishTransition, Labels
    <2>2. pub' \in [Artifacts -> PublicationStatus]
      BY <1>4 DEF TypeOK, PublishTransition, PublicationStatus
    <2> QED BY <1>4, <2>1, <2>2, GotoIsTyped DEF TypeOK, PublishTransition
  <1>5. CASE PublishPut(w)
    <2>1. \E label \in Labels : Goto(w, label) \/ \E r \in BOOLEAN : Raise(w, label, r)
      BY <1>5 DEF PublishPut, Labels
    <2>0. Happens("fault") \/ UNCHANGED happened
      BY <1>5 DEF PublishPut
    <2>2. happened' \in 0..MaxEvents
      BY <2>0, ConstantsAssumption DEF TypeOK, Happens
    <2>3. objects' = objects \/ objects' = objects \cup {Subject(w)}
      BY <1>5 DEF PublishPut
    <2>4. objects' \subseteq Artifacts
      BY <1>5, <2>3, ExecutingHasSubject DEF TypeOK, PublishPut, Executing
    <2> QED BY <1>5, <2>1, <2>2, <2>4, GotoIsTyped DEF TypeOK, PublishPut
  <1>6. CASE PublishCommit(w)
    <2>1. \E label \in Labels : Goto(w, label) \/ \E r \in BOOLEAN : Raise(w, label, r)
      BY <1>6 DEF PublishCommit, Labels
    <2>2. /\ pub' \in [Artifacts -> PublicationStatus]
          /\ current' \in Artifacts \cup {None}
          /\ listing' \in {"pending", "listed", "unlisted"}
      BY <1>6, ExecutingHasSubject DEF TypeOK, PublishCommit, Executing, PublicationStatus
    <2> QED BY <1>6, <2>1, <2>2, GotoIsTyped DEF TypeOK, PublishCommit
  <1>7. CASE MarkPublishFailed(w)
    <2>1. \E label \in Labels : Goto(w, label)
      BY <1>7 DEF MarkPublishFailed, Labels
    <2>2. pub' \in [Artifacts -> PublicationStatus] /\ happened' \in 0..MaxEvents
      BY <1>7, ExecutingHasSubject, AttemptIsTyped
         DEF MarkPublishFailed, Executing, PublicationStatus
    <2> QED BY <1>7, <2>1, <2>2, GotoIsTyped DEF TypeOK, MarkPublishFailed
  <1>8. CASE EnqueueCleanup(w)
    <2>1. Goto(w, "record") /\ "record" \in Labels
      BY <1>8 DEF EnqueueCleanup, Labels
    <2>2. 0 \in 0..MaxGeneration
      BY ConstantsAssumption
    <2>3. jobs' \in [JobIds -> JobRecord]
      BY <1>8, <2>2, ExecutingHasSubject, JobIdParts, InsertIsTyped
         DEF EnqueueCleanup, Executing, TypeOK
    <2> QED BY <1>8, <2>1, <2>3, GotoIsTyped DEF TypeOK, EnqueueCleanup
  <1> QED BY <1>1, <1>2, <1>3, <1>4, <1>5, <1>6, <1>7, <1>8

(* So do those of _run_revoke, _run_cleanup_orphan and the end of a job.   *)
LEMMA RevokeTypeOK ==
    ASSUME TypeOK, NEW w \in Workers,
           \/ RevokeRead(w) \/ RevokeTransition(w) \/ DeleteObject(w) \/ RevokeFinish(w)
           \/ CleanupRead(w) \/ CompleteJob(w) \/ RecordFailure(w) \/ FailJob(w)
    PROVE  TypeOK'
  <1> USE DEF pluginVars, apiVars
  <1>1. CASE RevokeRead(w)
    <2>1. \E label \in Labels : Goto(w, label) \/ \E r \in BOOLEAN : Raise(w, label, r)
      BY <1>1 DEF RevokeRead, Labels
    <2> QED BY <1>1, <2>1, GotoIsTyped DEF TypeOK, RevokeRead
  <1>2. CASE RevokeTransition(w)
    <2>1. \E label \in Labels : Goto(w, label) \/ \E r \in BOOLEAN : Raise(w, label, r)
      BY <1>2 DEF RevokeTransition, Labels
    <2>2. pub' \in [Artifacts -> PublicationStatus]
      BY <1>2 DEF TypeOK, RevokeTransition, PublicationStatus
    <2> QED BY <1>2, <2>1, <2>2, GotoIsTyped DEF TypeOK, RevokeTransition
  <1>3. CASE DeleteObject(w)
    <2>1. \E label \in Labels : Goto(w, label) \/ \E r \in BOOLEAN : Raise(w, label, r)
      BY <1>3 DEF DeleteObject, Labels
    <2>0. Happens("fault") \/ UNCHANGED happened
      BY <1>3 DEF DeleteObject
    <2>2. happened' \in 0..MaxEvents
      BY <2>0, ConstantsAssumption DEF TypeOK, Happens
    <2>3. objects' \subseteq objects
      BY <1>3 DEF DeleteObject
    <2> QED BY <1>3, <2>1, <2>2, <2>3, GotoIsTyped DEF TypeOK, DeleteObject
  <1>4. CASE RevokeFinish(w)
    <2>1. \E label \in Labels : Goto(w, label) \/ \E r \in BOOLEAN : Raise(w, label, r)
      BY <1>4 DEF RevokeFinish, Labels
    <2>2. /\ pub' \in [Artifacts -> PublicationStatus]
          /\ current' \in Artifacts \cup {None}
          /\ listing' \in {"pending", "listed", "unlisted"}
      BY <1>4 DEF TypeOK, RevokeFinish, PublicationStatus
    <2> QED BY <1>4, <2>1, <2>2, GotoIsTyped DEF TypeOK, RevokeFinish
  <1>5. CASE CleanupRead(w)
    <2>1. \E label \in Labels : Goto(w, label)
      BY <1>5 DEF CleanupRead, Labels
    <2> QED BY <1>5, <2>1, GotoIsTyped DEF TypeOK, CleanupRead
  <1>6. CASE CompleteJob(w)
    <2>1. jobs' \in [JobIds -> JobRecord]
      BY <1>6, ExecutingHasSubject, JobRecords DEF TypeOK, CompleteJob, Executing
    <2> QED BY <1>6, <2>1, ReleaseIsTyped DEF TypeOK, CompleteJob
  <1>7. CASE RecordFailure(w)
    <2>1. Goto(w, "fail") /\ "fail" \in Labels
      BY <1>7 DEF RecordFailure, Labels
    <2>2. pub' \in [Artifacts -> PublicationStatus] /\ happened' \in 0..MaxEvents
      <3>1. CASE Attempt(Subject(w), "publish_failed") \/ Attempt(Subject(w), "revoke_failed")
        BY <1>7, <3>1, ExecutingHasSubject, AttemptIsTyped
           DEF RecordFailure, Executing, PublicationStatus
      <3>2. CASE UNCHANGED <<pub, happened>>
        BY <3>2 DEF TypeOK
      <3> QED BY <1>7, <3>1, <3>2 DEF RecordFailure
    <2> QED BY <1>7, <2>1, <2>2, GotoIsTyped DEF TypeOK, RecordFailure
  <1>8. CASE FailJob(w)
    <2>1. jobs' \in [JobIds -> JobRecord]
      BY <1>8, ExecutingHasSubject, JobRecords DEF TypeOK, FailJob, Executing
    <2> QED BY <1>8, <2>1, ReleaseIsTyped DEF TypeOK, FailJob
  <1> QED BY <1>1, <1>2, <1>3, <1>4, <1>5, <1>6, <1>7, <1>8

(* A failing call of a handler records its status update, or does nothing. *)
LEMMA OutageOutcome ==
    ASSUME TypeOK, NEW w \in Workers, Outage(w)
    PROVE  /\ Subject(w) \in Artifacts
           /\ \/ pub' = pub
              \/ /\ ValidPublication(pub[Subject(w)], "publish_failed")
                 /\ pub' = [pub EXCEPT ![Subject(w)] = "publish_failed"]
  BY ExecutingHasSubject DEF Outage, Recorded

(* So does such a failure, every type.                                    *)
LEMMA OutageTypeOK ==
    ASSUME TypeOK, NEW w \in Workers, Outage(w) PROVE TypeOK'
  <1>1. pub' \in [Artifacts -> PublicationStatus]
    BY OutageOutcome DEF TypeOK, PublicationStatus
  <1>2. \E label \in Labels, r \in BOOLEAN : Raise(w, label, r)
    BY DEF Outage, Labels
  <1>3. happened' \in 0..MaxEvents
    BY ConstantsAssumption DEF TypeOK, Outage, Happens
  <1> QED BY <1>1, <1>2, <1>3, GotoIsTyped DEF TypeOK, Outage, pluginVars, apiVars

(* Every variable keeps its type, for all values of the constants.         *)
THEOREM TypeCorrect == Spec => []TypeOK
  <1>1. ASSUME TypeOK, [Next]_vars PROVE TypeOK'
    <2>1. CASE UNCHANGED vars
      BY <1>1, <2>1 DEF vars, TypeOK, pluginVars, workerVars, apiVars
    <2>2. CASE Next
      BY <1>1, <2>2, AdministerTypeOK, QueueTypeOK, PublishTypeOK, RevokeTypeOK, OutageTypeOK
         DEF Next, Handle
    <2> QED BY <1>1, <2>1, <2>2
  <1> QED BY InitTypeOK, <1>1, PTL DEF Spec
-----------------------------------------------------------------------------
(* The release contract.                                                   *)

(* PUBLICATION_TRANSITIONS read backwards: from where each status may be   *)
(* reached, or repeated.                                                   *)
LEMMA TransitionSources ==
    ASSUME NEW from \in PublicationStatus
    PROVE  /\ ValidPublication(from, "publishing")
                 => from \in {"publishing", "unpublished", "publish_failed"}
           /\ ValidPublication(from, "published") => from \in {"published", "publishing"}
           /\ ValidPublication(from, "publish_failed") => from \in {"publish_failed", "publishing"}
           /\ ValidPublication(from, "revoking")
                 => from \in {"revoking", "published", "revoke_failed"}
           /\ ValidPublication(from, "revoked") => from \in {"revoked", "revoking"}
           /\ ValidPublication(from, "revoke_failed") => from \in {"revoke_failed", "revoking"}
  BY DEF ValidPublication, PublicationTransitions, PublicationStatus

(* A suppressed update is a step of the contract whenever the update is.   *)
LEMMA AttemptOutcome ==
    ASSUME NEW a \in Artifacts, NEW status, Attempt(a, status)
    PROVE  \/ pub' = pub
           \/ ValidPublication(pub[a], status) /\ pub' = [pub EXCEPT ![a] = status]
  BY DEF Attempt, Recorded

(* Approve and Decline decide, RequestRevoke starts a withdrawal; the      *)
(* other requests leave review, publication and pointer alone.             *)
LEMMA AdministerImplements ==
    ASSUME Inv, Administer PROVE [Contract!Next]_<<review, pub, current>>
  <1> USE DEF pluginVars, apiVars, Inv
  <1>1. ASSUME NEW a \in Artifacts, Approve(a) \/ Decline(a)
        PROVE  [Contract!Next]_<<review, pub, current>>
    <2>1. Contract!Decide(a)
      BY <1>1 DEF Approve, Decline, Contract!Decide
    <2> QED BY <2>1 DEF Contract!Next
  <1>2. ASSUME \/ \E a \in Artifacts : RetryPublish(a) \/ CdnResume(a)
               \/ \E request \in asked : QueuePublication(request)
        PROVE  UNCHANGED <<review, pub, current>>
    BY <1>2 DEF RetryPublish, CdnResume, QueuePublication
  <1>3. ASSUME NEW a \in Artifacts, RequestRevoke(a)
        PROVE  [Contract!Next]_<<review, pub, current>>
    <2>1. pub[a] \in {"revoking", "published", "revoke_failed"}
      BY <1>3, TransitionSources DEF RequestRevoke, TypeOK
    <2>2. CASE pub[a] = "revoking"
      BY <1>3, <2>2 DEF RequestRevoke, TypeOK
    <2>3. CASE pub[a] # "revoking"
      <3>1. Contract!StartWithdrawal(a)
        BY <1>3, <2>1, <2>3 DEF RequestRevoke, Contract!StartWithdrawal
      <3> QED BY <3>1 DEF Contract!Next
    <2> QED BY <2>2, <2>3
  <1>4. ASSUME ConfigureCdn \/ \E status \in {"pending", "listed", "unlisted"} : SetListing(status)
        PROVE  UNCHANGED <<review, pub, current>>
    BY <1>4 DEF ConfigureCdn, SetListing
  <1> QED BY <1>1, <1>2, <1>3, <1>4 DEF Administer

(* A handler step starts, commits or fails a publication or a withdrawal   *)
(* of its artifact, as the contract allows, or leaves both alone.          *)
LEMMA HandleImplements ==
    ASSUME Inv, NEW w \in Workers, Handle(w)
    PROVE  [Contract!Next]_<<review, pub, current>>
  <1> USE DEF pluginVars, apiVars, Inv
  <1> DEFINE a == Subject(w)
  <1>1. ASSUME task[w] # None
        PROVE  /\ a \in Artifacts /\ pub[a] \in PublicationStatus
               /\ pc[w] \in PublishLabels => review[a] = "approved"
               /\ pc[w] \in RevokeLabels => pub[a] \in Withdrawn
    BY <1>1, ExecutingHasSubject
       DEF TypeOK, WorkIsOnRecord, HandlerFitsJob, PublishNeedsApproval, RevokeMeansWithdrawn,
           Subject
  <1>2. CASE PublishTransition(w)
    <2>1. task[w] # None /\ pc[w] = "transition"
      BY <1>2 DEF PublishTransition, Executing
    <2>2. review[a] = "approved"
      BY <1>1, <2>1 DEF PublishLabels
    <2>3. CASE pub' = pub
      BY <1>2, <2>3 DEF PublishTransition
    <2>4. CASE pub' # pub
      <3>1. ValidPublication(pub[a], "publishing") /\ pub' = [pub EXCEPT ![a] = "publishing"]
        BY <1>2, <2>4 DEF PublishTransition
      <3>2. pub[a] \in {"unpublished", "publish_failed"}
        BY <3>1, <2>4, <1>1, <2>1, TransitionSources DEF TypeOK
      <3>3. Contract!StartPublishing(a)
        BY <1>2, <2>2, <3>1, <3>2 DEF PublishTransition, Contract!StartPublishing
      <3> QED BY <3>3, <1>1, <2>1 DEF Contract!Next
    <2> QED BY <2>3, <2>4
  <1>3. CASE PublishCommit(w)
    <2>1. task[w] # None
      BY <1>3 DEF PublishCommit, Executing
    <2>2. CASE UNCHANGED <<pub, current>>
      BY <1>3, <2>2 DEF PublishCommit
    <2>3. CASE ~UNCHANGED <<pub, current>>
      <3>1. CommitAllowed(w) /\ pub' = [pub EXCEPT ![a] = "published"] /\ current' = a
        BY <1>3, <2>3 DEF PublishCommit
      <3>2. pub[a] \in {"published", "publishing"}
        BY <3>1, <1>1, <2>1, TransitionSources DEF CommitAllowed
      <3>3. Contract!Release(a)
        BY <1>3, <3>1, <3>2 DEF PublishCommit, Contract!Release
      <3> QED BY <3>3, <1>1, <2>1 DEF Contract!Next
    <2> QED BY <2>2, <2>3
  <1>4. ASSUME task[w] # None, Attempt(a, "publish_failed"), UNCHANGED <<review, current>>
        PROVE  [Contract!Next]_<<review, pub, current>>
    <2>1. CASE pub' = pub
      BY <1>4, <2>1
    <2>2. CASE pub' # pub
      <3>1. ValidPublication(pub[a], "publish_failed") /\ pub' = [pub EXCEPT ![a] = "publish_failed"]
        BY <1>1, <1>4, <2>2, AttemptOutcome
      <3>2. pub[a] = "publishing"
        BY <3>1, <2>2, <1>1, <1>4, TransitionSources DEF TypeOK
      <3>3. Contract!FailToPublish(a)
        BY <1>4, <3>1, <3>2 DEF Contract!FailToPublish
      <3> QED BY <3>3, <1>1, <1>4 DEF Contract!Next
    <2> QED BY <2>1, <2>2
  <1>5. CASE MarkPublishFailed(w)
    <2>1. task[w] # None /\ Attempt(a, "publish_failed") /\ UNCHANGED <<review, current>>
      BY <1>5 DEF MarkPublishFailed, Executing
    <2> QED BY <2>1, <1>4
  <1>6. CASE RecordFailure(w)
    <2>1. task[w] # None /\ UNCHANGED <<review, current>>
      BY <1>6 DEF RecordFailure, Executing
    <2>2. CASE Attempt(a, "publish_failed")
      BY <2>1, <2>2, <1>4
    <2>3. CASE pub[a] = "revoking" /\ Attempt(a, "revoke_failed")
      <3>1. pub' = pub \/ pub' = [pub EXCEPT ![a] = "revoke_failed"]
        BY <1>1, <2>1, <2>3, AttemptOutcome
      <3>2. CASE pub' = [pub EXCEPT ![a] = "revoke_failed"]
        <4>1. Contract!FailToWithdraw(a)
          BY <2>1, <2>3, <3>2 DEF Contract!FailToWithdraw
        <4> QED BY <4>1, <1>1, <2>1 DEF Contract!Next
      <3> QED BY <2>1, <3>1, <3>2
    <2>4. CASE UNCHANGED <<pub, happened>>
      BY <2>1, <2>4
    <2> QED BY <1>6, <2>2, <2>3, <2>4 DEF RecordFailure
  <1>7. CASE RevokeTransition(w)
    <2>1. task[w] # None /\ pc[w] = "revoke_transition"
      BY <1>7 DEF RevokeTransition, Executing
    <2>2. CASE pub' = pub
      BY <1>7, <2>2 DEF RevokeTransition
    <2>3. CASE pub' # pub
      <3>1. ValidPublication(pub[a], "revoking") /\ pub' = [pub EXCEPT ![a] = "revoking"]
        BY <1>7, <2>3 DEF RevokeTransition
      <3>2. pub[a] = "revoke_failed"
        BY <3>1, <2>3, <1>1, <2>1, TransitionSources DEF TypeOK, RevokeLabels, Withdrawn
      <3>3. Contract!StartWithdrawal(a)
        BY <1>7, <3>1, <3>2 DEF RevokeTransition, Contract!StartWithdrawal
      <3> QED BY <3>3, <1>1, <2>1 DEF Contract!Next
    <2> QED BY <2>2, <2>3
  <1>8. CASE RevokeFinish(w)
    <2>1. task[w] # None
      BY <1>8 DEF RevokeFinish, Executing
    <2>2. CASE UNCHANGED <<pub, current>>
      BY <1>8, <2>2 DEF RevokeFinish
    <2>3. CASE ~UNCHANGED <<pub, current>>
      <3>1. /\ ValidPublication(pub[a], "revoked")
            /\ pub' = [pub EXCEPT ![a] = "revoked"]
            /\ current' = IF current = a THEN None ELSE current
        BY <1>8, <2>3 DEF RevokeFinish
      <3>2. pub[a] = "revoked" => current # a
        BY <1>1, <2>1, ConstantsAssumption DEF PointerIsARelease
      <3>3. pub[a] = "revoking"
        BY <3>1, <3>2, <2>3, <1>1, <2>1, TransitionSources DEF TypeOK
      <3>4. Contract!FinishWithdrawal(a)
        BY <1>8, <3>1, <3>3 DEF RevokeFinish, Contract!FinishWithdrawal
      <3> QED BY <3>4, <1>1, <2>1 DEF Contract!Next
    <2> QED BY <2>2, <2>3
  <1>9. CASE \/ Begin(w) \/ PublishRead(w) \/ PublishStat(w) \/ PublishPut(w)
             \/ EnqueueCleanup(w) \/ RevokeRead(w) \/ DeleteObject(w) \/ CleanupRead(w)
             \/ CompleteJob(w) \/ FailJob(w)
    BY <1>9 DEF Begin, PublishRead, PublishStat, PublishPut, EnqueueCleanup, RevokeRead,
                DeleteObject, CleanupRead, CompleteJob, FailJob
  <1> QED BY <1>2, <1>3, <1>5, <1>6, <1>7, <1>8, <1>9 DEF Handle

(* Every step of the code's model is a step of the contract, or none.      *)
LEMMA StepImplements ==
    ASSUME Inv, [Next]_vars PROVE [Contract!Next]_<<review, pub, current>>
  <1>1. CASE UNCHANGED vars
    BY <1>1 DEF vars, pluginVars
  <1>2. CASE Administer
    BY <1>2, AdministerImplements
  <1>3. CASE \E w \in Workers : Handle(w)
    BY <1>3, HandleImplements
  <1>4. CASE \/ SyncRead \/ SyncWrite
             \/ \E id \in JobIds : LeaseLapses(id)
             \/ \E w \in Workers : Claim(w) \/ RenewLease(w) \/ Crash(w)
    BY <1>4 DEF SyncRead, SyncWrite, LeaseLapses, Claim, RenewLease, Crash, pluginVars
  <1>5. ASSUME NEW w \in Workers, Outage(w) PROVE [Contract!Next]_<<review, pub, current>>
    <2>1. UNCHANGED <<review, current>>
      BY <1>5 DEF Outage, pluginVars
    <2>2. CASE pub' = pub
      BY <2>1, <2>2
    <2>3. CASE pub' # pub
      <3>1. /\ Subject(w) \in Artifacts
            /\ ValidPublication(pub[Subject(w)], "publish_failed")
            /\ pub' = [pub EXCEPT ![Subject(w)] = "publish_failed"]
        BY <1>5, <2>3, OutageOutcome DEF Inv
      <3>2. pub[Subject(w)] = "publishing"
        BY <2>3, <3>1, TransitionSources DEF Inv, TypeOK
      <3>3. Contract!FailToPublish(Subject(w))
        BY <2>1, <3>1, <3>2 DEF Contract!FailToPublish
      <3> QED BY <3>1, <3>3 DEF Contract!Next
    <2> QED BY <2>2, <2>3
  <1> QED BY <1>1, <1>2, <1>3, <1>4, <1>5 DEF Next
-----------------------------------------------------------------------------
(* The inductive invariant.                                                *)

(* What a step of the contract leaves true of approvals, withdrawals and   *)
(* the pointer.                                                            *)
LEMMA ContractStep ==
    ASSUME TypeOK, PointerIsARelease, [Contract!Next]_<<review, pub, current>>
    PROVE  /\ \A a \in Artifacts : review[a] = "approved" => review'[a] = "approved"
           /\ \A a \in Artifacts : pub[a] \in Withdrawn => pub'[a] \in Withdrawn
           /\ \A a \in Artifacts : pub[a] = "unpublished" /\ pub'[a] # "unpublished"
                                    => review[a] = "approved"
           /\ PointerIsARelease'
  <1> USE DEF TypeOK, PointerIsARelease, Withdrawn
  <1>1. CASE UNCHANGED <<review, pub, current>>
    BY <1>1
  <1>2. ASSUME NEW b \in Artifacts, Contract!Decide(b)
        PROVE  /\ \A a \in Artifacts : review[a] = "approved" => review'[a] = "approved"
               /\ UNCHANGED <<pub, current>>
    BY <1>2 DEF Contract!Decide
  <1>3. ASSUME NEW b \in Artifacts,
               \/ Contract!StartPublishing(b) \/ Contract!FailToPublish(b) \/ Contract!Release(b)
        PROVE  /\ UNCHANGED review
               /\ \A a \in Artifacts : pub[a] \in Withdrawn => pub'[a] \in Withdrawn
               /\ \A a \in Artifacts : pub[a] = "unpublished" /\ pub'[a] # "unpublished"
                                        => review[a] = "approved"
               /\ PointerIsARelease'
    BY <1>3, ConstantsAssumption
       DEF Contract!StartPublishing, Contract!FailToPublish, Contract!Release
  <1>4. ASSUME NEW b \in Artifacts,
               \/ Contract!StartWithdrawal(b) \/ Contract!FinishWithdrawal(b)
               \/ Contract!FailToWithdraw(b)
        PROVE  /\ UNCHANGED review
               /\ \A a \in Artifacts : pub[a] \in Withdrawn => pub'[a] \in Withdrawn
               /\ \A a \in Artifacts : pub[a] = "unpublished" /\ pub'[a] # "unpublished"
                                        => review[a] = "approved"
               /\ PointerIsARelease'
    BY <1>4, ConstantsAssumption
       DEF Contract!StartWithdrawal, Contract!FinishWithdrawal, Contract!FailToWithdraw
  <1> QED BY <1>1, <1>2, <1>3, <1>4 DEF Contract!Next

(* A job stays in the queue's table, and a new one is a publish job of an  *)
(* approved artifact, a revoke job of one that has become "revoking", or a *)
(* cleanup.                                                                *)
NewJobIsDue(id) ==
    \/ JobType(id) = "publish" /\ review'[JobArtifact(id)] = "approved"
    \/ JobType(id) = "revoke" /\ pub'[JobArtifact(id)] = "revoking"
    \/ JobType(id) = "cleanup"

JobsGrow == \A id \in JobIds : /\ ~Absent(id) => ~Absent(id)'
                               /\ ~Absent(id)' => ~Absent(id) \/ NewJobIsDue(id)

(* Inserting a due key adds at most that job.                              *)
LEMMA InsertGrows ==
    ASSUME TypeOK, NEW id \in JobIds, NEW v, NEW g, Insert(id, v, g), NewJobIsDue(id)
    PROVE  JobsGrow
  <1>1. \A i \in JobIds : /\ ~Absent(i) => ~Absent(i)'
                          /\ ~Absent(i)' => ~Absent(i) \/ i = id
    BY DEF TypeOK, Insert, Absent, NewJob
  <1>2. ASSUME NEW i \in JobIds, i = id PROVE NewJobIsDue(i)
    BY <1>2
  <1> QED BY <1>1, <1>2 DEF JobsGrow

(* The job type and the artifact of each idempotency key.                  *)
LEMMA KeyTypes ==
    \A a \in Artifacts, n \in Nat :
        /\ JobType(<<"publish", a, n>>) = "publish" /\ JobArtifact(<<"publish", a, n>>) = a
        /\ JobType(<<"retry", a, n>>) = "publish" /\ JobArtifact(<<"retry", a, n>>) = a
        /\ JobType(<<"resume", a, n>>) = "publish" /\ JobArtifact(<<"resume", a, n>>) = a
        /\ JobType(<<"revoke", a, n>>) = "revoke" /\ JobArtifact(<<"revoke", a, n>>) = a
        /\ JobType(<<"cleanup", a, n>>) = "cleanup" /\ JobArtifact(<<"cleanup", a, n>>) = a
  BY DEF JobType, JobArtifact

(* The jobs that administrators and the CDN task queue are due.            *)
LEMMA AdministerGrows ==
    ASSUME Inv, Administer PROVE JobsGrow
  <1> USE DEF Inv, pluginVars, apiVars
  <1>1. ASSUME NEW a \in Artifacts, Approve(a) PROVE JobsGrow
    <2>1. Insert(<<"publish", a, 0>>, repoVersion, consent.generation) /\ review'[a] = "approved"
      BY <1>1 DEF Approve, TypeOK
    <2>2. NewJobIsDue(<<"publish", a, 0>>)
      BY <2>1, KeyTypes DEF NewJobIsDue
    <2> QED BY <2>1, <2>2, InsertGrows, JobIdParts
  <1>2. ASSUME NEW request \in asked, QueuePublication(request) PROVE JobsGrow
    <2>1. /\ Insert(request[1], request[2], consent.generation)
          /\ review' = review
      BY <1>2 DEF QueuePublication
    <2>2. request[1] \in JobIds
      BY DEF TypeOK
    <2>3. NewJobIsDue(request[1])
      BY <2>1 DEF NewJobIsDue, RequestsAreApproved
    <2> QED BY <2>1, <2>2, <2>3, InsertGrows
  <1>4. ASSUME NEW a \in Artifacts, RequestRevoke(a) PROVE JobsGrow
    <2>1. PICK n \in 1..MaxRevokes : Insert(<<"revoke", a, n>>, None, 0)
      BY <1>4 DEF RequestRevoke
    <2>2. pub'[a] = "revoking"
      BY <1>4 DEF RequestRevoke, TypeOK
    <2>3. <<"revoke", a, n>> \in JobIds
      BY JobIdParts, Zenon
    <2>5. n \in Nat
      OBVIOUS
    <2>4. NewJobIsDue(<<"revoke", a, n>>)
      BY <2>2, <2>5, KeyTypes DEF NewJobIsDue
    <2> QED BY <2>1, <2>3, <2>4, InsertGrows
  <1>5. ASSUME jobs' = jobs PROVE JobsGrow
    BY <1>5 DEF JobsGrow, Absent
  <1>6. ASSUME \/ \E a \in Artifacts : Decline(a) \/ RetryPublish(a) \/ CdnResume(a)
               \/ ConfigureCdn
               \/ \E status \in {"pending", "listed", "unlisted"} : SetListing(status)
        PROVE  jobs' = jobs
    BY <1>6 DEF Decline, RetryPublish, CdnResume, ConfigureCdn, SetListing
  <1> QED BY <1>1, <1>2, <1>4, <1>5, <1>6 DEF Administer

(* The jobs that handlers queue are due: cleanups only.                    *)
LEMMA WorkerGrows ==
    ASSUME Inv,
           \/ SyncRead \/ SyncWrite
           \/ \E id \in JobIds : LeaseLapses(id)
           \/ \E w \in Workers : Claim(w) \/ Handle(w) \/ Outage(w) \/ RenewLease(w) \/ Crash(w)
    PROVE  JobsGrow
  <1> USE DEF Inv
  <1>1. ASSUME jobs' = jobs PROVE JobsGrow
    BY <1>1 DEF JobsGrow, Absent
  <1>2. ASSUME \A id \in JobIds : jobs'[id].status = jobs[id].status PROVE JobsGrow
    BY <1>2 DEF JobsGrow, Absent
  <1>3. CASE SyncRead \/ SyncWrite
    BY <1>1, <1>3 DEF SyncRead, SyncWrite
  <1>4. ASSUME NEW id \in JobIds, LeaseLapses(id) PROVE JobsGrow
    BY <1>2, <1>4 DEF LeaseLapses, TypeOK, JobRecord
  <1>5. ASSUME NEW w \in Workers, Claim(w) PROVE JobsGrow
    <2>1. PICK taken \in SUBSET {id \in JobIds : Claimable(id)} :
             jobs' = [id \in JobIds |-> IF id \in taken THEN ClaimedJob(jobs[id], w) ELSE jobs[id]]
      BY <1>5 DEF Claim
    <2>2. \A id \in taken : ~Absent(id)
      BY DEF Claimable, Absent
    <2> QED BY <2>1, <2>2 DEF JobsGrow, Absent, ClaimedJob
  <1>6. ASSUME NEW w \in Workers, RenewLease(w) PROVE JobsGrow
    BY <1>2, <1>6 DEF RenewLease, TypeOK, JobRecord
  <1>7. ASSUME NEW w \in Workers, Crash(w) PROVE JobsGrow
    BY <1>2, <1>7 DEF Crash, TypeOK, JobRecord
  <1>8. ASSUME NEW w \in Workers, EnqueueCleanup(w) PROVE JobsGrow
    <2>1. Subject(w) \in Artifacts /\ Insert(<<"cleanup", Subject(w), 0>>, None, 0)
      BY <1>8, ExecutingHasSubject DEF EnqueueCleanup, Executing
    <2>2. NewJobIsDue(<<"cleanup", Subject(w), 0>>)
      BY <2>1, KeyTypes DEF NewJobIsDue
    <2> QED BY <2>1, <2>2, InsertGrows, JobIdParts
  <1>9. ASSUME NEW w \in Workers, CompleteJob(w) \/ FailJob(w) PROVE JobsGrow
    <2>1. \/ jobs' = jobs
          \/ \E s \in {"succeeded", "queued", "failed"} :
                jobs' = [jobs EXCEPT ![task[w]] = ReturnedJob(@, s)]
      BY <1>9 DEF CompleteJob, FailJob
    <2>2. task[w] \in JobIds /\ ~Absent(task[w])
      BY <1>9, ExecutingHasSubject DEF CompleteJob, FailJob, Executing, WorkIsOnRecord
    <2>3. ASSUME NEW s \in {"succeeded", "queued", "failed"},
                 jobs' = [jobs EXCEPT ![task[w]] = ReturnedJob(@, s)]
          PROVE  JobsGrow
      BY <2>2, <2>3 DEF JobsGrow, Absent, ReturnedJob, TypeOK
    <2> QED BY <2>1, <2>3, <1>1
  <1>10. ASSUME NEW w \in Workers,
                \/ Begin(w) \/ PublishRead(w) \/ PublishStat(w) \/ PublishTransition(w)
                \/ PublishPut(w) \/ PublishCommit(w) \/ MarkPublishFailed(w) \/ RevokeRead(w)
                \/ RevokeTransition(w) \/ DeleteObject(w) \/ RevokeFinish(w) \/ CleanupRead(w)
                \/ RecordFailure(w) \/ Outage(w)
         PROVE  JobsGrow
    <2>1. jobs' = jobs
      BY <1>10 DEF Begin, PublishRead, PublishStat, PublishTransition, PublishPut, PublishCommit,
                   MarkPublishFailed, RevokeRead, RevokeTransition, DeleteObject, RevokeFinish,
                   CleanupRead, RecordFailure, Outage
    <2> QED BY <2>1, <1>1
  <1> QED BY <1>3, <1>4, <1>5, <1>6, <1>7, <1>8, <1>9, <1>10 DEF Handle

(* A worker's handler moves among the labels of its own job's type.        *)
LEMMA ControlStep ==
    ASSUME Inv, JobsGrow, NEW w \in Workers, Handle(w)
    PROVE  WorkIsOnRecord' /\ HandlerFitsJob'
  <1> USE DEF Inv
  <1>1. CASE Begin(w)
    <2>1. PICK b \in batch[w] :
             /\ task' = [task EXCEPT ![w] = b[1]]
             /\ batch' = [batch EXCEPT ![w] = @ \ {b}]
             /\ pc' = [pc EXCEPT ![w] = JobType(b[1])]
      BY <1>1 DEF Begin
    <2>2. b[1] \in JobIds /\ ~Absent(b[1])
      BY DEF TypeOK, WorkIsOnRecord
    <2>3. jobs' = jobs
      BY <1>1 DEF Begin
    <2>4. WorkIsOnRecord'
      BY <2>1, <2>2, <2>3 DEF WorkIsOnRecord, TypeOK, Absent
    <2>5. JobType(b[1]) \in {"publish", "revoke", "cleanup"}
      BY <2>2, JobIdParts
    <2>6. HandlerFitsJob'
      BY <2>1, <2>5 DEF HandlerFitsJob, TypeOK, PublishLabels, RevokeLabels
    <2> QED BY <2>4, <2>6
  <1>2. ASSUME task[w] # None, UNCHANGED <<task, batch>>,
               NEW label \in Labels, pc' = [pc EXCEPT ![w] = label],
               label \in PublishLabels => pc[w] \in PublishLabels,
               label \in RevokeLabels => pc[w] \in RevokeLabels
        PROVE  WorkIsOnRecord' /\ HandlerFitsJob'
    <2>1. \A id \in JobIds : ~Absent(id) => ~Absent(id)'
      BY DEF JobsGrow
    <2>2. \A v \in Workers : batch[v] \in SUBSET (JobIds \X (1..MaxAttempts))
                            /\ (task[v] # None => task[v] \in JobIds)
      BY DEF TypeOK
    <2>3. \A v \in Workers : \A b \in batch[v] : b[1] \in JobIds
      BY <2>2
    <2>4. WorkIsOnRecord'
      BY <1>2, <2>1, <2>2, <2>3 DEF WorkIsOnRecord, Absent
    <2>5. HandlerFitsJob'
      BY <1>2 DEF HandlerFitsJob, TypeOK
    <2> QED BY <2>4, <2>5
  <1>3. CASE CompleteJob(w) \/ FailJob(w)
    <2>1. Release(w)
      BY <1>3 DEF CompleteJob, FailJob
    <2>2. \A id \in JobIds : ~Absent(id) => ~Absent(id)'
      BY DEF JobsGrow
    <2>3. \A v \in Workers : \A b \in batch[v] : b[1] \in JobIds
      BY DEF TypeOK
    <2>4. WorkIsOnRecord'
      BY <2>1, <2>2, <2>3 DEF WorkIsOnRecord, TypeOK, Release, Absent
    <2>5. HandlerFitsJob'
      BY <2>1 DEF HandlerFitsJob, TypeOK, Release
    <2> QED BY <2>4, <2>5
  <1>4. CASE \/ PublishRead(w) \/ PublishStat(w) \/ PublishTransition(w) \/ PublishPut(w)
             \/ PublishCommit(w) \/ MarkPublishFailed(w) \/ EnqueueCleanup(w)
    <2>1. task[w] # None /\ UNCHANGED <<task, batch>> /\ pc[w] \in PublishLabels
      BY <1>4 DEF PublishRead, PublishStat, PublishTransition, PublishPut, PublishCommit,
                  MarkPublishFailed, EnqueueCleanup, Executing, Goto, Raise, PublishLabels
    <2>2. \E label \in PublishLabels \cup {"complete", "record"} : pc' = [pc EXCEPT ![w] = label]
      BY <1>4 DEF PublishRead, PublishStat, PublishTransition, PublishPut, PublishCommit,
                  MarkPublishFailed, EnqueueCleanup, Goto, Raise, PublishLabels
    <2> QED BY <1>2, <2>1, <2>2 DEF PublishLabels, RevokeLabels, Labels
  <1>5. CASE RevokeRead(w) \/ RevokeTransition(w) \/ RevokeFinish(w)
    <2>1. task[w] # None /\ UNCHANGED <<task, batch>> /\ pc[w] \in RevokeLabels
      BY <1>5 DEF RevokeRead, RevokeTransition, RevokeFinish, Executing, Goto, Raise, RevokeLabels
    <2>2. \E label \in RevokeLabels \cup {"complete", "record"} : pc' = [pc EXCEPT ![w] = label]
      BY <1>5 DEF RevokeRead, RevokeTransition, RevokeFinish, Goto, Raise, RevokeLabels
    <2> QED BY <1>2, <2>1, <2>2 DEF PublishLabels, RevokeLabels, Labels
  <1>6. CASE DeleteObject(w)
    <2>1. task[w] # None /\ UNCHANGED <<task, batch>>
      BY <1>6 DEF DeleteObject, Executing, Goto, Raise
    <2>2. \/ pc[w] = "revoke_delete" /\ pc' = [pc EXCEPT ![w] = "revoke_finish"]
          \/ pc' = [pc EXCEPT ![w] = "complete"]
          \/ pc' = [pc EXCEPT ![w] = "record"]
      BY <1>6 DEF DeleteObject, Goto, Raise
    <2> QED BY <1>2, <2>1, <2>2 DEF PublishLabels, RevokeLabels, Labels
  <1>7. CASE CleanupRead(w) \/ RecordFailure(w)
    <2>1. task[w] # None /\ UNCHANGED <<task, batch>>
      BY <1>7 DEF CleanupRead, RecordFailure, Executing, Goto
    <2>2. \E label \in {"complete", "cleanup_delete", "fail"} : pc' = [pc EXCEPT ![w] = label]
      BY <1>7 DEF CleanupRead, RecordFailure, Goto
    <2> QED BY <1>2, <2>1, <2>2 DEF PublishLabels, RevokeLabels, Labels
  <1> QED BY <1>1, <1>3, <1>4, <1>5, <1>6, <1>7 DEF Handle

(* Jobs at work stay on record, and a step belongs to a job of its type.   *)
LEMMA WorkStep ==
    ASSUME Inv, JobsGrow, Next PROVE WorkIsOnRecord' /\ HandlerFitsJob'
  <1> USE DEF Inv
  <1>1. \A id \in JobIds : ~Absent(id) => ~Absent(id)'
    BY DEF JobsGrow
  <1>2. \A v \in Workers : \A b \in batch[v] : b[1] \in JobIds
    BY DEF TypeOK
  <1>3. ASSUME UNCHANGED workerVars PROVE WorkIsOnRecord' /\ HandlerFitsJob'
    <2>1. WorkIsOnRecord'
      BY <1>1, <1>2, <1>3 DEF WorkIsOnRecord, TypeOK, workerVars, Absent
    <2>2. HandlerFitsJob'
      BY <1>3 DEF HandlerFitsJob, workerVars
    <2> QED BY <2>1, <2>2
  <1>4. CASE \/ Administer \/ SyncRead \/ SyncWrite
             \/ \E id \in JobIds : LeaseLapses(id)
             \/ \E w \in Workers : RenewLease(w)
    <2>1. UNCHANGED workerVars
      BY <1>4 DEF Administer, Approve, Decline, RetryPublish, CdnResume, QueuePublication, RequestRevoke,
                  ConfigureCdn, SetListing, SyncRead, SyncWrite, LeaseLapses, RenewLease
    <2> QED BY <2>1, <1>3
  <1>5. ASSUME NEW w \in Workers, Claim(w) PROVE WorkIsOnRecord' /\ HandlerFitsJob'
    <2>1. PICK taken \in SUBSET {id \in JobIds : Claimable(id)} :
             batch' = [batch EXCEPT ![w] = {<<id, jobs'[id].attempts>> : id \in taken}]
      BY <1>5 DEF Claim
    <2>2. \A id \in taken : id \in JobIds /\ ~Absent(id)
      BY DEF Claimable, Absent
    <2>3. \A v \in Workers : \A b \in batch'[v] : b[1] \in JobIds /\ ~Absent(b[1])
      BY <1>2, <2>1, <2>2 DEF TypeOK, WorkIsOnRecord
    <2>4. UNCHANGED <<task, pc>>
      BY <1>5 DEF Claim
    <2>5. WorkIsOnRecord'
      BY <1>1, <2>3, <2>4 DEF WorkIsOnRecord, TypeOK, Absent
    <2>6. HandlerFitsJob'
      BY <2>4 DEF HandlerFitsJob
    <2> QED BY <2>5, <2>6
  <1>6. ASSUME NEW w \in Workers, Crash(w) PROVE WorkIsOnRecord' /\ HandlerFitsJob'
    <2>1. /\ batch' = [batch EXCEPT ![w] = {}]
          /\ task' = [task EXCEPT ![w] = None]
          /\ pc' = [pc EXCEPT ![w] = "idle"]
      BY <1>6 DEF Crash
    <2>2. WorkIsOnRecord'
      BY <1>1, <1>2, <2>1 DEF WorkIsOnRecord, TypeOK, Absent
    <2>3. HandlerFitsJob'
      BY <2>1 DEF HandlerFitsJob, TypeOK
    <2> QED BY <2>2, <2>3
  <1>7. ASSUME NEW w \in Workers, Outage(w) PROVE WorkIsOnRecord' /\ HandlerFitsJob'
    <2>1. UNCHANGED <<task, batch>>
      BY <1>7 DEF Outage, Raise
    <2>2. WorkIsOnRecord'
      BY <1>1, <1>2, <2>1 DEF WorkIsOnRecord, TypeOK, Absent
    <2>3. \/ pc' = [pc EXCEPT ![w] = "record"]
          \/ pc[w] = "commit" /\ pc' = [pc EXCEPT ![w] = "mark_orphan"]
      BY <1>7 DEF Outage, Raise
    <2>4. HandlerFitsJob'
      BY <2>1, <2>3 DEF HandlerFitsJob, TypeOK, PublishLabels, RevokeLabels
    <2> QED BY <2>2, <2>4
  <1> QED BY <1>4, <1>5, <1>6, <1>7, ControlStep DEF Next

(* The package in the bucket: put there by a publish job only.             *)
LEMMA ObjectsStep ==
    ASSUME Inv, Next
    PROVE  \A a \in objects' : a \in objects \/ (a \in Artifacts /\ review[a] = "approved")
  <1>1. ASSUME NEW w \in Workers, PublishPut(w)
        PROVE  \A a \in objects' : a \in objects \/ (a \in Artifacts /\ review[a] = "approved")
    <2>1. objects' = objects \/ objects' = objects \cup {Subject(w)}
      BY <1>1 DEF PublishPut
    <2>2. pc[w] = "put" /\ task[w] # None
      BY <1>1 DEF PublishPut, Executing
    <2>3. JobType(task[w]) = "publish" /\ ~Absent(task[w])
      BY <2>2 DEF Inv, HandlerFitsJob, WorkIsOnRecord, PublishLabels
    <2>4. Subject(w) \in Artifacts /\ review[Subject(w)] = "approved"
      BY <2>2, <2>3, ExecutingHasSubject DEF Inv, PublishNeedsApproval, Subject
    <2> QED BY <2>1, <2>4
  <1>2. ASSUME NEW w \in Workers, Handle(w), ~PublishPut(w) PROVE objects' \subseteq objects
    BY <1>2 DEF Handle, Begin, PublishRead, PublishStat, PublishTransition, PublishCommit,
                MarkPublishFailed, EnqueueCleanup, RevokeRead, RevokeTransition, DeleteObject,
                RevokeFinish, CleanupRead, CompleteJob, RecordFailure, FailJob
  <1>3. ASSUME \/ Administer \/ SyncRead \/ SyncWrite
               \/ \E id \in JobIds : LeaseLapses(id)
               \/ \E w \in Workers : Claim(w) \/ Outage(w) \/ RenewLease(w) \/ Crash(w)
        PROVE  objects' = objects
    BY <1>3 DEF Administer, Approve, Decline, RetryPublish, CdnResume, QueuePublication, RequestRevoke,
                ConfigureCdn, SetListing, SyncRead, SyncWrite, LeaseLapses, Claim, Outage, RenewLease,
                Crash
  <1> QED BY <1>1, <1>2, <1>3 DEF Next

(* What is about to be queued was checked on an approved artifact.         *)
LEMMA RequestsStep ==
    ASSUME Inv, Next,
           \A a \in Artifacts : review[a] = "approved" => review'[a] = "approved"
    PROVE  RequestsAreApproved'
  <1> USE DEF Inv, RequestsAreApproved
  <1>1. \A request \in asked : JobArtifact(request[1]) \in Artifacts
    BY JobIdParts DEF TypeOK
  <1>2. ASSUME asked' \subseteq asked PROVE RequestsAreApproved'
    BY <1>1, <1>2
  <1>3. ASSUME NEW id, NEW v, asked' = asked \cup {<<id, v>>}, JobType(id) = "publish",
               JobArtifact(id) \in Artifacts, review[JobArtifact(id)] = "approved"
        PROVE  RequestsAreApproved'
    BY <1>1, <1>3
  <1>4. ASSUME NEW a \in Artifacts, RetryPublish(a) PROVE RequestsAreApproved'
    <2>1. PICK n \in 1..MaxRetries : asked' = asked \cup {<<<<"retry", a, n>>, repoVersion>>}
      BY <1>4 DEF RetryPublish
    <2>2. n \in Nat /\ review[a] = "approved"
      BY <1>4 DEF RetryPublish
    <2>3. /\ JobType(<<"retry", a, n>>) = "publish"
          /\ JobArtifact(<<"retry", a, n>>) = a
      BY <2>2, KeyTypes
    <2> QED BY <1>3, <2>1, <2>2, <2>3
  <1>5. ASSUME NEW a \in Artifacts, CdnResume(a) PROVE RequestsAreApproved'
    <2>1. /\ asked' = asked \cup {<<<<"resume", a, consent.generation>>, repoVersion>>}
          /\ review[a] = "approved"
      BY <1>5 DEF CdnResume
    <2>2. consent.generation \in Nat
      BY DEF TypeOK, Consent
    <2>3. /\ JobType(<<"resume", a, consent.generation>>) = "publish"
          /\ JobArtifact(<<"resume", a, consent.generation>>) = a
      BY <2>2, KeyTypes
    <2> QED BY <1>3, <2>1, <2>2, <2>3
  <1>6. CASE \/ \E request \in asked : QueuePublication(request)
             \/ \E a \in Artifacts : Approve(a) \/ Decline(a) \/ RequestRevoke(a)
             \/ ConfigureCdn
             \/ \E status \in {"pending", "listed", "unlisted"} : SetListing(status)
             \/ SyncRead \/ SyncWrite
             \/ \E id \in JobIds : LeaseLapses(id)
             \/ \E w \in Workers : Claim(w) \/ Outage(w) \/ RenewLease(w) \/ Crash(w)
    <2>1. asked' \subseteq asked
      BY <1>6 DEF QueuePublication, Approve, Decline, RequestRevoke, ConfigureCdn, SetListing,
                  SyncRead, SyncWrite, LeaseLapses, Claim, Outage, RenewLease, Crash, apiVars
    <2> QED BY <2>1, <1>2
  <1>7. ASSUME NEW w \in Workers, Handle(w) PROVE RequestsAreApproved'
    <2>1. asked' \subseteq asked
      BY <1>7 DEF Handle, Begin, PublishRead, PublishStat, PublishTransition, PublishPut,
                  PublishCommit, MarkPublishFailed, EnqueueCleanup, RevokeRead, RevokeTransition,
                  DeleteObject, RevokeFinish, CleanupRead, CompleteJob, RecordFailure, FailJob,
                  apiVars
    <2> QED BY <2>1, <1>2
  <1> QED BY <1>4, <1>5, <1>6, <1>7 DEF Next, Administer

(* The inductive invariant holds initially.                                *)
THEOREM InitInv == Init => Inv
  BY InitTypeOK, ConstantsAssumption
     DEF Init, Inv, WorkIsOnRecord, HandlerFitsJob, PublishNeedsApproval, RequestsAreApproved,
         RevokeMeansWithdrawn, OnlyApprovedIsReleased, PointerIsARelease, Absent, NoJob

(* Every step keeps it: the contract step gives approvals and the pointer, *)
(* the growth of the job table gives what jobs exist for, the control step *)
(* the labels.                                                             *)
THEOREM StepInv == Inv /\ [Next]_vars => Inv'
  <1> SUFFICES ASSUME Inv, [Next]_vars PROVE Inv'
    OBVIOUS
  <1>1. CASE UNCHANGED vars
    BY <1>1 DEF vars, pluginVars, workerVars, apiVars, Inv, TypeOK, WorkIsOnRecord, HandlerFitsJob,
                PublishNeedsApproval, RequestsAreApproved, RevokeMeansWithdrawn,
                OnlyApprovedIsReleased, PointerIsARelease, Absent
  <1>2. CASE Next
    <2>1. TypeOK'
      BY <1>2, AdministerTypeOK, QueueTypeOK, PublishTypeOK, RevokeTypeOK, OutageTypeOK
         DEF Inv, Next, Handle
    <2>2. JobsGrow
      BY <1>2, AdministerGrows, WorkerGrows DEF Next
    <2>3. WorkIsOnRecord' /\ HandlerFitsJob'
      BY <1>2, <2>2, WorkStep
    <2>4. /\ \A a \in Artifacts : review[a] = "approved" => review'[a] = "approved"
          /\ \A a \in Artifacts : pub[a] \in Withdrawn => pub'[a] \in Withdrawn
          /\ \A a \in Artifacts : pub[a] = "unpublished" /\ pub'[a] # "unpublished"
                                   => review[a] = "approved"
          /\ PointerIsARelease'
      BY StepImplements, ContractStep DEF Inv
    <2>5. PublishNeedsApproval'
      <3> SUFFICES ASSUME NEW id \in JobIds, JobType(id) = "publish", ~Absent(id)'
                   PROVE  review'[JobArtifact(id)] = "approved"
        BY DEF PublishNeedsApproval, Absent
      <3>1. ~Absent(id) \/ review'[JobArtifact(id)] = "approved"
        BY <2>2 DEF JobsGrow, NewJobIsDue
      <3>2. ~Absent(id) => review[JobArtifact(id)] = "approved"
        BY DEF Inv, PublishNeedsApproval
      <3> QED BY <3>1, <3>2, <2>4, JobIdParts
    <2>6. RevokeMeansWithdrawn'
      <3> SUFFICES ASSUME NEW id \in JobIds, JobType(id) = "revoke", ~Absent(id)'
                   PROVE  pub'[JobArtifact(id)] \in Withdrawn
        BY DEF RevokeMeansWithdrawn, Absent, Withdrawn
      <3>1. ~Absent(id) \/ pub'[JobArtifact(id)] = "revoking"
        BY <2>2 DEF JobsGrow, NewJobIsDue
      <3>2. ~Absent(id) => pub[JobArtifact(id)] \in Withdrawn
        BY DEF Inv, RevokeMeansWithdrawn
      <3> QED BY <3>1, <3>2, <2>4, JobIdParts DEF Withdrawn
    <2>7. OnlyApprovedIsReleased'
      BY <1>2, <2>4, ObjectsStep DEF Inv, OnlyApprovedIsReleased
    <2>8. RequestsAreApproved'
      BY <1>2, <2>4, RequestsStep
    <2> QED BY <2>1, <2>3, <2>4, <2>5, <2>6, <2>7, <2>8 DEF Inv
  <1> QED BY <1>1, <1>2

(* The inductive invariant holds in every reachable state.                 *)
THEOREM Invariance == Spec => []Inv
  BY InitInv, StepInv, PTL DEF Spec

(* Only an approved package reaches the bucket or leaves "unpublished".    *)
THEOREM ReleasesAreApproved == Spec => []OnlyApprovedIsReleased
  <1>1. Inv => OnlyApprovedIsReleased
    BY DEF Inv
  <1> QED BY Invariance, <1>1, PTL

(* The plugin never points at a package that failed to publish or was      *)
(* revoked.                                                                *)
THEOREM PointersAreReleases == Spec => []PointerIsARelease
  <1>1. Inv => PointerIsARelease
    BY DEF Inv
  <1> QED BY Invariance, <1>1, PTL

(* No late publish job undoes a withdrawal.                                *)
THEOREM RevocationsStand == Spec => RevocationStands
  <1>1. Inv /\ [Next]_vars =>
          [\A a \in Artifacts : pub[a] \in Withdrawn => pub'[a] \in Withdrawn]_vars
    BY StepImplements, ContractStep DEF Inv
  <1> QED BY Invariance, <1>1, PTL DEF Spec, RevocationStands

(* The jobs, workers, storage and failures of the code implement the       *)
(* release contract.                                                       *)
THEOREM CodeImplementsContract == Spec => ImplementsContract
  <1>1. Init => Contract!Init
    BY DEF Init, Contract!Init
  <1>2. Inv /\ [Next]_vars => [Contract!Next]_Contract!vars
    BY StepImplements DEF Contract!vars
  <1> QED BY Invariance, <1>1, <1>2, PTL DEF Spec, ImplementsContract, Contract!Spec
-----------------------------------------------------------------------------
(* Releases fit the plugin: a publish job between its first checks and its *)
(* commit is for the version of its artifact.                              *)

VersionsFit ==
    \A w \in Workers : task[w] # None /\ pc[w] \in {"transition", "put", "commit"}
        => jobs[task[w]].version = VersionOf[Subject(w)]

(* The version of a job is written once, with its row.                     *)
LEMMA VersionsStay ==
    ASSUME Inv, Next, NEW i \in JobIds, ~Absent(i)
    PROVE  jobs'[i].version = jobs[i].version
  <1> USE DEF Inv
  <1> jobs[i] \in JobRecord /\ i \in DOMAIN jobs
    BY DEF TypeOK
  <1>1. ASSUME NEW id, NEW v, NEW g, Insert(id, v, g) PROVE jobs'[i].version = jobs[i].version
    BY <1>1 DEF Insert, Absent
  <1>2. CASE Administer
    BY <1>1, <1>2 DEF Administer, Approve, Decline, RetryPublish, CdnResume, QueuePublication,
                      RequestRevoke, ConfigureCdn, SetListing
  <1>3. CASE SyncRead \/ SyncWrite
    BY <1>3 DEF SyncRead, SyncWrite
  <1>4. ASSUME NEW id \in JobIds, LeaseLapses(id) PROVE jobs'[i].version = jobs[i].version
    BY <1>4 DEF LeaseLapses, TypeOK, JobRecord
  <1>5. ASSUME NEW w \in Workers, Claim(w) PROVE jobs'[i].version = jobs[i].version
    <2>1. PICK taken \in SUBSET {id \in JobIds : Claimable(id)} :
             jobs' = [id \in JobIds |-> IF id \in taken THEN ClaimedJob(jobs[id], w) ELSE jobs[id]]
      BY <1>5 DEF Claim
    <2> QED BY <2>1 DEF ClaimedJob
  <1>6. ASSUME NEW w \in Workers, RenewLease(w) \/ Crash(w)
        PROVE  jobs'[i].version = jobs[i].version
    BY <1>6 DEF RenewLease, Crash, TypeOK, JobRecord
  <1>7. ASSUME NEW w \in Workers, CompleteJob(w) \/ FailJob(w)
        PROVE  jobs'[i].version = jobs[i].version
    <2>1. \/ jobs' = jobs
          \/ \E s \in {"succeeded", "queued", "failed"} :
                jobs' = [jobs EXCEPT ![task[w]] = ReturnedJob(@, s)]
      BY <1>7 DEF CompleteJob, FailJob
    <2> QED BY <2>1 DEF ReturnedJob, TypeOK
  <1>8. ASSUME NEW w \in Workers, EnqueueCleanup(w) PROVE jobs'[i].version = jobs[i].version
    BY <1>1, <1>8 DEF EnqueueCleanup
  <1>9. ASSUME NEW w \in Workers,
               \/ Begin(w) \/ PublishRead(w) \/ PublishStat(w) \/ PublishTransition(w)
               \/ PublishPut(w) \/ PublishCommit(w) \/ MarkPublishFailed(w) \/ RevokeRead(w)
               \/ RevokeTransition(w) \/ DeleteObject(w) \/ RevokeFinish(w) \/ CleanupRead(w)
               \/ RecordFailure(w) \/ Outage(w)
        PROVE  jobs' = jobs
    BY <1>9 DEF Begin, PublishRead, PublishStat, PublishTransition, PublishPut, PublishCommit,
                MarkPublishFailed, RevokeRead, RevokeTransition, DeleteObject, RevokeFinish,
                CleanupRead, RecordFailure, Outage
  <1> QED BY <1>2, <1>3, <1>4, <1>5, <1>6, <1>7, <1>8, <1>9 DEF Next, Handle

(* A step moves at most one worker, and each of its moves starts at the    *)
(* label that the handler has reached.                                     *)
LEMMA WorkerMoves ==
    ASSUME TypeOK, Next, NEW v \in Workers
    PROVE  \/ pc'[v] = pc[v] /\ task'[v] = task[v]
           \/ Handle(v) \/ Outage(v) \/ Crash(v)
  <1>1. CASE \/ Administer \/ SyncRead \/ SyncWrite
             \/ \E id \in JobIds : LeaseLapses(id)
             \/ \E w \in Workers : RenewLease(w) \/ Claim(w)
    BY <1>1 DEF Administer, Approve, Decline, RetryPublish, CdnResume, QueuePublication,
                RequestRevoke, ConfigureCdn, SetListing, SyncRead, SyncWrite, LeaseLapses,
                RenewLease, Claim, workerVars
  <1>2. ASSUME NEW w \in Workers, w # v, Outage(w) \/ Crash(w)
        PROVE  pc'[v] = pc[v] /\ task'[v] = task[v]
    BY <1>2 DEF Outage, Crash, Raise, TypeOK
  <1>3. ASSUME NEW w \in Workers, w # v, Handle(w)
        PROVE  pc'[v] = pc[v] /\ task'[v] = task[v]
    <2>1. CASE Begin(w)
      BY <1>3, <2>1 DEF Begin, TypeOK
    <2>2. ASSUME (\E label : Goto(w, label) \/ \E r \in BOOLEAN : Raise(w, label, r)) \/ Release(w)
          PROVE  pc'[v] = pc[v] /\ task'[v] = task[v]
      BY <1>3, <2>2 DEF Goto, Raise, Release, TypeOK
    <2>3. CASE PublishRead(w) \/ PublishStat(w) \/ PublishTransition(w)
      BY <2>2, <2>3 DEF PublishRead, PublishStat, PublishTransition
    <2>4. CASE PublishPut(w) \/ PublishCommit(w) \/ MarkPublishFailed(w) \/ EnqueueCleanup(w)
      BY <2>2, <2>4 DEF PublishPut, PublishCommit, MarkPublishFailed, EnqueueCleanup
    <2>5. CASE RevokeRead(w) \/ RevokeTransition(w) \/ DeleteObject(w) \/ RevokeFinish(w)
      BY <2>2, <2>5 DEF RevokeRead, RevokeTransition, DeleteObject, RevokeFinish
    <2>6. CASE CleanupRead(w) \/ CompleteJob(w) \/ RecordFailure(w) \/ FailJob(w)
      BY <2>2, <2>6 DEF CleanupRead, CompleteJob, RecordFailure, FailJob
    <2> QED BY <1>3, <2>1, <2>3, <2>4, <2>5, <2>6 DEF Handle
  <1> QED BY <1>1, <1>2, <1>3 DEF Next

(* Where a worker's own step may take it, and from where.                  *)
LEMMA WorkerPlaces ==
    ASSUME TypeOK, NEW w \in Workers, Handle(w) \/ Outage(w) \/ Crash(w),
           task'[w] # None, pc'[w] \in {"transition", "put", "commit", "revoke_finish"}
    PROVE  /\ task'[w] = task[w]
           /\ \/ PublishRead(w) \/ PublishTransition(w) \/ PublishPut(w) \/ DeleteObject(w)
           /\ pc'[w] = "transition" => PublishRead(w)
           /\ pc'[w] = "put" => PublishRead(w) \/ PublishTransition(w)
           /\ pc'[w] = "commit" => PublishPut(w)
           /\ pc'[w] = "revoke_finish" => DeleteObject(w)
  <1>1. CASE Begin(w)
    <2>1. PICK b \in batch[w] : pc' = [pc EXCEPT ![w] = JobType(b[1])]
      BY <1>1 DEF Begin
    <2>2. b[1] \in JobIds
      BY DEF TypeOK
    <2> QED BY <2>1, <2>2, JobIdParts DEF TypeOK
  <1>2. CASE PublishRead(w) \/ PublishStat(w) \/ PublishTransition(w)
    BY <1>2 DEF PublishRead, PublishStat, PublishTransition, Goto, Raise, TypeOK
  <1>3. CASE PublishPut(w) \/ PublishCommit(w) \/ MarkPublishFailed(w) \/ EnqueueCleanup(w)
    BY <1>3 DEF PublishPut, PublishCommit, MarkPublishFailed, EnqueueCleanup, Goto, Raise, TypeOK
  <1>4. CASE RevokeRead(w) \/ RevokeTransition(w) \/ DeleteObject(w) \/ RevokeFinish(w)
    BY <1>4 DEF RevokeRead, RevokeTransition, DeleteObject, RevokeFinish, Goto, Raise, TypeOK
  <1>5. CASE CleanupRead(w) \/ CompleteJob(w) \/ RecordFailure(w) \/ FailJob(w)
    BY <1>5 DEF CleanupRead, CompleteJob, RecordFailure, FailJob, Goto, Release, TypeOK
  <1>6. CASE Outage(w) \/ Crash(w)
    BY <1>6 DEF Outage, Crash, Raise, TypeOK
  <1> QED BY <1>1, <1>2, <1>3, <1>4, <1>5, <1>6 DEF Handle

LEMMA VersionsFitStep ==
    ASSUME Inv, VersionsFit, [Next]_vars PROVE VersionsFit'
  <1>1. CASE UNCHANGED vars
    BY <1>1 DEF vars, workerVars, VersionsFit, Subject
  <1>2. ASSUME Next, NEW v \in Workers, task'[v] # None, pc'[v] \in {"transition", "put", "commit"}
        PROVE  jobs'[task'[v]].version = VersionOf[JobArtifact(task'[v])]
    <2>1. CASE pc'[v] = pc[v] /\ task'[v] = task[v]
      <3>1. task[v] \in JobIds /\ ~Absent(task[v])
        BY <1>2, <2>1 DEF Inv, TypeOK, WorkIsOnRecord
      <3> QED BY <1>2, <2>1, <3>1, VersionsStay DEF VersionsFit, Subject
    <2>2. CASE Handle(v) \/ Outage(v) \/ Crash(v)
      <3>1. task'[v] = task[v] /\ (PublishRead(v) \/ PublishTransition(v) \/ PublishPut(v))
        BY <1>2, <2>2, WorkerPlaces DEF Inv
      <3>2. task[v] \in JobIds /\ ~Absent(task[v])
        BY <1>2, <3>1 DEF Inv, TypeOK, WorkIsOnRecord
      <3>3. jobs[task[v]].version = VersionOf[Subject(v)]
        <4>1. CASE PublishRead(v)
          BY <1>2, <4>1 DEF PublishRead, Raise, Inv, TypeOK
        <4>2. CASE PublishTransition(v) \/ PublishPut(v)
          BY <4>2 DEF PublishTransition, PublishPut, Executing, VersionsFit
        <4> QED BY <3>1, <4>1, <4>2
      <3> QED BY <1>2, <3>1, <3>2, <3>3, VersionsStay DEF Subject
    <2> QED BY <1>2, <2>1, <2>2, WorkerMoves DEF Inv
  <1>3. CASE Next
    BY <1>2, <1>3 DEF VersionsFit, Subject
  <1> QED BY <1>1, <1>3

(* Only the commit of a publication publishes.                             *)
LEMMA OnlyCommitsPublish ==
    ASSUME Inv, Next, NEW a \in Artifacts, pub[a] # "published", pub'[a] = "published"
    PROVE  \E w \in Workers : PublishCommit(w) /\ CommitAllowed(w) /\ Subject(w) = a
  <1> USE DEF Inv
  <1>1. ASSUME NEW w \in Workers, Handle(w), ~PublishCommit(w) PROVE pub'[a] # "published"
    <2>1. CASE \/ Begin(w) \/ PublishRead(w) \/ PublishStat(w) \/ PublishPut(w)
               \/ EnqueueCleanup(w) \/ RevokeRead(w) \/ DeleteObject(w) \/ CleanupRead(w)
               \/ CompleteJob(w) \/ FailJob(w)
      BY <2>1 DEF Begin, PublishRead, PublishStat, PublishPut, EnqueueCleanup, RevokeRead,
                  DeleteObject, CleanupRead, CompleteJob, FailJob
    <2>2. CASE PublishTransition(w) \/ RevokeTransition(w) \/ RevokeFinish(w)
      BY <2>2 DEF PublishTransition, RevokeTransition, RevokeFinish, TypeOK
    <2>3. CASE MarkPublishFailed(w) \/ RecordFailure(w)
      BY <2>3 DEF MarkPublishFailed, RecordFailure, Attempt, Recorded, TypeOK
    <2> QED BY <1>1, <2>1, <2>2, <2>3 DEF Handle
  <1>2. ASSUME \/ Administer \/ SyncRead \/ SyncWrite
               \/ \E id \in JobIds : LeaseLapses(id)
               \/ \E w \in Workers : Claim(w) \/ RenewLease(w) \/ Crash(w)
        PROVE  pub'[a] # "published"
    BY <1>2 DEF Administer, Approve, Decline, RetryPublish, CdnResume, QueuePublication,
                RequestRevoke, ConfigureCdn, SetListing, SyncRead, SyncWrite, LeaseLapses,
                Claim, RenewLease, Crash, TypeOK
  <1>3. ASSUME NEW w \in Workers, Outage(w) PROVE pub'[a] # "published"
    BY <1>3, OutageOutcome DEF TypeOK
  <1>4. PICK w \in Workers : PublishCommit(w)
    BY <1>1, <1>2, <1>3 DEF Next
  <1>5. CommitAllowed(w) /\ Subject(w) = a
    BY <1>4 DEF PublishCommit, TypeOK
  <1> QED BY <1>4, <1>5

(* A release is committed only for the version that the repository has now *)
(* and under a consent that is still given, whatever syncs, withdrawals of *)
(* consent, retries and resumed publications came between its request and  *)
(* its commit (repository.py, publish_artifact).                           *)
THEOREM ReleasesFit == Spec => ReleaseFitsPlugin
  <1>1. Init => VersionsFit
    BY DEF Init, VersionsFit
  <1>2. Inv /\ VersionsFit /\ [Next]_vars
            => [\A a \in Artifacts : pub[a] # "published" /\ pub'[a] = "published"
                    => consent.enabled /\ repoVersion = VersionOf[a]]_vars
    <2> SUFFICES ASSUME Inv, VersionsFit, Next, NEW a \in Artifacts,
                        pub[a] # "published", pub'[a] = "published"
                 PROVE  consent.enabled /\ repoVersion = VersionOf[a]
      OBVIOUS
    <2>1. PICK w \in Workers : PublishCommit(w) /\ CommitAllowed(w) /\ Subject(w) = a
      BY OnlyCommitsPublish
    <2> QED BY <2>1 DEF PublishCommit, Executing, CommitAllowed, VersionsFit
  <1>3. Inv /\ VersionsFit /\ [Next]_vars => VersionsFit'
    BY VersionsFitStep
  <1> QED BY Invariance, <1>1, <1>2, <1>3, PTL DEF Spec, ReleaseFitsPlugin
-----------------------------------------------------------------------------
(* Orphans are on record: whoever puts an object commits its release or    *)
(* queues its cleanup.  Where a worker dies, or a call of the failure path *)
(* fails, between the two, the code leaves the object alone.               *)

NobodyBreaksOff == Events \cap {"crash", "outage"} = {}

Tending(w, a) == /\ task[w] # None /\ Subject(w) = a
                 /\ pc[w] \in {"commit", "mark_orphan", "orphan"}

Tended(a) == ~Absent(<<"cleanup", a, 0>>) \/ \E w \in Workers : Tending(w, a)

Kept(a) == pub[a] \in {"published", "revoking", "revoke_failed"}

(* A revocation that has deleted the object finds it again only if a late  *)
(* publication has put it there, which tends to it.                        *)
OrphansAreTended ==
    /\ \A a \in objects : Kept(a) \/ Tended(a)
    /\ \A w \in Workers : /\ task[w] # None /\ pc[w] = "revoke_finish"
                          /\ Subject(w) \in objects
                          => Tended(Subject(w))

(* A worker tends to its object until the cleanup is queued, or publishes  *)
(* it.                                                                     *)
LEMMA TendedStays ==
    ASSUME NobodyBreaksOff, Inv, Next, NEW a \in Artifacts, Tended(a)
    PROVE  Tended(a)' \/ pub'[a] = "published"
  <1> USE DEF Inv
  <1>1. CASE ~Absent(<<"cleanup", a, 0>>)
    <2>1. JobsGrow
      BY AdministerGrows, WorkerGrows DEF Next
    <2> QED BY <1>1, <2>1, JobIdParts DEF JobsGrow, Tended
  <1>2. ASSUME NEW w \in Workers, Tending(w, a) PROVE Tended(a)' \/ pub'[a] = "published"
    <2>1. CASE pc'[w] = pc[w] /\ task'[w] = task[w]
      BY <1>2, <2>1 DEF Tended, Tending, Subject
    <2>2. ASSUME task' = task, NEW label \in {"mark_orphan", "orphan"}, pc' = [pc EXCEPT ![w] = label]
          PROVE  Tended(a)'
      BY <1>2, <2>2 DEF Tended, Tending, Subject, TypeOK
    <2>3. CASE PublishCommit(w)
      <3>1. \/ pub' = [pub EXCEPT ![a] = "published"]
            \/ task' = task /\ pc' = [pc EXCEPT ![w] = "mark_orphan"]
        BY <1>2, <2>3 DEF PublishCommit, Tending, Raise
      <3> QED BY <2>2, <3>1 DEF TypeOK
    <2>4. CASE MarkPublishFailed(w)
      <3>1. task' = task /\ pc' = [pc EXCEPT ![w] = "orphan"]
        BY <1>2, <2>4 DEF MarkPublishFailed, Tending, Executing, Goto
      <3> QED BY <2>2, <3>1
    <2>5. CASE EnqueueCleanup(w)
      <3>1. Insert(<<"cleanup", a, 0>>, None, 0)
        BY <1>2, <2>5 DEF EnqueueCleanup, Tending
      <3>2. ~Absent(<<"cleanup", a, 0>>)'
        BY <3>1, JobIdParts DEF Insert, Absent, NewJob, TypeOK
      <3> QED BY <3>2 DEF Tended
    <2>6. ~Outage(w) /\ ~Crash(w)
      BY DEF Outage, Crash, Happens, NobodyBreaksOff
    <2>7. pc[w] \in {"commit", "mark_orphan", "orphan"}
      BY <1>2 DEF Tending
    <2>8. Handle(w) => PublishCommit(w) \/ MarkPublishFailed(w) \/ EnqueueCleanup(w)
      BY <2>7 DEF Handle, Executing, Begin, PublishRead, PublishStat, PublishTransition, PublishPut,
                  RevokeRead, RevokeTransition, DeleteObject, RevokeFinish, CleanupRead,
                  CompleteJob, RecordFailure, FailJob
    <2> QED BY <2>1, <2>3, <2>4, <2>5, <2>6, <2>8, WorkerMoves
  <1> QED BY <1>1, <1>2 DEF Tended

(* A new object is its worker's, which goes on to commit or to clean up.   *)
LEMMA NewObjectsAreTended ==
    ASSUME Inv, Next, NEW a \in objects', a \notin objects
    PROVE  a \in Artifacts /\ Tended(a)'
  <1> USE DEF Inv
  <1>1. PICK w \in Workers : PublishPut(w)
    <2>1. ASSUME NEW w \in Workers, Handle(w), ~PublishPut(w) PROVE objects' \subseteq objects
      BY <2>1 DEF Handle, Begin, PublishRead, PublishStat, PublishTransition, PublishCommit,
                  MarkPublishFailed, EnqueueCleanup, RevokeRead, RevokeTransition, DeleteObject,
                  RevokeFinish, CleanupRead, CompleteJob, RecordFailure, FailJob
    <2>2. ASSUME \/ Administer \/ SyncRead \/ SyncWrite
                 \/ \E id \in JobIds : LeaseLapses(id)
                 \/ \E w \in Workers : Claim(w) \/ Outage(w) \/ RenewLease(w) \/ Crash(w)
          PROVE  objects' = objects
      BY <2>2 DEF Administer, Approve, Decline, RetryPublish, CdnResume, QueuePublication,
                  RequestRevoke, ConfigureCdn, SetListing, SyncRead, SyncWrite, LeaseLapses, Claim,
                  Outage, RenewLease, Crash
    <2> QED BY <2>1, <2>2 DEF Next
  <1>2. task[w] # None /\ Subject(w) \in Artifacts
    BY <1>1, ExecutingHasSubject DEF PublishPut, Executing
  <1>3. /\ a = Subject(w) /\ task' = task
        /\ pc' = [pc EXCEPT ![w] = "commit"] \/ pc' = [pc EXCEPT ![w] = "mark_orphan"]
    BY <1>1 DEF PublishPut, Goto, Raise
  <1>4. Tending(w, a)'
    BY <1>2, <1>3 DEF Tending, Subject, TypeOK
  <1> QED BY <1>2, <1>3, <1>4 DEF Tended

(* Only the end of a revocation leaves a package withdrawn.                *)
LEMMA OnlyRevocationsRevoke ==
    ASSUME Inv, Next, NEW a \in Artifacts, Kept(a), ~Kept(a)'
    PROVE  \E w \in Workers : RevokeFinish(w) /\ Subject(w) = a
  <1> USE DEF Inv
  <1>1. pub[a] # "revoked" /\ pub'[a] = "revoked"
    BY StepImplements DEF Kept, TypeOK, Contract!Next, Contract!Decide, Contract!StartPublishing,
       Contract!FailToPublish, Contract!Release, Contract!StartWithdrawal,
       Contract!FinishWithdrawal, Contract!FailToWithdraw
  <1>2. ASSUME NEW w \in Workers, Handle(w), ~RevokeFinish(w) PROVE FALSE
    <2>1. CASE \/ Begin(w) \/ PublishRead(w) \/ PublishStat(w) \/ PublishPut(w)
               \/ EnqueueCleanup(w) \/ RevokeRead(w) \/ DeleteObject(w) \/ CleanupRead(w)
               \/ CompleteJob(w) \/ FailJob(w)
      BY <1>1, <2>1 DEF Begin, PublishRead, PublishStat, PublishPut, EnqueueCleanup, RevokeRead,
                        DeleteObject, CleanupRead, CompleteJob, FailJob
    <2>2. CASE PublishTransition(w) \/ RevokeTransition(w) \/ PublishCommit(w)
      BY <1>1, <2>2 DEF PublishTransition, RevokeTransition, PublishCommit, TypeOK
    <2>3. CASE MarkPublishFailed(w) \/ RecordFailure(w)
      BY <1>1, <2>3 DEF MarkPublishFailed, RecordFailure, Attempt, Recorded, TypeOK
    <2> QED BY <1>2, <2>1, <2>2, <2>3 DEF Handle
  <1>3. ASSUME \/ Administer \/ SyncRead \/ SyncWrite
               \/ \E id \in JobIds : LeaseLapses(id)
               \/ \E w \in Workers : Claim(w) \/ RenewLease(w) \/ Crash(w)
        PROVE  FALSE
    BY <1>1, <1>3 DEF Administer, Approve, Decline, RetryPublish, CdnResume, QueuePublication,
                      RequestRevoke, ConfigureCdn, SetListing, SyncRead, SyncWrite, LeaseLapses,
                      Claim, RenewLease, Crash, TypeOK
  <1>4. ASSUME NEW w \in Workers, Outage(w) PROVE FALSE
    BY <1>1, <1>4, OutageOutcome DEF TypeOK
  <1>5. PICK w \in Workers : RevokeFinish(w)
    BY <1>2, <1>3, <1>4 DEF Next
  <1>6. Subject(w) = a
    BY <1>1, <1>5 DEF RevokeFinish, TypeOK
  <1> QED BY <1>5, <1>6

LEMMA OrphansStep ==
    ASSUME NobodyBreaksOff, Inv, OrphansAreTended, [Next]_vars PROVE OrphansAreTended'
  <1> USE DEF Inv
  <1>1. CASE UNCHANGED vars
    BY <1>1 DEF vars, workerVars, OrphansAreTended, Kept, Tended, Tending, Subject, Absent
  <1>2. ASSUME Next, NEW a \in objects' PROVE Kept(a)' \/ Tended(a)'
    <2>1. CASE a \notin objects
      BY <1>2, <2>1, NewObjectsAreTended
    <2>2. CASE a \in objects /\ Tended(a)
      BY <1>2, <2>2, TendedStays DEF TypeOK, Kept
    <2>3. CASE a \in objects /\ Kept(a) /\ ~Kept(a)'
      <3>1. a \in Artifacts
        BY <2>3 DEF TypeOK
      <3>2. PICK w \in Workers : RevokeFinish(w) /\ Subject(w) = a
        BY <1>2, <2>3, <3>1, OnlyRevocationsRevoke
      <3>3. Tended(a)
        BY <2>3, <3>2 DEF RevokeFinish, Executing, OrphansAreTended
      <3> QED BY <1>2, <2>3, <3>1, <3>3, TendedStays DEF Kept
    <2> QED BY <2>1, <2>2, <2>3 DEF OrphansAreTended
  <1>3. ASSUME Next, NEW w \in Workers, task'[w] # None, pc'[w] = "revoke_finish",
               NEW a \in objects', a = JobArtifact(task'[w])
        PROVE  Tended(a)'
    <2>1. CASE pc'[w] = pc[w] /\ task'[w] = task[w]
      <3>1. /\ task[w] # None /\ pc[w] = "revoke_finish" /\ Subject(w) = a
            /\ a \in Artifacts
        BY <1>3, <2>1, ExecutingHasSubject DEF Subject
      <3>2. pub[a] \in Withdrawn
        BY <3>1 DEF TypeOK, HandlerFitsJob, RevokeLabels, WorkIsOnRecord, RevokeMeansWithdrawn,
                    Subject
      <3>3. pub'[a] # "published"
        BY <1>3, <3>1, <3>2, StepImplements, ContractStep DEF Withdrawn
      <3>4. CASE a \in objects
        <4>1. Tended(a)
          BY <3>1, <3>4 DEF OrphansAreTended
        <4> QED BY <1>3, <3>1, <3>3, <4>1, TendedStays
      <3>5. CASE a \notin objects
        BY <1>3, <3>5, NewObjectsAreTended
      <3> QED BY <3>4, <3>5
    <2>2. CASE Handle(w) \/ Outage(w) \/ Crash(w)
      <3>1. task'[w] = task[w] /\ DeleteObject(w)
        BY <1>3, <2>2, WorkerPlaces
      <3>2. objects' = objects \ {Subject(w)}
        BY <1>3, <3>1 DEF DeleteObject, Raise, TypeOK
      <3> QED BY <1>3, <3>1, <3>2 DEF Subject
    <2> QED BY <1>3, <2>1, <2>2, WorkerMoves
  <1>4. CASE Next
    BY <1>2, <1>3, <1>4 DEF OrphansAreTended, Subject
  <1> QED BY <1>1, <1>4

(* While no worker dies and no call of the failure path fails, an object   *)
(* nobody refers to is on record, whatever put it there late and however   *)
(* stalls, lost status updates and revocations overlap                     *)
(* (jobs.py, _run_publish and its cleanup).                                *)
THEOREM OrphansAreOnRecord ==
    ASSUME NobodyBreaksOff
    PROVE  Spec => []OrphanIsOnRecord
  <1>1. Init => OrphansAreTended
    BY ConstantsAssumption DEF Init, OrphansAreTended
  <1>2. Inv /\ OrphansAreTended /\ [Next]_vars => OrphansAreTended'
    BY OrphansStep
  <1>3. OrphansAreTended => OrphanIsOnRecord
    BY Zenon DEF OrphansAreTended, OrphanIsOnRecord, Tended, Tending, Kept, Attended
  <1> QED BY Invariance, <1>1, <1>2, <1>3, PTL DEF Spec
=============================================================================
