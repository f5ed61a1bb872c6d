-------------------------- MODULE RuntimeDispatch --------------------------
(***************************************************************************)
(* Runtime validation of one artifact against one runtime target: the      *)
(* runtime stages of the artifact workers (RuntimeDispatchStage and        *)
(* RuntimeCollectStage), the rows they share with the isolated runners     *)
(* (review_runs, runtime_dispatches, artifact_jobs), the runners           *)
(* (RuntimeRunnerWorker) and the private result objects.  One action per   *)
(* transaction, storage call, or decision in memory between two of them.   *)
(*                                                                         *)
(* A manual retry supersedes the runs and jobs of a review attempt; the    *)
(* attempts are the generations 1, 2, ...  A dispatch's id is a function   *)
(* of its run, so run and dispatch are named by their generation.          *)
(***************************************************************************)
EXTENDS Naturals, FiniteSets

CONSTANTS
    Runners,       \* runtime runner processes, named by RUNTIME_RUNNER_ID
    Workers,       \* artifact-worker processes
    None,          \* no owner, no job
    MaxAttempts,   \* runtime_dispatches.max_attempts (3)
    JobAttempts,   \* artifact_jobs.max_attempts of the runtime jobs (3)
    MaxPolls,      \* RuntimeCollectStage.max_polls (720)
    ClaimLimit,    \* dispatches a runner works on at a time
    MaxRetries,    \* bound: manual retries of the review
    Events,        \* which of EventKinds may happen
    MaxEvents      \* bound: how many of them happen

(* A runner dies, is stopped, or is stalled past its lease; its storage    *)
(* fails; an artifact worker is stalled past its lease; a call of an       *)
(* artifact worker fails; a result object cannot be seen yet; the review   *)
(* fails in another stage; a person approves.                              *)
EventKinds == {"crash", "shutdown", "stall", "storage", "pause", "outage", "unseen",
               "elsewhere", "approve"}

ASSUME ConstantsAssumption ==
    /\ None \notin Runners \cup Workers
    /\ {MaxAttempts, JobAttempts, ClaimLimit} \subseteq Nat \ {0}
    /\ {MaxPolls, MaxRetries, MaxEvents} \subseteq Nat
    /\ Events \subseteq EventKinds

VARIABLES
    artifact,   \* plugin_artifacts.review_status
    gen,        \* the generation whose run and jobs are not superseded
    run,        \* review_runs.status of the runtime run of a generation
    dispatch,   \* runtime_dispatches
    result,     \* private result objects: what an attempt has stored
    tasks,      \* a runner's _process_work tasks
    jobs,       \* artifact_jobs of types runtime_dispatch and runtime_collect
    worker,     \* what an artifact worker executes
    left,       \* history: the dispatches that the approval left open
    happened    \* how many events have happened

vars == <<artifact, gen, run, dispatch, result, tasks, jobs, worker, left, happened>>
-----------------------------------------------------------------------------
Gens     == 1..(MaxRetries + 1)
Attempts == 1..MaxAttempts

Open  == {"queued", "running"}
Ended == {"succeeded", "failed", "timed_out", "cancelled"}

Reviewable == {"scanning", "pending_review", "processing_failed"}

Dispatch == [status : {"none"} \cup Open \cup Ended, attempts : 0..MaxAttempts,
             owner : Runners \cup {None}, lapsed : BOOLEAN, key : 0..MaxAttempts,
             collected : BOOLEAN]

NoDispatch == [status |-> "none", attempts |-> 0, owner |-> None, lapsed |-> FALSE,
               key |-> 0, collected |-> FALSE]

Task == [gen : Gens, attempt : Attempts, runner : Runners,
         at : {"execute", "renew", "store", "complete", "report"},
         outcome : {"none", "passed", "broken", "failed", "timed_out", "cancelled"}]

(* Job 0 of a generation dispatches, job p + 1 is the collect of poll p.   *)
(* "absent": no row under the idempotency key, which a retry renames.      *)
JobIds == Gens \X (0..(MaxPolls + 1))
Poll(job) == job[2] - 1

Job == [status : {"absent", "queued", "running", "succeeded", "failed", "cancelled"},
        attempts : 0..JobAttempts, owner : Workers \cup {None}, lapsed : BOOLEAN]

NoJob  == [status |-> "absent", attempts |-> 0, owner |-> None, lapsed |-> FALSE]
NewJob == [NoJob EXCEPT !.status = "queued"]

Stages == {"idle", "begin", "dispatch_run", "dispatch_create", "dispatch_insert", "fail_run",
           "enqueue", "collect_run", "collect_cancel", "collect_load", "collect_read",
           "collect_commit", "collect_refresh", "done", "record", "fail"}

(* What a worker holds: the job, the attempt it read at the claim, the run *)
(* and the next job it is about to queue, the dispatch row it read, the    *)
(* verdict it will write, and whether the failure may be retried.          *)
Idle == [job |-> None, at |-> "idle", tries |-> 0, run |-> 1, next |-> 0,
         seen |-> NoDispatch, verdict |-> "none", retry |-> FALSE]

Happens(kind) == /\ kind \in Events
                 /\ happened < MaxEvents
                 /\ happened' = happened + 1

(* enqueue_job: an existing row under the key is left as it is.            *)
Insert(id) == jobs' = IF jobs[id].status = "absent" THEN [jobs EXCEPT ![id] = NewJob] ELSE jobs
-----------------------------------------------------------------------------
Init ==
    /\ artifact = "scanning"
    /\ gen = 1
    /\ run = [g \in Gens |-> "none"]
    /\ dispatch = [g \in Gens |-> NoDispatch]
    /\ result = [g \in Gens |-> [a \in Attempts |-> "none"]]
    /\ tasks = {}
    /\ jobs = [id \in JobIds |-> NoJob]
    /\ worker = [w \in Workers |-> Idle]
    /\ left = {}
    /\ happened = 0
-----------------------------------------------------------------------------
(* The runner.                                                             *)

(* Mutant: a lapsed lease is taken again for ever.                         *)
RunnerClaimForEver(r, g) ==
    /\ Cardinality({t \in tasks : t.runner = r}) < ClaimLimit
    /\ \/ dispatch[g].status = "queued"
       \/ dispatch[g].status = "running" /\ dispatch[g].lapsed
    /\ dispatch' = [dispatch EXCEPT ![g] = [@ EXCEPT !.status = "running", !.owner = r,
                                            !.lapsed = FALSE,
                                            !.attempts = dispatch[g].attempts + 1]]
    /\ tasks' = tasks \cup {[gen |-> g, attempt |-> dispatch[g].attempts + 1, runner |-> r,
                             at |-> "execute", outcome |-> "none"]}
    /\ UNCHANGED <<artifact, gen, run, result, jobs, worker, left, happened>>

(* claim_runtime_dispatches: a queued dispatch, or a running one whose     *)
(* lease has lapsed, while an attempt is left.                             *)
RunnerClaim(r, g) ==
    /\ Cardinality({t \in tasks : t.runner = r}) < ClaimLimit
    /\ dispatch[g].attempts < MaxAttempts
    /\ \/ dispatch[g].status = "queued"
       \/ dispatch[g].status = "running" /\ dispatch[g].lapsed
    /\ dispatch' = [dispatch EXCEPT ![g] = [@ EXCEPT !.status = "running", !.owner = r,
                                            !.lapsed = FALSE,
                                            !.attempts = dispatch[g].attempts + 1]]
    /\ tasks' = tasks \cup {[gen |-> g, attempt |-> dispatch[g].attempts + 1, runner |-> r,
                             at |-> "execute", outcome |-> "none"]}
    /\ UNCHANGED <<artifact, gen, run, result, jobs, worker, left, happened>>

(* A lease lapses when its runner is gone, or is stalled.                  *)
DispatchLapses(g) ==
    /\ dispatch[g].status = "running"
    /\ ~dispatch[g].lapsed
    /\ IF \E t \in tasks : t.gen = g /\ t.runner = dispatch[g].owner
       THEN Happens("stall") ELSE UNCHANGED happened
    /\ dispatch' = [dispatch EXCEPT ![g].lapsed = TRUE]
    /\ UNCHANGED <<artifact, gen, run, result, tasks, jobs, worker, left>>

(* The lease is the runner's, not the attempt's: both renew_runtime_       *)
(* dispatch_lease and complete_runtime_dispatch ask for no more.           *)
Holds(t) == dispatch[t.gen].status = "running" /\ dispatch[t.gen].owner = t.runner

MoveTo(t, at, outcome) == (tasks \ {t}) \cup {[t EXCEPT !.at = at, !.outcome = outcome]}

(* _wait_for_lease_loss: a failed renewal aborts the execution.            *)
Heartbeat(t) ==
    /\ t.at = "execute"
    /\ IF Holds(t)
       THEN /\ dispatch[t.gen].lapsed
            /\ dispatch' = [dispatch EXCEPT ![t.gen].lapsed = FALSE]
            /\ UNCHANGED tasks
       ELSE /\ tasks' = tasks \ {t}
            /\ UNCHANGED dispatch
    /\ UNCHANGED <<artifact, gen, run, result, jobs, worker, left, happened>>

(* The execution returns a result, fails or exceeds its timeout.           *)
Execute(t) ==
    /\ t.at = "execute"
    /\ \/ \E content \in {"passed", "broken"} : tasks' = MoveTo(t, "renew", content)
       \/ \E failure \in {"failed", "timed_out"} : tasks' = MoveTo(t, "report", failure)
    /\ UNCHANGED <<artifact, gen, run, dispatch, result, jobs, worker, left, happened>>

(* Mutant: the dispatch is completed first, the result stored by the way.  *)
RenewBeforeComplete(t) ==
    /\ t.at = "renew"
    /\ tasks' = IF Holds(t) THEN MoveTo(t, "complete", t.outcome) ELSE tasks \ {t}
    /\ UNCHANGED <<artifact, gen, run, dispatch, result, jobs, worker, left, happened>>

(* A last renewal before anything is stored.                               *)
RenewBeforeStore(t) ==
    /\ t.at = "renew"
    /\ IF Holds(t)
       THEN /\ tasks' = MoveTo(t, "store", t.outcome)
            /\ dispatch' = [dispatch EXCEPT ![t.gen].lapsed = FALSE]
       ELSE /\ tasks' = tasks \ {t}
            /\ UNCHANGED dispatch
    /\ UNCHANGED <<artifact, gen, run, result, jobs, worker, left, happened>>

(* put_result under a key of request, attempt and digest.                  *)
StoreResult(t) ==
    /\ t.at = "store"
    /\ \/ /\ result' = [result EXCEPT ![t.gen][t.attempt] = t.outcome]
          /\ tasks' = MoveTo(t, "complete", t.outcome)
          /\ UNCHANGED happened
       \/ /\ Happens("storage")
          /\ tasks' = MoveTo(t, "report", "failed")
          /\ UNCHANGED result
    /\ UNCHANGED <<artifact, gen, run, dispatch, jobs, worker, left>>

(* complete_runtime_dispatch, if the dispatch is still this runner's.      *)
Settle(t, status, key) ==
    /\ dispatch' = IF Holds(t)
                   THEN [dispatch EXCEPT ![t.gen] = [@ EXCEPT !.status = status, !.key = key,
                                                     !.owner = None, !.lapsed = FALSE]]
                   ELSE dispatch
    /\ tasks' = tasks \ {t}
    /\ UNCHANGED <<artifact, gen, run, result, jobs, worker, left, happened>>

(* Mutant: the result of a lost lease is reported as a success.            *)
CompleteAnyway(t) ==
    /\ t.at = "complete"
    /\ dispatch' = [dispatch EXCEPT ![t.gen] = [@ EXCEPT !.status = "succeeded",
                                                !.key = t.attempt, !.owner = None]]
    /\ tasks' = tasks \ {t}
    /\ UNCHANGED <<artifact, gen, run, result, jobs, worker, left, happened>>

CompleteResult(t) ==
    /\ t.at = "complete"
    /\ Settle(t, IF t.outcome = "passed" THEN "succeeded" ELSE "failed", t.attempt)

CompleteFailure(t) ==
    /\ t.at = "report"
    /\ Settle(t, t.outcome, 0)

(* _drain_active cancels what is left after the grace period.              *)
Shutdown(t) ==
    /\ t.at # "report"
    /\ Happens("shutdown")
    /\ tasks' = MoveTo(t, "report", "cancelled")
    /\ UNCHANGED <<artifact, gen, run, dispatch, result, jobs, worker, left>>

(* A runner process dies; its successor may have the same runner id.       *)
RunnerCrash(r) ==
    /\ \E t \in tasks : t.runner = r
    /\ Happens("crash")
    /\ tasks' = {t \in tasks : t.runner # r}
    /\ UNCHANGED <<artifact, gen, run, dispatch, result, jobs, worker, left>>
-----------------------------------------------------------------------------
(* The job queue.                                                          *)

(* The orchestrator queues the runtime stage of the current attempt.       *)
QueueRuntime ==
    /\ artifact = "scanning"
    /\ jobs[<<gen, 0>>].status = "absent"
    /\ Insert(<<gen, 0>>)
    /\ UNCHANGED <<artifact, gen, run, dispatch, result, tasks, worker, left, happened>>

ClaimJob(w, id) ==
    /\ worker[w].at = "idle"
    /\ jobs[id].attempts < JobAttempts
    /\ \/ jobs[id].status = "queued"
       \/ jobs[id].status = "running" /\ jobs[id].lapsed
    /\ jobs' = [jobs EXCEPT ![id] = [status |-> "running", attempts |-> @.attempts + 1,
                                     owner |-> w, lapsed |-> FALSE]]
    /\ worker' = [worker EXCEPT ![w] = [Idle EXCEPT !.job = id, !.at = "begin", !.run = id[1],
                                                    !.tries = jobs[id].attempts + 1]]
    /\ UNCHANGED <<artifact, gen, run, dispatch, result, tasks, left, happened>>

JobLapses(id) ==
    /\ jobs[id].status = "running"
    /\ ~jobs[id].lapsed
    /\ Happens("pause")
    /\ jobs' = [jobs EXCEPT ![id].lapsed = TRUE]
    /\ UNCHANGED <<artifact, gen, run, dispatch, result, tasks, worker, left>>

OwnsJob(w) == /\ jobs[worker[w].job].status = "running"
              /\ jobs[worker[w].job].owner = w

Go(w, at) == worker' = [worker EXCEPT ![w].at = at]

(* JobExecutionError out of a handler; retryable or not.                   *)
Raise(w, retryable) ==
    worker' = [worker EXCEPT ![w] = [@ EXCEPT !.at = "record", !.retry = retryable]]

CompleteJob(w) ==
    /\ worker[w].at = "done"
    /\ jobs' = IF OwnsJob(w) THEN [jobs EXCEPT ![worker[w].job] =
                                     [@ EXCEPT !.status = "succeeded", !.owner = None]]
               ELSE jobs
    /\ worker' = [worker EXCEPT ![w] = Idle]
    /\ UNCHANGED <<artifact, gen, run, dispatch, result, tasks, left, happened>>

(* Mutant: the run of a failed collect job is not found.                   *)
FailsDispatchedRun(w) == run[gen] = "running" /\ worker[w].job[2] = 0

(* _runtime_run_id_for_job: the open run of this attempt of the review; a  *)
(* collect job names its run.                                              *)
FailsRun(w) ==
    /\ run[gen] = "running"
    /\ worker[w].job[2] > 0 => worker[w].job[1] = gen

(* _record_stage_failure: nothing before the last attempt; then the run    *)
(* and the artifact fail, in statements of their own that this step joins. *)
RecordFailure(w) ==
    LET final == ~(worker[w].retry /\ worker[w].tries < JobAttempts) IN
    /\ worker[w].at = "record"
    /\ run' = IF final /\ FailsRun(w) THEN [run EXCEPT ![gen] = "failed"] ELSE run
    /\ artifact' = IF final /\ artifact = "scanning" THEN "processing_failed" ELSE artifact
    /\ Go(w, "fail")
    /\ UNCHANGED <<gen, dispatch, result, tasks, jobs, left, happened>>

FailJob(w) ==
    LET again == worker[w].retry /\ jobs[worker[w].job].attempts < JobAttempts IN
    /\ worker[w].at = "fail"
    /\ jobs' = IF OwnsJob(w)
               THEN [jobs EXCEPT ![worker[w].job] =
                       [@ EXCEPT !.status = IF again THEN "queued" ELSE "failed",
                                 !.owner = None, !.lapsed = FALSE]]
               ELSE jobs
    /\ worker' = [worker EXCEPT ![w] = Idle]
    /\ UNCHANGED <<artifact, gen, run, dispatch, result, tasks, left, happened>>

(* Any call of a stage fails: the job fails and may be retried.            *)
Outage(w) ==
    /\ worker[w].at \notin {"idle", "record", "fail", "done"}
    /\ Happens("outage")
    /\ Raise(w, TRUE)
    /\ UNCHANGED <<artifact, gen, run, dispatch, result, tasks, jobs, left>>
-----------------------------------------------------------------------------
(* _run_review_stage and _validate_context: one read of the artifact, used *)
(* for the rest of the stage.                                              *)
Begin(w) ==
    /\ worker[w].at = "begin"
    /\ CASE artifact = "approved" -> Go(w, "done")
         [] artifact = "scanning" ->
              Go(w, IF worker[w].job[2] = 0 THEN "dispatch_run" ELSE "collect_run")
         [] OTHER -> Raise(w, FALSE)
    /\ UNCHANGED <<artifact, gen, run, dispatch, result, tasks, jobs, left, happened>>

(* create_review_run under the key that only the current attempt's run     *)
(* has; a run that is there already is returned, however it ended.  The    *)
(* target may turn out to be unavailable.                                  *)
DispatchRun(w) ==
    /\ worker[w].at = "dispatch_run"
    /\ run' = IF run[gen] = "none" THEN [run EXCEPT ![gen] = "running"] ELSE run
    /\ \E next \in (IF run'[gen] \in Ended THEN {"done"} ELSE {"dispatch_create", "fail_run"}) :
          worker' = [worker EXCEPT ![w] = [@ EXCEPT !.at = next, !.run = gen]]
    /\ UNCHANGED <<artifact, gen, dispatch, result, tasks, jobs, left, happened>>

(* RuntimeDispatchController.create looks at the runs that are not         *)
(* superseded, before the INSERT.                                          *)
DispatchCreate(w) ==
    LET g == worker[w].run IN
    /\ worker[w].at = "dispatch_create"
    /\ Go(w, IF g = gen /\ run[g] = "running" THEN "dispatch_insert" ELSE "fail_run")
    /\ UNCHANGED <<artifact, gen, run, dispatch, result, tasks, jobs, left, happened>>

(* Mutant: create_runtime_dispatch without its look at the artifact.       *)
InsertUnlessCancelled(w) ==
    LET g == worker[w].run IN
    /\ worker[w].at = "dispatch_insert"
    /\ IF dispatch[g].status = "cancelled"
       THEN Raise(w, TRUE) /\ UNCHANGED dispatch
       ELSE /\ dispatch' = IF dispatch[g].status = "none"
                           THEN [dispatch EXCEPT ![g].status = "queued"] ELSE dispatch
            /\ worker' = [worker EXCEPT ![w] = [@ EXCEPT !.at = "enqueue", !.next = 1]]
    /\ UNCHANGED <<artifact, gen, run, result, tasks, jobs, left, happened>>

(* create_runtime_dispatch: refused once the artifact is approved; the     *)
(* run's dispatch is returned if there is one, unless it was cancelled:    *)
(* then the id exists and the INSERT fails.                                *)
DispatchInsert(w) ==
    LET g == worker[w].run IN
    /\ worker[w].at = "dispatch_insert"
    /\ CASE artifact = "approved" -> Go(w, "fail_run") /\ UNCHANGED dispatch
         [] artifact # "approved" /\ dispatch[g].status = "cancelled" ->
              Raise(w, TRUE) /\ UNCHANGED dispatch
         [] OTHER ->
              /\ dispatch' = IF dispatch[g].status = "none"
                             THEN [dispatch EXCEPT ![g].status = "queued"] ELSE dispatch
              /\ worker' = [worker EXCEPT ![w] = [@ EXCEPT !.at = "enqueue", !.next = 1]]
    /\ UNCHANGED <<artifact, gen, run, result, tasks, jobs, left, happened>>

(* _fail_run through complete_review_run, which spares only the runs of a  *)
(* manual approval.                                                        *)
FailRun(w) ==
    LET g == worker[w].run IN
    /\ worker[w].at = "fail_run"
    /\ run' = IF run[g] = "cancelled" THEN run ELSE [run EXCEPT ![g] = "failed"]
    /\ Go(w, "done")
    /\ UNCHANGED <<artifact, gen, dispatch, result, tasks, jobs, left, happened>>

EnqueueCollect(w) ==
    /\ worker[w].at = "enqueue"
    /\ Insert(<<worker[w].run, worker[w].next>>)
    /\ Go(w, "done")
    /\ UNCHANGED <<artifact, gen, run, dispatch, result, tasks, left, happened>>

(* _wait: another poll while the window lasts.                             *)
Wait(w) ==
    IF Poll(worker[w].job) < MaxPolls
    THEN worker' = [worker EXCEPT ![w] = [@ EXCEPT !.at = "enqueue",
                                                   !.next = worker[w].job[2] + 1]]
    ELSE Raise(w, FALSE)

CollectRun(w) ==
    LET g == worker[w].run IN
    /\ worker[w].at = "collect_run"
    /\ CASE g # gen -> Raise(w, FALSE)
         [] g = gen /\ run[g] \in Ended -> Go(w, "done")
         [] OTHER -> Go(w, IF Poll(worker[w].job) >= MaxPolls THEN "collect_cancel"
                           ELSE "collect_load")
    /\ UNCHANGED <<artifact, gen, run, dispatch, result, tasks, jobs, left, happened>>

(* cancel_runtime_dispatch when the window is over.                        *)
CollectCancel(w) ==
    LET g == worker[w].run IN
    /\ worker[w].at = "collect_cancel"
    /\ dispatch' = IF dispatch[g].status \in Open
                   THEN [dispatch EXCEPT ![g] = [@ EXCEPT !.status = "cancelled",
                                                 !.owner = None, !.lapsed = FALSE]]
                   ELSE dispatch
    /\ Go(w, "collect_load")
    /\ UNCHANGED <<artifact, gen, run, result, tasks, jobs, left, happened>>

(* RuntimeDispatchController.collect reads the row.                        *)
CollectLoad(w) ==
    LET row == dispatch[worker[w].run] IN
    /\ worker[w].at = "collect_load"
    /\ CASE row.collected -> Go(w, "collect_refresh")
         [] ~row.collected /\ row.status \in Open -> Wait(w)
         [] OTHER -> worker' = [worker EXCEPT ![w] = [@ EXCEPT !.at = "collect_read",
                                                               !.seen = row]]
    /\ UNCHANGED <<artifact, gen, run, dispatch, result, tasks, jobs, left, happened>>

(* Mutant: the key of the result is taken as it is.                        *)
BelievesKey(row, content) == row.status = "succeeded" /\ content = "passed"

(* The key must be that of the dispatch's last attempt.                    *)
Passed(row, content) ==
    /\ row.status = "succeeded"
    /\ row.key = row.attempts
    /\ content = "passed"

(* The result object is read and judged; one that is not there yet makes   *)
(* another poll, or fails the run when the window is over.                 *)
CollectRead(w) ==
    LET g == worker[w].run
        row == worker[w].seen
        content == IF row.key = 0 THEN "none" ELSE result[g][row.key]
    IN
    /\ worker[w].at = "collect_read"
    /\ \/ /\ worker' = [worker EXCEPT ![w] =
                          [@ EXCEPT !.at = "collect_commit",
                                    !.verdict = CASE Passed(row, content) -> "succeeded"
                                                  [] row.status = "timed_out" -> "timed_out"
                                                  [] OTHER -> "failed"]]
          /\ UNCHANGED happened
       \/ /\ row.key > 0 /\ row.key = row.attempts
          /\ Happens("unseen")
          /\ IF Poll(worker[w].job) < MaxPolls THEN Wait(w) ELSE Go(w, "fail_run")
    /\ UNCHANGED <<artifact, gen, run, dispatch, result, tasks, jobs, left>>

(* collect_runtime_dispatch: once per dispatch, and only into an open run. *)
CollectCommit(w) ==
    LET g == worker[w].run IN
    /\ worker[w].at = "collect_commit"
    /\ IF ~dispatch[g].collected /\ run[g] # "running"
       THEN Raise(w, TRUE) /\ UNCHANGED <<run, dispatch, left>>
       ELSE /\ run' = IF dispatch[g].collected THEN run
                      ELSE [run EXCEPT ![g] = worker[w].verdict]
            /\ dispatch' = [dispatch EXCEPT ![g].collected = TRUE]
            /\ Go(w, "collect_refresh")
    /\ UNCHANGED <<artifact, gen, result, tasks, jobs, left, happened>>

CollectRefresh(w) ==
    /\ worker[w].at = "collect_refresh"
    /\ IF worker[w].run = gen THEN Go(w, "done") ELSE Raise(w, FALSE)
    /\ UNCHANGED <<artifact, gen, run, dispatch, result, tasks, jobs, left, happened>>
-----------------------------------------------------------------------------
(* The rest of the review, and the reviewers.                              *)

(* Another stage fails for good.                                           *)
FailElsewhere ==
    /\ artifact = "scanning"
    /\ Happens("elsewhere")
    /\ artifact' = "processing_failed"
    /\ UNCHANGED <<gen, run, dispatch, result, tasks, jobs, worker, left>>

OpenDispatches == {g \in Gens : dispatch[g].status \in Open}

(* The routing stage is queued when the attempt's runs have ended.  Its    *)
(* status check does not name the attempt: a routing worker that has been  *)
(* stalled since an earlier attempt routes the one that goes on.           *)
RoutedOn(g) ==
    \/ g = gen /\ run[g] \in Ended /\ UNCHANGED happened
    \/ g < gen /\ Happens("pause")

(* transition_review_status of the routing stage: to a person.             *)
Route ==
    /\ artifact = "scanning"
    /\ \E g \in Gens : RoutedOn(g)
    /\ artifact' = "pending_review"
    /\ UNCHANGED <<gen, run, dispatch, result, tasks, jobs, worker, left>>

(* auto_approve_artifact: the policy approves on succeeded runs, of the    *)
(* attempt that was evaluated.  It sets the status and queues the release; *)
(* jobs, runs and dispatches stay as they are.                             *)
AutoApprove ==
    /\ artifact = "scanning"
    /\ \E g \in Gens : run[g] = "succeeded" /\ RoutedOn(g)
    /\ artifact' = "approved"
    /\ left' = OpenDispatches
    /\ UNCHANGED <<gen, run, dispatch, result, tasks, jobs, worker>>

(* approve_artifact: a reviewer approves what waits for him, and again     *)
(* nothing else of the review is touched.                                  *)
ApproveArtifact ==
    /\ artifact = "pending_review"
    /\ Happens("approve")
    /\ artifact' = "approved"
    /\ left' = OpenDispatches
    /\ UNCHANGED <<gen, run, dispatch, result, tasks, jobs, worker>>

(* review_action manual_approve: jobs, runs and dispatches are cancelled   *)
(* in the transaction of the approval.                                     *)
ManualApprove ==
    /\ artifact \in Reviewable
    /\ Happens("approve")
    /\ artifact' = "approved"
    /\ left' = {}
    /\ run' = [g \in Gens |-> IF run[g] = "running" THEN "cancelled" ELSE run[g]]
    /\ dispatch' = [g \in Gens |-> IF dispatch[g].status \in Open
                                   THEN [dispatch[g] EXCEPT !.status = "cancelled",
                                                            !.owner = None, !.lapsed = FALSE]
                                   ELSE dispatch[g]]
    /\ jobs' = [id \in JobIds |-> IF jobs[id].status \in {"queued", "running", "failed"}
                                  THEN [jobs[id] EXCEPT !.status = "cancelled", !.owner = None]
                                  ELSE jobs[id]]
    /\ UNCHANGED <<gen, result, tasks, worker>>

(* Mutant: a retry that looks at the jobs only.                            *)
RetryDespiteDispatch ==
    /\ artifact \in Reviewable
    /\ gen <= MaxRetries
    /\ \A id \in JobIds : jobs[id].status # "running"
    /\ artifact' = "scanning"
    /\ gen' = gen + 1
    /\ jobs' = [id \in JobIds |-> NoJob]
    /\ UNCHANGED <<run, dispatch, result, tasks, worker, left, happened>>

(* review_action retry_review: refused while a job runs or a dispatch is   *)
(* open; runs and jobs are superseded and give their keys back.            *)
Retry ==
    /\ artifact \in Reviewable
    /\ gen <= MaxRetries
    /\ \A id \in JobIds : jobs[id].status # "running"
    /\ \A g \in Gens : dispatch[g].status \notin Open
    /\ artifact' = "scanning"
    /\ gen' = gen + 1
    /\ jobs' = [id \in JobIds |-> NoJob]
    /\ UNCHANGED <<run, dispatch, result, tasks, worker, left, happened>>
-----------------------------------------------------------------------------
RunnerStep(r) ==
    \/ \E g \in Gens : RunnerClaim(r, g)
    \/ \E t \in tasks : t.runner = r
          /\ (Execute(t) \/ RenewBeforeStore(t) \/ StoreResult(t)
              \/ CompleteResult(t) \/ CompleteFailure(t))

StageStep(w) ==
    \/ Begin(w)
    \/ DispatchRun(w) \/ DispatchCreate(w) \/ DispatchInsert(w)
    \/ FailRun(w) \/ EnqueueCollect(w)
    \/ CollectRun(w) \/ CollectCancel(w) \/ CollectLoad(w) \/ CollectRead(w)
    \/ CollectCommit(w) \/ CollectRefresh(w)
    \/ CompleteJob(w) \/ RecordFailure(w) \/ FailJob(w)

WorkerStep(w) == StageStep(w) \/ \E id \in JobIds : ClaimJob(w, id)

Next ==
    \/ \E r \in Runners : RunnerStep(r) \/ RunnerCrash(r)
    \/ \E t \in tasks : Heartbeat(t) \/ Shutdown(t)
    \/ \E g \in Gens : DispatchLapses(g)
    \/ \E w \in Workers : WorkerStep(w) \/ Outage(w)
    \/ \E id \in JobIds : JobLapses(id)
    \/ QueueRuntime \/ FailElsewhere \/ Route
    \/ AutoApprove \/ ApproveArtifact \/ ManualApprove \/ Retry

Spec == Init /\ [][Next]_vars

(* The artifact workers poll the queue for ever and their handlers are     *)
(* awaited to the end; the orchestrator queues what is due.  Nothing is    *)
(* assumed of the runners.                                                 *)
FairSpec == Spec /\ \A w \in Workers : WF_vars(WorkerStep(w))

(* The runners poll and finish too, and time passes.                       *)
FairRunnerSpec ==
    /\ FairSpec
    /\ \A r \in Runners : WF_vars(RunnerStep(r))
    /\ \A g \in Gens : WF_vars(DispatchLapses(g))
-----------------------------------------------------------------------------
WorkerState == [job : JobIds \cup {None}, at : Stages, tries : 0..JobAttempts, run : Gens,
                next : 0..(MaxPolls + 1), seen : Dispatch, verdict : {"none"} \cup Ended,
                retry : BOOLEAN]

TypeOK ==
    /\ artifact \in Reviewable \cup {"approved"}
    /\ gen \in Gens
    /\ run \in [Gens -> {"none", "running"} \cup Ended]
    /\ dispatch \in [Gens -> Dispatch]
    /\ result \in [Gens -> [Attempts -> {"none", "passed", "broken"}]]
    /\ tasks \subseteq Task
    /\ jobs \in [JobIds -> Job]
    /\ worker \in [Workers -> WorkerState]
    /\ left \subseteq Gens
    /\ happened \in 0..MaxEvents

(* A runtime run succeeds only on the stored, passing result of the last   *)
(* attempt at its dispatch, whichever of several attempts, runners and     *)
(* collectors were late (runtime_dispatch.py, collect).                    *)
CreditIsEarned ==
    \A g \in Gens : run[g] = "succeeded" =>
        /\ dispatch[g].status = "succeeded"
        /\ dispatch[g].collected
        /\ dispatch[g].key = dispatch[g].attempts
        /\ result[g][dispatch[g].key] = "passed"

(* No dispatch is opened, and none is opened again, once the artifact is   *)
(* approved, by a stage that began before it or by a runner that is late:  *)
(* what is open then was open at the approval, and a manual approval       *)
(* leaves none of any attempt (manual_review.py, create_runtime_dispatch). *)
ApprovalEndsRuntime == artifact = "approved" => OpenDispatches \subseteq left

(* A retried review runs the plugin once at a time: at most one attempt of *)
(* the review has an open dispatch (manual_review.py, review_action).      *)
OneOpenDispatch == Cardinality({g \in Gens : dispatch[g].status \in Open}) <= 1

(* A completion refers to a result object that is stored: the runner puts  *)
(* the object before it completes (worker.py, _process_work).              *)
CompletedResultIsStored ==
    \A g \in Gens : dispatch[g].key > 0 => result[g][dispatch[g].key] # "none"

(* Every step is one of the contract's, or none.                           *)
Contract == INSTANCE RuntimeContract
    WITH offer     <- [g \in Gens |-> dispatch[g].status],
         collected <- [g \in Gens |-> dispatch[g].collected],
         run       <- run

ImplementsRuntimeContract == Contract!Spec

(* The runtime run of a review that goes on is settled, even if no runner  *)
(* ever answers: the bounded polls of the collect stage end it             *)
(* (stages/runtime.py).                                                    *)
RunsSettle ==
    \A g \in Gens : run[g] = "running"
                      ~> run[g] # "running" \/ gen > g \/ artifact = "approved"

(* What the design promises of dispatches and the code does not keep: a    *)
(* runner that dies in the last attempt leaves its dispatch open, and a    *)
(* review that failed elsewhere can never be retried.                      *)
DispatchesEnd ==
    \A g \in Gens : dispatch[g].status = "running" ~> dispatch[g].status # "running"
=============================================================================
