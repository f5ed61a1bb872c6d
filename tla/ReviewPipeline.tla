--------------------------- MODULE ReviewPipeline --------------------------
(***************************************************************************)
(* The automated review of one artifact: the jobs of precheck, of the      *)
(* stages of its policy and of routing, the workers that execute them, the *)
(* orchestrator that every completed stage runs to queue what is due, the  *)
(* repository's review transitions and decisions, and the administrators.  *)
(* One action per transaction; what a stage computes between two of them   *)
(* is a choice among its results.                                          *)
(*                                                                         *)
(* A manual retry supersedes the jobs and the runs of the attempt before,  *)
(* except precheck's; gen counts the attempts, and jobs and runs are those *)
(* of the current one.  Precheck and static jobs carry their own           *)
(* idempotency keys, so a static job may also come from the orchestrator   *)
(* under another key ("static_again").  The runtime stage is one unit      *)
(* here; RuntimeDispatch has its inside.                                   *)
(***************************************************************************)
EXTENDS Naturals, Sequences, FiniteSets

CONSTANTS
    Workers,       \* artifact-worker processes
    None,          \* no owner, no job
    Required,      \* the policy's required_stages
    Ready,         \* the stages whose tool is configured
    Modes,         \* the values advanced_review_enabled may have
    FailClosed,    \* the policy's on_unknown, on_unavailable and degraded_action
    AutoApprove,   \* the policy's routing.auto_approve
    Attempts,      \* artifact_jobs.max_attempts of the review jobs
    MaxRetries,    \* bound: manual retries of the review
    Events,        \* which of EventKinds may happen
    MaxEvents      \* bound: how many of them happen

(* A worker dies, or is stalled past its lease; a call of it fails; a      *)
(* stage fails for good; the repository gets a new version; a person       *)
(* decides.                                                                *)
EventKinds == {"crash", "pause", "outage", "refusal", "release", "person"}

(* _STAGE_PHASES, and the order of the stages inside it.                   *)
Order == <<"static", "diff", "import_graph", "clamav", "yara", "runtime", "dependency",
           "category", "llm_package", "llm_file", "llm_summary">>

Phase == [static |-> 1, diff |-> 2, import_graph |-> 3, clamav |-> 4, yara |-> 4,
          runtime |-> 5, dependency |-> 6, category |-> 7, llm_package |-> 8,
          llm_file |-> 9, llm_summary |-> 10]

ASSUME ConstantsAssumption ==
    /\ None \notin Workers
    /\ Required \subseteq DOMAIN Phase /\ "static" \in Required
    /\ "llm_file" \in Required => "llm_package" \in Required
    /\ Ready \subseteq Required /\ "static" \in Ready
    /\ Modes \subseteq BOOLEAN /\ {FailClosed, AutoApprove} \subseteq BOOLEAN
    /\ Attempts \in Nat \ {0} /\ {MaxRetries, MaxEvents} \subseteq Nat
    /\ Events \subseteq EventKinds

VARIABLES
    advanced,    \* advanced_review_enabled of the deployment
    status,      \* plugin_artifacts.review_status
    gen,         \* the attempt at the review that is not superseded
    decision,    \* which review_decisions row ended the review
    manifest,    \* whether the artifact has its tree_sha256
    current,     \* whether its version is still the repository's
    runs,        \* review_runs by type, in the order of creation
    scanned,     \* whether a static run has ever succeeded
    jobs,        \* artifact_jobs
    covered,     \* automated_review_completed_at is set
    announced,   \* outbox_events, by the suffix of their dedupe_key
    worker,      \* what an artifact worker executes
    happened     \* how many events have happened

vars == <<advanced, status, gen, decision, manifest, current, runs, scanned, jobs, covered,
          announced, worker, happened>>
-----------------------------------------------------------------------------
(* The data.                                                               *)

Gens   == 1..(MaxRetries + 1)
JobIds == {"precheck", "static_again", "route"} \cup Required
Types  == {"precheck", "route"} \cup Required

(* review_run_type_for_job                                                 *)
TypeOf(id) == IF id = "static_again" THEN "static" ELSE id

Undecided  == {"quarantined", "prechecking", "scanning", "pending_review", "processing_failed"}
Decided    == {"approved", "rejected", "changes_requested"}
Reviewable == {"scanning", "pending_review", "processing_failed"}

(* _ARTIFACT_TERMINAL_STATUSES of the orchestrator                         *)
Closed == Decided \cup {"processing_failed"}

(* REVIEW_TRANSITIONS and _validate_transition                             *)
Successors ==
    [quarantined       |-> {"prechecking", "rejected"},
     prechecking       |-> {"scanning", "rejected", "processing_failed"},
     scanning          |-> {"pending_review", "approved", "rejected", "processing_failed"},
     pending_review    |-> {"changes_requested", "approved", "rejected"},
     processing_failed |-> {"prechecking", "scanning", "rejected"},
     approved          |-> {},
     rejected          |-> {},
     changes_requested |-> {}]

MayBecome(target) == status = target \/ target \in Successors[status]

(* The status and coverage of a run.  "partial": succeeded, but the result *)
(* is not complete; "infected": blocked on a finding that rejects at once; *)
(* a synthetic run has the reason the orchestrator gave for it.            *)
RunStates == {"running", "completed", "partial", "blocked", "infected", "degraded", "skipped",
              "failed", "cancelled"}
Reasons   == {"none", "upstream_blocked", "upstream_degraded", "upstream_failed",
              "upstream_incomplete", "stage_tool_unavailable"}
Run       == [state : RunStates, reason : Reasons]

NewRun == [state |-> "running", reason |-> "none"]
NoRun  == [state |-> "none", reason |-> "none"]

(* "absent": no row under the key that the current attempt uses.           *)
Job == [status : {"absent", "queued", "running", "succeeded", "failed", "cancelled"},
        attempts : 0..Attempts, owner : Workers \cup {None}, lapsed : BOOLEAN]

NoJob  == [status |-> "absent", attempts |-> 0, owner |-> None, lapsed |-> FALSE]
NewJob == [NoJob EXCEPT !.status = "queued"]

Steps == {"idle", "recover", "load", "recovered", "admit", "open", "inspect", "close_precheck",
          "start_scanning", "enqueue_static", "execute", "decide", "pend", "evaluate",
          "open_route", "apply_route", "conflict", "close_route", "cover", "announce",
          "read_artifact", "read_runs", "read_jobs", "act", "done", "record", "fail"}

Routes == {"auto_reject", "manual_review", "auto_approve"}

Idle == [job |-> None, gen |-> 1, tries |-> 0, at |-> "idle", seen |-> "none", fresh |-> FALSE,
         run |-> <<0, 0>>, what |-> "none", retry |-> FALSE, latest |-> [s \in Required |-> NoRun],
         units |-> [s \in Required |-> "none"]]

Happens(kind) == /\ kind \in Events
                 /\ happened < MaxEvents
                 /\ happened' = happened + 1

Go(w, next) == worker' = [worker EXCEPT ![w].at = next]

(* What a worker knows of its job apart from the stage's locals.           *)
Frame(w) == [Idle EXCEPT !.job = worker[w].job, !.gen = worker[w].gen, !.tries = worker[w].tries]

Leave(w) == worker' = [worker EXCEPT ![w] = [Frame(w) EXCEPT !.at = "done"]]

(* The stage raises, or returns a failure.                                 *)
Raise(w, retry) ==
    worker' = [worker EXCEPT ![w] = [Frame(w) EXCEPT !.at = "record", !.retry = retry]]

(* After a stage's result: the orchestrator, where it is enabled.          *)
AfterStage(w) == [Frame(w) EXCEPT !.at = IF advanced THEN "read_artifact" ELSE "done"]
Proceed(w) == worker' = [worker EXCEPT ![w] = AfterStage(w)]

Type(w) == TypeOf(worker[w].job)
-----------------------------------------------------------------------------
(* The repository.                                                         *)

(* create_review_run: a row of the attempt that is current now, whichever  *)
(* attempt its writer belongs to.                                          *)
AppendRun(type, run) == runs' = [runs EXCEPT ![type] = Append(@, run)]

(* complete_review_run: whatever the run's status is, unless a manual      *)
(* approval has cancelled it.  A superseded run is not looked at again.    *)
CompleteRun(w, state) ==
    LET g == worker[w].run[1]
        i == worker[w].run[2]
    IN  runs' = IF g = gen /\ runs[Type(w)][i].state # "cancelled"
                THEN [runs EXCEPT ![Type(w)][i].state = state]
                ELSE runs

(* fail_open_review_runs: every open run of the type.                      *)
FailOpenRuns(type) ==
    runs' = [runs EXCEPT ![type] =
               [i \in DOMAIN @ |-> IF @[i].state = "running"
                                   THEN [@[i] EXCEPT !.state = "failed"] ELSE @[i]]]

(* A run of the type has the status succeeded.                             *)
Succeeded(type) ==
    \E i \in DOMAIN runs[type] :
        \/ runs[type][i].state \in {"completed", "partial"}
        \/ type = "static" /\ runs[type][i].state = "blocked"
        \/ type = "diff" /\ runs[type][i].state = "degraded" /\ runs[type][i].reason = "none"

(* A bug: the queue does not look at the artifact.                         *)
NeverRefused == TRUE

(* enqueue_job: refused once the artifact is approved; an existing row     *)
(* under the key is left as it is.                                         *)
MayEnqueue == status # "approved"
Enqueue(id) == jobs' = IF jobs[id].status = "absent" THEN [jobs EXCEPT ![id] = NewJob] ELSE jobs

(* decide_artifact with action auto_reject: the decision that is already   *)
(* there under the key, or a new one on an undecided artifact.             *)
MayReject(by) == status \in Undecided \/ decision = by
AutoReject(by) ==
    /\ status' = "rejected"
    /\ decision' = by

OwnsJob(w) ==
    LET id == worker[w].job IN
    /\ worker[w].at # "idle" /\ worker[w].gen = gen
    /\ jobs[id].status = "running"
    /\ jobs[id].owner = w
-----------------------------------------------------------------------------
Init ==
    /\ advanced \in Modes
    /\ status = "quarantined"
    /\ gen = 1
    /\ decision = "none"
    /\ manifest = FALSE
    /\ current = TRUE
    /\ runs = [t \in Types |-> <<>>]
    /\ scanned = FALSE
    /\ jobs = [id \in JobIds |-> IF id = "precheck" THEN NewJob ELSE NoJob]
    /\ covered = FALSE
    /\ announced = {}
    /\ worker = [w \in Workers |-> Idle]
    /\ happened = 0
-----------------------------------------------------------------------------
(* The queue and the worker's frame around a stage.                        *)

(* A bug: the attempts are not looked at.                                  *)
ClaimForEver(w, id) ==
    /\ worker[w].at = "idle"
    /\ jobs[id].status = "queued" \/ (jobs[id].status = "running" /\ jobs[id].lapsed)
    /\ jobs' = [jobs EXCEPT ![id].status = "running", ![id].owner = w, ![id].lapsed = FALSE,
                            ![id].attempts = @ + 1]
    /\ worker' = [worker EXCEPT ![w] = [Idle EXCEPT !.job = id, !.gen = gen, !.tries = 1,
                                                    !.at = "recover"]]
    /\ UNCHANGED <<advanced, status, gen, decision, manifest, current, runs, scanned, covered,
                   announced, happened>>

(* claim_jobs: a queued job, or one whose lease has lapsed, while an       *)
(* attempt is left.                                                        *)
ClaimJob(w, id) ==
    /\ worker[w].at = "idle"
    /\ jobs[id].attempts < Attempts
    /\ jobs[id].status = "queued" \/ (jobs[id].status = "running" /\ jobs[id].lapsed)
    /\ jobs' = [jobs EXCEPT ![id] = [@ EXCEPT !.status = "running", !.owner = w, !.lapsed = FALSE,
                                              !.attempts = jobs[id].attempts + 1]]
    /\ worker' = [worker EXCEPT ![w] =
                     [Idle EXCEPT !.job = id, !.gen = gen, !.tries = jobs'[id].attempts,
                                  !.at = IF jobs'[id].attempts > 1 THEN "recover" ELSE "load"]]
    /\ UNCHANGED <<advanced, status, gen, decision, manifest, current, runs, scanned, covered,
                   announced, happened>>

(* A stalled worker does not renew its lease.                              *)
Pause(w) ==
    /\ OwnsJob(w) /\ ~jobs[worker[w].job].lapsed
    /\ Happens("pause")
    /\ jobs' = [jobs EXCEPT ![worker[w].job].lapsed = TRUE]
    /\ UNCHANGED <<advanced, status, gen, decision, manifest, current, runs, scanned, covered,
                   announced, worker>>

Crash(w) ==
    /\ worker[w].at # "idle"
    /\ Happens("crash")
    /\ jobs' = IF OwnsJob(w) THEN [jobs EXCEPT ![worker[w].job].lapsed = TRUE] ELSE jobs
    /\ worker' = [worker EXCEPT ![w] = Idle]
    /\ UNCHANGED <<advanced, status, gen, decision, manifest, current, runs, scanned, covered,
                   announced>>

(* Any call of a stage or of the orchestrator fails, or the stage finds    *)
(* its input unfit for good.                                               *)
Outage(w) ==
    /\ worker[w].at \notin {"idle", "recover", "load", "done", "record", "fail"}
    /\ \/ Happens("outage") /\ Raise(w, TRUE)
       \/ worker[w].at \in {"inspect", "execute"} /\ Happens("refusal") /\ Raise(w, FALSE)
    /\ UNCHANGED <<advanced, status, gen, decision, manifest, current, runs, scanned, jobs, covered,
                   announced>>

(* _run_review_stage of a later attempt: the attempt before lost its lease.*)
Recover(w) ==
    /\ worker[w].at = "recover"
    /\ IF Type(w) = "runtime" THEN UNCHANGED runs ELSE FailOpenRuns(Type(w))
    /\ Go(w, "load")
    /\ UNCHANGED <<advanced, status, gen, decision, manifest, current, scanned, jobs, covered,
                   announced, happened>>

(* The artifact is read once; the stage works on this snapshot.  Which     *)
(* statuses a stage starts from is in the stage.                           *)
Load(w) ==
    LET starts == CASE Type(w) = "precheck" -> {"quarantined", "processing_failed", "prechecking"}
                    [] OTHER -> {"scanning"}
        first == CASE Type(w) = "precheck" /\ status # "prechecking" -> "admit"
                   [] Type(w) = "route" -> "evaluate"
                   [] OTHER -> "open"
    IN
    /\ worker[w].at = "load"
    /\ worker' = [worker EXCEPT ![w] =
                     CASE status \in Decided -> [@ EXCEPT !.at = "done"]
                       [] status \in starts  -> [@ EXCEPT !.at = first, !.fresh = current]
                       [] OTHER -> [@ EXCEPT !.at = "recovered", !.seen = status]]
    /\ UNCHANGED <<advanced, status, gen, decision, manifest, current, runs, scanned, jobs, covered,
                   announced, happened>>

CompleteJob(w) ==
    /\ worker[w].at = "done"
    /\ jobs' = IF OwnsJob(w)
               THEN [jobs EXCEPT ![worker[w].job] = [@ EXCEPT !.status = "succeeded", !.owner = None,
                                                              !.lapsed = FALSE]]
               ELSE jobs
    /\ worker' = [worker EXCEPT ![w] = Idle]
    /\ UNCHANGED <<advanced, status, gen, decision, manifest, current, runs, scanned, covered,
                   announced, happened>>

(* _record_stage_failure: the open runs of the type fail at every failure, *)
(* the review only when the job will not be tried again.                   *)
RecordFailure(w) ==
    LET again == worker[w].retry /\ worker[w].tries < Attempts IN
    /\ worker[w].at = "record"
    /\ IF Type(w) = "runtime" /\ again THEN UNCHANGED runs ELSE FailOpenRuns(Type(w))
    /\ status' = IF ~again /\ status \in {"prechecking", "scanning"}
                 THEN "processing_failed" ELSE status
    /\ Go(w, "fail")
    /\ UNCHANGED <<advanced, gen, decision, manifest, current, scanned, jobs, covered, announced,
                   happened>>

FailJob(w) ==
    LET id == worker[w].job
        again == worker[w].retry /\ jobs[id].attempts < Attempts
    IN
    /\ worker[w].at = "fail"
    /\ jobs' = IF OwnsJob(w)
               THEN [jobs EXCEPT ![id] = [@ EXCEPT !.status = IF again THEN "queued" ELSE "failed",
                                                   !.owner = None, !.lapsed = FALSE]]
               ELSE jobs
    /\ worker' = [worker EXCEPT ![w] = Idle]
    /\ UNCHANGED <<advanced, status, gen, decision, manifest, current, runs, scanned, covered,
                   announced, happened>>
-----------------------------------------------------------------------------
(* PrecheckStage.                                                          *)

(* transition_review_status to prechecking.                                *)
Admit(w) ==
    /\ worker[w].at = "admit"
    /\ IF MayBecome("prechecking")
       THEN status' = "prechecking" /\ Go(w, "open")
       ELSE Raise(w, TRUE) /\ UNCHANGED status
    /\ UNCHANGED <<advanced, gen, decision, manifest, current, runs, scanned, jobs, covered,
                   announced, happened>>

(* The archive is refused and its run closed, or accepted and its manifest *)
(* stored, which needs the artifact to be in precheck still.               *)
Inspect(w) ==
    /\ worker[w].at = "inspect"
    /\ \/ /\ CompleteRun(w, "failed")
          /\ worker' = [worker EXCEPT ![w] = [@ EXCEPT !.at = "decide", !.what = "precheck"]]
          /\ UNCHANGED manifest
       \/ /\ IF status = "prechecking"
             THEN manifest' = TRUE /\ Go(w, "close_precheck")
             ELSE Raise(w, FALSE) /\ UNCHANGED manifest
          /\ UNCHANGED runs
    /\ UNCHANGED <<advanced, status, gen, decision, current, scanned, jobs, covered, announced,
                   happened>>

ClosePrecheck(w) ==
    /\ worker[w].at = "close_precheck"
    /\ CompleteRun(w, "completed")
    /\ Go(w, "start_scanning")
    /\ UNCHANGED <<advanced, status, gen, decision, manifest, current, scanned, jobs, covered,
                   announced, happened>>

StartScanning(w) ==
    /\ worker[w].at = "start_scanning"
    /\ IF MayBecome("scanning")
       THEN status' = "scanning" /\ Go(w, "enqueue_static")
       ELSE Raise(w, TRUE) /\ UNCHANGED status
    /\ UNCHANGED <<advanced, gen, decision, manifest, current, runs, scanned, jobs, covered,
                   announced, happened>>

EnqueueStatic(w) ==
    /\ worker[w].at = "enqueue_static"
    /\ IF MayEnqueue
       THEN Enqueue("static") /\ Proceed(w)
       ELSE Raise(w, TRUE) /\ UNCHANGED jobs
    /\ UNCHANGED <<advanced, status, gen, decision, manifest, current, runs, scanned, covered,
                   announced, happened>>
-----------------------------------------------------------------------------
(* The stages.                                                             *)

(* What a stage may find; the handlers differ in what they do with a tool  *)
(* that fails and with findings.                                           *)
OnToolFailure  == IF FailClosed THEN "blocked" ELSE "degraded"

StaticResults     == {"completed", "blocked"}
DiffResults       == {"completed", "partial", "degraded"}
GraphResults      == {"completed", "partial"}
ClamAvResults     == {"completed", "infected", OnToolFailure}
YaraResults       == {"completed", "infected", OnToolFailure}
RuntimeResults    == {"completed", "failed"}
DependencyResults == {"completed", "blocked", OnToolFailure}
CategoryResults   == {"completed", "skipped", "degraded"}
PackageResults    == {"completed", "partial", "skipped", "degraded"}
FileResults       == {"completed", "partial", "skipped", "degraded"}
SummaryResults    == {"completed", "partial", "skipped", "degraded"}

Results == [static |-> StaticResults, diff |-> DiffResults, import_graph |-> GraphResults,
            clamav |-> ClamAvResults, yara |-> YaraResults, runtime |-> RuntimeResults,
            dependency |-> DependencyResults, category |-> CategoryResults,
            llm_package |-> PackageResults, llm_file |-> FileResults,
            llm_summary |-> SummaryResults]

(* A stage that finds the artifact in another status: what an earlier      *)
(* attempt has finished stands, with its effects; anything else fails.     *)
RecoverStatic(w) ==
    /\ Type(w) \in {"precheck", "static"}
    /\ IF Succeeded(Type(w)) THEN Proceed(w) ELSE Raise(w, FALSE)

(* _recover_terminal_run and _ensure_terminal_effects: by the last run     *)
(* that has ended.                                                         *)
RecoverMalware(w) ==
    LET type == Type(w)
        ended == {i \in DOMAIN runs[type] : runs[type][i].state # "running"}
        last == CHOOSE i \in ended : \A j \in ended : j <= i
        state == IF ended = {} THEN "none" ELSE runs[type][last].state
    IN
    /\ type \in {"clamav", "yara"}
    /\ CASE state = "infected" ->
              worker' = [worker EXCEPT ![w] = [@ EXCEPT !.at = "decide", !.what = type]]
         [] state \in {"completed", "blocked", "degraded"} -> Proceed(w)
         [] OTHER -> Raise(w, FALSE)

(* RoutingStage._recovered_outcome: the run of a routing that has taken    *)
(* effect is closed now.                                                   *)
RecoverRoute(w) ==
    LET open == {i \in DOMAIN runs["route"] : runs["route"][i].state = "running"} IN
    /\ Type(w) = "route"
    /\ CASE worker[w].seen = "pending_review" /\ Succeeded("route") -> Proceed(w)
         [] worker[w].seen = "pending_review" /\ ~Succeeded("route") /\ open # {} ->
              worker' = [worker EXCEPT ![w] =
                           [@ EXCEPT !.at = "close_route", !.what = "manual_review",
                                     !.run = <<gen, CHOOSE i \in open : TRUE>>]]
         [] OTHER -> Raise(w, FALSE)

RefuseStatus(w) ==
    /\ Type(w) \notin {"precheck", "static", "clamav", "yara", "route"}
    /\ Raise(w, FALSE)

Recovered(w) ==
    /\ worker[w].at = "recovered"
    /\ RecoverStatic(w) \/ RecoverMalware(w) \/ RecoverRoute(w) \/ RefuseStatus(w)
    /\ UNCHANGED <<advanced, status, gen, decision, manifest, current, runs, scanned, jobs, covered,
                   announced, happened>>

(* create_review_run under the stage's idempotency key: a new run for each *)
(* attempt at the job, but one for all of dependency's, which is returned  *)
(* however it has ended.  Diff and import graph reuse a run that succeeded.*)
Open(w) ==
    LET type == Type(w)
        real == {i \in DOMAIN runs[type] : runs[type][i].reason = "none"}
        next == IF type = "precheck" THEN "inspect" ELSE "execute"
    IN
    /\ worker[w].at = "open"
    /\ CASE type \in {"diff", "import_graph"} /\ Succeeded(type) ->
              Proceed(w) /\ UNCHANGED runs
         [] type = "dependency" /\ real # {} ->
              LET i == CHOOSE i \in real : TRUE IN
              /\ worker' = [worker EXCEPT ![w] =
                    IF runs[type][i].state = "running"
                    THEN [@ EXCEPT !.at = "execute", !.run = <<gen, i>>]
                    ELSE AfterStage(w)]
              /\ UNCHANGED runs
         [] OTHER ->
              /\ AppendRun(type, NewRun)
              /\ worker' = [worker EXCEPT ![w] = [@ EXCEPT !.at = next,
                                                  !.run = <<gen, Len(runs[type]) + 1>>]]
    /\ UNCHANGED <<advanced, status, gen, decision, manifest, current, scanned, jobs, covered,
                   announced, happened>>

(* The stage's result is written into its run.                             *)
Execute(w) ==
    LET type == Type(w) IN
    /\ worker[w].at = "execute"
    /\ \E result \in Results[type] :
          /\ CompleteRun(w, result)
          /\ scanned' = (scanned \/ type = "static")
          /\ worker' = [worker EXCEPT ![w] =
                CASE result = "infected" \/ (type = "static" /\ result = "blocked") ->
                       [@ EXCEPT !.at = "decide", !.what = type]
                  [] type = "static" /\ result = "completed" /\ ~advanced -> [@ EXCEPT !.at = "pend"]
                  [] OTHER -> AfterStage(w)]
    /\ UNCHANGED <<advanced, status, gen, decision, manifest, current, jobs, covered, announced,
                   happened>>

(* decide_artifact by precheck, static and malware stages; a malware stage *)
(* takes a standing rejection for its own.                                 *)
Decide(w) ==
    LET by == worker[w].what
        stands == status = "rejected" /\ by \in {"clamav", "yara"}
    IN
    /\ worker[w].at = "decide"
    /\ IF MayReject(by) \/ stands
       THEN /\ IF MayReject(by) THEN AutoReject(by) ELSE UNCHANGED <<status, decision>>
            /\ Go(w, "announce")
       ELSE Raise(w, TRUE) /\ UNCHANGED <<status, decision>>
    /\ UNCHANGED <<advanced, gen, manifest, current, runs, scanned, jobs, covered, announced,
                   happened>>

(* Without the advanced review a static scan hands over to a person.       *)
Pend(w) ==
    /\ worker[w].at = "pend"
    /\ IF MayBecome("pending_review")
       THEN /\ status' = "pending_review"
            /\ worker' = [worker EXCEPT ![w] = [@ EXCEPT !.at = "announce",
                                                         !.what = "manual_review"]]
       ELSE Raise(w, TRUE) /\ UNCHANGED status
    /\ UNCHANGED <<advanced, gen, decision, manifest, current, runs, scanned, jobs, covered,
                   announced, happened>>

(* emit_status: once per suffix, which does not name the attempt.          *)
Announce(w) ==
    /\ worker[w].at = "announce"
    /\ announced' = announced \cup {worker[w].what}
    /\ Proceed(w)
    /\ UNCHANGED <<advanced, status, gen, decision, manifest, current, runs, scanned, jobs, covered,
                   happened>>
-----------------------------------------------------------------------------
(* RoutingStage.                                                           *)

(* The last run of every required stage, as an evaluation sees it.         *)
LatestRun(s) == IF runs[s] = <<>> THEN NoRun ELSE runs[s][Len(runs[s])]

(* _DETERMINISTIC_GATE_TYPES                                               *)
Gates == {"static", "diff", "import_graph", "runtime", "clamav", "yara", "dependency"}

Blocking   == {"blocked", "infected"}
Incomplete == {"running", "degraded", "skipped", "failed", "cancelled"}

(* A bug: only the deterministic gates have to have passed.                *)
RouteOfGates(fresh, finding) ==
    LET state == [s \in Required |-> LatestRun(s).state]
        gates == Gates \cap Required
    IN  CASE finding = "reject" \/ \E s \in gates : state[s] \in Blocking -> "auto_reject"
          [] FailClosed /\ \E s \in gates : state[s] \in Incomplete -> "auto_reject"
          [] finding = "review" \/ ~fresh \/ \E s \in gates : state[s] # "completed" ->
               "manual_review"
          [] OTHER -> "auto_approve"

(* RoutingEvaluator.evaluate: what the runs, the version and the open      *)
(* findings lead to.                                                       *)
Route(fresh, finding) ==
    LET state == [s \in Required |-> LatestRun(s).state]
        gates == Gates \cap Required
    IN  CASE finding = "reject" \/ \E s \in gates : state[s] \in Blocking -> "auto_reject"
          [] FailClosed /\ \E s \in gates : state[s] \in Incomplete -> "auto_reject"
          [] finding = "review" \/ ~fresh \/ ~AutoApprove
               \/ \E s \in Required : state[s] # "completed" -> "manual_review"
          [] OTHER -> "auto_approve"

Evaluate(w) ==
    /\ worker[w].at = "evaluate"
    /\ \E finding \in {"none", "review", "reject"} :
          worker' = [worker EXCEPT ![w] = [@ EXCEPT !.at = "open_route",
                                                    !.what = Route(worker[w].fresh, finding),
                                                    !.fresh = FALSE]]
    /\ UNCHANGED <<advanced, status, gen, decision, manifest, current, runs, scanned, jobs, covered,
                   announced, happened>>

OpenRoute(w) ==
    /\ worker[w].at = "open_route"
    /\ AppendRun("route", NewRun)
    /\ worker' = [worker EXCEPT ![w] = [@ EXCEPT !.at = "apply_route",
                                                 !.run = <<gen, Len(runs["route"]) + 1>>]]
    /\ UNCHANGED <<advanced, status, gen, decision, manifest, current, scanned, jobs, covered,
                   announced, happened>>

(* What _apply_route's call finds in its transaction: its own decision     *)
(* from an earlier attempt, or an artifact it can still be taken on.  Runs *)
(* that had succeeded at the evaluation have succeeded for good.           *)
RouteApplies(route) ==
    CASE route = "auto_reject"   -> MayReject(route)
      [] route = "auto_approve"  -> decision = route \/ (status = "scanning" /\ current)
      [] route = "manual_review" -> MayBecome("pending_review")

ApplyRoute(w) ==
    LET route == worker[w].what IN
    /\ worker[w].at = "apply_route"
    /\ IF RouteApplies(route)
       THEN /\ status' = CASE route = "auto_reject" -> "rejected"
                           [] route = "auto_approve" -> "approved"
                           [] route = "manual_review" -> "pending_review"
            /\ decision' = IF route = "manual_review" THEN decision ELSE route
            /\ Go(w, "close_route")
       ELSE Go(w, "conflict") /\ UNCHANGED <<status, decision>>
    /\ UNCHANGED <<advanced, gen, manifest, current, runs, scanned, jobs, covered, announced,
                   happened>>

Conflict(w) ==
    /\ worker[w].at = "conflict"
    /\ CompleteRun(w, "failed")
    /\ Raise(w, FALSE)
    /\ UNCHANGED <<advanced, status, gen, decision, manifest, current, scanned, jobs, covered,
                   announced, happened>>

CloseRoute(w) ==
    /\ worker[w].at = "close_route"
    /\ CompleteRun(w, "completed")
    /\ Go(w, "cover")
    /\ UNCHANGED <<advanced, status, gen, decision, manifest, current, scanned, jobs, covered,
                   announced, happened>>

(* update_artifact_review_coverage with automated_review_completed.        *)
Cover(w) ==
    /\ worker[w].at = "cover"
    /\ covered' = TRUE
    /\ Go(w, "announce")
    /\ UNCHANGED <<advanced, status, gen, decision, manifest, current, runs, scanned, jobs,
                   announced, happened>>
-----------------------------------------------------------------------------
(* ReviewOrchestrator.reconcile: three reads, then one transaction for     *)
(* every unit that is due, by the states the reads add up to.              *)

Terminal == {"completed", "blocked", "degraded", "failed", "skipped"}

(* A bug: a run that is not at its end has failed.                         *)
RunStateOfEnded(run) ==
    CASE run.state \in {"completed", "partial"}  -> "completed"
      [] run.state \in {"blocked", "infected"}   -> "blocked"
      [] run.state \in {"running", "failed", "cancelled"} -> "failed"
      [] OTHER -> run.state

(* _run_state                                                              *)
RunState(run) ==
    CASE run.state \in {"completed", "partial"}  -> "completed"
      [] run.state \in {"blocked", "infected"}   -> "blocked"
      [] run.state \in {"failed", "cancelled"}   -> "failed"
      [] OTHER -> run.state

(* The job of a unit: any static job is as good as the orchestrator's.     *)
JobOf(s) == IF s = "static" /\ jobs["static_again"].status # "absent" THEN "static_again" ELSE s

(* A bug: the job that is being executed is taken for work to come.        *)
UnitStateOfJob(s, run) ==
    IF jobs[JobOf(s)].status \in {"queued", "running"} THEN "running"
    ELSE IF run = NoRun THEN "pending" ELSE RunState(run)

(* _unit_state                                                             *)
UnitState(s, run) ==
    LET job == jobs[JobOf(s)].status
        active == job \in {"queued", "running"}
        ended == RunState(run) \in Terminal
    IN  CASE ended /\ ~(active /\ run.reason # "none") -> RunState(run)
          [] active /\ (ended => run.reason # "none") -> "running"
          [] ~active /\ ~ended -> IF job = "absent" /\ run = NoRun THEN "pending" ELSE "failed"

Upstream(s) == {u \in Required : Phase[u] < Phase[s]}

(* _upstream_reason                                                        *)
UpstreamReason(states) ==
    CASE "blocked" \in states -> "upstream_blocked"
      [] "blocked" \notin states /\ "degraded" \in states -> "upstream_degraded"
      [] states \cap {"blocked", "degraded"} = {} /\ "failed" \in states -> "upstream_failed"
      [] OTHER -> "upstream_incomplete"

Position(s) == CHOOSE i \in DOMAIN Order : Order[i] = s

(* The pending units whose upstream has ended, in the order of the loop.   *)
Due(w) == {s \in Required : /\ worker[w].units[s] = "pending"
                            /\ \A u \in Upstream(s) : worker[w].units[u] \in Terminal}
FirstDue(w, s) == s \in Due(w) /\ \A t \in Due(w) : Position(s) <= Position(t)

UpstreamStates(w, s) == {worker[w].units[u] : u \in Upstream(s)}

ReadArtifact(w) ==
    /\ worker[w].at = "read_artifact"
    /\ IF status \in Closed THEN Leave(w) ELSE Go(w, "read_runs")
    /\ UNCHANGED <<advanced, status, gen, decision, manifest, current, runs, scanned, jobs, covered,
                   announced, happened>>

ReadRuns(w) ==
    /\ worker[w].at = "read_runs"
    /\ worker' = [worker EXCEPT ![w] = [@ EXCEPT !.at = "read_jobs",
                                                 !.latest = [s \in Required |-> LatestRun(s)]]]
    /\ UNCHANGED <<advanced, status, gen, decision, manifest, current, runs, scanned, jobs, covered,
                   announced, happened>>

ReadJobs(w) ==
    /\ worker[w].at = "read_jobs"
    /\ worker' = [worker EXCEPT ![w] =
                     [Frame(w) EXCEPT !.at = "act",
                               !.units = [s \in Required |-> UnitState(s, worker[w].latest[s])]]]
    /\ UNCHANGED <<advanced, status, gen, decision, manifest, current, runs, scanned, jobs, covered,
                   announced, happened>>

(* _record_synthetic_outcome: once per state and reason.                   *)
Synthesize(w, s, state, reason) ==
    LET run == [state |-> state, reason |-> reason] IN
    /\ IF \E i \in DOMAIN runs[s] : runs[s][i] = run THEN UNCHANGED runs ELSE AppendRun(s, run)
    /\ worker' = [worker EXCEPT ![w].units[s] = state]
    /\ UNCHANGED <<advanced, status, gen, decision, manifest, current, scanned, jobs, covered,
                   announced, happened>>

SkipStage(w, s) ==
    /\ worker[w].at = "act" /\ FirstDue(w, s)
    /\ UpstreamStates(w, s) \ {"completed"} # {}
    /\ Synthesize(w, s, "skipped", UpstreamReason(UpstreamStates(w, s)))

DegradeStage(w, s) ==
    /\ worker[w].at = "act" /\ FirstDue(w, s)
    /\ UpstreamStates(w, s) \subseteq {"completed"}
    /\ s \notin Ready
    /\ Synthesize(w, s, "degraded", "stage_tool_unavailable")

QueueStage(w, s) ==
    /\ worker[w].at = "act" /\ FirstDue(w, s)
    /\ UpstreamStates(w, s) \subseteq {"completed"}
    /\ s \in Ready
    /\ IF MayEnqueue
       THEN /\ Enqueue(IF s = "static" THEN "static_again" ELSE s)
            /\ worker' = [worker EXCEPT ![w].units[s] = "running"]
       ELSE Raise(w, TRUE) /\ UNCHANGED jobs
    /\ UNCHANGED <<advanced, status, gen, decision, manifest, current, runs, scanned, covered,
                   announced, happened>>

(* Every unit has ended: the route job, once.                              *)
QueueRoute(w) ==
    /\ worker[w].at = "act"
    /\ \A s \in Required : worker[w].units[s] \in Terminal
    /\ IF MayEnqueue
       THEN Enqueue("route") /\ Leave(w)
       ELSE Raise(w, TRUE) /\ UNCHANGED jobs
    /\ UNCHANGED <<advanced, status, gen, decision, manifest, current, runs, scanned, covered,
                   announced, happened>>

Wait(w) ==
    /\ worker[w].at = "act"
    /\ Due(w) = {}
    /\ \E s \in Required : worker[w].units[s] \notin Terminal
    /\ Leave(w)
    /\ UNCHANGED <<advanced, status, gen, decision, manifest, current, runs, scanned, jobs, covered,
                   announced, happened>>
-----------------------------------------------------------------------------
(* The administrators and the repository owner.                            *)

(* review_action manual_approve: the open jobs and runs end with it.       *)
ManualApprove ==
    /\ status \in Reviewable /\ manifest /\ current
    /\ Happens("person")
    /\ status' = "approved"
    /\ decision' = "manual_approve"
    /\ jobs' = [id \in JobIds |-> IF jobs[id].status \in {"queued", "running", "failed"}
                                  THEN [jobs[id] EXCEPT !.status = "cancelled", !.owner = None,
                                                        !.lapsed = FALSE]
                                  ELSE jobs[id]]
    /\ runs' = [t \in Types |->
                  [i \in DOMAIN runs[t] |-> IF runs[t][i].state = "running"
                                            THEN [runs[t][i] EXCEPT !.state = "cancelled"]
                                            ELSE runs[t][i]]]
    /\ UNCHANGED <<advanced, gen, manifest, current, scanned, covered, announced, worker>>

(* approve_artifact: precheck and static must have succeeded, in this      *)
(* attempt or a superseded one.                                            *)
Approve ==
    /\ status = "pending_review" /\ current /\ scanned /\ Succeeded("precheck")
    /\ Happens("person")
    /\ status' = "approved"
    /\ decision' = "approve"
    /\ UNCHANGED <<advanced, gen, manifest, current, runs, scanned, jobs, covered, announced, worker>>

(* decide_artifact with action reject, from the console.                   *)
Reject ==
    /\ status \in Undecided
    /\ Happens("person")
    /\ status' = "rejected"
    /\ decision' = "reject"
    /\ UNCHANGED <<advanced, gen, manifest, current, runs, scanned, jobs, covered, announced, worker>>

(* decide_artifact with action request_changes.                            *)
RequestChanges ==
    /\ status = "pending_review"
    /\ Happens("person")
    /\ status' = "changes_requested"
    /\ decision' = "request_changes"
    /\ UNCHANGED <<advanced, gen, manifest, current, runs, scanned, jobs, covered, announced, worker>>

(* review_action retry_review: refused while a job runs; the keys of the   *)
(* old jobs and runs are free again.                                       *)
Retry ==
    /\ status \in Reviewable
    /\ gen <= MaxRetries
    /\ \A id \in JobIds : jobs[id].status # "running"
    /\ gen' = gen + 1
    /\ status' = IF manifest THEN "scanning" ELSE "processing_failed"
    /\ runs' = [t \in Types |-> IF t = "precheck" THEN runs[t] ELSE <<>>]
    /\ jobs' = [id \in JobIds |-> IF id = (IF manifest THEN "static" ELSE "precheck")
                                  THEN NewJob ELSE NoJob]
    /\ covered' = FALSE
    /\ UNCHANGED <<advanced, decision, manifest, current, scanned, announced, worker, happened>>

(* The repository's version moves on.                                      *)
Release ==
    /\ current
    /\ Happens("release")
    /\ current' = FALSE
    /\ UNCHANGED <<advanced, status, gen, decision, manifest, runs, scanned, jobs, covered, announced,
                   worker>>
-----------------------------------------------------------------------------
StageStep(w) ==
    \/ Recover(w) \/ Load(w) \/ Recovered(w)
    \/ Admit(w) \/ Open(w) \/ Inspect(w) \/ ClosePrecheck(w) \/ StartScanning(w)
    \/ EnqueueStatic(w)
    \/ Execute(w) \/ Decide(w) \/ Pend(w) \/ Announce(w)
    \/ Evaluate(w) \/ OpenRoute(w) \/ ApplyRoute(w) \/ Conflict(w) \/ CloseRoute(w) \/ Cover(w)

ReconcileStep(w) ==
    \/ ReadArtifact(w) \/ ReadRuns(w) \/ ReadJobs(w)
    \/ \E s \in Required : SkipStage(w, s) \/ DegradeStage(w, s) \/ QueueStage(w, s)
    \/ QueueRoute(w) \/ Wait(w)

WorkerStep(w) ==
    \/ \E id \in JobIds : ClaimJob(w, id)
    \/ StageStep(w) \/ ReconcileStep(w)
    \/ CompleteJob(w) \/ RecordFailure(w) \/ FailJob(w)

People == ManualApprove \/ Approve \/ Reject \/ RequestChanges \/ Retry

Next ==
    \/ \E w \in Workers : WorkerStep(w) \/ Pause(w) \/ Crash(w) \/ Outage(w)
    \/ People \/ Release

Spec == Init /\ [][Next]_vars

(* The workers poll the queue for ever and await their handlers to the end.*)
FairSpec == Spec /\ \A w \in Workers : WF_vars(WorkerStep(w))
-----------------------------------------------------------------------------
Decisions == {"none", "precheck", "static", "clamav", "yara", "auto_reject", "auto_approve",
              "manual_approve", "approve", "reject", "request_changes"}

WorkerState ==
    [job : JobIds \cup {None}, gen : Gens, tries : 0..Attempts, at : Steps,
     seen : {"none"} \cup DOMAIN Successors, fresh : BOOLEAN,
     run : (0..(MaxRetries + 1)) \X Nat,
     what : {"none", "precheck", "static", "clamav", "yara"} \cup Routes, retry : BOOLEAN,
     latest : [Required -> Run \cup {NoRun}],
     units : [Required -> Terminal \cup {"none", "pending", "running"}]]

TypeOK ==
    /\ advanced \in BOOLEAN
    /\ status \in DOMAIN Successors
    /\ gen \in Gens
    /\ decision \in Decisions
    /\ {manifest, current, scanned, covered} \subseteq BOOLEAN
    /\ DOMAIN runs = Types /\ \A t \in Types : runs[t] \in Seq(Run)
    /\ jobs \in [JobIds -> Job]
    /\ announced \subseteq {"precheck", "static", "clamav", "yara"} \cup Routes
    /\ worker \in [Workers -> WorkerState]
    /\ happened \in 0..MaxEvents

(* The review keeps its contract: stages finish in the order of their      *)
(* phases, the policy approves only what every stage of this attempt has   *)
(* passed, decisions are final (orchestration.py, routing.py).             *)
Completes(s) == \E i \in DOMAIN runs[s] : runs[s][i].state = "completed"
Finishes(s)  == Completes(s) \/ \E i \in DOMAIN runs[s] : runs[s][i].state = "partial"

Contract == INSTANCE ReviewContract
    WITH Stages     <- Required,
         Phase      <- [s \in Required |-> Phase[s]],
         MaxAttempt <- MaxRetries + 1,
         attempt    <- gen,
         finished   <- {s \in Required : Finishes(s)},
         passed     <- {s \in Required : Completes(s)},
         approvedBy <- CASE decision = "auto_approve" -> "policy"
                         [] decision \in {"approve", "manual_approve"} -> "person"
                         [] OTHER -> "none"

ImplementsReviewContract == Contract!Spec

(* While a review goes on, a stage that could be executed is skipped only  *)
(* if something upstream of it went wrong at some time, or precheck had to *)
(* be tried again: two reconciles of parallel stages, each with its own    *)
(* snapshot, never talk each other into a skip (orchestration.py,          *)
(* reconcile).                                                             *)
Skips(s) == \E i \in DOMAIN runs[s] : runs[s][i].reason \notin {"none", "stage_tool_unavailable"}

(* The attempts at the jobs of a type.                                     *)
Tries(t) == {m \in JobIds \X (1..Attempts) : TypeOf(m[1]) = t /\ m[2] <= jobs[m[1]].attempts}
TriedAgain(t) == \E m, n \in Tries(t) : m # n

WentWrong(s) ==
    \/ \E i \in DOMAIN runs[s] : runs[s][i].state \notin {"running", "completed", "partial"}
    \/ \E id \in JobIds : TypeOf(id) = s /\ jobs[id].status = "failed"
    \/ TriedAgain(s)

SkipHasCause ==
    status \in {"scanning", "pending_review"} /\ ~TriedAgain("precheck") =>
        \A s \in Ready : Skips(s) => \E u \in Upstream(s) : WentWrong(u)

(* Once a person has approved, no review job waits or runs, whatever a     *)
(* reconcile was about to queue (manual_review.py, enqueue_job).           *)
ManualApprovalEndsReview ==
    decision = "manual_approve" => \A id \in JobIds : jobs[id].status \notin {"queued", "running"}

(* A review never stands still half way: the last of several parallel      *)
(* stages to end queues what comes next (orchestration.py, reconcile).     *)
ReviewEnds == status \in {"prechecking", "scanning"} ~> status \notin {"prechecking", "scanning"}

(* What the design says and the code does not keep.                        *)

(* The route job is created only when every required stage is done with:   *)
(* none of them waits for another attempt.                                 *)
RouteWaitsForStages ==
    jobs["route"].status = "queued" => \A s \in Required : jobs[s].status # "queued"
=============================================================================
