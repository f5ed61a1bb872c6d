---------------------------- MODULE MalwareScan ----------------------------
(***************************************************************************)
(* The two malware stages of a version under review, down to what their    *)
(* scanners look at: the files that fit into the limits of the policy, the *)
(* matches that fit into the helper's answer, the reply of clamd and the   *)
(* age of its database; and the automatic route that reads their runs.     *)
(***************************************************************************)
EXTENDS Naturals, Sequences, FiniteSets, SequencesExt

CONSTANTS
    Parcels,       \* packages: their files in the order of their paths
    MaxTargets, FileRoom, TotalRoom, MaxHits,   \* the policy's limits
    Bases,         \* versions of clamd's database
    Passes,        \* attempts at a stage's job
    MaxLapses      \* bound: leases that lapse

VARIABLES
    parcel,        \* the package: the size of each file, the tags of its rules' hits
    strict,        \* on_unknown of the malware policy is fail_closed
    screening,     \* a stage's attempt: its step, its result and its run
    screened,      \* a stage's job is done
    flags,         \* review_findings of the two stages, each with its attempt
    ruling,        \* the version's review status
    routing,       \* what the route is about to decide
    confirmed,     \* history: a critical finding was there for the route to read
    lapses         \* counts leases that lapsed

vars == <<parcel, strict, screening, screened, flags, ruling, routing, confirmed, lapses>>

Screens == {"clamav", "yara"}
NoResult == [whole |-> FALSE, hits |-> {}]
NotRun == [at |-> "none", result |-> NoResult, status |-> "none", outcome |-> "none"]

Init ==
    /\ parcel \in Parcels /\ strict \in BOOLEAN
    /\ screening = [s \in Screens |-> [t \in Passes |-> NotRun]]
    /\ screened = [s \in Screens |-> FALSE]
    /\ flags = {} /\ ruling = "scanning" /\ routing = "none" /\ confirmed = FALSE
    /\ lapses = 0
-----------------------------------------------------------------------------
Nothing == [targets |-> <<>>, total |-> 0, whole |-> TRUE, full |-> FALSE]

(* A bug: a file that is too large is passed over in silence.              *)
TakeQuietly(acc, i) ==
    LET size == parcel[i].size IN
    IF acc.full \/ size > FileRoom THEN acc
    ELSE IF i > MaxTargets \/ acc.total + size > TotalRoom
         THEN [acc EXCEPT !.whole = FALSE, !.full = TRUE]
    ELSE [acc EXCEPT !.targets = Append(@, i), !.total = @ + size]

(* _prepare_yara_targets: files beyond the number are cut off, one that is *)
(* too large is left out, and the first that the rest has no room for ends *)
(* the list; each is a reason why the scan is incomplete.                  *)
Take(acc, i) ==
    LET size == parcel[i].size IN
    IF acc.full THEN acc
    ELSE IF i <= MaxTargets /\ size > FileRoom THEN [acc EXCEPT !.whole = FALSE]
    ELSE IF i > MaxTargets \/ acc.total + size > TotalRoom
         THEN [acc EXCEPT !.whole = FALSE, !.full = TRUE]
    ELSE [acc EXCEPT !.targets = Append(@, i), !.total = @ + size]

Prepared == FoldLeft(Take, Nothing, [i \in 1..Len(parcel) |-> i])

HitsOf(i) == [k \in 1..Len(parcel[i].hits) |-> <<"yara", i, k>>]
Tag(hit) == IF hit[1] = "clamav" THEN "critical" ELSE parcel[hit[2]].hits[hit[3]]

(* A bug: an answer that is full is never reported as truncated.           *)
HelperCuts(found, late) ==
    [hits |-> ToSet(SubSeq(found, 1, IF Len(found) < MaxHits THEN Len(found) ELSE MaxHits)),
     whole |-> late = 0]

(* _yara_worker's _scan: the hits up to the limit, with a mark if there    *)
(* was one more, and up to the file that took too long, if one did.        *)
Helper(found, late) ==
    [hits |-> ToSet(SubSeq(found, 1, IF Len(found) < MaxHits THEN Len(found) ELSE MaxHits)),
     whole |-> late = 0 /\ Len(found) <= MaxHits]

(* What scan and _validated_yara_result make of the two: a hit that does   *)
(* not carry one severity makes an error of the whole result.              *)
YaraResult(late) ==
    LET ready == Prepared
        seen  == SelectSeq(ready.targets, LAMBDA i : late = 0 \/ i < late)
        found == FlattenSeq([n \in 1..Len(seen) |-> HitsOf(seen[n])])
        help  == Helper(found, late) IN
    IF \E hit \in help.hits : Tag(hit) = "untagged" THEN NoResult
    ELSE [whole |-> ready.whole /\ help.whole, hits |-> help.hits]

(* The scanner is not there, not the policy's, late or out of memory, or   *)
(* the stored package is not the artifact's: nothing is known.             *)
YaraResults ==
    {NoResult} \cup {YaraResult(late) : late \in {0} \cup ToSet(Prepared.targets)}

(* What clamd says of its database before it is asked, and its reply: a    *)
(* version that cannot be read is not fresh, a reply that cannot, unknown. *)
Stamps == [base : Bases, fresh : BOOLEAN]
Replies == {"clean", "infected", "unknown"}

(* Only a clean reply needs a fresh database.                              *)
ClamAvResult(reply, stamp) ==
    [whole |-> reply = "clean" /\ stamp.fresh,
     hits |-> IF reply = "infected" THEN {<<"clamav", stamp.base>>} ELSE {}]

ScanResults(s) ==
    IF s = "yara" THEN YaraResults
    ELSE {ClamAvResult(reply, stamp) : reply \in Replies, stamp \in Stamps}

Critical(hits) == {hit \in hits : Tag(hit) = "critical"}

(* _clamav_completion and _yara_completion                                 *)
OutcomeOf(result) ==
    CASE Critical(result.hits) # {} -> "blocked"
      [] Critical(result.hits) = {} /\ result.whole -> "completed"
      [] OTHER -> IF strict THEN "blocked" ELSE "degraded"
StatusOf(s, result) ==
    IF result.whole \/ (s = "clamav" /\ result.hits # {}) THEN "succeeded" ELSE "failed"
-----------------------------------------------------------------------------
(* A worker has the job: the first, or the next when the lease of the last *)
(* has lapsed, because the worker died or stalls and goes on later.  The   *)
(* runs that the others left open have failed.                             *)
Claim(s, t) ==
    /\ ruling = "scanning" /\ ~screened[s] /\ screening[s][t].at = "none"
    /\ \A u \in Passes : u < t => screening[s][u].at \notin {"none", "refused"}
    /\ lapses' = IF t = 1 THEN lapses ELSE lapses + 1
    /\ lapses' <= MaxLapses

Attempt(s, t, run) ==
    screening' = [screening EXCEPT ![s] = [u \in Passes |->
        IF u = t THEN run
        ELSE IF @[u].status = "running" THEN [@[u] EXCEPT !.status = "failed"] ELSE @[u]]]

OpenRun == [NotRun EXCEPT !.at = "running", !.status = "running"]

Begin(s, t) ==
    /\ Claim(s, t) /\ Attempt(s, t, OpenRun)
    /\ UNCHANGED <<parcel, strict, screened, flags, ruling, routing, confirmed>>

(* The scanner, the policy or the package is not that of the job any more: *)
(* it fails for good, and the review with it.                              *)
RefuseJob(s, t) ==
    /\ Claim(s, t) /\ Attempt(s, t, [NotRun EXCEPT !.at = "refused"])
    /\ ruling' = "processing_failed"
    /\ UNCHANGED <<parcel, strict, screened, flags, routing, confirmed>>

(* The scan, and replace_findings: a finding that another attempt has made *)
(* already becomes this one's.                                             *)
Scan(s, t) ==
    /\ screening[s][t].at = "running"
    /\ \E result \in ScanResults(s) :
          /\ screening' = [screening EXCEPT ![s][t].at = "found", ![s][t].result = result]
          /\ flags' = {f \in flags : f.hit \notin result.hits /\ ~(f.hit[1] = s /\ f.by = t)}
                         \cup {[hit |-> hit, by |-> t] : hit \in result.hits}
          /\ confirmed' = (confirmed \/ (routing = "none" /\ Critical(result.hits) # {}))
    /\ UNCHANGED <<parcel, strict, screened, ruling, routing, lapses>>

(* complete_review_run, whatever has become of the run.                    *)
CompleteScan(s, t) ==
    /\ screening[s][t].at = "found"
    /\ screening' = [screening EXCEPT
           ![s][t].at = "judged",
           ![s][t].status = StatusOf(s, screening[s][t].result),
           ![s][t].outcome = OutcomeOf(screening[s][t].result)]
    /\ UNCHANGED <<parcel, strict, screened, flags, ruling, routing, confirmed, lapses>>

(* _ensure_terminal_effects: the version is rejected, if a critical finding *)
(* is still this run's; a decision that was made otherwise stands.         *)
EnsureEffects(s, t) ==
    LET own == {f \in flags : f.hit[1] = s /\ f.by = t /\ Critical({f.hit}) # {}} IN
    /\ screening[s][t].at = "judged"
    /\ ruling' = IF own # {} /\ Critical(screening[s][t].result.hits) # {}
                      /\ ruling \in {"scanning", "pending_review"}
                 THEN "rejected" ELSE ruling
    /\ screening' = [screening EXCEPT ![s][t].at = "over"]
    /\ UNCHANGED <<parcel, strict, screened, flags, routing, confirmed, lapses>>

(* complete_job, which only the last attempt has the lease for.            *)
FinishScan(s, t) ==
    /\ screening[s][t].at = "over" /\ ~screened[s]
    /\ \A u \in Passes : u > t => screening[s][u].at = "none"
    /\ screened' = [screened EXCEPT ![s] = TRUE]
    /\ UNCHANGED <<parcel, strict, screening, flags, ruling, routing, confirmed, lapses>>

(* _latest_unit_run                                                        *)
Latest(s) ==
    LET t == CHOOSE t \in Passes :
                 /\ screening[s][t].at # "none"
                 /\ \A u \in Passes : u > t => screening[s][u].at = "none"
    IN screening[s][t]

(* A bug: only what the latest runs have found counts.                     *)
OfLatestRuns == {f \in flags : f.hit \in Latest(f.hit[1]).result.hits}

(* The open findings of all runs of the policy that were not superseded.   *)
OpenFindings == flags

(* evaluate, with a policy that approves by itself and leaves degraded     *)
(* stages to people.                                                       *)
Kind ==
    LET units == {Latest(s) : s \in Screens}
        risky == Critical({f.hit : f \in OpenFindings}) # {} IN
    IF risky \/ \E unit \in units : unit.outcome = "blocked" THEN "rejected"
    ELSE IF \E unit \in units : unit.status # "succeeded" \/ unit.outcome # "completed"
         THEN "pending_review"
    ELSE "approved"

(* The route, once both jobs are done, reads the runs and findings, ...    *)
ReadForRoute ==
    /\ routing = "none" /\ ruling = "scanning" /\ \A s \in Screens : screened[s]
    /\ routing' = Kind
    /\ UNCHANGED <<parcel, strict, screening, screened, flags, ruling, confirmed, lapses>>

(* ... and decides, unless the version was decided meanwhile.              *)
ApplyRoute ==
    /\ routing \notin {"none", "applied"}
    /\ ruling' = IF ruling = "scanning" THEN routing ELSE ruling
    /\ routing' = "applied"
    /\ UNCHANGED <<parcel, strict, screening, screened, flags, confirmed, lapses>>

Next ==
    \/ \E s \in Screens, t \in Passes :
          \/ Begin(s, t) \/ RefuseJob(s, t) \/ Scan(s, t) \/ CompleteScan(s, t)
          \/ EnsureEffects(s, t) \/ FinishScan(s, t)
    \/ ReadForRoute \/ ApplyRoute

Spec == Init /\ [][Next]_vars
-----------------------------------------------------------------------------
TypeOK ==
    /\ \A s \in Screens, t \in Passes :
          /\ screening[s][t].at \in {"none", "refused", "running", "found", "judged", "over"}
          /\ screening[s][t].result.whole \in BOOLEAN
          /\ screening[s][t].status \in {"none", "running", "failed", "succeeded"}
          /\ screening[s][t].outcome \in {"none", "completed", "blocked", "degraded"}
    /\ \A f \in flags : f.hit[1] \in Screens /\ f.by \in Passes
    /\ screened \in [Screens -> BOOLEAN] /\ confirmed \in BOOLEAN
    /\ ruling \in {"scanning", "pending_review", "approved", "rejected", "processing_failed"}
    /\ routing \in {"none", "approved", "pending_review", "rejected", "applied"}
    /\ lapses \in 0..MaxLapses

(* A run of YARA that counts as complete has looked at every file of the   *)
(* package, and each hit is among the findings (malware.py,                *)
(* _prepare_yara_targets; _yara_worker.py, _scan).                         *)
AllHits == UNION {ToSet(HitsOf(i)) : i \in 1..Len(parcel)}
CompleteScanIsWhole ==
    \A t \in Passes :
        LET run == screening["yara"][t] IN
        run.at \in {"judged", "over"} /\ run.status = "succeeded" =>
            AllHits \subseteq {f.hit : f \in flags}

(* The route approves no package that has a critical hit or one without a  *)
(* severity in any file, nor one that a scan, be it of an attempt that was *)
(* given up, had found infected when it read the findings                  *)
(* (routing_evaluator.py, evaluate).                                       *)
ApprovedIsClean ==
    ruling = "approved" =>
        /\ \A hit \in AllHits : Tag(hit) \notin {"critical", "untagged"}
        /\ ~confirmed
=============================================================================
