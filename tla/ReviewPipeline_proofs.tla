----------------------- MODULE ReviewPipeline_proofs ------------------------
(***************************************************************************)
(* Proofs about ReviewPipeline, for any required stages, any number of     *)
(* workers, attempts, retries and events.                                  *)
(***************************************************************************)
EXTENDS ReviewPipeline, TLAPS

Statuses == Undecided \cup Decided
Counts   == {"completed", "partial"}

(* What a worker has in hand fits the step it is at.                       *)
FitsAt(at, job, what) ==
    /\ at = "idle" \/ job \in JobIds
    /\ at \in {"admit", "inspect", "close_precheck", "start_scanning", "enqueue_static"} =>
          job = "precheck"
    /\ at = "open" => job # "route"
    /\ at = "execute" => TypeOf(job) \in Required
    /\ at \in {"evaluate", "open_route", "apply_route", "conflict", "close_route", "cover"} =>
          job = "route"
    /\ at \in {"open_route", "apply_route", "close_route", "cover"} => what \in Routes
    /\ at = "decide" => what \in {"precheck", "static", "clamav", "yara"}
    /\ at = "announce" => what # "none"

Memory == {h \in WorkerState : FitsAt(h.at, h.job, h.what)}

RunsOK == DOMAIN runs = Types /\ \A t \in Types : runs[t] \in Seq(Run)

(* The tables have their types.                                            *)
TablesOK ==
    /\ advanced \in BOOLEAN
    /\ status \in Statuses
    /\ gen \in Gens
    /\ decision \in Decisions
    /\ {manifest, current, scanned, covered} \subseteq BOOLEAN
    /\ RunsOK
    /\ jobs \in [JobIds -> Job]
    /\ announced \subseteq {"precheck", "static", "clamav", "yara"} \cup Routes
    /\ happened \in 0..MaxEvents

TInv == TablesOK /\ worker \in [Workers -> Memory]

(* The decision on record is the one the status tells of.                  *)
DecisionFits ==
    /\ status \in Undecided <=> decision = "none"
    /\ status = "approved" <=> decision \in {"auto_approve", "approve", "manual_approve"}
    /\ status = "changes_requested" <=> decision = "request_changes"

IInv == TInv /\ DecisionFits /\ ManualApprovalEndsReview
-----------------------------------------------------------------------------
(* The names the model works with.                                         *)
LEMMA Vocabulary ==
    /\ DOMAIN Successors = Statuses
    /\ 1 \in Gens
    /\ Required \subseteq Types /\ Required \subseteq JobIds
    /\ {"precheck", "route"} \subseteq Types
    /\ {"precheck", "static", "static_again", "route"} \subseteq JobIds
    /\ "static" \in Required
    /\ \A id \in JobIds : TypeOf(id) \in Types
    /\ \A id \in JobIds \ {"precheck", "route"} : TypeOf(id) \in Required
    /\ Required \cap {"precheck", "route", "static_again"} = {}
    /\ Required \subseteq DOMAIN Phase
  <1>1. DOMAIN Successors = Statuses
    BY DEF Successors, Statuses, Undecided, Decided
  <1>2. 1 \in Gens
    BY ConstantsAssumption DEF Gens
  <1>3. Required \subseteq DOMAIN Phase /\ "static" \in Required
    BY ConstantsAssumption
  <1>4. Required \cap {"precheck", "route", "static_again"} = {}
    BY <1>3 DEF Phase
  <1> QED BY <1>1, <1>2, <1>3, <1>4 DEF JobIds, Types, TypeOf

(* What is written into the list of a type's runs makes another list.      *)
LEMMA RunLists ==
    ASSUME NEW q \in Seq(Run)
    PROVE  /\ \A r \in Run : Append(q, r) \in Seq(Run)
           /\ \A i, s : s \in RunStates =>
                 [q EXCEPT ![i] = [q[i] EXCEPT !.state = s]] \in Seq(Run)
           /\ \A s \in RunStates :
                 [i \in DOMAIN q |-> IF q[i].state = "running" THEN [q[i] EXCEPT !.state = s]
                                     ELSE q[i]] \in Seq(Run)
  <1>1. \A r \in Run : Append(q, r) \in Seq(Run)
    OBVIOUS
  <1>2. \A r \in Run, s \in RunStates : [r EXCEPT !.state = s] \in Run
    BY DEF Run
  <1>3. \A i \in DOMAIN q : q[i] \in Run
    OBVIOUS
  <1>4. ASSUME NEW i, NEW s \in RunStates
        PROVE  [q EXCEPT ![i] = [q[i] EXCEPT !.state = s]] \in Seq(Run)
    <2>1. CASE i \in DOMAIN q
      <3>1. [q[i] EXCEPT !.state = s] \in Run
        BY <1>2, <1>3, <2>1
      <3> QED BY <3>1, <2>1
    <2>2. CASE i \notin DOMAIN q
      <3>1. [q EXCEPT ![i] = [q[i] EXCEPT !.state = s]] = q
        BY <2>2
      <3> QED BY <3>1, Zenon
    <2> QED BY <2>1, <2>2
  <1>5. ASSUME NEW s \in RunStates
        PROVE  [i \in DOMAIN q |-> IF q[i].state = "running" THEN [q[i] EXCEPT !.state = s]
                                   ELSE q[i]] \in Seq(Run)
    <2>1. \A i \in DOMAIN q : (IF q[i].state = "running" THEN [q[i] EXCEPT !.state = s]
                               ELSE q[i]) \in Run
      BY <1>2, <1>3
    <2> QED BY <2>1
  <1> QED BY <1>1, <1>4, <1>5, Zenon

LEMMA NewRuns ==
    /\ NewRun \in Run
    /\ \A s \in RunStates, r \in Reasons : [state |-> s, reason |-> r] \in Run
  BY DEF NewRun, Run, RunStates, Reasons

(* The rows of artifact_jobs.                                              *)
LEMMA NoJobs == NoJob \in Job /\ NewJob \in Job
  <1>1. NoJob \in Job
    BY ConstantsAssumption, SMT DEF NoJob, Job
  <1>2. \A j \in Job : [j EXCEPT !.status = "queued"] \in Job
    BY SMT DEF Job
  <1> QED BY <1>1, <1>2, Zenon DEF NewJob

LEMMA JobRows ==
    ASSUME NEW j \in Job
    PROVE  /\ [j EXCEPT !.lapsed = TRUE] \in Job
           /\ \A s \in {"succeeded", "queued", "failed", "cancelled"} :
                 [j EXCEPT !.status = s, !.owner = None, !.lapsed = FALSE] \in Job
           /\ j.attempts < Attempts => \A w \in Workers :
                 [j EXCEPT !.status = "running", !.owner = w, !.lapsed = FALSE,
                           !.attempts = j.attempts + 1] \in Job
  <1> USE DEF Job
  <1>1. [j EXCEPT !.lapsed = TRUE] \in Job
    OBVIOUS
  <1>2. \A s \in {"succeeded", "queued", "failed", "cancelled"} :
           [j EXCEPT !.status = s, !.owner = None, !.lapsed = FALSE] \in Job
    OBVIOUS
  <1>3. ASSUME j.attempts < Attempts, NEW w \in Workers
        PROVE  [j EXCEPT !.status = "running", !.owner = w, !.lapsed = FALSE,
                         !.attempts = j.attempts + 1] \in Job
    <2>1. j.attempts + 1 \in 0..Attempts
      BY <1>3, ConstantsAssumption
    <2> QED BY <1>3, <2>1
  <1> QED BY <1>1, <1>2, <1>3, Zenon

(* What a worker remembers, one field after the other.                     *)
LEMMA Fields ==
    ASSUME NEW h \in WorkerState
    PROVE  /\ \A x \in JobIds : [h EXCEPT !.job = x] \in WorkerState
           /\ \A x \in Gens : [h EXCEPT !.gen = x] \in WorkerState
           /\ \A x \in 0..Attempts : [h EXCEPT !.tries = x] \in WorkerState
           /\ \A x \in Steps : [h EXCEPT !.at = x] \in WorkerState
           /\ \A x \in Statuses : [h EXCEPT !.seen = x] \in WorkerState
           /\ \A x \in BOOLEAN : [h EXCEPT !.fresh = x] \in WorkerState
           /\ \A x \in (0..(MaxRetries + 1)) \X Nat : [h EXCEPT !.run = x] \in WorkerState
           /\ \A x \in {"precheck", "static", "clamav", "yara"} \cup Routes :
                 [h EXCEPT !.what = x] \in WorkerState
           /\ \A x \in BOOLEAN : [h EXCEPT !.retry = x] \in WorkerState
           /\ \A x \in [Required -> Run \cup {NoRun}] : [h EXCEPT !.latest = x] \in WorkerState
           /\ \A x \in [Required -> Terminal \cup {"none", "pending", "running"}] :
                 [h EXCEPT !.units = x] \in WorkerState
  <1> USE DEF WorkerState
  <1>1. \A x \in JobIds : [h EXCEPT !.job = x] \in WorkerState
    OBVIOUS
  <1>2. \A x \in Gens : [h EXCEPT !.gen = x] \in WorkerState
    OBVIOUS
  <1>3. \A x \in 0..Attempts : [h EXCEPT !.tries = x] \in WorkerState
    OBVIOUS
  <1>4. \A x \in Steps : [h EXCEPT !.at = x] \in WorkerState
    OBVIOUS
  <1>5. \A x \in Statuses : [h EXCEPT !.seen = x] \in WorkerState
    BY Vocabulary
  <1>6. \A x \in BOOLEAN : [h EXCEPT !.fresh = x] \in WorkerState
    OBVIOUS
  <1>7. \A x \in (0..(MaxRetries + 1)) \X Nat : [h EXCEPT !.run = x] \in WorkerState
    OBVIOUS
  <1>8. \A x \in {"precheck", "static", "clamav", "yara"} \cup Routes :
           [h EXCEPT !.what = x] \in WorkerState
    OBVIOUS
  <1>9. \A x \in BOOLEAN : [h EXCEPT !.retry = x] \in WorkerState
    OBVIOUS
  <1>10. \A x \in [Required -> Run \cup {NoRun}] : [h EXCEPT !.latest = x] \in WorkerState
    OBVIOUS
  <1>11. \A x \in [Required -> Terminal \cup {"none", "pending", "running"}] :
            [h EXCEPT !.units = x] \in WorkerState
    OBVIOUS
  <1> QED BY <1>1, <1>2, <1>3, <1>4, <1>5, <1>6, <1>7, <1>8, <1>9, <1>10, <1>11, Zenon

(* The steps that ask nothing of what a worker remembers but a job.        *)
FreeSteps == {"recover", "load", "recovered", "read_artifact", "read_runs", "read_jobs", "act",
              "done", "record", "fail"}

LEMMA FreeFits ==
    /\ FreeSteps \subseteq Steps
    /\ \A at \in FreeSteps, job \in JobIds : \A what : FitsAt(at, job, what)
  <1>1. FreeSteps \subseteq Steps
    BY DEF FreeSteps, Steps
  <1>2. ASSUME NEW at \in FreeSteps, NEW job \in JobIds, NEW what
        PROVE  FitsAt(at, job, what)
    BY DEF FreeSteps, FitsAt
  <1> QED BY <1>1, <1>2

(* A worker that goes on to another step with what it remembers.           *)
LEMMA Moves ==
    ASSUME NEW h \in WorkerState, NEW s \in Steps
    PROVE  /\ FitsAt(s, h.job, h.what) => [h EXCEPT !.at = s] \in Memory
           /\ \A x \in {"precheck", "static", "clamav", "yara"} \cup Routes :
                 FitsAt(s, h.job, x) => /\ [h EXCEPT !.at = s, !.what = x] \in Memory
                                        /\ [h EXCEPT !.at = s, !.what = x, !.fresh = FALSE]
                                              \in Memory
           /\ \A x \in (0..(MaxRetries + 1)) \X Nat :
                 FitsAt(s, h.job, h.what) => [h EXCEPT !.at = s, !.run = x] \in Memory
           /\ \A x \in BOOLEAN :
                 FitsAt(s, h.job, h.what) => [h EXCEPT !.at = s, !.fresh = x] \in Memory
           /\ \A x \in Statuses :
                 FitsAt(s, h.job, h.what) => [h EXCEPT !.at = s, !.seen = x] \in Memory
           /\ \A x \in [Required -> Run \cup {NoRun}] :
                 FitsAt(s, h.job, h.what) => [h EXCEPT !.at = s, !.latest = x] \in Memory
  <1> DEFINE g == [h EXCEPT !.at = s]
  <1>1. g \in WorkerState /\ g.at = s /\ g.job = h.job /\ g.what = h.what
    <2>1. g \in WorkerState
      BY Fields
    <2> QED BY <2>1 DEF WorkerState
  <1>2. \A k \in WorkerState : FitsAt(k.at, k.job, k.what) => k \in Memory
    BY Zenon DEF Memory
  <1>3. FitsAt(s, h.job, h.what) => [h EXCEPT !.at = s] \in Memory
    BY <1>1, <1>2
  <1>4. ASSUME NEW x \in {"precheck", "static", "clamav", "yara"} \cup Routes,
               FitsAt(s, h.job, x)
        PROVE  /\ [h EXCEPT !.at = s, !.what = x] \in Memory
               /\ [h EXCEPT !.at = s, !.what = x, !.fresh = FALSE] \in Memory
    <2> DEFINE k == [g EXCEPT !.what = x]
               f == [k EXCEPT !.fresh = FALSE]
    <2>1. k \in WorkerState
      BY <1>1, Fields, Zenon
    <2>2. k.at = s /\ k.job = h.job /\ k.what = x
      BY <1>1 DEF WorkerState
    <2>3. f \in WorkerState
      <3>1. FALSE \in BOOLEAN
        OBVIOUS
      <3> HIDE DEF k
      <3> QED BY <3>1, <2>1, Fields, Zenon
    <2>4. f.at = s /\ f.job = h.job /\ f.what = x
      <3> HIDE DEF k
      <3> QED BY <2>1, <2>2 DEF WorkerState
    <2>5. k = [h EXCEPT !.at = s, !.what = x] /\ f = [h EXCEPT !.at = s, !.what = x, !.fresh = FALSE]
      BY DEF WorkerState
    <2> HIDE DEF k, f
    <2> QED BY <2>1, <2>2, <2>3, <2>4, <2>5, <1>4, <1>2
  <1>5. ASSUME NEW x \in (0..(MaxRetries + 1)) \X Nat, FitsAt(s, h.job, h.what)
        PROVE  [h EXCEPT !.at = s, !.run = x] \in Memory
    <2>1. [g EXCEPT !.run = x] \in WorkerState
      BY <1>1, Fields, Zenon
    <2>2. [g EXCEPT !.run = x] = [h EXCEPT !.at = s, !.run = x]
      BY DEF WorkerState
    <2> QED BY <2>1, <2>2, <1>2, <1>5 DEF WorkerState
  <1>6. ASSUME NEW x \in BOOLEAN, FitsAt(s, h.job, h.what)
        PROVE  [h EXCEPT !.at = s, !.fresh = x] \in Memory
    <2>1. [g EXCEPT !.fresh = x] \in WorkerState
      BY <1>1, Fields, Zenon
    <2>2. [g EXCEPT !.fresh = x] = [h EXCEPT !.at = s, !.fresh = x]
      BY DEF WorkerState
    <2> QED BY <2>1, <2>2, <1>2, <1>6 DEF WorkerState
  <1>7. ASSUME NEW x \in Statuses, FitsAt(s, h.job, h.what)
        PROVE  [h EXCEPT !.at = s, !.seen = x] \in Memory
    <2>1. [g EXCEPT !.seen = x] \in WorkerState
      BY <1>1, Fields, Zenon
    <2>2. [g EXCEPT !.seen = x] = [h EXCEPT !.at = s, !.seen = x]
      BY DEF WorkerState
    <2> QED BY <2>1, <2>2, <1>2, <1>7 DEF WorkerState
  <1>8. ASSUME NEW x \in [Required -> Run \cup {NoRun}], FitsAt(s, h.job, h.what)
        PROVE  [h EXCEPT !.at = s, !.latest = x] \in Memory
    <2>1. [g EXCEPT !.latest = x] \in WorkerState
      BY <1>1, Fields, Zenon
    <2>2. [g EXCEPT !.latest = x] = [h EXCEPT !.at = s, !.latest = x]
      BY DEF WorkerState
    <2> QED BY <2>1, <2>2, <1>2, <1>8 DEF WorkerState
  <1> QED BY <1>3, <1>4, <1>5, <1>6, <1>7, <1>8, Zenon

(* An idle worker, and one that has only its job in hand.                  *)
Fresh(j, g, n) == [Idle EXCEPT !.job = j, !.gen = g, !.tries = n]

LEMMA IdleMemory == Idle \in Memory
  <1>1. /\ 0 \in 0..Attempts
        /\ <<0, 0>> \in (0..(MaxRetries + 1)) \X Nat
        /\ "idle" \in Steps
    BY ConstantsAssumption DEF Steps
  <1>2. Idle \in WorkerState
    BY <1>1, Vocabulary, SMT DEF Idle, WorkerState
  <1>3. FitsAt("idle", Idle.job, Idle.what) /\ Idle.at = "idle"
    BY DEF FitsAt, Idle
  <1> QED BY <1>2, <1>3 DEF Memory

LEMMA FreshMemory ==
    ASSUME NEW j \in JobIds, NEW g \in Gens, NEW n \in 0..Attempts
    PROVE  /\ Fresh(j, g, n) \in WorkerState
           /\ Fresh(j, g, n).job = j
           /\ \A s \in FreeSteps : [Fresh(j, g, n) EXCEPT !.at = s] \in Memory
           /\ \A b \in BOOLEAN :
                 [Fresh(j, g, n) EXCEPT !.at = "record", !.retry = b] \in Memory
           /\ \A u \in [Required -> Terminal \cup {"none", "pending", "running"}] :
                 [Fresh(j, g, n) EXCEPT !.at = "act", !.units = u] \in Memory
  <1> DEFINE f == Fresh(j, g, n)
  <1>1. f \in WorkerState
    <2>1. Idle \in WorkerState
      BY IdleMemory DEF Memory
    <2>2. PICK a \in WorkerState : a = [Idle EXCEPT !.job = j]
      BY <2>1, Fields
    <2>3. PICK b \in WorkerState : b = [a EXCEPT !.gen = g]
      BY <2>2, Fields
    <2>4. [b EXCEPT !.tries = n] \in WorkerState
      BY <2>3, Fields
    <2>5. [b EXCEPT !.tries = n] = f
      BY <2>2, <2>3 DEF Fresh, Idle
    <2> QED BY <2>4, <2>5, Zenon
  <1>2. f.job = j
    BY DEF Fresh, Idle
  <1> HIDE DEF f
  <1>3. ASSUME NEW s \in FreeSteps
        PROVE  /\ [f EXCEPT !.at = s] \in WorkerState
               /\ [f EXCEPT !.at = s].at = s
               /\ [f EXCEPT !.at = s].job = j
    <2>1. s \in Steps
      BY FreeFits
    <2>2. [f EXCEPT !.at = s] \in WorkerState
      BY <1>1, <2>1, Fields
    <2> QED BY <1>1, <1>2, <2>2 DEF WorkerState
  <1>4. \A k \in WorkerState : k.at \in FreeSteps /\ k.job = j => k \in Memory
    BY FreeFits, Zenon DEF Memory
  <1>5. \A s \in FreeSteps : [f EXCEPT !.at = s] \in Memory
    BY <1>3, <1>4
  <1>6. ASSUME NEW b \in BOOLEAN
        PROVE  [f EXCEPT !.at = "record", !.retry = b] \in Memory
    <2>1. "record" \in FreeSteps
      BY DEF FreeSteps
    <2>2. PICK k \in WorkerState : k = [f EXCEPT !.at = "record"] /\ k.at = "record" /\ k.job = j
      BY <1>3, <2>1
    <2>3. [k EXCEPT !.retry = b] \in WorkerState
      BY <2>2, Fields
    <2>4. [k EXCEPT !.retry = b] = [f EXCEPT !.at = "record", !.retry = b]
      BY <1>1, <2>2 DEF WorkerState
    <2>5. [k EXCEPT !.retry = b].at = "record" /\ [k EXCEPT !.retry = b].job = j
      BY <2>2 DEF WorkerState
    <2> QED BY <2>1, <2>3, <2>4, <2>5, <1>4, Zenon
  <1>7. ASSUME NEW u \in [Required -> Terminal \cup {"none", "pending", "running"}]
        PROVE  [f EXCEPT !.at = "act", !.units = u] \in Memory
    <2>1. "act" \in FreeSteps
      BY DEF FreeSteps
    <2>2. PICK k \in WorkerState : k = [f EXCEPT !.at = "act"] /\ k.at = "act" /\ k.job = j
      BY <1>3, <2>1
    <2>3. [k EXCEPT !.units = u] \in WorkerState
      BY <2>2, Fields
    <2>4. [k EXCEPT !.units = u] = [f EXCEPT !.at = "act", !.units = u]
      BY <1>1, <2>2 DEF WorkerState
    <2>5. [k EXCEPT !.units = u].at = "act" /\ [k EXCEPT !.units = u].job = j
      BY <2>2 DEF WorkerState
    <2> QED BY <2>1, <2>3, <2>4, <2>5, <1>4, Zenon
  <1> QED BY <1>1, <1>2, <1>5, <1>6, <1>7, Zenon DEF f

(* The worker's moves that begin from there.                               *)
LEMMA FrameMoves ==
    ASSUME NEW w \in Workers, worker[w] \in Memory, worker[w].at # "idle", advanced \in BOOLEAN
    PROVE  /\ worker[w] \in WorkerState /\ worker[w].job \in JobIds
           /\ FitsAt(worker[w].at, worker[w].job, worker[w].what)
           /\ Frame(w) = Fresh(worker[w].job, worker[w].gen, worker[w].tries)
           /\ \A s \in FreeSteps : [Frame(w) EXCEPT !.at = s] \in Memory
           /\ \A b \in BOOLEAN : [Frame(w) EXCEPT !.at = "record", !.retry = b] \in Memory
           /\ \A u \in [Required -> Terminal \cup {"none", "pending", "running"}] :
                 [Frame(w) EXCEPT !.at = "act", !.units = u] \in Memory
           /\ AfterStage(w) \in Memory
  <1>1. worker[w] \in WorkerState /\ FitsAt(worker[w].at, worker[w].job, worker[w].what)
    BY Zenon DEF Memory
  <1>2. worker[w].job \in JobIds
    BY <1>1 DEF FitsAt
  <1>3. worker[w].gen \in Gens /\ worker[w].tries \in 0..Attempts
    BY <1>1 DEF WorkerState
  <1>4. Frame(w) = Fresh(worker[w].job, worker[w].gen, worker[w].tries)
    BY DEF Frame, Fresh
  <1>5. /\ \A s \in FreeSteps : [Frame(w) EXCEPT !.at = s] \in Memory
        /\ \A b \in BOOLEAN : [Frame(w) EXCEPT !.at = "record", !.retry = b] \in Memory
        /\ \A u \in [Required -> Terminal \cup {"none", "pending", "running"}] :
              [Frame(w) EXCEPT !.at = "act", !.units = u] \in Memory
    <2> DEFINE f == Fresh(worker[w].job, worker[w].gen, worker[w].tries)
    <2>1. /\ \A s \in FreeSteps : [f EXCEPT !.at = s] \in Memory
          /\ \A b \in BOOLEAN : [f EXCEPT !.at = "record", !.retry = b] \in Memory
          /\ \A u \in [Required -> Terminal \cup {"none", "pending", "running"}] :
                [f EXCEPT !.at = "act", !.units = u] \in Memory
      BY <1>2, <1>3, FreshMemory
    <2>2. Frame(w) = f
      BY <1>4
    <2> HIDE DEF f
    <2> QED BY <2>1, <2>2
  <1>6. AfterStage(w) \in Memory
    <2>1. (IF advanced THEN "read_artifact" ELSE "done") \in FreeSteps
      BY DEF FreeSteps
    <2> QED BY <2>1, <1>5, Zenon DEF AfterStage
  <1> QED BY <1>1, <1>2, <1>4, <1>5, <1>6, Zenon

(* A worker's move keeps the workers' memory in its type.                  *)
LEMMA MovesTyped ==
    ASSUME TInv, NEW w \in Workers
    PROVE  /\ \A n \in Memory : worker' = [worker EXCEPT ![w] = n] =>
                                    worker' \in [Workers -> Memory]
           /\ \A s \in Steps : Go(w, s) /\ FitsAt(s, worker[w].job, worker[w].what) =>
                                    worker' \in [Workers -> Memory]
           /\ worker[w].at # "idle" =>
                 /\ \A s \in FreeSteps : Go(w, s) => worker' \in [Workers -> Memory]
                 /\ Leave(w) => worker' \in [Workers -> Memory]
                 /\ Proceed(w) => worker' \in [Workers -> Memory]
                 /\ \A b \in BOOLEAN : Raise(w, b) => worker' \in [Workers -> Memory]
  <1>1. worker \in [Workers -> Memory] /\ worker[w] \in Memory /\ advanced \in BOOLEAN
    BY DEF TInv, TablesOK
  <1>2. ASSUME NEW n \in Memory, worker' = [worker EXCEPT ![w] = n]
        PROVE  worker' \in [Workers -> Memory]
    BY <1>1, <1>2
  <1>3. ASSUME NEW s \in Steps, Go(w, s), FitsAt(s, worker[w].job, worker[w].what)
        PROVE  worker' \in [Workers -> Memory]
    <2>1. worker[w] \in WorkerState
      BY <1>1, Zenon DEF Memory
    <2>2. [worker[w] EXCEPT !.at = s] \in Memory
      BY <2>1, <1>3, Moves
    <2>3. worker' = [worker EXCEPT ![w] = [worker[w] EXCEPT !.at = s]]
      BY <1>3 DEF Go
    <2> QED BY <2>2, <2>3, <1>2
  <1>4. ASSUME worker[w].at # "idle"
        PROVE  /\ \A s \in FreeSteps : Go(w, s) => worker' \in [Workers -> Memory]
               /\ Leave(w) => worker' \in [Workers -> Memory]
               /\ Proceed(w) => worker' \in [Workers -> Memory]
               /\ \A b \in BOOLEAN : Raise(w, b) => worker' \in [Workers -> Memory]
    <2>1. /\ worker[w].job \in JobIds
          /\ \A s \in FreeSteps : [Frame(w) EXCEPT !.at = s] \in Memory
          /\ \A b \in BOOLEAN : [Frame(w) EXCEPT !.at = "record", !.retry = b] \in Memory
          /\ AfterStage(w) \in Memory
      BY <1>1, <1>4, FrameMoves
    <2>2. ASSUME NEW s \in FreeSteps, Go(w, s)
          PROVE  worker' \in [Workers -> Memory]
      BY <2>1, <2>2, <1>3, FreeFits
    <2>3. Leave(w) => worker' \in [Workers -> Memory]
      <3>1. "done" \in FreeSteps
        BY DEF FreeSteps
      <3> QED BY <3>1, <2>1, <1>2 DEF Leave
    <2>4. Proceed(w) => worker' \in [Workers -> Memory]
      BY <2>1, <1>2 DEF Proceed
    <2>5. ASSUME NEW b \in BOOLEAN, Raise(w, b)
          PROVE  worker' \in [Workers -> Memory]
      <3>1. worker' = [worker EXCEPT ![w] = [Frame(w) EXCEPT !.at = "record", !.retry = b]]
        BY <2>5, Zenon DEF Raise
      <3> QED BY <3>1, <2>1, <1>2
    <2> QED BY <2>2, <2>3, <2>4, <2>5, Zenon
  <1> QED BY <1>2, <1>3, <1>4, Zenon

(* The repository's writes keep the runs and the count of events typed.    *)
LEMMA WritesTyped ==
    ASSUME TablesOK
    PROVE  /\ \A t \in Types, r \in Run : AppendRun(t, r) => RunsOK'
           /\ \A t \in Types : FailOpenRuns(t) => RunsOK'
           /\ \A w \in Workers, s \in RunStates :
                 Type(w) \in Types /\ CompleteRun(w, s) => RunsOK'
           /\ \A k \in EventKinds : Happens(k) => happened' \in 0..MaxEvents
  <1>1. DOMAIN runs = Types /\ \A t \in Types : runs[t] \in Seq(Run)
    BY DEF TablesOK, RunsOK
  <1>2. ASSUME NEW t \in Types, NEW q \in Seq(Run), runs' = [runs EXCEPT ![t] = q]
        PROVE  RunsOK'
    BY <1>1, <1>2 DEF RunsOK
  <1>3. ASSUME NEW t \in Types, NEW r \in Run, AppendRun(t, r)
        PROVE  RunsOK'
    <2>1. Append(runs[t], r) \in Seq(Run)
      BY <1>1, RunLists
    <2>2. runs' = [runs EXCEPT ![t] = Append(runs[t], r)]
      BY <1>3 DEF AppendRun
    <2> QED BY <2>1, <2>2, <1>2
  <1>4. ASSUME NEW t \in Types, FailOpenRuns(t)
        PROVE  RunsOK'
    <2> DEFINE q == [i \in DOMAIN runs[t] |-> IF runs[t][i].state = "running"
                                              THEN [runs[t][i] EXCEPT !.state = "failed"]
                                              ELSE runs[t][i]]
    <2>1. q \in Seq(Run)
      <3>1. "failed" \in RunStates
        BY DEF RunStates
      <3> QED BY <3>1, <1>1, RunLists
    <2>2. runs' = [runs EXCEPT ![t] = q]
      BY <1>4 DEF FailOpenRuns
    <2> QED BY <2>1, <2>2, <1>2
  <1>5. ASSUME NEW w \in Workers, NEW s \in RunStates, Type(w) \in Types, CompleteRun(w, s)
        PROVE  RunsOK'
    <2> DEFINE t == Type(w)
               i == worker[w].run[2]
               q == [runs[t] EXCEPT ![i] = [runs[t][i] EXCEPT !.state = s]]
    <2>1. q \in Seq(Run)
      BY <1>1, <1>5, RunLists
    <2>2. runs' = [runs EXCEPT ![t] = q] \/ runs' = runs
      BY <1>5 DEF CompleteRun
    <2>3. CASE runs' = runs
      BY <2>3, <1>1 DEF RunsOK
    <2>4. CASE runs' = [runs EXCEPT ![t] = q]
      BY <2>4, <2>1, <1>2, <1>5
    <2> QED BY <2>2, <2>3, <2>4
  <1>6. ASSUME NEW k \in EventKinds, Happens(k)
        PROVE  happened' \in 0..MaxEvents
    BY <1>6, ConstantsAssumption DEF Happens, TablesOK
  <1> QED BY <1>3, <1>4, <1>5, <1>6, Zenon

(* A job's row that is written is a row.                                   *)
LEMMA JobsTyped ==
    ASSUME TablesOK, NEW id \in JobIds
    PROVE  /\ \A r \in Job : [jobs EXCEPT ![id] = r] \in [JobIds -> Job]
           /\ Enqueue(id) => jobs' \in [JobIds -> Job]
           /\ jobs[id] \in Job
  <1>1. jobs \in [JobIds -> Job]
    BY DEF TablesOK
  <1>2. \A r \in Job : [jobs EXCEPT ![id] = r] \in [JobIds -> Job]
    BY <1>1
  <1>3. Enqueue(id) => jobs' \in [JobIds -> Job]
    BY <1>1, <1>2, NoJobs DEF Enqueue
  <1> QED BY <1>1, <1>2, <1>3

-----------------------------------------------------------------------------
(* The queue and the worker's frame.                                       *)

(* A claim takes a job that is a job, and what it remembers is typed.      *)
LEMMA ClaimTyped ==
    ASSUME TInv, NEW w \in Workers, NEW id \in JobIds, ClaimJob(w, id)
    PROVE  TInv'
  <1> DEFINE n == jobs[id].attempts + 1
             r == [jobs[id] EXCEPT !.status = "running", !.owner = w, !.lapsed = FALSE,
                                   !.attempts = n]
             s == IF n > 1 THEN "recover" ELSE "load"
             f == Fresh(id, gen, n)
  <1>1. TablesOK /\ worker \in [Workers -> Memory] /\ gen \in Gens
    BY DEF TInv, TablesOK
  <1>2. jobs[id] \in Job /\ jobs[id].attempts < Attempts
    BY <1>1, JobsTyped DEF ClaimJob
  <1>3. jobs' = [jobs EXCEPT ![id] = r]
    BY Zenon DEF ClaimJob
  <1>4. r \in Job
    BY <1>2, JobRows
  <1>5. jobs' \in [JobIds -> Job]
    BY <1>1, <1>3, <1>4, JobsTyped
  <1>6. n \in 0..Attempts
    BY <1>2, ConstantsAssumption DEF Job
  <1>7. jobs'[id].attempts = n
    BY <1>1, <1>2, <1>3 DEF TablesOK, Job
  <1>8. worker' = [worker EXCEPT ![w] = [f EXCEPT !.at = s]]
    <2>1. worker' = [worker EXCEPT ![w] =
                       [Idle EXCEPT !.job = id, !.gen = gen, !.tries = n, !.at = s]]
      BY <1>7 DEF ClaimJob
    <2>2. [Idle EXCEPT !.job = id, !.gen = gen, !.tries = n, !.at = s] = [f EXCEPT !.at = s]
      BY DEF Fresh, Idle
    <2> QED BY <2>1, <2>2
  <1>9. [f EXCEPT !.at = s] \in Memory
    <2>1. s \in FreeSteps
      BY DEF FreeSteps
    <2> QED BY <2>1, <1>1, <1>6, FreshMemory
  <1>10. worker' \in [Workers -> Memory]
    BY <1>8, <1>9, MovesTyped
  <1>11. UNCHANGED <<advanced, status, gen, decision, manifest, current, runs, scanned, covered,
                     announced, happened>>
    BY DEF ClaimJob
  <1>12. TablesOK'
    BY <1>1, <1>5, <1>11 DEF TablesOK, RunsOK
  <1> QED BY <1>10, <1>12 DEF TInv

LEMMA LeaseTyped ==
    ASSUME TInv, NEW w \in Workers, Pause(w) \/ Crash(w)
    PROVE  TInv'
  <1>1. TablesOK /\ worker \in [Workers -> Memory]
    BY DEF TInv
  <1>2. worker[w] \in Memory /\ worker[w].at # "idle"
    BY <1>1 DEF Pause, Crash, OwnsJob
  <1>3. worker[w].job \in JobIds
    BY <1>1, <1>2, FrameMoves DEF TablesOK
  <1>4. [jobs EXCEPT ![worker[w].job].lapsed = TRUE] \in [JobIds -> Job]
    BY <1>1, <1>3, JobsTyped, JobRows
  <1>5. jobs' \in [JobIds -> Job]
    BY <1>1, <1>4 DEF Pause, Crash, TablesOK
  <1>6. happened' \in 0..MaxEvents
    <2>1. \E k \in EventKinds : Happens(k)
      BY DEF Pause, Crash, EventKinds
    <2> QED BY <2>1, <1>1, WritesTyped
  <1>7. UNCHANGED <<advanced, status, gen, decision, manifest, current, runs, scanned, covered,
                    announced>>
    BY DEF Pause, Crash
  <1>8. TablesOK'
    BY <1>1, <1>5, <1>6, <1>7 DEF TablesOK, RunsOK
  <1>9. worker' \in [Workers -> Memory]
    <2>1. CASE Pause(w)
      BY <2>1, <1>1 DEF Pause
    <2>2. CASE Crash(w)
      BY <2>2, IdleMemory, MovesTyped DEF Crash
    <2> QED BY <2>1, <2>2
  <1> QED BY <1>8, <1>9 DEF TInv

LEMMA OutageTyped ==
    ASSUME TInv, NEW w \in Workers, Outage(w)
    PROVE  TInv'
  <1>1. TablesOK /\ worker[w].at # "idle"
    BY DEF TInv, Outage
  <1>2. PICK k \in EventKinds, b \in BOOLEAN : Happens(k) /\ Raise(w, b)
    BY Zenon DEF Outage, EventKinds
  <1>3. worker' \in [Workers -> Memory]
    BY <1>1, <1>2, MovesTyped
  <1>4. happened' \in 0..MaxEvents
    BY <1>1, <1>2, WritesTyped
  <1>5. UNCHANGED <<advanced, status, gen, decision, manifest, current, runs, scanned, jobs,
                    covered, announced>>
    BY DEF Outage
  <1>6. TablesOK'
    BY <1>1, <1>4, <1>5 DEF TablesOK, RunsOK
  <1> QED BY <1>3, <1>6 DEF TInv

LEMMA RecoverTyped ==
    ASSUME TInv, NEW w \in Workers, Recover(w) \/ RecordFailure(w)
    PROVE  TInv'
  <1>1. TablesOK /\ worker \in [Workers -> Memory] /\ worker[w] \in Memory
        /\ worker[w].at # "idle"
    BY DEF TInv, Recover, RecordFailure
  <1>2. Type(w) \in Types
    BY <1>1, FrameMoves, Vocabulary DEF Type, TablesOK
  <1>3. RunsOK'
    <2>1. CASE runs' = runs
      BY <2>1, <1>1 DEF TablesOK, RunsOK
    <2>2. CASE FailOpenRuns(Type(w))
      BY <2>2, <1>1, <1>2, WritesTyped
    <2> QED BY <2>1, <2>2 DEF Recover, RecordFailure
  <1>4. worker' \in [Workers -> Memory]
    <2>1. {"load", "fail"} \subseteq FreeSteps
      BY DEF FreeSteps
    <2>2. Go(w, "load") \/ Go(w, "fail")
      BY DEF Recover, RecordFailure
    <2> QED BY <2>1, <2>2, <1>1, MovesTyped
  <1>5. status' \in Statuses
    BY <1>1 DEF Recover, RecordFailure, TablesOK, Statuses, Undecided
  <1>6. UNCHANGED <<advanced, gen, decision, manifest, current, scanned, jobs, covered, announced,
                    happened>>
    BY DEF Recover, RecordFailure
  <1>7. TablesOK'
    BY <1>1, <1>3, <1>5, <1>6 DEF TablesOK
  <1> QED BY <1>4, <1>7 DEF TInv

LEMMA LoadTyped ==
    ASSUME TInv, NEW w \in Workers, Load(w)
    PROVE  TInv'
  <1> DEFINE first == CASE Type(w) = "precheck" /\ status # "prechecking" -> "admit"
                        [] Type(w) = "route" -> "evaluate"
                        [] OTHER -> "open"
             h == worker[w]
             n == CASE status \in Decided -> [h EXCEPT !.at = "done"]
                    [] status \in (CASE Type(w) = "precheck" ->
                                          {"quarantined", "processing_failed", "prechecking"}
                                     [] OTHER -> {"scanning"}) ->
                         [h EXCEPT !.at = first, !.fresh = current]
                    [] OTHER -> [h EXCEPT !.at = "recovered", !.seen = status]
  <1>1. /\ TablesOK /\ worker \in [Workers -> Memory] /\ h \in Memory /\ h.at # "idle"
        /\ current \in BOOLEAN /\ status \in Statuses
    BY DEF TInv, TablesOK, Load
  <1>2. h \in WorkerState /\ h.job \in JobIds
    BY <1>1, FrameMoves DEF TablesOK
  <1>3. worker' = [worker EXCEPT ![w] = n]
    BY Zenon DEF Load
  <1>4. FitsAt(first, h.job, h.what) /\ first \in Steps
    <2>1. first \in Steps
      BY DEF Steps
    <2>2. FitsAt(first, h.job, h.what)
      BY <1>2 DEF FitsAt, Type, TypeOf
    <2> QED BY <2>1, <2>2
  <1>5. [h EXCEPT !.at = first, !.fresh = current] \in Memory
    <2> HIDE DEF first, h
    <2> QED BY <1>1, <1>2, <1>4, Moves, Zenon
  <1>6. {"done", "recovered"} \subseteq FreeSteps
    BY DEF FreeSteps
  <1>7. /\ [h EXCEPT !.at = "done"] \in Memory
        /\ [h EXCEPT !.at = "recovered", !.seen = status] \in Memory
    <2>1. /\ "done" \in Steps /\ FitsAt("done", h.job, h.what)
          /\ "recovered" \in Steps /\ FitsAt("recovered", h.job, h.what)
      BY <1>2, <1>6, FreeFits
    <2> HIDE DEF h
    <2> QED BY <1>1, <1>2, <2>1, Moves, Zenon
  <1>8. n \in Memory
    <2> HIDE DEF first, h
    <2> QED BY <1>5, <1>7
  <1>9. worker' \in [Workers -> Memory]
    <2> HIDE DEF n
    <2> QED BY <1>3, <1>8, MovesTyped
  <1>10. TablesOK'
    BY <1>1 DEF Load, TablesOK, RunsOK
  <1> QED BY <1>9, <1>10 DEF TInv

LEMMA EndTyped ==
    ASSUME TInv, NEW w \in Workers, CompleteJob(w) \/ FailJob(w)
    PROVE  TInv'
  <1> DEFINE id == worker[w].job
             r(s) == [jobs[id] EXCEPT !.status = s, !.owner = None, !.lapsed = FALSE]
  <1>1. TablesOK /\ worker \in [Workers -> Memory] /\ worker[w] \in Memory
        /\ worker[w].at # "idle"
    BY DEF TInv, CompleteJob, FailJob
  <1>2. id \in JobIds
    BY <1>1, FrameMoves DEF TablesOK
  <1>3. \A s \in {"succeeded", "queued", "failed"} : r(s) \in Job
    BY <1>1, <1>2, JobsTyped, JobRows
  <1>4. \/ jobs' = jobs
        \/ \E s \in {"succeeded", "queued", "failed"} : jobs' = [jobs EXCEPT ![id] = r(s)]
    BY DEF CompleteJob, FailJob
  <1>5. jobs' \in [JobIds -> Job]
    <2>1. CASE jobs' = jobs
      BY <2>1, <1>1 DEF TablesOK
    <2>2. CASE \E s \in {"succeeded", "queued", "failed"} : jobs' = [jobs EXCEPT ![id] = r(s)]
      <3> HIDE DEF r, id
      <3> QED BY <2>2, <1>1, <1>2, <1>3, JobsTyped
    <2> QED BY <1>4, <2>1, <2>2
  <1>6. worker' \in [Workers -> Memory]
    BY <1>1, IdleMemory, MovesTyped DEF CompleteJob, FailJob
  <1>7. UNCHANGED <<advanced, status, gen, decision, manifest, current, runs, scanned, covered,
                    announced, happened>>
    BY DEF CompleteJob, FailJob
  <1>8. TablesOK'
    BY <1>1, <1>5, <1>7 DEF TablesOK, RunsOK
  <1> QED BY <1>6, <1>8 DEF TInv

-----------------------------------------------------------------------------
(* The stages.                                                             *)

(* What holds of a worker that has a job in hand.                          *)
LEMMA InHand ==
    ASSUME TInv, NEW w \in Workers, worker[w].at # "idle"
    PROVE  /\ TablesOK /\ worker \in [Workers -> Memory]
           /\ worker[w] \in WorkerState /\ worker[w].job \in JobIds
           /\ FitsAt(worker[w].at, worker[w].job, worker[w].what)
           /\ Type(w) \in Types
           /\ worker[w].gen \in Gens
  <1>1. TablesOK /\ worker \in [Workers -> Memory] /\ worker[w] \in Memory
    BY DEF TInv
  <1>2. /\ worker[w] \in WorkerState /\ worker[w].job \in JobIds
        /\ FitsAt(worker[w].at, worker[w].job, worker[w].what)
    BY <1>1, FrameMoves DEF TablesOK
  <1>3. Type(w) \in Types
    BY <1>2, Vocabulary DEF Type
  <1>4. worker[w].gen \in Gens
    BY <1>2 DEF WorkerState
  <1> QED BY <1>1, <1>2, <1>3, <1>4

LEMMA PrecheckTyped ==
    ASSUME TInv, NEW w \in Workers,
           Admit(w) \/ ClosePrecheck(w) \/ StartScanning(w) \/ EnqueueStatic(w)
    PROVE  TInv'
  <1>1. worker[w].at # "idle"
    BY DEF Admit, ClosePrecheck, StartScanning, EnqueueStatic
  <1>2. /\ TablesOK /\ worker \in [Workers -> Memory] /\ worker[w].job = "precheck"
        /\ Type(w) \in Types
    BY <1>1, InHand DEF Admit, ClosePrecheck, StartScanning, EnqueueStatic, FitsAt
  <1>3. \A s \in {"open", "start_scanning", "enqueue_static"} :
           s \in Steps /\ FitsAt(s, worker[w].job, worker[w].what)
    BY <1>2, Vocabulary DEF FitsAt, Steps
  <1>4. worker' \in [Workers -> Memory]
    <2>1. \/ \E s \in {"open", "start_scanning", "enqueue_static"} : Go(w, s)
          \/ Raise(w, TRUE) \/ Proceed(w)
      BY DEF Admit, ClosePrecheck, StartScanning, EnqueueStatic
    <2>2. TRUE \in BOOLEAN
      OBVIOUS
    <2> QED BY <2>1, <2>2, <1>1, <1>3, MovesTyped, Zenon
  <1>5. RunsOK'
    <2>1. CASE runs' = runs
      BY <2>1, <1>2 DEF TablesOK, RunsOK
    <2>2. CASE CompleteRun(w, "completed")
      <3>1. "completed" \in RunStates
        BY DEF RunStates
      <3> QED BY <2>2, <3>1, <1>2, WritesTyped
    <2> QED BY <2>1, <2>2 DEF Admit, ClosePrecheck, StartScanning, EnqueueStatic
  <1>6. jobs' \in [JobIds -> Job]
    <2>1. CASE jobs' = jobs
      BY <2>1, <1>2 DEF TablesOK
    <2>2. CASE Enqueue("static")
      BY <2>2, <1>2, JobsTyped, Vocabulary
    <2> QED BY <2>1, <2>2 DEF Admit, ClosePrecheck, StartScanning, EnqueueStatic
  <1>7. status' \in Statuses
    BY <1>2 DEF Admit, ClosePrecheck, StartScanning, EnqueueStatic, TablesOK, Statuses, Undecided
  <1>8. UNCHANGED <<advanced, gen, decision, manifest, current, scanned, covered, announced,
                    happened>>
    BY DEF Admit, ClosePrecheck, StartScanning, EnqueueStatic
  <1>9. TablesOK'
    BY <1>2, <1>5, <1>6, <1>7, <1>8 DEF TablesOK
  <1> QED BY <1>4, <1>9 DEF TInv

LEMMA InspectTyped ==
    ASSUME TInv, NEW w \in Workers, Inspect(w)
    PROVE  TInv'
  <1>1. worker[w].at # "idle"
    BY DEF Inspect
  <1>2. /\ TablesOK /\ worker \in [Workers -> Memory] /\ worker[w].job = "precheck"
        /\ worker[w] \in WorkerState /\ Type(w) \in Types
    BY <1>1, InHand DEF Inspect, FitsAt
  <1>3. /\ "close_precheck" \in Steps
        /\ FitsAt("close_precheck", worker[w].job, worker[w].what)
        /\ "decide" \in Steps
        /\ FitsAt("decide", worker[w].job, "precheck")
    BY <1>2, Vocabulary DEF FitsAt, Steps
  <1>4. [worker[w] EXCEPT !.at = "decide", !.what = "precheck"] \in Memory
    BY <1>2, <1>3, Moves
  <1>5. worker' \in [Workers -> Memory]
    <2>1. \/ worker' = [worker EXCEPT ![w] = [worker[w] EXCEPT !.at = "decide",
                                                               !.what = "precheck"]]
          \/ Go(w, "close_precheck") \/ Raise(w, FALSE)
      BY DEF Inspect
    <2>2. FALSE \in BOOLEAN
      OBVIOUS
    <2> QED BY <2>1, <2>2, <1>1, <1>3, <1>4, MovesTyped, Zenon
  <1>6. RunsOK'
    <2>1. CASE runs' = runs
      BY <2>1, <1>2 DEF TablesOK, RunsOK
    <2>2. CASE CompleteRun(w, "failed")
      <3>1. "failed" \in RunStates
        BY DEF RunStates
      <3> QED BY <2>2, <3>1, <1>2, WritesTyped
    <2> QED BY <2>1, <2>2 DEF Inspect
  <1>7. manifest' \in BOOLEAN
    BY <1>2 DEF Inspect, TablesOK
  <1>8. UNCHANGED <<advanced, status, gen, decision, current, scanned, jobs, covered, announced,
                    happened>>
    BY DEF Inspect
  <1>9. TablesOK'
    BY <1>2, <1>6, <1>7, <1>8 DEF TablesOK
  <1> QED BY <1>5, <1>9 DEF TInv

LEMMA RecoveredTyped ==
    ASSUME TInv, NEW w \in Workers, Recovered(w)
    PROVE  TInv'
  <1>1. worker[w].at # "idle"
    BY DEF Recovered
  <1>2. /\ TablesOK /\ worker \in [Workers -> Memory]
        /\ worker[w] \in WorkerState /\ worker[w].job \in JobIds
    BY <1>1, InHand
  <1>3. \A t \in {"clamav", "yara"} :
           [worker[w] EXCEPT !.at = "decide", !.what = t] \in Memory
    <2>1. \A t \in {"clamav", "yara"} : "decide" \in Steps /\ FitsAt("decide", worker[w].job, t)
      BY <1>2 DEF FitsAt, Steps
    <2> QED BY <2>1, <1>2, Moves
  <1>4. ASSUME Type(w) = "route",
               NEW i \in DOMAIN runs["route"]
        PROVE  [worker[w] EXCEPT !.at = "close_route", !.what = "manual_review",
                                 !.run = <<gen, i>>] \in Memory
    <2>1. worker[w].job = "route"
      BY <1>4 DEF Type, TypeOf
    <2>2. "close_route" \in Steps /\ FitsAt("close_route", worker[w].job, "manual_review")
      BY <2>1, <1>2 DEF FitsAt, Steps, Routes
    <2>3. "manual_review" \in {"precheck", "static", "clamav", "yara"} \cup Routes
      BY DEF Routes
    <2>4. PICK n \in Memory : n = [worker[w] EXCEPT !.at = "close_route",
                                                    !.what = "manual_review"]
      BY <1>2, <2>2, <2>3, Moves
    <2>5. n \in WorkerState /\ FitsAt(n.at, n.job, n.what)
      BY Zenon DEF Memory
    <2>6. <<gen, i>> \in (0..(MaxRetries + 1)) \X Nat
      <3>1. gen \in 1..(MaxRetries + 1) /\ runs["route"] \in Seq(Run)
        BY <1>2, Vocabulary DEF TablesOK, RunsOK, Gens
      <3>2. i \in Nat
        BY <3>1, <1>4
      <3> QED BY <3>1, <3>2, ConstantsAssumption
    <2>7. [n EXCEPT !.run = <<gen, i>>] \in WorkerState
      BY <2>5, <2>6, Fields
    <2>8. /\ [n EXCEPT !.run = <<gen, i>>].at = n.at
          /\ [n EXCEPT !.run = <<gen, i>>].job = n.job
          /\ [n EXCEPT !.run = <<gen, i>>].what = n.what
      BY <2>5 DEF WorkerState
    <2>9. [n EXCEPT !.run = <<gen, i>>] \in Memory
      BY <2>5, <2>7, <2>8, Zenon DEF Memory
    <2> QED BY <2>4, <2>9
  <1>5. \/ Proceed(w) \/ Raise(w, FALSE)
        \/ \E n \in Memory : worker' = [worker EXCEPT ![w] = n]
    <2>1. CASE RecoverStatic(w) \/ RefuseStatus(w)
      BY <2>1 DEF RecoverStatic, RefuseStatus
    <2>2. CASE RecoverMalware(w)
      <3>1. \/ Proceed(w) \/ Raise(w, FALSE)
            \/ Type(w) \in {"clamav", "yara"} /\
               worker' = [worker EXCEPT ![w] = [worker[w] EXCEPT !.at = "decide",
                                                                 !.what = Type(w)]]
        BY <2>2, Zenon DEF RecoverMalware
      <3> QED BY <3>1, <1>3
    <2>3. CASE RecoverRoute(w)
      <3> DEFINE open == {i \in DOMAIN runs["route"] : runs["route"][i].state = "running"}
      <3>1. \/ Proceed(w) \/ Raise(w, FALSE)
            \/ open # {} /\
               worker' = [worker EXCEPT ![w] =
                            [worker[w] EXCEPT !.at = "close_route", !.what = "manual_review",
                                              !.run = <<gen, CHOOSE i \in open : TRUE>>]]
        BY <2>3, Zenon DEF RecoverRoute
      <3>2. open # {} => (CHOOSE i \in open : TRUE) \in open
        OBVIOUS
      <3>3. Type(w) = "route"
        BY <2>3 DEF RecoverRoute
      <3>4. open # {} => (CHOOSE i \in open : TRUE) \in DOMAIN runs["route"]
        BY <3>2
      <3> HIDE DEF open
      <3> QED BY <3>1, <3>3, <3>4, <1>4
    <2> QED BY <2>1, <2>2, <2>3 DEF Recovered
  <1>6. worker' \in [Workers -> Memory]
    <2>1. FALSE \in BOOLEAN
      OBVIOUS
    <2> QED BY <2>1, <1>1, <1>5, MovesTyped, Zenon
  <1>7. TablesOK'
    BY <1>2 DEF Recovered, TablesOK, RunsOK
  <1> QED BY <1>6, <1>7 DEF TInv

(* A run's name: the attempt, and its place among the type's runs.         *)
LEMMA RunNames ==
    ASSUME TablesOK, NEW t \in Types
    PROVE  /\ <<gen, Len(runs[t]) + 1>> \in (0..(MaxRetries + 1)) \X Nat
           /\ \A i \in DOMAIN runs[t] : <<gen, i>> \in (0..(MaxRetries + 1)) \X Nat
  <1>1. gen \in 0..(MaxRetries + 1)
    BY ConstantsAssumption DEF TablesOK, Gens
  <1>2. runs[t] \in Seq(Run)
    BY DEF TablesOK, RunsOK
  <1>3. Len(runs[t]) + 1 \in Nat /\ \A i \in DOMAIN runs[t] : i \in Nat
    BY <1>2
  <1> QED BY <1>1, <1>3

LEMMA OpenTyped ==
    ASSUME TInv, NEW w \in Workers, Open(w)
    PROVE  TInv'
  <1> DEFINE type == Type(w)
             real == {i \in DOMAIN runs[type] : runs[type][i].reason = "none"}
             next == IF type = "precheck" THEN "inspect" ELSE "execute"
             h == worker[w]
  <1>1. h.at = "open" /\ h.at # "idle"
    BY DEF Open
  <1>2. /\ TablesOK /\ worker \in [Workers -> Memory] /\ h \in WorkerState
        /\ h.job \in JobIds /\ h.job # "route" /\ type \in Types
    BY <1>1, InHand DEF FitsAt
  <1>3. next \in Steps /\ FitsAt(next, h.job, h.what)
    <2>1. CASE h.job = "precheck"
      BY <2>1, <1>2 DEF FitsAt, Steps, Type, TypeOf
    <2>2. CASE h.job # "precheck"
      <3>1. TypeOf(h.job) \in Required /\ TypeOf(h.job) # "precheck"
        BY <2>2, <1>2, Vocabulary
      <3> QED BY <3>1, <1>2 DEF FitsAt, Steps, Type
    <2> QED BY <2>1, <2>2
  <1>4. [h EXCEPT !.at = next, !.run = <<gen, Len(runs[type]) + 1>>] \in Memory
    <2> HIDE DEF h, next, type
    <2> QED BY <1>2, <1>3, RunNames, Moves
  <1>5. ASSUME NEW i \in real, type = "dependency"
        PROVE  [h EXCEPT !.at = "execute", !.run = <<gen, i>>] \in Memory
    <2>1. next = "execute"
      BY <1>5
    <2>2. "execute" \in Steps /\ FitsAt("execute", h.job, h.what)
      BY <1>3, <2>1
    <2>3. <<gen, i>> \in (0..(MaxRetries + 1)) \X Nat
      BY <1>2, <1>5, RunNames
    <2> HIDE DEF h
    <2> QED BY <1>2, <2>2, <2>3, Moves
  <1>6. /\ runs' = runs \/ AppendRun(type, NewRun)
        /\ \/ Proceed(w)
           \/ \E n \in Memory : worker' = [worker EXCEPT ![w] = n]
    <2>1. CASE Proceed(w) /\ UNCHANGED runs
      BY <2>1
    <2>2. CASE /\ type = "dependency" /\ real # {}
               /\ worker' = [worker EXCEPT ![w] =
                               IF runs[type][CHOOSE i \in real : TRUE].state = "running"
                               THEN [h EXCEPT !.at = "execute",
                                              !.run = <<gen, CHOOSE i \in real : TRUE>>]
                               ELSE AfterStage(w)]
               /\ UNCHANGED runs
      <3>1. (CHOOSE i \in real : TRUE) \in real
        BY <2>2
      <3>2. [h EXCEPT !.at = "execute", !.run = <<gen, CHOOSE i \in real : TRUE>>] \in Memory
        BY <3>1, <2>2, <1>5
      <3>3. AfterStage(w) \in Memory
        BY <1>1, <1>2, FrameMoves DEF TablesOK
      <3> HIDE DEF real, h, type
      <3> QED BY <3>2, <3>3, <2>2
    <2>3. CASE /\ AppendRun(type, NewRun)
               /\ worker' = [worker EXCEPT ![w] =
                               [h EXCEPT !.at = next, !.run = <<gen, Len(runs[type]) + 1>>]]
      BY <2>3, <1>4
    <2> QED BY <2>1, <2>2, <2>3, Zenon DEF Open
  <1>7. worker' \in [Workers -> Memory]
    BY <1>1, <1>6, MovesTyped
  <1>8. RunsOK'
    <2>1. CASE runs' = runs
      BY <2>1, <1>2 DEF TablesOK, RunsOK
    <2>2. CASE AppendRun(type, NewRun)
      BY <2>2, <1>2, WritesTyped, NewRuns
    <2> QED BY <2>1, <2>2, <1>6
  <1>9. UNCHANGED <<advanced, status, gen, decision, manifest, current, scanned, jobs, covered,
                    announced, happened>>
    BY DEF Open
  <1>10. TablesOK'
    BY <1>2, <1>8, <1>9 DEF TablesOK
  <1> QED BY <1>7, <1>10 DEF TInv

(* Every result of a stage is a state of a run.                            *)
LEMMA ResultsAreStates ==
    ASSUME NEW t \in Required, NEW r \in Results[t]
    PROVE  r \in RunStates /\ (r = "infected" => t \in {"clamav", "yara"})
  <1>1. t \in DOMAIN Phase
    BY Vocabulary
  <1>2. OnToolFailure \in {"blocked", "degraded"}
    BY DEF OnToolFailure
  <1>3. t \in {"static", "diff", "import_graph", "clamav", "yara", "runtime", "dependency",
               "category", "llm_package", "llm_file", "llm_summary"}
    BY <1>1 DEF Phase
  <1>4. /\ t \notin {"clamav", "yara"} =>
              r \in {"completed", "partial", "skipped", "degraded", "blocked", "failed"}
        /\ t \in {"clamav", "yara"} => r \in {"completed", "infected", "blocked", "degraded"}
    BY <1>2, <1>3 DEF Results, StaticResults, DiffResults, GraphResults, ClamAvResults,
       YaraResults, RuntimeResults, DependencyResults, CategoryResults, PackageResults,
       FileResults, SummaryResults
  <1> QED BY <1>4 DEF RunStates

LEMMA ExecuteTyped ==
    ASSUME TInv, NEW w \in Workers, Execute(w)
    PROVE  TInv'
  <1> DEFINE type == Type(w)
             h == worker[w]
  <1>1. h.at = "execute" /\ h.at # "idle"
    BY DEF Execute
  <1>2. /\ TablesOK /\ worker \in [Workers -> Memory] /\ h \in WorkerState
        /\ h.job \in JobIds /\ type \in Required /\ type \in Types
    BY <1>1, InHand DEF FitsAt, Type
  <1>3. PICK r \in Results[type] :
           /\ CompleteRun(w, r)
           /\ scanned' = (scanned \/ type = "static")
           /\ worker' = [worker EXCEPT ![w] =
                CASE r = "infected" \/ (type = "static" /\ r = "blocked") ->
                       [h EXCEPT !.at = "decide", !.what = type]
                  [] type = "static" /\ r = "completed" /\ ~advanced -> [h EXCEPT !.at = "pend"]
                  [] OTHER -> AfterStage(w)]
    BY Zenon DEF Execute
  <1>4. r \in RunStates /\ (r = "infected" => type \in {"clamav", "yara"})
    BY <1>2, <1>3, ResultsAreStates
  <1>5. RunsOK'
    BY <1>2, <1>3, <1>4, WritesTyped
  <1>6. ASSUME type \in {"static", "clamav", "yara"}
        PROVE  [h EXCEPT !.at = "decide", !.what = type] \in Memory
    <2>1. "decide" \in Steps /\ FitsAt("decide", h.job, type)
      BY <1>2, <1>6 DEF FitsAt, Steps
    <2> HIDE DEF h, type
    <2> QED BY <2>1, <1>2, <1>6, Moves
  <1>7. [h EXCEPT !.at = "pend"] \in Memory
    <2>1. "pend" \in Steps /\ FitsAt("pend", h.job, h.what)
      BY <1>2 DEF FitsAt, Steps
    <2> HIDE DEF h
    <2> QED BY <2>1, <1>2, Moves
  <1>8. AfterStage(w) \in Memory
    BY <1>1, <1>2, FrameMoves DEF TablesOK
  <1>9. \E n \in Memory : worker' = [worker EXCEPT ![w] = n]
    <2>1. r = "infected" \/ (type = "static" /\ r = "blocked") =>
             type \in {"static", "clamav", "yara"}
      BY <1>4
    <2> HIDE DEF h, type
    <2> QED BY <1>3, <1>6, <1>7, <1>8, <2>1
  <1>10. worker' \in [Workers -> Memory]
    BY <1>9, MovesTyped
  <1>11. scanned' \in BOOLEAN
    BY <1>3
  <1>12. UNCHANGED <<advanced, status, gen, decision, manifest, current, jobs, covered, announced,
                     happened>>
    BY DEF Execute
  <1>13. TablesOK'
    BY <1>2, <1>5, <1>11, <1>12 DEF TablesOK
  <1> QED BY <1>10, <1>13 DEF TInv

LEMMA DecideTyped ==
    ASSUME TInv, NEW w \in Workers, Decide(w) \/ Pend(w) \/ Announce(w)
    PROVE  TInv'
  <1> DEFINE h == worker[w]
  <1>1. h.at \in {"decide", "pend", "announce"} /\ h.at # "idle"
    BY DEF Decide, Pend, Announce
  <1>2. /\ TablesOK /\ worker \in [Workers -> Memory] /\ h \in WorkerState
        /\ h.job \in JobIds
        /\ h.at = "decide" => h.what \in {"precheck", "static", "clamav", "yara"}
        /\ h.at = "announce" => h.what # "none"
    BY <1>1, InHand DEF FitsAt
  <1>3. h.what \in {"none", "precheck", "static", "clamav", "yara"} \cup Routes
    BY <1>2 DEF WorkerState
  <1>4. /\ "announce" \in Steps
        /\ h.at = "decide" => FitsAt("announce", h.job, h.what)
        /\ FitsAt("announce", h.job, "manual_review")
        /\ "manual_review" \in Routes
    BY <1>2 DEF FitsAt, Steps, Routes
  <1>5. [h EXCEPT !.at = "announce", !.what = "manual_review"] \in Memory
    <2> HIDE DEF h
    <2> QED BY <1>2, <1>4, Moves
  <1>6. \/ h.at = "decide" /\ Go(w, "announce")
        \/ Raise(w, TRUE) \/ Proceed(w)
        \/ worker' = [worker EXCEPT ![w] = [h EXCEPT !.at = "announce",
                                                     !.what = "manual_review"]]
    BY DEF Decide, Pend, Announce
  <1>7. worker' \in [Workers -> Memory]
    <2>1. TRUE \in BOOLEAN
      OBVIOUS
    <2> QED BY <2>1, <1>1, <1>4, <1>5, <1>6, MovesTyped, Zenon
  <1>8. status' \in Statuses /\ decision' \in Decisions
    BY <1>2 DEF Decide, Pend, Announce, TablesOK, Statuses, Decided, Undecided, Decisions,
       AutoReject
  <1>9. announced' \subseteq {"precheck", "static", "clamav", "yara"} \cup Routes
    BY <1>2, <1>3 DEF Decide, Pend, Announce, TablesOK
  <1>10. UNCHANGED <<advanced, gen, manifest, current, runs, scanned, jobs, covered, happened>>
    BY DEF Decide, Pend, Announce
  <1>11. TablesOK'
    BY <1>2, <1>8, <1>9, <1>10 DEF TablesOK, RunsOK
  <1> QED BY <1>7, <1>11 DEF TInv
-----------------------------------------------------------------------------
(* Routing.                                                                *)

LEMMA EvaluateTyped ==
    ASSUME TInv, NEW w \in Workers, Evaluate(w) \/ OpenRoute(w)
    PROVE  TInv'
  <1> DEFINE h == worker[w]
  <1>1. h.at \in {"evaluate", "open_route"} /\ h.at # "idle"
    BY DEF Evaluate, OpenRoute
  <1>2. /\ TablesOK /\ worker \in [Workers -> Memory] /\ h \in WorkerState
        /\ h.job = "route" /\ "route" \in JobIds /\ "route" \in Types
        /\ h.at = "open_route" => h.what \in Routes
    BY <1>1, InHand, Vocabulary DEF FitsAt
  <1>3. \E n \in Memory : worker' = [worker EXCEPT ![w] = n]
    <2>1. CASE Evaluate(w)
      <3>1. PICK f : worker' = [worker EXCEPT ![w] = [h EXCEPT !.at = "open_route",
                                                     !.what = Route(h.fresh, f),
                                                     !.fresh = FALSE]]
        BY <2>1 DEF Evaluate
      <3>2. Route(h.fresh, f) \in Routes
        BY Zenon DEF Route, Routes
      <3>3. "open_route" \in Steps /\ FitsAt("open_route", h.job, Route(h.fresh, f))
        BY <1>2, <3>2 DEF FitsAt, Steps
      <3> HIDE DEF h
      <3> QED BY <3>1, <3>2, <3>3, <1>2, Moves
    <2>2. CASE OpenRoute(w)
      <3>1. "apply_route" \in Steps /\ FitsAt("apply_route", h.job, h.what)
        BY <2>2, <1>2 DEF FitsAt, Steps, OpenRoute
      <3>2. worker' = [worker EXCEPT ![w] = [h EXCEPT !.at = "apply_route",
                                                  !.run = <<gen, Len(runs["route"]) + 1>>]]
        BY <2>2 DEF OpenRoute
      <3> HIDE DEF h
      <3> QED BY <3>1, <3>2, <1>2, RunNames, Moves
    <2> QED BY <2>1, <2>2
  <1>4. worker' \in [Workers -> Memory]
    BY <1>3, MovesTyped
  <1>5. RunsOK'
    <2>1. CASE runs' = runs
      BY <2>1, <1>2 DEF TablesOK, RunsOK
    <2>2. CASE AppendRun("route", NewRun)
      BY <2>2, <1>2, WritesTyped, NewRuns
    <2> QED BY <2>1, <2>2 DEF Evaluate, OpenRoute
  <1>6. UNCHANGED <<advanced, status, gen, decision, manifest, current, scanned, jobs, covered,
                    announced, happened>>
    BY DEF Evaluate, OpenRoute
  <1>7. TablesOK'
    BY <1>2, <1>5, <1>6 DEF TablesOK
  <1> QED BY <1>4, <1>7 DEF TInv

LEMMA ApplyTyped ==
    ASSUME TInv, NEW w \in Workers,
           ApplyRoute(w) \/ Conflict(w) \/ CloseRoute(w) \/ Cover(w)
    PROVE  TInv'
  <1> DEFINE h == worker[w]
  <1>1. h.at \in {"apply_route", "conflict", "close_route", "cover"} /\ h.at # "idle"
    BY DEF ApplyRoute, Conflict, CloseRoute, Cover
  <1>2. /\ TablesOK /\ worker \in [Workers -> Memory] /\ h \in WorkerState
        /\ h.job = "route" /\ "route" \in JobIds /\ Type(w) \in Types
        /\ h.at # "conflict" => h.what \in Routes
    BY <1>1, InHand, Vocabulary DEF FitsAt
  <1>3. {"close_route", "conflict", "cover", "announce"} \subseteq Steps
    BY DEF Steps
  <1>4. /\ h.what \in Routes => \A s \in {"close_route", "conflict", "cover", "announce"} :
                                    FitsAt(s, h.job, h.what)
    BY <1>2 DEF FitsAt, Routes
  <1>5. \/ Raise(w, FALSE)
        \/ h.what \in Routes /\ \E s \in {"close_route", "conflict", "cover", "announce"} :
                                    Go(w, s)
    BY <1>2 DEF ApplyRoute, Conflict, CloseRoute, Cover
  <1>6. worker' \in [Workers -> Memory]
    <2>1. FALSE \in BOOLEAN
      OBVIOUS
    <2>2. \A s \in {"close_route", "conflict", "cover", "announce"} : s \in Steps
      BY <1>3
    <2> QED BY <2>1, <2>2, <1>1, <1>4, <1>5, MovesTyped, Zenon
  <1>7. RunsOK'
    <2>1. CASE runs' = runs
      BY <2>1, <1>2 DEF TablesOK, RunsOK
    <2>2. CASE \E s \in {"failed", "completed"} : CompleteRun(w, s)
      <3>1. {"failed", "completed"} \subseteq RunStates
        BY DEF RunStates
      <3> QED BY <2>2, <3>1, <1>2, WritesTyped
    <2> QED BY <2>1, <2>2 DEF ApplyRoute, Conflict, CloseRoute, Cover
  <1>8. status' \in Statuses /\ decision' \in Decisions /\ covered' \in BOOLEAN
    <2>1. CASE ApplyRoute(w)
      <3>1. h.what \in Routes
        BY <2>1, <1>2 DEF ApplyRoute
      <3> QED BY <2>1, <3>1, <1>2 DEF ApplyRoute, TablesOK, Statuses, Decided, Undecided,
                 Decisions, Routes
    <2>2. CASE Conflict(w) \/ CloseRoute(w) \/ Cover(w)
      BY <2>2, <1>2 DEF Conflict, CloseRoute, Cover, TablesOK
    <2> QED BY <2>1, <2>2
  <1>9. UNCHANGED <<advanced, gen, manifest, current, scanned, jobs, announced, happened>>
    BY DEF ApplyRoute, Conflict, CloseRoute, Cover
  <1>10. TablesOK'
    BY <1>2, <1>7, <1>8, <1>9 DEF TablesOK
  <1> QED BY <1>6, <1>10 DEF TInv

-----------------------------------------------------------------------------
(* The orchestrator.                                                       *)

UnitStates == Terminal \cup {"none", "pending", "running"}

(* What a reconcile reads and concludes is of the kinds it works with.     *)
LEMMA ReadsTyped ==
    ASSUME TablesOK
    PROVE  /\ [s \in Required |-> LatestRun(s)] \in [Required -> Run \cup {NoRun}]
           /\ \A s : \A run : UnitState(s, run) \in UnitStates
           /\ \A states : UpstreamReason(states) \in Reasons
  <1>1. \A s \in Required : LatestRun(s) \in Run \cup {NoRun}
    <2> SUFFICES ASSUME NEW s \in Required
                 PROVE  LatestRun(s) \in Run \cup {NoRun}
      OBVIOUS
    <2>1. runs[s] \in Seq(Run)
      BY Vocabulary DEF TablesOK, RunsOK
    <2>2. runs[s] # <<>> => runs[s][Len(runs[s])] \in Run
      BY <2>1
    <2> QED BY <2>2, Zenon DEF LatestRun
  <1>2. ASSUME NEW s, NEW run
        PROVE  UnitState(s, run) \in UnitStates
    <2> DEFINE job == jobs[JobOf(s)].status
               active == job \in {"queued", "running"}
               ended == RunState(run) \in Terminal
    <2>1. UnitState(s, run) =
             CASE ended /\ ~(active /\ run.reason # "none") -> RunState(run)
               [] active /\ (ended => run.reason # "none") -> "running"
               [] ~active /\ ~ended ->
                    IF job = "absent" /\ run = NoRun THEN "pending" ELSE "failed"
      BY DEF UnitState
    <2>2. ended => RunState(run) \in UnitStates
      BY DEF UnitStates
    <2>3. {"running", "pending", "failed"} \subseteq UnitStates
      BY DEF UnitStates, Terminal
    <2> HIDE DEF active, ended, job
    <2> QED BY <2>1, <2>2, <2>3
  <1>3. \A states : UpstreamReason(states) \in Reasons
    BY Zenon DEF UpstreamReason, Reasons
  <1> QED BY <1>1, <1>2, <1>3

LEMMA ReadTyped ==
    ASSUME TInv, NEW w \in Workers,
           ReadArtifact(w) \/ ReadRuns(w) \/ ReadJobs(w) \/ Wait(w) \/ QueueRoute(w)
    PROVE  TInv'
  <1> DEFINE h == worker[w]
             l == [s \in Required |-> LatestRun(s)]
             u == [s \in Required |-> UnitState(s, h.latest[s])]
  <1>1. h.at # "idle"
    BY DEF ReadArtifact, ReadRuns, ReadJobs, Wait, QueueRoute
  <1>2. /\ TablesOK /\ worker \in [Workers -> Memory] /\ h \in WorkerState
        /\ h.job \in JobIds /\ h \in Memory /\ advanced \in BOOLEAN
    BY <1>1, InHand DEF TablesOK
  <1>3. l \in [Required -> Run \cup {NoRun}] /\ u \in [Required -> UnitStates]
    BY <1>2, ReadsTyped
  <1>4. "read_runs" \in FreeSteps /\ "read_jobs" \in FreeSteps /\ TRUE \in BOOLEAN
    BY DEF FreeSteps
  <1>5. "read_jobs" \in Steps /\ FitsAt("read_jobs", h.job, h.what)
    BY <1>2, <1>4, FreeFits
  <1>6. [h EXCEPT !.at = "read_jobs", !.latest = l] \in Memory
    <2> HIDE DEF h, l
    <2> QED BY <1>2, <1>3, <1>5, Moves
  <1>7. [Frame(w) EXCEPT !.at = "act", !.units = u] \in Memory
    <2> HIDE DEF u
    <2> QED BY <1>1, <1>2, <1>3, FrameMoves DEF UnitStates
  <1>8. \/ Leave(w) \/ Go(w, "read_runs") \/ Raise(w, TRUE)
        \/ worker' = [worker EXCEPT ![w] = [h EXCEPT !.at = "read_jobs", !.latest = l]]
        \/ worker' = [worker EXCEPT ![w] = [Frame(w) EXCEPT !.at = "act", !.units = u]]
    BY DEF ReadArtifact, ReadRuns, ReadJobs, Wait, QueueRoute
  <1>9. worker' \in [Workers -> Memory]
    <2> HIDE DEF u, l
    <2> QED BY <1>1, <1>4, <1>6, <1>7, <1>8, MovesTyped, Zenon
  <1>10. jobs' \in [JobIds -> Job]
    <2>1. jobs' = jobs \/ Enqueue("route")
      BY DEF ReadArtifact, ReadRuns, ReadJobs, Wait, QueueRoute
    <2> QED BY <2>1, <1>2, JobsTyped, Vocabulary DEF TablesOK
  <1>11. UNCHANGED <<advanced, status, gen, decision, manifest, current, runs, scanned, covered,
                     announced, happened>>
    BY DEF ReadArtifact, ReadRuns, ReadJobs, Wait, QueueRoute
  <1>12. TablesOK'
    BY <1>2, <1>10, <1>11 DEF TablesOK, RunsOK
  <1> QED BY <1>9, <1>12 DEF TInv

(* Marking a unit keeps the worker at "act" with all its other units.      *)
LEMMA UnitMarked ==
    ASSUME TInv, NEW w \in Workers, worker[w].at = "act", NEW s \in Required,
           NEW x \in UnitStates
    PROVE  [worker[w] EXCEPT !.units = [worker[w].units EXCEPT ![s] = x]] \in Memory
  <1> DEFINE h == worker[w]
             n == [h EXCEPT !.units = [h.units EXCEPT ![s] = x]]
  <1>1. h \in WorkerState /\ h.job \in JobIds
    BY InHand
  <1>2. h.units \in [Required -> UnitStates]
    BY <1>1 DEF WorkerState, UnitStates
  <1>3. [h.units EXCEPT ![s] = x] \in [Required -> UnitStates]
    BY <1>2
  <1>4. n \in WorkerState
    <2> HIDE DEF h
    <2> QED BY <1>1, <1>3, Fields DEF UnitStates
  <1>5. n.at = "act" /\ n.job = h.job
    BY <1>1 DEF WorkerState
  <1>6. FitsAt(n.at, n.job, n.what)
    <2>1. "act" \in FreeSteps
      BY DEF FreeSteps
    <2> HIDE DEF n, h
    <2> QED BY <2>1, <1>1, <1>5, FreeFits
  <1> QED BY <1>4, <1>6, Zenon DEF Memory

LEMMA SynthesizeTyped ==
    ASSUME TInv, NEW w \in Workers, NEW s \in Required,
           SkipStage(w, s) \/ DegradeStage(w, s)
    PROVE  TInv'
  <1>1. worker[w].at = "act" /\ TablesOK /\ worker \in [Workers -> Memory]
    BY DEF SkipStage, DegradeStage, TInv
  <1>2. PICK x \in {"skipped", "degraded"}, reason \in Reasons : Synthesize(w, s, x, reason)
    <2>1. UpstreamReason(UpstreamStates(w, s)) \in Reasons
      BY <1>1, ReadsTyped
    <2>2. "stage_tool_unavailable" \in Reasons
      BY DEF Reasons
    <2> QED BY <2>1, <2>2, Zenon DEF SkipStage, DegradeStage
  <1>3. x \in UnitStates /\ x \in RunStates
    BY DEF UnitStates, Terminal, RunStates
  <1>4. worker' \in [Workers -> Memory]
    <2>1. worker' = [worker EXCEPT ![w] = [worker[w] EXCEPT !.units =
                                               [worker[w].units EXCEPT ![s] = x]]]
      BY <1>2 DEF Synthesize
    <2> QED BY <2>1, <1>1, <1>3, UnitMarked, MovesTyped
  <1>5. RunsOK'
    <2>1. [state |-> x, reason |-> reason] \in Run
      BY <1>3, NewRuns
    <2>2. CASE runs' = runs
      BY <2>2, <1>1 DEF TablesOK, RunsOK
    <2>3. CASE AppendRun(s, [state |-> x, reason |-> reason])
      BY <2>3, <2>1, <1>1, WritesTyped, Vocabulary
    <2> QED BY <2>2, <2>3, <1>2 DEF Synthesize
  <1>6. UNCHANGED <<advanced, status, gen, decision, manifest, current, scanned, jobs, covered,
                    announced, happened>>
    BY <1>2 DEF Synthesize
  <1>7. TablesOK'
    BY <1>1, <1>5, <1>6 DEF TablesOK
  <1> QED BY <1>4, <1>7 DEF TInv

LEMMA QueueTyped ==
    ASSUME TInv, NEW w \in Workers, NEW s \in Required, QueueStage(w, s)
    PROVE  TInv'
  <1>1. worker[w].at = "act" /\ TablesOK /\ worker \in [Workers -> Memory]
    BY DEF QueueStage, TInv
  <1>2. worker' \in [Workers -> Memory]
    <2>1. CASE Raise(w, TRUE)
      <3>1. TRUE \in BOOLEAN
        OBVIOUS
      <3> QED BY <2>1, <3>1, <1>1, MovesTyped
    <2>2. CASE worker' = [worker EXCEPT ![w].units[s] = "running"]
      <3>1. worker' = [worker EXCEPT ![w] = [worker[w] EXCEPT !.units =
                                                 [worker[w].units EXCEPT ![s] = "running"]]]
        BY <2>2
      <3>2. "running" \in UnitStates
        BY DEF UnitStates
      <3> QED BY <3>1, <3>2, <1>1, UnitMarked, MovesTyped
    <2> QED BY <2>1, <2>2 DEF QueueStage
  <1>3. jobs' \in [JobIds -> Job]
    <2>1. jobs' = jobs \/ \E id \in JobIds : Enqueue(id)
      BY Vocabulary DEF QueueStage
    <2> QED BY <2>1, <1>1, JobsTyped DEF TablesOK
  <1>4. UNCHANGED <<advanced, status, gen, decision, manifest, current, runs, scanned, covered,
                    announced, happened>>
    BY DEF QueueStage
  <1>5. TablesOK'
    BY <1>1, <1>3, <1>4 DEF TablesOK, RunsOK
  <1> QED BY <1>2, <1>5 DEF TInv
-----------------------------------------------------------------------------
(* The people.                                                             *)

LEMMA ManualApproveTyped ==
    ASSUME TInv, ManualApprove
    PROVE  TInv'
  <1>1. TablesOK /\ worker \in [Workers -> Memory]
    BY DEF TInv
  <1>2. jobs' \in [JobIds -> Job]
    <2>1. \A id \in JobIds :
             (IF jobs[id].status \in {"queued", "running", "failed"}
              THEN [jobs[id] EXCEPT !.status = "cancelled", !.owner = None, !.lapsed = FALSE]
              ELSE jobs[id]) \in Job
      BY <1>1, JobsTyped, JobRows
    <2> QED BY <2>1 DEF ManualApprove
  <1>3. RunsOK'
    <2> DEFINE q(t) == [i \in DOMAIN runs[t] |-> IF runs[t][i].state = "running"
                                                 THEN [runs[t][i] EXCEPT !.state = "cancelled"]
                                                 ELSE runs[t][i]]
    <2>1. \A t \in Types : q(t) \in Seq(Run)
      <3>1. "cancelled" \in RunStates
        BY DEF RunStates
      <3> QED BY <3>1, <1>1, RunLists DEF TablesOK, RunsOK
    <2>2. runs' = [t \in Types |-> q(t)]
      BY DEF ManualApprove
    <2> HIDE DEF q
    <2> QED BY <2>1, <2>2 DEF RunsOK
  <1>4. happened' \in 0..MaxEvents
    <2>1. "person" \in EventKinds
      BY DEF EventKinds
    <2> QED BY <2>1, <1>1, WritesTyped DEF ManualApprove
  <1>5. status' = "approved" /\ decision' = "manual_approve"
    BY DEF ManualApprove
  <1>6. status' \in Statuses /\ decision' \in Decisions
    BY <1>5 DEF Statuses, Decided, Decisions
  <1>7. UNCHANGED <<advanced, gen, manifest, current, scanned, covered, announced, worker>>
    BY DEF ManualApprove
  <1>8. TablesOK'
    BY <1>1, <1>2, <1>3, <1>4, <1>6, <1>7 DEF TablesOK
  <1> QED BY <1>1, <1>7, <1>8 DEF TInv

LEMMA PeopleTyped ==
    ASSUME TInv, Approve \/ Reject \/ RequestChanges \/ Release
    PROVE  TInv'
  <1>1. TablesOK /\ worker \in [Workers -> Memory]
    BY DEF TInv
  <1>2. happened' \in 0..MaxEvents
    <2>1. "person" \in EventKinds /\ "release" \in EventKinds
      BY DEF EventKinds
    <2> QED BY <2>1, <1>1, WritesTyped DEF Approve, Reject, RequestChanges, Release
  <1>3. status' \in Statuses /\ decision' \in Decisions
    BY <1>1 DEF Approve, Reject, RequestChanges, Release, TablesOK, Statuses, Decided, Decisions
  <1>4. current' \in BOOLEAN
    BY <1>1 DEF Approve, Reject, RequestChanges, Release, TablesOK
  <1>5. UNCHANGED <<advanced, gen, manifest, runs, scanned, jobs, covered, announced, worker>>
    BY DEF Approve, Reject, RequestChanges, Release
  <1>6. TablesOK'
    BY <1>1, <1>2, <1>3, <1>4, <1>5 DEF TablesOK, RunsOK
  <1> QED BY <1>1, <1>5, <1>6 DEF TInv

LEMMA RetryTyped ==
    ASSUME TInv, Retry
    PROVE  TInv'
  <1>1. TablesOK /\ worker \in [Workers -> Memory]
    BY DEF TInv
  <1>2. gen' \in Gens
    BY <1>1, ConstantsAssumption DEF Retry, TablesOK, Gens
  <1>3. status' \in Statuses
    BY DEF Retry, Statuses, Undecided
  <1>4. RunsOK'
    BY <1>1 DEF Retry, TablesOK, RunsOK
  <1>5. jobs' \in [JobIds -> Job]
    BY NoJobs DEF Retry
  <1>6. covered' \in BOOLEAN
    BY DEF Retry
  <1>7. UNCHANGED <<advanced, decision, manifest, current, scanned, announced, worker, happened>>
    BY DEF Retry
  <1>8. TablesOK'
    BY <1>1, <1>2, <1>3, <1>4, <1>5, <1>6, <1>7 DEF TablesOK
  <1> QED BY <1>1, <1>7, <1>8 DEF TInv
-----------------------------------------------------------------------------
LEMMA InitTyped == Init => TInv
  <1> SUFFICES ASSUME Init PROVE TInv
    OBVIOUS
  <1>1. advanced \in BOOLEAN
    BY ConstantsAssumption DEF Init
  <1>2. gen \in Gens
    BY Vocabulary DEF Init
  <1>3. status \in Statuses /\ decision \in Decisions
    BY DEF Init, Statuses, Undecided, Decisions
  <1>4. {manifest, current, scanned, covered} \subseteq BOOLEAN
    BY DEF Init
  <1>5. RunsOK
    BY DEF Init, RunsOK
  <1>6. jobs \in [JobIds -> Job]
    BY NoJobs DEF Init
  <1>7. announced = {} /\ happened \in 0..MaxEvents
    BY ConstantsAssumption DEF Init
  <1>8. worker \in [Workers -> Memory]
    BY IdleMemory DEF Init
  <1> QED BY <1>1, <1>2, <1>3, <1>4, <1>5, <1>6, <1>7, <1>8 DEF TInv, TablesOK

LEMMA NextTyped == TInv /\ [Next]_vars => TInv'
  <1> SUFFICES ASSUME TInv, [Next]_vars PROVE TInv'
    OBVIOUS
  <1>1. CASE UNCHANGED vars
    BY <1>1 DEF vars, TInv, TablesOK, RunsOK
  <1>2. ASSUME NEW w \in Workers, WorkerStep(w) \/ Pause(w) \/ Crash(w) \/ Outage(w)
        PROVE  TInv'
    <2>1. CASE \E id \in JobIds : ClaimJob(w, id)
      BY <2>1, ClaimTyped
    <2>2. CASE StageStep(w)
      BY <2>2, RecoverTyped, LoadTyped, RecoveredTyped, PrecheckTyped, OpenTyped, InspectTyped,
         ExecuteTyped, DecideTyped, EvaluateTyped, ApplyTyped, Zenon DEF StageStep
    <2>3. CASE ReconcileStep(w)
      BY <2>3, ReadTyped, SynthesizeTyped, QueueTyped, Zenon DEF ReconcileStep
    <2>4. CASE CompleteJob(w) \/ RecordFailure(w) \/ FailJob(w)
      BY <2>4, RecoverTyped, EndTyped
    <2>5. CASE Pause(w) \/ Crash(w) \/ Outage(w)
      BY <2>5, LeaseTyped, OutageTyped
    <2> QED BY <1>2, <2>1, <2>2, <2>3, <2>4, <2>5 DEF WorkerStep
  <1>3. CASE People \/ Release
    BY <1>3, ManualApproveTyped, PeopleTyped, RetryTyped DEF People
  <1> QED BY <1>1, <1>2, <1>3 DEF Next

LEMMA TypesFollow == TInv => TypeOK
  <1> SUFFICES ASSUME TInv PROVE TypeOK
    OBVIOUS
  <1>1. worker \in [Workers -> WorkerState]
    <2>1. Memory \subseteq WorkerState
      BY Zenon DEF Memory
    <2> QED BY <2>1 DEF TInv
  <1> QED BY <1>1, Vocabulary DEF TInv, TablesOK, RunsOK, TypeOK

(* Every table and every worker's memory has its type in every reachable   *)
(* state, and a worker has a job that fits the step it is at.              *)
THEOREM TypeCorrectness == Spec => []TypeOK
  <1>1. Spec => []TInv
    BY InitTyped, NextTyped, PTL DEF Spec
  <1> QED BY <1>1, TypesFollow, PTL

-----------------------------------------------------------------------------
(* Decisions.                                                              *)

(* From where a review may move on.                                        *)
LEMMA Transitions ==
    ASSUME status \in Statuses
    PROVE  /\ MayBecome("prechecking") <=>
                 status \in {"quarantined", "processing_failed", "prechecking"}
           /\ MayBecome("scanning") <=>
                 status \in {"prechecking", "processing_failed", "scanning"}
           /\ MayBecome("pending_review") <=> status \in {"scanning", "pending_review"}
  BY DEF MayBecome, Successors, Statuses, Undecided, Decided

(* What changes neither the status nor the decision.                       *)
LEMMA StatusKept ==
    ASSUME NEW w \in Workers,
           \/ \E id \in JobIds : ClaimJob(w, id)
           \/ Pause(w) \/ Crash(w) \/ Outage(w) \/ Recover(w) \/ Load(w) \/ Recovered(w)
           \/ Open(w) \/ Inspect(w) \/ ClosePrecheck(w) \/ EnqueueStatic(w)
           \/ Execute(w) \/ Announce(w) \/ Evaluate(w) \/ OpenRoute(w) \/ Conflict(w)
           \/ CloseRoute(w) \/ Cover(w)
           \/ ReconcileStep(w) \/ CompleteJob(w) \/ FailJob(w)
    PROVE  status' = status /\ decision' = decision
  <1>1. CASE \/ \E id \in JobIds : ClaimJob(w, id)
             \/ Pause(w) \/ Crash(w) \/ Outage(w) \/ Recover(w) \/ Load(w) \/ Recovered(w)
             \/ CompleteJob(w) \/ FailJob(w)
    BY <1>1 DEF ClaimJob, Pause, Crash, Outage, Recover, Load, Recovered, CompleteJob, FailJob
  <1>2. CASE \/ Open(w) \/ Inspect(w) \/ ClosePrecheck(w) \/ EnqueueStatic(w)
             \/ Execute(w) \/ Announce(w) \/ Evaluate(w) \/ OpenRoute(w) \/ Conflict(w)
             \/ CloseRoute(w) \/ Cover(w)
    BY <1>2 DEF Open, Inspect, ClosePrecheck, EnqueueStatic, Execute, Announce, Evaluate,
       OpenRoute, Conflict, CloseRoute, Cover
  <1>3. CASE ReconcileStep(w)
    BY <1>3 DEF ReconcileStep, ReadArtifact, ReadRuns, ReadJobs, SkipStage, DegradeStage,
       Synthesize, QueueStage, QueueRoute, Wait
  <1> QED BY <1>1, <1>2, <1>3, Zenon

(* The actions of a worker that move the review.                           *)
LEMMA DecisionStaysFit ==
    ASSUME IInv, NEW w \in Workers,
           \/ RecordFailure(w) \/ Admit(w) \/ StartScanning(w) \/ Decide(w) \/ Pend(w)
           \/ ApplyRoute(w)
    PROVE  DecisionFits'
  <1>1. TInv /\ status \in Statuses /\ DecisionFits
    BY DEF IInv, TInv, TablesOK
  <1> USE DEF DecisionFits, Undecided
  <1>2. CASE RecordFailure(w)
    BY <1>1, <1>2 DEF RecordFailure
  <1>3. CASE Admit(w)
    BY <1>1, <1>3, Transitions DEF Admit
  <1>4. CASE StartScanning(w)
    BY <1>1, <1>4, Transitions DEF StartScanning
  <1>5. CASE Pend(w)
    BY <1>1, <1>5, Transitions DEF Pend
  <1>6. CASE Decide(w)
    <2>1. worker[w].what \in {"precheck", "static", "clamav", "yara"}
      BY <1>1, <1>6, InHand DEF Decide, FitsAt
    <2> QED BY <1>1, <1>6, <2>1 DEF Decide, AutoReject
  <1>7. CASE ApplyRoute(w)
    <2>1. worker[w].what \in Routes
      BY <1>1, <1>7, InHand DEF ApplyRoute, FitsAt
    <2>2. CASE ~RouteApplies(worker[w].what)
      BY <1>1, <1>7, <2>2 DEF ApplyRoute
    <2>3. CASE RouteApplies(worker[w].what)
      <3>1. CASE worker[w].what = "auto_reject"
        BY <1>7, <2>3, <3>1 DEF ApplyRoute
      <3>2. CASE worker[w].what = "auto_approve"
        BY <1>7, <2>3, <3>2 DEF ApplyRoute
      <3>3. CASE worker[w].what = "manual_review"
        <4>1. status \in {"scanning", "pending_review"}
          BY <1>1, <2>3, <3>3, Transitions DEF RouteApplies
        <4> QED BY <1>1, <1>7, <2>3, <3>3, <4>1 DEF ApplyRoute
      <3> QED BY <2>1, <3>1, <3>2, <3>3 DEF Routes
    <2> QED BY <2>2, <2>3
  <1> QED BY <1>2, <1>3, <1>4, <1>5, <1>6, <1>7

(* No step starts a review job again once a person has approved: a job is  *)
(* only queued while the artifact is not approved, and only a queued or a  *)
(* running one is claimed, requeued or failed.                             *)
LEMMA QueueStaysClosed ==
    ASSUME IInv, decision = "manual_approve", NEW w \in Workers,
           WorkerStep(w) \/ Pause(w) \/ Crash(w) \/ Outage(w)
    PROVE  \A id \in JobIds : jobs'[id].status \notin {"queued", "running"}
  <1>1. /\ TInv /\ TablesOK /\ jobs \in [JobIds -> Job] /\ status = "approved"
        /\ \A id \in JobIds : jobs[id].status \notin {"queued", "running"}
    BY DEF IInv, TInv, TablesOK, DecisionFits, ManualApprovalEndsReview
  <1>2. ~MayEnqueue
    BY <1>1 DEF MayEnqueue
  <1>3. worker[w].at # "idle" => worker[w].job \in JobIds
    BY <1>1, InHand
  <1>4. ~OwnsJob(w)
    BY <1>1, <1>3 DEF OwnsJob
  <1>5. jobs' = jobs
    <2>1. ~\E id \in JobIds : ClaimJob(w, id)
      BY <1>1 DEF ClaimJob
    <2>2. CASE Pause(w) \/ Crash(w) \/ Outage(w) \/ CompleteJob(w) \/ RecordFailure(w) \/ FailJob(w)
      BY <2>2, <1>4 DEF Pause, Crash, Outage, CompleteJob, RecordFailure, FailJob
    <2>3. CASE StageStep(w)
      BY <2>3, <1>2 DEF StageStep, Recover, Load, Recovered, Admit, Open, Inspect, ClosePrecheck,
         StartScanning, EnqueueStatic, Execute, Decide, Pend, Announce, Evaluate, OpenRoute,
         ApplyRoute, Conflict, CloseRoute, Cover
    <2>4. CASE ReconcileStep(w)
      BY <2>4, <1>2 DEF ReconcileStep, ReadArtifact, ReadRuns, ReadJobs, SkipStage, DegradeStage,
         Synthesize, QueueStage, QueueRoute, Wait
    <2> QED BY <2>1, <2>2, <2>3, <2>4 DEF WorkerStep
  <1> QED BY <1>1, <1>5

(* Only a person's own action makes the decision "manual_approve".         *)
LEMMA OnlyPeopleApprove ==
    ASSUME IInv, NEW w \in Workers, WorkerStep(w) \/ Pause(w) \/ Crash(w) \/ Outage(w),
           decision' = "manual_approve"
    PROVE  decision = "manual_approve"
  <1>1. TInv
    BY DEF IInv
  <1>2. CASE RecordFailure(w) \/ Admit(w) \/ StartScanning(w) \/ Pend(w)
    BY <1>2 DEF RecordFailure, Admit, StartScanning, Pend
  <1>3. CASE Decide(w)
    <2>1. worker[w].what \in {"precheck", "static", "clamav", "yara"}
      BY <1>1, <1>3, InHand DEF Decide, FitsAt
    <2> QED BY <1>3, <2>1 DEF Decide, AutoReject
  <1>4. CASE ApplyRoute(w)
    <2>1. worker[w].what \in Routes
      BY <1>1, <1>4, InHand DEF ApplyRoute, FitsAt
    <2> QED BY <1>4, <2>1 DEF ApplyRoute, Routes
  <1>5. CASE \/ \E id \in JobIds : ClaimJob(w, id)
             \/ Pause(w) \/ Crash(w) \/ Outage(w) \/ Recover(w) \/ Load(w) \/ Recovered(w)
             \/ Open(w) \/ Inspect(w) \/ ClosePrecheck(w) \/ EnqueueStatic(w)
             \/ Execute(w) \/ Announce(w) \/ Evaluate(w) \/ OpenRoute(w) \/ Conflict(w)
             \/ CloseRoute(w) \/ Cover(w)
             \/ ReconcileStep(w) \/ CompleteJob(w) \/ FailJob(w)
    BY <1>5, StatusKept
  <1> QED BY <1>2, <1>3, <1>4, <1>5, Zenon DEF WorkerStep, StageStep

LEMMA Invariance == Spec => []IInv
  <1>1. Init => IInv
    <2> SUFFICES ASSUME Init PROVE IInv
      OBVIOUS
    <2>1. DecisionFits
      BY DEF Init, DecisionFits, Undecided
    <2>2. ManualApprovalEndsReview
      BY DEF Init, ManualApprovalEndsReview
    <2> QED BY <2>1, <2>2, InitTyped DEF IInv
  <1>2. IInv /\ [Next]_vars => IInv'
    <2> SUFFICES ASSUME IInv, [Next]_vars PROVE IInv'
      OBVIOUS
    <2>1. TInv'
      BY NextTyped DEF IInv
    <2>2. CASE UNCHANGED vars
      BY <2>1, <2>2 DEF vars, IInv, DecisionFits, ManualApprovalEndsReview
    <2>3. ASSUME NEW w \in Workers, WorkerStep(w) \/ Pause(w) \/ Crash(w) \/ Outage(w)
          PROVE  IInv'
      <3>1. DecisionFits'
        <4>1. CASE \/ RecordFailure(w) \/ Admit(w) \/ StartScanning(w) \/ Decide(w) \/ Pend(w)
                   \/ ApplyRoute(w)
          BY <4>1, DecisionStaysFit
        <4>2. CASE \/ \E id \in JobIds : ClaimJob(w, id)
                   \/ Pause(w) \/ Crash(w) \/ Outage(w) \/ Recover(w) \/ Load(w) \/ Recovered(w)
                   \/ Open(w) \/ Inspect(w) \/ ClosePrecheck(w) \/ EnqueueStatic(w)
                   \/ Execute(w) \/ Announce(w) \/ Evaluate(w) \/ OpenRoute(w) \/ Conflict(w)
                   \/ CloseRoute(w) \/ Cover(w)
                   \/ ReconcileStep(w) \/ CompleteJob(w) \/ FailJob(w)
          <5>1. status' = status /\ decision' = decision
            BY <4>2, StatusKept
          <5> QED BY <5>1 DEF IInv, DecisionFits
        <4> QED BY <2>3, <4>1, <4>2, Zenon DEF WorkerStep, StageStep
      <3>2. ManualApprovalEndsReview'
        BY <2>3, QueueStaysClosed, OnlyPeopleApprove DEF ManualApprovalEndsReview
      <3> QED BY <2>1, <3>1, <3>2 DEF IInv
    <2>4. CASE ManualApprove
      <3>1. DecisionFits'
        BY <2>4 DEF ManualApprove, DecisionFits, Undecided
      <3>2. ManualApprovalEndsReview'
        <4>1. \A id \in JobIds : jobs[id] \in Job
          BY DEF IInv, TInv, TablesOK
        <4> QED BY <2>4, <4>1 DEF ManualApprove, ManualApprovalEndsReview, Job
      <3> QED BY <2>1, <3>1, <3>2 DEF IInv
    <2>5. CASE Approve \/ Reject \/ RequestChanges \/ Release
      <3>1. DecisionFits'
        BY <2>5 DEF Approve, Reject, RequestChanges, Release, IInv, DecisionFits, Undecided
      <3>2. ManualApprovalEndsReview'
        BY <2>5 DEF Approve, Reject, RequestChanges, Release, IInv, ManualApprovalEndsReview
      <3> QED BY <2>1, <3>1, <3>2 DEF IInv
    <2>6. CASE Retry
      <3>1. /\ status \in Undecided /\ status' \in Undecided
            /\ decision' = decision /\ decision = "none"
        BY <2>6 DEF Retry, Reviewable, Undecided, IInv, DecisionFits
      <3>2. DecisionFits'
        BY <3>1 DEF DecisionFits, Undecided
      <3>3. ManualApprovalEndsReview'
        BY <3>1 DEF ManualApprovalEndsReview
      <3> QED BY <2>1, <3>2, <3>3 DEF IInv
    <2> QED BY <2>2, <2>3, <2>4, <2>5, <2>6 DEF Next, People
  <1> QED BY <1>1, <1>2, PTL DEF Spec

(* Once a person has approved an artifact, none of its review jobs waits   *)
(* or runs, whatever a stalled worker or a reconcile still does.           *)
THEOREM ManualApprovalIsFinal == Spec => []ManualApprovalEndsReview
  <1>1. IInv => ManualApprovalEndsReview
    BY DEF IInv
  <1> QED BY <1>1, Invariance, PTL

-----------------------------------------------------------------------------
(* What a step does to the workers, the jobs and the runs.                 *)

(* The steps after which nothing is left to say of what was read before.   *)
Plain == Steps \ {"idle", "execute", "read_jobs", "act", "open_route", "apply_route"}

(* The worker goes on with the same job of the same attempt.               *)
Onward(w, at) ==
    /\ worker[w].at # "idle"
    /\ worker'[w].job = worker[w].job
    /\ worker'[w].gen = worker[w].gen
    /\ worker'[w].tries = worker[w].tries
    /\ worker'[w].at \in at

LEMMA OnwardMoves ==
    ASSUME TInv, NEW w \in Workers, worker[w].at # "idle"
    PROVE  /\ \A s \in Steps : Go(w, s) => Onward(w, {s})
           /\ \A s \in Plain : Go(w, s) => Onward(w, Plain)
           /\ Leave(w) => Onward(w, Plain)
           /\ Proceed(w) => Onward(w, Plain)
           /\ \A b \in BOOLEAN : Raise(w, b) => Onward(w, Plain)
  <1>1. worker \in [Workers -> Memory] /\ worker[w] \in WorkerState
    BY InHand
  <1>2. {"read_artifact", "done", "record"} \subseteq Plain
    BY DEF Plain, Steps
  <1>3. \A s : Go(w, s) => Onward(w, {s})
    BY <1>1 DEF Go, Onward, WorkerState
  <1>4. \A s \in Plain : Go(w, s) => Onward(w, Plain)
    BY <1>3 DEF Onward
  <1>5. Leave(w) => Onward(w, Plain)
    BY <1>1, <1>2 DEF Leave, Onward, Frame, Idle
  <1>6. Proceed(w) => Onward(w, Plain)
    BY <1>1, <1>2 DEF Proceed, AfterStage, Onward, Frame, Idle
  <1>7. \A b \in BOOLEAN : Raise(w, b) => Onward(w, Plain)
    BY <1>1, <1>2 DEF Raise, Onward, Frame, Idle
  <1> QED BY <1>3, <1>4, <1>5, <1>6, <1>7

(* Nobody but the worker itself changes what it remembers.                 *)
LEMMA OthersStay ==
    ASSUME worker \in [Workers -> Memory],
           NEW w \in Workers, WorkerStep(w) \/ Pause(w) \/ Crash(w) \/ Outage(w),
           NEW v \in Workers, v # w
    PROVE  worker'[v] = worker[v]
  <1>1. CASE \E id \in JobIds : ClaimJob(w, id)
    BY <1>1 DEF ClaimJob
  <1>2. CASE \/ Pause(w) \/ Crash(w) \/ Outage(w)
             \/ CompleteJob(w) \/ RecordFailure(w) \/ FailJob(w)
    BY <1>2 DEF Pause, Crash, Outage, CompleteJob, RecordFailure, FailJob, Go, Raise
  <1>3. CASE StageStep(w)
    <2> USE DEF Go, Raise, Leave, Proceed
    <2>1. CASE \/ Recover(w) \/ Load(w) \/ Admit(w) \/ Inspect(w) \/ ClosePrecheck(w)
               \/ StartScanning(w) \/ EnqueueStatic(w)
      BY <2>1 DEF Recover, Load, Admit, Inspect, ClosePrecheck, StartScanning, EnqueueStatic
    <2>2. CASE Recovered(w)
      BY <2>2 DEF Recovered, RecoverStatic, RecoverMalware, RecoverRoute, RefuseStatus
    <2>3. CASE Open(w)
      BY <2>3 DEF Open
    <2>4. CASE \/ Execute(w) \/ Decide(w) \/ Pend(w) \/ Announce(w) \/ Evaluate(w)
               \/ OpenRoute(w) \/ ApplyRoute(w) \/ Conflict(w) \/ CloseRoute(w) \/ Cover(w)
      BY <2>4 DEF Execute, Decide, Pend, Announce, Evaluate, OpenRoute, ApplyRoute, Conflict,
         CloseRoute, Cover
    <2> QED BY <1>3, <2>1, <2>2, <2>3, <2>4, Zenon DEF StageStep
  <1>4. CASE ReconcileStep(w)
    BY <1>4 DEF ReconcileStep, ReadArtifact, ReadRuns, ReadJobs, SkipStage, DegradeStage,
       Synthesize, QueueStage, QueueRoute, Wait, Go, Raise, Leave
  <1> QED BY <1>1, <1>2, <1>3, <1>4, Zenon DEF WorkerStep

(* A claim starts from nothing; most steps lead to a plain one.            *)
LEMMA ClaimMoves ==
    ASSUME TInv, NEW w \in Workers, NEW id \in JobIds, ClaimJob(w, id)
    PROVE  /\ worker'[w].job = id /\ worker'[w].gen = gen /\ worker'[w].at \in Plain
           /\ jobs'[id].status = "running" /\ jobs'[id].owner = w /\ ~jobs'[id].lapsed
           /\ \A j \in JobIds \ {id} : jobs'[j] = jobs[j]
  <1>1. worker \in [Workers -> Memory] /\ jobs \in [JobIds -> Job]
    BY DEF TInv, TablesOK
  <1>2. {"recover", "load"} \subseteq Plain
    BY DEF Plain, Steps
  <1>3. worker'[w].job = id /\ worker'[w].gen = gen /\ worker'[w].at \in Plain
    BY <1>1, <1>2 DEF ClaimJob, Idle
  <1>4. /\ jobs'[id].status = "running" /\ jobs'[id].owner = w /\ ~jobs'[id].lapsed
        /\ \A j \in JobIds \ {id} : jobs'[j] = jobs[j]
    <2>1. jobs' = [jobs EXCEPT ![id] = [jobs[id] EXCEPT !.status = "running", !.owner = w,
                                          !.lapsed = FALSE,
                                          !.attempts = jobs[id].attempts + 1]]
      BY Zenon DEF ClaimJob
    <2> QED BY <2>1, <1>1 DEF Job
  <1> QED BY <1>3, <1>4

LEMMA PlainMoves ==
    ASSUME TInv, NEW w \in Workers,
           \/ Outage(w) \/ Recover(w) \/ Load(w) \/ Recovered(w) \/ Admit(w) \/ Inspect(w)
           \/ ClosePrecheck(w) \/ StartScanning(w) \/ EnqueueStatic(w) \/ Execute(w)
           \/ Decide(w) \/ Pend(w) \/ Announce(w) \/ ApplyRoute(w) \/ Conflict(w)
           \/ CloseRoute(w) \/ Cover(w) \/ RecordFailure(w)
           \/ ReadArtifact(w) \/ QueueRoute(w) \/ Wait(w)
    PROVE  Onward(w, Plain)
  <1>0. {"recover", "load", "recovered", "admit", "open", "inspect", "close_precheck",
         "start_scanning", "enqueue_static", "decide", "pend", "evaluate", "conflict",
         "close_route", "cover", "announce", "read_artifact", "read_runs", "done", "record",
         "fail"} \subseteq Plain /\ BOOLEAN = {TRUE, FALSE}
    BY DEF Plain, Steps
  <1>1. worker[w].at # "idle"
    BY DEF Outage, Recover, Load, Recovered, Admit, Inspect, ClosePrecheck, StartScanning,
       EnqueueStatic, Execute, Decide, Pend, Announce, ApplyRoute, Conflict, CloseRoute, Cover,
       RecordFailure, ReadArtifact, QueueRoute, Wait
  <1>2. worker \in [Workers -> Memory] /\ worker[w] \in WorkerState
    BY <1>1, InHand
  <1>3. /\ \A s \in Plain : Go(w, s) => Onward(w, Plain)
        /\ Leave(w) => Onward(w, Plain)
        /\ Proceed(w) => Onward(w, Plain)
        /\ \A b \in {TRUE, FALSE} : Raise(w, b) => Onward(w, Plain)
    BY <1>0, <1>1, OnwardMoves
  <1>a. ASSUME NEW s \in Plain,
               NEW n, n.at = s, n.job = worker[w].job, n.gen = worker[w].gen,
               n.tries = worker[w].tries,
               worker' = [worker EXCEPT ![w] = n]
        PROVE  Onward(w, Plain)
    BY <1>1, <1>2, <1>a DEF Onward
  <1>b. ASSUME NEW s \in Plain, NEW x,
               worker' = [worker EXCEPT ![w] = [worker[w] EXCEPT !.at = s, !.what = x]]
        PROVE  Onward(w, Plain)
    <2> DEFINE n == [worker[w] EXCEPT !.at = s, !.what = x]
    <2>1. n.at = s /\ n.job = worker[w].job /\ n.gen = worker[w].gen /\ n.tries = worker[w].tries
      BY <1>2 DEF WorkerState
    <2> HIDE DEF n
    <2> QED BY <2>1, <1>a, <1>b DEF n
  <1>4. CASE \/ Outage(w) \/ Recover(w) \/ Admit(w)
             \/ ClosePrecheck(w) \/ StartScanning(w) \/ EnqueueStatic(w)
             \/ Decide(w) \/ Announce(w) \/ ApplyRoute(w) \/ Conflict(w)
             \/ CloseRoute(w) \/ Cover(w) \/ RecordFailure(w)
             \/ ReadArtifact(w) \/ QueueRoute(w) \/ Wait(w)
    <2>1. \/ Leave(w) \/ Proceed(w) \/ \E b \in {TRUE, FALSE} : Raise(w, b)
          \/ \E s \in {"load", "open", "start_scanning", "enqueue_static", "conflict",
                       "close_route", "cover", "announce", "read_runs", "fail"} : Go(w, s)
      BY <1>4 DEF Outage, Recover, Admit, ClosePrecheck, StartScanning,
         EnqueueStatic, Decide, Announce, ApplyRoute, Conflict, CloseRoute, Cover,
         RecordFailure, ReadArtifact, QueueRoute, Wait
    <2> QED BY <2>1, <1>0, <1>3
  <1>5. CASE Load(w)
    BY <1>0, <1>1, <1>2, <1>5 DEF Load, Onward, WorkerState
  <1>6. CASE Recovered(w)
    <2>1. CASE RecoverStatic(w) \/ RefuseStatus(w)
      BY <2>1, <1>3 DEF RecoverStatic, RefuseStatus
    <2>2. CASE RecoverMalware(w)
      <3>1. \/ Proceed(w) \/ Raise(w, FALSE)
            \/ worker' = [worker EXCEPT ![w] = [worker[w] EXCEPT !.at = "decide",
                                                                 !.what = Type(w)]]
        BY <2>2, Zenon DEF RecoverMalware
      <3>2. "decide" \in Plain /\ FALSE \in {TRUE, FALSE}
        BY <1>0
      <3> QED BY <3>1, <3>2, <1>3, <1>b, Zenon
    <2>3. CASE RecoverRoute(w)
      <3>1. \/ Proceed(w) \/ Raise(w, FALSE)
            \/ \E x : worker' = [worker EXCEPT ![w] =
                            [worker[w] EXCEPT !.at = "close_route", !.what = "manual_review",
                                              !.run = x]]
        BY <2>3, Zenon DEF RecoverRoute
      <3>2. ASSUME NEW x, worker' = [worker EXCEPT ![w] =
                      [worker[w] EXCEPT !.at = "close_route", !.what = "manual_review", !.run = x]]
            PROVE  Onward(w, Plain)
        <4> DEFINE n == [worker[w] EXCEPT !.at = "close_route", !.what = "manual_review", !.run = x]
        <4>1. /\ n.at = "close_route" /\ n.job = worker[w].job /\ n.gen = worker[w].gen
              /\ n.tries = worker[w].tries
          BY <1>2 DEF WorkerState
        <4>2. "close_route" \in Plain
          BY <1>0
        <4> HIDE DEF n
        <4> QED BY <4>1, <4>2, <1>a, <3>2 DEF n
      <3>3. FALSE \in {TRUE, FALSE}
        OBVIOUS
      <3> QED BY <3>1, <3>2, <3>3, <1>3, Zenon
    <2> QED BY <1>6, <2>1, <2>2, <2>3 DEF Recovered
  <1>7. CASE Inspect(w)
    <2>1. \/ worker' = [worker EXCEPT ![w] = [worker[w] EXCEPT !.at = "decide",
                                                               !.what = "precheck"]]
          \/ Go(w, "close_precheck") \/ Raise(w, FALSE)
      BY <1>7 DEF Inspect
    <2>2. "decide" \in Plain /\ "close_precheck" \in Plain /\ FALSE \in {TRUE, FALSE}
      BY <1>0
    <2> QED BY <2>1, <2>2, <1>3, <1>b, Zenon
  <1>8. CASE Execute(w)
    <2>1. \/ Proceed(w) \/ Go(w, "pend")
          \/ worker' = [worker EXCEPT ![w] = [worker[w] EXCEPT !.at = "decide",
                                                               !.what = Type(w)]]
      BY <1>8, Zenon DEF Execute, Proceed, Go
    <2>2. "decide" \in Plain /\ "pend" \in Plain
      BY <1>0
    <2> QED BY <2>1, <2>2, <1>3, <1>b, Zenon
  <1>9. CASE Pend(w)
    <2>1. \/ Raise(w, TRUE)
          \/ worker' = [worker EXCEPT ![w] = [worker[w] EXCEPT !.at = "announce",
                                                               !.what = "manual_review"]]
      BY <1>9 DEF Pend
    <2>2. "announce" \in Plain /\ TRUE \in {TRUE, FALSE}
      BY <1>0
    <2> QED BY <2>1, <2>2, <1>3, <1>b, Zenon
  <1> QED BY <1>4, <1>5, <1>6, <1>7, <1>8, <1>9, Zenon

LEMMA OpenMoves ==
    ASSUME TInv, NEW w \in Workers, Open(w)
    PROVE  \/ Onward(w, Plain) /\ (runs' = runs \/ AppendRun("precheck", NewRun))
           \/ /\ Onward(w, {"execute"}) /\ Type(w) # "dependency"
              /\ AppendRun(Type(w), NewRun)
              /\ worker'[w].run = <<gen, Len(runs[Type(w)]) + 1>>
           \/ /\ Onward(w, {"execute"}) /\ Type(w) = "dependency"
              /\ \/ /\ AppendRun(Type(w), NewRun)
                    /\ worker'[w].run = <<gen, Len(runs[Type(w)]) + 1>>
                 \/ /\ runs' = runs /\ worker'[w].run[1] = gen
                    /\ worker'[w].run[2] \in DOMAIN runs[Type(w)]
                    /\ runs[Type(w)][worker'[w].run[2]].state = "running"
                    /\ runs[Type(w)][worker'[w].run[2]].reason = "none"
  <1> DEFINE type == Type(w)
             real == {i \in DOMAIN runs[type] : runs[type][i].reason = "none"}
             next == IF type = "precheck" THEN "inspect" ELSE "execute"
             c == CHOOSE i \in real : TRUE
             h == worker[w]
  <1>1. h.at # "idle"
    BY DEF Open
  <1>2. worker \in [Workers -> Memory] /\ h \in WorkerState
    BY <1>1, InHand
  <1>3. "inspect" \in Plain
    BY DEF Plain, Steps
  <1>4. ASSUME NEW s, NEW x, worker' = [worker EXCEPT ![w] = [h EXCEPT !.at = s, !.run = x]]
        PROVE  Onward(w, {s}) /\ worker'[w].run = x
    <2> DEFINE n == [h EXCEPT !.at = s, !.run = x]
    <2>1. n.at = s /\ n.job = h.job /\ n.gen = h.gen /\ n.tries = h.tries /\ n.run = x
      BY <1>2 DEF WorkerState
    <2>2. worker'[w] = n
      BY <1>2, <1>4
    <2> HIDE DEF n
    <2> QED BY <2>1, <2>2, <1>1 DEF Onward
  <1>5. \/ Proceed(w) /\ UNCHANGED runs
        \/ /\ type = "dependency" /\ real # {}
           /\ worker' = [worker EXCEPT ![w] =
                           IF runs[type][c].state = "running"
                           THEN [h EXCEPT !.at = "execute", !.run = <<gen, c>>]
                           ELSE AfterStage(w)]
           /\ UNCHANGED runs
        \/ /\ AppendRun(type, NewRun)
           /\ worker' = [worker EXCEPT ![w] =
                           [h EXCEPT !.at = next, !.run = <<gen, Len(runs[type]) + 1>>]]
    BY Zenon DEF Open
  <1>6. CASE Proceed(w) /\ UNCHANGED runs
    BY <1>6, <1>1, OnwardMoves
  <1>7. CASE /\ type = "dependency" /\ real # {}
             /\ worker' = [worker EXCEPT ![w] =
                             IF runs[type][c].state = "running"
                             THEN [h EXCEPT !.at = "execute", !.run = <<gen, c>>]
                             ELSE AfterStage(w)]
             /\ UNCHANGED runs
    <2>1. c \in DOMAIN runs[type] /\ runs[type][c].reason = "none"
      BY <1>7
    <2>2. CASE runs[type][c].state = "running"
      <3>1. worker' = [worker EXCEPT ![w] = [h EXCEPT !.at = "execute", !.run = <<gen, c>>]]
        BY <1>7, <2>2
      <3>2. Onward(w, {"execute"}) /\ worker'[w].run = <<gen, c>>
        BY <3>1, <1>4
      <3>3. worker'[w].run[1] = gen /\ worker'[w].run[2] = c
        BY <3>2
      <3> HIDE DEF c, h
      <3> QED BY <1>7, <2>1, <2>2, <3>2, <3>3
    <2>3. CASE runs[type][c].state # "running"
      <3>1. Proceed(w)
        BY <1>7, <2>3 DEF Proceed
      <3> QED BY <3>1, <1>1, <1>7, OnwardMoves
    <2> QED BY <2>2, <2>3
  <1>8. CASE /\ AppendRun(type, NewRun)
             /\ worker' = [worker EXCEPT ![w] =
                             [h EXCEPT !.at = next, !.run = <<gen, Len(runs[type]) + 1>>]]
    <2>1. Onward(w, {next}) /\ worker'[w].run = <<gen, Len(runs[type]) + 1>>
      BY <1>4, <1>8
    <2>2. CASE type = "precheck"
      BY <2>1, <2>2, <1>3, <1>8 DEF Onward
    <2>3. CASE type # "precheck"
      BY <2>1, <2>3, <1>8
    <2> QED BY <2>2, <2>3
  <1> QED BY <1>5, <1>6, <1>7, <1>8

LEMMA RouteMoves ==
    ASSUME TInv, NEW w \in Workers
    PROVE  /\ Evaluate(w) => /\ Onward(w, {"open_route"})
                             /\ \E f : worker'[w].what = Route(worker[w].fresh, f)
           /\ OpenRoute(w) => /\ Onward(w, {"apply_route"})
                              /\ worker'[w].what = worker[w].what
  <1>1. CASE Evaluate(w)
    <2> DEFINE h == worker[w]
    <2>1. h.at # "idle"
      BY <1>1 DEF Evaluate
    <2>2. worker \in [Workers -> Memory] /\ h \in WorkerState
      BY <2>1, InHand
    <2>3. PICK f : worker' = [worker EXCEPT ![w] = [h EXCEPT !.at = "open_route",
                                                   !.what = Route(h.fresh, f),
                                                   !.fresh = FALSE]]
      BY <1>1 DEF Evaluate
    <2>4. ASSUME NEW x
          PROVE  LET n == [h EXCEPT !.at = "open_route", !.what = x, !.fresh = FALSE] IN
                 /\ n.at = "open_route" /\ n.job = h.job /\ n.gen = h.gen /\ n.tries = h.tries
                 /\ n.what = x
      BY <2>2 DEF WorkerState
    <2>5. Onward(w, {"open_route"}) /\ worker'[w].what = Route(worker[w].fresh, f)
      BY <2>1, <2>2, <2>3, <2>4 DEF Onward
    <2> QED BY <1>1, <2>5 DEF Evaluate, OpenRoute
  <1>2. CASE OpenRoute(w)
    <2> DEFINE h == worker[w]
               n == [h EXCEPT !.at = "apply_route", !.run = <<gen, Len(runs["route"]) + 1>>]
    <2>1. h.at # "idle"
      BY <1>2 DEF OpenRoute
    <2>2. worker \in [Workers -> Memory] /\ h \in WorkerState
      BY <2>1, InHand
    <2>3. worker' = [worker EXCEPT ![w] = n]
      BY <1>2 DEF OpenRoute
    <2>4. /\ n.at = "apply_route" /\ n.job = h.job /\ n.gen = h.gen /\ n.tries = h.tries
          /\ n.what = h.what
      BY <2>2 DEF WorkerState
    <2>5. worker'[w] = n
      BY <2>2, <2>3
    <2>6. Onward(w, {"apply_route"}) /\ worker'[w].what = worker[w].what
      <3> HIDE DEF n
      <3> QED BY <2>1, <2>4, <2>5 DEF Onward
    <2> QED BY <1>2, <2>6 DEF Evaluate, OpenRoute
  <1> QED BY <1>1, <1>2

LEMMA ReadMoves ==
    ASSUME TInv, NEW w \in Workers
    PROVE  /\ ReadRuns(w) => /\ Onward(w, {"read_jobs"})
                             /\ worker'[w].latest = [s \in Required |-> LatestRun(s)]
           /\ ReadJobs(w) => /\ Onward(w, {"act"})
                             /\ worker'[w].units =
                                   [s \in Required |-> UnitState(s, worker[w].latest[s])]
  <1>1. CASE ReadRuns(w)
    <2> DEFINE h == worker[w]
               l == [s \in Required |-> LatestRun(s)]
               n == [h EXCEPT !.at = "read_jobs", !.latest = l]
    <2>1. h.at # "idle"
      BY <1>1 DEF ReadRuns
    <2>2. worker \in [Workers -> Memory] /\ h \in WorkerState
      BY <2>1, InHand
    <2>3. worker' = [worker EXCEPT ![w] = n]
      BY <1>1 DEF ReadRuns
    <2>4. /\ n.at = "read_jobs" /\ n.job = h.job /\ n.gen = h.gen /\ n.tries = h.tries
          /\ n.latest = l
      <3> HIDE DEF l
      <3> QED BY <2>2 DEF WorkerState
    <2>5. worker'[w] = n
      BY <2>2, <2>3
    <2>6. Onward(w, {"read_jobs"}) /\ worker'[w].latest = l
      <3> HIDE DEF n
      <3> QED BY <2>1, <2>4, <2>5 DEF Onward
    <2> QED BY <1>1, <2>6 DEF ReadRuns, ReadJobs
  <1>2. CASE ReadJobs(w)
    <2> DEFINE h == worker[w]
               u == [s \in Required |-> UnitState(s, h.latest[s])]
               n == [Frame(w) EXCEPT !.at = "act", !.units = u]
    <2>1. h.at # "idle"
      BY <1>2 DEF ReadJobs
    <2>2. worker \in [Workers -> Memory] /\ h \in WorkerState
      BY <2>1, InHand
    <2>3. worker' = [worker EXCEPT ![w] = n]
      BY <1>2 DEF ReadJobs
    <2>4. /\ n.at = "act" /\ n.job = h.job /\ n.gen = h.gen /\ n.tries = h.tries
          /\ n.units = u
      <3> HIDE DEF u
      <3> QED BY <2>2 DEF Frame, Idle
    <2>5. worker'[w] = n
      BY <2>2, <2>3
    <2>6. Onward(w, {"act"}) /\ worker'[w].units = u
      <3> HIDE DEF n
      <3> QED BY <2>1, <2>4, <2>5 DEF Onward
    <2> QED BY <1>2, <2>6 DEF ReadRuns, ReadJobs
  <1> QED BY <1>1, <1>2

(* An act on a unit marks it with something else than "completed".         *)
LEMMA ActMoves ==
    ASSUME TInv, NEW w \in Workers, NEW s \in Required,
           SkipStage(w, s) \/ DegradeStage(w, s) \/ QueueStage(w, s)
    PROVE  \/ Onward(w, Plain)
           \/ /\ Onward(w, {"act"}) /\ worker[w].at = "act"
              /\ \A u \in Required : worker'[w].units[u] = "completed" =>
                                        worker[w].units[u] = "completed"
  <1> DEFINE h == worker[w]
  <1>1. h.at = "act"
    BY DEF SkipStage, DegradeStage, QueueStage
  <1>2. worker \in [Workers -> Memory] /\ h \in WorkerState
    BY <1>1, InHand
  <1>3. h.units \in [Required -> UnitStates]
    BY <1>2 DEF WorkerState, UnitStates
  <1>4. \/ Raise(w, TRUE)
        \/ \E x \in {"skipped", "degraded", "running"} :
              worker' = [worker EXCEPT ![w] = [h EXCEPT !.units = [h.units EXCEPT ![s] = x]]]
    BY DEF SkipStage, DegradeStage, QueueStage, Synthesize
  <1>5. CASE Raise(w, TRUE)
    <2>1. TRUE \in BOOLEAN
      OBVIOUS
    <2> QED BY <1>1, <1>5, <2>1, OnwardMoves
  <1>6. ASSUME NEW x \in {"skipped", "degraded", "running"},
               worker' = [worker EXCEPT ![w] = [h EXCEPT !.units = [h.units EXCEPT ![s] = x]]]
        PROVE  /\ Onward(w, {"act"})
               /\ \A u \in Required : worker'[w].units[u] = "completed" =>
                                         h.units[u] = "completed"
    <2> DEFINE us == [h.units EXCEPT ![s] = x]
               n == [h EXCEPT !.units = us]
    <2>1. /\ n.at = "act" /\ n.job = h.job /\ n.gen = h.gen /\ n.tries = h.tries
          /\ n.units = us
      <3> HIDE DEF us
      <3> QED BY <1>1, <1>2 DEF WorkerState
    <2>2. worker'[w] = n
      BY <1>2, <1>6
    <2>3. \A u \in Required : us[u] = "completed" => h.units[u] = "completed"
      BY <1>3
    <2> HIDE DEF n, us
    <2> QED BY <1>1, <2>1, <2>2, <2>3 DEF Onward
  <1> QED BY <1>1, <1>4, <1>5, <1>6

LEMMA EndMoves ==
    ASSUME TInv, NEW w \in Workers, Crash(w) \/ CompleteJob(w) \/ FailJob(w)
    PROVE  /\ worker'[w] = Idle /\ worker'[w].at = "idle"
           /\ \A id \in JobIds : id # worker[w].job => jobs'[id] = jobs[id]
           /\ \A id \in JobIds : jobs'[id].status = "absent" => jobs[id].status = "absent"
  <1> DEFINE j == worker[w].job
  <1>1. worker[w].at # "idle"
    BY DEF Crash, CompleteJob, FailJob
  <1>2. /\ worker \in [Workers -> Memory] /\ jobs \in [JobIds -> Job]
        /\ j \in JobIds
    BY <1>1, InHand DEF TablesOK
  <1>3. worker'[w] = Idle /\ worker'[w].at = "idle"
    <2>1. worker' = [worker EXCEPT ![w] = Idle]
      BY DEF Crash, CompleteJob, FailJob
    <2>2. Idle.at = "idle"
      BY DEF Idle
    <2>3. worker'[w] = Idle
      BY <2>1, <1>2
    <2> QED BY <2>2, <2>3
  <1>4. \/ jobs' = jobs
        \/ jobs' = [jobs EXCEPT ![j] = [jobs[j] EXCEPT !.lapsed = TRUE]]
        \/ \E s \in {"succeeded", "queued", "failed"} :
              jobs' = [jobs EXCEPT ![j] = [jobs[j] EXCEPT !.status = s, !.owner = None,
                                                          !.lapsed = FALSE]]
    BY DEF Crash, CompleteJob, FailJob
  <1>5. /\ \A id \in JobIds : id # j => jobs'[id] = jobs[id]
        /\ \A id \in JobIds : jobs'[id].status = "absent" => jobs[id].status = "absent"
    <2> SUFFICES ASSUME NEW id \in JobIds
                 PROVE  /\ id # j => jobs'[id] = jobs[id]
                        /\ jobs'[id].status = "absent" => jobs[id].status = "absent"
      OBVIOUS
    <2>1. jobs[j] \in Job
      BY <1>2
    <2>2. CASE jobs' = jobs
      BY <2>2
    <2>3. CASE jobs' = [jobs EXCEPT ![j] = [jobs[j] EXCEPT !.lapsed = TRUE]]
      <3>1. [jobs[j] EXCEPT !.lapsed = TRUE].status = jobs[j].status
        BY <2>1 DEF Job
      <3> QED BY <2>3, <3>1, <1>2
    <2>4. CASE \E s \in {"succeeded", "queued", "failed"} :
                  jobs' = [jobs EXCEPT ![j] = [jobs[j] EXCEPT !.status = s, !.owner = None,
                                                              !.lapsed = FALSE]]
      <3>1. PICK s \in {"succeeded", "queued", "failed"} :
                  jobs' = [jobs EXCEPT ![j] = [jobs[j] EXCEPT !.status = s, !.owner = None,
                                                              !.lapsed = FALSE]]
        BY <2>4
      <3>2. [jobs[j] EXCEPT !.status = s, !.owner = None, !.lapsed = FALSE].status # "absent"
        BY <2>1 DEF Job
      <3> HIDE DEF j
      <3> QED BY <3>1, <3>2, <1>2
    <2> QED BY <1>4, <2>2, <2>3, <2>4
  <1> QED BY <1>3, <1>5

(* The steps between a claim and the end only add jobs, and only while the *)
(* artifact is not approved; a stage's job is added by a reconcile for     *)
(* which it was due, but for the first one's.                              *)
LEMMA OnlyNewJobs ==
    ASSUME TInv, NEW w \in Workers,
           Outage(w) \/ StageStep(w) \/ ReconcileStep(w) \/ RecordFailure(w)
    PROVE  /\ \A id \in JobIds : \/ jobs'[id] = jobs[id]
                                 \/ jobs[id].status = "absent" /\ status # "approved"
                                    /\ jobs'[id] = NewJob
           /\ \A s \in Required : \/ jobs'[s] = jobs[s] \/ s = "static"
                                  \/ QueueStage(w, s)
  <1>1. jobs \in [JobIds -> Job]
    BY DEF TInv, TablesOK
  <1>2. ASSUME NEW id \in JobIds, Enqueue(id)
        PROVE  \A k \in JobIds : \/ jobs'[k] = jobs[k]
                                 \/ k = id /\ jobs[k].status = "absent" /\ jobs'[k] = NewJob
    BY <1>1, <1>2 DEF Enqueue
  <1>3. \/ jobs' = jobs
        \/ MayEnqueue /\ \E id \in {"static", "static_again", "route"} : Enqueue(id)
        \/ MayEnqueue /\ \E s \in Required : Enqueue(s) /\ QueueStage(w, s)
    <2>1. CASE Outage(w) \/ RecordFailure(w)
      BY <2>1 DEF Outage, RecordFailure
    <2>2. CASE StageStep(w)
      BY <2>2 DEF StageStep, Recover, Load, Recovered, Admit, Open, Inspect, ClosePrecheck,
         StartScanning, EnqueueStatic, Execute, Decide, Pend, Announce, Evaluate, OpenRoute,
         ApplyRoute, Conflict, CloseRoute, Cover
    <2>3. CASE ReconcileStep(w)
      BY <2>3 DEF ReconcileStep, ReadArtifact, ReadRuns, ReadJobs, SkipStage, DegradeStage,
         Synthesize, QueueStage, QueueRoute, Wait
    <2> QED BY <2>1, <2>2, <2>3
  <1>4. CASE jobs' = jobs
    BY <1>4
  <1>5. CASE MayEnqueue /\ \E id \in {"static", "static_again", "route"} : Enqueue(id)
    <2>1. PICK id \in {"static", "static_again", "route"} : Enqueue(id)
      BY <1>5
    <2>2. id \in JobIds /\ (id \in Required => id = "static")
      BY Vocabulary
    <2> QED BY <1>5, <2>1, <2>2, <1>2, Vocabulary DEF MayEnqueue
  <1>6. CASE MayEnqueue /\ \E s \in Required : Enqueue(s) /\ QueueStage(w, s)
    BY <1>6, <1>2, Vocabulary DEF MayEnqueue
  <1> QED BY <1>3, <1>4, <1>5, <1>6

(* A write to a type's runs is quiet if no result that counts comes or     *)
(* goes by it.                                                             *)
QuietOn(t) ==
    /\ DOMAIN runs[t] \subseteq DOMAIN runs'[t]
    /\ \A i \in DOMAIN runs'[t], c \in Counts :
          runs'[t][i].state = c <=> i \in DOMAIN runs[t] /\ runs[t][i].state = c

RunsQuiet == \A t \in Required : QuietOn(t)

(* Quiet writes leave what has finished, and what has passed, as it is.    *)
LEMMA QuietKeeps ==
    ASSUME NEW s \in Required, QuietOn(s)
    PROVE  (Finishes(s)' <=> Finishes(s)) /\ (Completes(s)' <=> Completes(s))
  BY DEF QuietOn, Counts, Finishes, Completes

LEMMA QuietWrites ==
    ASSUME TInv
    PROVE  /\ runs' = runs => RunsQuiet
           /\ \A t \in Types, r \in Run : r.state \notin Counts /\ AppendRun(t, r) => RunsQuiet
           /\ \A t \in Types : FailOpenRuns(t) => RunsQuiet
           /\ \A w \in Workers : \A s :
                 Type(w) \in Types \ Required /\ CompleteRun(w, s) => RunsQuiet
           /\ ManualApprove => RunsQuiet
  <1>1. DOMAIN runs = Types /\ Required \subseteq Types /\ \A t \in Types : runs[t] \in Seq(Run)
    BY Vocabulary DEF TInv, TablesOK, RunsOK
  <1>2. \A t \in Required : runs'[t] = runs[t] => QuietOn(t)
    BY DEF QuietOn
  <1>3. runs' = runs => RunsQuiet
    BY <1>2 DEF RunsQuiet
  <1>4. ASSUME NEW t \in Types, NEW r \in Run, r.state \notin Counts, AppendRun(t, r)
        PROVE  RunsQuiet
    <2>1. runs' = [runs EXCEPT ![t] = Append(runs[t], r)]
      BY <1>4 DEF AppendRun
    <2>2. ASSUME NEW u \in Required
          PROVE  QuietOn(u)
      <3>1. CASE u # t
        BY <3>1, <2>1, <1>1, <1>2
      <3>2. CASE u = t
        <4> DEFINE q == runs[t]
        <4>1. runs'[u] = Append(q, r) /\ q \in Seq(Run) /\ runs[u] = q
          BY <3>2, <2>1, <1>1
        <4>2. /\ DOMAIN Append(q, r) = 1..(Len(q) + 1) /\ DOMAIN q = 1..Len(q) /\ Len(q) \in Nat
              /\ \A i \in 1..Len(q) : Append(q, r)[i] = q[i]
              /\ Append(q, r)[Len(q) + 1] = r
          BY <4>1
        <4> HIDE DEF q
        <4> QED BY <4>1, <4>2, <1>4 DEF QuietOn
      <3> QED BY <3>1, <3>2
    <2> QED BY <2>2 DEF RunsQuiet
  <1>5. ASSUME NEW t \in Types, FailOpenRuns(t)
        PROVE  RunsQuiet
    <2> DEFINE q == [i \in DOMAIN runs[t] |-> IF runs[t][i].state = "running"
                                              THEN [runs[t][i] EXCEPT !.state = "failed"]
                                              ELSE runs[t][i]]
    <2>1. runs' = [runs EXCEPT ![t] = q]
      BY <1>5 DEF FailOpenRuns
    <2>2. \A i \in DOMAIN runs[t] : runs[t][i] \in Run
      BY <1>1
    <2>3. \A i \in DOMAIN runs[t], c \in Counts : q[i].state = c <=> runs[t][i].state = c
      BY <2>2 DEF Run, Counts
    <2>4. ASSUME NEW u \in Required
          PROVE  QuietOn(u)
      <3>1. CASE u # t
        BY <3>1, <2>1, <1>1, <1>2
      <3>2. CASE u = t
        <4>1. runs'[u] = q /\ DOMAIN q = DOMAIN runs[t]
          BY <3>2, <2>1, <1>1
        <4> HIDE DEF q
        <4> QED BY <3>2, <4>1, <2>3 DEF QuietOn
      <3> QED BY <3>1, <3>2
    <2> QED BY <2>4 DEF RunsQuiet
  <1>6. ASSUME NEW w \in Workers, NEW s, Type(w) \in Types \ Required, CompleteRun(w, s)
        PROVE  RunsQuiet
    <2>1. \A t \in Types : t # Type(w) => runs'[t] = runs[t]
      BY <1>1, <1>6 DEF CompleteRun
    <2> QED BY <2>1, <1>1, <1>2, <1>6 DEF RunsQuiet
  <1>7. ASSUME ManualApprove
        PROVE  RunsQuiet
    <2> DEFINE q(t) == [i \in DOMAIN runs[t] |-> IF runs[t][i].state = "running"
                                                 THEN [runs[t][i] EXCEPT !.state = "cancelled"]
                                                 ELSE runs[t][i]]
    <2>1. runs' = [t \in Types |-> q(t)]
      BY <1>7 DEF ManualApprove
    <2>2. ASSUME NEW t \in Required
          PROVE  QuietOn(t)
      <3>1. \A i \in DOMAIN runs[t] : runs[t][i] \in Run
        BY <1>1
      <3>2. \A i \in DOMAIN runs[t], c \in Counts : q(t)[i].state = c <=> runs[t][i].state = c
        BY <3>1 DEF Run, Counts
      <3>3. runs'[t] = q(t) /\ DOMAIN q(t) = DOMAIN runs[t]
        BY <2>1, <1>1
      <3> HIDE DEF q
      <3> QED BY <3>2, <3>3 DEF QuietOn
    <2> QED BY <2>2 DEF RunsQuiet
  <1> QED BY <1>3, <1>4, <1>5, <1>6, <1>7

(* Nothing but a stage's result counts.                                    *)
LEMMA QuietSteps ==
    ASSUME TInv, NEW w \in Workers,
           WorkerStep(w) \/ Pause(w) \/ Crash(w) \/ Outage(w), ~Execute(w)
    PROVE  RunsQuiet
  <1>0. NewRun \in Run /\ NewRun.state \notin Counts
    BY NewRuns DEF NewRun, Counts
  <1>1. CASE \/ \E id \in JobIds : ClaimJob(w, id)
             \/ Pause(w) \/ Crash(w) \/ Outage(w) \/ Load(w) \/ Recovered(w)
             \/ Admit(w) \/ StartScanning(w) \/ EnqueueStatic(w) \/ Decide(w) \/ Pend(w)
             \/ Announce(w) \/ Evaluate(w) \/ ApplyRoute(w) \/ Cover(w) \/ ReadArtifact(w)
             \/ ReadRuns(w) \/ ReadJobs(w) \/ (\E s \in Required : QueueStage(w, s))
             \/ QueueRoute(w) \/ Wait(w) \/ CompleteJob(w) \/ FailJob(w)
    <2>1. runs' = runs
      BY <1>1 DEF ClaimJob, Pause, Crash, Outage, Load, Recovered, Admit, StartScanning,
         EnqueueStatic, Decide, Pend, Announce, Evaluate, ApplyRoute, Cover, ReadArtifact,
         ReadRuns, ReadJobs, QueueStage, QueueRoute, Wait, CompleteJob, FailJob
    <2> QED BY <2>1, QuietWrites
  <1>2. CASE Recover(w) \/ RecordFailure(w)
    <2>1. Type(w) \in Types
      BY <1>2, InHand DEF Recover, RecordFailure
    <2>2. runs' = runs \/ FailOpenRuns(Type(w))
      BY <1>2 DEF Recover, RecordFailure
    <2> QED BY <2>1, <2>2, QuietWrites
  <1>3. CASE Inspect(w) \/ ClosePrecheck(w) \/ Conflict(w) \/ CloseRoute(w)
    <2>1. worker[w].job \in {"precheck", "route"}
      BY <1>3, InHand DEF Inspect, ClosePrecheck, Conflict, CloseRoute, FitsAt
    <2>2. Type(w) \in Types \ Required
      BY <2>1, Vocabulary DEF Type, TypeOf
    <2>3. runs' = runs \/ \E s : CompleteRun(w, s)
      BY <1>3 DEF Inspect, ClosePrecheck, Conflict, CloseRoute
    <2> QED BY <2>2, <2>3, QuietWrites
  <1>4. CASE Open(w)
    <2>1. Type(w) \in Types
      BY <1>4, InHand DEF Open
    <2>2. runs' = runs \/ AppendRun(Type(w), NewRun)
      BY <1>4, Zenon DEF Open
    <2> QED BY <2>1, <2>2, <1>0, QuietWrites
  <1>5. CASE OpenRoute(w)
    <2>1. AppendRun("route", NewRun)
      BY <1>5 DEF OpenRoute
    <2> QED BY <2>1, <1>0, Vocabulary, QuietWrites
  <1>6. CASE \E s \in Required : SkipStage(w, s) \/ DegradeStage(w, s)
    <2>1. PICK s \in Required : SkipStage(w, s) \/ DegradeStage(w, s)
      BY <1>6
    <2>2. PICK x \in {"skipped", "degraded"}, reason \in Reasons : Synthesize(w, s, x, reason)
      <3>1. UpstreamReason(UpstreamStates(w, s)) \in Reasons
        BY ReadsTyped DEF TInv
      <3>2. "stage_tool_unavailable" \in Reasons
        BY DEF Reasons
      <3> QED BY <2>1, <3>1, <3>2, Zenon DEF SkipStage, DegradeStage
    <2>3. [state |-> x, reason |-> reason] \in Run /\ x \notin Counts
      BY NewRuns DEF RunStates, Counts
    <2>4. runs' = runs \/ AppendRun(s, [state |-> x, reason |-> reason])
      BY <2>2 DEF Synthesize
    <2> QED BY <2>3, <2>4, Vocabulary, QuietWrites
  <1> QED BY <1>1, <1>2, <1>3, <1>4, <1>5, <1>6, Zenon DEF WorkerStep, StageStep, ReconcileStep

-----------------------------------------------------------------------------
(* Nobody works beside the owner of a job.                                 *)

(* A worker that is executing a job owns its lease, until a person's       *)
(* approval takes it away.                                                 *)
AtWork(w) ==
    worker[w].at # "idle" =>
        /\ worker[w].gen = gen
        /\ \/ /\ jobs[worker[w].job].status = "running"
              /\ jobs[worker[w].job].owner = w
              /\ ~jobs[worker[w].job].lapsed
           \/ decision = "manual_approve"

Apart(w, v) ==
    w # v /\ worker[w].at # "idle" /\ worker[v].at # "idle" => worker[w].job # worker[v].job

(* Where no worker is stalled past its lease.                              *)
Alone ==
    "pause" \notin Events => /\ \A w \in Workers : AtWork(w)
                             /\ \A w, v \in Workers : Apart(w, v)

LEMMA MiddleMoves ==
    ASSUME TInv, NEW w \in Workers,
           Outage(w) \/ StageStep(w) \/ ReconcileStep(w) \/ RecordFailure(w)
    PROVE  /\ worker[w].at # "idle"
           /\ worker'[w].job = worker[w].job /\ worker'[w].gen = worker[w].gen
           /\ worker'[w].tries = worker[w].tries
  <1> SUFFICES \E S : Onward(w, S)
    BY DEF Onward
  <1>1. CASE \/ Outage(w) \/ Recover(w) \/ Load(w) \/ Recovered(w) \/ Admit(w) \/ Inspect(w)
             \/ ClosePrecheck(w) \/ StartScanning(w) \/ EnqueueStatic(w) \/ Execute(w)
             \/ Decide(w) \/ Pend(w) \/ Announce(w) \/ ApplyRoute(w) \/ Conflict(w)
             \/ CloseRoute(w) \/ Cover(w) \/ RecordFailure(w)
             \/ ReadArtifact(w) \/ QueueRoute(w) \/ Wait(w)
    BY <1>1, PlainMoves
  <1>2. CASE Open(w)
    BY <1>2, OpenMoves
  <1>3. CASE Evaluate(w) \/ OpenRoute(w)
    BY <1>3, RouteMoves
  <1>4. CASE ReadRuns(w) \/ ReadJobs(w)
    BY <1>4, ReadMoves
  <1>5. CASE \E s \in Required : SkipStage(w, s) \/ DegradeStage(w, s) \/ QueueStage(w, s)
    BY <1>5, ActMoves
  <1> QED BY <1>1, <1>2, <1>3, <1>4, <1>5, Zenon DEF StageStep, ReconcileStep

(* A person's approval stands.                                             *)
LEMMA ApprovalStands ==
    ASSUME IInv, [Next]_vars, decision = "manual_approve"
    PROVE  decision' = "manual_approve"
  <1>1. TInv /\ status = "approved"
    BY DEF IInv, DecisionFits
  <1>2. ASSUME NEW w \in Workers, WorkerStep(w) \/ Pause(w) \/ Crash(w) \/ Outage(w)
        PROVE  decision' = decision
    <2>1. CASE RecordFailure(w) \/ Admit(w) \/ StartScanning(w) \/ Pend(w)
      BY <2>1 DEF RecordFailure, Admit, StartScanning, Pend
    <2>2. CASE Decide(w)
      <3>1. worker[w].what \in {"precheck", "static", "clamav", "yara"}
        BY <1>1, <2>2, InHand DEF Decide, FitsAt
      <3> QED BY <1>1, <2>2, <3>1 DEF Decide, MayReject, Undecided
    <2>3. CASE ApplyRoute(w)
      <3>1. ~RouteApplies(worker[w].what)
        <4>1. worker[w].what \in Routes
          BY <1>1, <2>3, InHand DEF ApplyRoute, FitsAt
        <4>2. ~MayBecome("pending_review")
          BY <1>1, Transitions DEF TInv, TablesOK
        <4> QED BY <1>1, <4>1, <4>2 DEF RouteApplies, Routes, MayReject, Undecided
      <3> QED BY <2>3, <3>1 DEF ApplyRoute
    <2>4. CASE \/ \E id \in JobIds : ClaimJob(w, id)
               \/ Pause(w) \/ Crash(w) \/ Outage(w) \/ Recover(w) \/ Load(w) \/ Recovered(w)
               \/ Open(w) \/ Inspect(w) \/ ClosePrecheck(w) \/ EnqueueStatic(w)
               \/ Execute(w) \/ Announce(w) \/ Evaluate(w) \/ OpenRoute(w) \/ Conflict(w)
               \/ CloseRoute(w) \/ Cover(w)
               \/ ReconcileStep(w) \/ CompleteJob(w) \/ FailJob(w)
      BY <2>4, StatusKept
    <2> QED BY <1>2, <2>1, <2>2, <2>3, <2>4, Zenon DEF WorkerStep, StageStep
  <1>3. CASE UNCHANGED vars
    BY <1>3 DEF vars
  <1>4. CASE People \/ Release
    BY <1>1, <1>4 DEF People, ManualApprove, Approve, Reject, RequestChanges, Retry, Release,
       Reviewable, Undecided
  <1> QED BY <1>2, <1>3, <1>4 DEF Next

LEMMA AloneStays ==
    ASSUME IInv, Alone, [Next]_vars
    PROVE  Alone'
  <1> SUFFICES ASSUME "pause" \notin Events
               PROVE  (\A w \in Workers : AtWork(w)') /\ (\A w, v \in Workers : Apart(w, v)')
    BY DEF Alone
  <1>1. /\ TInv /\ worker \in [Workers -> Memory] /\ jobs \in [JobIds -> Job]
        /\ \A w \in Workers : AtWork(w)
        /\ \A w, v \in Workers : Apart(w, v)
    BY DEF IInv, TInv, TablesOK, Alone
  <1>2. decision = "manual_approve" => decision' = "manual_approve"
    BY ApprovalStands
  <1>3. \A w \in Workers : worker[w].at # "idle" => worker[w].job \in JobIds
    BY <1>1, InHand
  <1>4. decision = "manual_approve" =>
           status = "approved" /\ \A id \in JobIds : jobs[id].status \notin {"queued", "running"}
    BY DEF IInv, DecisionFits, ManualApprovalEndsReview
  <1>5. ASSUME NEW w \in Workers, WorkerStep(w) \/ Crash(w) \/ Outage(w)
        PROVE  gen' = gen /\ \A v \in Workers : v # w => worker'[v] = worker[v]
    <2>1. gen' = gen
      BY <1>5 DEF WorkerStep, ClaimJob, StageStep, Recover, Load, Recovered, Admit, Open,
         Inspect, ClosePrecheck, StartScanning, EnqueueStatic, Execute, Decide, Pend, Announce,
         Evaluate, OpenRoute, ApplyRoute, Conflict, CloseRoute, Cover, ReconcileStep,
         ReadArtifact, ReadRuns, ReadJobs, SkipStage, DegradeStage, Synthesize, QueueStage,
         QueueRoute, Wait, CompleteJob, RecordFailure, FailJob, Crash, Outage
    <2> QED BY <2>1, <1>1, <1>5, OthersStay
  <1>6. ASSUME NEW w \in Workers, NEW id \in JobIds, ClaimJob(w, id)
        PROVE  (\A v \in Workers : AtWork(v)') /\ (\A u, v \in Workers : Apart(u, v)')
    <2>1. /\ worker'[w].job = id /\ worker'[w].gen = gen
          /\ jobs'[id].status = "running" /\ jobs'[id].owner = w /\ ~jobs'[id].lapsed
          /\ \A j \in JobIds \ {id} : jobs'[j] = jobs[j]
          /\ gen' = gen /\ \A v \in Workers : v # w => worker'[v] = worker[v]
      BY <1>1, <1>5, <1>6, ClaimMoves DEF WorkerStep
    <2>2. jobs[id].status = "queued" \/ (jobs[id].status = "running" /\ jobs[id].lapsed)
      BY <1>6 DEF ClaimJob
    <2>3. \A v \in Workers : v # w /\ worker[v].at # "idle" => worker[v].job # id
      BY <1>1, <1>4, <2>2 DEF AtWork
    <2>4. ASSUME NEW v \in Workers PROVE AtWork(v)'
      <3>1. CASE v = w
        BY <2>1, <3>1 DEF AtWork
      <3>2. CASE v # w
        BY <1>1, <1>2, <1>3, <2>1, <2>3, <3>2 DEF AtWork
      <3> QED BY <3>1, <3>2
    <2>5. ASSUME NEW u \in Workers, NEW v \in Workers PROVE Apart(u, v)'
      BY <1>1, <2>1, <2>3 DEF Apart
    <2> QED BY <2>4, <2>5
  <1>7. ASSUME NEW w \in Workers,
               Outage(w) \/ StageStep(w) \/ ReconcileStep(w) \/ RecordFailure(w)
        PROVE  (\A v \in Workers : AtWork(v)') /\ (\A u, v \in Workers : Apart(u, v)')
    <2>1. /\ worker[w].at # "idle"
          /\ worker'[w].job = worker[w].job /\ worker'[w].gen = worker[w].gen
      BY <1>1, <1>7, MiddleMoves
    <2>2. gen' = gen /\ \A v \in Workers : v # w => worker'[v] = worker[v]
      BY <1>5, <1>7 DEF WorkerStep
    <2>3. \A v \in Workers : worker'[v].at # "idle" =>
             /\ worker[v].at # "idle"
             /\ worker'[v].job = worker[v].job /\ worker'[v].gen = worker[v].gen
      BY <2>1, <2>2
    <2>4. \A j \in JobIds : jobs'[j] = jobs[j] \/ jobs[j].status = "absent"
      BY <1>1, <1>7, OnlyNewJobs
    <2>5. ASSUME NEW v \in Workers PROVE AtWork(v)'
      BY <1>1, <1>2, <1>3, <2>2, <2>3, <2>4 DEF AtWork
    <2>6. ASSUME NEW u \in Workers, NEW v \in Workers PROVE Apart(u, v)'
      BY <1>1, <2>3 DEF Apart
    <2> QED BY <2>5, <2>6
  <1>8. ASSUME NEW w \in Workers, Crash(w) \/ CompleteJob(w) \/ FailJob(w)
        PROVE  (\A v \in Workers : AtWork(v)') /\ (\A u, v \in Workers : Apart(u, v)')
    <2>1. /\ worker'[w].at = "idle" /\ worker[w].at # "idle"
          /\ \A j \in JobIds : j # worker[w].job => jobs'[j] = jobs[j]
      BY <1>1, <1>8, EndMoves DEF Crash, CompleteJob, FailJob
    <2>2. gen' = gen /\ \A v \in Workers : v # w => worker'[v] = worker[v]
      BY <1>5, <1>8 DEF WorkerStep
    <2>3. ASSUME NEW v \in Workers PROVE AtWork(v)'
      <3>1. CASE v = w
        BY <2>1, <3>1 DEF AtWork
      <3>2. CASE v # w /\ worker[v].at # "idle"
        <4>1. jobs'[worker[v].job] = jobs[worker[v].job]
          BY <1>1, <1>3, <2>1, <3>2 DEF Apart
        <4> QED BY <1>1, <1>2, <2>2, <3>2, <4>1 DEF AtWork
      <3>3. CASE v # w /\ worker[v].at = "idle"
        BY <2>2, <3>3 DEF AtWork
      <3> QED BY <3>1, <3>2, <3>3
    <2>4. ASSUME NEW u \in Workers, NEW v \in Workers PROVE Apart(u, v)'
      BY <1>1, <2>1, <2>2 DEF Apart
    <2> QED BY <2>3, <2>4
  <1>9. CASE Retry
    <2>1. \A w \in Workers : worker[w].at = "idle"
      <3>1. decision # "manual_approve"
        BY <1>4, <1>9 DEF Retry, Reviewable
      <3>2. \A id \in JobIds : jobs[id].status # "running"
        BY <1>9 DEF Retry
      <3> QED BY <1>1, <1>3, <3>1, <3>2 DEF AtWork
    <2>2. worker' = worker
      BY <1>9 DEF Retry
    <2> QED BY <2>1, <2>2 DEF AtWork, Apart
  <1>10. CASE ManualApprove
    BY <1>1, <1>10 DEF ManualApprove, AtWork, Apart
  <1>11. CASE Approve \/ Reject \/ RequestChanges \/ Release \/ UNCHANGED vars
    <2>1. UNCHANGED <<gen, jobs, worker>>
      BY <1>11 DEF Approve, Reject, RequestChanges, Release, vars
    <2> QED BY <1>1, <1>2, <2>1 DEF AtWork, Apart
  <1>12. \A w \in Workers : ~Pause(w)
    BY DEF Pause, Happens
  <1> QED BY <1>6, <1>7, <1>8, <1>9, <1>10, <1>11, <1>12, Zenon DEF Next, WorkerStep, People

-----------------------------------------------------------------------------
(* The order of the stages.                                                *)

(* No worker that was stalled past its lease comes back to an attempt that *)
(* is not its own, or to a run that it shares: either none is ever stalled,*)
(* or there is one attempt, and every attempt at a job has its own run.    *)
NothingStale == "pause" \notin Events \/ (MaxRetries = 0 /\ "dependency" \notin Required)

(* A worker's job belongs to the current attempt.                          *)
HasJob(w) ==
    worker[w].at # "idle" => worker[w].gen = gen /\ jobs[worker[w].job].status # "absent"

(* The run a stage is about to close has no result yet, and no other stage *)
(* is about to close it.                                                   *)
RunIsOpen(w) ==
    worker[w].at = "execute" =>
        /\ worker[w].run[2] \in DOMAIN runs[Type(w)]
        /\ runs[Type(w)][worker[w].run[2]].state \notin Counts

RunIsOwn(w, v) ==
    w # v /\ worker[w].at = "execute" /\ worker[v].at = "execute" /\ Type(w) = Type(v) =>
        worker[w].run[2] # worker[v].run[2]

(* A stage has a job only when everything upstream of it has finished.     *)
JobsInOrder ==
    \A s \in Required : jobs[s].status # "absent" => \A u \in Upstream(s) : Finishes(u)

(* What a reconcile took for finished has finished.                        *)
ReadsFit(w) ==
    /\ worker[w].at = "read_jobs" =>
          \A s \in Required : worker[w].latest[s].state \in Counts => Finishes(s)
    /\ worker[w].at = "act" =>
          \A s \in Required : worker[w].units[s] = "completed" => Finishes(s)

(* The policy is about to approve only what has passed every stage.        *)
RouteFits(w) ==
    worker[w].at \in {"open_route", "apply_route"} /\ worker[w].what = "auto_approve" =>
        \A s \in Required : Completes(s)

WorkerInOrder(w) == HasJob(w) /\ RunIsOpen(w) /\ ReadsFit(w) /\ RouteFits(w)

RInv ==
    /\ JobsInOrder
    /\ \A w \in Workers : WorkerInOrder(w)
    /\ \A w, v \in Workers : RunIsOwn(w, v)

LEMMA NothingBeforeStatic == Upstream("static") = {}
  <1>1. \A u \in Required : u \in DOMAIN Phase
    BY Vocabulary
  <1>2. \A u \in DOMAIN Phase : ~(Phase[u] < Phase["static"])
    BY DEF Phase
  <1> QED BY <1>1, <1>2 DEF Upstream

Grows ==
    \A s \in Required : (Finishes(s) => Finishes(s)') /\ (Completes(s) => Completes(s)')

(* What becomes of a stage whose finished runs stay.                       *)
LEMMA RunsKept ==
    ASSUME NEW s \in Required
    PROVE  /\ (\A k \in DOMAIN runs[s] : runs[s][k].state \in Counts =>
                  k \in DOMAIN runs'[s] /\ runs'[s][k] = runs[s][k]) =>
                 (Finishes(s) => Finishes(s)') /\ (Completes(s) => Completes(s)')
           /\ (\E k \in DOMAIN runs'[s] : runs'[s][k].state \in Counts) => Finishes(s)'
  BY DEF Counts, Finishes, Completes

(* A stage's result goes into its own run, which had none.                 *)
LEMMA ExecuteWrites ==
    ASSUME TInv, NEW w \in Workers, RunIsOpen(w), Execute(w), NEW t \in Required, t = Type(w)
    PROVE  /\ \A u \in Required \ {t} : QuietOn(u)
           /\ QuietOn(t) \/ Finishes(t)'
           /\ Grows
           /\ DOMAIN runs'[t] = DOMAIN runs[t]
           /\ \A i \in DOMAIN runs[t] : i # worker[w].run[2] => runs'[t][i] = runs[t][i]
  <1> DEFINE i == worker[w].run[2]
  <1>1. worker[w].at = "execute"
    BY DEF Execute
  <1>3. DOMAIN runs = Types /\ runs[t] \in Seq(Run) /\ Required \subseteq Types
    BY Vocabulary DEF TInv, TablesOK, RunsOK
  <1>4. i \in DOMAIN runs[t] /\ runs[t][i].state \notin Counts
    BY <1>1 DEF RunIsOpen
  <1>5. PICK r \in Results[t] : CompleteRun(w, r)
    BY DEF Execute
  <1>6. \A u \in Required : runs'[u] = runs[u] => QuietOn(u)
    BY DEF QuietOn
  <1>7. CASE runs' = runs
    <2>1. \A u \in Required : QuietOn(u)
      BY <1>6, <1>7
    <2>2. Grows
      BY <2>1, QuietKeeps DEF Grows
    <2> QED BY <1>7, <2>1, <2>2
  <1>8. CASE runs' = [runs EXCEPT ![t] = [runs[t] EXCEPT ![i] = [runs[t][i] EXCEPT !.state = r]]]
    <2> DEFINE q == [runs[t] EXCEPT ![i] = [runs[t][i] EXCEPT !.state = r]]
    <2>1. runs'[t] = q /\ \A u \in Required \ {t} : runs'[u] = runs[u]
      BY <1>3, <1>8
    <2>2. /\ DOMAIN q = DOMAIN runs[t]
          /\ \A k \in DOMAIN runs[t] : k # i => q[k] = runs[t][k]
      BY <1>3
    <2>3. q[i].state = r
      <3>1. runs[t][i] \in Run
        BY <1>3, <1>4
      <3> QED BY <3>1, <1>3, <1>4 DEF Run
    <2> HIDE DEF q, i
    <2>4. \A u \in Required \ {t} : QuietOn(u)
      BY <2>1, <1>6
    <2>5. QuietOn(t) \/ Finishes(t)'
      <3>1. CASE r \in Counts
        <4>1. i \in DOMAIN runs'[t] /\ runs'[t][i].state \in Counts
          BY <3>1, <2>1, <2>2, <2>3, <1>4
        <4> QED BY <4>1, RunsKept
      <3>2. CASE r \notin Counts
        BY <3>2, <2>1, <2>2, <2>3, <1>4 DEF QuietOn
      <3> QED BY <3>1, <3>2
    <2>6. Grows
      <3>1. \A u \in Required \ {t} : (Finishes(u) => Finishes(u)') /\ (Completes(u) => Completes(u)')
        BY <2>4, QuietKeeps
      <3>2. \A k \in DOMAIN runs[t] : runs[t][k].state \in Counts =>
               k \in DOMAIN runs'[t] /\ runs'[t][k] = runs[t][k]
        BY <2>1, <2>2, <1>4
      <3>3. (Finishes(t) => Finishes(t)') /\ (Completes(t) => Completes(t)')
        BY <3>2, RunsKept
      <3> QED BY <3>1, <3>3 DEF Grows
    <2> QED BY <2>1, <2>2, <2>4, <2>5, <2>6 DEF i
  <1>9. runs' = runs \/ runs' = [runs EXCEPT ![t] =
                                   [runs[t] EXCEPT ![i] = [runs[t][i] EXCEPT !.state = r]]]
    BY <1>5 DEF CompleteRun
  <1> QED BY <1>7, <1>8, <1>9

LEMMA StepsGrow ==
    ASSUME TInv, NEW w \in Workers, RunIsOpen(w),
           WorkerStep(w) \/ Pause(w) \/ Crash(w) \/ Outage(w)
    PROVE  Grows
  <1>1. CASE Execute(w)
    <2>1. Type(w) \in Required
      BY <1>1, InHand DEF Execute, FitsAt, Type
    <2> QED BY <1>1, <2>1, ExecuteWrites
  <1>2. CASE ~Execute(w)
    BY <1>2, QuietSteps, QuietKeeps DEF RunsQuiet, Grows
  <1> QED BY <1>1, <1>2

(* A result of the stage's own job that is read has been written.          *)
LEMMA CompletedIsFinished ==
    ASSUME NEW s, NEW run, UnitState(s, run) = "completed"
    PROVE  run.state \in Counts
  <1> DEFINE job == jobs[JobOf(s)].status
             active == job \in {"queued", "running"}
             ended == RunState(run) \in Terminal
  <1>1. UnitState(s, run) =
           CASE ended /\ ~(active /\ run.reason # "none") -> RunState(run)
             [] active /\ (ended => run.reason # "none") -> "running"
             [] ~active /\ ~ended ->
                  IF job = "absent" /\ run = NoRun THEN "pending" ELSE "failed"
    BY DEF UnitState
  <1>2. RunState(run) = "completed"
    <2> HIDE DEF active, ended, job
    <2> QED BY <1>1
  <1> QED BY <1>2 DEF RunState, Counts

LEMMA LatestCounts ==
    ASSUME TablesOK, NEW s \in Required
    PROVE  /\ LatestRun(s).state \in Counts => Finishes(s)
           /\ LatestRun(s).state = "completed" => Completes(s)
  <1>1. runs[s] \in Seq(Run)
    BY Vocabulary DEF TablesOK, RunsOK
  <1>2. CASE runs[s] = <<>>
    <2>1. LatestRun(s) = NoRun
      BY <1>2 DEF LatestRun
    <2> QED BY <2>1 DEF NoRun, Counts
  <1>3. CASE runs[s] # <<>>
    <2>1. LatestRun(s) = runs[s][Len(runs[s])] /\ Len(runs[s]) \in DOMAIN runs[s]
      BY <1>1, <1>3 DEF LatestRun
    <2> QED BY <2>1 DEF Finishes, Completes, Counts
  <1> QED BY <1>2, <1>3

(* No step but a retry makes a job's row absent.                           *)
LEMMA RowsStay ==
    ASSUME TInv, NEW w \in Workers, WorkerStep(w) \/ Pause(w) \/ Crash(w) \/ Outage(w)
    PROVE  \A id \in JobIds : jobs'[id].status = "absent" => jobs[id].status = "absent"
  <1>1. jobs \in [JobIds -> Job]
    BY DEF TInv, TablesOK
  <1>2. CASE \E id \in JobIds : ClaimJob(w, id)
    BY <1>2, ClaimMoves
  <1>3. CASE Outage(w) \/ StageStep(w) \/ ReconcileStep(w) \/ RecordFailure(w)
    BY <1>3, OnlyNewJobs
  <1>4. CASE Crash(w) \/ CompleteJob(w) \/ FailJob(w)
    BY <1>4, EndMoves
  <1>5. CASE Pause(w)
    <2>1. worker[w].job \in JobIds
      BY <1>5, InHand DEF Pause, OwnsJob
    <2>2. jobs' = [jobs EXCEPT ![worker[w].job] = [jobs[worker[w].job] EXCEPT !.lapsed = TRUE]]
      BY <1>5 DEF Pause
    <2>3. jobs[worker[w].job] \in Job
      BY <1>1, <2>1
    <2>4. [jobs[worker[w].job] EXCEPT !.lapsed = TRUE].status = jobs[worker[w].job].status
      BY <2>3 DEF Job
    <2> QED BY <1>1, <2>1, <2>2, <2>4
  <1> QED BY <1>2, <1>3, <1>4, <1>5 DEF WorkerStep

(* The steps after which there is something to say of what was read.       *)
LEMMA Places ==
    ASSUME TInv, NEW w \in Workers, WorkerStep(w) \/ Pause(w) \/ Crash(w) \/ Outage(w)
    PROVE  \/ worker'[w].at \in Plain \cup {"idle"}
           \/ Pause(w) \/ Open(w) \/ Evaluate(w) \/ OpenRoute(w) \/ ReadRuns(w) \/ ReadJobs(w)
           \/ \E s \in Required : SkipStage(w, s) \/ DegradeStage(w, s) \/ QueueStage(w, s)
  <1>1. CASE \E id \in JobIds : ClaimJob(w, id)
    BY <1>1, ClaimMoves
  <1>2. CASE Crash(w) \/ CompleteJob(w) \/ FailJob(w)
    BY <1>2, EndMoves
  <1>3. CASE \/ Outage(w) \/ Recover(w) \/ Load(w) \/ Recovered(w) \/ Admit(w) \/ Inspect(w)
             \/ ClosePrecheck(w) \/ StartScanning(w) \/ EnqueueStatic(w) \/ Execute(w)
             \/ Decide(w) \/ Pend(w) \/ Announce(w) \/ ApplyRoute(w) \/ Conflict(w)
             \/ CloseRoute(w) \/ Cover(w) \/ RecordFailure(w)
             \/ ReadArtifact(w) \/ QueueRoute(w) \/ Wait(w)
    BY <1>3, PlainMoves DEF Onward
  <1> QED BY <1>1, <1>2, <1>3, Zenon DEF WorkerStep, StageStep, ReconcileStep

LEMMA AttemptStays ==
    ASSUME NEW w \in Workers, WorkerStep(w) \/ Pause(w) \/ Crash(w) \/ Outage(w)
    PROVE  gen' = gen
  BY DEF WorkerStep, ClaimJob, StageStep, Recover, Load, Recovered, Admit, Open,
     Inspect, ClosePrecheck, StartScanning, EnqueueStatic, Execute, Decide, Pend, Announce,
     Evaluate, OpenRoute, ApplyRoute, Conflict, CloseRoute, Cover, ReconcileStep,
     ReadArtifact, ReadRuns, ReadJobs, SkipStage, DegradeStage, Synthesize, QueueStage,
     QueueRoute, Wait, CompleteJob, RecordFailure, FailJob, Pause, Crash, Outage

LEMMA JobStays ==
    ASSUME TInv, \A v \in Workers : HasJob(v),
           NEW w \in Workers, WorkerStep(w) \/ Pause(w) \/ Crash(w) \/ Outage(w)
    PROVE  \A v \in Workers : HasJob(v)'
  <1>1. gen' = gen /\ \A id \in JobIds : jobs'[id].status = "absent" => jobs[id].status = "absent"
    BY AttemptStays, RowsStay
  <1>2. \A v \in Workers : worker[v].at # "idle" => worker[v].job \in JobIds
    BY InHand
  <1>3. \A v \in Workers \ {w} : worker'[v] = worker[v]
    BY OthersStay DEF TInv
  <1>4. ASSUME NEW v \in Workers, v # w
        PROVE  HasJob(v)'
    BY <1>1, <1>2, <1>3, <1>4 DEF HasJob
  <1>5. HasJob(w)'
    <2>1. CASE \E id \in JobIds : ClaimJob(w, id)
      BY <2>1, <1>1, ClaimMoves DEF HasJob
    <2>2. CASE Outage(w) \/ StageStep(w) \/ ReconcileStep(w) \/ RecordFailure(w)
      BY <2>2, <1>1, <1>2, MiddleMoves DEF HasJob
    <2>3. CASE Crash(w) \/ CompleteJob(w) \/ FailJob(w)
      BY <2>3, EndMoves DEF HasJob
    <2>4. CASE Pause(w)
      BY <2>4, <1>1, <1>2 DEF HasJob, Pause
    <2> QED BY <2>1, <2>2, <2>3, <2>4 DEF WorkerStep
  <1> QED BY <1>4, <1>5

LEMMA JobsStayInOrder ==
    ASSUME TInv, JobsInOrder, Grows,
           NEW w \in Workers, WorkerStep(w) \/ Pause(w) \/ Crash(w) \/ Outage(w),
           HasJob(w), ReadsFit(w)
    PROVE  JobsInOrder'
  <1> SUFFICES ASSUME NEW s \in Required, jobs'[s].status # "absent", NEW u \in Upstream(s)
               PROVE  Finishes(u)'
    BY DEF JobsInOrder, Upstream
  <1>1. u \in Required /\ s \in JobIds
    BY Vocabulary DEF Upstream
  <1>2. CASE jobs[s].status # "absent"
    BY <1>1, <1>2 DEF JobsInOrder, Grows
  <1>3. CASE jobs[s].status = "absent"
    <2>1. CASE Outage(w) \/ StageStep(w) \/ ReconcileStep(w) \/ RecordFailure(w)
      <3>1. s = "static" \/ QueueStage(w, s)
        BY <1>3, <2>1, OnlyNewJobs
      <3>2. s # "static"
        BY NothingBeforeStatic
      <3>3. worker[w].at = "act" /\ worker[w].units[u] = "completed"
        BY <3>1, <3>2 DEF QueueStage, UpstreamStates
      <3> QED BY <1>1, <3>3 DEF ReadsFit, Grows
    <2>2. CASE \E id \in JobIds : ClaimJob(w, id)
      <3>1. PICK id \in JobIds : ClaimJob(w, id)
        BY <2>2
      <3>2. s # id
        BY <3>1, <1>3 DEF ClaimJob
      <3> QED BY <1>1, <1>3, <3>1, <3>2, ClaimMoves
    <2>3. CASE Crash(w) \/ CompleteJob(w) \/ FailJob(w)
      <3>1. worker[w].at # "idle"
        BY <2>3 DEF Crash, CompleteJob, FailJob
      <3>2. s # worker[w].job
        BY <3>1, <1>3 DEF HasJob
      <3> QED BY <1>1, <1>3, <2>3, <3>2, EndMoves
    <2>4. CASE Pause(w)
      <3>1. jobs' = [jobs EXCEPT ![worker[w].job].lapsed = TRUE] /\ s # worker[w].job
        BY <2>4, <1>3 DEF Pause, OwnsJob
      <3> QED BY <1>1, <1>3, <3>1 DEF TInv, TablesOK
    <2> QED BY <2>1, <2>2, <2>3, <2>4 DEF WorkerStep
  <1> QED BY <1>2, <1>3

(* The other workers' runs are not closed under them.                      *)
LEMMA OthersRunsStay ==
    ASSUME TInv, NEW w \in Workers, WorkerStep(w) \/ Pause(w) \/ Crash(w) \/ Outage(w),
           RunIsOpen(w), NEW v \in Workers, v # w, RunIsOpen(v), RunIsOwn(w, v)
    PROVE  RunIsOpen(v)'
  <1>1. worker'[v] = worker[v]
    BY OthersStay DEF TInv
  <1> SUFFICES ASSUME worker[v].at = "execute"
               PROVE  RunIsOpen(v)'
    BY <1>1 DEF RunIsOpen
  <1>2. PICK t \in Required : t = Type(v)
    BY InHand DEF FitsAt, Type
  <1>3. PICK k : k = worker[v].run[2] /\ k \in DOMAIN runs[t] /\ runs[t][k].state \notin Counts
    BY <1>2 DEF RunIsOpen
  <1>4. QuietOn(t) => k \in DOMAIN runs'[t] /\ runs'[t][k].state \notin Counts
    BY <1>3 DEF QuietOn
  <1>5. CASE QuietOn(t)
    BY <1>1, <1>2, <1>3, <1>4, <1>5 DEF RunIsOpen, Type
  <1>6. CASE ~QuietOn(t)
    <2>1. Execute(w)
      BY <1>6, QuietSteps DEF RunsQuiet
    <2>2. PICK u \in Required : u = Type(w)
      BY <2>1, InHand DEF Execute, FitsAt, Type
    <2>3. u = t
      BY <1>6, <2>1, <2>2, ExecuteWrites
    <2>4. k # worker[w].run[2]
      BY <1>2, <1>3, <2>1, <2>2, <2>3 DEF RunIsOwn, Execute
    <2>5. k \in DOMAIN runs'[t] /\ runs'[t][k] = runs[t][k]
      BY <1>3, <2>1, <2>2, <2>3, <2>4, ExecuteWrites
    <2> QED BY <1>1, <1>2, <1>3, <2>5 DEF RunIsOpen, Type
  <1> QED BY <1>5, <1>6

(* A stage opens a run of its own.                                         *)
LEMMA OpensOwnRun ==
    ASSUME NothingStale, TInv, Alone, NEW w \in Workers, RunIsOpen(w),
           WorkerStep(w) \/ Pause(w) \/ Crash(w) \/ Outage(w)
    PROVE  /\ RunIsOpen(w)'
           /\ \A v \in Workers : v # w /\ RunIsOpen(v) /\ RunIsOwn(w, v) =>
                 RunIsOwn(w, v)' /\ RunIsOwn(v, w)'
  <1>1. \A v \in Workers \ {w} : worker'[v] = worker[v]
    BY OthersStay DEF TInv
  <1>2. CASE worker'[w].at # "execute"
    BY <1>2 DEF RunIsOpen, RunIsOwn
  <1>3. CASE Pause(w)
    BY <1>3 DEF Pause, RunIsOpen, RunIsOwn, Type
  <1>4. CASE worker'[w].at = "execute" /\ ~Pause(w)
    <2>1. Open(w)
      BY <1>4, Places, RouteMoves, ReadMoves, ActMoves DEF Plain, Onward
    <2>2. /\ worker'[w].job = worker[w].job /\ worker[w].at = "open"
          /\ Type(w) \in Required
      <3>1. Onward(w, {"execute"})
        BY <1>4, <2>1, OpenMoves DEF Plain, Onward
      <3>2. worker'[w] \in Memory
        BY <2>1, OpenTyped DEF TInv
      <3>3. TypeOf(worker'[w].job) \in Required
        BY <1>4, <3>2 DEF Memory, FitsAt
      <3> QED BY <2>1, <3>1, <3>3 DEF Open, Onward, Type
    <2>3. PICK t \in Required : t = Type(w)
      BY <2>2
    <2>4. runs[t] \in Seq(Run) /\ DOMAIN runs = Types /\ t \in Types /\ t # "precheck"
      BY <2>3, Vocabulary DEF TInv, TablesOK, RunsOK
    <2>5. CASE AppendRun(t, NewRun) /\ worker'[w].run = <<gen, Len(runs[t]) + 1>>
      <3>1. runs'[t] = Append(runs[t], NewRun)
        BY <2>4, <2>5 DEF AppendRun
      <3>2. /\ Len(runs[t]) + 1 \in DOMAIN runs'[t]
            /\ runs'[t][Len(runs[t]) + 1] = NewRun
            /\ Len(runs[t]) + 1 \notin DOMAIN runs[t]
        BY <2>4, <3>1
      <3>3. worker'[w].run[2] = Len(runs[t]) + 1
        BY <2>5
      <3>4. RunIsOpen(w)'
        BY <2>2, <2>3, <3>2, <3>3 DEF RunIsOpen, Type, NewRun, Counts
      <3>5. ASSUME NEW v \in Workers, v # w, RunIsOpen(v)
            PROVE  RunIsOwn(w, v)' /\ RunIsOwn(v, w)'
        BY <1>1, <2>2, <2>3, <3>2, <3>3, <3>5 DEF RunIsOpen, RunIsOwn, Type
      <3> QED BY <3>4, <3>5
    <2>6. CASE /\ t = "dependency" /\ runs' = runs
               /\ worker'[w].run[2] \in DOMAIN runs[t]
               /\ runs[t][worker'[w].run[2]].state = "running"
      <3>1. RunIsOpen(w)'
        BY <2>2, <2>3, <2>6 DEF RunIsOpen, Type, Counts
      <3>2. ASSUME NEW v \in Workers, v # w, worker[v].at = "execute"
            PROVE  Type(v) # "dependency"
        <4>1. Apart(w, v)
          BY <2>3, <2>6 DEF NothingStale, Alone
        <4>2. worker[w].job # worker[v].job
          BY <2>2, <3>2, <4>1 DEF Apart
        <4> QED BY <2>3, <2>6, <4>2 DEF Type, TypeOf
      <3>3. ASSUME NEW v \in Workers, v # w
            PROVE  RunIsOwn(w, v)' /\ RunIsOwn(v, w)'
        BY <1>1, <2>2, <2>3, <2>6, <3>2, <3>3 DEF RunIsOwn, Type
      <3> QED BY <3>1, <3>3
    <2> QED BY <1>4, <2>1, <2>3, <2>5, <2>6, OpenMoves DEF Plain, Onward
  <1> QED BY <1>2, <1>3, <1>4

LEMMA ReadsStayFit ==
    ASSUME TInv, Grows, NEW w \in Workers,
           WorkerStep(w) \/ Pause(w) \/ Crash(w) \/ Outage(w)
    PROVE  \A v \in Workers : ReadsFit(v) => ReadsFit(v)'
  <1>1. \A v \in Workers \ {w} : worker'[v] = worker[v]
    BY OthersStay DEF TInv
  <1>2. \A v \in Workers : worker'[v] = worker[v] /\ ReadsFit(v) => ReadsFit(v)'
    BY DEF ReadsFit, Grows
  <1>3. ReadsFit(w) => ReadsFit(w)'
    <2>1. CASE Pause(w)
      BY <2>1, <1>2 DEF Pause
    <2>2. CASE ReadRuns(w)
      <3>1. \A s \in Required : worker'[w].latest[s].state \in Counts => Finishes(s)
        BY <2>2, ReadMoves, LatestCounts DEF TInv
      <3>2. worker'[w].at = "read_jobs"
        BY <2>2, ReadMoves DEF Onward
      <3> QED BY <3>1, <3>2 DEF ReadsFit, Grows
    <2>3. CASE ReadJobs(w)
      <3>1. \A s \in Required : worker'[w].units[s] = "completed" =>
                                   worker[w].latest[s].state \in Counts
        <4> TAKE s \in Required
        <4>1. worker'[w].units[s] = UnitState(s, worker[w].latest[s])
          BY <2>3, ReadMoves
        <4> QED BY <4>1, CompletedIsFinished
      <3>2. worker'[w].at = "act" /\ worker[w].at = "read_jobs"
        BY <2>3, ReadMoves DEF Onward, ReadJobs
      <3> QED BY <3>1, <3>2 DEF ReadsFit, Grows
    <2>4. CASE \E s \in Required : SkipStage(w, s) \/ DegradeStage(w, s) \/ QueueStage(w, s)
      <3>1. \/ worker'[w].at \notin {"read_jobs", "act"}
            \/ /\ worker'[w].at = "act" /\ worker[w].at = "act"
               /\ \A u \in Required : worker'[w].units[u] = "completed" =>
                                         worker[w].units[u] = "completed"
        BY <2>4, ActMoves DEF Onward, Plain
      <3> QED BY <3>1 DEF ReadsFit, Grows
    <2>5. CASE worker'[w].at \notin {"read_jobs", "act"}
      BY <2>5 DEF ReadsFit
    <2> QED BY <2>1, <2>2, <2>3, <2>4, <2>5, Places, OpenMoves, RouteMoves DEF Plain, Onward
  <1> QED BY <1>1, <1>2, <1>3

(* What the policy approves has passed every stage.                        *)
LEMMA ApprovalIsEarned ==
    ASSUME TablesOK, NEW fresh, NEW finding, Route(fresh, finding) = "auto_approve"
    PROVE  \A s \in Required : Completes(s)
  <1>1. \A s \in Required : LatestRun(s).state = "completed"
    BY DEF Route
  <1> QED BY <1>1, LatestCounts

LEMMA RoutesStayFit ==
    ASSUME TInv, Grows, NEW w \in Workers,
           WorkerStep(w) \/ Pause(w) \/ Crash(w) \/ Outage(w)
    PROVE  \A v \in Workers : RouteFits(v) => RouteFits(v)'
  <1>1. \A v \in Workers \ {w} : worker'[v] = worker[v]
    BY OthersStay DEF TInv
  <1>2. \A v \in Workers : worker'[v] = worker[v] /\ RouteFits(v) => RouteFits(v)'
    BY DEF RouteFits, Grows
  <1>3. RouteFits(w) => RouteFits(w)'
    <2>1. CASE Pause(w)
      BY <2>1, <1>2 DEF Pause
    <2>2. CASE Evaluate(w)
      BY <2>2, RouteMoves, ApprovalIsEarned DEF RouteFits, Grows, TInv
    <2>3. CASE OpenRoute(w)
      BY <2>3, RouteMoves DEF OpenRoute, RouteFits, Grows
    <2>4. CASE worker'[w].at \notin {"open_route", "apply_route"}
      BY <2>4 DEF RouteFits
    <2> QED BY <2>1, <2>2, <2>3, <2>4, Places, OpenMoves, ReadMoves, ActMoves DEF Plain, Onward
  <1> QED BY <1>1, <1>2, <1>3

(* A retry finds no worker at work, where none is stalled.                 *)
LEMMA NobodyAtRetry ==
    ASSUME IInv, Alone, "pause" \notin Events, Retry
    PROVE  \A w \in Workers : worker[w].at = "idle"
  <1>1. decision # "manual_approve"
    BY DEF IInv, DecisionFits, Retry, Reviewable
  <1>2. \A w \in Workers : worker[w].at # "idle" => worker[w].job \in JobIds
    BY InHand DEF IInv
  <1>3. \A id \in JobIds : jobs[id].status # "running"
    BY DEF Retry
  <1> QED BY <1>1, <1>2, <1>3 DEF Alone, AtWork

LEMMA OrderStays ==
    ASSUME NothingStale, IInv, Alone, RInv, [Next]_vars
    PROVE  RInv'
  <1>1. /\ TInv /\ JobsInOrder
        /\ \A w \in Workers : HasJob(w) /\ RunIsOpen(w) /\ ReadsFit(w) /\ RouteFits(w)
        /\ \A w, v \in Workers : RunIsOwn(w, v)
    BY DEF IInv, RInv, WorkerInOrder
  <1>2. ASSUME NEW w \in Workers, WorkerStep(w) \/ Pause(w) \/ Crash(w) \/ Outage(w)
        PROVE  RInv'
    <2>1. Grows
      BY <1>1, <1>2, StepsGrow
    <2>2. JobsInOrder'
      BY <1>1, <1>2, <2>1, JobsStayInOrder
    <2>3. \A v \in Workers : HasJob(v)' /\ ReadsFit(v)' /\ RouteFits(v)'
      BY <1>1, <1>2, <2>1, JobStays, ReadsStayFit, RoutesStayFit
    <2>4. \A v \in Workers : RunIsOpen(v)'
      BY <1>1, <1>2, OthersRunsStay, OpensOwnRun
    <2>5. ASSUME NEW u \in Workers, NEW v \in Workers
          PROVE  RunIsOwn(u, v)'
      <3>1. CASE u = w \/ v = w
        BY <1>1, <1>2, <3>1, OpensOwnRun DEF RunIsOwn
      <3>2. CASE u # w /\ v # w
        <4>1. worker'[u] = worker[u] /\ worker'[v] = worker[v]
          BY <1>1, <1>2, <3>2, OthersStay DEF TInv
        <4>2. RunIsOwn(u, v)
          BY <1>1
        <4> QED BY <4>1, <4>2 DEF RunIsOwn, Type
      <3> QED BY <3>1, <3>2
    <2> QED BY <2>2, <2>3, <2>4, <2>5 DEF RInv, WorkerInOrder
  <1>3. CASE Retry
    <2>1. \A w \in Workers : worker[w].at = "idle"
      <3>1. CASE "pause" \notin Events
        BY <1>3, <3>1, NobodyAtRetry
      <3>2. CASE MaxRetries = 0
        BY <1>1, <1>3, <3>2 DEF Retry, TInv, TablesOK, Gens
      <3> QED BY <3>1, <3>2 DEF NothingStale
    <2>2. worker' = worker
      BY <1>3 DEF Retry
    <2>3. JobsInOrder'
      <3>1. \A s \in Required : jobs'[s].status # "absent" => s = "static"
        BY <1>3, Vocabulary DEF Retry, NoJob
      <3> QED BY <3>1, NothingBeforeStatic DEF JobsInOrder, Upstream
    <2> QED BY <2>1, <2>2, <2>3
        DEF RInv, WorkerInOrder, HasJob, RunIsOpen, ReadsFit, RouteFits, RunIsOwn
  <1>4. CASE ManualApprove \/ Approve \/ Reject \/ RequestChanges \/ Release \/ UNCHANGED vars
    <2>1. worker' = worker /\ gen' = gen
      BY <1>4 DEF ManualApprove, Approve, Reject, RequestChanges, Release, vars
    <2>2. RunsQuiet
      <3>1. ManualApprove \/ runs' = runs
        BY <1>4 DEF Approve, Reject, RequestChanges, Release, vars
      <3> QED BY <1>1, <3>1, QuietWrites
    <2>3. \A id \in JobIds : jobs'[id].status = "absent" <=> jobs[id].status = "absent"
      <3>1. CASE ManualApprove
        <4>1. \A id \in JobIds : jobs[id] \in Job
          BY <1>1 DEF TInv, TablesOK
        <4>2. \A j \in Job : [j EXCEPT !.status = "cancelled", !.owner = None,
                                       !.lapsed = FALSE].status = "cancelled"
          BY DEF Job
        <4> QED BY <3>1, <4>1, <4>2 DEF ManualApprove
      <3>2. CASE jobs' = jobs
        BY <3>2
      <3> QED BY <1>4, <3>1, <3>2 DEF Approve, Reject, RequestChanges, Release, vars
    <2>4. Grows
      BY <2>2, QuietKeeps DEF RunsQuiet, Grows
    <2>5. JobsInOrder'
      BY <1>1, <2>3, <2>4, Vocabulary DEF JobsInOrder, Grows, Upstream
    <2>6. ASSUME NEW w \in Workers
          PROVE  WorkerInOrder(w)'
      <3>1. HasJob(w)'
        BY <1>1, <2>1, <2>3, InHand DEF HasJob
      <3>2. ReadsFit(w)' /\ RouteFits(w)'
        BY <1>1, <2>1, <2>4 DEF ReadsFit, RouteFits, Grows
      <3>3. RunIsOpen(w)'
        <4>1. CASE worker[w].at = "execute"
          <5>1. PICK t \in Required : t = Type(w)
            BY <1>1, <4>1, InHand DEF FitsAt, Type
          <5>2. QuietOn(t)
            BY <2>2 DEF RunsQuiet
          <5> QED BY <1>1, <2>1, <4>1, <5>1, <5>2 DEF RunIsOpen, QuietOn, Type
        <4>2. CASE worker[w].at # "execute"
          BY <2>1, <4>2 DEF RunIsOpen
        <4> QED BY <4>1, <4>2
      <3> QED BY <3>1, <3>2, <3>3 DEF WorkerInOrder
    <2>7. \A w, v \in Workers : RunIsOwn(w, v)'
      BY <1>1, <2>1 DEF RunIsOwn, Type
    <2> QED BY <2>5, <2>6, <2>7 DEF RInv
  <1> QED BY <1>2, <1>3, <1>4, Zenon DEF Next, People

-----------------------------------------------------------------------------
(* The review implements its contract.                                     *)

(* What the contract sees.                                                 *)
FinishedStages == {s \in Required : Finishes(s)}
PassedStages   == {s \in Required : Completes(s)}
ApprovedBy     == CASE decision = "auto_approve" -> "policy"
                    [] decision \in {"approve", "manual_approve"} -> "person"
                    [] OTHER -> "none"

LEMMA QuietIsUnseen ==
    ASSUME RunsQuiet
    PROVE  FinishedStages' = FinishedStages /\ PassedStages' = PassedStages
  <1>1. \A s \in Required : (Finishes(s)' <=> Finishes(s)) /\ (Completes(s)' <=> Completes(s))
    BY QuietKeeps DEF RunsQuiet
  <1> QED BY <1>1 DEF FinishedStages, PassedStages

(* The contract's steps that no stage's result comes with.                 *)
LEMMA ContractSteps ==
    ASSUME gen' = gen, FinishedStages' = FinishedStages, PassedStages' = PassedStages
    PROVE  /\ status' = status /\ ApprovedBy' = ApprovedBy => UNCHANGED Contract!vars
           /\ status \in {"quarantined", "processing_failed"} /\ status' = "prechecking"
              /\ ApprovedBy' = ApprovedBy => Contract!Next
           /\ status \in {"prechecking", "processing_failed"} /\ status' = "scanning"
              /\ ApprovedBy' = ApprovedBy => Contract!Next
           /\ status \in {"prechecking", "scanning"} /\ status' = "processing_failed"
              /\ ApprovedBy' = ApprovedBy => Contract!Next
           /\ status = "scanning" /\ status' = "pending_review"
              /\ ApprovedBy' = ApprovedBy => Contract!Next
           /\ status \in Undecided /\ status' = "rejected"
              /\ ApprovedBy' = ApprovedBy => Contract!Next
           /\ status = "pending_review" /\ status' = "changes_requested"
              /\ ApprovedBy' = ApprovedBy => Contract!Next
           /\ status \in Reviewable /\ status' = "approved" /\ ApprovedBy' = "person"
              => Contract!Next
           /\ status = "scanning" /\ status' = "approved" /\ ApprovedBy' = "policy"
              /\ PassedStages = Required => Contract!Next
  <1> USE DEF FinishedStages, PassedStages, ApprovedBy, Contract!Next, Contract!Move,
              Contract!Become
  <1>1. status' = status /\ ApprovedBy' = ApprovedBy => UNCHANGED Contract!vars
    BY DEF Contract!vars
  <1>2. status \in {"quarantined", "processing_failed"} /\ status' = "prechecking"
        /\ ApprovedBy' = ApprovedBy => Contract!Precheck
    BY DEF Contract!Precheck
  <1>3. status \in {"prechecking", "processing_failed"} /\ status' = "scanning"
        /\ ApprovedBy' = ApprovedBy => Contract!Scan
    BY DEF Contract!Scan
  <1>4. status \in {"prechecking", "scanning"} /\ status' = "processing_failed"
        /\ ApprovedBy' = ApprovedBy => Contract!GiveUp
    BY DEF Contract!GiveUp
  <1>5. status = "scanning" /\ status' = "pending_review" /\ ApprovedBy' = ApprovedBy
        => Contract!AskPerson
    BY DEF Contract!AskPerson
  <1>6. status \in Undecided /\ status' = "rejected" /\ ApprovedBy' = ApprovedBy
        => Contract!Reject
    BY DEF Contract!Reject, Contract!Undecided, Undecided
  <1>7. status = "pending_review" /\ status' = "changes_requested" /\ ApprovedBy' = ApprovedBy
        => Contract!RequestChanges
    BY DEF Contract!RequestChanges
  <1>8. status \in Reviewable /\ status' = "approved" /\ ApprovedBy' = "person"
        => Contract!ApproveByHand
    BY DEF Contract!ApproveByHand, Contract!Retriable, Reviewable
  <1>9. status = "scanning" /\ status' = "approved" /\ ApprovedBy' = "policy"
        /\ PassedStages = Required => Contract!ApproveByPolicy
    BY DEF Contract!ApproveByPolicy
  <1> HIDE DEF FinishedStages, PassedStages, ApprovedBy, Contract!Move, Contract!Become
  <1> QED BY <1>1, <1>2, <1>3, <1>4, <1>5, <1>6, <1>7, <1>8, <1>9, Zenon

(* A stage that has run to its end had everything upstream finished.       *)
LEMMA ExecuteRefines ==
    ASSUME IInv, RInv, NEW w \in Workers, Execute(w)
    PROVE  Contract!Next \/ UNCHANGED Contract!vars
  <1>1. TInv /\ JobsInOrder /\ HasJob(w) /\ RunIsOpen(w)
    BY DEF IInv, RInv, WorkerInOrder
  <1>2. gen' = gen /\ status' = status /\ decision' = decision
    BY DEF Execute
  <1>3. ApprovedBy' = ApprovedBy
    BY <1>2 DEF ApprovedBy
  <1>4. PICK t \in Required : t = Type(w)
    BY <1>1, InHand DEF Execute, FitsAt, Type
  <1>5. /\ \A u \in Required \ {t} : QuietOn(u)
        /\ QuietOn(t) \/ Finishes(t)'
        /\ Completes(t) => Completes(t)'
    BY <1>1, <1>4, ExecuteWrites DEF Grows
  <1>6. CASE QuietOn(t)
    BY <1>2, <1>3, <1>5, <1>6, QuietIsUnseen, ContractSteps DEF RunsQuiet
  <1>7. CASE Finishes(t)'
    <2>1. \A u \in Required \ {t} :
             (Finishes(u)' <=> Finishes(u)) /\ (Completes(u)' <=> Completes(u))
      BY <1>5, QuietKeeps
    <2>2. FinishedStages' = FinishedStages \cup {t}
      BY <1>7, <2>1 DEF FinishedStages
    <2>3. PassedStages' \in {PassedStages, PassedStages \cup {t}}
      BY <1>5, <2>1 DEF PassedStages
    <2>4. Contract!Upstream(t) \subseteq FinishedStages
      <3>1. Contract!Upstream(t) = Upstream(t)
        BY DEF Contract!Upstream, Upstream
      <3>2. CASE worker[w].job = t
        <4>1. jobs[t].status # "absent"
          BY <1>1, <3>2 DEF HasJob, Execute
        <4> QED BY <1>1, <3>1, <4>1 DEF JobsInOrder, FinishedStages, Upstream
      <3>3. CASE t = "static"
        BY <3>1, <3>3, NothingBeforeStatic
      <3> QED BY <1>4, <3>2, <3>3 DEF Type, TypeOf
    <2>5. Contract!Finish(t)
      BY <1>2, <1>3, <2>2, <2>3, <2>4
         DEF Contract!Finish, FinishedStages, PassedStages, ApprovedBy
    <2> QED BY <2>5 DEF Contract!Next
  <1> QED BY <1>5, <1>6, <1>7

LEMMA WorkerRefines ==
    ASSUME IInv, RInv, NEW w \in Workers, WorkerStep(w) \/ Pause(w) \/ Crash(w) \/ Outage(w)
    PROVE  Contract!Next \/ UNCHANGED Contract!vars
  <1>1. TInv /\ RouteFits(w) /\ DecisionFits /\ status \in Statuses
    BY DEF IInv, RInv, WorkerInOrder, TInv, TablesOK
  <1>2. CASE Execute(w)
    BY <1>2, ExecuteRefines
  <1>3. CASE ~Execute(w)
    <2>1. gen' = gen /\ FinishedStages' = FinishedStages /\ PassedStages' = PassedStages
      BY <1>1, <1>3, AttemptStays, QuietSteps, QuietIsUnseen
    <2>2. decision' = decision => ApprovedBy' = ApprovedBy
      BY DEF ApprovedBy
    <2>3. CASE Admit(w) \/ StartScanning(w) \/ RecordFailure(w) \/ Pend(w)
      <3>1. decision' = decision
        BY <2>3 DEF Admit, StartScanning, RecordFailure, Pend
      <3>2. \/ status' = status
            \/ status \in {"quarantined", "processing_failed"} /\ status' = "prechecking"
            \/ status \in {"prechecking", "processing_failed"} /\ status' = "scanning"
            \/ status \in {"prechecking", "scanning"} /\ status' = "processing_failed"
            \/ status = "scanning" /\ status' = "pending_review"
        BY <1>1, <2>3, Transitions DEF Admit, StartScanning, RecordFailure, Pend
      <3> QED BY <2>1, <2>2, <3>1, <3>2, ContractSteps
    <2>4. CASE Decide(w)
      <3>1. worker[w].what \in {"precheck", "static", "clamav", "yara"}
        BY <1>1, <2>4, InHand DEF Decide, FitsAt
      <3>2. CASE status' = status /\ decision' = decision
        BY <2>1, <2>2, <3>2, ContractSteps
      <3>3. CASE MayReject(worker[w].what) /\ status' = "rejected" /\ decision' = worker[w].what
        <4>1. ApprovedBy' = ApprovedBy
          BY <1>1, <3>1, <3>3 DEF ApprovedBy, DecisionFits, MayReject
        <4>2. status \in Undecided \/ status = "rejected"
          BY <1>1, <3>1, <3>3 DEF MayReject, DecisionFits, Statuses, Decided
        <4> QED BY <2>1, <3>3, <4>1, <4>2, ContractSteps
      <3> QED BY <2>4, <3>2, <3>3 DEF Decide, AutoReject
    <2>5. CASE ApplyRoute(w)
      <3>1. worker[w].what \in Routes
        BY <1>1, <2>5, InHand DEF ApplyRoute, FitsAt
      <3>2. CASE ~RouteApplies(worker[w].what)
        BY <2>1, <2>2, <2>5, <3>2, ContractSteps DEF ApplyRoute
      <3>3. CASE RouteApplies(worker[w].what) /\ worker[w].what = "auto_reject"
        <4>1. status' = "rejected" /\ decision' = "auto_reject" /\ MayReject("auto_reject")
          BY <2>5, <3>3 DEF ApplyRoute, RouteApplies
        <4>2. ApprovedBy' = ApprovedBy
          BY <1>1, <4>1 DEF ApprovedBy, DecisionFits, MayReject
        <4>3. status \in Undecided \/ status = "rejected"
          BY <1>1, <4>1 DEF MayReject, DecisionFits, Statuses, Decided
        <4> QED BY <2>1, <4>1, <4>2, <4>3, ContractSteps
      <3>4. CASE RouteApplies(worker[w].what) /\ worker[w].what = "manual_review"
        <4>1. /\ status' = "pending_review" /\ decision' = decision
              /\ status \in {"scanning", "pending_review"}
          BY <1>1, <2>5, <3>4, Transitions DEF ApplyRoute, RouteApplies
        <4> QED BY <2>1, <2>2, <4>1, ContractSteps
      <3>5. CASE RouteApplies(worker[w].what) /\ worker[w].what = "auto_approve"
        <4>1. /\ status' = "approved" /\ decision' = "auto_approve"
              /\ decision = "auto_approve" \/ status = "scanning"
          BY <2>5, <3>5 DEF ApplyRoute, RouteApplies
        <4>2. PassedStages = Required
          BY <1>1, <2>5, <3>5 DEF ApplyRoute, RouteFits, PassedStages
        <4>3. ApprovedBy' = "policy" /\ (decision = "auto_approve" => ApprovedBy = "policy")
          BY <4>1 DEF ApprovedBy
        <4>4. decision = "auto_approve" => status = "approved"
          BY <1>1 DEF DecisionFits
        <4> QED BY <2>1, <4>1, <4>2, <4>3, <4>4, ContractSteps
      <3> QED BY <3>1, <3>2, <3>3, <3>4, <3>5 DEF Routes
    <2>6. CASE \/ \E id \in JobIds : ClaimJob(w, id)
               \/ Pause(w) \/ Crash(w) \/ Outage(w) \/ Recover(w) \/ Load(w) \/ Recovered(w)
               \/ Open(w) \/ Inspect(w) \/ ClosePrecheck(w) \/ EnqueueStatic(w)
               \/ Execute(w) \/ Announce(w) \/ Evaluate(w) \/ OpenRoute(w) \/ Conflict(w)
               \/ CloseRoute(w) \/ Cover(w)
               \/ ReconcileStep(w) \/ CompleteJob(w) \/ FailJob(w)
      <3>1. status' = status /\ decision' = decision
        BY <2>6, StatusKept
      <3> QED BY <2>1, <2>2, <3>1, ContractSteps
    <2> QED BY <2>3, <2>4, <2>5, <2>6, Zenon DEF WorkerStep, StageStep
  <1> QED BY <1>2, <1>3

LEMMA PeopleRefine ==
    ASSUME IInv, People \/ Release
    PROVE  Contract!Next \/ UNCHANGED Contract!vars
  <1>1. TInv /\ DecisionFits
    BY DEF IInv
  <1>2. CASE Retry
    <2>1. /\ status \in Reviewable /\ gen <= MaxRetries /\ gen' = gen + 1
          /\ status' \in {"scanning", "processing_failed"} /\ decision' = decision
      BY <1>2 DEF Retry
    <2>2. \A s \in Required : runs'[s] = <<>>
      BY <1>2, Vocabulary DEF Retry
    <2>3. FinishedStages' = {} /\ PassedStages' = {}
      BY <2>2 DEF FinishedStages, PassedStages, Finishes, Completes
    <2>4. gen < MaxRetries + 1
      BY <1>1, <2>1, ConstantsAssumption DEF TInv, TablesOK, Gens
    <2>5. Contract!Retry
      BY <2>1, <2>3, <2>4
         DEF Contract!Retry, Contract!Retriable, Reviewable, FinishedStages, PassedStages
    <2> QED BY <2>5 DEF Contract!Next
  <1>3. CASE ManualApprove \/ Approve \/ Reject \/ RequestChanges \/ Release
    <2>1. gen' = gen /\ (ManualApprove \/ runs' = runs)
      BY <1>3 DEF ManualApprove, Approve, Reject, RequestChanges, Release
    <2>2. FinishedStages' = FinishedStages /\ PassedStages' = PassedStages
      BY <1>1, <2>1, QuietWrites, QuietIsUnseen
    <2>3. CASE ManualApprove \/ Approve
      <3>1. /\ status \in Reviewable /\ status' = "approved"
            /\ decision' \in {"approve", "manual_approve"}
        BY <2>3 DEF ManualApprove, Approve, Reviewable
      <3>2. ApprovedBy' = "person"
        BY <3>1 DEF ApprovedBy
      <3> QED BY <2>1, <2>2, <3>1, <3>2, ContractSteps
    <2>4. CASE Reject \/ RequestChanges
      <3>1. /\ status \in Undecided /\ decision' \in {"reject", "request_changes"}
            /\ \/ status' = "rejected"
               \/ status = "pending_review" /\ status' = "changes_requested"
        BY <2>4 DEF Reject, RequestChanges, Undecided
      <3>2. ApprovedBy' = ApprovedBy
        BY <1>1, <3>1 DEF ApprovedBy, DecisionFits
      <3> QED BY <2>1, <2>2, <3>1, <3>2, ContractSteps
    <2>5. CASE Release
      BY <2>1, <2>2, <2>5, ContractSteps DEF Release, ApprovedBy
    <2> QED BY <1>3, <2>3, <2>4, <2>5
  <1> QED BY <1>2, <1>3 DEF People

LEMMA NextRefines ==
    ASSUME IInv, RInv, [Next]_vars
    PROVE  [Contract!Next]_(Contract!vars)
  <1>1. CASE UNCHANGED vars
    BY <1>1, Zenon DEF vars, Contract!vars, Finishes, Completes
  <1> QED BY <1>1, WorkerRefines, PeopleRefine DEF Next

LEMMA OrderAtInit == Init => Alone /\ RInv
  <1> SUFFICES ASSUME Init PROVE Alone /\ RInv
    OBVIOUS
  <1>1. \A w \in Workers : worker[w].at = "idle"
    BY DEF Init, Idle
  <1>2. JobsInOrder
    <2>1. \A s \in Required : jobs[s].status = "absent"
      BY Vocabulary DEF Init, NoJob
    <2> QED BY <2>1 DEF JobsInOrder
  <1> QED BY <1>1, <1>2 DEF Alone, AtWork, Apart, RInv, WorkerInOrder, HasJob, RunIsOpen, RunIsOwn,
         ReadsFit, RouteFits

LEMMA InitRefines == Init => Contract!Init
  <1> SUFFICES ASSUME Init PROVE Contract!Init
    OBVIOUS
  <1>1. \A s \in Required : runs[s] = <<>>
    BY Vocabulary DEF Init
  <1>2. {s \in Required : Finishes(s)} = {} /\ {s \in Required : Completes(s)} = {}
    BY <1>1 DEF Finishes, Completes
  <1> QED BY <1>2 DEF Init, Contract!Init

(* Stages finish in the order of their phases, the policy approves only    *)
(* what has passed every stage in its attempt, and decisions are final,    *)
(* where no worker that was stalled past its lease comes back to an        *)
(* attempt that is not its own or to a run that it shares (worker.py,      *)
(* orchestration.py, routing.py, repository.py, manual_review.py).         *)
THEOREM PipelineImplementsContract ==
    ASSUME NothingStale
    PROVE  Spec => ImplementsReviewContract
  <1>1. Init => Alone /\ RInv
    BY OrderAtInit
  <1>2. IInv /\ Alone /\ RInv /\ [Next]_vars => (Alone /\ RInv)'
    BY AloneStays, OrderStays
  <1>3. IInv /\ RInv /\ [Next]_vars => [Contract!Next]_(Contract!vars)
    BY NextRefines
  <1> QED BY <1>1, <1>2, <1>3, InitRefines, Invariance, PTL
          DEF Spec, ImplementsReviewContract, Contract!Spec

-----------------------------------------------------------------------------
(* Skips and their causes.                                                 *)

Works(w) == WorkerStep(w) \/ Pause(w) \/ Crash(w) \/ Outage(w)

Acting(w) == \E s \in Required : SkipStage(w, s) \/ DegradeStage(w, s) \/ QueueStage(w, s)

(* Where the steps of a worker lead.                                       *)
After == IF advanced THEN "read_artifact" ELSE "done"
Leads(w, from, to) == worker[w].at = from /\ worker'[w].at \in to

LEMMA Targets ==
    ASSUME TInv, NEW w \in Workers, worker[w].at # "idle"
    PROVE  /\ \A s : Go(w, s) => worker'[w].at = s
           /\ Leave(w) => worker'[w].at = "done"
           /\ Proceed(w) => worker'[w].at = After
           /\ (Raise(w, TRUE) \/ Raise(w, FALSE)) => worker'[w].at = "record"
  <1>1. worker \in [Workers -> Memory] /\ worker[w] \in WorkerState
    BY InHand
  <1>2. \A s : Go(w, s) => worker'[w].at = s
    BY <1>1 DEF Go, WorkerState
  <1>3. Leave(w) => worker'[w].at = "done"
    BY <1>1 DEF Leave, Frame, Idle
  <1>4. Proceed(w) => worker'[w].at = After
    BY <1>1 DEF Proceed, AfterStage, After, Frame, Idle
  <1>5. Raise(w, TRUE) \/ Raise(w, FALSE) => worker'[w].at = "record"
    BY <1>1 DEF Raise, Frame, Idle
  <1> QED BY <1>2, <1>3, <1>4, <1>5

(* The steps that lead to another place than the end or a failure.         *)
Paths(w) ==
    \/ Pause(w) /\ worker' = worker
    \/ Leads(w, "idle", {"recover", "load"}) /\ \E id \in JobIds : ClaimJob(w, id)
    \/ Leads(w, "recover", {"load"}) /\ Recover(w)
    \/ Leads(w, "load", {"done"}) /\ Load(w) /\ status \in Decided
    \/ Leads(w, "load", {"open", "recovered", "admit", "evaluate"}) /\ Load(w)
    \/ Leads(w, "recovered", {After, "decide", "close_route"})
       /\ Recovered(w)
    \/ Leads(w, "open", {"inspect", "execute", After}) /\ Open(w)
    \/ Leads(w, "execute", {"decide", "pend", After}) /\ Execute(w)
    \/ /\ worker[w].job = "precheck"
       /\ \/ Leads(w, "admit", {"open"}) /\ Admit(w)
          \/ Leads(w, "inspect", {"decide", "close_precheck"}) /\ Inspect(w)
          \/ Leads(w, "close_precheck", {"start_scanning"}) /\ ClosePrecheck(w)
          \/ Leads(w, "start_scanning", {"enqueue_static"}) /\ StartScanning(w)
          \/ Leads(w, "enqueue_static", {After}) /\ EnqueueStatic(w)
    \/ Leads(w, "decide", {"announce"}) /\ Decide(w)
    \/ Leads(w, "pend", {"announce"}) /\ Pend(w)
    \/ Leads(w, "announce", {After}) /\ Announce(w)
    \/ /\ worker[w].job = "route"
       /\ \/ Leads(w, "evaluate", {"open_route"}) /\ Evaluate(w)
          \/ Leads(w, "open_route", {"apply_route"}) /\ OpenRoute(w)
          \/ Leads(w, "apply_route", {"close_route", "conflict"}) /\ ApplyRoute(w)
          \/ Leads(w, "close_route", {"cover"}) /\ CloseRoute(w)
          \/ Leads(w, "cover", {"announce"}) /\ Cover(w)
    \/ Leads(w, "record", {"fail"}) /\ RecordFailure(w)
    \/ Leads(w, "read_artifact", {"done"}) /\ ReadArtifact(w) /\ status \in Closed
    \/ Leads(w, "read_artifact", {"read_runs"}) /\ ReadArtifact(w)
    \/ Leads(w, "read_runs", {"read_jobs"}) /\ ReadRuns(w)
    \/ Leads(w, "read_jobs", {"act"}) /\ ReadJobs(w)
    \/ Leads(w, "act", {"act"}) /\ Acting(w)
    \/ Leads(w, "act", {"done"}) /\ (QueueRoute(w) \/ Wait(w))

LEMMA Path ==
    ASSUME TInv, NEW w \in Workers, Works(w), worker'[w].at \notin {"idle", "record"}
    PROVE  Paths(w)
  <1>1. CASE \E id \in JobIds : ClaimJob(w, id)
    <2>1. PICK id \in JobIds : ClaimJob(w, id)
      BY <1>1
    <2>2. worker'[w].at \in {"recover", "load"} /\ worker[w].at = "idle"
      BY <2>1 DEF ClaimJob, Idle, TInv
    <2> QED BY <1>1, <2>2 DEF Paths, Leads
  <1>2. CASE Pause(w)
    BY <1>2 DEF Paths, Pause
  <1>3. CASE Crash(w) \/ CompleteJob(w) \/ FailJob(w)
    BY <1>3, EndMoves
  <1>4. CASE Outage(w)
    <2>1. worker[w].at # "idle"
      BY <1>4 DEF Outage
    <2>2. worker'[w].at = "record"
      BY <1>4, <2>1, Targets DEF Outage
    <2> QED BY <2>2
  <1>5. CASE RecordFailure(w)
    <2>1. worker[w].at = "record" /\ Go(w, "fail")
      BY <1>5 DEF RecordFailure
    <2> QED BY <1>5, <2>1, Targets DEF Paths, Leads
  <1>6. CASE Recover(w) \/ Admit(w) \/ ClosePrecheck(w) \/ StartScanning(w) \/ EnqueueStatic(w)
             \/ Decide(w) \/ Announce(w)
             \/ ApplyRoute(w) \/ Conflict(w) \/ CloseRoute(w) \/ Cover(w)
             \/ ReadArtifact(w) \/ QueueRoute(w) \/ Wait(w)
    <2>1. worker[w].at # "idle"
      BY <1>6 DEF Recover, Admit, ClosePrecheck, StartScanning, EnqueueStatic, Decide, Announce,
         ApplyRoute, Conflict, CloseRoute, Cover, ReadArtifact, QueueRoute, Wait
    <2>2. /\ \A s : Go(w, s) => worker'[w].at = s
          /\ Leave(w) => worker'[w].at = "done"
          /\ Proceed(w) => worker'[w].at = After
          /\ ~Raise(w, TRUE) /\ ~Raise(w, FALSE)
      BY <2>1, Targets
    <2>3. /\ worker[w].at \in {"admit", "close_precheck", "start_scanning", "enqueue_static"} =>
                worker[w].job = "precheck"
          /\ worker[w].at \in {"apply_route", "close_route", "cover"} => worker[w].job = "route"
      BY <2>1, InHand DEF FitsAt
    <2>4. CASE Recover(w) \/ Decide(w) \/ Announce(w) \/ ReadArtifact(w) \/ QueueRoute(w) \/ Wait(w)
      BY <2>4, <2>2 DEF Paths, Leads, Recover, Decide, Announce, ReadArtifact, QueueRoute, Wait
    <2>5. CASE Admit(w) \/ ClosePrecheck(w) \/ StartScanning(w) \/ EnqueueStatic(w)
      BY <2>5, <2>2, <2>3 DEF Paths, Leads, Admit, ClosePrecheck, StartScanning, EnqueueStatic
    <2>6. CASE ApplyRoute(w) \/ Conflict(w) \/ CloseRoute(w) \/ Cover(w)
      BY <2>6, <2>2, <2>3 DEF Paths, Leads, ApplyRoute, Conflict, CloseRoute, Cover
    <2> QED BY <1>6, <2>4, <2>5, <2>6
  <1>7. CASE Load(w)
    <2>1. worker[w].at = "load" /\ worker \in [Workers -> Memory] /\ worker[w] \in WorkerState
      BY <1>7, InHand DEF Load
    <2>2. \/ status \in Decided /\ worker'[w].at = "done"
          \/ worker'[w].at \in {"open", "recovered", "admit", "evaluate"}
      BY <1>7, <2>1 DEF Load, WorkerState
    <2> QED BY <1>7, <2>1, <2>2 DEF Paths, Leads
  <1>8. CASE Recovered(w)
    <2>1. worker[w].at = "recovered"
      BY <1>8 DEF Recovered
    <2>a. worker \in [Workers -> Memory] /\ worker[w] \in WorkerState
      BY <2>1, InHand
    <2>b. \A x : worker' = [worker EXCEPT ![w] = [worker[w] EXCEPT !.at = "decide", !.what = x]]
             => worker'[w].at = "decide"
      BY <2>a DEF WorkerState
    <2>d. ASSUME NEW x, NEW y,
                 worker' = [worker EXCEPT ![w] =
                              [worker[w] EXCEPT !.at = "close_route", !.what = x, !.run = y]]
          PROVE  worker'[w].at = "close_route"
      <3> DEFINE n == [worker[w] EXCEPT !.at = "close_route", !.what = x, !.run = y]
      <3>1. n.at = "close_route"
        BY <2>a DEF WorkerState
      <3>2. worker' = [worker EXCEPT ![w] = n]
        BY <2>d, Zenon
      <3> HIDE DEF n
      <3> QED BY <3>1, <3>2, <2>a
    <2>c. /\ Proceed(w) => worker'[w].at = After
          /\ ~Raise(w, TRUE) /\ ~Raise(w, FALSE)
      BY <2>1, Targets
    <2>3. worker'[w].at \in {After, "decide", "close_route"}
      <3>1. CASE RecoverStatic(w) \/ RefuseStatus(w)
        BY <3>1, <2>c DEF RecoverStatic, RefuseStatus
      <3>2. CASE RecoverMalware(w)
        BY <3>2, <2>b, <2>c, Zenon DEF RecoverMalware
      <3>3. CASE RecoverRoute(w)
        BY <3>3, <2>c, <2>d, Zenon DEF RecoverRoute
      <3> QED BY <1>8, <3>1, <3>2, <3>3 DEF Recovered
    <2> QED BY <1>8, <2>1, <2>3 DEF Paths, Leads
  <1>9. CASE Open(w)
    <2>1. worker[w].at = "open" /\ worker \in [Workers -> Memory] /\ worker[w] \in WorkerState
      BY <1>9, InHand DEF Open
    <2>2. \A s, x : worker' = [worker EXCEPT ![w] = [worker[w] EXCEPT !.at = s, !.run = x]] =>
             worker'[w].at = s
      BY <2>1 DEF WorkerState
    <2>3. Proceed(w) => worker'[w].at = After
      BY <2>1, Targets
    <2>4. \/ Proceed(w)
          \/ \E x : \E s \in {"inspect", "execute"} :
                worker' = [worker EXCEPT ![w] = [worker[w] EXCEPT !.at = s, !.run = x]]
      BY <1>9, Zenon DEF Open, Proceed
    <2> QED BY <1>9, <2>1, <2>2, <2>3, <2>4 DEF Paths, Leads
  <1>10. CASE Execute(w)
    <2>1. worker[w].at = "execute" /\ worker \in [Workers -> Memory] /\ worker[w] \in WorkerState
      BY <1>10, InHand DEF Execute
    <2>2. \/ Proceed(w) \/ Go(w, "pend")
          \/ \E x : worker' = [worker EXCEPT ![w] = [worker[w] EXCEPT !.at = "decide", !.what = x]]
      BY <1>10, Zenon DEF Execute, Proceed, Go
    <2>3. \A x : worker' = [worker EXCEPT ![w] = [worker[w] EXCEPT !.at = "decide", !.what = x]]
                => worker'[w].at = "decide"
      BY <2>1 DEF WorkerState
    <2>4. /\ Proceed(w) => worker'[w].at = After
          /\ Go(w, "pend") => worker'[w].at = "pend"
      BY <2>1, Targets
    <2> QED BY <1>10, <2>1, <2>2, <2>3, <2>4 DEF Paths, Leads
  <1>11. CASE Inspect(w)
    <2>1. /\ worker[w].at = "inspect" /\ worker[w].job = "precheck"
          /\ worker \in [Workers -> Memory] /\ worker[w] \in WorkerState
      BY <1>11, InHand DEF Inspect, FitsAt
    <2>2. \/ Go(w, "close_precheck") \/ Raise(w, FALSE)
          \/ \E x : worker' = [worker EXCEPT ![w] = [worker[w] EXCEPT !.at = "decide", !.what = x]]
      BY <1>11 DEF Inspect
    <2>3. \A x : worker' = [worker EXCEPT ![w] = [worker[w] EXCEPT !.at = "decide", !.what = x]]
                => worker'[w].at = "decide"
      BY <2>1 DEF WorkerState
    <2>4. /\ Go(w, "close_precheck") => worker'[w].at = "close_precheck"
          /\ ~Raise(w, FALSE)
      BY <2>1, Targets
    <2> QED BY <1>11, <2>1, <2>2, <2>3, <2>4 DEF Paths, Leads
  <1>12. CASE Pend(w)
    <2>1. worker[w].at = "pend" /\ worker \in [Workers -> Memory] /\ worker[w] \in WorkerState
      BY <1>12, InHand DEF Pend
    <2>2. \/ Raise(w, TRUE)
          \/ \E x : worker' = [worker EXCEPT ![w] = [worker[w] EXCEPT !.at = "announce", !.what = x]]
      BY <1>12 DEF Pend
    <2>3. \A x : worker' = [worker EXCEPT ![w] = [worker[w] EXCEPT !.at = "announce", !.what = x]]
                => worker'[w].at = "announce"
      BY <2>1 DEF WorkerState
    <2>4. ~Raise(w, TRUE)
      BY <2>1, Targets
    <2> QED BY <1>12, <2>1, <2>2, <2>3, <2>4 DEF Paths, Leads
  <1>13. CASE Evaluate(w) \/ OpenRoute(w)
    <2>1. worker[w].at \in {"evaluate", "open_route"} /\ worker[w].job = "route"
      BY <1>13, InHand DEF Evaluate, OpenRoute, FitsAt
    <2> QED BY <1>13, <2>1, RouteMoves DEF Paths, Leads, Onward, Evaluate, OpenRoute
  <1>14. CASE ReadRuns(w) \/ ReadJobs(w)
    BY <1>14, ReadMoves DEF Paths, Leads, Onward, ReadRuns, ReadJobs
  <1>15. CASE Acting(w)
    <2>1. PICK s \in Required : SkipStage(w, s) \/ DegradeStage(w, s) \/ QueueStage(w, s)
      BY <1>15 DEF Acting
    <2>2. worker[w].at = "act" /\ worker \in [Workers -> Memory] /\ worker[w] \in WorkerState
      BY <2>1, InHand DEF SkipStage, DegradeStage, QueueStage
    <2>3. ~Raise(w, TRUE) /\ ~Raise(w, FALSE)
      BY <2>2, Targets
    <2>4. \E x : worker' = [worker EXCEPT ![w] = [worker[w] EXCEPT !.units = x]]
      BY <2>1, <2>3 DEF SkipStage, DegradeStage, QueueStage, Synthesize
    <2>5. worker'[w].at = "act"
      BY <2>2, <2>4 DEF WorkerState
    <2> QED BY <1>15, <2>2, <2>5 DEF Paths, Leads
  <1> QED
    <2>1. \/ \E id \in JobIds : ClaimJob(w, id)
          \/ Pause(w) \/ Crash(w) \/ Outage(w) \/ CompleteJob(w) \/ FailJob(w) \/ RecordFailure(w)
          \/ StageStep(w) \/ ReconcileStep(w)
      BY Zenon DEF Works, WorkerStep
    <2>2. CASE StageStep(w)
      BY <2>2, <1>6, <1>7, <1>8, <1>9, <1>10, <1>11, <1>12, <1>13, Zenon DEF StageStep
    <2>3. CASE ReconcileStep(w)
      BY <2>3, <1>6, <1>14, <1>15, Zenon DEF ReconcileStep, Acting
    <2> QED BY <2>1, <2>2, <2>3, <1>1, <1>2, <1>3, <1>4, <1>5, Zenon

-----------------------------------------------------------------------------
(* What a step does to a job's row.                                        *)
RowMoves(w, id) ==
    \/ jobs'[id].status = jobs[id].status /\ jobs'[id].attempts = jobs[id].attempts
    \/ /\ ClaimJob(w, id)
       /\ jobs[id].status \in {"queued", "running"} /\ jobs'[id].status = "running"
       /\ jobs'[id].attempts = jobs[id].attempts + 1
    \/ /\ CompleteJob(w) \/ FailJob(w)
       /\ worker[w].job = id
       /\ jobs'[id].status = "succeeded" => CompleteJob(w)
       /\ jobs[id].status = "running" /\ jobs'[id].status \in {"succeeded", "queued", "failed"}
       /\ jobs'[id].attempts = jobs[id].attempts
    \/ /\ StageStep(w) \/ ReconcileStep(w)
       /\ jobs[id].status = "absent" /\ jobs'[id] = NewJob /\ id # "precheck"

LEMMA RowsMove ==
    ASSUME TInv, NEW w \in Workers, Works(w), NEW id \in JobIds
    PROVE  RowMoves(w, id)
  <1>1. jobs \in [JobIds -> Job] /\ jobs[id] \in Job
    BY DEF TInv, TablesOK
  <1>2. CASE \E k \in JobIds : ClaimJob(w, k)
    <2>1. PICK k \in JobIds : ClaimJob(w, k)
      BY <1>2
    <2>2. CASE k # id
      BY <2>1, <2>2, ClaimMoves DEF RowMoves
    <2>3. CASE k = id
      <3>1. jobs' = [jobs EXCEPT ![id] = [jobs[id] EXCEPT !.status = "running", !.owner = w,
                                            !.lapsed = FALSE,
                                            !.attempts = jobs[id].attempts + 1]]
        BY <2>1, <2>3, Zenon DEF ClaimJob
      <3>2. jobs'[id].status = "running" /\ jobs'[id].attempts = jobs[id].attempts + 1
        BY <3>1, <1>1 DEF Job
      <3> QED BY <2>1, <2>3, <3>2 DEF RowMoves, ClaimJob
    <2> QED BY <2>2, <2>3
  <1>3. CASE Pause(w) \/ Crash(w)
    <2>1. worker[w].job \in JobIds
      BY <1>3, InHand DEF Pause, Crash, OwnsJob
    <2>2. \/ jobs' = jobs
          \/ jobs' = [jobs EXCEPT ![worker[w].job] = [jobs[worker[w].job] EXCEPT !.lapsed = TRUE]]
      BY <1>3 DEF Pause, Crash
    <2>3. jobs[worker[w].job] \in Job
      BY <1>1, <2>1
    <2>4. /\ [jobs[worker[w].job] EXCEPT !.lapsed = TRUE].status = jobs[worker[w].job].status
          /\ [jobs[worker[w].job] EXCEPT !.lapsed = TRUE].attempts = jobs[worker[w].job].attempts
      BY <2>3 DEF Job
    <2> QED BY <1>1, <2>1, <2>2, <2>4 DEF RowMoves
  <1>4. CASE CompleteJob(w) \/ FailJob(w)
    <2>1. CASE id # worker[w].job
      BY <1>4, <2>1, EndMoves DEF RowMoves
    <2>2. CASE id = worker[w].job /\ jobs' = jobs
      BY <2>2 DEF RowMoves
    <2>3. CASE id = worker[w].job /\ jobs' # jobs
      <3>1. OwnsJob(w) /\ \E s \in {"succeeded", "queued", "failed"} :
               /\ s = "succeeded" => CompleteJob(w)
               /\ jobs' = [jobs EXCEPT ![id] = [jobs[id] EXCEPT !.status = s, !.owner = None,
                                                               !.lapsed = FALSE]]
        <4>1. CASE CompleteJob(w)
          BY <4>1, <2>3 DEF CompleteJob
        <4>2. CASE FailJob(w)
          BY <4>2, <2>3 DEF FailJob
        <4> QED BY <1>4, <4>1, <4>2
      <3>2. PICK s \in {"succeeded", "queued", "failed"} :
               /\ s = "succeeded" => CompleteJob(w)
               /\ jobs' = [jobs EXCEPT ![id] = [jobs[id] EXCEPT !.status = s, !.owner = None,
                                                               !.lapsed = FALSE]]
        BY <3>1
      <3>3. jobs'[id].status = s /\ jobs'[id].attempts = jobs[id].attempts
        BY <3>2, <1>1 DEF Job
      <3>4. jobs[id].status = "running"
        BY <3>1, <2>3 DEF OwnsJob
      <3> QED BY <1>4, <2>3, <3>2, <3>3, <3>4 DEF RowMoves
    <2> QED BY <2>1, <2>2, <2>3
  <1>5. CASE Outage(w) \/ RecordFailure(w)
    <2>1. jobs' = jobs
      BY <1>5 DEF Outage, RecordFailure
    <2> QED BY <2>1 DEF RowMoves
  <1>6. CASE StageStep(w) \/ ReconcileStep(w)
    <2>1. CASE jobs'[id] = jobs[id]
      BY <2>1 DEF RowMoves
    <2>2. CASE jobs'[id] # jobs[id]
      <3>1. jobs[id].status = "absent" /\ jobs'[id] = NewJob
        BY <1>6, <2>2, OnlyNewJobs
      <3>2. id # "precheck"
        <4>1. \/ jobs' = jobs
              \/ \E k \in {"static", "static_again", "route"} \cup Required : Enqueue(k)
          <5>1. CASE StageStep(w)
            BY <5>1 DEF StageStep, Recover, Load, Recovered, Admit, Open, Inspect, ClosePrecheck,
               StartScanning, EnqueueStatic, Execute, Decide, Pend, Announce, Evaluate, OpenRoute,
               ApplyRoute, Conflict, CloseRoute, Cover
          <5>2. CASE ReconcileStep(w)
            BY <5>2 DEF ReconcileStep, ReadArtifact, ReadRuns, ReadJobs, SkipStage, DegradeStage,
               Synthesize, QueueStage, QueueRoute, Wait
          <5> QED BY <1>6, <5>1, <5>2
        <4>2. PICK k \in {"static", "static_again", "route"} \cup Required : Enqueue(k)
          BY <2>2, <4>1
        <4>3. k \in JobIds /\ k # "precheck"
          BY Vocabulary
        <4>4. id = k
          BY <1>1, <2>2, <4>2, <4>3 DEF Enqueue
        <4> QED BY <4>3, <4>4
      <3> QED BY <1>6, <3>1, <3>2 DEF RowMoves
    <2> QED BY <2>1, <2>2
  <1> QED BY <1>2, <1>3, <1>4, <1>5, <1>6 DEF Works, WorkerStep

(* Attempts add up.                                                        *)
RowsFit ==
    \A id \in JobIds : /\ jobs[id].status = "absent" => jobs[id].attempts = 0
                       /\ jobs[id].status = "cancelled" => decision = "manual_approve"

LEMMA AttemptsGrow ==
    ASSUME TInv, RowsFit, NEW w \in Workers, Works(w)
    PROVE  \A id \in JobIds : jobs'[id].attempts \in Nat /\ jobs[id].attempts <= jobs'[id].attempts
  <1> TAKE id \in JobIds
  <1>1. jobs[id] \in Job /\ jobs[id].attempts \in Nat
    BY DEF TInv, TablesOK, Job
  <1>2. RowMoves(w, id)
    BY RowsMove
  <1>3. NewJob.attempts = 0
    BY DEF NewJob, NoJob
  <1> QED BY <1>1, <1>2, <1>3 DEF RowMoves, RowsFit

LEMMA TriesGrow ==
    ASSUME TInv, RowsFit, NEW w \in Workers, Works(w), NEW t
    PROVE  Tries(t) \subseteq Tries(t)' /\ (TriedAgain(t) => TriedAgain(t)')
  <1>1. Tries(t) \subseteq Tries(t)'
    <2> SUFFICES ASSUME NEW m \in Tries(t) PROVE m \in Tries(t)'
      OBVIOUS
    <2>1. m \in JobIds \X (1..Attempts) /\ TypeOf(m[1]) = t /\ m[2] <= jobs[m[1]].attempts
      BY DEF Tries
    <2>2. m[1] \in JobIds /\ m[2] \in Nat /\ jobs[m[1]].attempts \in Nat
      BY <2>1 DEF TInv, TablesOK, Job
    <2>3. m[2] <= jobs'[m[1]].attempts
      BY <2>1, <2>2, AttemptsGrow
    <2> QED BY <2>1, <2>3 DEF Tries
  <1> QED BY <1>1 DEF TriedAgain

(* An attempt that has begun is one of the tries.                          *)
LEMMA TriesOf ==
    ASSUME TInv, NEW id \in JobIds, NEW n \in 1..jobs[id].attempts
    PROVE  <<id, n>> \in Tries(TypeOf(id))
  <1>1. jobs[id].attempts \in 0..Attempts
    BY DEF TInv, TablesOK, Job
  <1>2. n \in 1..Attempts
    BY <1>1, ConstantsAssumption
  <1> QED BY <1>2 DEF Tries

LEMMA TriesBegin ==
    ASSUME TInv, NEW t, Tries(t) # {}
    PROVE  \E id \in JobIds : TypeOf(id) = t /\ jobs[id].attempts # 0
  <1>1. PICK m \in Tries(t) : TRUE
    OBVIOUS
  <1>2. /\ m[1] \in JobIds /\ m[2] \in 1..Attempts /\ TypeOf(m[1]) = t
        /\ m[2] <= jobs[m[1]].attempts
    BY <1>1 DEF Tries
  <1> QED BY <1>2

-----------------------------------------------------------------------------
(* What a step does to a stage's runs.                                     *)
Added(t, r) ==
    /\ DOMAIN runs[t] \subseteq DOMAIN runs'[t]
    /\ \A i \in DOMAIN runs[t] : runs'[t][i] = runs[t][i]
    /\ \A i \in DOMAIN runs'[t] \ DOMAIN runs[t] : i = Len(runs[t]) + 1 /\ runs'[t][i] = r
    /\ Len(runs[t]) + 1 \in DOMAIN runs'[t] \ DOMAIN runs[t]

Rewritten(t) ==
    /\ DOMAIN runs'[t] = DOMAIN runs[t]
    /\ \A i \in DOMAIN runs[t] : runs'[t][i].reason = runs[t][i].reason

FailedOpen(t) ==
    /\ Rewritten(t)
    /\ \A i \in DOMAIN runs[t] :
          \/ runs'[t][i] = runs[t][i]
          \/ runs[t][i].state = "running" /\ runs'[t][i].state = "failed"

Written(w, t) ==
    /\ Rewritten(t)
    /\ \A i \in DOMAIN runs[t] :
          \/ runs'[t][i] = runs[t][i]
          \/ i = worker[w].run[2]
    /\ \A i \in DOMAIN runs[t] :
          worker[w].run[1] = gen /\ i = worker[w].run[2] /\ runs[t][i].state # "cancelled" =>
             runs'[t][i].state # "running"

Skipped == {r \in Run : r.state = "skipped" /\ r.reason \notin {"none", "stage_tool_unavailable"}}
Degraded == [state |-> "degraded", reason |-> "stage_tool_unavailable"]

RunMoves(w, t) ==
    \/ runs'[t] = runs[t]
    \/ Open(w) /\ Type(w) = t /\ Added(t, NewRun)
    \/ SkipStage(w, t) /\ \E r \in Skipped : Added(t, r)
    \/ DegradeStage(w, t) /\ Added(t, Degraded)
    \/ worker[w].at \in {"recover", "record"} /\ Type(w) = t /\ FailedOpen(t)
    \/ Execute(w) /\ Type(w) = t /\ Written(w, t)

LEMMA RunWrites ==
    ASSUME TInv, NEW t \in Required
    PROVE  /\ \A r \in Run : AppendRun(t, r) => Added(t, r)
           /\ FailOpenRuns(t) => FailedOpen(t)
           /\ \A u, r : u # t /\ AppendRun(u, r) => runs'[t] = runs[t]
           /\ \A u : u # t /\ FailOpenRuns(u) => runs'[t] = runs[t]
           /\ \A w \in Workers : \A s : Type(w) # t /\ CompleteRun(w, s) => runs'[t] = runs[t]
           /\ \A w \in Workers, s \in RunStates \ {"running"} :
                 Type(w) = t /\ CompleteRun(w, s) => Written(w, t)
  <1>1. DOMAIN runs = Types /\ t \in Types /\ runs[t] \in Seq(Run)
    BY Vocabulary DEF TInv, TablesOK, RunsOK
  <1>2. ASSUME NEW r \in Run, AppendRun(t, r)
        PROVE  Added(t, r)
    <2> DEFINE q == runs[t]
    <2>1. runs' = [runs EXCEPT ![t] = Append(q, r)]
      BY <1>2 DEF AppendRun
    <2>2. runs'[t] = Append(q, r) /\ q \in Seq(Run)
      BY <2>1, <1>1
    <2>3. /\ DOMAIN Append(q, r) = 1..(Len(q) + 1) /\ DOMAIN q = 1..Len(q) /\ Len(q) \in Nat
          /\ \A i \in 1..Len(q) : Append(q, r)[i] = q[i]
          /\ Append(q, r)[Len(q) + 1] = r
      BY <2>2
    <2> HIDE DEF q
    <2>4. \A i \in (1..(Len(q) + 1)) \ (1..Len(q)) : i = Len(q) + 1
      BY <2>3
    <2> QED BY <2>2, <2>3, <2>4 DEF Added, q
  <1>3. ASSUME FailOpenRuns(t)
        PROVE  FailedOpen(t)
    <2> DEFINE q == [i \in DOMAIN runs[t] |-> IF runs[t][i].state = "running"
                                              THEN [runs[t][i] EXCEPT !.state = "failed"]
                                              ELSE runs[t][i]]
    <2>1. runs' = [runs EXCEPT ![t] = q]
      BY <1>3 DEF FailOpenRuns
    <2>2. \A i \in DOMAIN runs[t] : runs[t][i] \in Run
      BY <1>1
    <2>3. \A r \in Run : /\ [r EXCEPT !.state = "failed"].reason = r.reason
                         /\ [r EXCEPT !.state = "failed"].state = "failed"
      BY DEF Run
    <2>4. runs'[t] = q /\ DOMAIN q = DOMAIN runs[t]
      BY <2>1, <1>1
    <2>5. \A i \in DOMAIN runs[t] :
             /\ q[i].reason = runs[t][i].reason
             /\ \/ q[i] = runs[t][i]
                \/ runs[t][i].state = "running" /\ q[i].state = "failed"
      BY <2>2, <2>3
    <2> HIDE DEF q
    <2> QED BY <2>4, <2>5 DEF FailedOpen, Rewritten
  <1>4. \A u, r : u # t /\ AppendRun(u, r) => runs'[t] = runs[t]
    BY <1>1 DEF AppendRun
  <1>5. \A u : u # t /\ FailOpenRuns(u) => runs'[t] = runs[t]
    BY <1>1 DEF FailOpenRuns
  <1>6. \A w \in Workers : \A s : Type(w) # t /\ CompleteRun(w, s) => runs'[t] = runs[t]
    BY <1>1 DEF CompleteRun
  <1>7. ASSUME NEW w \in Workers, NEW s \in RunStates \ {"running"}, Type(w) = t, CompleteRun(w, s)
        PROVE  Written(w, t)
    <2> DEFINE k == worker[w].run[2]
               q == [runs[t] EXCEPT ![k] = [runs[t][k] EXCEPT !.state = s]]
    <2>1. runs' = IF worker[w].run[1] = gen /\ runs[t][k].state # "cancelled"
                  THEN [runs EXCEPT ![t] = q] ELSE runs
      BY <1>7 DEF CompleteRun
    <2>2. \A i \in DOMAIN runs[t] : runs[t][i] \in Run
      BY <1>1
    <2>3. \A r \in Run : /\ [r EXCEPT !.state = s].reason = r.reason
                         /\ [r EXCEPT !.state = s].state = s
      BY DEF Run
    <2>4. DOMAIN q = DOMAIN runs[t]
      BY <1>1
    <2>5. \A i \in DOMAIN runs[t] :
             /\ q[i].reason = runs[t][i].reason
             /\ q[i] = runs[t][i] \/ i = k
             /\ i = k => q[i].state # "running"
      BY <1>1, <2>2, <2>3
    <2>6. runs'[t] = IF worker[w].run[1] = gen /\ runs[t][k].state # "cancelled" THEN q ELSE runs[t]
      BY <2>1, <1>1
    <2> HIDE DEF q
    <2> QED BY <2>4, <2>5, <2>6 DEF Written, Rewritten
  <1> QED BY <1>2, <1>3, <1>4, <1>5, <1>6, <1>7

LEMMA RunsMove ==
    ASSUME TInv, NEW w \in Workers, Works(w), NEW t \in Required
    PROVE  RunMoves(w, t)
  <1>1. CASE \/ \E id \in JobIds : ClaimJob(w, id)
             \/ Pause(w) \/ Crash(w) \/ Outage(w) \/ Load(w) \/ Recovered(w)
             \/ Admit(w) \/ StartScanning(w) \/ EnqueueStatic(w) \/ Decide(w) \/ Pend(w)
             \/ Announce(w) \/ Evaluate(w) \/ ApplyRoute(w) \/ Cover(w) \/ ReadArtifact(w)
             \/ ReadRuns(w) \/ ReadJobs(w) \/ (\E s \in Required : QueueStage(w, s))
             \/ QueueRoute(w) \/ Wait(w) \/ CompleteJob(w) \/ FailJob(w)
    <2>1. runs' = runs
      BY <1>1 DEF ClaimJob, Pause, Crash, Outage, Load, Recovered, Admit, StartScanning,
         EnqueueStatic, Decide, Pend, Announce, Evaluate, ApplyRoute, Cover, ReadArtifact,
         ReadRuns, ReadJobs, QueueStage, QueueRoute, Wait, CompleteJob, FailJob
    <2> QED BY <2>1 DEF RunMoves
  <1>2. CASE Recover(w) \/ RecordFailure(w)
    <2>1. runs' = runs \/ FailOpenRuns(Type(w))
      BY <1>2 DEF Recover, RecordFailure
    <2>2. worker[w].at \in {"recover", "record"}
      BY <1>2 DEF Recover, RecordFailure
    <2>3. CASE Type(w) = t
      BY <2>1, <2>2, <2>3, RunWrites DEF RunMoves
    <2>4. CASE Type(w) # t
      BY <2>1, <2>4, RunWrites DEF RunMoves
    <2> QED BY <2>3, <2>4
  <1>3. CASE Inspect(w) \/ ClosePrecheck(w) \/ Conflict(w) \/ CloseRoute(w)
    <2>1. worker[w].job \in {"precheck", "route"}
      BY <1>3, InHand DEF Inspect, ClosePrecheck, Conflict, CloseRoute, FitsAt
    <2>2. Type(w) # t
      BY <2>1, Vocabulary DEF Type, TypeOf
    <2>3. runs' = runs \/ \E s : CompleteRun(w, s)
      BY <1>3 DEF Inspect, ClosePrecheck, Conflict, CloseRoute
    <2> QED BY <2>2, <2>3, RunWrites DEF RunMoves
  <1>4. CASE Open(w)
    <2>1. runs' = runs \/ AppendRun(Type(w), NewRun)
      BY <1>4, Zenon DEF Open
    <2>2. CASE Type(w) = t
      BY <1>4, <2>1, <2>2, NewRuns, RunWrites DEF RunMoves
    <2>3. CASE Type(w) # t
      BY <2>1, <2>3, RunWrites DEF RunMoves
    <2> QED BY <2>2, <2>3
  <1>5. CASE OpenRoute(w)
    <2>1. AppendRun("route", NewRun) /\ t # "route"
      BY <1>5, Vocabulary DEF OpenRoute
    <2> QED BY <2>1, RunWrites DEF RunMoves
  <1>6. CASE Execute(w)
    <2>1. PICK s \in Results[Type(w)] : CompleteRun(w, s)
      BY <1>6 DEF Execute
    <2>2. CASE Type(w) = t
      <3>1. s \in RunStates /\ s # "running"
        BY <2>2, ResultsAreStates, Vocabulary DEF Results, StaticResults, DiffResults, GraphResults,
           ClamAvResults, YaraResults, RuntimeResults, DependencyResults, CategoryResults,
           PackageResults, FileResults, SummaryResults, OnToolFailure, Phase
      <3> QED BY <1>6, <2>1, <2>2, <3>1, RunWrites DEF RunMoves
    <2>3. CASE Type(w) # t
      BY <2>1, <2>3, RunWrites DEF RunMoves
    <2> QED BY <2>2, <2>3
  <1>7. CASE \E s \in Required : SkipStage(w, s)
    <2>1. PICK s \in Required : SkipStage(w, s)
      BY <1>7
    <2>2. PICK reason : reason = UpstreamReason(UpstreamStates(w, s))
      OBVIOUS
    <2>3. reason \in Reasons \ {"none", "stage_tool_unavailable"}
      BY <2>2 DEF UpstreamReason, Reasons
    <2>4. [state |-> "skipped", reason |-> reason] \in Skipped
      BY <2>3, NewRuns DEF Skipped, RunStates
    <2>5. runs' = runs \/ AppendRun(s, [state |-> "skipped", reason |-> reason])
      BY <2>1, <2>2 DEF SkipStage, Synthesize
    <2>6. CASE s = t
      BY <2>1, <2>4, <2>5, <2>6, RunWrites DEF RunMoves, Skipped
    <2>7. CASE s # t
      BY <2>5, <2>7, RunWrites DEF RunMoves
    <2> QED BY <2>6, <2>7
  <1>8. CASE \E s \in Required : DegradeStage(w, s)
    <2>1. PICK s \in Required : DegradeStage(w, s)
      BY <1>8
    <2>2. runs' = runs \/ AppendRun(s, Degraded)
      BY <2>1 DEF DegradeStage, Synthesize, Degraded
    <2>3. Degraded \in Run
      BY NewRuns DEF Degraded, RunStates, Reasons
    <2>4. CASE s = t
      BY <2>1, <2>2, <2>3, <2>4, RunWrites DEF RunMoves
    <2>5. CASE s # t
      BY <2>2, <2>5, RunWrites DEF RunMoves
    <2> QED BY <2>4, <2>5
  <1> QED BY <1>1, <1>2, <1>3, <1>4, <1>5, <1>6, <1>7, <1>8, Zenon
          DEF Works, WorkerStep, StageStep, ReconcileStep

-----------------------------------------------------------------------------
(* Why a stage is not skipped without a cause.                             *)

Calm == status \in {"scanning", "pending_review"} /\ ~TriedAgain("precheck")
Clean(t) == ~WentWrong(t)
Sound(s) == s \in Ready /\ \A u \in Upstream(s) : Clean(u)

Before == {"recover", "load", "recovered", "open"}
Early  == Before \cup {"admit", "inspect", "close_precheck", "start_scanning", "enqueue_static"}
Late   == {"decide", "pend", "announce", "read_artifact", "read_runs", "read_jobs", "act", "done"}
Reading     == {"read_jobs", "act"}
Reconciling == {"read_artifact", "read_runs", "read_jobs", "act"}

(* Every attempt at a job has its own number.                              *)
Tried(w) ==
    worker[w].at # "idle" => worker[w].tries \in 1..jobs[worker[w].job].attempts
TriedApart(w, v) ==
    w # v /\ worker[w].at # "idle" /\ worker[v].at # "idle" /\ worker[w].job = worker[v].job =>
        worker[w].tries # worker[v].tries

(* Until precheck is over there is nothing else.                           *)
NotStarted ==
    /\ ~TriedAgain("precheck")
    /\ \/ jobs["precheck"].status # "absent" /\ jobs["precheck"].attempts = 0
       \/ \E w \in Workers : worker[w].job = "precheck" /\ worker[w].at \in Early
StartFits ==
    NotStarted => /\ \A id \in JobIds \ {"precheck"} : jobs[id].status = "absent"
                  /\ \A s \in Required : DOMAIN runs[s] = {}

(* Where a run comes from.                                                 *)
RunFits(t, run) ==
    /\ run.reason # "none" => run.state \in {"skipped", "degraded"}
    /\ run.reason = "none" => Tries(t) # {}
    /\ run.reason = "stage_tool_unavailable" => t \notin Ready
RunsFit == \A t \in Required : \A i \in DOMAIN runs[t] : RunFits(t, runs[t][i])

RunAtHand(w) ==
    worker[w].at = "execute" =>
        \A t \in Required : Type(w) = t =>
            /\ worker[w].run[1] = gen /\ worker[w].run[2] \in DOMAIN runs[t]
            /\ runs[t][worker[w].run[2]].reason = "none"
            /\ Calm => runs[t][worker[w].run[2]].state = "running" \/ TriedAgain(t)

(* A stage that goes well has one run, and has finished when its worker is *)
(* done with it.                                                           *)
FirstRun(w) ==
    Calm => \A t \in Required : worker[w].at \in Before /\ Type(w) = t /\ Clean(t) =>
                DOMAIN runs[t] = {}
OneRun == Calm => \A t \in Required : Clean(t) => \A i, j \in DOMAIN runs[t] : i = j
Ended(w) ==
    Calm => \A t \in Required : worker[w].at \in Late /\ Type(w) = t /\ Clean(t) => Finishes(t)

Concluded(t) ==
    \/ \E id \in JobIds : TypeOf(id) = t /\ jobs[id].status = "succeeded"
    \/ \E w \in Workers : worker[w].at = "done" /\ Type(w) = t
ConcludedFits == Calm => \A t \in Required : Concluded(t) /\ Clean(t) => Finishes(t)

(* What a reconcile has read.                                              *)
LatestFits(w) ==
    worker[w].at = "read_jobs" =>
        \A t \in Required : worker[w].latest[t] # NoRun =>
            /\ RunFits(t, worker[w].latest[t])
            /\ worker[w].latest[t].reason \notin {"none", "stage_tool_unavailable"} => Skips(t)
            /\ Calm => worker[w].latest[t].state \in {"running"} \cup Counts \/ WentWrong(t)

Lacks(w, t) ==
    \/ worker[w].at = "read_jobs" /\ worker[w].latest[t].state \notin Counts
    \/ worker[w].at = "act" /\ worker[w].units[t] # "completed"
Lacking(w, s) == {u \in Upstream(s) : Lacks(w, u)}

OwnIsRead(w) ==
    Calm => \A t \in Required : worker[w].at \in Reading /\ Type(w) = t /\ Clean(t) => ~Lacks(w, t)

ReadsInOrder(w, v) ==
    Calm => \A s \in Required :
        Sound(s) /\ worker[w].at \in Reading /\ worker[v].at \in Reading =>
            Lacking(w, s) \subseteq Lacking(v, s) \/ Lacking(v, s) \subseteq Lacking(w, s)

Advances(w) == worker[w].at \in Reconciling => advanced

(* Of what a reconcile has not seen finished, something is still to come.  *)
SomeoneComes(w) ==
    Calm => \A s \in Required :
        /\ Sound(s) /\ worker[w].at \in Reading /\ jobs[s].status = "absent" /\ Lacking(w, s) # {}
        => \E u \in Lacking(w, s) : ~Concluded(u)
PendingFits(w) ==
    Calm => \A s \in Required :
        Sound(s) /\ s # "static" /\ worker[w].at = "act" /\ jobs[s].status = "absent" =>
            worker[w].units[s] = "pending"
PendingWaits(w) ==
    Calm => \A s \in Required :
        Sound(s) /\ worker[w].at = "act" /\ worker[w].units[s] = "pending" =>
            Lacking(w, s) = {} \/ \E u \in Upstream(s) : worker[w].units[u] \notin Terminal

(* What holds in any review, and what in one that goes well.               *)
Rooted ==
    /\ RowsFit /\ StartFits /\ RunsFit
    /\ \A w \in Workers : Tried(w) /\ Advances(w)
    /\ \A w, v \in Workers : TriedApart(w, v)
Careful ==
    /\ OneRun /\ ConcludedFits /\ SkipHasCause
    /\ \A w \in Workers : /\ RunAtHand(w) /\ FirstRun(w) /\ Ended(w) /\ LatestFits(w)
                          /\ OwnIsRead(w) /\ SomeoneComes(w) /\ PendingFits(w) /\ PendingWaits(w)
    /\ \A w, v \in Workers : ReadsInOrder(w, v)

(* Two workers at the jobs of one type are two attempts.                   *)
LEMMA TwoOfAType ==
    ASSUME TInv, Rooted, NEW w \in Workers, NEW v \in Workers, w # v,
           worker[w].at # "idle", worker[v].at # "idle", Type(w) = Type(v)
    PROVE  TriedAgain(Type(w))
  <1>1. /\ worker[w].job \in JobIds /\ worker[v].job \in JobIds
        /\ worker[w].tries \in 1..jobs[worker[w].job].attempts
        /\ worker[v].tries \in 1..jobs[worker[v].job].attempts
    BY InHand DEF Rooted, Tried
  <1>2. /\ <<worker[w].job, worker[w].tries>> \in Tries(Type(w))
        /\ <<worker[v].job, worker[v].tries>> \in Tries(Type(w))
    BY <1>1, TriesOf DEF Type
  <1>3. worker[w].job # worker[v].job \/ worker[w].tries # worker[v].tries
    BY DEF Rooted, TriedApart
  <1>4. <<worker[w].job, worker[w].tries>> # <<worker[v].job, worker[v].tries>>
    BY <1>3
  <1> QED BY <1>2, <1>4 DEF TriedAgain

(* Until precheck is over its worker is alone.                             *)
LEMMA OnlyPrecheck ==
    ASSUME TInv, Rooted, \A v \in Workers : HasJob(v), NotStarted,
           NEW w \in Workers, worker[w].at # "idle"
    PROVE  /\ worker[w].job = "precheck" /\ worker[w].at \in Early
           /\ jobs["precheck"].attempts # 0
           /\ \A v \in Workers \ {w} : worker[v].at = "idle"
  <1>1. \A v \in Workers : worker[v].at # "idle" =>
           worker[v].job = "precheck" /\ jobs["precheck"].attempts # 0
    <2> TAKE v \in Workers
    <2> HAVE worker[v].at # "idle"
    <2>1. worker[v].job \in JobIds /\ jobs[worker[v].job].status # "absent"
      BY InHand DEF HasJob
    <2>2. worker[v].job = "precheck"
      BY <2>1 DEF Rooted, StartFits
    <2>3. worker[v].tries \in 1..jobs["precheck"].attempts /\ jobs["precheck"].attempts \in Nat
      BY <2>1, <2>2 DEF Rooted, Tried, TInv, TablesOK, Job
    <2> QED BY <2>2, <2>3
  <1>2. ASSUME NEW v \in Workers, NEW u \in Workers, u # v, worker[v].at # "idle",
               worker[u].at # "idle"
        PROVE  FALSE
    <2>1. Type(u) = "precheck" /\ Type(v) = "precheck"
      BY <1>1, <1>2 DEF Type, TypeOf
    <2>2. TriedAgain("precheck")
      BY <1>2, <2>1, TwoOfAType
    <2> QED BY <2>2 DEF NotStarted
  <1>3. \A v \in Workers \ {w} : worker[v].at = "idle"
    BY <1>2
  <1>4. worker[w].at \in Early
    <2>1. PICK v \in Workers : worker[v].job = "precheck" /\ worker[v].at \in Early
      BY <1>1 DEF NotStarted
    <2>2. v = w
      BY <2>1, <1>3 DEF Early, Before
    <2> QED BY <2>1, <2>2
  <1> QED BY <1>1, <1>3, <1>4

(* What has gone wrong stays so.                                           *)
LEMMA SkipsStay ==
    ASSUME TInv, NEW w \in Workers, Works(w), NEW t \in Required, Skips(t)
    PROVE  Skips(t)'
  <1>1. RunMoves(w, t)
    BY RunsMove
  <1>2. PICK i \in DOMAIN runs[t] : runs[t][i].reason \notin {"none", "stage_tool_unavailable"}
    BY DEF Skips
  <1>3. i \in DOMAIN runs'[t] /\ runs'[t][i].reason = runs[t][i].reason
    BY <1>1, <1>2 DEF RunMoves, Added, FailedOpen, Written, Rewritten
  <1> QED BY <1>2, <1>3 DEF Skips

LEMMA WrongStays ==
    ASSUME TInv, Rooted, NEW w \in Workers, Works(w), Calm, RunAtHand(w),
           NEW t \in Required, WentWrong(t)
    PROVE  WentWrong(t)'
  <1>1. RowsFit
    BY DEF Rooted
  <1>2. CASE TriedAgain(t)
    BY <1>1, <1>2, TriesGrow DEF WentWrong
  <1>3. CASE \E id \in JobIds : TypeOf(id) = t /\ jobs[id].status = "failed"
    <2>1. PICK id \in JobIds : TypeOf(id) = t /\ jobs[id].status = "failed"
      BY <1>3
    <2>2. RowMoves(w, id)
      BY RowsMove
    <2>3. jobs'[id].status = "failed"
      BY <2>1, <2>2 DEF RowMoves
    <2> QED BY <2>1, <2>3 DEF WentWrong
  <1>4. CASE ~TriedAgain(t) /\
             \E i \in DOMAIN runs[t] : runs[t][i].state \notin {"running", "completed", "partial"}
    <2>1. PICK i \in DOMAIN runs[t] : runs[t][i].state \notin {"running", "completed", "partial"}
      BY <1>4
    <2>2. RunMoves(w, t)
      BY RunsMove
    <2>3. Execute(w) /\ Type(w) = t => i # worker[w].run[2]
      BY <1>4, <2>1 DEF RunAtHand, Execute
    <2>4. i \in DOMAIN runs'[t] /\ runs'[t][i].state \notin {"running", "completed", "partial"}
      BY <2>1, <2>2, <2>3 DEF RunMoves, Added, FailedOpen, Written, Rewritten
    <2> QED BY <2>4 DEF WentWrong
  <1> QED BY <1>2, <1>3, <1>4 DEF WentWrong

LEMMA SoundBefore ==
    ASSUME TInv, Rooted, NEW w \in Workers, Works(w), Calm, RunAtHand(w)
    PROVE  /\ \A t \in Required : Clean(t)' => Clean(t)
           /\ \A s : Sound(s)' => Sound(s)
  <1>1. \A t \in Required : Clean(t)' => Clean(t)
    BY WrongStays DEF Clean
  <1> QED BY <1>1 DEF Sound, Upstream

-----------------------------------------------------------------------------
(* A worker's step leaves the roots as they are.                           *)
LEMMA WorkerMoves ==
    ASSUME TInv, NEW w \in Workers, Works(w), worker'[w].at # "idle"
    PROVE  \/ \E id \in JobIds : ClaimJob(w, id) /\ worker'[w].job = id
                                  /\ worker[w].at = "idle" /\ worker'[w].tries = jobs'[id].attempts
                                  /\ jobs'[id].attempts = jobs[id].attempts + 1
           \/ /\ worker[w].at # "idle" /\ worker'[w].job = worker[w].job
              /\ worker'[w].tries = worker[w].tries
  <1>1. CASE \E id \in JobIds : ClaimJob(w, id)
    <2>1. PICK id \in JobIds : ClaimJob(w, id)
      BY <1>1
    <2>2. worker \in [Workers -> Memory] /\ jobs \in [JobIds -> Job] /\ jobs[id] \in Job
      BY DEF TInv, TablesOK
    <2>3. worker'[w].job = id /\ worker'[w].tries = jobs'[id].attempts /\ worker[w].at = "idle"
      BY <2>1, <2>2 DEF ClaimJob, Idle
    <2>4. RowMoves(w, id)
      BY RowsMove
    <2>5. jobs'[id].attempts = jobs[id].attempts + 1
      <3>1. jobs' = [jobs EXCEPT ![id] = [jobs[id] EXCEPT !.status = "running", !.owner = w,
                                            !.lapsed = FALSE,
                                            !.attempts = jobs[id].attempts + 1]]
        BY <2>1, Zenon DEF ClaimJob
      <3> QED BY <3>1, <2>2 DEF Job
    <2> QED BY <2>1, <2>3, <2>5
  <1>2. CASE Outage(w) \/ StageStep(w) \/ ReconcileStep(w) \/ RecordFailure(w)
    BY <1>2, MiddleMoves
  <1>3. CASE Crash(w) \/ CompleteJob(w) \/ FailJob(w)
    BY <1>3, EndMoves
  <1>4. CASE Pause(w)
    <2>1. worker' = worker /\ worker[w].at # "idle"
      BY <1>4 DEF Pause, OwnsJob
    <2> QED BY <2>1
  <1> QED BY <1>1, <1>2, <1>3, <1>4 DEF Works, WorkerStep

LEMMA TriesStay ==
    ASSUME TInv, Rooted, NEW w \in Workers, Works(w)
    PROVE  /\ \A v \in Workers : Tried(v)'
           /\ \A u, v \in Workers : TriedApart(u, v)'
  <1>1. /\ \A v \in Workers : Tried(v)
        /\ \A u, v \in Workers : TriedApart(u, v)
        /\ RowsFit
    BY DEF Rooted
  <1>2. \A v \in Workers \ {w} : worker'[v] = worker[v]
    BY OthersStay DEF TInv, Works
  <1>3. \A id \in JobIds : /\ jobs'[id].attempts \in Nat /\ jobs[id].attempts \in Nat
                           /\ jobs[id].attempts <= jobs'[id].attempts
    BY <1>1, AttemptsGrow DEF TInv, TablesOK, Job
  <1>4. \A v \in Workers : worker[v].at # "idle" => worker[v].job \in JobIds
    BY InHand
  <1>5. ASSUME NEW v \in Workers \ {w}
        PROVE  Tried(v)'
    BY <1>1, <1>2, <1>3, <1>4 DEF Tried
  <1>6. CASE worker'[w].at = "idle"
    BY <1>1, <1>2, <1>5, <1>6 DEF Tried, TriedApart
  <1>7. CASE worker[w].at # "idle" /\ worker'[w].job = worker[w].job
             /\ worker'[w].tries = worker[w].tries
    <2>1. Tried(w)'
      BY <1>1, <1>3, <1>4, <1>7 DEF Tried
    <2>2. ASSUME NEW u \in Workers, NEW v \in Workers
          PROVE  TriedApart(u, v)'
      BY <1>1, <1>2, <1>7 DEF TriedApart
    <2> QED BY <1>5, <2>1, <2>2
  <1>8. CASE \E id \in JobIds : worker'[w].job = id /\ worker'[w].tries = jobs'[id].attempts
                                  /\ jobs'[id].attempts = jobs[id].attempts + 1
    <2>1. PICK id \in JobIds : worker'[w].job = id /\ worker'[w].tries = jobs'[id].attempts
                                  /\ jobs'[id].attempts = jobs[id].attempts + 1
      BY <1>8
    <2>2. Tried(w)'
      BY <1>3, <2>1 DEF Tried
    <2>3. \A v \in Workers \ {w} : worker[v].at # "idle" /\ worker[v].job = id =>
             worker[v].tries # worker'[w].tries
      BY <1>1, <1>3, <2>1 DEF Tried
    <2>4. ASSUME NEW u \in Workers, NEW v \in Workers
          PROVE  TriedApart(u, v)'
      BY <1>1, <1>2, <2>1, <2>3 DEF TriedApart
    <2> QED BY <1>5, <2>2, <2>4
  <1> QED BY <1>6, <1>7, <1>8, WorkerMoves

LEMMA RowsStayFit ==
    ASSUME IInv, RowsFit, [Next]_vars
    PROVE  RowsFit'
  <1>1. TInv /\ jobs \in [JobIds -> Job]
    BY DEF IInv, TInv, TablesOK
  <1>2. decision = "manual_approve" => decision' = "manual_approve"
    BY ApprovalStands
  <1>3. NewJob.attempts = 0 /\ NewJob.status = "queued" /\ NoJob.attempts = 0 /\ NoJob.status = "absent"
    BY DEF NewJob, NoJob
  <1>4. ASSUME NEW w \in Workers, Works(w)
        PROVE  RowsFit'
    <2> SUFFICES ASSUME NEW id \in JobIds
                 PROVE  /\ jobs'[id].status = "absent" => jobs'[id].attempts = 0
                        /\ jobs'[id].status = "cancelled" => decision' = "manual_approve"
      BY DEF RowsFit
    <2>1. RowMoves(w, id)
      BY <1>1, <1>4, RowsMove
    <2> QED BY <1>2, <1>3, <2>1 DEF RowMoves, RowsFit
  <1>5. CASE ManualApprove
    <2>1. \A j \in Job : [j EXCEPT !.status = "cancelled", !.owner = None,
                                   !.lapsed = FALSE].status = "cancelled"
      BY DEF Job
    <2>2. \A id \in JobIds : jobs'[id] = jobs[id] \/ jobs'[id].status = "cancelled"
      BY <1>1, <1>5, <2>1 DEF ManualApprove
    <2>3. decision' = "manual_approve"
      BY <1>5 DEF ManualApprove
    <2> QED BY <2>2, <2>3 DEF RowsFit
  <1>6. CASE Retry
    <2>1. \A id \in JobIds : jobs'[id] = NewJob \/ jobs'[id] = NoJob
      BY <1>6 DEF Retry
    <2> QED BY <1>3, <2>1 DEF RowsFit
  <1>7. CASE Approve \/ Reject \/ RequestChanges \/ Release \/ UNCHANGED vars
    <2>1. jobs' = jobs
      BY <1>7 DEF Approve, Reject, RequestChanges, Release, vars
    <2> QED BY <1>2, <2>1 DEF RowsFit
  <1> QED BY <1>4, <1>5, <1>6, <1>7 DEF Next, People, Works

LEMMA AdvancesStay ==
    ASSUME TInv, \A v \in Workers : Advances(v), NEW w \in Workers, Works(w)
    PROVE  \A v \in Workers : Advances(v)'
  <1>1. advanced' = advanced
    BY DEF Works, WorkerStep, ClaimJob, StageStep, Recover, Load, Recovered, Admit, Open,
       Inspect, ClosePrecheck, StartScanning, EnqueueStatic, Execute, Decide, Pend, Announce,
       Evaluate, OpenRoute, ApplyRoute, Conflict, CloseRoute, Cover, ReconcileStep,
       ReadArtifact, ReadRuns, ReadJobs, SkipStage, DegradeStage, Synthesize, QueueStage,
       QueueRoute, Wait, CompleteJob, RecordFailure, FailJob, Pause, Crash, Outage
  <1>2. \A v \in Workers \ {w} : worker'[v] = worker[v]
    BY OthersStay DEF TInv, Works
  <1>3. CASE worker'[w].at \in {"idle", "record"}
    BY <1>1, <1>2, <1>3 DEF Advances, Reconciling
  <1>4. CASE worker'[w].at \notin {"idle", "record"}
    <2>1. Paths(w)
      BY <1>4, Path
    <2>2. worker'[w].at \in Reconciling => worker'[w].at = After \/ worker[w].at \in Reconciling
                                              \/ worker' = worker
      BY <2>1 DEF Paths, Leads, Reconciling
    <2> QED BY <1>1, <1>2, <2>2 DEF Advances, After, Reconciling
  <1> QED BY <1>3, <1>4

(* Whoever is at precheck has come from there.                             *)
LEMMA EarlyBefore ==
    ASSUME TInv, NEW w \in Workers, Works(w), worker[w].at # "idle", worker'[w].at \in Early
    PROVE  worker[w].at \in Early
  <1>1. worker'[w].at \notin {"idle", "record"}
    BY DEF Early, Before
  <1>2. Paths(w)
    BY <1>1, Path
  <1>3. After \notin Early
    BY DEF After, Early, Before
  <1> QED BY <1>2, <1>3 DEF Paths, Leads, Early, Before

LEMMA StartStays ==
    ASSUME TInv, Rooted, \A v \in Workers : HasJob(v), NEW w \in Workers, Works(w)
    PROVE  StartFits'
  <1> SUFFICES ASSUME NotStarted'
               PROVE  /\ \A id \in JobIds \ {"precheck"} : jobs'[id].status = "absent"
                      /\ \A s \in Required : DOMAIN runs'[s] = {}
    BY DEF StartFits
  <1>1. RowsFit /\ "precheck" \in JobIds
    BY Vocabulary DEF Rooted
  <1>2. ~TriedAgain("precheck")
    BY <1>1, TriesGrow DEF NotStarted
  <1>3. \A v \in Workers \ {w} : worker'[v] = worker[v]
    BY OthersStay DEF TInv, Works
  <1>4. \A id \in JobIds : /\ jobs'[id].attempts \in Nat /\ jobs[id].attempts \in Nat
                           /\ jobs[id].attempts <= jobs'[id].attempts
    BY <1>1, AttemptsGrow DEF TInv, TablesOK, Job
  <1>5. NotStarted
    <2>1. CASE jobs'["precheck"].status # "absent" /\ jobs'["precheck"].attempts = 0
      <3>1. jobs["precheck"].status # "absent"
        BY <1>1, <2>1, RowsMove DEF RowMoves
      <3> QED BY <1>1, <1>2, <1>4, <2>1, <3>1 DEF NotStarted
    <2>2. CASE \E v \in Workers : v # w /\ worker'[v].job = "precheck" /\ worker'[v].at \in Early
      BY <1>2, <1>3, <2>2 DEF NotStarted
    <2>3. CASE worker'[w].job = "precheck" /\ worker'[w].at \in Early
      <3>0. worker'[w].at # "idle"
        BY <2>3 DEF Early, Before
      <3>1. CASE worker[w].at # "idle" /\ worker'[w].job = worker[w].job
        <4>1. worker[w].at \in Early
          BY <2>3, <3>1, EarlyBefore
        <4> QED BY <1>2, <2>3, <3>1, <4>1 DEF NotStarted
      <3>2. CASE ClaimJob(w, "precheck") /\ jobs'["precheck"].attempts = jobs["precheck"].attempts + 1
        <4>1. jobs["precheck"].attempts = 0
          <5> SUFFICES ASSUME jobs["precheck"].attempts # 0 PROVE FALSE
            OBVIOUS
          <5>1. TInv'
            BY NextTyped DEF Works, Next
          <5>2. 1 \in 1..jobs'["precheck"].attempts /\ 2 \in 1..jobs'["precheck"].attempts
            BY <1>1, <1>4, <3>2
          <5>3. jobs'["precheck"].attempts \in 0..Attempts
            BY <1>1, <5>1 DEF TInv, TablesOK, Job
          <5>4. <<"precheck", 1>> \in Tries("precheck")' /\ <<"precheck", 2>> \in Tries("precheck")'
            BY <1>1, <5>2, <5>3, ConstantsAssumption DEF Tries, TypeOf
          <5> QED BY <5>4 DEF NotStarted, TriedAgain
        <4>2. jobs["precheck"].status # "absent"
          BY <3>2 DEF ClaimJob
        <4> QED BY <1>2, <4>1, <4>2 DEF NotStarted
      <3> QED BY <2>3, <3>0, <3>1, <3>2, WorkerMoves
    <2> QED BY <2>1, <2>2, <2>3 DEF NotStarted
  <1>6. /\ \A id \in JobIds \ {"precheck"} : jobs[id].status = "absent"
        /\ \A s \in Required : DOMAIN runs[s] = {}
    BY <1>5 DEF Rooted, StartFits
  <1>7. worker[w].at # "idle" =>
           /\ worker[w].job = "precheck" /\ worker[w].at \in Early
           /\ jobs["precheck"].attempts # 0
           /\ \A v \in Workers \ {w} : worker[v].at = "idle"
    BY <1>5, OnlyPrecheck
  <1>8. worker[w].at # "idle" => worker'[w].at \in Early
    <2>1. jobs'["precheck"].attempts # 0 \/ worker[w].at = "idle"
      BY <1>1, <1>4, <1>7
    <2> QED BY <1>3, <1>7, <2>1 DEF NotStarted, Early, Before
  <1>9. ASSUME NEW id \in JobIds \ {"precheck"}
        PROVE  jobs'[id].status = "absent"
    <2>1. RowMoves(w, id)
      BY RowsMove
    <2>2. ~(StageStep(w) \/ ReconcileStep(w)) \/ jobs'[id] = jobs[id]
      <3> SUFFICES ASSUME StageStep(w) \/ ReconcileStep(w)
                   PROVE  jobs' = jobs
        OBVIOUS
      <3>1. worker[w].at # "idle"
        BY MiddleMoves
      <3>2. worker[w].at \in Early /\ worker'[w].at \in Early
        BY <3>1, <1>7, <1>8
      <3>3. ~ReconcileStep(w)
        BY <3>2 DEF ReconcileStep, ReadArtifact, ReadRuns, ReadJobs, SkipStage, DegradeStage,
           QueueStage, QueueRoute, Wait, Early, Before
      <3>4. ~EnqueueStatic(w)
        <4> SUFFICES ASSUME EnqueueStatic(w) PROVE FALSE
          OBVIOUS
        <4>1. Proceed(w) \/ Raise(w, TRUE)
          BY DEF EnqueueStatic
        <4>2. worker'[w].at \in {After, "record"}
          BY <3>1, <4>1, Targets
        <4> QED BY <3>2, <4>2 DEF After, Early, Before
      <3> QED BY <3>3, <3>4 DEF StageStep, Recover, Load, Recovered, Admit, Open, Inspect,
              ClosePrecheck, StartScanning, Execute, Decide, Pend, Announce, Evaluate, OpenRoute,
              ApplyRoute, Conflict, CloseRoute, Cover
    <2> QED BY <1>6, <2>1, <2>2 DEF RowMoves
  <1>10. ASSUME NEW s \in Required
         PROVE  DOMAIN runs'[s] = {}
    <2>1. RunMoves(w, s)
      BY RunsMove
    <2>2. worker[w].at # "idle" => Type(w) # s /\ worker[w].at # "act"
      BY <1>7, Vocabulary DEF Type, TypeOf, Early, Before
    <2>3. \/ runs'[s] = runs[s]
          \/ worker[w].at # "idle" /\ (worker[w].at = "act" \/ Type(w) = s)
      BY <2>1 DEF RunMoves, Open, SkipStage, DegradeStage, Execute
    <2> QED BY <1>6, <2>2, <2>3
  <1> QED BY <1>9, <1>10

LEMMA RunsStayFit ==
    ASSUME TInv, Rooted, NEW w \in Workers, Works(w), RunAtHand(w)
    PROVE  RunsFit'
  <1> SUFFICES ASSUME NEW t \in Required, NEW i \in DOMAIN runs'[t]
               PROVE  RunFits(t, runs[t][i])'
    BY DEF RunsFit
  <1>1. Tries(t) \subseteq Tries(t)'
    BY TriesGrow DEF Rooted
  <1>2. \A r : RunFits(t, r) => RunFits(t, r)'
    BY <1>1 DEF RunFits
  <1>3. \A k \in DOMAIN runs[t] : RunFits(t, runs[t][k])
    BY DEF Rooted, RunsFit
  <1>4. RunMoves(w, t)
    BY RunsMove
  <1>5. CASE runs'[t] = runs[t]
    BY <1>2, <1>3, <1>5 DEF RunFits
  <1>6. CASE Open(w) /\ Type(w) = t /\ Added(t, NewRun)
    <2>1. Tries(t) # {}
      <3>1. worker[w].job \in JobIds /\ worker[w].tries \in 1..jobs[worker[w].job].attempts
        BY <1>6, InHand DEF Open, Rooted, Tried
      <3> QED BY <1>6, <3>1, TriesOf DEF Type
    <2>2. RunFits(t, NewRun)
      BY <2>1 DEF RunFits, NewRun
    <2> QED BY <1>2, <1>3, <1>6, <2>2 DEF Added, RunFits
  <1>7. CASE \E r \in Skipped : Added(t, r)
    <2>1. PICK r \in Skipped : Added(t, r)
      BY <1>7
    <2>2. RunFits(t, r)
      BY <2>1 DEF RunFits, Skipped
    <2> QED BY <1>2, <1>3, <2>1, <2>2 DEF Added, RunFits
  <1>8. CASE DegradeStage(w, t) /\ Added(t, Degraded)
    <2>1. RunFits(t, Degraded)
      BY <1>8 DEF RunFits, Degraded, DegradeStage
    <2> QED BY <1>2, <1>3, <1>8, <2>1 DEF Added, RunFits
  <1>9. CASE FailedOpen(t)
    <2>1. i \in DOMAIN runs[t] /\ RunFits(t, runs[t][i])
      BY <1>3, <1>9 DEF FailedOpen, Rewritten
    <2>2. runs'[t][i].reason = runs[t][i].reason
      BY <1>9, <2>1 DEF FailedOpen, Rewritten
    <2>3. runs'[t][i].reason # "none" => runs'[t][i] = runs[t][i]
      BY <1>9, <2>1, <2>2 DEF FailedOpen, RunFits
    <2> QED BY <1>1, <2>1, <2>2, <2>3 DEF RunFits
  <1>10. CASE Execute(w) /\ Type(w) = t /\ Written(w, t)
    <2>1. i \in DOMAIN runs[t] /\ RunFits(t, runs[t][i])
      BY <1>3, <1>10 DEF Written, Rewritten
    <2>2. runs'[t][i].reason = runs[t][i].reason
      BY <1>10, <2>1 DEF Written, Rewritten
    <2>3. runs'[t][i].reason # "none" => runs'[t][i] = runs[t][i]
      BY <1>10, <2>1, <2>2 DEF Written, RunAtHand, Execute
    <2> QED BY <1>1, <2>1, <2>2, <2>3 DEF RunFits
  <1> QED BY <1>4, <1>5, <1>6, <1>7, <1>8, <1>9, <1>10 DEF RunMoves

-----------------------------------------------------------------------------
(* A review that goes well begins with nothing but its first job.          *)
Barren ==
    /\ \A s \in Required : DOMAIN runs[s] = {}
    /\ \A id \in JobIds : TypeOf(id) \in Required => jobs[id].status # "succeeded"
    /\ \A w \in Workers : worker[w].at \in {"idle", "record", "enqueue_static"}

LEMMA NothingYet == Barren => Careful
  <1> SUFFICES ASSUME Barren PROVE Careful
    OBVIOUS
  <1>1. OneRun /\ ConcludedFits /\ SkipHasCause
    <2>1. \A s \in Required : ~Concluded(s)
      BY DEF Barren, Concluded
    <2>2. \A s \in Ready : ~Skips(s)
      BY ConstantsAssumption DEF Barren, Skips
    <2> QED BY <2>1, <2>2 DEF Barren, OneRun, ConcludedFits, SkipHasCause
  <1>2. ASSUME NEW w \in Workers
        PROVE  /\ RunAtHand(w) /\ FirstRun(w) /\ Ended(w) /\ LatestFits(w)
               /\ OwnIsRead(w) /\ SomeoneComes(w) /\ PendingFits(w) /\ PendingWaits(w)
    <2>1. worker[w].at \in {"idle", "record", "enqueue_static"}
      BY DEF Barren
    <2>2. worker[w].at \notin {"execute"} \cup Before \cup Late \cup Reading
      BY <2>1 DEF Before, Late, Reading
    <2> QED BY <2>2 DEF RunAtHand, FirstRun, Ended, LatestFits, OwnIsRead, SomeoneComes, PendingFits,
            PendingWaits, Reading
  <1>3. \A w, v \in Workers : ReadsInOrder(w, v)
    BY DEF Barren, ReadsInOrder, Reading
  <1> QED BY <1>1, <1>2, <1>3 DEF Careful

LEMMA CalmBegins ==
    ASSUME TInv, Rooted, \A v \in Workers : HasJob(v), NEW w \in Workers, Works(w), Calm'
    PROVE  Calm \/ Barren'
  <1> SUFFICES ASSUME ~Calm PROVE Barren'
    OBVIOUS
  <1>1. ~TriedAgain("precheck")
    BY TriesGrow DEF Calm, Rooted
  <1>2. status \notin {"scanning", "pending_review"} /\ status' \in {"scanning", "pending_review"}
    BY <1>1 DEF Calm
  <1>3. status \in Statuses
    BY DEF TInv, TablesOK
  <1>4. StartScanning(w)
    <2>1. CASE RecordFailure(w) \/ Admit(w)
      BY <1>2, <2>1 DEF RecordFailure, Admit
    <2>2. CASE Decide(w)
      BY <1>2, <2>2 DEF Decide, AutoReject
    <2>3. CASE Pend(w)
      BY <1>2, <1>3, <2>3, Transitions DEF Pend
    <2>4. CASE ApplyRoute(w)
      <3>1. worker[w].what \in Routes
        BY <2>4, InHand DEF ApplyRoute, FitsAt
      <3>2. ~MayBecome("pending_review")
        BY <1>2, <1>3, Transitions
      <3> QED BY <1>2, <2>4, <3>1, <3>2 DEF ApplyRoute, RouteApplies, Routes
    <2> QED BY <1>2, <2>1, <2>2, <2>3, <2>4, StatusKept, Zenon DEF Works, WorkerStep, StageStep
  <1>5. worker[w].at = "start_scanning" /\ worker[w].job = "precheck"
    BY <1>4, InHand DEF StartScanning, FitsAt
  <1>6. NotStarted
    BY <1>1, <1>5 DEF NotStarted, Early
  <1>7. \A v \in Workers \ {w} : worker[v].at = "idle"
    BY <1>5, <1>6, OnlyPrecheck
  <1>8. worker'[w].at \in {"enqueue_static", "record"}
    BY <1>4, <1>5, Targets DEF StartScanning
  <1>9. \A v \in Workers \ {w} : worker'[v] = worker[v]
    BY OthersStay DEF TInv, Works
  <1>10. UNCHANGED <<runs, jobs>>
    BY <1>4 DEF StartScanning
  <1>11. \A id \in JobIds : TypeOf(id) \in Required => id # "precheck"
    BY Vocabulary DEF TypeOf
  <1> QED BY <1>6, <1>7, <1>8, <1>9, <1>10, <1>11 DEF Barren, Rooted, StartFits

(* What a reconcile does between its reads.                                *)
LEMMA ActMarks ==
    ASSUME TInv, NEW w \in Workers, NEW s \in Required, worker'[w].at = "act",
           SkipStage(w, s) \/ DegradeStage(w, s) \/ QueueStage(w, s)
    PROVE  /\ worker[w].at = "act" /\ worker[w].units[s] = "pending"
           /\ worker'[w].units[s] \in {"skipped", "degraded", "running"}
           /\ QueueStage(w, s) => worker'[w].units[s] = "running"
           /\ \A u \in Required \ {s} : worker'[w].units[u] = worker[w].units[u]
  <1> DEFINE h == worker[w]
  <1>1. h.at = "act" /\ h.units[s] = "pending"
    BY DEF SkipStage, DegradeStage, QueueStage, FirstDue, Due
  <1>2. worker \in [Workers -> Memory] /\ h \in WorkerState
    BY <1>1, InHand
  <1>3. h.units \in [Required -> UnitStates]
    BY <1>2 DEF WorkerState, UnitStates
  <1>4. ~Raise(w, TRUE)
    BY <1>1, Targets
  <1>5. \E x \in {"skipped", "degraded", "running"} :
           /\ QueueStage(w, s) => x = "running"
           /\ worker' = [worker EXCEPT ![w] = [h EXCEPT !.units = [h.units EXCEPT ![s] = x]]]
    <2>1. CASE QueueStage(w, s)
      BY <2>1, <1>4 DEF QueueStage
    <2>2. CASE ~QueueStage(w, s)
      BY <2>2 DEF SkipStage, DegradeStage, Synthesize
    <2> QED BY <2>1, <2>2
  <1>6. PICK x \in {"skipped", "degraded", "running"} :
           /\ QueueStage(w, s) => x = "running"
           /\ worker' = [worker EXCEPT ![w] = [h EXCEPT !.units = [h.units EXCEPT ![s] = x]]]
    BY <1>5
  <1> DEFINE us == [h.units EXCEPT ![s] = x]
             n == [h EXCEPT !.units = us]
  <1>7. n.units = us
    <2> HIDE DEF us
    <2> QED BY <1>2 DEF WorkerState
  <1>8. worker'[w] = n
    BY <1>2, <1>6
  <1>9. us[s] = x /\ \A u \in Required \ {s} : us[u] = h.units[u]
    BY <1>3
  <1> HIDE DEF us, n
  <1> QED BY <1>1, <1>6, <1>7, <1>8, <1>9

(* What the reads of a stage add up to.                                    *)
LEMMA UnitsAddUp ==
    ASSUME NEW s, NEW run, NEW job, job = jobs[JobOf(s)].status
    PROVE  /\ run.state \in Counts /\ run.reason = "none" => UnitState(s, run) = "completed"
           /\ run.state \in {"none", "running"} =>
                 UnitState(s, run) = IF job \in {"queued", "running"} THEN "running"
                                     ELSE IF job = "absent" /\ run = NoRun THEN "pending"
                                     ELSE "failed"
           /\ UnitState(s, run) = "pending" => job = "absent"
  <1> DEFINE active == job \in {"queued", "running"}
             ended == RunState(run) \in Terminal
  <1>1. UnitState(s, run) =
           CASE ended /\ ~(active /\ run.reason # "none") -> RunState(run)
             [] active /\ (ended => run.reason # "none") -> "running"
             [] ~active /\ ~ended ->
                  IF job = "absent" /\ run = NoRun THEN "pending" ELSE "failed"
    BY DEF UnitState
  <1>2. run.state \in Counts => RunState(run) = "completed"
    BY DEF RunState, Counts
  <1>3. run.state \in {"none", "running"} => RunState(run) \notin Terminal
    BY DEF RunState, Terminal
  <1>4. "completed" \in Terminal /\ "pending" \notin Terminal
    BY DEF Terminal
  <1>5. run.state \in Counts /\ run.reason = "none" => UnitState(s, run) = "completed"
    <2> SUFFICES ASSUME run.state \in Counts /\ run.reason = "none"
                 PROVE  UnitState(s, run) = "completed"
      OBVIOUS
    <2>1. ended /\ RunState(run) = "completed"
      BY <1>2, <1>4
    <2> HIDE DEF active, ended
    <2> QED BY <1>1, <2>1
  <1>6. ~ended => UnitState(s, run) = IF active THEN "running"
                                      ELSE IF job = "absent" /\ run = NoRun THEN "pending"
                                      ELSE "failed"
    <2> HIDE DEF active, ended
    <2> QED BY <1>1
  <1>7. ended => UnitState(s, run) # "pending"
    <2>1. CASE active /\ run.reason # "none"
      <3> HIDE DEF active, ended
      <3> QED BY <1>1, <2>1
    <2>2. CASE ~(active /\ run.reason # "none")
      <3>1. ended => UnitState(s, run) = RunState(run)
        <4> HIDE DEF active, ended
        <4> QED BY <1>1, <2>2
      <3> QED BY <3>1, <1>4
    <2> QED BY <2>1, <2>2
  <1> QED BY <1>3, <1>5, <1>6, <1>7

LEMMA ReadingMoves ==
    ASSUME TInv, NEW w \in Workers, LatestFits(w), Works(w), worker'[w].at \in Reading
    PROVE  \/ ReadRuns(w) /\ worker'[w].at = "read_jobs"
           \/ /\ worker' = worker \/ ReadJobs(w) \/ Acting(w)
              /\ worker[w].at \in Reading
              /\ \A u \in Required : Lacks(w, u)' <=> Lacks(w, u)
  <1>1. worker'[w].at \notin {"idle", "record"}
    BY DEF Reading
  <1>2. \/ Pause(w) /\ worker' = worker
        \/ ReadRuns(w) /\ worker'[w].at = "read_jobs"
        \/ Leads(w, "read_jobs", {"act"}) /\ ReadJobs(w)
        \/ Leads(w, "act", {"act"}) /\ Acting(w)
    <2>1. Paths(w)
      BY <1>1, Path
    <2>2. After \notin Reading
      BY DEF After, Reading
    <2> QED BY <2>1, <2>2 DEF Paths, Leads, Reading
  <1>3. CASE worker' = worker
    BY <1>3 DEF Lacks
  <1>4. CASE Leads(w, "read_jobs", {"act"}) /\ ReadJobs(w)
    <2>1. ASSUME NEW u \in Required
          PROVE  Lacks(w, u)' <=> Lacks(w, u)
      <3> DEFINE run == worker[w].latest[u]
      <3>1. worker'[w].units[u] = UnitState(u, run)
        BY <1>4, ReadMoves
      <3>2. UnitState(u, run) = "completed" => run.state \in Counts
        BY CompletedIsFinished
      <3>3. run.state \in Counts => UnitState(u, run) = "completed"
        <4> SUFFICES ASSUME run.state \in Counts PROVE UnitState(u, run) = "completed"
          OBVIOUS
        <4>1. run # NoRun
          BY DEF NoRun, Counts
        <4>2. RunFits(u, run)
          BY <1>4, <4>1 DEF LatestFits, Leads
        <4>3. run.reason = "none"
          BY <4>2 DEF RunFits, Counts
        <4> HIDE DEF run
        <4> QED BY <4>3, UnitsAddUp
      <3> HIDE DEF run
      <3> QED BY <1>4, <3>1, <3>2, <3>3 DEF Lacks, Leads, run
    <2> QED BY <1>4, <2>1 DEF Leads, Reading
  <1>5. CASE Leads(w, "act", {"act"}) /\ Acting(w)
    <2>1. PICK s \in Required : SkipStage(w, s) \/ DegradeStage(w, s) \/ QueueStage(w, s)
      BY <1>5 DEF Acting
    <2>2. /\ worker[w].units[s] # "completed" /\ worker'[w].units[s] # "completed"
          /\ \A u \in Required \ {s} : worker'[w].units[u] = worker[w].units[u]
      BY <1>5, <2>1, ActMarks DEF Leads
    <2> QED BY <1>5, <2>2 DEF Leads, Lacks, Reading
  <1> QED BY <1>2, <1>3, <1>4, <1>5 DEF Pause, OwnsJob, Reading

-----------------------------------------------------------------------------
(* The runs of a stage that goes well.                                     *)
LEMMA RunAtHandStays ==
    ASSUME TInv, Rooted, \A v \in Workers : RunAtHand(v), NEW w \in Workers, Works(w),
           Calm' => Calm
    PROVE  \A v \in Workers : RunAtHand(v)'
  <1>1. gen' = gen
    BY AttemptStays DEF Works
  <1>2. \A v \in Workers \ {w} : worker'[v] = worker[v]
    BY OthersStay DEF TInv, Works
  <1>3. \A t \in Required : TriedAgain(t) => TriedAgain(t)'
    BY TriesGrow DEF Rooted
  <1>4. ASSUME NEW v \in Workers \ {w}
        PROVE  RunAtHand(v)'
    <2> SUFFICES ASSUME worker[v].at = "execute", NEW t \in Required, Type(v) = t
                 PROVE  /\ worker[v].run[1] = gen /\ worker[v].run[2] \in DOMAIN runs'[t]
                        /\ runs'[t][worker[v].run[2]].reason = "none"
                        /\ Calm' => runs'[t][worker[v].run[2]].state = "running" \/ TriedAgain(t)'
      BY <1>1, <1>2 DEF RunAtHand, Type
    <2>1. /\ worker[v].run[1] = gen /\ worker[v].run[2] \in DOMAIN runs[t]
          /\ runs[t][worker[v].run[2]].reason = "none"
          /\ Calm => runs[t][worker[v].run[2]].state = "running" \/ TriedAgain(t)
      BY DEF RunAtHand
    <2>2. RunMoves(w, t)
      BY RunsMove
    <2>3. /\ worker[v].run[2] \in DOMAIN runs'[t]
          /\ runs'[t][worker[v].run[2]].reason = "none"
      BY <2>1, <2>2 DEF RunMoves, Added, FailedOpen, Written, Rewritten
    <2>4. CASE worker[w].at # "idle" /\ Type(w) = t
      <3>1. TriedAgain(t)
        BY <2>4, TwoOfAType
      <3> QED BY <1>3, <2>1, <2>3, <3>1
    <2>5. CASE ~(worker[w].at # "idle" /\ Type(w) = t)
      <3>1. runs'[t][worker[v].run[2]] = runs[t][worker[v].run[2]]
        BY <2>1, <2>2, <2>5 DEF RunMoves, Added, Open, Execute
      <3> QED BY <1>3, <2>1, <2>3, <3>1
    <2> QED BY <2>4, <2>5
  <1>5. RunAtHand(w)'
    <2>1. CASE worker'[w].at # "execute"
      BY <2>1 DEF RunAtHand
    <2>2. CASE Pause(w)
      BY <1>1, <1>3, <2>2 DEF Pause, RunAtHand, Type
    <2>3. CASE worker'[w].at = "execute" /\ ~Pause(w)
      <3>1. Open(w)
        <4>1. Paths(w)
          BY <2>3, Path
        <4> QED BY <2>3, <4>1 DEF Paths, Leads, After
      <3>2. SUFFICES ASSUME NEW t \in Required, Type(w) = t
                     PROVE  /\ worker'[w].run[1] = gen /\ worker'[w].run[2] \in DOMAIN runs'[t]
                            /\ runs'[t][worker'[w].run[2]].reason = "none"
                            /\ runs'[t][worker'[w].run[2]].state = "running"
        <4>1. worker'[w].job = worker[w].job
          BY <3>1, MiddleMoves DEF StageStep
        <4> QED BY <1>1, <3>2, <4>1 DEF RunAtHand, Type
      <3>3. \/ AppendRun(t, NewRun) /\ worker'[w].run = <<gen, Len(runs[t]) + 1>>
            \/ /\ runs' = runs /\ worker'[w].run[1] = gen
               /\ worker'[w].run[2] \in DOMAIN runs[t]
               /\ runs[t][worker'[w].run[2]].state = "running"
               /\ runs[t][worker'[w].run[2]].reason = "none"
        BY <2>3, <3>1, <3>2, OpenMoves DEF Onward, Plain
      <3>4. CASE AppendRun(t, NewRun) /\ worker'[w].run = <<gen, Len(runs[t]) + 1>>
        <4>1. Added(t, NewRun)
          BY <3>4, NewRuns, RunWrites
        <4>2. worker'[w].run[1] = gen /\ worker'[w].run[2] = Len(runs[t]) + 1
          BY <3>4
        <4> QED BY <4>1, <4>2 DEF Added, NewRun
      <3> QED BY <3>3, <3>4
    <2> QED BY <2>1, <2>2, <2>3
  <1> QED BY <1>4, <1>5

LEMMA FirstRunStays ==
    ASSUME TInv, Rooted, \A v \in Workers : RunAtHand(v) /\ FirstRun(v),
           NEW w \in Workers, Works(w), Calm' => Calm
    PROVE  \A v \in Workers : FirstRun(v)'
  <1> SUFFICES ASSUME NEW v \in Workers, Calm', NEW t \in Required, worker'[v].at \in Before,
                      Type(v)' = t, Clean(t)'
               PROVE  DOMAIN runs'[t] = {}
    BY DEF FirstRun
  <1>1. Calm /\ Clean(t)
    BY SoundBefore
  <1>2. \A u \in Workers \ {w} : worker'[u] = worker[u]
    BY OthersStay DEF TInv, Works
  <1>3. ~TriedAgain(t)
    BY <1>1 DEF Clean, WentWrong
  <1>4. RunMoves(w, t)
    BY RunsMove
  <1>5. ~\E i \in DOMAIN runs'[t] : runs'[t][i].state \notin {"running", "completed", "partial"}
    BY DEF Clean, WentWrong
  <1>6. ~(\E r \in Skipped : Added(t, r)) /\ ~Added(t, Degraded)
    BY <1>5 DEF Added, Skipped, Degraded
  <1>7. CASE v # w
    <2>1. worker[v].at \in Before /\ Type(v) = t
      BY <1>2, <1>7 DEF Type
    <2>2. DOMAIN runs[t] = {}
      BY <1>1, <2>1 DEF FirstRun
    <2>3. worker[w].at # "idle" => Type(w) # t
      <3> SUFFICES ASSUME worker[w].at # "idle", Type(w) = t PROVE FALSE
        OBVIOUS
      <3>1. TriedAgain(Type(w))
        BY <1>7, <2>1, TwoOfAType DEF Before
      <3> QED BY <3>1, <1>3
    <2> QED BY <1>4, <1>6, <2>2, <2>3 DEF RunMoves, Open, Execute
  <1>8. CASE v = w /\ worker[w].at = "idle"
    <2>1. PICK id \in JobIds : ClaimJob(w, id) /\ worker'[w].job = id
                               /\ worker'[w].tries = jobs'[id].attempts
                               /\ jobs'[id].attempts = jobs[id].attempts + 1
      BY <1>8, WorkerMoves DEF Before
    <2>2. TypeOf(id) = t
      BY <1>8, <2>1 DEF Type
    <2>3. runs' = runs
      BY <2>1 DEF ClaimJob
    <2>4. Tries(t) = {}
      <3> SUFFICES ASSUME NEW m \in Tries(t) PROVE FALSE
        OBVIOUS
      <3>1. TInv'
        BY NextTyped DEF Works, Next
      <3>2. /\ jobs[id].attempts \in Nat /\ jobs'[id].attempts \in 0..Attempts
            /\ m[2] <= jobs[m[1]].attempts /\ m[1] \in JobIds /\ m[2] \in Nat
            /\ m = <<m[1], m[2]>>
        BY <3>1 DEF TInv, TablesOK, Job, Tries
      <3>3. <<id, jobs'[id].attempts>> \in Tries(t)'
        <4>1. jobs'[id].attempts \in 1..Attempts
          BY <2>1, <3>2
        <4> QED BY <2>2, <4>1 DEF Tries
      <3>4. m \in Tries(t)'
        BY TriesGrow DEF Rooted
      <3>5. m # <<id, jobs'[id].attempts>>
        BY <2>1, <3>2
      <3>6. TriedAgain(t)'
        BY <3>3, <3>4, <3>5 DEF TriedAgain
      <3> QED BY <3>6 DEF Clean, WentWrong
    <2>5. \A i \in DOMAIN runs[t] : FALSE
      <3> TAKE i \in DOMAIN runs[t]
      <3>1. RunFits(t, runs[t][i])
        BY DEF Rooted, RunsFit
      <3> QED BY <1>5, <2>3, <2>4, <3>1 DEF RunFits
    <2> QED BY <2>3, <2>5
  <1>9. CASE v = w /\ worker[w].at # "idle"
    <2>1. worker'[w].job = worker[w].job
      BY <1>9, WorkerMoves DEF Before
    <2>2. worker[w].at \in Before /\ (Pause(w) \/ worker[w].at \in {"recover", "load"})
      <3>1. Paths(w)
        BY <1>9, Path DEF Before
      <3>2. After \notin Before
        BY DEF After, Before
      <3>3. t # "precheck"
        BY Vocabulary
      <3>4. Type(w) = t
        BY <1>9, <2>1 DEF Type
      <3>5. worker[w].job # "precheck"
        BY <3>3, <3>4 DEF Type, TypeOf
      <3>6. worker'[w].at \in {"recover", "load", "recovered", "open"}
        BY <1>9 DEF Before
      <3>7. (Pause(w) /\ worker' = worker) \/ worker[w].at \in {"recover", "load"}
        BY <1>9, <3>1, <3>2, <3>5, <3>6 DEF Paths, Leads, Before
      <3> QED BY <3>6, <3>7 DEF Before
    <2>3. DOMAIN runs[t] = {}
      BY <1>1, <1>9, <2>1, <2>2 DEF FirstRun, Type
    <2>4. runs'[t] = runs[t] \/ FailedOpen(t)
      BY <1>4, <1>6, <2>2 DEF RunMoves, Open, Execute, Pause
    <2> QED BY <2>3, <2>4 DEF FailedOpen, Rewritten
  <1> QED BY <1>7, <1>8, <1>9

LEMMA OneRunStays ==
    ASSUME TInv, Rooted, OneRun, \A v \in Workers : RunAtHand(v) /\ FirstRun(v),
           NEW w \in Workers, Works(w), Calm' => Calm
    PROVE  OneRun'
  <1> SUFFICES ASSUME Calm', NEW t \in Required, Clean(t)',
                      NEW i \in DOMAIN runs'[t], NEW j \in DOMAIN runs'[t]
               PROVE  i = j
    BY DEF OneRun
  <1>1. Calm /\ Clean(t)
    BY SoundBefore
  <1>2. \A k, l \in DOMAIN runs[t] : k = l
    BY <1>1 DEF OneRun
  <1>3. RunMoves(w, t)
    BY RunsMove
  <1>4. ~\E k \in DOMAIN runs'[t] : runs'[t][k].state \notin {"running", "completed", "partial"}
    BY DEF Clean, WentWrong
  <1>5. ~(\E r \in Skipped : Added(t, r)) /\ ~Added(t, Degraded)
    BY <1>4 DEF Added, Skipped, Degraded
  <1>6. CASE Open(w) /\ Type(w) = t /\ Added(t, NewRun)
    <2>1. DOMAIN runs[t] = {}
      BY <1>1, <1>6 DEF FirstRun, Open, Before
    <2> QED BY <1>6, <2>1 DEF Added
  <1>7. CASE DOMAIN runs'[t] = DOMAIN runs[t]
    BY <1>2, <1>7
  <1> QED BY <1>3, <1>5, <1>6, <1>7 DEF RunMoves, FailedOpen, Written, Rewritten

LEMMA EndedStays ==
    ASSUME TInv, Rooted, Grows, \A v \in Workers : RunAtHand(v) /\ FirstRun(v) /\ Ended(v),
           NEW w \in Workers, Works(w), Calm' => Calm
    PROVE  \A v \in Workers : Ended(v)'
  <1> SUFFICES ASSUME NEW v \in Workers, Calm', NEW t \in Required, worker'[v].at \in Late,
                      Type(v)' = t, Clean(t)'
               PROVE  Finishes(t)'
    BY DEF Ended
  <1>1. Calm /\ Clean(t)
    BY SoundBefore
  <1>2. Finishes(t) => Finishes(t)'
    BY DEF Grows
  <1>3. CASE v # w \/ worker' = worker
    <2>1. worker'[v] = worker[v]
      BY <1>3, OthersStay DEF TInv, Works
    <2>2. worker[v].at \in Late /\ Type(v) = t
      BY <2>1 DEF Type
    <2> QED BY <1>1, <1>2, <2>2 DEF Ended
  <1>4. CASE v = w /\ worker' # worker
    <2>1. Paths(w)
      BY <1>4, Path DEF Late
    <2>2. worker[w].at # "idle"
      BY <1>4, <2>1 DEF Paths, Leads, Late
    <2>3. worker'[w].job = worker[w].job /\ Type(w) = t
      BY <1>4, <2>2, WorkerMoves DEF Late, Type
    <2>4. worker[w].job \notin {"precheck", "route"} /\ t \notin {"precheck", "route"}
      BY <2>3, Vocabulary DEF Type, TypeOf
    <2>5. CASE worker[w].at \in Late
      BY <1>1, <1>2, <2>3, <2>5 DEF Ended
    <2>6. CASE Load(w) /\ status \in Decided
      BY <1>1, <2>6 DEF Calm, Decided
    <2>7. CASE worker[w].at = "recovered" /\ Recovered(w)
      <3>1. DOMAIN runs[t] = {}
        BY <1>1, <2>3, <2>7 DEF FirstRun, Before
      <3>2. ~Succeeded(t)
        BY <3>1 DEF Succeeded
      <3>3. ~Raise(w, FALSE) /\ ~Raise(w, TRUE)
        BY <1>4, <2>2, Targets DEF Late
      <3>4. ~RecoverStatic(w) /\ ~RefuseStatus(w) /\ ~RecoverRoute(w)
        BY <2>3, <2>4, <3>2, <3>3 DEF RecoverStatic, RefuseStatus, RecoverRoute
      <3>5. ~RecoverMalware(w)
        <4>1. {i \in DOMAIN runs[Type(w)] : runs[Type(w)][i].state # "running"} = {}
          BY <2>3, <3>1
        <4> QED BY <4>1, <3>3 DEF RecoverMalware
      <3> QED BY <2>7, <3>4, <3>5 DEF Recovered
    <2>8. CASE worker[w].at = "open" /\ Open(w)
      <3>1. DOMAIN runs[t] = {}
        BY <1>1, <2>3, <2>8 DEF FirstRun, Before
      <3>2. ~Succeeded(t)
        BY <3>1 DEF Succeeded
      <3>3. worker'[w].at \in {"inspect", "execute"}
        <4> DEFINE next == IF t = "precheck" THEN "inspect" ELSE "execute"
        <4>1. {i \in DOMAIN runs[t] : runs[t][i].reason = "none"} = {}
          BY <3>1
        <4>2. worker' = [worker EXCEPT ![w] = [worker[w] EXCEPT !.at = next,
                                                 !.run = <<gen, Len(runs[t]) + 1>>]]
          BY <2>3, <2>8, <3>2, <4>1, Zenon DEF Open
        <4>3. worker \in [Workers -> Memory] /\ worker[w] \in WorkerState
          BY <2>2, InHand
        <4>4. \A s, x : worker' = [worker EXCEPT ![w] = [worker[w] EXCEPT !.at = s, !.run = x]] =>
                 worker'[w].at = s
          BY <4>3 DEF WorkerState
        <4>5. worker'[w].at = next
          BY <4>2, <4>4
        <4> QED BY <4>5
      <3> QED BY <1>4, <3>3 DEF Late
    <2>9. CASE worker[w].at = "execute" /\ Execute(w)
      <3>1. RunMoves(w, t)
        BY RunsMove
      <3>2. Written(w, t) \/ runs'[t] = runs[t]
        BY <2>9, <3>1 DEF RunMoves, Execute, Open, SkipStage, DegradeStage
      <3>3. PICK k : /\ k = worker[w].run[2] /\ worker[w].run[1] = gen /\ k \in DOMAIN runs[t]
                     /\ runs[t][k].state = "running"
        BY <1>1, <2>3, <2>9 DEF RunAtHand, Clean, WentWrong
      <3>4. k \in DOMAIN runs'[t] /\ runs'[t][k].state # "running"
        <4>1. PICK s \in Results[t] : CompleteRun(w, s)
          BY <2>3, <2>9 DEF Execute
        <4>2. s \in RunStates /\ s # "running"
          BY <4>1, ResultsAreStates, Vocabulary DEF Results, StaticResults, DiffResults, GraphResults,
             ClamAvResults, YaraResults, RuntimeResults, DependencyResults, CategoryResults,
             PackageResults, FileResults, SummaryResults, OnToolFailure, Phase
        <4>3. Written(w, t)
          BY <2>3, <4>1, <4>2, RunWrites
        <4> QED BY <3>3, <4>3 DEF Written, Rewritten
      <3>5. runs'[t][k].state \in {"completed", "partial"}
        BY <3>4 DEF Clean, WentWrong
      <3> QED BY <3>4, <3>5 DEF Finishes, Completes
    <2> QED BY <1>4, <2>1, <2>4, <2>5, <2>6, <2>7, <2>8, <2>9 DEF Paths, Leads, Late
  <1> QED BY <1>3, <1>4

LEMMA ConcludedStays ==
    ASSUME TInv, Rooted, Grows, ConcludedFits,
           \A v \in Workers : RunAtHand(v) /\ FirstRun(v) /\ Ended(v),
           NEW w \in Workers, Works(w), Calm' => Calm
    PROVE  ConcludedFits'
  <1> SUFFICES ASSUME Calm', NEW t \in Required, Concluded(t)', Clean(t)'
               PROVE  Finishes(t)'
    BY DEF ConcludedFits
  <1>1. Calm /\ Clean(t)
    BY SoundBefore
  <1>2. CASE Concluded(t)
    BY <1>1, <1>2 DEF ConcludedFits, Grows
  <1>3. CASE \E v \in Workers : worker'[v].at = "done" /\ Type(v)' = t
    BY <1>3, EndedStays DEF Ended, Late
  <1>4. CASE \E id \in JobIds : TypeOf(id) = t /\ jobs'[id].status = "succeeded"
    <2>1. PICK id \in JobIds : TypeOf(id) = t /\ jobs'[id].status = "succeeded"
      BY <1>4
    <2>2. \/ jobs[id].status = "succeeded"
          \/ CompleteJob(w) /\ worker[w].job = id
      BY <2>1, RowsMove DEF RowMoves, NewJob, NoJob
    <2>3. Concluded(t)
      BY <2>1, <2>2 DEF Concluded, CompleteJob, Type
    <2> QED BY <2>3, <1>2
  <1> QED BY <1>3, <1>4 DEF Concluded

-----------------------------------------------------------------------------
(* What the reconciles have read.                                          *)
LEMMA LatestIsOne ==
    ASSUME TInv, NEW t \in Required
    PROVE  \/ runs[t] = <<>> /\ DOMAIN runs[t] = {} /\ LatestRun(t) = NoRun
           \/ \E k \in DOMAIN runs[t] : LatestRun(t) = runs[t][k]
  <1>1. runs[t] \in Seq(Run)
    BY Vocabulary DEF TInv, TablesOK, RunsOK
  <1>2. CASE runs[t] # <<>>
    <2>1. LatestRun(t) = runs[t][Len(runs[t])] /\ Len(runs[t]) \in DOMAIN runs[t]
      BY <1>1, <1>2 DEF LatestRun
    <2> QED BY <2>1
  <1> QED BY <1>1, <1>2 DEF LatestRun

LEMMA LatestOfOne ==
    ASSUME TInv, OneRun, Calm, NEW t \in Required, Clean(t), Finishes(t)
    PROVE  LatestRun(t).state \in Counts
  <1>1. PICK i \in DOMAIN runs[t] : runs[t][i].state \in Counts
    BY DEF Finishes, Completes, Counts
  <1>2. \A k \in DOMAIN runs[t] : k = i
    BY DEF OneRun
  <1> QED BY <1>1, <1>2, LatestIsOne

LEMMA LatestStays ==
    ASSUME TInv, Rooted, \A v \in Workers : RunAtHand(v) /\ LatestFits(v),
           NEW w \in Workers, Works(w), Calm' => Calm
    PROVE  \A v \in Workers : LatestFits(v)'
  <1>1. \A t, r : RunFits(t, r) => RunFits(t, r)'
    BY TriesGrow DEF Rooted, RunFits
  <1>2. \A t \in Required : Skips(t) => Skips(t)'
    BY SkipsStay
  <1>3. Calm' => \A t \in Required : WentWrong(t) => WentWrong(t)'
    BY WrongStays
  <1>4. ASSUME NEW v \in Workers, worker'[v] = worker[v]
        PROVE  LatestFits(v)'
    <2>1. LatestFits(v)
      OBVIOUS
    <2> QED BY <1>1, <1>2, <1>3, <1>4, <2>1 DEF LatestFits
  <1>5. ASSUME ReadRuns(w), worker'[w].at = "read_jobs"
        PROVE  LatestFits(w)'
    <2> SUFFICES ASSUME NEW t \in Required, worker'[w].latest[t] # NoRun
                 PROVE  /\ RunFits(t, worker[w].latest[t])'
                        /\ worker'[w].latest[t].reason \notin {"none", "stage_tool_unavailable"} =>
                              Skips(t)'
                        /\ Calm' => worker'[w].latest[t].state \in {"running"} \cup Counts
                                    \/ WentWrong(t)'
      BY DEF LatestFits, RunFits
    <2>1. worker'[w].latest[t] = LatestRun(t)
      BY <1>5, ReadMoves
    <2>2. PICK k \in DOMAIN runs[t] : worker'[w].latest[t] = runs[t][k]
      BY <2>1, LatestIsOne
    <2>3. RunFits(t, runs[t][k])
      BY DEF Rooted, RunsFit
    <2>4. runs[t][k].reason \notin {"none", "stage_tool_unavailable"} => Skips(t)
      BY DEF Skips
    <2>5. runs[t][k].state \in {"running"} \cup Counts \/ WentWrong(t)
      BY DEF WentWrong, Counts
    <2> QED BY <1>1, <1>2, <1>3, <2>2, <2>3, <2>4, <2>5 DEF RunFits
  <1>6. ASSUME worker'[w].at = "read_jobs"
        PROVE  worker' = worker \/ ReadRuns(w)
    <2>1. Paths(w)
      BY <1>6, Path
    <2> QED BY <1>6, <2>1 DEF Paths, Leads, After
  <1>7. \A v \in Workers \ {w} : worker'[v] = worker[v]
    BY OthersStay DEF TInv, Works
  <1> QED BY <1>4, <1>5, <1>6, <1>7 DEF LatestFits

LEMMA OwnIsReadStays ==
    ASSUME TInv, Rooted, OneRun,
           \A v \in Workers : RunAtHand(v) /\ Ended(v) /\ LatestFits(v) /\ OwnIsRead(v),
           NEW w \in Workers, Works(w), Calm' => Calm
    PROVE  \A v \in Workers : OwnIsRead(v)'
  <1> SUFFICES ASSUME NEW v \in Workers, Calm', NEW t \in Required, worker'[v].at \in Reading,
                      Type(v)' = t, Clean(t)'
               PROVE  ~Lacks(v, t)'
    BY DEF OwnIsRead
  <1>1. Calm /\ Clean(t)
    BY SoundBefore
  <1>2. CASE v # w
    <2>1. worker'[v] = worker[v]
      BY <1>2, OthersStay DEF TInv, Works
    <2> QED BY <1>1, <2>1 DEF OwnIsRead, Lacks, Type
  <1>3. CASE v = w
    <2>1. \/ ReadRuns(w) /\ worker'[w].at = "read_jobs"
          \/ worker[w].at \in Reading /\ (Lacks(w, t)' <=> Lacks(w, t))
      BY <1>3, ReadingMoves
    <2>2. worker[w].at # "idle"
      BY <2>1 DEF ReadRuns, Reading
    <2>3. Type(w) = t
      BY <1>3, <2>2, WorkerMoves DEF Reading, Type
    <2>4. CASE ReadRuns(w) /\ worker'[w].at = "read_jobs"
      <3>1. Finishes(t)
        BY <1>1, <2>3, <2>4 DEF Ended, ReadRuns, Late
      <3>2. worker'[w].latest[t] = LatestRun(t)
        BY <2>4, ReadMoves
      <3>3. worker'[w].latest[t].state \in Counts
        BY <1>1, <3>1, <3>2, LatestOfOne
      <3> QED BY <1>3, <2>4, <3>3 DEF Lacks
    <2>5. CASE worker[w].at \in Reading /\ (Lacks(w, t)' <=> Lacks(w, t))
      BY <1>1, <1>3, <2>3, <2>5 DEF OwnIsRead
    <2> QED BY <2>1, <2>4, <2>5
  <1> QED BY <1>2, <1>3

(* Who reads later lacks less.                                             *)
LEMMA ReadsLess ==
    ASSUME TInv, OneRun, Calm, NEW s \in Required, Sound(s), NEW v \in Workers, ReadsFit(v),
           worker[v].at \in Reading, NEW u \in Upstream(s), LatestRun(u).state \notin Counts
    PROVE  Lacks(v, u)
  <1>1. u \in Required /\ Clean(u)
    BY DEF Upstream, Sound
  <1>2. ~Finishes(u)
    BY <1>1, LatestOfOne
  <1> QED BY <1>1, <1>2 DEF Lacks, ReadsFit, Reading

LEMMA ReadsInOrderStay ==
    ASSUME TInv, Rooted, OneRun, \A v \in Workers : RunAtHand(v) /\ LatestFits(v) /\ ReadsFit(v),
           \A u, v \in Workers : ReadsInOrder(u, v),
           NEW w \in Workers, Works(w), Calm' => Calm
    PROVE  \A u, v \in Workers : ReadsInOrder(u, v)'
  <1> DEFINE Old(v) == worker[v].at \in Reading /\ \A t \in Required : Lacks(v, t)' <=> Lacks(v, t)
             New(v) == v = w /\ \A t \in Required : Lacks(v, t)' => LatestRun(t).state \notin Counts
  <1>1. ASSUME NEW v \in Workers, worker'[v].at \in Reading
        PROVE  Old(v) \/ New(v)
    <2>1. CASE v # w
      <3>1. worker'[v] = worker[v]
        BY <2>1, OthersStay DEF TInv, Works
      <3> QED BY <1>1, <3>1 DEF Lacks
    <2>2. CASE v = w
      <3>1. CASE ReadRuns(w) /\ worker'[w].at = "read_jobs"
        <4>1. \A t \in Required : worker'[w].latest[t] = LatestRun(t)
          BY <3>1, ReadMoves
        <4> QED BY <2>2, <3>1, <4>1 DEF Lacks
      <3> QED BY <1>1, <2>2, <3>1, ReadingMoves
    <2> QED BY <2>1, <2>2
  <1> SUFFICES ASSUME NEW u \in Workers, NEW v \in Workers, Calm', NEW s \in Required, Sound(s)',
                      worker'[u].at \in Reading, worker'[v].at \in Reading
               PROVE  Lacking(u, s)' \subseteq Lacking(v, s)' \/ Lacking(v, s)' \subseteq Lacking(u, s)'
    BY DEF ReadsInOrder
  <1>2. Calm /\ Sound(s) /\ Upstream(s) \subseteq Required
    BY SoundBefore DEF Upstream
  <1>3. \A x \in Workers : Old(x) => Lacking(x, s)' = Lacking(x, s)
    BY <1>2 DEF Lacking, Upstream
  <1>4. CASE Old(u) /\ Old(v)
    BY <1>2, <1>3, <1>4 DEF ReadsInOrder
  <1>5. ASSUME NEW x \in Workers, NEW y \in Workers, New(x), Old(y)
        PROVE  Lacking(x, s)' \subseteq Lacking(y, s)'
    <2>1. \A q \in Upstream(s) : Lacks(x, q)' => Lacks(y, q)
      BY <1>2, <1>5, ReadsLess
    <2> QED BY <1>2, <1>5, <2>1 DEF Lacking, Upstream
  <1>6. CASE New(u) /\ New(v)
    BY <1>6
  <1> QED BY <1>1, <1>4, <1>5, <1>6

(* A stage is concluded by a reconcile that has looked at every other one. *)
LEMMA ConcludedBy ==
    ASSUME TInv, NEW w \in Workers, Works(w), Calm, advanced, NEW t \in Required, Concluded(t)'
    PROVE  \/ Concluded(t)
           \/ worker[w].at = "act" /\ Type(w) = t /\ (QueueRoute(w) \/ Wait(w))
  <1>1. CASE \E id \in JobIds : TypeOf(id) = t /\ jobs'[id].status = "succeeded"
    <2>1. PICK id \in JobIds : TypeOf(id) = t /\ jobs'[id].status = "succeeded"
      BY <1>1
    <2>2. \/ jobs[id].status = "succeeded"
          \/ CompleteJob(w) /\ worker[w].job = id
      BY <2>1, RowsMove DEF RowMoves, NewJob, NoJob
    <2> QED BY <2>1, <2>2 DEF Concluded, CompleteJob, Type
  <1>2. CASE \E v \in Workers \ {w} : worker'[v].at = "done" /\ Type(v)' = t
    <2>1. \A v \in Workers \ {w} : worker'[v] = worker[v]
      BY OthersStay DEF TInv, Works
    <2> QED BY <1>2, <2>1 DEF Concluded, Type
  <1>3. CASE worker'[w].at = "done" /\ Type(w)' = t
    <2>1. Paths(w)
      BY <1>3, Path
    <2>2. After = "read_artifact"
      BY DEF After
    <2>3. status \notin Closed \cup Decided
      BY DEF Calm, Closed, Decided
    <2>4. \/ worker' = worker
          \/ status \in Decided
          \/ ReadArtifact(w) /\ status \in Closed
          \/ worker[w].at = "act" /\ (QueueRoute(w) \/ Wait(w))
      BY <1>3, <2>1, <2>2 DEF Paths, Leads
    <2>5. CASE worker' = worker
      BY <1>3, <2>5 DEF Concluded, Type
    <2>6. CASE worker[w].at = "act" /\ (QueueRoute(w) \/ Wait(w))
      <3>1. Type(w) = t
        BY <1>3, <2>6, WorkerMoves DEF Type
      <3> QED BY <2>6, <3>1
    <2> QED BY <2>3, <2>4, <2>5, <2>6
  <1> QED BY <1>1, <1>2, <1>3 DEF Concluded

(* A reconcile that ends has seen something unfinished before every stage  *)
(* that has no job.                                                        *)
LEMMA EndsWaiting ==
    ASSUME Calm, NEW w \in Workers, PendingFits(w), worker[w].at = "act",
           QueueRoute(w) \/ Wait(w),
           NEW s \in Required, Sound(s), s # "static", jobs[s].status = "absent"
    PROVE  Lacking(w, s) # {}
  <1> SUFFICES ASSUME Lacking(w, s) = {} PROVE FALSE
    OBVIOUS
  <1>1. worker[w].units[s] = "pending"
    BY DEF PendingFits
  <1>2. \A u \in Upstream(s) : worker[w].units[u] = "completed"
    BY DEF Lacking, Lacks
  <1>3. s \in Due(w)
    BY <1>1, <1>2 DEF Due, Terminal
  <1> QED BY <1>1, <1>3 DEF QueueRoute, Wait, Terminal

LEMMA SomeoneComesStays ==
    ASSUME TInv, Rooted, OneRun, ConcludedFits', \A u, v \in Workers : ReadsInOrder(u, v),
           \A v \in Workers : /\ RunAtHand(v) /\ LatestFits(v) /\ OwnIsRead(v)
                              /\ SomeoneComes(v) /\ PendingFits(v),
           NEW w \in Workers, Works(w), Calm' => Calm
    PROVE  \A v \in Workers : SomeoneComes(v)'
  <1> SUFFICES ASSUME NEW v \in Workers, Calm', NEW s \in Required, Sound(s)',
                      worker'[v].at \in Reading, jobs'[s].status = "absent", Lacking(v, s)' # {}
               PROVE  \E u \in Lacking(v, s)' : ~Concluded(u)'
    BY DEF SomeoneComes
  <1>1. Calm /\ Sound(s) /\ Upstream(s) \subseteq Required
    BY SoundBefore DEF Upstream
  <1>2. jobs[s].status = "absent"
    BY RowsStay, Vocabulary DEF Works
  <1>3. CASE v = w /\ ReadRuns(w) /\ worker'[w].at = "read_jobs"
    <2>1. PICK u \in Lacking(w, s)' : TRUE
      BY <1>3
    <2>2. u \in Upstream(s) /\ u \in Required /\ Clean(u) /\ Clean(u)'
      BY <1>1, <2>1 DEF Lacking, Sound, Upstream
    <2>3. worker'[w].latest[u] = LatestRun(u)
      BY <1>3, <2>2, ReadMoves
    <2>4. LatestRun(u).state \notin Counts
      BY <1>3, <2>1, <2>3 DEF Lacking, Lacks
    <2>5. ~Finishes(u)
      BY <1>1, <2>2, <2>4, LatestOfOne
    <2>6. runs' = runs
      BY <1>3 DEF ReadRuns
    <2>7. ~Finishes(u)'
      BY <2>5, <2>6 DEF Finishes, Completes
    <2> QED BY <1>3, <2>1, <2>2, <2>7 DEF ConcludedFits
  <1>4. CASE worker[v].at \in Reading /\ \A t \in Required : Lacks(v, t)' <=> Lacks(v, t)
    <2>1. Lacking(v, s)' = Lacking(v, s)
      BY <1>1, <1>4 DEF Lacking, Upstream
    <2>2. PICK u \in Lacking(v, s) : ~Concluded(u)
      BY <1>1, <1>2, <1>4, <2>1 DEF SomeoneComes
    <2>3. u \in Upstream(s) /\ u \in Required /\ Clean(u)
      BY <1>1, <2>2 DEF Lacking, Sound
    <2>4. CASE ~Concluded(u)'
      BY <2>1, <2>2, <2>4
    <2>5. CASE Concluded(u)'
      <3>1. advanced
        BY <1>4 DEF Rooted, Advances, Reading, Reconciling
      <3>2. worker[w].at = "act" /\ Type(w) = u /\ (QueueRoute(w) \/ Wait(w))
        BY <1>1, <2>2, <2>3, <2>5, <3>1, ConcludedBy
      <3>3. u \notin Lacking(w, s)
        BY <1>1, <2>3, <3>2 DEF OwnIsRead, Lacking, Reading
      <3>4. Lacking(w, s) \subseteq Lacking(v, s)
        BY <1>1, <1>4, <2>2, <3>2, <3>3 DEF ReadsInOrder, Reading
      <3>5. s # "static"
        BY <2>3, NothingBeforeStatic
      <3>6. Lacking(w, s) # {}
        BY <1>1, <1>2, <3>2, <3>5, EndsWaiting
      <3>7. PICK q \in Lacking(w, s) : ~Concluded(q)
        BY <1>1, <1>2, <3>2, <3>6 DEF SomeoneComes, Reading
      <3>8. q \in Required /\ q # u
        BY <1>1, <3>3, <3>7 DEF Lacking
      <3>9. ~Concluded(q)'
        BY <1>1, <3>1, <3>2, <3>7, <3>8, ConcludedBy
      <3> QED BY <2>1, <3>4, <3>7, <3>9
    <2> QED BY <2>4, <2>5
  <1>5. \/ v = w /\ ReadRuns(w) /\ worker'[w].at = "read_jobs"
        \/ worker[v].at \in Reading /\ \A t \in Required : Lacks(v, t)' <=> Lacks(v, t)
    <2>1. CASE v # w
      <3>1. worker'[v] = worker[v]
        BY <2>1, OthersStay DEF TInv, Works
      <3> QED BY <3>1 DEF Lacks
    <2>2. CASE v = w
      BY <2>2, ReadingMoves
    <2> QED BY <2>1, <2>2
  <1> QED BY <1>3, <1>4, <1>5

-----------------------------------------------------------------------------
(* No stage of a review that goes well is skipped.                         *)
LEMMA NoSkip ==
    ASSUME Calm, NEW w \in Workers, PendingWaits(w), NEW s \in Required, Sound(s)
    PROVE  ~SkipStage(w, s)
  <1> SUFFICES ASSUME SkipStage(w, s) PROVE FALSE
    OBVIOUS
  <1>1. /\ worker[w].at = "act" /\ worker[w].units[s] = "pending"
        /\ \A u \in Upstream(s) : worker[w].units[u] \in Terminal
    BY DEF SkipStage, FirstDue, Due
  <1>2. PICK u \in Upstream(s) : worker[w].units[u] # "completed"
    BY DEF SkipStage, UpstreamStates
  <1>3. u \in Lacking(w, s)
    BY <1>1, <1>2 DEF Lacking, Lacks
  <1> QED BY <1>1, <1>3 DEF PendingWaits

LEMMA SkipHasCauseStays ==
    ASSUME TInv, Rooted, SkipHasCause, \A v \in Workers : RunAtHand(v) /\ PendingWaits(v),
           NEW w \in Workers, Works(w), Calm' => Calm
    PROVE  SkipHasCause'
  <1> SUFFICES ASSUME Calm', NEW s \in Ready, Skips(s)', \A u \in Upstream(s) : ~WentWrong(u)'
               PROVE  FALSE
    BY DEF SkipHasCause, Calm, Upstream
  <1>1. s \in Required
    BY ConstantsAssumption
  <1>2. Calm /\ Sound(s)
    <2>1. Sound(s)'
      BY DEF Sound, Clean, Upstream
    <2> QED BY <2>1, SoundBefore
  <1>3. ~Skips(s)
    BY <1>2 DEF SkipHasCause, Calm, Sound, Clean
  <1>4. ~SkipStage(w, s)
    BY <1>1, <1>2, NoSkip
  <1>5. RunMoves(w, s)
    BY <1>1, RunsMove
  <1>6. PICK i \in DOMAIN runs'[s] : runs'[s][i].reason \notin {"none", "stage_tool_unavailable"}
    BY DEF Skips
  <1>7. i \in DOMAIN runs[s] /\ runs[s][i].reason = runs'[s][i].reason
    BY <1>4, <1>5, <1>6 DEF RunMoves, Added, FailedOpen, Written, Rewritten, NewRun, Degraded
  <1> QED BY <1>3, <1>6, <1>7 DEF Skips

LEMMA SyntheticIsWrong ==
    ASSUME TInv, NEW w \in Workers, NEW s \in Required, SkipStage(w, s) \/ DegradeStage(w, s)
    PROVE  WentWrong(s)'
  <1>1. PICK reason : reason = UpstreamReason(UpstreamStates(w, s))
    OBVIOUS
  <1>2. reason \in Reasons
    BY <1>1 DEF UpstreamReason, Reasons
  <1>3. \E run \in {[state |-> "skipped", reason |-> reason], Degraded} :
           IF \E i \in DOMAIN runs[s] : runs[s][i] = run THEN runs' = runs ELSE AppendRun(s, run)
    BY <1>1 DEF SkipStage, DegradeStage, Synthesize, Degraded
  <1>4. PICK run \in {[state |-> "skipped", reason |-> reason], Degraded} :
           IF \E i \in DOMAIN runs[s] : runs[s][i] = run THEN runs' = runs ELSE AppendRun(s, run)
    BY <1>3
  <1>5. run \in Run /\ run.state \in {"skipped", "degraded"}
    BY <1>2, <1>4 DEF Run, RunStates, Reasons, Degraded
  <1>6. \E i \in DOMAIN runs'[s] : runs'[s][i] = run
    <2>1. CASE \E i \in DOMAIN runs[s] : runs[s][i] = run
      BY <1>4, <2>1
    <2>2. CASE ~\E i \in DOMAIN runs[s] : runs[s][i] = run
      <3>1. Added(s, run)
        BY <1>4, <1>5, <2>2, RunWrites
      <3> QED BY <3>1 DEF Added
    <2> QED BY <2>1, <2>2
  <1> QED BY <1>5, <1>6 DEF WentWrong

(* A stage whose job is not there has not been tried.                      *)
LEMMA NotTried ==
    ASSUME TInv, RowsFit, NEW s \in Required, jobs[JobOf(s)].status = "absent"
    PROVE  Tries(s) = {}
  <1> SUFFICES ASSUME Tries(s) # {} PROVE FALSE
    OBVIOUS
  <1>1. PICK id \in JobIds : TypeOf(id) = s /\ jobs[id].attempts # 0
    BY TriesBegin
  <1>2. jobs[id].status # "absent"
    BY <1>1 DEF RowsFit
  <1>3. CASE id = "static_again"
    BY <1>1, <1>2, <1>3 DEF TypeOf, JobOf
  <1>4. CASE id # "static_again"
    <2>1. id = s
      BY <1>1, <1>4 DEF TypeOf
    <2> QED BY <1>2, <2>1 DEF JobOf
  <1> QED BY <1>3, <1>4

LEMMA PathToAct ==
    ASSUME TInv, NEW w \in Workers, Works(w), worker'[w].at = "act"
    PROVE  \/ worker' = worker
           \/ worker[w].at = "read_jobs" /\ ReadJobs(w)
           \/ worker[w].at = "act" /\ Acting(w)
  <1>1. Paths(w)
    BY Path
  <1> QED BY <1>1 DEF Paths, Leads, After

LEMMA PendingFitsStays ==
    ASSUME TInv, Rooted, SkipHasCause,
           \A v \in Workers : RunAtHand(v) /\ LatestFits(v) /\ PendingFits(v) /\ PendingWaits(v),
           NEW w \in Workers, Works(w), Calm' => Calm
    PROVE  \A v \in Workers : PendingFits(v)'
  <1> SUFFICES ASSUME NEW v \in Workers, Calm', NEW s \in Required, Sound(s)', s # "static",
                      worker'[v].at = "act", jobs'[s].status = "absent"
               PROVE  worker'[v].units[s] = "pending"
    BY DEF PendingFits
  <1>1. Calm /\ Sound(s)
    BY SoundBefore
  <1>2. jobs[s].status = "absent"
    BY RowsStay, Vocabulary DEF Works
  <1>3. CASE worker'[v] = worker[v]
    BY <1>1, <1>2, <1>3 DEF PendingFits
  <1>4. CASE v = w /\ worker[w].at = "read_jobs" /\ ReadJobs(w)
    <2> DEFINE run == worker[w].latest[s]
    <2>1. worker'[w].units[s] = UnitState(s, run)
      BY <1>4, ReadMoves
    <2>2. JobOf(s) = s
      BY DEF JobOf
    <2>3. run = NoRun
      <3> SUFFICES ASSUME run # NoRun PROVE FALSE
        OBVIOUS
      <3>1. /\ RunFits(s, run)
            /\ run.reason \notin {"none", "stage_tool_unavailable"} => Skips(s)
        BY <1>4 DEF LatestFits
      <3>2. Tries(s) = {}
        BY <1>2, <2>2, NotTried DEF Rooted
      <3>3. Skips(s)
        BY <1>1, <3>1, <3>2 DEF RunFits, Sound
      <3> QED BY <1>1, <3>3 DEF SkipHasCause, Calm, Sound, Clean
    <2>4. UnitState(s, NoRun) = "pending"
      BY <1>2, <2>2, UnitsAddUp DEF NoRun
    <2> QED BY <1>4, <2>1, <2>3, <2>4
  <1>5. CASE v = w /\ worker[w].at = "act" /\ Acting(w)
    <2>1. PICK t \in Required : SkipStage(w, t) \/ DegradeStage(w, t) \/ QueueStage(w, t)
      BY <1>5 DEF Acting
    <2>2. CASE t = s
      <3>1. ~SkipStage(w, s)
        BY <1>1, NoSkip
      <3>2. ~DegradeStage(w, s)
        BY <1>1 DEF DegradeStage, Sound
      <3>3. ~QueueStage(w, s)
        <4> SUFFICES ASSUME QueueStage(w, s) PROVE FALSE
          OBVIOUS
        <4>1. Enqueue(s)
          BY <1>1 DEF QueueStage, MayEnqueue, Calm
        <4>2. jobs'[s] = NewJob
          BY <1>2, <4>1, Vocabulary DEF Enqueue, TInv, TablesOK
        <4> QED BY <4>2 DEF NewJob, NoJob
      <3> QED BY <2>1, <2>2, <3>1, <3>2, <3>3
    <2>3. CASE t # s
      <3>1. worker'[w].units[s] = worker[w].units[s]
        BY <1>5, <2>1, <2>3, ActMarks
      <3> QED BY <1>1, <1>2, <1>5, <3>1 DEF PendingFits
    <2> QED BY <2>2, <2>3
  <1>6. v # w => worker'[v] = worker[v]
    BY OthersStay DEF TInv, Works
  <1> QED BY <1>3, <1>4, <1>5, <1>6, PathToAct

(* What is still to come has a job that waits or runs, or none yet.        *)
LEMMA ToCome ==
    ASSUME TInv, DecisionFits, Rooted, Calm, NEW w \in Workers, LatestFits(w),
           worker[w].at = "read_jobs", NEW u \in Required, Clean(u), ~Concluded(u), Lacks(w, u)
    PROVE  UnitState(u, worker[w].latest[u]) \in {"running", "pending"}
  <1> DEFINE run == worker[w].latest[u]
             job == jobs[JobOf(u)].status
  <1>1. run.state \in {"none", "running"}
    <2>1. run.state \notin Counts
      BY DEF Lacks
    <2>2. CASE run = NoRun
      BY <2>2 DEF NoRun
    <2>3. CASE run # NoRun
      BY <2>1, <2>3 DEF LatestFits, Clean
    <2> QED BY <2>2, <2>3
  <1>2. JobOf(u) \in JobIds /\ TypeOf(JobOf(u)) = u
    BY Vocabulary DEF JobOf, TypeOf
  <1>3. job \in {"absent", "queued", "running"}
    <2>1. job \in {"absent", "queued", "running", "succeeded", "failed", "cancelled"}
      BY <1>2 DEF TInv, TablesOK, Job
    <2>2. job # "succeeded"
      BY <1>2 DEF Concluded
    <2>3. job # "failed"
      BY <1>2 DEF Clean, WentWrong
    <2>4. job # "cancelled"
      <3>1. decision # "manual_approve"
        BY DEF DecisionFits, Calm
      <3> QED BY <1>2, <3>1 DEF Rooted, RowsFit
    <2> QED BY <2>1, <2>2, <2>3, <2>4
  <1>4. job = "absent" => run = NoRun
    <2> SUFFICES ASSUME job = "absent", run # NoRun PROVE FALSE
      OBVIOUS
    <2>1. Tries(u) = {}
      BY NotTried DEF Rooted
    <2>2. RunFits(u, run)
      BY DEF LatestFits
    <2> QED BY <1>1, <2>1, <2>2 DEF RunFits
  <1>5. UnitState(u, run) = IF job \in {"queued", "running"} THEN "running"
                            ELSE IF job = "absent" /\ run = NoRun THEN "pending"
                            ELSE "failed"
    BY <1>1, UnitsAddUp
  <1> HIDE DEF job
  <1> QED BY <1>3, <1>4, <1>5

LEMMA PendingWaitsStays ==
    ASSUME TInv, DecisionFits, Rooted,
           \A v \in Workers : RunAtHand(v) /\ LatestFits(v) /\ SomeoneComes(v) /\ PendingWaits(v),
           NEW w \in Workers, Works(w), Calm' => Calm
    PROVE  \A v \in Workers : PendingWaits(v)'
  <1> SUFFICES ASSUME NEW v \in Workers, Calm', NEW s \in Required, Sound(s)',
                      worker'[v].at = "act", worker'[v].units[s] = "pending",
                      Lacking(v, s)' # {}
               PROVE  \E u \in Upstream(s) : worker'[v].units[u] \notin Terminal
    BY DEF PendingWaits, Upstream
  <1>1. Calm /\ Sound(s) /\ Upstream(s) \subseteq Required
    BY SoundBefore DEF Upstream
  <1>2. CASE worker'[v] = worker[v]
    <2>1. Lacking(v, s)' = Lacking(v, s)
      BY <1>2 DEF Lacking, Lacks, Upstream
    <2> QED BY <1>1, <1>2, <2>1 DEF PendingWaits
  <1>3. CASE v = w /\ (ReadJobs(w) \/ Acting(w))
    <2>1. worker[w].at \in Reading /\ Lacking(w, s) # {}
      <3>1. worker[w].at \in Reading /\ \A u \in Required : Lacks(w, u)' <=> Lacks(w, u)
        <4>1. ~ReadRuns(w)
          BY <1>3 DEF ReadRuns, ReadJobs, Acting, SkipStage, DegradeStage, QueueStage
        <4> QED BY <1>3, <4>1, ReadingMoves DEF Reading
      <3> QED BY <1>1, <1>3, <3>1 DEF Lacking, Upstream
    <2>2. s # "static"
      BY <2>1, NothingBeforeStatic DEF Lacking
    <2>3. CASE ReadJobs(w)
      <3>1. worker[w].at = "read_jobs"
        BY <2>3 DEF ReadJobs
      <3>2. \A u \in Required : worker'[w].units[u] = UnitState(u, worker[w].latest[u])
        BY <2>3, ReadMoves
      <3>3. jobs[s].status = "absent"
        <4>1. UnitState(s, worker[w].latest[s]) = "pending"
          BY <1>3, <3>2
        <4>2. jobs[JobOf(s)].status = "absent"
          BY <4>1, UnitsAddUp
        <4> QED BY <2>2, <4>2 DEF JobOf
      <3>4. PICK u \in Lacking(w, s) : ~Concluded(u)
        BY <1>1, <2>1, <3>3 DEF SomeoneComes
      <3>5. u \in Upstream(s) /\ u \in Required /\ Clean(u) /\ Lacks(w, u)
        BY <1>1, <3>4 DEF Lacking, Sound
      <3>6. worker'[w].units[u] \in {"running", "pending"}
        BY <1>1, <3>1, <3>2, <3>4, <3>5, ToCome
      <3> QED BY <1>3, <3>5, <3>6 DEF Terminal
    <2>4. CASE Acting(w)
      <3>1. PICK t \in Required : SkipStage(w, t) \/ DegradeStage(w, t) \/ QueueStage(w, t)
        BY <2>4 DEF Acting
      <3>2. /\ worker[w].at = "act" /\ worker[w].units[t] = "pending"
            /\ worker'[w].units[t] \in {"skipped", "degraded", "running"}
            /\ QueueStage(w, t) => worker'[w].units[t] = "running"
            /\ \A u \in Required \ {t} : worker'[w].units[u] = worker[w].units[u]
        BY <1>3, <3>1, ActMarks
      <3>3. worker[w].units[s] = "pending"
        BY <1>3, <3>2
      <3>4. PICK u \in Upstream(s) : worker[w].units[u] \notin Terminal
        BY <1>1, <2>1, <3>2, <3>3 DEF PendingWaits
      <3>5. CASE u # t
        BY <1>1, <1>3, <3>2, <3>4, <3>5
      <3>6. CASE u = t
        <4>1. ~WentWrong(t)'
          BY <3>4, <3>6 DEF Sound, Clean, Upstream
        <4>2. QueueStage(w, t)
          BY <3>1, <4>1, SyntheticIsWrong
        <4> QED BY <1>3, <3>2, <3>4, <3>6, <4>2 DEF Terminal
      <3> QED BY <3>5, <3>6
    <2> QED BY <1>3, <2>3, <2>4
  <1>4. v # w => worker'[v] = worker[v]
    BY OthersStay DEF TInv, Works
  <1> QED BY <1>2, <1>3, <1>4, PathToAct

-----------------------------------------------------------------------------
(* The whole of it.                                                        *)
LEMMA WorkersCareful ==
    ASSUME IInv, RInv, Rooted, Careful, NEW w \in Workers, Works(w)
    PROVE  Rooted' /\ Careful'
  <1>1. /\ TInv /\ DecisionFits
        /\ \A v \in Workers : HasJob(v) /\ RunIsOpen(v) /\ ReadsFit(v)
    BY DEF IInv, RInv, WorkerInOrder
  <1>2. [Next]_vars
    BY DEF Works, Next
  <1>3. Grows
    BY <1>1, StepsGrow DEF Works
  <1>4. /\ OneRun /\ ConcludedFits /\ SkipHasCause
        /\ \A v \in Workers : /\ RunAtHand(v) /\ FirstRun(v) /\ Ended(v) /\ LatestFits(v)
                              /\ OwnIsRead(v) /\ SomeoneComes(v) /\ PendingFits(v) /\ PendingWaits(v)
        /\ \A u, v \in Workers : ReadsInOrder(u, v)
    BY DEF Careful
  <1>5. Rooted'
    <2>1. RowsFit'
      BY <1>2, RowsStayFit DEF Rooted
    <2>2. StartFits'
      BY <1>1, StartStays
    <2>3. RunsFit'
      BY <1>1, <1>4, RunsStayFit
    <2>4. /\ \A v \in Workers : Tried(v)'
          /\ \A u, v \in Workers : TriedApart(u, v)'
      BY <1>1, TriesStay
    <2>5. \A v \in Workers : Advances(v)'
      BY <1>1, AdvancesStay DEF Rooted
    <2> QED BY <2>1, <2>2, <2>3, <2>4, <2>5 DEF Rooted
  <1>6. CASE Calm' /\ ~Calm
    <2>1. Barren'
      BY <1>1, <1>6, CalmBegins
    <2>2. Barren' => Careful'
      BY NothingYet, PTL
    <2> QED BY <1>5, <2>1, <2>2
  <1>7. CASE Calm' => Calm
    <2>1. OneRun'
      BY <1>1, <1>4, <1>7, OneRunStays
    <2>2. ConcludedFits'
      BY <1>1, <1>3, <1>4, <1>7, ConcludedStays
    <2>3. SkipHasCause'
      BY <1>1, <1>4, <1>7, SkipHasCauseStays
    <2>4. \A v \in Workers : RunAtHand(v)' /\ FirstRun(v)' /\ LatestFits(v)'
      BY <1>1, <1>4, <1>7, RunAtHandStays, FirstRunStays, LatestStays
    <2>5. \A v \in Workers : Ended(v)' /\ OwnIsRead(v)'
      BY <1>1, <1>3, <1>4, <1>7, EndedStays, OwnIsReadStays
    <2>6. \A v \in Workers : SomeoneComes(v)'
      BY <1>1, <1>4, <1>7, <2>2, SomeoneComesStays
    <2>7. \A v \in Workers : PendingFits(v)' /\ PendingWaits(v)'
      BY <1>1, <1>4, <1>7, PendingFitsStays, PendingWaitsStays
    <2>8. \A u, v \in Workers : ReadsInOrder(u, v)'
      BY <1>1, <1>4, <1>7, ReadsInOrderStay
    <2>9. Careful'
      BY <2>1, <2>2, <2>3, <2>4, <2>5, <2>6, <2>7, <2>8 DEF Careful
    <2> QED BY <1>5, <2>9
  <1> QED BY <1>6, <1>7

(* A decision of a person leaves the roots as they are, and ends the calm. *)
LEMMA DecisionsCareful ==
    ASSUME IInv, Rooted, Careful, ManualApprove \/ Approve \/ Reject \/ RequestChanges
    PROVE  Rooted' /\ Careful'
  <1>1. TInv /\ jobs \in [JobIds -> Job]
    BY DEF IInv, TInv, TablesOK
  <1>2. worker' = worker /\ gen' = gen /\ advanced' = advanced /\ status' \in Decided
    BY DEF ManualApprove, Approve, Reject, RequestChanges, Decided
  <1>3. ~Calm' /\ status' \notin {"scanning", "pending_review"}
    BY <1>2 DEF Calm, Decided
  <1>4. \A id \in JobIds : /\ jobs'[id].attempts = jobs[id].attempts
                           /\ jobs'[id].status = "absent" <=> jobs[id].status = "absent"
    <2>1. CASE ManualApprove
      <3>1. \A j \in Job : LET k == [j EXCEPT !.status = "cancelled", !.owner = None,
                                              !.lapsed = FALSE]
                           IN  k.status = "cancelled" /\ k.attempts = j.attempts
        BY DEF Job
      <3>2. \A id \in JobIds : jobs[id] \in Job
        BY <1>1
      <3> QED BY <2>1, <3>1, <3>2 DEF ManualApprove
    <2>2. CASE jobs' = jobs
      BY <2>2
    <2> QED BY <2>1, <2>2 DEF Approve, Reject, RequestChanges
  <1>5. \A t \in Required : /\ DOMAIN runs'[t] = DOMAIN runs[t]
                            /\ \A i \in DOMAIN runs[t] :
                                  /\ runs'[t][i].reason = runs[t][i].reason
                                  /\ runs[t][i].state # "running" => runs'[t][i] = runs[t][i]
    <2>1. CASE ManualApprove
      <3> SUFFICES ASSUME NEW t \in Required
                   PROVE  /\ DOMAIN runs'[t] = DOMAIN runs[t]
                          /\ \A i \in DOMAIN runs[t] :
                                /\ runs'[t][i].reason = runs[t][i].reason
                                /\ runs[t][i].state # "running" => runs'[t][i] = runs[t][i]
        OBVIOUS
      <3>1. t \in Types /\ runs[t] \in Seq(Run)
        BY <1>1, Vocabulary DEF TInv, TablesOK, RunsOK
      <3>2. \A i \in DOMAIN runs[t] : runs[t][i] \in Run
        BY <3>1
      <3>3. \A r \in Run : [r EXCEPT !.state = "cancelled"].reason = r.reason
        BY DEF Run
      <3>4. runs'[t] = [i \in DOMAIN runs[t] |-> IF runs[t][i].state = "running"
                                                 THEN [runs[t][i] EXCEPT !.state = "cancelled"]
                                                 ELSE runs[t][i]]
        BY <2>1, <3>1 DEF ManualApprove
      <3> QED BY <3>2, <3>3, <3>4
    <2>2. CASE runs' = runs
      BY <2>2
    <2> QED BY <2>1, <2>2 DEF Approve, Reject, RequestChanges
  <1>6. \A t : Tries(t)' = Tries(t)
    <2> TAKE t
    <2>1. \A m \in JobIds \X (1..Attempts) : m[1] \in JobIds
      OBVIOUS
    <2> QED BY <1>4, <2>1 DEF Tries
  <1>7. Rooted'
    <2>1. RowsFit'
      BY RowsStayFit DEF Rooted, Next, People
    <2>2. StartFits'
      <3>1. NotStarted' => NotStarted
        BY <1>2, <1>4, <1>6, Vocabulary DEF NotStarted, TriedAgain
      <3> QED BY <1>4, <1>5, <3>1 DEF Rooted, StartFits
    <2>3. RunsFit'
      <3> SUFFICES ASSUME NEW t \in Required, NEW i \in DOMAIN runs'[t]
                   PROVE  RunFits(t, runs[t][i])'
        BY DEF RunsFit
      <3>1. RunFits(t, runs[t][i])
        BY <1>5 DEF Rooted, RunsFit
      <3> QED BY <1>5, <1>6, <3>1 DEF RunFits
    <2>4. /\ \A v \in Workers : Tried(v)' /\ Advances(v)'
          /\ \A u, v \in Workers : TriedApart(u, v)'
      <3>1. \A v \in Workers : worker[v].at # "idle" => worker[v].job \in JobIds
        BY <1>1, InHand
      <3> QED BY <1>2, <1>4, <3>1 DEF Rooted, Tried, TriedApart, Advances
    <2> QED BY <2>1, <2>2, <2>3, <2>4 DEF Rooted
  <1>8. Careful'
    <2>1. OneRun' /\ ConcludedFits' /\ SkipHasCause'
      BY <1>3 DEF OneRun, ConcludedFits, SkipHasCause
    <2>2. \A v \in Workers : /\ FirstRun(v)' /\ Ended(v)' /\ OwnIsRead(v)' /\ SomeoneComes(v)'
                             /\ PendingFits(v)' /\ PendingWaits(v)'
      BY <1>3 DEF FirstRun, Ended, OwnIsRead, SomeoneComes, PendingFits, PendingWaits
    <2>3. \A u, v \in Workers : ReadsInOrder(u, v)'
      BY <1>3 DEF ReadsInOrder
    <2>4. ASSUME NEW v \in Workers
          PROVE  RunAtHand(v)'
      <3>1. RunAtHand(v)
        BY DEF Careful
      <3> QED BY <1>2, <1>3, <1>5, <3>1 DEF RunAtHand, Type
    <2>5. ASSUME NEW v \in Workers
          PROVE  LatestFits(v)'
      <3>1. LatestFits(v)
        BY DEF Careful
      <3>2. \A t \in Required : Skips(t) => Skips(t)'
        BY <1>5 DEF Skips
      <3>3. \A t, r : RunFits(t, r) => RunFits(t, r)'
        BY <1>6 DEF RunFits
      <3> QED BY <1>2, <1>3, <3>1, <3>2, <3>3 DEF LatestFits
    <2> QED BY <2>1, <2>2, <2>3, <2>4, <2>5 DEF Careful
  <1> QED BY <1>7, <1>8

(* A retry begins the review anew.                                         *)
LEMMA RetryCareful ==
    ASSUME NothingStale, IInv, Alone, Rooted, Retry
    PROVE  Rooted' /\ Careful'
  <1>1. TInv
    BY DEF IInv
  <1>2. \A w \in Workers : worker'[w].at = "idle"
    <2>1. worker' = worker
      BY DEF Retry
    <2>2. CASE "pause" \notin Events
      BY <2>1, <2>2, NobodyAtRetry
    <2>3. CASE MaxRetries = 0
      BY <1>1, <2>3 DEF Retry, TInv, TablesOK, Gens
    <2> QED BY <2>2, <2>3 DEF NothingStale
  <1>3. \A t \in Required : runs'[t] = <<>>
    BY Vocabulary DEF Retry
  <1>4. \A id \in JobIds : \/ id # (IF manifest THEN "static" ELSE "precheck") /\ jobs'[id] = NoJob
                           \/ id = (IF manifest THEN "static" ELSE "precheck") /\ jobs'[id] = NewJob
    BY DEF Retry
  <1>5. NewJob.status = "queued" /\ NoJob.status = "absent"
    BY DEF NewJob, NoJob
  <1>6. Barren'
    BY <1>2, <1>3, <1>4, <1>5 DEF Barren
  <1>7. Barren' => Careful'
    BY NothingYet, PTL
  <1>8. Rooted'
    <2>1. RowsFit'
      BY RowsStayFit DEF Rooted, Next, People
    <2>2. StartFits'
      <3>1. NotStarted' => jobs'["precheck"].status # "absent"
        BY <1>2 DEF NotStarted, Early, Before
      <3>2. NotStarted' => ~manifest
        BY <1>4, <1>5, <3>1, Vocabulary
      <3> QED BY <1>3, <1>4, <1>5, <3>2 DEF StartFits
    <2>3. RunsFit'
      BY <1>3 DEF RunsFit
    <2>4. /\ \A v \in Workers : Tried(v)' /\ Advances(v)'
          /\ \A u, v \in Workers : TriedApart(u, v)'
      BY <1>2 DEF Tried, TriedApart, Advances, Reconciling
    <2> QED BY <2>1, <2>2, <2>3, <2>4 DEF Rooted
  <1> QED BY <1>6, <1>7, <1>8

LEMMA NothingMovesCareful ==
    ASSUME Rooted, Careful, Release \/ UNCHANGED vars
    PROVE  Rooted' /\ Careful'
  <1>1. UNCHANGED <<advanced, status, gen, decision, runs, jobs, worker>>
    BY DEF Release, vars
  <1>2. \A t : Tries(t)' = Tries(t)
    BY <1>1 DEF Tries
  <1>3. \A t : TriedAgain(t)' <=> TriedAgain(t)
    BY <1>2 DEF TriedAgain
  <1>4. (Calm' <=> Calm) /\ (NotStarted' <=> NotStarted)
    BY <1>1, <1>3 DEF Calm, NotStarted
  <1>5. \A t : /\ Skips(t)' <=> Skips(t)
               /\ WentWrong(t)' <=> WentWrong(t)
               /\ Finishes(t)' <=> Finishes(t)
               /\ Concluded(t)' <=> Concluded(t)
    BY <1>1, <1>3 DEF Skips, WentWrong, Finishes, Completes, Concluded, Type
  <1>6. \A t, r : RunFits(t, r)' <=> RunFits(t, r)
    BY <1>2 DEF RunFits
  <1>7. \A t : (Clean(t)' <=> Clean(t)) /\ (Sound(t)' <=> Sound(t))
    BY <1>5 DEF Clean, Sound, Upstream
  <1>8. \A v \in Workers : \A s : (Lacks(v, s)' <=> Lacks(v, s)) /\ Lacking(v, s)' = Lacking(v, s)
    BY <1>1 DEF Lacks, Lacking, Upstream
  <1>9. Rooted'
    <2>1. RowsFit' /\ StartFits' /\ RunsFit'
      BY <1>1, <1>4, <1>6 DEF Rooted, RowsFit, StartFits, RunsFit
    <2>2. /\ \A v \in Workers : Tried(v)' /\ Advances(v)'
          /\ \A u, v \in Workers : TriedApart(u, v)'
      BY <1>1 DEF Rooted, Tried, TriedApart, Advances
    <2> QED BY <2>1, <2>2 DEF Rooted
  <1>10. Careful'
    <2>1. OneRun' /\ ConcludedFits' /\ SkipHasCause'
      BY <1>1, <1>3, <1>4, <1>5, <1>7 DEF Careful, OneRun, ConcludedFits, SkipHasCause, Upstream
    <2>2. ASSUME NEW v \in Workers
          PROVE  RunAtHand(v)' /\ FirstRun(v)' /\ Ended(v)' /\ LatestFits(v)'
      <3>1. RunAtHand(v) /\ FirstRun(v) /\ Ended(v) /\ LatestFits(v)
        BY DEF Careful
      <3>2. RunAtHand(v)' /\ FirstRun(v)' /\ Ended(v)'
        BY <1>1, <1>3, <1>4, <1>5, <1>7, <3>1 DEF RunAtHand, FirstRun, Ended, Type
      <3>3. LatestFits(v)'
        BY <1>1, <1>4, <1>5, <1>6, <3>1 DEF LatestFits
      <3> QED BY <3>2, <3>3
    <2>3. ASSUME NEW v \in Workers
          PROVE  OwnIsRead(v)' /\ SomeoneComes(v)' /\ PendingFits(v)' /\ PendingWaits(v)'
      <3>1. OwnIsRead(v) /\ SomeoneComes(v) /\ PendingFits(v) /\ PendingWaits(v)
        BY DEF Careful
      <3>2. OwnIsRead(v)' /\ SomeoneComes(v)'
        BY <1>1, <1>4, <1>5, <1>7, <1>8, <3>1 DEF OwnIsRead, SomeoneComes, Type
      <3>3. PendingFits(v)' /\ PendingWaits(v)'
        BY <1>1, <1>4, <1>7, <1>8, <3>1 DEF PendingFits, PendingWaits, Upstream
      <3> QED BY <3>2, <3>3
    <2>4. ASSUME NEW u \in Workers, NEW v \in Workers
          PROVE  ReadsInOrder(u, v)'
      <3>1. ReadsInOrder(u, v)
        BY DEF Careful
      <3> QED BY <1>1, <1>4, <1>7, <1>8, <3>1 DEF ReadsInOrder
    <2> QED BY <2>1, <2>2, <2>3, <2>4 DEF Careful
  <1> QED BY <1>9, <1>10

LEMMA CareStays ==
    ASSUME NothingStale, IInv, Alone, RInv, Rooted, Careful, [Next]_vars
    PROVE  Rooted' /\ Careful'
  <1>1. CASE \E w \in Workers : WorkerStep(w) \/ Pause(w) \/ Crash(w) \/ Outage(w)
    BY <1>1, WorkersCareful DEF Works
  <1>2. CASE ManualApprove \/ Approve \/ Reject \/ RequestChanges
    BY <1>2, DecisionsCareful
  <1>3. CASE Retry
    BY <1>3, RetryCareful
  <1>4. CASE Release \/ UNCHANGED vars
    BY <1>4, NothingMovesCareful
  <1> QED BY <1>1, <1>2, <1>3, <1>4, Zenon DEF Next, People

LEMMA CareAtInit == Init => Rooted /\ Careful
  <1> SUFFICES ASSUME Init PROVE Rooted /\ Careful
    OBVIOUS
  <1>1. \A w \in Workers : worker[w].at = "idle"
    BY DEF Init, Idle
  <1>2. \A t \in Required : runs[t] = <<>>
    BY Vocabulary DEF Init
  <1>3. \A id \in JobIds : jobs[id] = IF id = "precheck" THEN NewJob ELSE NoJob
    BY DEF Init
  <1>4. /\ NewJob.status = "queued" /\ NewJob.attempts = 0
        /\ NoJob.status = "absent" /\ NoJob.attempts = 0
    BY DEF NewJob, NoJob
  <1>5. Barren
    BY <1>1, <1>2, <1>3, <1>4 DEF Barren
  <1>6. Rooted
    <2>1. RowsFit /\ StartFits /\ RunsFit
      BY <1>2, <1>3, <1>4 DEF RowsFit, StartFits, RunsFit
    <2> QED BY <1>1, <2>1 DEF Rooted, Tried, TriedApart, Advances, Reconciling
  <1> QED BY <1>5, <1>6, NothingYet

(* While a review goes on, a stage that could be executed is skipped only  *)
(* if something upstream of it went wrong or precheck had to be tried      *)
(* again, whatever the stages, their phases and the reconciles that run at *)
(* the same time, where no worker that was stalled past its lease comes    *)
(* back to an attempt that is not its own (orchestration.py, reconcile,    *)
(* _unit_state; worker.py).                                                *)
THEOREM SkipsHaveACause ==
    ASSUME NothingStale
    PROVE  Spec => []SkipHasCause
  <1>1. Init => Alone /\ RInv /\ Rooted /\ Careful
    BY OrderAtInit, CareAtInit
  <1>2. IInv /\ Alone /\ RInv /\ Rooted /\ Careful /\ [Next]_vars =>
           (Alone /\ RInv /\ Rooted /\ Careful)'
    BY AloneStays, OrderStays, CareStays
  <1>3. Careful => SkipHasCause
    BY DEF Careful
  <1> QED BY <1>1, <1>2, <1>3, Invariance, PTL DEF Spec
=============================================================================
