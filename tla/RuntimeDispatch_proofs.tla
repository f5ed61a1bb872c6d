----------------------- MODULE RuntimeDispatch_proofs -----------------------
(***************************************************************************)
(* Proofs about RuntimeDispatch, for any number of runners, workers,       *)
(* attempts, polls, retries and events.                                    *)
(***************************************************************************)
EXTENDS RuntimeDispatch, FiniteSetTheorems, TLAPS

(* The first generation is one, and a generation's jobs are jobs.          *)
LEMMA GensAndJobs ==
    /\ 1 \in Gens
    /\ \A id \in JobIds : id[1] \in Gens /\ id[2] \in 0..(MaxPolls + 1)
    /\ \A g \in Gens, n \in 0..(MaxPolls + 1) : <<g, n>> \in JobIds
  BY ConstantsAssumption, SMT DEF Gens, JobIds

(* What is written into a row of runtime_dispatches makes another row.     *)
LEMMA DispatchRows ==
    ASSUME NEW d \in Dispatch
    PROVE  /\ \A b \in BOOLEAN : [d EXCEPT !.lapsed = b] \in Dispatch
           /\ [d EXCEPT !.collected = TRUE] \in Dispatch
           /\ [d EXCEPT !.status = "queued"] \in Dispatch
           /\ [d EXCEPT !.status = "cancelled", !.owner = None, !.lapsed = FALSE] \in Dispatch
           /\ \A s \in Ended, k \in 0..MaxAttempts :
                 [d EXCEPT !.status = s, !.key = k, !.owner = None, !.lapsed = FALSE] \in Dispatch
           /\ d.attempts < MaxAttempts => \A r \in Runners :
                 [d EXCEPT !.status = "running", !.owner = r, !.lapsed = FALSE,
                           !.attempts = @ + 1] \in Dispatch
  <1> USE DEF Dispatch, Open, Ended
  <1>1. \A b \in BOOLEAN : [d EXCEPT !.lapsed = b] \in Dispatch
    OBVIOUS
  <1>2. [d EXCEPT !.collected = TRUE] \in Dispatch /\ [d EXCEPT !.status = "queued"] \in Dispatch
    OBVIOUS
  <1>3. [d EXCEPT !.status = "cancelled", !.owner = None, !.lapsed = FALSE] \in Dispatch
    OBVIOUS
  <1>4. ASSUME NEW s \in Ended, NEW k \in 0..MaxAttempts
        PROVE  [d EXCEPT !.status = s, !.key = k, !.owner = None, !.lapsed = FALSE] \in Dispatch
    OBVIOUS
  <1>5. ASSUME d.attempts < MaxAttempts, NEW r \in Runners
        PROVE  [d EXCEPT !.status = "running", !.owner = r, !.lapsed = FALSE,
                         !.attempts = @ + 1] \in Dispatch
    <2>1. d.attempts + 1 \in 0..MaxAttempts
      BY <1>5, ConstantsAssumption
    <2> QED BY <1>5, <2>1
  <1> QED BY <1>1, <1>2, <1>3, <1>4, <1>5, Zenon

(* No row yet is a row too.                                                *)
LEMMA NoRow == NoDispatch \in Dispatch
  BY ConstantsAssumption DEF NoDispatch, Dispatch, Open, Ended

(* The same of artifact_jobs.                                              *)
LEMMA NoJobs == NoJob \in Job /\ NewJob \in Job
  <1>1. NoJob \in Job
    BY ConstantsAssumption, SMT DEF NoJob, Job
  <1>2. \A j \in Job : [j EXCEPT !.status = "queued"] \in Job
    BY SMT DEF Job
  <1> QED BY <1>1, <1>2, Zenon DEF NewJob

LEMMA JobRows ==
    ASSUME NEW j \in Job
    PROVE  /\ [j EXCEPT !.lapsed = TRUE] \in Job
           /\ \A s \in {"succeeded", "cancelled"} : [j EXCEPT !.status = s, !.owner = None] \in Job
           /\ \A s \in {"queued", "failed"} :
                 [j EXCEPT !.status = s, !.owner = None, !.lapsed = FALSE] \in Job
           /\ j.attempts < JobAttempts => \A w \in Workers :
                 [status |-> "running", attempts |-> j.attempts + 1, owner |-> w,
                  lapsed |-> FALSE] \in Job
  <1> USE DEF Job
  <1>1. [j EXCEPT !.lapsed = TRUE] \in Job
    OBVIOUS
  <1>2. \A s \in {"succeeded", "cancelled"} : [j EXCEPT !.status = s, !.owner = None] \in Job
    OBVIOUS
  <1>3. \A s \in {"queued", "failed"} :
           [j EXCEPT !.status = s, !.owner = None, !.lapsed = FALSE] \in Job
    OBVIOUS
  <1>4. ASSUME j.attempts < JobAttempts, NEW w \in Workers
        PROVE  [status |-> "running", attempts |-> j.attempts + 1, owner |-> w,
                lapsed |-> FALSE] \in Job
    <2>1. j.attempts + 1 \in 0..JobAttempts
      BY <1>4, ConstantsAssumption
    <2> QED BY <2>1
  <1> QED BY <1>1, <1>2, <1>3, <1>4, Zenon

(* What a worker remembers stays within its type.                          *)
LEMMA WorkerMemory ==
    ASSUME NEW h \in WorkerState
    PROVE  /\ \A s \in Stages : [h EXCEPT !.at = s] \in WorkerState
           /\ \A b \in BOOLEAN : [h EXCEPT !.at = "record", !.retry = b] \in WorkerState
           /\ \A s \in Stages, g \in Gens : [h EXCEPT !.at = s, !.run = g] \in WorkerState
           /\ \A n \in 0..(MaxPolls + 1) : [h EXCEPT !.at = "enqueue", !.next = n] \in WorkerState
           /\ \A d \in Dispatch : [h EXCEPT !.at = "collect_read", !.seen = d] \in WorkerState
           /\ \A v \in {"none"} \cup Ended :
                 [h EXCEPT !.at = "collect_commit", !.verdict = v] \in WorkerState
  <1> USE DEF WorkerState
  <1>0. {"record", "enqueue", "collect_read", "collect_commit"} \subseteq Stages
    BY DEF Stages
  <1>1. \A s \in Stages : [h EXCEPT !.at = s] \in WorkerState
    OBVIOUS
  <1>2. \A b \in BOOLEAN : [h EXCEPT !.at = "record", !.retry = b] \in WorkerState
    BY <1>0
  <1>3. \A s \in Stages, g \in Gens : [h EXCEPT !.at = s, !.run = g] \in WorkerState
    OBVIOUS
  <1>4. \A n \in 0..(MaxPolls + 1) : [h EXCEPT !.at = "enqueue", !.next = n] \in WorkerState
    BY <1>0
  <1>5. \A d \in Dispatch : [h EXCEPT !.at = "collect_read", !.seen = d] \in WorkerState
    BY <1>0
  <1>6. \A v \in {"none"} \cup Ended :
           [h EXCEPT !.at = "collect_commit", !.verdict = v] \in WorkerState
    BY <1>0
  <1> QED BY <1>1, <1>2, <1>3, <1>4, <1>5, <1>6, Zenon

(* An idle worker remembers nothing, and a claim starts from there.        *)
LEMMA IdleMemory ==
    /\ Idle \in WorkerState
    /\ \A id \in JobIds, n \in 0..JobAttempts :
          [Idle EXCEPT !.job = id, !.at = "begin", !.run = id[1], !.tries = n] \in WorkerState
  <1>1. {"idle", "begin"} \subseteq Stages
    BY DEF Stages
  <1>2. Idle \in WorkerState
    <2>1. 0 \in 0..JobAttempts /\ 0 \in 0..(MaxPolls + 1)
      BY ConstantsAssumption
    <2> QED BY <1>1, <2>1, GensAndJobs, NoRow, SMT DEF Idle, WorkerState
  <1>3. ASSUME NEW h \in WorkerState
        PROVE  /\ \A j \in JobIds : [h EXCEPT !.job = j] \in WorkerState
               /\ \A s \in Stages : [h EXCEPT !.at = s] \in WorkerState
               /\ \A g \in Gens : [h EXCEPT !.run = g] \in WorkerState
               /\ \A n \in 0..JobAttempts : [h EXCEPT !.tries = n] \in WorkerState
    <2> USE DEF WorkerState
    <2>1. \A j \in JobIds : [h EXCEPT !.job = j] \in WorkerState
      OBVIOUS
    <2>2. \A s \in Stages : [h EXCEPT !.at = s] \in WorkerState
      OBVIOUS
    <2>3. \A g \in Gens : [h EXCEPT !.run = g] \in WorkerState
      OBVIOUS
    <2>4. \A n \in 0..JobAttempts : [h EXCEPT !.tries = n] \in WorkerState
      OBVIOUS
    <2> QED BY <2>1, <2>2, <2>3, <2>4, Zenon
  <1>4. ASSUME NEW id \in JobIds, NEW n \in 0..JobAttempts
        PROVE  [Idle EXCEPT !.job = id, !.at = "begin", !.run = id[1], !.tries = n]
                  \in WorkerState
    <2>1. id[1] \in Gens /\ "begin" \in Stages
      BY <1>1, GensAndJobs
    <2> QED BY <1>2, <1>3, <2>1, Zenon
  <1> QED BY <1>2, <1>4, Zenon

(* A task stays one wherever it moves.                                     *)
LEMMA TaskMoves ==
    ASSUME NEW t \in Task
    PROVE  /\ \A at \in {"execute", "renew", "store", "complete", "report"},
                 o \in {"none", "passed", "broken", "failed", "timed_out", "cancelled"} :
                    [t EXCEPT !.at = at, !.outcome = o] \in Task
           /\ t.gen \in Gens /\ t.attempt \in Attempts /\ t.runner \in Runners
  BY DEF Task

(* A worker moves to a stage and keeps its job; nothing that another       *)
(* worker holds changes.                                                   *)
Moves(w, at) ==
    /\ worker' \in [Workers -> WorkerState]
    /\ worker'[w].at = at
    /\ worker'[w].job = worker[w].job
    /\ \A v \in Workers : v # w => worker'[v] = worker[v]

(* The ways to move: on, to a failure, to the next job to queue, with a    *)
(* run, with the row it read, with a verdict.                              *)
LEMMA GoMoves ==
    ASSUME TypeOK, NEW w \in Workers, NEW s \in Stages,
           Go(w, s)
    PROVE  /\ Moves(w, s)
           /\ worker'[w].run = worker[w].run
           /\ worker'[w].seen = worker[w].seen
           /\ worker'[w].verdict = worker[w].verdict
  <1> DEFINE h == [worker[w] EXCEPT !.at = s]
  <1>1. worker[w] \in WorkerState /\ worker \in [Workers -> WorkerState]
    BY DEF TypeOK
  <1>2. h \in WorkerState
    BY <1>1, WorkerMemory, Zenon
  <1>3. worker' = [worker EXCEPT ![w] = h]
    BY DEF Go, Raise
  <1>4. /\ h.at = s /\ h.job = worker[w].job
        /\ h.run = worker[w].run
        /\ h.seen = worker[w].seen
        /\ h.verdict = worker[w].verdict
    BY <1>1 DEF WorkerState
  <1> HIDE DEF h
  <1> QED BY <1>1, <1>2, <1>3, <1>4 DEF Moves

LEMMA RaiseMoves ==
    ASSUME TypeOK, NEW w \in Workers, NEW b \in BOOLEAN,
           Raise(w, b)
    PROVE  /\ Moves(w, "record")
           /\ worker'[w].run = worker[w].run
  <1> DEFINE h == [worker[w] EXCEPT !.at = "record", !.retry = b]
  <1>1. worker[w] \in WorkerState /\ worker \in [Workers -> WorkerState]
    BY DEF TypeOK
  <1>2. h \in WorkerState
    BY <1>1, WorkerMemory, Zenon
  <1>3. worker' = [worker EXCEPT ![w] = h]
    BY DEF Go, Raise
  <1>4. /\ h.at = "record" /\ h.job = worker[w].job
        /\ h.run = worker[w].run
    BY <1>1 DEF WorkerState
  <1> HIDE DEF h
  <1> QED BY <1>1, <1>2, <1>3, <1>4 DEF Moves

LEMMA EnqueueMoves ==
    ASSUME TypeOK, NEW w \in Workers, NEW n \in 0..(MaxPolls + 1),
           worker' = [worker EXCEPT ![w] = [@ EXCEPT !.at = "enqueue", !.next = n]]
    PROVE  /\ Moves(w, "enqueue")
           /\ worker'[w].run = worker[w].run
           /\ worker'[w].next = n
  <1> DEFINE h == [worker[w] EXCEPT !.at = "enqueue", !.next = n]
  <1>1. worker[w] \in WorkerState /\ worker \in [Workers -> WorkerState]
    BY DEF TypeOK
  <1>2. h \in WorkerState
    BY <1>1, WorkerMemory, Zenon
  <1>3. worker' = [worker EXCEPT ![w] = h]
    BY DEF Go, Raise
  <1>4. /\ h.at = "enqueue" /\ h.job = worker[w].job
        /\ h.run = worker[w].run
        /\ h.next = n
    BY <1>1 DEF WorkerState
  <1> HIDE DEF h
  <1> QED BY <1>1, <1>2, <1>3, <1>4 DEF Moves

LEMMA RunMoves ==
    ASSUME TypeOK, NEW w \in Workers, NEW s \in Stages, NEW g \in Gens,
           worker' = [worker EXCEPT ![w] = [@ EXCEPT !.at = s, !.run = g]]
    PROVE  /\ Moves(w, s)
           /\ worker'[w].run = g
  <1> DEFINE h == [worker[w] EXCEPT !.at = s, !.run = g]
  <1>1. worker[w] \in WorkerState /\ worker \in [Workers -> WorkerState]
    BY DEF TypeOK
  <1>2. h \in WorkerState
    BY <1>1, WorkerMemory, Zenon
  <1>3. worker' = [worker EXCEPT ![w] = h]
    BY DEF Go, Raise
  <1>4. /\ h.at = s /\ h.job = worker[w].job
        /\ h.run = g
    BY <1>1 DEF WorkerState
  <1> HIDE DEF h
  <1> QED BY <1>1, <1>2, <1>3, <1>4 DEF Moves

LEMMA SeenMoves ==
    ASSUME TypeOK, NEW w \in Workers, NEW d \in Dispatch,
           worker' = [worker EXCEPT ![w] = [@ EXCEPT !.at = "collect_read", !.seen = d]]
    PROVE  /\ Moves(w, "collect_read")
           /\ worker'[w].run = worker[w].run
           /\ worker'[w].seen = d
  <1> DEFINE h == [worker[w] EXCEPT !.at = "collect_read", !.seen = d]
  <1>1. worker[w] \in WorkerState /\ worker \in [Workers -> WorkerState]
    BY DEF TypeOK
  <1>2. h \in WorkerState
    BY <1>1, WorkerMemory, Zenon
  <1>3. worker' = [worker EXCEPT ![w] = h]
    BY DEF Go, Raise
  <1>4. /\ h.at = "collect_read" /\ h.job = worker[w].job
        /\ h.run = worker[w].run
        /\ h.seen = d
    BY <1>1 DEF WorkerState
  <1> HIDE DEF h
  <1> QED BY <1>1, <1>2, <1>3, <1>4 DEF Moves

LEMMA VerdictMoves ==
    ASSUME TypeOK, NEW w \in Workers, NEW v \in {"none"} \cup Ended,
           worker' = [worker EXCEPT ![w] = [@ EXCEPT !.at = "collect_commit", !.verdict = v]]
    PROVE  /\ Moves(w, "collect_commit")
           /\ worker'[w].run = worker[w].run
           /\ worker'[w].seen = worker[w].seen
           /\ worker'[w].verdict = v
  <1> DEFINE h == [worker[w] EXCEPT !.at = "collect_commit", !.verdict = v]
  <1>1. worker[w] \in WorkerState /\ worker \in [Workers -> WorkerState]
    BY DEF TypeOK
  <1>2. h \in WorkerState
    BY <1>1, WorkerMemory, Zenon
  <1>3. worker' = [worker EXCEPT ![w] = h]
    BY DEF Go, Raise
  <1>4. /\ h.at = "collect_commit" /\ h.job = worker[w].job
        /\ h.run = worker[w].run
        /\ h.seen = worker[w].seen
        /\ h.verdict = v
    BY <1>1 DEF WorkerState
  <1> HIDE DEF h
  <1> QED BY <1>1, <1>2, <1>3, <1>4 DEF Moves

(* An event leaves the count of events within its bound.                   *)
LEMMA HappensIsTyped ==
    ASSUME TypeOK, NEW kind, Happens(kind)
    PROVE  happened' \in 0..MaxEvents
  BY ConstantsAssumption DEF TypeOK, Happens

(* A task that moves leaves the tasks of its kind.                         *)
LEMMA MoveIsTyped ==
    ASSUME TypeOK, NEW t \in tasks,
           NEW at \in {"execute", "renew", "store", "complete", "report"},
           NEW o \in {"none", "passed", "broken", "failed", "timed_out", "cancelled"}
    PROVE  MoveTo(t, at, o) \subseteq Task
  <1>1. t \in Task /\ tasks \subseteq Task
    BY DEF TypeOK
  <1>2. [t EXCEPT !.at = at, !.outcome = o] \in Task
    BY <1>1, TaskMoves, Zenon
  <1> QED BY <1>1, <1>2, Zenon DEF MoveTo

(* The rows that an insertion leaves are rows of artifact_jobs.            *)
LEMMA InsertIsTyped ==
    ASSUME TypeOK, NEW id \in JobIds, Insert(id)
    PROVE  jobs' \in [JobIds -> Job]
  BY NoJobs DEF TypeOK, Insert

(* The variables start within their types.                                 *)
THEOREM InitTypeOK == Init => TypeOK
  <1> SUFFICES ASSUME Init PROVE TypeOK
    OBVIOUS
  <1> USE DEF Init
  <1>1. gen \in Gens /\ happened \in 0..MaxEvents
    BY GensAndJobs, ConstantsAssumption
  <1>2. dispatch \in [Gens -> Dispatch] /\ jobs \in [JobIds -> Job]
        /\ worker \in [Workers -> WorkerState]
    BY NoRow, NoJobs, IdleMemory
  <1>3. run \in [Gens -> {"none", "running"} \cup Ended]
        /\ result \in [Gens -> [Attempts -> {"none", "passed", "broken"}]]
    OBVIOUS
  <1> QED BY <1>1, <1>2, <1>3 DEF TypeOK, Reviewable

(* What the types rest on: only a result is renewed, stored or completed,  *)
(* only a failure is reported, and a worker that is not idle holds a job.  *)
Fits(at, o) ==
    /\ at \in {"renew", "store", "complete"} => o \in {"passed", "broken"}
    /\ at = "report" => o \in {"failed", "timed_out", "cancelled"}

OutcomesFit == \A t \in tasks : Fits(t.at, t.outcome)
WorkersHaveJobs == \A w \in Workers : worker[w].at # "idle" => worker[w].job \in JobIds

TInv == TypeOK /\ OutcomesFit /\ WorkersHaveJobs

(* A task that moves fits its outcome where it is.                         *)
LEMMA MoveFits ==
    ASSUME TypeOK, OutcomesFit, NEW t \in tasks, NEW at, NEW o,
           Fits(at, o), tasks' = MoveTo(t, at, o)
    PROVE  OutcomesFit'
  <1>1. t \in Task
    BY DEF TypeOK
  <1>2. [t EXCEPT !.at = at, !.outcome = o].at = at
        /\ [t EXCEPT !.at = at, !.outcome = o].outcome = o
    BY <1>1 DEF Task
  <1>3. ASSUME NEW u \in tasks' PROVE Fits(u.at, u.outcome)
    <2>1. CASE u \in tasks
      BY <2>1 DEF OutcomesFit
    <2>2. CASE u = [t EXCEPT !.at = at, !.outcome = o]
      BY <1>2, <1>3, <2>2
    <2> QED BY <2>1, <2>2, Zenon DEF MoveTo
  <1> QED BY <1>3 DEF OutcomesFit

(* The runners' steps keep the types and what they rest on.                *)
LEMMA RunnerTInv ==
    ASSUME TInv,
           \/ \E r \in Runners : RunnerStep(r) \/ RunnerCrash(r)
           \/ \E t \in tasks : Heartbeat(t) \/ Shutdown(t)
           \/ \E g \in Gens : DispatchLapses(g)
    PROVE  TInv'
  <1>0. /\ TypeOK /\ OutcomesFit /\ WorkersHaveJobs
        /\ tasks \subseteq Task /\ dispatch \in [Gens -> Dispatch] /\ happened \in 0..MaxEvents
        /\ \A t \in tasks : t.gen \in Gens /\ t.attempt \in Attempts /\ t.runner \in Runners
    BY TaskMoves DEF TInv, TypeOK
  <1>a. worker' = worker => WorkersHaveJobs'
    BY <1>0 DEF WorkersHaveJobs
  <1>b. tasks' \subseteq tasks => OutcomesFit'
    BY <1>0 DEF OutcomesFit
  <1>1. ASSUME NEW r \in Runners, NEW g \in Gens, RunnerClaim(r, g) PROVE TInv'
    <2>1. dispatch[g] \in Dispatch /\ dispatch[g].attempts < MaxAttempts
      BY <1>0, <1>1 DEF RunnerClaim
    <2>2. dispatch[g].attempts + 1 \in Attempts
      BY <2>1, ConstantsAssumption DEF Dispatch, Attempts
    <2>3. dispatch' \in [Gens -> Dispatch]
      <3>1. [dispatch[g] EXCEPT !.status = "running", !.owner = r, !.lapsed = FALSE,
                                !.attempts = @ + 1] \in Dispatch
        BY <2>1, DispatchRows, Zenon
      <3> QED BY <1>0, <1>1, <3>1 DEF RunnerClaim
    <2>4. tasks' \subseteq Task
      BY <1>0, <1>1, <2>2 DEF RunnerClaim, Task
    <2>5. OutcomesFit'
      BY <1>0, <1>1 DEF RunnerClaim, OutcomesFit, Fits
    <2>6. TypeOK' /\ worker' = worker
      BY <1>0, <1>1, <2>3, <2>4 DEF RunnerClaim, TypeOK
    <2> QED BY <2>5, <2>6, <1>a DEF TInv
  <1>2. ASSUME NEW t \in tasks, Execute(t) PROVE TInv'
    <2>1. PICK at \in {"renew", "report"},
               o \in {"passed", "broken", "failed", "timed_out"} :
             /\ tasks' = MoveTo(t, at, o)
             /\ Fits(at, o)
      BY <1>2 DEF Execute, Fits
    <2>2. tasks' \subseteq Task
      BY <1>0, <2>1, MoveIsTyped
    <2>3. OutcomesFit'
      BY <1>0, <2>1, MoveFits
    <2>4. TypeOK' /\ worker' = worker
      BY <1>0, <1>2, <2>2 DEF Execute, TypeOK
    <2> QED BY <2>3, <2>4, <1>a DEF TInv
  <1>3. ASSUME NEW t \in tasks, RenewBeforeStore(t) PROVE TInv'
    <2>1. t \in Task /\ t.outcome \in {"passed", "broken"}
      BY <1>0, <1>3 DEF RenewBeforeStore, OutcomesFit, Fits
    <2>2. MoveTo(t, "store", t.outcome) \subseteq Task
      BY <1>0, <2>1, MoveIsTyped
    <2>3. dispatch' \in [Gens -> Dispatch]
      <3>1. [dispatch[t.gen] EXCEPT !.lapsed = FALSE] \in Dispatch
        BY <1>0, DispatchRows
      <3> QED BY <1>0, <1>3, <3>1 DEF RenewBeforeStore
    <2>4. OutcomesFit'
      <3>1. CASE Holds(t)
        BY <1>0, <1>3, <2>1, <3>1, MoveFits DEF RenewBeforeStore, Fits
      <3> QED BY <1>3, <3>1, <1>b DEF RenewBeforeStore
    <2>5. TypeOK' /\ worker' = worker
      BY <1>0, <1>3, <2>2, <2>3 DEF RenewBeforeStore, TypeOK
    <2> QED BY <2>4, <2>5, <1>a DEF TInv
  <1>4. ASSUME NEW t \in tasks, StoreResult(t) PROVE TInv'
    <2>1. t \in Task /\ t.outcome \in {"passed", "broken"} /\ worker' = worker
      BY <1>0, <1>4 DEF StoreResult, OutcomesFit, Fits
    <2>2. MoveTo(t, "complete", t.outcome) \subseteq Task
          /\ MoveTo(t, "report", "failed") \subseteq Task
      BY <1>0, <2>1, MoveIsTyped
    <2>3. CASE Happens("storage") /\ tasks' = MoveTo(t, "report", "failed") /\ UNCHANGED result
      <3>1. OutcomesFit'
        BY <1>0, <2>3, MoveFits DEF Fits
      <3>2. TypeOK'
        BY <1>0, <1>4, <2>2, <2>3, HappensIsTyped DEF StoreResult, TypeOK
      <3> QED BY <2>1, <3>1, <3>2, <1>a DEF TInv
    <2>4. CASE /\ result' = [result EXCEPT ![t.gen][t.attempt] = t.outcome]
               /\ tasks' = MoveTo(t, "complete", t.outcome)
               /\ UNCHANGED happened
      <3>1. OutcomesFit'
        BY <1>0, <2>1, <2>4, MoveFits DEF Fits
      <3>2. result' \in [Gens -> [Attempts -> {"none", "passed", "broken"}]]
        BY <1>0, <2>1, <2>4 DEF TypeOK
      <3>3. TypeOK'
        BY <1>0, <1>4, <2>2, <2>4, <3>2 DEF StoreResult, TypeOK
      <3> QED BY <2>1, <3>1, <3>3, <1>a DEF TInv
    <2> QED BY <1>4, <2>3, <2>4 DEF StoreResult
  <1>5. ASSUME NEW t \in tasks, NEW status \in Ended, NEW key \in 0..MaxAttempts,
               Settle(t, status, key)
        PROVE  TInv'
    <2>1. [dispatch[t.gen] EXCEPT !.status = status, !.key = key, !.owner = None,
                                  !.lapsed = FALSE] \in Dispatch
      BY <1>0, DispatchRows
    <2>2. dispatch' \in [Gens -> Dispatch]
      BY <1>0, <1>5, <2>1 DEF Settle
    <2>3. TypeOK' /\ worker' = worker /\ tasks' \subseteq tasks
      BY <1>0, <1>5, <2>2 DEF Settle, TypeOK
    <2> QED BY <2>3, <1>a, <1>b DEF TInv
  <1>6. ASSUME NEW t \in tasks, CompleteResult(t) PROVE TInv'
    <2>1. t.attempt \in 0..MaxAttempts
      BY <1>0, ConstantsAssumption DEF Attempts
    <2> QED BY <1>5, <1>6, <2>1 DEF CompleteResult, Ended
  <1>7. ASSUME NEW t \in tasks, CompleteFailure(t) PROVE TInv'
    <2>1. t.outcome \in Ended /\ 0 \in 0..MaxAttempts
      BY <1>0, <1>7, ConstantsAssumption 
         DEF CompleteFailure, OutcomesFit, Fits, Ended
    <2> QED BY <1>5, <1>7, <2>1 DEF CompleteFailure
  <1>8. ASSUME NEW r \in Runners, RunnerCrash(r) PROVE TInv'
    <2>1. TypeOK' /\ worker' = worker /\ tasks' \subseteq tasks
      BY <1>0, <1>8, HappensIsTyped DEF RunnerCrash, TypeOK
    <2> QED BY <2>1, <1>a, <1>b DEF TInv
  <1>9. ASSUME NEW t \in tasks, Heartbeat(t) PROVE TInv'
    <2>1. [dispatch[t.gen] EXCEPT !.lapsed = FALSE] \in Dispatch
      BY <1>0, DispatchRows
    <2>2. dispatch' \in [Gens -> Dispatch]
      BY <1>0, <1>9, <2>1 DEF Heartbeat
    <2>3. TypeOK' /\ worker' = worker /\ tasks' \subseteq tasks
      BY <1>0, <1>9, <2>2 DEF Heartbeat, TypeOK
    <2> QED BY <2>3, <1>a, <1>b DEF TInv
  <1>10. ASSUME NEW t \in tasks, Shutdown(t) PROVE TInv'
    <2>1. MoveTo(t, "report", "cancelled") \subseteq Task
      BY <1>0, MoveIsTyped
    <2>2. TypeOK' /\ worker' = worker
      BY <1>0, <1>10, <2>1, HappensIsTyped DEF Shutdown, TypeOK
    <2>3. OutcomesFit'
      BY <1>0, <1>10, MoveFits DEF Shutdown, Fits
    <2> QED BY <2>2, <2>3, <1>a DEF TInv
  <1>11. ASSUME NEW g \in Gens, DispatchLapses(g) PROVE TInv'
    <2>1. [dispatch[g] EXCEPT !.lapsed = TRUE] \in Dispatch
      BY <1>0, DispatchRows
    <2>2. dispatch' \in [Gens -> Dispatch] /\ happened' \in 0..MaxEvents
      BY <1>0, <1>11, <2>1, HappensIsTyped DEF DispatchLapses
    <2>3. TypeOK' /\ worker' = worker /\ tasks' \subseteq tasks
      BY <1>0, <1>11, <2>2 DEF DispatchLapses, TypeOK
    <2> QED BY <2>3, <1>a, <1>b DEF TInv
  <1> QED BY <1>1, <1>2, <1>3, <1>4, <1>6, <1>7, <1>8, <1>9, <1>10, <1>11 DEF RunnerStep

(* A worker that had a job still has it after a move, and an idle worker   *)
(* needs none.                                                             *)
LEMMA MovesFit ==
    ASSUME TInv, NEW w \in Workers, NEW s, Moves(w, s), worker[w].at # "idle"
    PROVE  worker' \in [Workers -> WorkerState] /\ WorkersHaveJobs'
  BY DEF TInv, Moves, WorkersHaveJobs

LEMMA RestFits ==
    ASSUME TInv, NEW w \in Workers, worker' = [worker EXCEPT ![w] = Idle]
    PROVE  /\ worker' \in [Workers -> WorkerState]
           /\ WorkersHaveJobs'
           /\ worker'[w].at = "idle"
           /\ \A v \in Workers : v # w => worker'[v] = worker[v]
  <1>1. Idle \in WorkerState /\ Idle.at = "idle"
    BY IdleMemory DEF Idle
  <1> QED BY <1>1 DEF TInv, TypeOK, WorkersHaveJobs

LEMMA ClaimFits ==
    ASSUME TInv, NEW w \in Workers, NEW id \in JobIds, NEW n \in 0..JobAttempts,
           worker' = [worker EXCEPT ![w] = [Idle EXCEPT !.job = id, !.at = "begin",
                                                        !.run = id[1], !.tries = n]]
    PROVE  /\ worker' \in [Workers -> WorkerState]
           /\ WorkersHaveJobs'
           /\ worker'[w].at = "begin" /\ worker'[w].job = id /\ worker'[w].run = id[1]
           /\ \A v \in Workers : v # w => worker'[v] = worker[v]
  <1> DEFINE h == [Idle EXCEPT !.job = id, !.at = "begin", !.run = id[1], !.tries = n]
  <1>1. h \in WorkerState
    BY IdleMemory
  <1>2. h.at = "begin" /\ h.job = id /\ h.run = id[1]
    BY DEF Idle
  <1>3. worker' = [worker EXCEPT ![w] = h]
    OBVIOUS
  <1> HIDE DEF h
  <1> QED BY <1>1, <1>2, <1>3 DEF TInv, TypeOK, WorkersHaveJobs

(* A worker moves on with the run it holds.                                *)
KeepsRun(w) == \E s : Moves(w, s) /\ worker'[w].run = worker[w].run

(* The steps of a stage that write no table but the worker's memory.       *)
LEMMA ReadStepTInv ==
    ASSUME TInv, NEW w \in Workers,
           \/ Begin(w) \/ DispatchCreate(w) \/ CollectRun(w) \/ CollectLoad(w)
           \/ CollectRead(w) \/ CollectRefresh(w) \/ Outage(w)
    PROVE  /\ TInv'
           /\ worker[w].at # "idle" /\ KeepsRun(w)
           /\ UNCHANGED <<artifact, gen, run, dispatch, result, tasks, jobs>>
  <1>1. /\ UNCHANGED <<artifact, gen, run, dispatch, result, tasks, jobs>>
        /\ worker[w].at # "idle" /\ left' = left
        /\ happened' \in 0..MaxEvents
    <2>1. CASE CollectRead(w)
      BY <2>1, HappensIsTyped DEF CollectRead, TInv, TypeOK
    <2>2. CASE Outage(w)
      BY <2>2, HappensIsTyped DEF Outage, TInv, TypeOK
    <2> QED BY <2>1, <2>2 DEF Begin, DispatchCreate, CollectRun, CollectLoad, CollectRefresh,
                              TInv, TypeOK
  <1>2. TypeOK /\ worker[w] \in WorkerState /\ worker[w].job \in JobIds
    BY <1>1 DEF TInv, TypeOK, WorkersHaveJobs
  <1>3. SUFFICES KeepsRun(w)
    BY <1>1, MovesFit DEF KeepsRun, TInv, TypeOK, OutcomesFit
  <1>4. ASSUME NEW s \in Stages, Go(w, s) PROVE KeepsRun(w)
    BY <1>2, <1>4, GoMoves DEF KeepsRun
  <1>5. ASSUME NEW b \in BOOLEAN, Raise(w, b) PROVE KeepsRun(w)
    BY <1>2, <1>5, RaiseMoves DEF KeepsRun
  <1>6. ASSUME Wait(w) PROVE KeepsRun(w)
    <2>1. CASE Poll(worker[w].job) < MaxPolls
      <3>1. worker[w].job[2] + 1 \in 0..(MaxPolls + 1)
        <4>1. worker[w].job[2] \in 0..(MaxPolls + 1)
          BY <1>2, GensAndJobs
        <4> QED BY <2>1, <4>1, ConstantsAssumption DEF Poll
      <3> QED BY <1>2, <1>6, <2>1, <3>1, EnqueueMoves DEF Wait, KeepsRun
    <2> QED BY <1>5, <1>6, <2>1 DEF Wait
  <1>7. CASE Begin(w)
    BY <1>4, <1>5, <1>7 DEF Begin, Stages
  <1>8. CASE DispatchCreate(w)
    BY <1>4, <1>8 DEF DispatchCreate, Stages
  <1>9. CASE CollectRun(w)
    BY <1>4, <1>5, <1>9 DEF CollectRun, Stages
  <1>10. CASE CollectLoad(w)
    <2>1. dispatch[worker[w].run] \in Dispatch
      BY <1>2 DEF TypeOK, WorkerState
    <2>2. worker' = [worker EXCEPT ![w] = [@ EXCEPT !.at = "collect_read",
                                                    !.seen = dispatch[worker[w].run]]]
             => KeepsRun(w)
      BY <1>2, <2>1, SeenMoves DEF KeepsRun
    <2> QED BY <1>4, <1>6, <1>10, <2>2 DEF CollectLoad, Stages
  <1>11. CASE CollectRead(w)
    <2>1. ASSUME NEW v \in {"none"} \cup Ended,
                 worker' = [worker EXCEPT ![w] = [@ EXCEPT !.at = "collect_commit", !.verdict = v]]
          PROVE  KeepsRun(w)
      BY <1>2, <2>1, VerdictMoves DEF KeepsRun
    <2> QED BY <1>4, <1>6, <1>11, <2>1 DEF CollectRead, Stages, Ended
  <1>12. CASE CollectRefresh(w)
    BY <1>4, <1>5, <1>12 DEF CollectRefresh, Stages
  <1>13. CASE Outage(w)
    BY <1>5, <1>13 DEF Outage
  <1> QED BY <1>7, <1>8, <1>9, <1>10, <1>11, <1>12, <1>13

(* The steps of a stage that write a table, and those on the job itself.   *)
LEMMA WriteStepTInv ==
    ASSUME TInv, NEW w \in Workers,
           \/ DispatchRun(w) \/ DispatchInsert(w) \/ FailRun(w) \/ EnqueueCollect(w)
           \/ CollectCancel(w) \/ CollectCommit(w)
           \/ CompleteJob(w) \/ RecordFailure(w) \/ FailJob(w)
           \/ \E id \in JobIds : ClaimJob(w, id)
    PROVE  TInv'
  <1>1. /\ TypeOK /\ worker[w] \in WorkerState /\ dispatch \in [Gens -> Dispatch]
        /\ worker[w].run \in Gens /\ gen \in Gens
        /\ worker[w].at # "idle" => worker[w].job \in JobIds
    BY DEF TInv, TypeOK, WorkersHaveJobs, WorkerState
  <1>2. tasks' = tasks => OutcomesFit'
    BY DEF TInv, OutcomesFit
  <1>3. CASE DispatchRun(w)
    <2>1. PICK next \in {"done", "dispatch_create", "fail_run"} :
             worker' = [worker EXCEPT ![w] = [@ EXCEPT !.at = next, !.run = gen]]
      BY <1>3 DEF DispatchRun
    <2>2. Moves(w, next)
      BY <1>1, <2>1, RunMoves DEF Stages
    <2>3. run' \in [Gens -> {"none", "running"} \cup Ended]
      BY <1>1, <1>3 DEF DispatchRun, TypeOK
    <2> QED BY <1>1, <1>2, <1>3, <2>2, <2>3, MovesFit DEF DispatchRun, TInv, TypeOK
  <1>4. CASE DispatchInsert(w)
    <2>1. [dispatch[worker[w].run] EXCEPT !.status = "queued"] \in Dispatch
      BY <1>1, DispatchRows
    <2>2. dispatch' \in [Gens -> Dispatch]
      BY <1>1, <1>4, <2>1 DEF DispatchInsert
    <2>3. \E s : Moves(w, s)
      <3>1. "fail_run" \in Stages /\ 1 \in 0..(MaxPolls + 1)
        BY ConstantsAssumption DEF Stages
      <3> QED BY <1>1, <1>4, <3>1, GoMoves, RaiseMoves, EnqueueMoves DEF DispatchInsert
    <2> QED BY <1>1, <1>2, <1>4, <2>2, <2>3, MovesFit DEF DispatchInsert, TInv, TypeOK
  <1>5. CASE FailRun(w)
    <2>1. Moves(w, "done")
      BY <1>1, <1>5, GoMoves DEF FailRun, Stages
    <2>2. run' \in [Gens -> {"none", "running"} \cup Ended]
      BY <1>1, <1>5 DEF FailRun, TypeOK, Ended
    <2> QED BY <1>1, <1>2, <1>5, <2>1, <2>2, MovesFit DEF FailRun, TInv, TypeOK
  <1>6. CASE EnqueueCollect(w)
    <2>1. Moves(w, "done")
      BY <1>1, <1>6, GoMoves DEF EnqueueCollect, Stages
    <2>2. <<worker[w].run, worker[w].next>> \in JobIds
      <3>1. worker[w].next \in 0..(MaxPolls + 1)
        BY <1>1 DEF WorkerState
      <3> QED BY <1>1, <3>1, GensAndJobs, Zenon
    <2>3. jobs' \in [JobIds -> Job]
      BY <1>1, <1>6, <2>2, InsertIsTyped DEF EnqueueCollect
    <2> QED BY <1>1, <1>2, <1>6, <2>1, <2>3, MovesFit DEF EnqueueCollect, TInv, TypeOK
  <1>7. CASE CollectCancel(w)
    <2>1. Moves(w, "collect_load")
      BY <1>1, <1>7, GoMoves DEF CollectCancel, Stages
    <2>2. [dispatch[worker[w].run] EXCEPT !.status = "cancelled", !.owner = None,
                                          !.lapsed = FALSE] \in Dispatch
      BY <1>1, DispatchRows
    <2>3. dispatch' \in [Gens -> Dispatch]
      BY <1>1, <1>7, <2>2 DEF CollectCancel
    <2> QED BY <1>1, <1>2, <1>7, <2>1, <2>3, MovesFit DEF CollectCancel, TInv, TypeOK
  <1>8. CASE CollectCommit(w)
    <2>1. \E s : Moves(w, s)
      BY <1>1, <1>8, GoMoves, RaiseMoves DEF CollectCommit, Stages
    <2>2. [dispatch[worker[w].run] EXCEPT !.collected = TRUE] \in Dispatch
      BY <1>1, DispatchRows
    <2>3. dispatch' \in [Gens -> Dispatch]
      BY <1>1, <1>8, <2>2 DEF CollectCommit
    <2>4. worker[w].verdict \in {"none", "running"} \cup Ended
      BY <1>1 DEF WorkerState
    <2>5. run' \in [Gens -> {"none", "running"} \cup Ended]
      BY <1>1, <1>8, <2>4 DEF CollectCommit, TypeOK
    <2> QED BY <1>1, <1>2, <1>8, <2>1, <2>3, <2>5, MovesFit DEF CollectCommit, TInv, TypeOK
  <1>9. CASE CompleteJob(w)
    <2>1. worker[w].job \in JobIds
      BY <1>1, <1>9 DEF CompleteJob
    <2>2. [jobs[worker[w].job] EXCEPT !.status = "succeeded", !.owner = None] \in Job
      BY <1>1, <2>1, JobRows DEF TypeOK
    <2>3. jobs' \in [JobIds -> Job]
      BY <1>1, <1>9, <2>2 DEF CompleteJob, TypeOK
    <2> QED BY <1>1, <1>2, <1>9, <2>3, RestFits DEF CompleteJob, TInv, TypeOK
  <1>10. CASE RecordFailure(w)
    <2>1. Moves(w, "fail")
      BY <1>1, <1>10, GoMoves DEF RecordFailure, Stages
    <2>2. run' \in [Gens -> {"none", "running"} \cup Ended]
      BY <1>1, <1>10 DEF RecordFailure, TypeOK, Ended
    <2>3. artifact' \in Reviewable \cup {"approved"}
      BY <1>1, <1>10 DEF RecordFailure, TypeOK, Reviewable
    <2>4. worker[w].at # "idle" /\ UNCHANGED <<gen, dispatch, result, tasks, jobs, left, happened>>
      BY <1>10 DEF RecordFailure
    <2> QED BY <1>1, <1>2, <2>1, <2>2, <2>3, <2>4, MovesFit DEF TInv, TypeOK
  <1>11. CASE FailJob(w)
    <2>1. worker[w].job \in JobIds
      BY <1>1, <1>11 DEF FailJob
    <2>2. \A s \in {"queued", "failed"} :
             [jobs[worker[w].job] EXCEPT !.status = s, !.owner = None, !.lapsed = FALSE] \in Job
      BY <1>1, <2>1, JobRows DEF TypeOK
    <2>3. jobs' \in [JobIds -> Job]
      BY <1>1, <1>11, <2>2 DEF FailJob, TypeOK
    <2> QED BY <1>1, <1>2, <1>11, <2>3, RestFits DEF FailJob, TInv, TypeOK
  <1>12. ASSUME NEW id \in JobIds, ClaimJob(w, id) PROVE TInv'
    <2>1. jobs[id] \in Job /\ jobs[id].attempts < JobAttempts
      BY <1>1, <1>12 DEF ClaimJob, TypeOK
    <2>2. jobs[id].attempts + 1 \in 0..JobAttempts
      BY <2>1, ConstantsAssumption DEF Job
    <2>3. jobs' \in [JobIds -> Job]
      <3>1. [status |-> "running", attempts |-> jobs[id].attempts + 1, owner |-> w,
             lapsed |-> FALSE] \in Job
        BY <2>1, JobRows
      <3> QED BY <1>1, <1>12, <3>1 DEF ClaimJob, TypeOK
    <2>4. worker' \in [Workers -> WorkerState] /\ WorkersHaveJobs'
      BY <1>12, <2>2, ClaimFits DEF ClaimJob
    <2> QED BY <1>1, <1>2, <1>12, <2>3, <2>4 DEF ClaimJob, TInv, TypeOK
  <1> QED BY <1>3, <1>4, <1>5, <1>6, <1>7, <1>8, <1>9, <1>10, <1>11, <1>12

(* The rest of the review, the administrator and the orchestrator.         *)
LEMMA ReviewTInv ==
    ASSUME TInv,
           \/ \E id \in JobIds : JobLapses(id)
           \/ QueueRuntime \/ FailElsewhere \/ Route
           \/ AutoApprove \/ ApproveArtifact \/ ManualApprove \/ Retry
    PROVE  TInv'
  <1>1. TypeOK /\ jobs \in [JobIds -> Job] /\ dispatch \in [Gens -> Dispatch] /\ gen \in Gens
    BY DEF TInv, TypeOK
  <1>2. tasks' = tasks /\ worker' = worker => OutcomesFit' /\ WorkersHaveJobs'
    BY DEF TInv, OutcomesFit, WorkersHaveJobs
  <1>3. ASSUME NEW id \in JobIds, JobLapses(id) PROVE TInv'
    <2>1. [jobs[id] EXCEPT !.lapsed = TRUE] \in Job
      BY <1>1, JobRows
    <2>2. jobs' \in [JobIds -> Job]
      BY <1>1, <1>3, <2>1 DEF JobLapses
    <2> QED BY <1>1, <1>2, <1>3, <2>2, HappensIsTyped DEF JobLapses, TInv, TypeOK
  <1>4. CASE QueueRuntime
    <2>1. <<gen, 0>> \in JobIds
      <3>1. 0 \in 0..(MaxPolls + 1)
        BY ConstantsAssumption
      <3> QED BY <1>1, <3>1, GensAndJobs, Zenon
    <2>2. jobs' \in [JobIds -> Job]
      BY <1>1, <1>4, <2>1, InsertIsTyped DEF QueueRuntime
    <2> QED BY <1>1, <1>2, <1>4, <2>2 DEF QueueRuntime, TInv, TypeOK
  <1>5. CASE FailElsewhere
    BY <1>1, <1>2, <1>5, HappensIsTyped DEF FailElsewhere, TInv, TypeOK, Reviewable
  <1>6. CASE Route
    <2>1. happened' \in 0..MaxEvents
      BY <1>1, <1>6, HappensIsTyped DEF Route, RoutedOn, TypeOK
    <2> QED BY <1>1, <1>2, <1>6, <2>1 DEF Route, TInv, TypeOK, Reviewable
  <1>7. CASE ManualApprove
    <2>1. dispatch' \in [Gens -> Dispatch]
      <3>1. \A g \in Gens : [dispatch[g] EXCEPT !.status = "cancelled", !.owner = None,
                                                !.lapsed = FALSE] \in Dispatch
        BY <1>1, DispatchRows
      <3> QED BY <1>1, <1>7, <3>1 DEF ManualApprove
    <2>2. jobs' \in [JobIds -> Job]
      <3>1. \A id \in JobIds : [jobs[id] EXCEPT !.status = "cancelled", !.owner = None] \in Job
        BY <1>1, JobRows
      <3> QED BY <1>1, <1>7, <3>1 DEF ManualApprove
    <2>3. run' \in [Gens -> {"none", "running"} \cup Ended]
      BY <1>1, <1>7 DEF ManualApprove, TypeOK, Ended
    <2> QED BY <1>1, <1>2, <1>7, <2>1, <2>2, <2>3, HappensIsTyped
            DEF ManualApprove, TInv, TypeOK
  <1>8. CASE Retry
    <2>1. gen + 1 \in Gens
      BY <1>1, <1>8, ConstantsAssumption DEF Retry, Gens
    <2>2. jobs' \in [JobIds -> Job]
      BY <1>8, NoJobs DEF Retry
    <2> QED BY <1>1, <1>2, <1>8, <2>1, <2>2 DEF Retry, TInv, TypeOK, Reviewable
  <1>9. CASE AutoApprove
    <2>1. happened' \in 0..MaxEvents
      BY <1>1, <1>9, HappensIsTyped DEF AutoApprove, RoutedOn, TypeOK
    <2> QED BY <1>1, <1>2, <1>9, <2>1 DEF AutoApprove, OpenDispatches, TInv, TypeOK
  <1>10. CASE ApproveArtifact
    BY <1>1, <1>2, <1>10, HappensIsTyped DEF ApproveArtifact, OpenDispatches, TInv, TypeOK
  <1> QED BY <1>3, <1>4, <1>5, <1>6, <1>7, <1>8, <1>9, <1>10

(* Every step keeps the types and what they rest on.                       *)
LEMMA NextTInv == TInv /\ [Next]_vars => TInv'
  <1> SUFFICES ASSUME TInv, [Next]_vars PROVE TInv'
    OBVIOUS
  <1>1. CASE UNCHANGED vars
    BY <1>1 DEF TInv, TypeOK, OutcomesFit, WorkersHaveJobs, vars
  <1>2. CASE Next
    BY <1>2, RunnerTInv, ReadStepTInv, WriteStepTInv, ReviewTInv
       DEF Next, WorkerStep, StageStep
  <1> QED BY <1>1, <1>2

LEMMA InitTInv == Init => TInv
  <1>1. Init => OutcomesFit /\ WorkersHaveJobs
    BY DEF Init, OutcomesFit, WorkersHaveJobs, Idle
  <1> QED BY <1>1, InitTypeOK DEF TInv

(* Type correctness of RuntimeDispatch.                                    *)
THEOREM TypeCorrectness == Spec => []TypeOK
  <1>1. TInv => TypeOK
    BY DEF TInv
  <1> QED BY <1>1, InitTInv, NextTInv, PTL DEF Spec

-----------------------------------------------------------------------------
(* Why a credited run is earned.  What a generation's rows owe each other: *)
(* a dispatch with a result key has ended, and the key's result is stored; *)
(* there is no dispatch without a run; a succeeded run is earned.          *)
RowFits(g) ==
    /\ dispatch[g].key > 0 =>
          dispatch[g].status \in Ended /\ result[g][dispatch[g].key] # "none"
    /\ dispatch[g].status # "none" => run[g] # "none"
    /\ run[g] = "succeeded" =>
          /\ dispatch[g].status = "succeeded"
          /\ dispatch[g].collected
          /\ dispatch[g].key > 0 /\ dispatch[g].key = dispatch[g].attempts
          /\ result[g][dispatch[g].key] = "passed"

(* Two tasks never work on the same attempt; a task's attempt was claimed  *)
(* and has not been reported; what it completes is what it stored.         *)
KeyOf(t) == <<t.gen, t.attempt>>

TasksAreDistinct == \A t, u \in tasks : KeyOf(t) = KeyOf(u) => t = u

TaskIsClaimed(t) ==
    /\ t.attempt <= dispatch[t.gen].attempts
    /\ t.attempt # dispatch[t.gen].key
    /\ t.at = "complete" => result[t.gen][t.attempt] = t.outcome

(* A collect job exists for a dispatch.                                    *)
CollectHasDispatch ==
    \A id \in JobIds : id[2] # 0 /\ jobs[id].status # "absent" => dispatch[id[1]].status # "none"

(* What a worker remembers is still so: its job's run and dispatch exist,  *)
(* the ended row it read has not changed, and its verdict is right.        *)
Collecting == {"collect_run", "collect_cancel", "collect_load", "collect_read",
               "collect_commit", "collect_refresh"}

WorkFits(w) ==
    LET h == worker[w]
        row == dispatch[h.run]
    IN
    /\ h.at \in {"begin"} \cup Collecting => h.run = h.job[1]
    /\ h.at \in Collecting => h.job[2] # 0
    /\ h.at = "enqueue" \/ (h.at \in {"begin"} \cup Collecting /\ h.job[2] # 0)
          => row.status # "none"
    /\ h.at \in {"dispatch_create", "dispatch_insert", "fail_run"} => run[h.run] # "none"
    /\ h.at \in {"collect_read", "collect_commit"} =>
          /\ row.status \in Ended
          /\ h.seen.status = row.status /\ h.seen.attempts = row.attempts /\ h.seen.key = row.key
    /\ h.at = "collect_commit" =>
          /\ h.verdict \in {"succeeded", "timed_out", "failed"}
          /\ h.verdict = "timed_out" => row.status = "timed_out"
          /\ h.verdict = "succeeded" => row.key > 0 /\ Passed(row, result[h.run][row.key])

IInv ==
    /\ TInv
    /\ \A g \in Gens : RowFits(g)
    /\ TasksAreDistinct
    /\ \A t \in tasks : TaskIsClaimed(t)
    /\ CollectHasDispatch
    /\ \A w \in Workers : WorkFits(w)

(* How the rows of a generation move: no run or dispatch vanishes, an      *)
(* ended dispatch stays as it is, and so does the result it names.         *)
RowAdvances(g) ==
    /\ dispatch[g].status # "none" => dispatch'[g].status # "none"
    /\ run[g] # "none" => run'[g] # "none"
    /\ dispatch[g].status \in Ended =>
          /\ dispatch'[g].status = dispatch[g].status
          /\ dispatch'[g].attempts = dispatch[g].attempts
          /\ dispatch'[g].key = dispatch[g].key
    /\ dispatch[g].key > 0 =>
          result'[g][dispatch[g].key] = result[g][dispatch[g].key]

(* Types of what is used below.                                            *)
LEMMA RowTypes ==
    ASSUME TypeOK, NEW g \in Gens
    PROVE  /\ dispatch[g] \in Dispatch
           /\ dispatch[g].status \in {"none"} \cup Open \cup Ended
           /\ dispatch[g].attempts \in 0..MaxAttempts
           /\ dispatch[g].key \in 0..MaxAttempts
           /\ run[g] \in {"none", "running"} \cup Ended
  BY DEF TypeOK, Dispatch

(* A worker that another's step leaves alone is still right.               *)
LEMMA WorkStaysFit ==
    ASSUME TypeOK, NEW v \in Workers, WorkFits(v), worker'[v] = worker[v],
           \A g \in Gens : RowAdvances(g)
    PROVE  WorkFits(v)'
  <1>1. worker[v].run \in Gens
    BY DEF TypeOK, WorkerState
  <1>2. RowAdvances(worker[v].run)
    BY <1>1
  <1>3. dispatch[worker[v].run].key \in 0..MaxAttempts
    BY <1>1, RowTypes
  <1> QED BY <1>1, <1>2, <1>3 DEF WorkFits, RowAdvances, Passed

(* Collect jobs keep their dispatch as long as none is queued without one. *)
LEMMA JobsStayFit ==
    ASSUME CollectHasDispatch, \A g \in Gens : RowAdvances(g),
           \A id \in JobIds : jobs'[id].status # "absent" /\ id[2] # 0 =>
              jobs[id].status # "absent" \/ dispatch[id[1]].status # "none"
    PROVE  CollectHasDispatch'
  <1>1. \A id \in JobIds : id[1] \in Gens
    BY GensAndJobs
  <1> QED BY <1>1 DEF CollectHasDispatch, RowAdvances

(* Tasks stay claimed while attempts grow, keys stay and results stay.     *)
LEMMA TasksStayClaimed ==
    ASSUME TypeOK, TypeOK', TasksAreDistinct, \A t \in tasks : TaskIsClaimed(t),
           tasks' \subseteq tasks, result' = result,
           \A g \in Gens : /\ dispatch'[g].attempts >= dispatch[g].attempts
                           /\ dispatch'[g].key = dispatch[g].key
    PROVE  TasksAreDistinct' /\ \A t \in tasks' : TaskIsClaimed(t)'
  <1>1. TasksAreDistinct'
    BY DEF TasksAreDistinct, KeyOf
  <1>2. ASSUME NEW t \in tasks' PROVE TaskIsClaimed(t)'
    <2>1. t \in tasks /\ t.gen \in Gens /\ t.attempt \in Attempts
      BY TaskMoves DEF TypeOK
    <2>2. dispatch[t.gen].attempts \in Nat /\ dispatch'[t.gen].attempts \in Nat
          /\ t.attempt \in Nat
      <3>1. dispatch[t.gen] \in Dispatch /\ dispatch'[t.gen] \in Dispatch
        BY <2>1 DEF TypeOK
      <3>2. \A d \in Dispatch : d.attempts \in Nat
        BY DEF Dispatch
      <3>3. \A a \in Attempts : a \in Nat
        BY DEF Attempts
      <3> QED BY <2>1, <3>1, <3>2, <3>3, Zenon
    <2> QED BY <2>1, <2>2 DEF TaskIsClaimed
  <1> QED BY <1>1, <1>2

(* A step that leaves the tables alone.                                    *)
LEMMA TablesKept ==
    ASSUME IInv, TInv',
           UNCHANGED <<artifact, run, dispatch, result, tasks, jobs>>,
           \A w \in Workers : WorkFits(w)'
    PROVE  IInv'
  <1>1. \A g \in Gens : RowFits(g)'
    BY DEF IInv, RowFits
  <1>2. TasksAreDistinct' /\ CollectHasDispatch'
    BY DEF IInv, TasksAreDistinct, CollectHasDispatch
  <1>3. \A t \in tasks' : TaskIsClaimed(t)'
    BY DEF IInv, TaskIsClaimed
  <1> QED BY <1>1, <1>2, <1>3 DEF IInv

(* Of a worker at a stage that needs nothing, nothing is asked.            *)
LEMMA FreeWorkFits ==
    ASSUME NEW w \in Workers,
           worker'[w].at \in {"idle", "dispatch_run", "done", "record", "fail"}
    PROVE  WorkFits(w)'
  BY DEF WorkFits, Collecting

(* The steps of a stage that write no table keep the invariant.            *)
LEMMA ReadStepIInv ==
    ASSUME IInv, NEW w \in Workers,
           \/ Begin(w) \/ DispatchCreate(w) \/ CollectRun(w) \/ CollectLoad(w)
           \/ CollectRead(w) \/ CollectRefresh(w) \/ Outage(w)
    PROVE  IInv'
  <1>1. /\ TypeOK /\ TInv /\ WorkFits(w) /\ worker[w] \in WorkerState /\ worker[w].run \in Gens
        /\ RowFits(worker[w].run)
    BY DEF IInv, TInv, TypeOK, WorkerState
  <1>2. TInv' /\ UNCHANGED <<artifact, gen, run, dispatch, result, tasks, jobs>>
    BY <1>1, ReadStepTInv
  <1>3. worker[w].job \in JobIds
    BY <1>1 DEF TInv, WorkersHaveJobs, Begin, DispatchCreate, CollectRun, CollectLoad,
                CollectRead, CollectRefresh, Outage
  <1>4. \A g \in Gens : RowAdvances(g)
    BY <1>2 DEF RowAdvances
  <1>5. SUFFICES ASSUME TRUE
                 PROVE  WorkFits(w)' /\ \A v \in Workers : v # w => worker'[v] = worker[v]
    <2>1. \A v \in Workers : WorkFits(v)'
      BY <1>1, <1>4, <1>5, WorkStaysFit DEF IInv
    <2> QED BY <1>2, <2>1, TablesKept
  <1>6. ASSUME NEW s \in Stages, Go(w, s)
        PROVE  /\ Moves(w, s) /\ worker'[w].run = worker[w].run
               /\ worker'[w].seen = worker[w].seen
    BY <1>1, <1>6, GoMoves
  <1>7. ASSUME NEW b \in BOOLEAN, Raise(w, b)
        PROVE  WorkFits(w)' /\ \A v \in Workers : v # w => worker'[v] = worker[v]
    BY <1>1, <1>7, RaiseMoves, FreeWorkFits DEF Moves
  <1>8. ASSUME Go(w, "done")
        PROVE  WorkFits(w)' /\ \A v \in Workers : v # w => worker'[v] = worker[v]
    BY <1>1, <1>8, GoMoves, FreeWorkFits DEF Moves, Stages
  <1>9. ASSUME Wait(w), dispatch[worker[w].run].status # "none"
        PROVE  WorkFits(w)' /\ \A v \in Workers : v # w => worker'[v] = worker[v]
    <2>1. CASE Poll(worker[w].job) < MaxPolls
      <3>1. worker[w].job[2] + 1 \in 0..(MaxPolls + 1)
        <4>1. worker[w].job[2] \in 0..(MaxPolls + 1)
          BY <1>3, GensAndJobs
        <4> QED BY <2>1, <4>1, ConstantsAssumption DEF Poll
      <3>2. Moves(w, "enqueue") /\ worker'[w].run = worker[w].run
        BY <1>1, <1>9, <2>1, <3>1, EnqueueMoves DEF Wait
      <3> QED BY <1>2, <1>9, <3>2 DEF Moves, WorkFits, Collecting
    <2> QED BY <1>7, <1>9, <2>1 DEF Wait
  <1>10. CASE Begin(w)
    <2>1. CASE artifact = "scanning" /\ worker[w].job[2] = 0
      <3>1. Go(w, "dispatch_run")
        BY <1>10, <2>1 DEF Begin
      <3>2. Moves(w, "dispatch_run")
        BY <1>6, <3>1 DEF Stages
      <3> QED BY <3>2, FreeWorkFits DEF Moves
    <2>2. CASE artifact = "scanning" /\ worker[w].job[2] # 0
      <3>1. Go(w, "collect_run")
        BY <1>10, <2>2 DEF Begin
      <3>2. Moves(w, "collect_run") /\ worker'[w].run = worker[w].run
        BY <1>6, <3>1 DEF Stages
      <3>3. worker[w].run = worker[w].job[1] /\ dispatch[worker[w].run].status # "none"
        BY <1>1, <1>10, <2>2 DEF Begin, WorkFits
      <3> QED BY <1>2, <2>2, <3>2, <3>3 DEF Moves, WorkFits, Collecting
    <2> QED BY <1>7, <1>8, <1>10, <2>1, <2>2 DEF Begin
  <1>11. CASE DispatchCreate(w)
    <2>1. PICK s \in {"dispatch_insert", "fail_run"} : Go(w, s)
      BY <1>11 DEF DispatchCreate
    <2>2. Moves(w, s) /\ worker'[w].run = worker[w].run
      BY <1>6, <2>1 DEF Stages
    <2>3. run[worker[w].run] # "none"
      BY <1>1, <1>11 DEF DispatchCreate, WorkFits
    <2> QED BY <1>2, <2>2, <2>3 DEF Moves, WorkFits, Collecting
  <1>12. ASSUME worker[w].at \in Collecting
         PROVE  /\ worker[w].run = worker[w].job[1] /\ worker[w].job[2] # 0
                /\ dispatch[worker[w].run].status # "none"
    BY <1>1, <1>12 DEF WorkFits
  <1>13. CASE CollectRun(w)
    <2>1. CASE \E s \in {"collect_cancel", "collect_load"} : Go(w, s)
      <3>1. PICK s \in {"collect_cancel", "collect_load"} : Go(w, s)
        BY <2>1
      <3>2. Moves(w, s) /\ worker'[w].run = worker[w].run
        BY <1>6, <3>1 DEF Stages
      <3> QED BY <1>2, <1>12, <1>13, <3>2 DEF CollectRun, Moves, WorkFits, Collecting
    <2> QED BY <1>7, <1>8, <1>13, <2>1 DEF CollectRun
  <1>14. CASE CollectLoad(w)
    <2>0. /\ worker[w].run = worker[w].job[1] /\ worker[w].job[2] # 0
          /\ dispatch[worker[w].run].status # "none"
      BY <1>12, <1>14 DEF CollectLoad, Collecting
    <2>1. CASE Go(w, "collect_refresh")
      <3>1. Moves(w, "collect_refresh") /\ worker'[w].run = worker[w].run
        BY <1>6, <2>1 DEF Stages
      <3> QED BY <1>2, <2>0, <3>1 DEF Moves, WorkFits, Collecting
    <2>2. CASE /\ dispatch[worker[w].run].status \notin Open
               /\ worker' = [worker EXCEPT ![w] = [@ EXCEPT !.at = "collect_read",
                                                            !.seen = dispatch[worker[w].run]]]
      <3>1. dispatch[worker[w].run] \in Dispatch /\ dispatch[worker[w].run].status \in Ended
        BY <1>1, <2>0, <2>2, RowTypes
      <3>2. /\ Moves(w, "collect_read") /\ worker'[w].run = worker[w].run
            /\ worker'[w].seen = dispatch[worker[w].run]
        BY <1>1, <2>2, <3>1, SeenMoves
      <3> QED BY <1>2, <2>0, <3>1, <3>2 DEF Moves, WorkFits, Collecting
    <2> QED BY <1>9, <1>14, <2>0, <2>1, <2>2 DEF CollectLoad
  <1>15. CASE CollectRead(w)
    <2>0. /\ worker[w].run = worker[w].job[1] /\ worker[w].job[2] # 0
          /\ dispatch[worker[w].run].status # "none"
      BY <1>12, <1>15 DEF CollectRead, Collecting
    <2> DEFINE g == worker[w].run
               row == dispatch[worker[w].run]
               seen == worker[w].seen
               content == IF seen.key = 0 THEN "none" ELSE result[g][seen.key]
               verdict == CASE Passed(seen, content) -> "succeeded"
                            [] seen.status = "timed_out" -> "timed_out"
                            [] OTHER -> "failed"
    <2>1. CASE worker' = [worker EXCEPT ![w] = [@ EXCEPT !.at = "collect_commit",
                                                         !.verdict = verdict]]
      <3>1. /\ row.status \in Ended
            /\ seen.status = row.status /\ seen.attempts = row.attempts /\ seen.key = row.key
        BY <1>1, <1>15 DEF CollectRead, WorkFits
      <3>2. verdict \in {"succeeded", "timed_out", "failed"}
        OBVIOUS
      <3>3. verdict = "timed_out" => row.status = "timed_out"
        BY <3>1
      <3>4. verdict = "succeeded" => row.key > 0 /\ Passed(row, result[g][row.key])
        <4>1. verdict = "succeeded" => Passed(seen, content)
          OBVIOUS
        <4>2. row.key \in 0..MaxAttempts
          BY <1>1, RowTypes
        <4> QED BY <3>1, <4>1, <4>2 DEF Passed
      <3>5. /\ Moves(w, "collect_commit") /\ worker'[w].run = g
            /\ worker'[w].seen = seen /\ worker'[w].verdict = verdict
        <4>1. verdict \in {"none"} \cup Ended
          BY <3>2 DEF Ended
        <4> HIDE DEF verdict
        <4> QED BY <1>1, <2>1, <4>1, VerdictMoves
      <3> HIDE DEF verdict
      <3> QED BY <1>2, <2>0, <3>1, <3>2, <3>3, <3>4, <3>5 DEF Moves, WorkFits, Collecting
    <2>2. CASE Go(w, "fail_run")
      <3>1. Moves(w, "fail_run") /\ worker'[w].run = worker[w].run
        BY <1>6, <2>2 DEF Stages
      <3>2. run[worker[w].run] # "none"
        BY <1>1, <2>0 DEF RowFits
      <3> QED BY <1>2, <3>1, <3>2 DEF Moves, WorkFits, Collecting
    <2> QED BY <1>9, <1>15, <2>0, <2>1, <2>2 DEF CollectRead
  <1>16. CASE CollectRefresh(w)
    BY <1>7, <1>8, <1>16 DEF CollectRefresh
  <1>17. CASE Outage(w)
    BY <1>7, <1>17 DEF Outage
  <1> QED BY <1>10, <1>11, <1>13, <1>14, <1>15, <1>16, <1>17

(* The steps of a stage that write a table, and those on the job itself.   *)
LEMMA WriteStepIInv ==
    ASSUME IInv, NEW w \in Workers,
           \/ DispatchRun(w) \/ DispatchInsert(w) \/ FailRun(w) \/ EnqueueCollect(w)
           \/ CollectCancel(w) \/ CollectCommit(w)
           \/ CompleteJob(w) \/ RecordFailure(w) \/ FailJob(w)
           \/ \E id \in JobIds : ClaimJob(w, id)
    PROVE  IInv'
  <1> DEFINE g == worker[w].run
  <1>1. /\ TypeOK /\ TInv /\ WorkFits(w) /\ worker[w] \in WorkerState /\ g \in Gens /\ gen \in Gens
        /\ dispatch \in [Gens -> Dispatch] /\ run \in [Gens -> {"none", "running"} \cup Ended]
        /\ \A h \in Gens : RowFits(h)
    BY DEF IInv, TInv, TypeOK, WorkerState
  <1>2. TInv' /\ TypeOK'
    BY <1>1, WriteStepTInv DEF TInv
  <1>3. \A h \in Gens : dispatch[h].attempts \in Nat /\ dispatch[h].key \in Nat
    BY <1>1, RowTypes
  (* None of these steps touches a task, a result, a dispatch's attempts   *)
  (* or its key, and no collect job appears without its dispatch.          *)
  <1>4. ASSUME tasks' = tasks, result' = result,
               \A h \in Gens : /\ dispatch'[h].attempts = dispatch[h].attempts
                               /\ dispatch'[h].key = dispatch[h].key
                               /\ RowFits(h)' /\ RowAdvances(h),
               WorkFits(w)', \A v \in Workers : v # w => worker'[v] = worker[v],
               \A id \in JobIds : jobs'[id].status # "absent" /\ id[2] # 0 =>
                  jobs[id].status # "absent" \/ dispatch[id[1]].status # "none"
        PROVE  IInv'
    <2>1. \A v \in Workers : WorkFits(v)'
      BY <1>1, <1>4, WorkStaysFit DEF IInv
    <2>2. CollectHasDispatch'
      BY <1>4, JobsStayFit DEF IInv
    <2>3. TasksAreDistinct' /\ \A t \in tasks' : TaskIsClaimed(t)'
      <3>1. \A h \in Gens : dispatch'[h].attempts >= dispatch[h].attempts
        BY <1>3, <1>4
      <3> QED BY <1>1, <1>2, <1>4, <3>1, TasksStayClaimed DEF IInv
    <2> QED BY <1>2, <1>4, <2>1, <2>2, <2>3 DEF IInv
  <1>5. ASSUME NEW s \in {"done", "record", "fail", "dispatch_run"}, Moves(w, s)
        PROVE  WorkFits(w)'
    BY <1>5, FreeWorkFits DEF Moves
  <1>6. ASSUME dispatch' = dispatch, run' = run, artifact' = artifact, result' = result
        PROVE  \A h \in Gens : /\ dispatch'[h].attempts = dispatch[h].attempts
                               /\ dispatch'[h].key = dispatch[h].key
                               /\ RowFits(h)' /\ RowAdvances(h)
    BY <1>1, <1>6 DEF RowFits, RowAdvances
  <1>7. CASE DispatchRun(w)
    <2>1. PICK next \in {"done", "dispatch_create", "fail_run"} :
             worker' = [worker EXCEPT ![w] = [@ EXCEPT !.at = next, !.run = gen]]
      BY <1>7 DEF DispatchRun
    <2>2. Moves(w, next) /\ worker'[w].run = gen
      BY <1>1, <2>1, RunMoves DEF Stages
    <2>3. /\ run'[gen] # "none"
          /\ \A h \in Gens : run'[h] = run[h] \/ (run[h] = "none" /\ run'[h] = "running")
      <3>1. run' = IF run[gen] = "none" THEN [run EXCEPT ![gen] = "running"] ELSE run
        BY <1>7 DEF DispatchRun
      <3> QED BY <1>1, <3>1
    <2>4. WorkFits(w)'
      BY <2>2, <2>3 DEF Moves, WorkFits, Collecting
    <2>5. \A h \in Gens : RowFits(h)' /\ RowAdvances(h)
      BY <1>1, <1>7, <2>3 DEF DispatchRun, RowFits, RowAdvances
    <2> QED BY <1>4, <1>7, <2>2, <2>4, <2>5 DEF DispatchRun, Moves
  <1>8. CASE DispatchInsert(w)
    <2>1. run[g] # "none"
      BY <1>1, <1>8 DEF DispatchInsert, WorkFits
    <2>2. CASE Go(w, "fail_run") /\ UNCHANGED dispatch
      <3>1. Moves(w, "fail_run") /\ worker'[w].run = g
        BY <1>1, <2>2, GoMoves DEF Stages
      <3>2. WorkFits(w)'
        BY <1>8, <2>1, <3>1 DEF DispatchInsert, Moves, WorkFits, Collecting
      <3> QED BY <1>4, <1>6, <1>8, <2>2, <3>1, <3>2 DEF DispatchInsert, Moves
    <2>3. CASE Raise(w, TRUE) /\ UNCHANGED dispatch
      <3>1. Moves(w, "record")
        BY <1>1, <2>3, RaiseMoves
      <3> QED BY <1>4, <1>5, <1>6, <1>8, <2>3, <3>1 DEF DispatchInsert, Moves
    <2>4. CASE /\ artifact # "approved"
               /\ dispatch' = IF dispatch[g].status = "none"
                              THEN [dispatch EXCEPT ![g].status = "queued"] ELSE dispatch
               /\ worker' = [worker EXCEPT ![w] = [@ EXCEPT !.at = "enqueue", !.next = 1]]
      <3>1. Moves(w, "enqueue") /\ worker'[w].run = g
        <4>1. 1 \in 0..(MaxPolls + 1)
          BY ConstantsAssumption
        <4> QED BY <1>1, <2>4, <4>1, EnqueueMoves
      <3>2. \A h \in Gens :
               /\ dispatch'[h].attempts = dispatch[h].attempts
               /\ dispatch'[h].key = dispatch[h].key
               /\ dispatch'[h].collected = dispatch[h].collected
               /\ dispatch'[h].status = IF h = g /\ dispatch[g].status = "none" THEN "queued"
                                        ELSE dispatch[h].status
        <4>1. \A d \in Dispatch : LET e == [d EXCEPT !.status = "queued"] IN
                 /\ e.status = "queued" /\ e.attempts = d.attempts
                 /\ e.key = d.key /\ e.collected = d.collected
          BY DEF Dispatch
        <4> QED BY <1>1, <2>4, <4>1
      <3>3. WorkFits(w)'
        BY <1>1, <1>8, <3>1, <3>2 DEF DispatchInsert, Moves, WorkFits, Collecting
      <3>4. ASSUME NEW h \in Gens PROVE RowFits(h)' /\ RowAdvances(h)
        <4>1. RowFits(h) /\ UNCHANGED <<artifact, run, result>>
          BY <1>1, <1>8 DEF DispatchInsert
        <4> QED BY <2>1, <2>4, <3>2, <4>1 DEF RowFits, RowAdvances, Ended
      <3> QED BY <1>4, <1>8, <3>1, <3>2, <3>3, <3>4 DEF DispatchInsert, Moves
    <2> QED BY <1>8, <2>2, <2>3, <2>4 DEF DispatchInsert
  <1>9. CASE FailRun(w)
    <2>1. Moves(w, "done")
      BY <1>1, <1>9, GoMoves DEF FailRun, Stages
    <2>2. \A h \in Gens : run'[h] = run[h] \/ run'[h] = "failed"
      BY <1>1, <1>9 DEF FailRun
    <2>3. \A h \in Gens : RowFits(h)' /\ RowAdvances(h)
      BY <1>1, <1>9, <2>2 DEF FailRun, RowFits, RowAdvances
    <2> QED BY <1>4, <1>5, <1>9, <2>1, <2>3 DEF FailRun, Moves
  <1>10. CASE EnqueueCollect(w)
    <2>1. Moves(w, "done")
      BY <1>1, <1>10, GoMoves DEF EnqueueCollect, Stages
    <2>2. dispatch[g].status # "none"
      BY <1>1, <1>10 DEF EnqueueCollect, WorkFits
    <2>3. ASSUME NEW id \in JobIds, jobs'[id].status # "absent", id[2] # 0
          PROVE  jobs[id].status # "absent" \/ dispatch[id[1]].status # "none"
      <3>1. jobs'[id] = jobs[id] \/ id = <<g, worker[w].next>>
        BY <1>1, <1>10 DEF EnqueueCollect, Insert, TypeOK
      <3> QED BY <2>2, <2>3, <3>1
    <2> QED BY <1>4, <1>5, <1>6, <1>10, <2>1, <2>3 DEF EnqueueCollect, Moves
  <1>11. CASE CollectCancel(w)
    <2>1. Moves(w, "collect_load") /\ worker'[w].run = g
      BY <1>1, <1>11, GoMoves DEF CollectCancel, Stages
    <2>2. \A h \in Gens :
             /\ dispatch'[h].attempts = dispatch[h].attempts
             /\ dispatch'[h].key = dispatch[h].key
             /\ dispatch'[h].collected = dispatch[h].collected
             /\ dispatch'[h].status = IF h = g /\ dispatch[g].status \in Open THEN "cancelled"
                                      ELSE dispatch[h].status
      <3>1. \A d \in Dispatch :
               LET e == [d EXCEPT !.status = "cancelled", !.owner = None, !.lapsed = FALSE] IN
               /\ e.status = "cancelled" /\ e.attempts = d.attempts
               /\ e.key = d.key /\ e.collected = d.collected
        BY DEF Dispatch
      <3> QED BY <1>1, <1>11, <3>1 DEF CollectCancel
    <2>3. WorkFits(w)'
      BY <1>1, <1>11, <2>1, <2>2 DEF CollectCancel, Moves, WorkFits, Collecting
    <2>4. ASSUME NEW h \in Gens PROVE RowFits(h)' /\ RowAdvances(h)
      <3>1. RowFits(h) /\ UNCHANGED <<artifact, run, result>>
        BY <1>1, <1>11 DEF CollectCancel
      <3> QED BY <2>2, <3>1 DEF RowFits, RowAdvances, Ended, Open
    <2> QED BY <1>4, <1>11, <2>1, <2>2, <2>3, <2>4 DEF CollectCancel, Moves
  <1>12. CASE CollectCommit(w)
    <2>1. CASE ~dispatch[g].collected /\ run[g] # "running"
      <3>1. Moves(w, "record")
        BY <1>1, <1>12, <2>1, RaiseMoves DEF CollectCommit
      <3> QED BY <1>4, <1>5, <1>6, <1>12, <2>1, <3>1 DEF CollectCommit, Moves
    <2>2. CASE dispatch[g].collected \/ run[g] = "running"
      <3>1. Moves(w, "collect_refresh") /\ worker'[w].run = g
        BY <1>1, <1>12, <2>2, GoMoves DEF CollectCommit, Stages
      <3>0. dispatch' = [dispatch EXCEPT ![g].collected = TRUE]
        BY <1>12, <2>2 DEF CollectCommit
      <3>2. \A h \in Gens :
               /\ dispatch'[h].attempts = dispatch[h].attempts
               /\ dispatch'[h].key = dispatch[h].key
               /\ dispatch'[h].status = dispatch[h].status
        <4>1. \A d \in Dispatch : LET e == [d EXCEPT !.collected = TRUE] IN
                 e.status = d.status /\ e.attempts = d.attempts /\ e.key = d.key
          BY DEF Dispatch
        <4> QED BY <1>1, <3>0, <4>1
      <3>3. dispatch'[g].collected /\ \A h \in Gens : h # g => dispatch'[h] = dispatch[h]
        <4>1. \A d \in Dispatch : [d EXCEPT !.collected = TRUE].collected = TRUE
          BY DEF Dispatch
        <4> QED BY <1>1, <3>0, <4>1
      <3>4. /\ \A h \in Gens : h # g => run'[h] = run[h]
            /\ \/ dispatch[g].collected /\ run'[g] = run[g]
               \/ run'[g] = worker[w].verdict
        BY <1>1, <1>12, <2>2 DEF CollectCommit
      <3>5. WorkFits(w)'
        BY <1>1, <1>12, <3>1, <3>2 DEF CollectCommit, Moves, WorkFits, Collecting, Ended
      <3>6. ASSUME NEW h \in Gens PROVE RowFits(h)' /\ RowAdvances(h)
        <4>1. RowFits(h) /\ UNCHANGED <<artifact, result>>
          BY <1>1, <1>12 DEF CollectCommit
        <4>2. CASE run'[h] = run[h] /\ (h = g => dispatch[g].collected)
          BY <3>2, <3>3, <4>1, <4>2 DEF RowFits, RowAdvances
        <4>3. CASE h = g /\ run'[g] = worker[w].verdict
          <5>1. /\ worker[w].verdict \in {"succeeded", "timed_out", "failed"}
                /\ worker[w].verdict = "succeeded" =>
                      dispatch[g].key > 0 /\ Passed(dispatch[g], result[g][dispatch[g].key])
            BY <1>1, <1>12 DEF CollectCommit, WorkFits
          <5> QED BY <3>2, <3>3, <4>1, <4>3, <5>1 DEF RowFits, RowAdvances, Passed
        <4> QED BY <3>4, <4>2, <4>3
      <3> QED BY <1>4, <1>12, <3>1, <3>2, <3>5, <3>6 DEF CollectCommit, Moves
    <2> QED BY <2>1, <2>2
  <1>13. CASE CompleteJob(w) \/ FailJob(w)
    <2>1. /\ worker' = [worker EXCEPT ![w] = Idle]
          /\ UNCHANGED <<artifact, run, dispatch, result, tasks>>
          /\ worker[w].at # "idle"
      BY <1>13 DEF CompleteJob, FailJob
    <2>2. WorkFits(w)' /\ \A v \in Workers : v # w => worker'[v] = worker[v]
      BY <1>1, <2>1, RestFits, FreeWorkFits
    <2>3. worker[w].job \in JobIds
      BY <1>1, <2>1 DEF TInv, WorkersHaveJobs
    <2>4. jobs[worker[w].job].status # "absent" \/ jobs' = jobs
      BY <1>13 DEF CompleteJob, FailJob, OwnsJob
    <2>5. \A id \in JobIds : id # worker[w].job => jobs'[id] = jobs[id]
      BY <1>1, <1>13, <2>3 DEF CompleteJob, FailJob, TypeOK
    <2> QED BY <1>4, <1>6, <2>1, <2>2, <2>4, <2>5
  <1>14. CASE RecordFailure(w)
    <2>1. Moves(w, "fail")
      BY <1>1, <1>14, GoMoves DEF RecordFailure, Stages
    <2>2. \A h \in Gens : run'[h] = run[h] \/ run'[h] = "failed"
      BY <1>1, <1>14 DEF RecordFailure
    <2>3. artifact' = "approved" => artifact = "approved"
      BY <1>14 DEF RecordFailure
    <2>4. UNCHANGED <<dispatch, result, tasks, jobs>>
      BY <1>14 DEF RecordFailure
    <2>5. \A h \in Gens : RowFits(h)' /\ RowAdvances(h)
      BY <1>1, <2>2, <2>3, <2>4 DEF RowFits, RowAdvances
    <2> QED BY <1>4, <1>5, <2>1, <2>4, <2>5 DEF Moves
  <1>15. ASSUME NEW id \in JobIds, ClaimJob(w, id) PROVE IInv'
    <2>1. jobs[id].attempts + 1 \in 0..JobAttempts
      <3>1. jobs[id] \in Job /\ jobs[id].attempts < JobAttempts
        BY <1>1, <1>15 DEF ClaimJob, TypeOK
      <3> QED BY <3>1, ConstantsAssumption DEF Job
    <2>2. /\ worker'[w].at = "begin" /\ worker'[w].job = id /\ worker'[w].run = id[1]
          /\ \A v \in Workers : v # w => worker'[v] = worker[v]
      BY <1>1, <1>15, <2>1, ClaimFits DEF ClaimJob
    <2>3. jobs[id].status # "absent" /\ \A j \in JobIds : j # id => jobs'[j] = jobs[j]
      BY <1>1, <1>15 DEF ClaimJob, TypeOK
    <2>4. UNCHANGED <<artifact, run, dispatch, result, tasks>>
      BY <1>15 DEF ClaimJob
    <2>5. WorkFits(w)'
      <3>1. id[2] # 0 => dispatch[id[1]].status # "none"
        BY <2>3 DEF IInv, CollectHasDispatch
      <3> QED BY <2>2, <2>4, <3>1 DEF WorkFits, Collecting
    <2> QED BY <1>4, <1>6, <2>2, <2>3, <2>4, <2>5
  <1> QED BY <1>7, <1>8, <1>9, <1>10, <1>11, <1>12, <1>13, <1>14, <1>15

(* A task that moves keeps its attempt; the others stay as they are.       *)
LEMMA MovedTask ==
    ASSUME NEW t \in Task, NEW at, NEW o
    PROVE  LET u == [t EXCEPT !.at = at, !.outcome = o] IN
           u.gen = t.gen /\ u.attempt = t.attempt /\ u.at = at /\ u.outcome = o
  BY DEF Task

(* Moving a task keeps the tasks distinct, and claimed where they are.     *)
LEMMA MovedTasksStayClaimed ==
    ASSUME TypeOK, TasksAreDistinct, \A t \in tasks : TaskIsClaimed(t),
           NEW t \in tasks, NEW at, NEW o, tasks' = MoveTo(t, at, o),
           at = "complete" => result'[t.gen][t.attempt] = o,
           \A u \in tasks : u # t => result'[u.gen][u.attempt] = result[u.gen][u.attempt],
           \A g \in Gens : /\ dispatch'[g].attempts = dispatch[g].attempts
                           /\ dispatch'[g].key = dispatch[g].key
    PROVE  TasksAreDistinct' /\ \A u \in tasks' : TaskIsClaimed(u)'
  <1> DEFINE m == [t EXCEPT !.at = at, !.outcome = o]
  <1>1. t \in Task /\ \A u \in tasks : u.gen \in Gens
    BY TaskMoves DEF TypeOK
  <1>2. m.gen = t.gen /\ m.attempt = t.attempt /\ m.at = at /\ m.outcome = o
    BY <1>1, MovedTask
  <1>3. tasks' = (tasks \ {t}) \cup {m}
    BY DEF MoveTo
  <1> HIDE DEF m
  <1>4. TasksAreDistinct'
    BY <1>2, <1>3 DEF TasksAreDistinct, KeyOf
  <1>5. TaskIsClaimed(m)'
    BY <1>1, <1>2 DEF TaskIsClaimed
  <1>6. ASSUME NEW u \in tasks, u # t PROVE TaskIsClaimed(u)'
    BY <1>1, <1>6 DEF TaskIsClaimed
  <1> QED BY <1>3, <1>4, <1>5, <1>6

(* The runners' steps keep the invariant.                                  *)
LEMMA RunnerIInv ==
    ASSUME IInv,
           \/ \E r \in Runners : RunnerStep(r) \/ RunnerCrash(r)
           \/ \E t \in tasks : Heartbeat(t) \/ Shutdown(t)
           \/ \E g \in Gens : DispatchLapses(g)
    PROVE  IInv'
  <1>1. /\ TypeOK /\ TInv /\ dispatch \in [Gens -> Dispatch]
        /\ TasksAreDistinct /\ \A t \in tasks : TaskIsClaimed(t)
        /\ \A h \in Gens : RowFits(h)
        /\ \A t \in tasks : t \in Task /\ t.gen \in Gens /\ t.attempt \in Attempts
    BY TaskMoves DEF IInv, TInv, TypeOK
  <1>2. TInv' /\ TypeOK'
    BY <1>1, RunnerTInv DEF TInv
  <1>3. \A h \in Gens : dispatch[h].attempts \in Nat /\ dispatch[h].key \in Nat
    BY <1>1, RowTypes
  <1>4. \A t \in tasks : t.attempt \in Nat /\ t.attempt > 0
    BY <1>1 DEF Attempts
  (* The workers and their jobs are not touched.                           *)
  <1>5. ASSUME jobs' = jobs, worker' = worker,
               \A h \in Gens : RowFits(h)' /\ RowAdvances(h),
               TasksAreDistinct', \A t \in tasks' : TaskIsClaimed(t)'
        PROVE  IInv'
    <2>1. \A v \in Workers : WorkFits(v)'
      BY <1>1, <1>5, WorkStaysFit DEF IInv
    <2>2. CollectHasDispatch'
      BY <1>5, JobsStayFit DEF IInv
    <2> QED BY <1>2, <1>5, <2>1, <2>2 DEF IInv
  (* A lease that lapses or comes back is all that changes in a row.       *)
  <1>6. ASSUME NEW g \in Gens, NEW b \in BOOLEAN,
               dispatch' = dispatch \/ dispatch' = [dispatch EXCEPT ![g].lapsed = b],
               UNCHANGED <<artifact, run, result>>
        PROVE  \A h \in Gens : /\ dispatch'[h].attempts = dispatch[h].attempts
                               /\ dispatch'[h].key = dispatch[h].key
                               /\ RowFits(h)' /\ RowAdvances(h)
    <2>1. \A d \in Dispatch : LET e == [d EXCEPT !.lapsed = b] IN
             /\ e.status = d.status /\ e.attempts = d.attempts
             /\ e.key = d.key /\ e.collected = d.collected
      BY DEF Dispatch
    <2>2. \A h \in Gens :
             /\ dispatch'[h].status = dispatch[h].status
             /\ dispatch'[h].attempts = dispatch[h].attempts
             /\ dispatch'[h].key = dispatch[h].key
             /\ dispatch'[h].collected = dispatch[h].collected
      <3>1. CASE dispatch' = [dispatch EXCEPT ![g].lapsed = b]
        BY <1>1, <2>1, <3>1
      <3> QED BY <1>6, <3>1
    <2> QED BY <1>1, <1>6, <2>2 DEF RowFits, RowAdvances
  <1>7. ASSUME NEW r \in Runners, NEW g \in Gens, RunnerClaim(r, g) PROVE IInv'
    <2>0. PICK n : n = [gen |-> g, attempt |-> dispatch[g].attempts + 1, runner |-> r,
                        at |-> "execute", outcome |-> "none"]
      OBVIOUS
    <2>1. dispatch[g].status \in Open
      BY <1>7 DEF RunnerClaim, Open
    <2>2. \A h \in Gens :
             /\ dispatch'[h].status = IF h = g THEN "running" ELSE dispatch[h].status
             /\ dispatch'[h].attempts = IF h = g THEN dispatch[g].attempts + 1
                                        ELSE dispatch[h].attempts
             /\ dispatch'[h].key = dispatch[h].key
             /\ dispatch'[h].collected = dispatch[h].collected
      <3>1. \A d \in Dispatch, a \in Nat :
               LET e == [d EXCEPT !.status = "running", !.owner = r, !.lapsed = FALSE,
                                  !.attempts = a]
               IN  /\ e.status = "running" /\ e.attempts = a
                   /\ e.key = d.key /\ e.collected = d.collected
        BY DEF Dispatch
      <3>2. dispatch[g].attempts + 1 \in Nat
        BY <1>3
      <3>3. dispatch' = [dispatch EXCEPT ![g] =
                           [dispatch[g] EXCEPT !.status = "running", !.owner = r, !.lapsed = FALSE,
                                               !.attempts = dispatch[g].attempts + 1]]
        BY <1>7 DEF RunnerClaim
      <3> QED BY <1>1, <3>1, <3>2, <3>3
    <2>3. tasks' = tasks \cup {n} /\ UNCHANGED <<artifact, run, result, jobs, worker>>
      BY <1>7, <2>0 DEF RunnerClaim
    <2>4. n.gen = g /\ n.attempt = dispatch[g].attempts + 1 /\ n.at = "execute"
      BY <2>0
    <2>5. ASSUME NEW h \in Gens PROVE RowFits(h)' /\ RowAdvances(h)
      <3>1. RowFits(h) /\ (h = g => dispatch[g].key = 0)
        BY <1>1, <1>3, <2>1 DEF RowFits, Open, Ended
      <3> QED BY <1>1, <2>1, <2>2, <2>3, <3>1 DEF RowFits, RowAdvances, Open, Ended
    <2>6. \A t \in tasks : t.gen = g => t.attempt < n.attempt
      BY <1>1, <1>3, <1>4, <2>4 DEF TaskIsClaimed
    <2>7. TasksAreDistinct'
      <3>1. \A t \in tasks : KeyOf(t) # KeyOf(n)
        BY <1>3, <1>4, <2>4, <2>6 DEF KeyOf
      <3> QED BY <1>1, <2>3, <3>1 DEF TasksAreDistinct
    <2>8. \A t \in tasks : TaskIsClaimed(t)'
      BY <1>1, <1>3, <1>4, <2>2, <2>3 DEF TaskIsClaimed
    <2>9. TaskIsClaimed(n)'
      <3>1. dispatch[g].key = 0
        BY <1>1, <1>3, <2>1 DEF RowFits, Open, Ended
      <3> QED BY <1>3, <2>2, <2>4, <3>1 DEF TaskIsClaimed
    <2> QED BY <1>5, <2>3, <2>5, <2>7, <2>8, <2>9
  <1>8. ASSUME NEW t \in tasks, Execute(t) PROVE IInv'
    <2>1. PICK at \in {"renew", "report"},
               o \in {"passed", "broken", "failed", "timed_out"} : tasks' = MoveTo(t, at, o)
      BY <1>8 DEF Execute
    <2>2. UNCHANGED <<artifact, run, dispatch, result, jobs, worker>>
      BY <1>8 DEF Execute
    <2>3. \A h \in Gens : RowFits(h)' /\ RowAdvances(h)
      BY <1>1, <1>6, <2>2
    <2>4. TasksAreDistinct' /\ \A u \in tasks' : TaskIsClaimed(u)'
      BY <1>1, <2>1, <2>2, MovedTasksStayClaimed
    <2> QED BY <1>5, <2>2, <2>3, <2>4
  <1>9. ASSUME NEW t \in tasks, RenewBeforeStore(t) PROVE IInv'
    <2>1. UNCHANGED <<artifact, run, result, jobs, worker>>
      BY <1>9 DEF RenewBeforeStore
    <2>2. \A h \in Gens : /\ dispatch'[h].attempts = dispatch[h].attempts
                          /\ dispatch'[h].key = dispatch[h].key
                          /\ RowFits(h)' /\ RowAdvances(h)
      BY <1>1, <1>6, <1>9, <2>1 DEF RenewBeforeStore
    <2>3. TasksAreDistinct' /\ \A u \in tasks' : TaskIsClaimed(u)'
      <3>1. CASE Holds(t)
        BY <1>1, <1>9, <2>1, <2>2, <3>1, MovedTasksStayClaimed DEF RenewBeforeStore
      <3>2. CASE tasks' = tasks \ {t}
        BY <1>1, <1>2, <1>3, <2>1, <2>2, <3>2, TasksStayClaimed
      <3> QED BY <1>9, <3>1, <3>2 DEF RenewBeforeStore
    <2> QED BY <1>5, <2>1, <2>2, <2>3
  <1>10. ASSUME NEW t \in tasks, StoreResult(t) PROVE IInv'
    <2>1. UNCHANGED <<artifact, run, dispatch, jobs, worker>>
      BY <1>10 DEF StoreResult
    <2>2. CASE /\ result' = [result EXCEPT ![t.gen][t.attempt] = t.outcome]
               /\ tasks' = MoveTo(t, "complete", t.outcome)
      <3>1. \A h \in Gens, a \in Attempts :
               result'[h][a] = IF h = t.gen /\ a = t.attempt THEN t.outcome ELSE result[h][a]
        BY <1>1, <2>2 DEF TypeOK
      <3>2. \A h \in Gens : dispatch[h].key > 0 =>
               result'[h][dispatch[h].key] = result[h][dispatch[h].key]
        <4>1. \A h \in Gens : dispatch[h].key > 0 => dispatch[h].key \in Attempts
          BY <1>1, RowTypes DEF Attempts
        <4> QED BY <1>1, <3>1, <4>1 DEF TaskIsClaimed
      <3>3. ASSUME NEW h \in Gens PROVE RowFits(h)' /\ RowAdvances(h)
        <4>1. RowFits(h) /\ dispatch[h].key \in Nat
          BY <1>1, <1>3
        <4>2. run[h] = "succeeded" => dispatch[h].key > 0
          BY <4>1 DEF RowFits
        <4> QED BY <2>1, <3>2, <4>1, <4>2 DEF RowFits, RowAdvances
      <3>4. TasksAreDistinct' /\ \A u \in tasks' : TaskIsClaimed(u)'
        <4>1. result'[t.gen][t.attempt] = t.outcome
          BY <1>1, <3>1
        <4>2. \A u \in tasks : u # t => result'[u.gen][u.attempt] = result[u.gen][u.attempt]
          BY <1>1, <3>1 DEF TasksAreDistinct, KeyOf
        <4> QED BY <1>1, <2>1, <2>2, <4>1, <4>2, MovedTasksStayClaimed
      <3> QED BY <1>5, <2>1, <3>3, <3>4
    <2>3. CASE result' = result /\ tasks' = MoveTo(t, "report", "failed")
      <3>1. \A h \in Gens : RowFits(h)' /\ RowAdvances(h)
        BY <1>1, <1>6, <2>1, <2>3
      <3>2. TasksAreDistinct' /\ \A u \in tasks' : TaskIsClaimed(u)'
        BY <1>1, <2>1, <2>3, MovedTasksStayClaimed
      <3> QED BY <1>5, <2>1, <3>1, <3>2
    <2> QED BY <1>10, <2>2, <2>3 DEF StoreResult
  (* The dispatch ends with the key of the task's attempt, or with none.   *)
  <1>11. ASSUME NEW t \in tasks, NEW status \in Ended, NEW key \in {0, t.attempt},
                key > 0 => result[t.gen][key] # "none",
                Settle(t, status, key)
         PROVE  IInv'
    <2>1. UNCHANGED <<artifact, run, result, jobs, worker>> /\ tasks' = tasks \ {t}
      BY <1>11 DEF Settle
    <2>2. CASE ~Holds(t)
      <3>1. dispatch' = dispatch
        BY <1>11, <2>2 DEF Settle
      <3>2. \A h \in Gens : RowFits(h)' /\ RowAdvances(h)
        BY <1>1, <1>6, <2>1, <3>1
      <3>3. TasksAreDistinct' /\ \A u \in tasks' : TaskIsClaimed(u)'
        BY <1>1, <1>2, <1>3, <2>1, <3>1, TasksStayClaimed
      <3> QED BY <1>5, <2>1, <3>2, <3>3
    <2>3. CASE Holds(t)
      <3>1. \A h \in Gens :
               /\ dispatch'[h].status = IF h = t.gen THEN status ELSE dispatch[h].status
               /\ dispatch'[h].key = IF h = t.gen THEN key ELSE dispatch[h].key
               /\ dispatch'[h].attempts = dispatch[h].attempts
               /\ dispatch'[h].collected = dispatch[h].collected
        <4>1. \A d \in Dispatch :
                 LET e == [d EXCEPT !.status = status, !.key = key, !.owner = None,
                                    !.lapsed = FALSE]
                 IN  /\ e.status = status /\ e.key = key
                     /\ e.attempts = d.attempts /\ e.collected = d.collected
          BY DEF Dispatch
        <4> QED BY <1>1, <1>11, <2>3, <4>1 DEF Settle
      <3>2. dispatch[t.gen].status = "running" /\ dispatch[t.gen].key = 0
        BY <1>1, <1>3, <2>3 DEF Holds, RowFits, Ended
      <3>3. ASSUME NEW h \in Gens PROVE RowFits(h)' /\ RowAdvances(h)
        <4>1. RowFits(h)
          BY <1>1
        <4> QED BY <1>1, <1>4, <1>11, <2>1, <3>1, <3>2, <4>1
                DEF RowFits, RowAdvances, Open, Ended
      <3>4. TasksAreDistinct'
        BY <1>1, <2>1 DEF TasksAreDistinct
      <3>5. ASSUME NEW u \in tasks' PROVE TaskIsClaimed(u)'
        <4>1. u \in tasks /\ TaskIsClaimed(u) /\ u.gen \in Gens /\ u.attempt > 0
          BY <1>1, <1>4, <2>1
        <4>2. u.gen = t.gen => u.attempt # t.attempt
          BY <1>1, <2>1 DEF TasksAreDistinct, KeyOf
        <4> QED BY <1>4, <2>1, <3>1, <4>1, <4>2 DEF TaskIsClaimed
      <3> QED BY <1>5, <2>1, <3>3, <3>4, <3>5
    <2> QED BY <2>2, <2>3
  <1>12. ASSUME NEW t \in tasks, CompleteResult(t) PROVE IInv'
    <2>1. result[t.gen][t.attempt] \in {"passed", "broken"}
      BY <1>1, <1>12 DEF CompleteResult, TaskIsClaimed, TInv, OutcomesFit, Fits
    <2> QED BY <1>11, <1>12, <2>1 DEF CompleteResult, Ended
  <1>13. ASSUME NEW t \in tasks, CompleteFailure(t) PROVE IInv'
    <2>1. t.outcome \in Ended
      BY <1>1, <1>13 DEF CompleteFailure, TInv, OutcomesFit, Fits, Ended
    <2> QED BY <1>11, <1>13, <2>1 DEF CompleteFailure
  <1>14. ASSUME NEW r \in Runners, RunnerCrash(r) PROVE IInv'
    <2>1. UNCHANGED <<artifact, run, dispatch, result, jobs, worker>> /\ tasks' \subseteq tasks
      BY <1>14 DEF RunnerCrash
    <2>2. \A h \in Gens : RowFits(h)' /\ RowAdvances(h)
      BY <1>1 , <2>1 DEF RowFits, RowAdvances
    <2>3. TasksAreDistinct' /\ \A u \in tasks' : TaskIsClaimed(u)'
      BY <1>1, <1>2, <1>3, <2>1, TasksStayClaimed
    <2> QED BY <1>5, <2>1, <2>2, <2>3
  <1>15. ASSUME NEW t \in tasks, Heartbeat(t) PROVE IInv'
    <2>1. UNCHANGED <<artifact, run, result, jobs, worker>> /\ tasks' \subseteq tasks
      BY <1>15 DEF Heartbeat
    <2>2. \A h \in Gens : /\ dispatch'[h].attempts = dispatch[h].attempts
                          /\ dispatch'[h].key = dispatch[h].key
                          /\ RowFits(h)' /\ RowAdvances(h)
      BY <1>1, <1>6, <1>15, <2>1 DEF Heartbeat
    <2>3. TasksAreDistinct' /\ \A u \in tasks' : TaskIsClaimed(u)'
      BY <1>1, <1>2, <1>3, <2>1, <2>2, TasksStayClaimed
    <2> QED BY <1>5, <2>1, <2>2, <2>3
  <1>16. ASSUME NEW t \in tasks, Shutdown(t) PROVE IInv'
    <2>1. /\ tasks' = MoveTo(t, "report", "cancelled")
          /\ UNCHANGED <<artifact, run, dispatch, result, jobs, worker>>
      BY <1>16 DEF Shutdown
    <2>2. \A h \in Gens : RowFits(h)' /\ RowAdvances(h)
      BY <1>1, <1>6, <2>1
    <2>3. TasksAreDistinct' /\ \A u \in tasks' : TaskIsClaimed(u)'
      BY <1>1, <2>1, MovedTasksStayClaimed
    <2> QED BY <1>5, <2>1, <2>2, <2>3
  <1>17. ASSUME NEW g \in Gens, DispatchLapses(g) PROVE IInv'
    <2>1. UNCHANGED <<artifact, run, result, tasks, jobs, worker>>
      BY <1>17 DEF DispatchLapses
    <2>2. \A h \in Gens : /\ dispatch'[h].attempts = dispatch[h].attempts
                          /\ dispatch'[h].key = dispatch[h].key
                          /\ RowFits(h)' /\ RowAdvances(h)
      BY <1>1, <1>6, <1>17, <2>1 DEF DispatchLapses
    <2>3. TasksAreDistinct' /\ \A u \in tasks' : TaskIsClaimed(u)'
      BY <1>1, <1>2, <1>3, <2>1, <2>2, TasksStayClaimed
    <2> QED BY <1>5, <2>1, <2>2, <2>3
  <1> QED BY <1>7, <1>8, <1>9, <1>10, <1>12, <1>13, <1>14, <1>15, <1>16, <1>17 DEF RunnerStep

(* The rest of the review, the administrator and the orchestrator.         *)
LEMMA ReviewIInv ==
    ASSUME IInv,
           \/ \E id \in JobIds : JobLapses(id)
           \/ QueueRuntime \/ FailElsewhere \/ Route
           \/ AutoApprove \/ ApproveArtifact \/ ManualApprove \/ Retry
    PROVE  IInv'
  <1>1. /\ TypeOK /\ TInv /\ dispatch \in [Gens -> Dispatch] /\ jobs \in [JobIds -> Job]
        /\ run \in [Gens -> {"none", "running"} \cup Ended]
        /\ \A h \in Gens : RowFits(h)
        /\ gen \in Gens
    BY DEF IInv, TInv, TypeOK
  <1>2. TInv' /\ TypeOK'
    BY <1>1, ReviewTInv DEF TInv
  <1>3. UNCHANGED <<result, tasks, worker>>
    BY DEF JobLapses, QueueRuntime, FailElsewhere, Route,
           AutoApprove, ApproveArtifact, ManualApprove, Retry
  <1>4. \A h \in Gens : dispatch[h].attempts \in Nat
    BY <1>1, RowTypes
  <1>5. ASSUME \A h \in Gens : /\ dispatch'[h].attempts = dispatch[h].attempts
                               /\ dispatch'[h].key = dispatch[h].key
                               /\ RowFits(h)' /\ RowAdvances(h),
               \A id \in JobIds : jobs'[id].status # "absent" /\ id[2] # 0 =>
                  jobs[id].status # "absent"
        PROVE  IInv'
    <2>1. \A v \in Workers : WorkFits(v)'
      BY <1>1, <1>3, <1>5, WorkStaysFit DEF IInv
    <2>2. CollectHasDispatch'
      BY <1>5, JobsStayFit DEF IInv
    <2>3. TasksAreDistinct' /\ \A t \in tasks' : TaskIsClaimed(t)'
      BY <1>1, <1>2, <1>3, <1>4, <1>5, TasksStayClaimed DEF IInv
    <2> QED BY <1>2, <1>5, <2>1, <2>2, <2>3 DEF IInv
  <1>6. ASSUME run' = run, dispatch' = dispatch
        PROVE  \A h \in Gens : /\ dispatch'[h].attempts = dispatch[h].attempts
                               /\ dispatch'[h].key = dispatch[h].key
                               /\ RowFits(h)' /\ RowAdvances(h)
    BY <1>1, <1>3, <1>6 DEF RowFits, RowAdvances
  <1>7. ASSUME NEW id \in JobIds, JobLapses(id) PROVE IInv'
    <2>1. \A j \in JobIds : jobs'[j].status # "absent" => jobs[j].status # "absent"
      BY <1>1, <1>7 DEF JobLapses
    <2> QED BY <1>5, <1>6, <1>7, <2>1 DEF JobLapses
  <1>8. CASE QueueRuntime
    <2>1. \A j \in JobIds : j[2] # 0 => jobs'[j] = jobs[j]
      BY <1>1, <1>8 DEF QueueRuntime, Insert
    <2> QED BY <1>5, <1>6, <1>8, <2>1 DEF QueueRuntime
  <1>9. CASE FailElsewhere
    BY <1>5, <1>6, <1>9 DEF FailElsewhere
  <1>10. CASE Route \/ AutoApprove \/ ApproveArtifact
    BY <1>5, <1>6, <1>10 DEF Route, AutoApprove, ApproveArtifact
  <1>11. CASE ManualApprove
    <2>1. \A h \in Gens :
             /\ dispatch'[h].attempts = dispatch[h].attempts
             /\ dispatch'[h].key = dispatch[h].key
             /\ dispatch'[h].collected = dispatch[h].collected
             /\ dispatch'[h].status = IF dispatch[h].status \in Open THEN "cancelled"
                                      ELSE dispatch[h].status
      <3>1. \A d \in Dispatch :
               LET e == [d EXCEPT !.status = "cancelled", !.owner = None, !.lapsed = FALSE] IN
               /\ e.status = "cancelled" /\ e.attempts = d.attempts
               /\ e.key = d.key /\ e.collected = d.collected
        BY DEF Dispatch
      <3> QED BY <1>1, <1>11, <3>1 DEF ManualApprove
    <2>2. \A h \in Gens : run'[h] = IF run[h] = "running" THEN "cancelled" ELSE run[h]
      BY <1>11 DEF ManualApprove
    <2>3. ASSUME NEW h \in Gens PROVE RowFits(h)' /\ RowAdvances(h)
      <3>1. RowFits(h)
        BY <1>1
      <3> QED BY <1>3, <2>1, <2>2, <3>1 DEF RowFits, RowAdvances, Open, Ended
    <2>4. \A j \in JobIds : jobs'[j].status # "absent" => jobs[j].status # "absent"
      BY <1>1, <1>11 DEF ManualApprove
    <2> QED BY <1>5, <2>1, <2>3, <2>4
  <1>12. CASE Retry
    <2>1. \A j \in JobIds : jobs'[j].status = "absent"
      BY <1>12 DEF Retry, NoJob
    <2> QED BY <1>5, <1>6, <1>12, <2>1 DEF Retry
  <1> QED BY <1>7, <1>8, <1>9, <1>10, <1>11, <1>12

(* The invariant holds at the start, and every step keeps it.              *)
LEMMA InitIInv == Init => IInv
  <1> SUFFICES ASSUME Init PROVE IInv
    OBVIOUS
  <1>1. \A g \in Gens : dispatch[g].key = 0 /\ dispatch[g].status = "none" /\ run[g] = "none"
    BY DEF Init, NoDispatch
  <1>2. \A g \in Gens : RowFits(g)
    BY <1>1 DEF RowFits, Open
  <1>3. CollectHasDispatch
    BY DEF Init, CollectHasDispatch, NoJob
  <1>4. \A w \in Workers : WorkFits(w)
    BY DEF Init, WorkFits, Idle, Collecting
  <1>5. TasksAreDistinct /\ \A t \in tasks : TaskIsClaimed(t)
    BY DEF Init, TasksAreDistinct
  <1> QED BY <1>2, <1>3, <1>4, <1>5, InitTInv DEF IInv

LEMMA NextIInv == IInv /\ [Next]_vars => IInv'
  <1> SUFFICES ASSUME IInv, [Next]_vars PROVE IInv'
    OBVIOUS
  <1>1. CASE UNCHANGED vars
    <2>1. TInv'
      BY <1>1, NextTInv DEF IInv
    <2>2. \A w \in Workers : WorkFits(w)'
      BY <1>1 DEF IInv, WorkFits, Passed, vars
    <2> QED BY <1>1, <2>1, <2>2, TablesKept DEF vars
  <1>2. CASE Next
    BY <1>2, RunnerIInv, ReadStepIInv, WriteStepIInv, ReviewIInv
       DEF Next, WorkerStep, StageStep
  <1> QED BY <1>1, <1>2

(* The inductive invariant of RuntimeDispatch.                             *)
THEOREM Invariance == Spec => []IInv
  BY InitIInv, NextIInv, PTL DEF Spec

(* A runtime run succeeds only on the stored, passing result of the last   *)
(* attempt at its dispatch, whoever was late.                              *)
THEOREM RunsEarnTheirCredit == Spec => []CreditIsEarned
  <1>1. IInv => CreditIsEarned
    BY DEF IInv, RowFits, CreditIsEarned
  <1> QED BY <1>1, Invariance, PTL

(* A runner opens no dispatch that was not open, and lets go of the rest.  *)
LEMMA RunnersOpenNothing ==
    ASSUME TInv,
           \/ \E r \in Runners : RunnerStep(r) \/ RunnerCrash(r)
           \/ \E t \in tasks : Heartbeat(t) \/ Shutdown(t)
           \/ \E g \in Gens : DispatchLapses(g)
    PROVE  /\ UNCHANGED <<artifact, gen, jobs, worker, left>>
           /\ \A h \in Gens : dispatch'[h].status \in Open => dispatch[h].status \in Open
  <1> USE DEF TInv, TypeOK
  <1>1. UNCHANGED <<artifact, gen, jobs, worker, left>>
    BY DEF RunnerStep, RunnerClaim, Execute, RenewBeforeStore, StoreResult, CompleteResult,
                CompleteFailure, Settle, RunnerCrash, Heartbeat, Shutdown, DispatchLapses
  <1>2. ASSUME NEW g \in Gens, NEW b \in BOOLEAN,
               dispatch' = dispatch \/ dispatch' = [dispatch EXCEPT ![g].lapsed = b]
        PROVE  \A h \in Gens : dispatch'[h].status \in Open => dispatch[h].status \in Open
    <2>1. \A d \in Dispatch : [d EXCEPT !.lapsed = b].status = d.status
      BY DEF Dispatch
    <2>2. CASE dispatch' = [dispatch EXCEPT ![g].lapsed = b]
      BY <2>1, <2>2
    <2> QED BY <1>2, <2>2
  <1>3. ASSUME NEW r \in Runners, NEW g \in Gens, RunnerClaim(r, g)
        PROVE  \A h \in Gens : dispatch'[h].status \in Open => dispatch[h].status \in Open
    <2>1. /\ dispatch[g].status \in Open
          /\ \A h \in Gens : h # g => dispatch'[h] = dispatch[h]
      BY <1>3 DEF RunnerClaim, Open
    <2> QED BY <2>1
  <1>4. ASSUME NEW t \in tasks, NEW status \in Ended, NEW key, Settle(t, status, key)
        PROVE  \A h \in Gens : dispatch'[h].status \in Open => dispatch[h].status \in Open
    <2>1. \A h \in Gens : dispatch'[h] = dispatch[h] \/ dispatch[h].status = "running"
      BY <1>4 DEF Settle, Holds
    <2> QED BY <2>1 DEF Open
  <1>5. \A t \in tasks : t.gen \in Gens
    BY TaskMoves DEF TypeOK
  <1>6. \A h \in Gens : dispatch'[h].status \in Open => dispatch[h].status \in Open
    <2>1. ASSUME NEW t \in tasks, CompleteResult(t)
          PROVE  \A h \in Gens : dispatch'[h].status \in Open => dispatch[h].status \in Open
      BY <1>4, <2>1 DEF CompleteResult, Ended
    <2>2. ASSUME NEW t \in tasks, CompleteFailure(t)
          PROVE  \A h \in Gens : dispatch'[h].status \in Open => dispatch[h].status \in Open
      <3>1. t.outcome \in Ended
        BY <2>2 DEF CompleteFailure, TInv, OutcomesFit, Fits, Ended
      <3> QED BY <1>4, <2>2, <3>1 DEF CompleteFailure
    <2>3. ASSUME NEW t \in tasks, RenewBeforeStore(t) \/ Heartbeat(t)
          PROVE  \A h \in Gens : dispatch'[h].status \in Open => dispatch[h].status \in Open
      BY <1>2, <1>5, <2>3 DEF RenewBeforeStore, Heartbeat
    <2>4. ASSUME NEW g \in Gens, DispatchLapses(g)
          PROVE  \A h \in Gens : dispatch'[h].status \in Open => dispatch[h].status \in Open
      BY <1>2, <2>4 DEF DispatchLapses
    <2>5. ASSUME dispatch' = dispatch
          PROVE  \A h \in Gens : dispatch'[h].status \in Open => dispatch[h].status \in Open
      BY <2>5
    <2>6. ASSUME NEW t \in tasks, Execute(t) \/ StoreResult(t) \/ Shutdown(t)
          PROVE  dispatch' = dispatch
      BY <2>6 DEF Execute, StoreResult, Shutdown
    <2>7. ASSUME NEW r \in Runners, RunnerCrash(r) PROVE dispatch' = dispatch
      BY <2>7 DEF RunnerCrash
    <2> QED BY <1>3, <2>1, <2>2, <2>3, <2>4, <2>5, <2>6, <2>7 DEF RunnerStep
  <1> QED BY <1>1, <1>6

(* Nor does any other step, once the artifact is approved.                 *)
LEMMA NothingReopens ==
    ASSUME TInv, artifact = "approved", [Next]_vars
    PROVE  left' = left /\ OpenDispatches' \subseteq OpenDispatches
  <1>1. ASSUME left' = left,
               \A h \in Gens : dispatch'[h].status \in Open => dispatch[h].status \in Open
        PROVE  left' = left /\ OpenDispatches' \subseteq OpenDispatches
    BY <1>1 DEF OpenDispatches
  <1>2. ASSUME left' = left, dispatch' = dispatch
        PROVE  left' = left /\ OpenDispatches' \subseteq OpenDispatches
    BY <1>2 DEF OpenDispatches
  <1>3. CASE \/ \E r \in Runners : RunnerStep(r) \/ RunnerCrash(r)
             \/ \E t \in tasks : Heartbeat(t) \/ Shutdown(t)
             \/ \E g \in Gens : DispatchLapses(g)
    BY <1>1, <1>3, RunnersOpenNothing
  <1>4. ASSUME NEW w \in Workers,
               \/ DispatchInsert(w) \/ CollectCancel(w) \/ CollectCommit(w)
        PROVE  left' = left /\ OpenDispatches' \subseteq OpenDispatches
    <2>1. dispatch \in [Gens -> Dispatch] /\ worker[w].run \in Gens /\ left' = left
      BY <1>4 DEF TInv, TypeOK, WorkerState, DispatchInsert, CollectCancel, CollectCommit
    <2>2. CASE DispatchInsert(w)
      BY <1>2, <2>1, <2>2 DEF DispatchInsert
    <2>3. CASE CollectCancel(w)
      <3>1. \A d \in Dispatch : [d EXCEPT !.status = "cancelled", !.owner = None,
                                         !.lapsed = FALSE].status = "cancelled"
        BY DEF Dispatch
      <3>2. \A h \in Gens : dispatch'[h] = dispatch[h] \/ dispatch'[h].status = "cancelled"
        BY <2>1, <2>3, <3>1 DEF CollectCancel
      <3> QED BY <1>1, <2>1, <3>2 DEF Open
    <2>4. CASE CollectCommit(w)
      <3>1. \A d \in Dispatch : [d EXCEPT !.collected = TRUE].status = d.status
        BY DEF Dispatch
      <3>2. \A h \in Gens : dispatch'[h].status = dispatch[h].status
        BY <2>1, <2>4, <3>1 DEF CollectCommit
      <3> QED BY <1>1, <2>1, <3>2
    <2> QED BY <1>4, <2>2, <2>3, <2>4
  <1>5. ASSUME NEW w \in Workers,
               \/ \E id \in JobIds : ClaimJob(w, id)
               \/ Begin(w) \/ DispatchRun(w) \/ DispatchCreate(w) \/ FailRun(w) \/ EnqueueCollect(w)
               \/ CollectRun(w) \/ CollectLoad(w) \/ CollectRead(w) \/ CollectRefresh(w)
               \/ CompleteJob(w) \/ RecordFailure(w) \/ FailJob(w) \/ Outage(w)
        PROVE  left' = left /\ dispatch' = dispatch
    BY <1>5 DEF ClaimJob, Begin, DispatchRun, DispatchCreate, FailRun, EnqueueCollect, CollectRun,
                CollectLoad, CollectRead, CollectRefresh, CompleteJob, RecordFailure, FailJob, Outage
  <1>6. CASE UNCHANGED vars \/ (\E id \in JobIds : JobLapses(id)) \/ QueueRuntime
    BY <1>2, <1>6 DEF vars, JobLapses, QueueRuntime
  <1>7. ~(FailElsewhere \/ Route \/ AutoApprove \/ ApproveArtifact \/ ManualApprove \/ Retry)
    BY DEF FailElsewhere, Route, AutoApprove, ApproveArtifact, ManualApprove, Retry, Reviewable
  <1> QED BY <1>2, <1>3, <1>4, <1>5, <1>6, <1>7 DEF Next, WorkerStep, StageStep

(* An artifact is approved by one of three decisions, and each records     *)
(* what it leaves open.                                                    *)
LEMMA ApprovalsRecord ==
    ASSUME TInv, artifact # "approved", artifact' = "approved", [Next]_vars
    PROVE  OpenDispatches' \subseteq left'
  <1>1. AutoApprove \/ ApproveArtifact \/ ManualApprove
    <2>1. ASSUME NEW w \in Workers, StageStep(w) PROVE FALSE
      BY <2>1 DEF StageStep, Begin, DispatchRun, DispatchCreate, DispatchInsert, FailRun,
                  EnqueueCollect, CollectRun, CollectCancel, CollectLoad, CollectRead,
                  CollectCommit, CollectRefresh, CompleteJob, RecordFailure, FailJob
    <2>2. ASSUME NEW w \in Workers, Outage(w) \/ \E id \in JobIds : ClaimJob(w, id) PROVE FALSE
      BY <2>2 DEF Outage, ClaimJob
    <2>3. ASSUME \/ \E r \in Runners : RunnerStep(r) \/ RunnerCrash(r)
                 \/ \E t \in tasks : Heartbeat(t) \/ Shutdown(t)
                 \/ \E g \in Gens : DispatchLapses(g)
          PROVE  FALSE
      BY <2>3, RunnersOpenNothing
    <2>4. ~(\/ UNCHANGED vars \/ (\E id \in JobIds : JobLapses(id)) \/ QueueRuntime
            \/ FailElsewhere \/ Route \/ Retry)
      BY DEF vars, JobLapses, QueueRuntime, FailElsewhere, Route, Retry
    <2> QED BY <2>1, <2>2, <2>3, <2>4 DEF Next, WorkerStep
  <1>2. CASE AutoApprove \/ ApproveArtifact
    BY <1>2 DEF AutoApprove, ApproveArtifact, OpenDispatches
  <1>3. CASE ManualApprove
    <2>1. \A d \in Dispatch : [d EXCEPT !.status = "cancelled", !.owner = None,
                                       !.lapsed = FALSE].status = "cancelled"
      BY DEF Dispatch
    <2>2. \A g \in Gens : dispatch'[g].status \notin Open
      BY <1>3, <2>1 DEF ManualApprove, TInv, TypeOK, Open
    <2> QED BY <2>2 DEF OpenDispatches
  <1> QED BY <1>1, <1>2, <1>3

(* Once the artifact is approved, no dispatch is opened: not by a stage    *)
(* that was at work when a person or the policy approved, nor by a runner. *)
(* What is open then was open at the approval; a manual approval leaves    *)
(* nothing open.                                                           *)
THEOREM ApprovalIsFinal == Spec => []ApprovalEndsRuntime
  <1>1. Init => ApprovalEndsRuntime
    BY DEF Init, ApprovalEndsRuntime
  <1>2. TInv /\ ApprovalEndsRuntime /\ [Next]_vars => ApprovalEndsRuntime'
    BY NothingReopens, ApprovalsRecord DEF ApprovalEndsRuntime
  <1> QED BY <1>1, <1>2, InitTInv, NextTInv, PTL DEF Spec

(* A completed dispatch names a result object that is stored.              *)
THEOREM CompletionFollowsStorage == Spec => []CompletedResultIsStored
  <1>1. IInv => CompletedResultIsStored
    BY DEF IInv, RowFits, CompletedResultIsStored
  <1> QED BY <1>1, Invariance, PTL

-----------------------------------------------------------------------------
(* Runtime validation implements its contract, step by step.               *)

(* What each kind of write leaves in a row of runtime_dispatches.          *)
LEMMA RowFields ==
    ASSUME NEW d \in Dispatch
    PROVE  /\ \A b \in BOOLEAN : LET e == [d EXCEPT !.lapsed = b] IN
                 e.status = d.status /\ e.collected = d.collected
           /\ LET e == [d EXCEPT !.collected = TRUE] IN e.status = d.status /\ e.collected = TRUE
           /\ LET e == [d EXCEPT !.status = "queued"] IN
                 e.status = "queued" /\ e.collected = d.collected
           /\ LET e == [d EXCEPT !.status = "cancelled", !.owner = None, !.lapsed = FALSE] IN
                 e.status = "cancelled" /\ e.collected = d.collected
           /\ \A s, k : LET e == [d EXCEPT !.status = s, !.key = k, !.owner = None,
                                           !.lapsed = FALSE] IN
                 e.status = s /\ e.collected = d.collected
           /\ \A r, a : LET e == [d EXCEPT !.status = "running", !.owner = r, !.lapsed = FALSE,
                                           !.attempts = a] IN
                 e.status = "running" /\ e.collected = d.collected
  <1> USE DEF Dispatch
  <1>1. \A b \in BOOLEAN : LET e == [d EXCEPT !.lapsed = b] IN
           e.status = d.status /\ e.collected = d.collected
    OBVIOUS
  <1>2. LET e == [d EXCEPT !.collected = TRUE] IN e.status = d.status /\ e.collected = TRUE
    OBVIOUS
  <1>3. LET e == [d EXCEPT !.status = "queued"] IN e.status = "queued" /\ e.collected = d.collected
    OBVIOUS
  <1>4. LET e == [d EXCEPT !.status = "cancelled", !.owner = None, !.lapsed = FALSE] IN
           e.status = "cancelled" /\ e.collected = d.collected
    OBVIOUS
  <1>5. \A s, k : LET e == [d EXCEPT !.status = s, !.key = k, !.owner = None, !.lapsed = FALSE] IN
           e.status = s /\ e.collected = d.collected
    OBVIOUS
  <1>6. \A r, a : LET e == [d EXCEPT !.status = "running", !.owner = r, !.lapsed = FALSE,
                                     !.attempts = a] IN
           e.status = "running" /\ e.collected = d.collected
    OBVIOUS
  <1> QED BY <1>1, <1>2, <1>3, <1>4, <1>5, <1>6, Zenon

(* What the contract sees of the dispatches.                               *)
Offers     == [g \in Gens |-> dispatch[g].status]
Collecteds == [g \in Gens |-> dispatch[g].collected]

(* One row changes its status, or none does.                               *)
LEMMA OneOffer ==
    ASSUME NEW g \in Gens, NEW s, dispatch'[g].status = s,
           \A h \in Gens : /\ h # g => dispatch'[h].status = dispatch[h].status
                           /\ dispatch'[h].collected = dispatch[h].collected
    PROVE  /\ Offers' = [Offers EXCEPT ![g] = s]
           /\ Collecteds' = Collecteds
  BY DEF Offers, Collecteds

LEMMA NoOffer ==
    ASSUME \A h \in Gens : /\ dispatch'[h].status = dispatch[h].status
                           /\ dispatch'[h].collected = dispatch[h].collected
    PROVE  Offers' = Offers /\ Collecteds' = Collecteds
  BY DEF Offers, Collecteds

(* The contract's actions, in these terms.                                 *)
LEMMA ContractSteps ==
    /\ Offers' = Offers /\ Collecteds' = Collecteds /\ run' = run => UNCHANGED Contract!vars
    /\ \A g \in Gens : run[g] = "none" /\ run' = [run EXCEPT ![g] = "running"]
                       /\ Offers' = Offers /\ Collecteds' = Collecteds => Contract!Next
    /\ \A g \in Gens : run[g] # "none" /\ dispatch[g].status = "none"
                       /\ Offers' = [Offers EXCEPT ![g] = "queued"]
                       /\ Collecteds' = Collecteds /\ run' = run => Contract!Next
    /\ \A g \in Gens, s \in {"running", "cancelled"} :
          dispatch[g].status \in Open /\ Offers' = [Offers EXCEPT ![g] = s]
          /\ Collecteds' = Collecteds /\ run' = run => Contract!Next
    /\ \A g \in Gens, s \in Ended :
          dispatch[g].status = "running" /\ Offers' = [Offers EXCEPT ![g] = s]
          /\ Collecteds' = Collecteds /\ run' = run => Contract!Next
    /\ \A g \in Gens : run[g] \notin {"none", "cancelled"} /\ run' = [run EXCEPT ![g] = "failed"]
                       /\ Offers' = Offers /\ Collecteds' = Collecteds => Contract!Next
    /\ \A g \in Gens, verdict \in {"succeeded", "timed_out", "failed"} :
          dispatch[g].status \in Ended /\ ~dispatch[g].collected /\ run[g] = "running"
          /\ (verdict # "failed" => dispatch[g].status = verdict)
          /\ Collecteds' = [Collecteds EXCEPT ![g] = TRUE]
          /\ run' = [run EXCEPT ![g] = verdict] /\ Offers' = Offers => Contract!Next
  <1> USE DEF Contract!Next, Offers, Collecteds
  <1>1. Offers' = Offers /\ Collecteds' = Collecteds /\ run' = run => UNCHANGED Contract!vars
    BY DEF Contract!vars
  <1>2. ASSUME NEW g \in Gens, run[g] = "none", run' = [run EXCEPT ![g] = "running"],
               Offers' = Offers, Collecteds' = Collecteds
        PROVE  Contract!Next
    <2>1. Contract!StartRun(g)
      BY <1>2 DEF Contract!StartRun
    <2> QED BY <2>1
  <1>3. ASSUME NEW g \in Gens, run[g] # "none", dispatch[g].status = "none",
               Offers' = [Offers EXCEPT ![g] = "queued"], Collecteds' = Collecteds, run' = run
        PROVE  Contract!Next
    <2>1. Contract!Offer(g)
      BY <1>3 DEF Contract!Offer
    <2> QED BY <2>1
  <1>4. ASSUME NEW g \in Gens, NEW s \in {"running", "cancelled"}, dispatch[g].status \in Open,
               Offers' = [Offers EXCEPT ![g] = s], Collecteds' = Collecteds, run' = run
        PROVE  Contract!Next
    <2>1. Contract!Take(g) \/ Contract!Withdraw(g)
      BY <1>4 DEF Contract!Take, Contract!Withdraw, Contract!Open, Open
    <2> QED BY <2>1
  <1>5. ASSUME NEW g \in Gens, NEW s \in Ended, dispatch[g].status = "running",
               Offers' = [Offers EXCEPT ![g] = s], Collecteds' = Collecteds, run' = run
        PROVE  Contract!Next
    <2>1. Contract!Report(g)
      BY <1>5 DEF Contract!Report, Contract!Ended, Ended
    <2> QED BY <2>1
  <1>6. ASSUME NEW g \in Gens, run[g] \notin {"none", "cancelled"},
               run' = [run EXCEPT ![g] = "failed"], Offers' = Offers, Collecteds' = Collecteds
        PROVE  Contract!Next
    <2>1. Contract!GiveUp(g)
      BY <1>6 DEF Contract!GiveUp
    <2> QED BY <2>1
  <1>7. ASSUME NEW g \in Gens, NEW verdict \in {"succeeded", "timed_out", "failed"},
               dispatch[g].status \in Ended, ~dispatch[g].collected, run[g] = "running",
               verdict # "failed" => dispatch[g].status = verdict,
               Collecteds' = [Collecteds EXCEPT ![g] = TRUE],
               run' = [run EXCEPT ![g] = verdict], Offers' = Offers
        PROVE  Contract!Next
    <2>1. Contract!Collect(g)
      BY <1>7 DEF Contract!Collect, Contract!Ended, Ended
    <2> QED BY <2>1
  <1> QED BY <1>1, <1>2, <1>3, <1>4, <1>5, <1>6, <1>7, Zenon

(* A runner's step takes an offer or reports on one, or the contract does  *)
(* not see it.                                                             *)
LEMMA RunnerRefines ==
    ASSUME IInv,
           \/ \E r \in Runners : RunnerStep(r) \/ RunnerCrash(r)
           \/ \E t \in tasks : Heartbeat(t) \/ Shutdown(t)
           \/ \E g \in Gens : DispatchLapses(g)
    PROVE  Contract!Next \/ UNCHANGED Contract!vars
  <1>1. /\ dispatch \in [Gens -> Dispatch] /\ OutcomesFit
        /\ \A h \in Gens : dispatch[h] \in Dispatch
        /\ \A t \in tasks : t.gen \in Gens
    BY TaskMoves DEF IInv, TInv, TypeOK
  <1>2. ASSUME dispatch' = dispatch, run' = run PROVE UNCHANGED Contract!vars
    BY <1>2, NoOffer, ContractSteps
  <1>3. ASSUME NEW g \in Gens, NEW b \in BOOLEAN, run' = run,
               dispatch' = [dispatch EXCEPT ![g].lapsed = b]
        PROVE  UNCHANGED Contract!vars
    <2>1. \A h \in Gens : /\ dispatch'[h].status = dispatch[h].status
                          /\ dispatch'[h].collected = dispatch[h].collected
      BY <1>1, <1>3, RowFields
    <2> QED BY <1>3, <2>1, NoOffer, ContractSteps
  <1>4. ASSUME NEW r \in Runners, NEW g \in Gens, RunnerClaim(r, g) PROVE Contract!Next
    <2>1. dispatch' = [dispatch EXCEPT ![g] =
                         [dispatch[g] EXCEPT !.status = "running", !.owner = r, !.lapsed = FALSE,
                                             !.attempts = dispatch[g].attempts + 1]]
      BY <1>4 DEF RunnerClaim
    <2>2. /\ dispatch'[g].status = "running"
          /\ \A h \in Gens : /\ h # g => dispatch'[h].status = dispatch[h].status
                             /\ dispatch'[h].collected = dispatch[h].collected
      BY <1>1, <2>1, RowFields
    <2>3. Offers' = [Offers EXCEPT ![g] = "running"] /\ Collecteds' = Collecteds
      BY <2>2, OneOffer
    <2> QED BY <1>4, <2>3, ContractSteps DEF RunnerClaim, Open
  <1>5. ASSUME NEW t \in tasks, NEW status \in Ended, NEW key, Settle(t, status, key)
        PROVE  Contract!Next \/ UNCHANGED Contract!vars
    <2>1. CASE Holds(t)
      <3>1. dispatch' = [dispatch EXCEPT ![t.gen] =
                           [dispatch[t.gen] EXCEPT !.status = status, !.key = key,
                                                   !.owner = None, !.lapsed = FALSE]]
        BY <1>5, <2>1 DEF Settle
      <3>2. /\ dispatch'[t.gen].status = status
            /\ \A h \in Gens : /\ h # t.gen => dispatch'[h].status = dispatch[h].status
                               /\ dispatch'[h].collected = dispatch[h].collected
        BY <1>1, <3>1, RowFields
      <3>3. Offers' = [Offers EXCEPT ![t.gen] = status] /\ Collecteds' = Collecteds
        BY <1>1, <3>2, OneOffer
      <3> QED BY <1>1, <1>5, <2>1, <3>3, ContractSteps DEF Settle, Holds
    <2> QED BY <1>2, <1>5, <2>1 DEF Settle
  <1>6. ASSUME NEW t \in tasks,
               \/ Execute(t) \/ RenewBeforeStore(t) \/ StoreResult(t)
               \/ CompleteResult(t) \/ CompleteFailure(t)
        PROVE  Contract!Next \/ UNCHANGED Contract!vars
    <2>1. CASE RenewBeforeStore(t)
      BY <1>1, <1>2, <1>3, <2>1 DEF RenewBeforeStore
    <2>2. CASE CompleteResult(t)
      BY <1>5, <2>2 DEF CompleteResult, Ended
    <2>3. CASE CompleteFailure(t)
      <3>1. t.outcome \in Ended
        BY <1>1, <2>3 DEF CompleteFailure, OutcomesFit, Fits, Ended
      <3> QED BY <1>5, <2>3, <3>1 DEF CompleteFailure
    <2> QED BY <1>2, <1>6, <2>1, <2>2, <2>3 DEF Execute, StoreResult
  <1>7. ASSUME NEW t \in tasks, Heartbeat(t) PROVE UNCHANGED Contract!vars
    BY <1>1, <1>2, <1>3, <1>7 DEF Heartbeat
  <1>8. ASSUME NEW g \in Gens, DispatchLapses(g) PROVE UNCHANGED Contract!vars
    BY <1>3, <1>8 DEF DispatchLapses
  <1>9. ASSUME NEW t \in tasks, Shutdown(t) PROVE UNCHANGED Contract!vars
    BY <1>2, <1>9 DEF Shutdown
  <1>10. ASSUME NEW r \in Runners, RunnerCrash(r) PROVE UNCHANGED Contract!vars
    BY <1>2, <1>10 DEF RunnerCrash
  <1> QED BY <1>4, <1>6, <1>7, <1>8, <1>9, <1>10 DEF RunnerStep

(* A worker's step starts, offers, withdraws, collects or gives up, or the *)
(* contract does not see it.                                               *)
LEMMA WorkerRefines ==
    ASSUME IInv, NEW w \in Workers, WorkerStep(w) \/ Outage(w)
    PROVE  Contract!Next \/ UNCHANGED Contract!vars
  <1> DEFINE g == worker[w].run
  <1>1. /\ TypeOK /\ TInv /\ WorkFits(w) /\ g \in Gens /\ gen \in Gens
        /\ dispatch \in [Gens -> Dispatch] /\ run \in [Gens -> {"none", "running"} \cup Ended]
        /\ \A h \in Gens : RowFits(h) /\ dispatch[h] \in Dispatch
    BY DEF IInv, TInv, TypeOK, WorkerState
  <1>2. ASSUME dispatch' = dispatch, run' = run PROVE UNCHANGED Contract!vars
    BY <1>2, NoOffer, ContractSteps
  <1>3. ASSUME dispatch' = dispatch, NEW h \in Gens, run[h] \notin {"none", "cancelled"},
               run' = [run EXCEPT ![h] = "failed"]
        PROVE  Contract!Next
    BY <1>3, NoOffer, ContractSteps
  <1>4. CASE DispatchRun(w)
    <2>1. /\ run' = IF run[gen] = "none" THEN [run EXCEPT ![gen] = "running"] ELSE run
          /\ dispatch' = dispatch
      BY <1>4 DEF DispatchRun
    <2> QED BY <1>1, <1>2, <2>1, NoOffer, ContractSteps
  <1>5. CASE DispatchInsert(w)
    <2>1. CASE dispatch' = dispatch
      BY <1>2, <1>5, <2>1 DEF DispatchInsert
    <2>2. CASE /\ dispatch[g].status = "none"
               /\ dispatch' = [dispatch EXCEPT ![g].status = "queued"]
      <3>1. /\ dispatch'[g].status = "queued"
            /\ \A h \in Gens : /\ h # g => dispatch'[h].status = dispatch[h].status
                               /\ dispatch'[h].collected = dispatch[h].collected
        BY <1>1, <2>2, RowFields
      <3>2. Offers' = [Offers EXCEPT ![g] = "queued"] /\ Collecteds' = Collecteds
        BY <1>1, <3>1, OneOffer
      <3>3. run[g] # "none" /\ run' = run
        BY <1>1, <1>5 DEF DispatchInsert, WorkFits
      <3> QED BY <1>1, <2>2, <3>2, <3>3, ContractSteps
    <2> QED BY <1>5, <2>1, <2>2 DEF DispatchInsert
  <1>6. CASE FailRun(w)
    <2>1. /\ run' = IF run[g] = "cancelled" THEN run ELSE [run EXCEPT ![g] = "failed"]
          /\ dispatch' = dispatch
      BY <1>6 DEF FailRun
    <2>2. run[g] # "none"
      BY <1>1, <1>6 DEF FailRun, WorkFits
    <2> QED BY <1>1, <1>2, <1>3, <2>1, <2>2
  <1>7. CASE CollectCancel(w)
    <2>1. CASE dispatch[g].status \in Open
      <3>1. dispatch' = [dispatch EXCEPT ![g] = [dispatch[g] EXCEPT !.status = "cancelled",
                                                    !.owner = None, !.lapsed = FALSE]]
        BY <1>7, <2>1 DEF CollectCancel
      <3>2. /\ dispatch'[g].status = "cancelled"
            /\ \A h \in Gens : /\ h # g => dispatch'[h].status = dispatch[h].status
                               /\ dispatch'[h].collected = dispatch[h].collected
        BY <1>1, <3>1, RowFields
      <3>3. Offers' = [Offers EXCEPT ![g] = "cancelled"] /\ Collecteds' = Collecteds
        BY <1>1, <3>2, OneOffer
      <3> QED BY <1>1, <1>7, <2>1, <3>3, ContractSteps DEF CollectCancel
    <2> QED BY <1>2, <1>7, <2>1 DEF CollectCancel
  <1>8. CASE CollectCommit(w)
    <2>1. CASE dispatch' = dispatch /\ run' = run
      BY <1>2, <2>1
    <2>2. CASE /\ dispatch[g].collected /\ run' = run
               /\ dispatch' = [dispatch EXCEPT ![g].collected = TRUE]
      <3>1. \A h \in Gens : /\ dispatch'[h].status = dispatch[h].status
                            /\ dispatch'[h].collected = dispatch[h].collected
        <4>1. dispatch[g] \in Dispatch /\ dispatch[g].collected = TRUE
          BY <1>1, <2>2 DEF Dispatch
        <4>2. dispatch'[g] = [dispatch[g] EXCEPT !.collected = TRUE]
              /\ \A h \in Gens : h # g => dispatch'[h] = dispatch[h]
          BY <1>1, <2>2
        <4>3. dispatch'[g].status = dispatch[g].status /\ dispatch'[g].collected = TRUE
          BY <4>1, <4>2 DEF Dispatch
        <4> QED BY <4>1, <4>2, <4>3
      <3> QED BY <2>2, <3>1, NoOffer, ContractSteps
    <2>3. CASE /\ ~dispatch[g].collected /\ run[g] = "running"
               /\ run' = [run EXCEPT ![g] = worker[w].verdict]
               /\ dispatch' = [dispatch EXCEPT ![g].collected = TRUE]
      <3>1. /\ dispatch'[g].collected = TRUE
            /\ \A h \in Gens : /\ dispatch'[h].status = dispatch[h].status
                               /\ h # g => dispatch'[h].collected = dispatch[h].collected
        <4>1. dispatch'[g] = [dispatch[g] EXCEPT !.collected = TRUE]
              /\ \A h \in Gens : h # g => dispatch'[h] = dispatch[h]
          BY <1>1, <2>3
        <4>2. dispatch[g] \in Dispatch
          BY <1>1
        <4>3. dispatch'[g].status = dispatch[g].status /\ dispatch'[g].collected = TRUE
          BY <4>1, <4>2 DEF Dispatch
        <4> QED BY <4>1, <4>3
      <3>2. Offers' = Offers /\ Collecteds' = [Collecteds EXCEPT ![g] = TRUE]
        BY <1>1, <3>1 DEF Offers, Collecteds
      <3>3. /\ dispatch[g].status \in Ended
            /\ worker[w].verdict \in {"succeeded", "timed_out", "failed"}
            /\ worker[w].verdict \in {"succeeded", "timed_out"}
                  => dispatch[g].status = worker[w].verdict
        BY <1>1, <1>8 DEF CollectCommit, WorkFits, Passed
      <3> QED BY <1>1, <2>3, <3>2, <3>3, ContractSteps
    <2> QED BY <1>8, <2>1, <2>2, <2>3 DEF CollectCommit
  <1>9. CASE RecordFailure(w)
    <2>1. /\ \/ run' = run
             \/ run[gen] = "running" /\ run' = [run EXCEPT ![gen] = "failed"]
          /\ dispatch' = dispatch
      BY <1>9 DEF RecordFailure, FailsRun
    <2> QED BY <1>1, <1>2, <1>3, <2>1
  <1>10. CASE \/ Begin(w) \/ DispatchCreate(w) \/ CollectRun(w) \/ CollectLoad(w)
              \/ CollectRead(w) \/ CollectRefresh(w) \/ Outage(w)
    BY <1>1, <1>2, <1>10, ReadStepTInv
  <1>11. CASE \/ EnqueueCollect(w) \/ CompleteJob(w) \/ FailJob(w)
              \/ \E id \in JobIds : ClaimJob(w, id)
    BY <1>2, <1>11 DEF EnqueueCollect, CompleteJob, FailJob, ClaimJob
  <1> QED BY <1>4, <1>5, <1>6, <1>7, <1>8, <1>9, <1>10, <1>11 DEF WorkerStep, StageStep

(* Every step is a step of the contract, or none.                          *)
LEMMA NextRefines == IInv /\ [Next]_vars => [Contract!Next]_(Contract!vars)
  <1> SUFFICES ASSUME IInv, [Next]_vars PROVE Contract!Next \/ UNCHANGED Contract!vars
    OBVIOUS
  <1>1. ASSUME dispatch' = dispatch, run' = run PROVE UNCHANGED Contract!vars
    BY <1>1, NoOffer, ContractSteps
  <1>2. CASE UNCHANGED vars \/ (\E id \in JobIds : JobLapses(id))
             \/ QueueRuntime \/ FailElsewhere \/ Route
             \/ AutoApprove \/ ApproveArtifact \/ Retry
    BY <1>1, <1>2 DEF vars, JobLapses, QueueRuntime, FailElsewhere, Route,
                      AutoApprove, ApproveArtifact, Retry
  <1>3. CASE ManualApprove
    <2>1. \A h \in Gens :
             /\ dispatch'[h].status = IF dispatch[h].status \in Open THEN "cancelled"
                                      ELSE dispatch[h].status
             /\ dispatch'[h].collected = dispatch[h].collected
      <3>1. \A h \in Gens : dispatch[h] \in Dispatch
        BY DEF IInv, TInv, TypeOK
      <3>2. \A h \in Gens : dispatch'[h] = IF dispatch[h].status \in Open
                                           THEN [dispatch[h] EXCEPT !.status = "cancelled",
                                                            !.owner = None, !.lapsed = FALSE]
                                           ELSE dispatch[h]
        BY <1>3 DEF ManualApprove
      <3>3. \A d \in Dispatch :
               LET e == [d EXCEPT !.status = "cancelled", !.owner = None, !.lapsed = FALSE] IN
               e.status = "cancelled" /\ e.collected = d.collected
        BY DEF Dispatch
      <3> QED BY <3>1, <3>2, <3>3
    <2>2. Offers' = [h \in Gens |-> IF Offers[h] \in Open THEN "cancelled" ELSE Offers[h]]
          /\ Collecteds' = Collecteds
      BY <2>1 DEF Offers, Collecteds
    <2>3. Contract!Decide
      BY <1>3, <2>2 DEF Contract!Decide, Contract!Open, Open, ManualApprove, Offers, Collecteds
    <2> QED BY <2>3 DEF Contract!Next
  <1>4. CASE \/ \E r \in Runners : RunnerStep(r) \/ RunnerCrash(r)
             \/ \E t \in tasks : Heartbeat(t) \/ Shutdown(t)
             \/ \E g \in Gens : DispatchLapses(g)
    BY <1>4, RunnerRefines
  <1>5. CASE \E w \in Workers : WorkerStep(w) \/ Outage(w)
    BY <1>5, WorkerRefines
  <1> QED BY <1>2, <1>3, <1>4, <1>5 DEF Next

(* Runtime validation implements its contract.                             *)
THEOREM RuntimeImplementsContract == Spec => ImplementsRuntimeContract
  <1>1. Init => Contract!Init
    BY DEF Init, Contract!Init, NoDispatch
  <1> QED BY <1>1, Invariance, NextRefines, PTL DEF Spec, ImplementsRuntimeContract, Contract!Spec

-----------------------------------------------------------------------------
(* Without a pause of a worker, only the current attempt of a review is at *)
(* work: its jobs are the only ones, a worker that is not idle owns the    *)
(* job it executes (until an approval cancels it), and no other attempt's  *)
(* dispatch is open.                                                       *)
AtWork(w) ==
    worker[w].at # "idle" =>
        /\ worker[w].job[1] = gen /\ worker[w].run = gen
        /\ artifact # "approved" =>
              jobs[worker[w].job].status = "running" /\ jobs[worker[w].job].owner = w

CurrentOnly ==
    /\ \A id \in JobIds : ~jobs[id].lapsed /\ (jobs[id].status # "absent" => id[1] = gen)
    /\ \A w \in Workers : AtWork(w)
    /\ \A g \in Gens : dispatch[g].status \in Open => g = gen

(* What each kind of write leaves in a row of artifact_jobs.               *)
LEMMA JobFields ==
    ASSUME NEW j \in Job
    PROVE  /\ \A s : LET i == [j EXCEPT !.status = s, !.owner = None] IN
                 i.status = s /\ i.lapsed = j.lapsed
           /\ \A s : LET i == [j EXCEPT !.status = s, !.owner = None, !.lapsed = FALSE] IN
                 i.status = s /\ i.lapsed = FALSE
  <1> USE DEF Job
  <1>1. \A s : LET i == [j EXCEPT !.status = s, !.owner = None] IN
           i.status = s /\ i.lapsed = j.lapsed
    OBVIOUS
  <1>2. \A s : LET i == [j EXCEPT !.status = s, !.owner = None, !.lapsed = FALSE] IN
           i.status = s /\ i.lapsed = FALSE
    OBVIOUS
  <1> QED BY <1>1, <1>2, Zenon

(* An insertion adds one queued job, or none.                              *)
LEMMA InsertAdds ==
    ASSUME jobs \in [JobIds -> Job], NEW i, Insert(i)
    PROVE  \A id \in JobIds : \/ jobs'[id] = jobs[id]
                              \/ id = i /\ jobs[id].status = "absent" /\ jobs'[id] = NewJob
  BY DEF Insert

(* A step in memory of a worker that goes on with its job.                 *)
LEMMA MovesAtWork ==
    ASSUME CurrentOnly, NEW w \in Workers, NEW s, Moves(w, s), worker[w].at # "idle",
           worker'[w].run \in {worker[w].run, gen},
           gen' = gen, artifact' # "approved" => artifact # "approved",
           \A id \in JobIds : jobs[id].status = "running" => jobs'[id] = jobs[id],
           worker[w].job \in JobIds,
           \A v \in Workers : worker[v].at # "idle" => worker[v].job \in JobIds
    PROVE  \A v \in Workers : AtWork(v)'
  BY DEF CurrentOnly, AtWork, Moves

LEMMA NextCurrentOnly ==
    ASSUME "pause" \notin Events, TInv, CurrentOnly, [Next]_vars
    PROVE  CurrentOnly'
  <1>1. /\ TypeOK /\ jobs \in [JobIds -> Job] /\ dispatch \in [Gens -> Dispatch]
        /\ \A v \in Workers : worker[v].at # "idle" => worker[v].job \in JobIds
        /\ \A h \in Gens : dispatch[h] \in Dispatch
        /\ \A id \in JobIds : jobs[id] \in Job
        /\ gen \in Gens /\ TInv'
    BY NextTInv DEF TInv, TypeOK, WorkersHaveJobs
  (* A step that opens no dispatch and leaves jobs and workers alone.      *)
  <1>2. ASSUME UNCHANGED <<gen, jobs, worker>>,
               artifact' # "approved" => artifact # "approved",
               \A h \in Gens : dispatch'[h].status \in Open => dispatch[h].status \in Open
        PROVE  CurrentOnly'
    BY <1>2 DEF CurrentOnly, AtWork
  <1>3. CASE \/ \E r \in Runners : RunnerStep(r) \/ RunnerCrash(r)
             \/ \E t \in tasks : Heartbeat(t) \/ Shutdown(t)
             \/ \E g \in Gens : DispatchLapses(g)
    BY <1>2, <1>3, RunnersOpenNothing DEF TInv
  (* A stage step, but for the claim and the end of a job.                 *)
  <1>4. ASSUME NEW w \in Workers, worker[w].at # "idle",
               \E s : Moves(w, s) /\ worker'[w].run \in {worker[w].run, gen},
               gen' = gen,
               artifact' # "approved" => artifact # "approved",
               \A id \in JobIds :
                  \/ jobs'[id] = jobs[id]
                  \/ jobs[id].status = "absent" /\ jobs'[id] = NewJob /\ id[1] = gen,
               \A h \in Gens : dispatch'[h].status \in Open => dispatch[h].status \in Open \/ h = gen
        PROVE  CurrentOnly'
    <2>1. \A v \in Workers : AtWork(v)'
      BY <1>1, <1>4, MovesAtWork
    <2>2. \A id \in JobIds : ~jobs'[id].lapsed /\ (jobs'[id].status # "absent" => id[1] = gen)
      BY <1>4 DEF CurrentOnly, NewJob, NoJob
    <2> QED BY <1>4, <2>1, <2>2 DEF CurrentOnly
  <1>5. ASSUME NEW w \in Workers, worker[w].at # "idle" => worker[w].run = gen
        PROVE  /\ worker[w].run \in Gens
               /\ \A x \in Stages : Go(w, x) => Moves(w, x) /\ worker'[w].run = worker[w].run
               /\ \A b \in BOOLEAN : Raise(w, b) => Moves(w, "record")
                                                    /\ worker'[w].run = worker[w].run
    <2>1. worker[w].run \in Gens
      BY <1>1 DEF TypeOK, WorkerState
    <2> QED BY <1>1, <2>1, GoMoves, RaiseMoves
  <1>6. ASSUME NEW w \in Workers,
               \/ Begin(w) \/ DispatchCreate(w) \/ CollectRun(w) \/ CollectLoad(w)
               \/ CollectRead(w) \/ CollectRefresh(w) \/ Outage(w)
        PROVE  CurrentOnly'
    <2>1. /\ worker[w].at # "idle" /\ KeepsRun(w)
          /\ UNCHANGED <<artifact, gen, dispatch, jobs>>
      BY <1>6, ReadStepTInv
    <2>2. \E s : Moves(w, s) /\ worker'[w].run \in {worker[w].run, gen}
      BY <2>1 DEF KeepsRun
    <2>3. gen' = gen /\ (artifact' # "approved" => artifact # "approved")
      BY <2>1
    <2>4. \A id \in JobIds : \/ jobs'[id] = jobs[id]
                             \/ jobs[id].status = "absent" /\ jobs'[id] = NewJob /\ id[1] = gen
      BY <2>1
    <2>5. \A h \in Gens : dispatch'[h].status \in Open
                             => dispatch[h].status \in Open \/ h = gen
      BY <2>1
    <2> QED BY <1>4, <2>1, <2>2, <2>3, <2>4, <2>5, Zenon
  <1>7. ASSUME NEW w \in Workers,
               \/ DispatchRun(w) \/ FailRun(w) \/ EnqueueCollect(w) \/ RecordFailure(w)
        PROVE  CurrentOnly'
    <2>1. /\ worker[w].at # "idle" /\ UNCHANGED <<gen, dispatch>>
          /\ artifact' # "approved" => artifact # "approved"
      BY <1>7 DEF DispatchRun, FailRun, EnqueueCollect, RecordFailure
    <2>2. worker[w].run = gen /\ worker[w].run \in Gens
      BY <1>1, <2>1 DEF CurrentOnly, AtWork
    <2>3. \E s : Moves(w, s) /\ worker'[w].run \in {worker[w].run, gen}
      <3>1. CASE DispatchRun(w)
        <4>1. PICK next \in {"done", "dispatch_create", "fail_run"} :
                 worker' = [worker EXCEPT ![w] = [@ EXCEPT !.at = next, !.run = gen]]
          BY <3>1 DEF DispatchRun
        <4>2. Moves(w, next) /\ worker'[w].run = gen
          BY <1>1, <4>1, RunMoves DEF Stages
        <4> QED BY <4>2
      <3> QED BY <1>5, <1>7, <2>2, <3>1 DEF FailRun, EnqueueCollect, RecordFailure, Stages
    <2>4. ASSUME NEW id \in JobIds
          PROVE  \/ jobs'[id] = jobs[id]
                 \/ jobs[id].status = "absent" /\ jobs'[id] = NewJob /\ id[1] = gen
      <3>1. CASE EnqueueCollect(w)
        BY <1>1, <2>2, <3>1 DEF EnqueueCollect, Insert
      <3> QED BY <1>7, <3>1 DEF DispatchRun, FailRun, RecordFailure
    <2> QED BY <1>4, <2>1, <2>3, <2>4
  <1>8. ASSUME NEW w \in Workers, DispatchInsert(w) \/ CollectCancel(w) \/ CollectCommit(w)
        PROVE  CurrentOnly'
    <2>1. worker[w].at # "idle" /\ UNCHANGED <<artifact, gen, jobs>>
      BY <1>8 DEF DispatchInsert, CollectCancel, CollectCommit
    <2>2. worker[w].run = gen
      BY <1>1, <2>1 DEF CurrentOnly, AtWork
    <2>3. \E s : Moves(w, s) /\ worker'[w].run \in {worker[w].run, gen}
      <3>1. ASSUME worker' = [worker EXCEPT ![w] = [@ EXCEPT !.at = "enqueue", !.next = 1]]
            PROVE  Moves(w, "enqueue") /\ worker'[w].run = worker[w].run
        <4>1. 1 \in 0..(MaxPolls + 1)
          BY ConstantsAssumption
        <4> QED BY <1>1, <3>1, <4>1, EnqueueMoves
      <3> QED BY <1>5, <1>8, <2>2, <3>1 DEF DispatchInsert, CollectCancel, CollectCommit, Stages
    <2>4. \A h \in Gens : h # gen => dispatch'[h] = dispatch[h]
      BY <1>1, <1>8, <2>2 DEF DispatchInsert, CollectCancel, CollectCommit
    <2> QED BY <1>4, <2>1, <2>3, <2>4
  <1>9. ASSUME NEW w \in Workers, CompleteJob(w) \/ FailJob(w) PROVE CurrentOnly'
    <2>1. /\ worker' = [worker EXCEPT ![w] = Idle]
          /\ UNCHANGED <<artifact, gen, dispatch>>
          /\ worker[w].at # "idle"
      BY <1>9 DEF CompleteJob, FailJob
    <2>2. worker'[w].at = "idle" /\ \A v \in Workers : v # w => worker'[v] = worker[v]
      BY <2>1, RestFits
    <2>3. /\ \A id \in JobIds : id # worker[w].job => jobs'[id] = jobs[id]
          /\ jobs' = jobs \/ OwnsJob(w)
      BY <1>1, <1>9, <2>1 DEF CompleteJob, FailJob
    <2>4. jobs' = jobs \/ /\ jobs'[worker[w].job].lapsed = jobs[worker[w].job].lapsed
                             \/ jobs'[worker[w].job].lapsed = FALSE
                          /\ jobs[worker[w].job].status = "running"
      <3>1. worker[w].job \in JobIds /\ jobs[worker[w].job] \in Job
        BY <1>1, <2>1
      <3>2. CASE OwnsJob(w)
        <4>1. PICK s : \/ jobs'[worker[w].job] = [jobs[worker[w].job] EXCEPT
                              !.status = s, !.owner = None]
                       \/ jobs'[worker[w].job] = [jobs[worker[w].job] EXCEPT
                              !.status = s, !.owner = None, !.lapsed = FALSE]
          BY <1>1, <1>9, <3>1, <3>2 DEF CompleteJob, FailJob
        <4> QED BY <3>1, <3>2, <4>1 DEF OwnsJob, Job
      <3> QED BY <2>3, <3>2
    <2>5. \A id \in JobIds : ~jobs'[id].lapsed /\ (jobs'[id].status # "absent" => id[1] = gen)
      BY <1>1, <2>1, <2>3, <2>4 DEF CurrentOnly
    <2>6. \A v \in Workers : AtWork(v)'
      BY <1>1, <2>1, <2>2, <2>3 DEF CurrentOnly, AtWork, OwnsJob
    <2> QED BY <2>1, <2>5, <2>6 DEF CurrentOnly
  <1>10. ASSUME NEW w \in Workers, NEW id \in JobIds, ClaimJob(w, id) PROVE CurrentOnly'
    <2>1. jobs[id].attempts + 1 \in 0..JobAttempts
      BY <1>1, <1>10, ConstantsAssumption DEF ClaimJob, Job
    <2>2. /\ worker'[w].job = id /\ worker'[w].run = id[1]
          /\ \A v \in Workers : v # w => worker'[v] = worker[v]
      BY <1>10, <2>1, ClaimFits DEF ClaimJob
    <2>3. /\ jobs'[id].status = "running" /\ jobs'[id].owner = w /\ jobs'[id].lapsed = FALSE
          /\ \A j \in JobIds : j # id => jobs'[j] = jobs[j]
          /\ jobs[id].status = "queued"
          /\ UNCHANGED <<artifact, gen, dispatch>>
      BY <1>1, <1>10 DEF ClaimJob, CurrentOnly
    <2>4. id[1] = gen
      BY <2>3 DEF CurrentOnly
    <2>5. \A v \in Workers : AtWork(v)'
      BY <1>1, <2>2, <2>3, <2>4 DEF CurrentOnly, AtWork
    <2> QED BY <2>3, <2>4, <2>5 DEF CurrentOnly
  <1>11. ASSUME NEW id \in JobIds, JobLapses(id) PROVE FALSE
    BY <1>11 DEF JobLapses, Happens
  <1>12. CASE QueueRuntime
    <2>1. /\ UNCHANGED <<artifact, gen, dispatch, worker>>
          /\ Insert(<<gen, 0>>)
      BY <1>12 DEF QueueRuntime
    <2>3. \A id \in JobIds : \/ jobs'[id] = jobs[id]
                             \/ jobs[id].status = "absent" /\ jobs'[id] = NewJob /\ id[1] = gen
      BY <1>1, <2>1, InsertAdds
    <2>2. \A v \in Workers : AtWork(v)'
      BY <1>1, <2>1, <2>3 DEF CurrentOnly, AtWork
    <2> QED BY <2>1, <2>2, <2>3 DEF CurrentOnly, NewJob, NoJob
  <1>13. CASE FailElsewhere \/ Route \/ AutoApprove \/ ApproveArtifact
    BY <1>2, <1>13 DEF FailElsewhere, Route, AutoApprove, ApproveArtifact
  <1>14. CASE ManualApprove
    <2>1. UNCHANGED <<gen, worker>> /\ artifact' = "approved"
      BY <1>14 DEF ManualApprove
    <2>2. \A id \in JobIds : /\ jobs'[id].lapsed = jobs[id].lapsed
                             /\ jobs[id].status = "absent" => jobs'[id].status = "absent"
      BY <1>1, <1>14, JobFields DEF ManualApprove
    <2>3. \A h \in Gens : dispatch'[h].status \in Open => dispatch[h].status \in Open
      BY <1>14 DEF ManualApprove
    <2> QED BY <2>1, <2>2, <2>3 DEF CurrentOnly, AtWork
  <1>15. CASE Retry
    <2>1. /\ \A id \in JobIds : jobs[id].status # "running"
          /\ artifact # "approved"
          /\ \A h \in Gens : dispatch'[h].status \notin Open
          /\ worker' = worker
          /\ \A id \in JobIds : jobs'[id] = NoJob
      BY <1>15 DEF Retry, Reviewable
    <2>2. \A v \in Workers : worker[v].at = "idle"
      BY <1>1, <2>1 DEF CurrentOnly, AtWork
    <2> QED BY <2>1, <2>2 DEF CurrentOnly, AtWork, NoJob
  <1>16. CASE UNCHANGED vars
    BY <1>2, <1>16 DEF vars
  <1> QED BY <1>3, <1>6, <1>7, <1>8, <1>9, <1>10, <1>11, <1>12, <1>13, <1>14, <1>15, <1>16
          DEF Next, WorkerStep, StageStep

(* As long as no worker is stalled past its lease, a review has one open   *)
(* dispatch at a time, however often it is retried.                        *)
THEOREM OneRunAtATime ==
    ASSUME "pause" \notin Events
    PROVE  Spec => []OneOpenDispatch
  <1>1. Init => CurrentOnly
    BY DEF Init, CurrentOnly, AtWork, NoJob, NoDispatch, Idle, Open
  <1>2. TInv /\ CurrentOnly /\ [Next]_vars => CurrentOnly'
    BY NextCurrentOnly
  <1>3. CurrentOnly => OneOpenDispatch
    <2> SUFFICES ASSUME CurrentOnly PROVE OneOpenDispatch
      OBVIOUS
    <2>1. {g \in Gens : dispatch[g].status \in Open} \subseteq {gen}
      BY DEF CurrentOnly
    <2>2. IsFiniteSet({gen}) /\ Cardinality({gen}) = 1
      BY FS_Singleton
    <2>3. /\ Cardinality({g \in Gens : dispatch[g].status \in Open}) <= Cardinality({gen})
          /\ IsFiniteSet({g \in Gens : dispatch[g].status \in Open})
      BY <2>1, <2>2, FS_Subset
    <2> QED BY <2>2, <2>3 DEF OneOpenDispatch
  <1> QED BY <1>1, <1>2, <1>3, InitTInv, NextTInv, PTL DEF Spec

=============================================================================
