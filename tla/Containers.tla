----------------------------- MODULE Containers -----------------------------
(***************************************************************************)
(* The containers and the volume of a runtime dispatch.  Each attempt of   *)
(* the dispatch makes its own, in a runner process that knows of them only *)
(* in its memory, with commands of a Docker client that may fail, or be    *)
(* cut off and take effect later.  Whatever way an attempt ends the runner *)
(* cleans up, and it sweeps what is older than any attempt may last.       *)
(***************************************************************************)
EXTENDS Naturals, Sequences, FiniteSets

CONSTANTS
    Attempts,      \* attempts of the dispatch: 1..n
    Runners,       \* runner processes: 1..n; they are alike, so that the first one starts
    NoAttempt,
    MaxBreaks      \* bound: failed and cut off commands, lapsed leases, crashes

VARIABLES
    task,          \* _process_work of an attempt
    states,        \* DockerContainerExecutor._states
    prepared,      \* ContainerExecutionPipeline._prepared, of the dispatch
    engine,        \* containers and volumes that exist
    underway,      \* what a command that was cut off may still make
    lapsed,        \* attempts whose lease has lapsed
    breaks

vars == <<task, states, prepared, engine, underway, lapsed, breaks>>

Preparing == <<"volume", "stage", "version">>
Phases == Preparing \o <<"install", "smoke">>
Volumes == {"volume", "unlabelled"}
NoTask == [runner |-> NoAttempt, at |-> "none", names |-> {}, of |-> NoAttempt, left |-> {},
           leaked |-> FALSE, result |-> FALSE]

Init ==
    /\ task = [a \in Attempts |-> NoTask]
    /\ states = [r \in Runners |-> {}]
    /\ prepared = [r \in Runners |-> NoAttempt]
    /\ engine = {} /\ underway = {} /\ lapsed = {}
    /\ breaks = 0

Break == breaks < MaxBreaks /\ breaks' = breaks + 1
Position(a) == CHOOSE i \in 1..Len(Phases) : Phases[i] = task[a].at
Working(a) == \E i \in 1..Len(Phases) : task[a].at = Phases[i]
InPrepare(a) == Working(a) /\ Position(a) <= Len(Preparing)
NextAt(a) == IF task[a].at = "smoke" THEN "clean" ELSE Phases[Position(a) + 1]
Known(a) == a \in states[task[a].runner]
Resources(a) == task[a].names \cup {"volume"}

(* The next command of the attempt would make this.                        *)
Made(a) == IF task[a].at \in {"version", "clean", "undo", "abort"} THEN {} ELSE {<<a, task[a].at>>}
Named(a) == IF task[a].at \in {"volume", "version"} THEN task[a].names
            ELSE task[a].names \cup {task[a].at}

(* A dispatch is claimed again after its lease has lapsed; prepare then    *)
(* enters the attempt into _states.                                        *)
Claim(r, a) ==
    /\ task[a] = NoTask /\ \A b \in Attempts : b < a => b \in lapsed
    /\ \A q \in Runners : q < r => \E b \in Attempts : task[b].runner = q
    /\ task' = [task EXCEPT ![a].runner = r, ![a].at = "volume"]
    /\ states' = [states EXCEPT ![r] = @ \cup {a}]
    /\ UNCHANGED <<prepared, engine, underway, lapsed, breaks>>

Lapse(a) ==
    /\ task[a].at \notin {"none", "over"} /\ a \notin lapsed /\ Break
    /\ lapsed' = lapsed \cup {a}
    /\ UNCHANGED <<task, states, prepared, engine, underway>>

(* To clean up what is known of attempt b, on behalf of a.                 *)
Removing(a, at, b, result) ==
    [task[a] EXCEPT !.at = at, !.of = b, !.leaked = FALSE, !.result = result,
                    !.names = IF at = "undo" \/ Working(a) THEN Named(a) ELSE @,
                    !.left = IF b = NoAttempt THEN {}
                             ELSE IF b = a THEN Named(a) \cup {"volume"} ELSE Resources(b)]

(* A phase succeeds.  The last of prepare enters _prepared; install and    *)
(* smoke ask whether the attempt is still known.                           *)
Perform(a) ==
    LET t == task[a] IN
    /\ Working(a) /\ (InPrepare(a) \/ Known(a))
    /\ engine' = engine \cup Made(a)
    /\ prepared' = IF t.at = "version" THEN [prepared EXCEPT ![t.runner] = a] ELSE prepared
    /\ task' = [task EXCEPT ![a] =
           IF t.at = "smoke"
           THEN [Removing(a, "clean", a, TRUE) EXCEPT !.left = IF Known(a) THEN @ ELSE {}]
           ELSE [t EXCEPT !.at = NextAt(a), !.names = Named(a)]]
    /\ UNCHANGED <<states, underway, lapsed, breaks>>

(* It fails, or was told to stop: prepare and execute clean up.  A command *)
(* that times out may still make what it was to make.                      *)
Fail(a) ==
    /\ Working(a)
    /\ IF InPrepare(a) \/ Known(a)
       THEN /\ Break
            /\ \/ UNCHANGED underway
               \/ underway' = underway \cup Made(a)
       ELSE UNCHANGED <<underway, breaks>>
    /\ task' = [task EXCEPT ![a] =
           [Removing(a, IF InPrepare(a) THEN "undo" ELSE "clean", a, FALSE)
               EXCEPT !.left = IF Known(a) THEN @ ELSE {}]]
    /\ UNCHANGED <<states, prepared, engine, lapsed>>

(* The execution is cancelled, on a timeout, a lapsed lease or a shutdown. *)
(* The client of the command is left to itself, and prepare does not clean *)
(* up: it catches an Exception, which a cancellation is not.               *)
Cancel(a) ==
    LET t == task[a] IN
    /\ Working(a) \/ t.at \in {"clean", "undo"}
    /\ Break
    /\ underway' = underway \cup Made(a)
    /\ task' = [task EXCEPT ![a] =
           IF Working(a) /\ ~InPrepare(a)
           THEN [Removing(a, "clean", a, FALSE) EXCEPT !.left = IF Known(a) THEN @ ELSE {}]
           ELSE [t EXCEPT !.at = "abort", !.names = IF Working(a) THEN Named(a) ELSE @,
                          !.of = NoAttempt, !.left = {}, !.result = FALSE]]
    /\ UNCHANGED <<states, prepared, engine, lapsed>>

(* A volume that a container uses cannot be removed.                       *)
Removable(b, part) ==
    part \notin Volumes \/ \A x \in engine : x[1] = b => x[2] \in Volumes

(* _remove_container, and _remove_volume at the end: what is not there is  *)
(* as good as removed.                                                     *)
Remove(a, part) ==
    LET t == task[a] IN
    /\ part \in t.left /\ (part = "volume" => t.left = {"volume"})
    /\ \/ /\ Removable(t.of, part)
          /\ engine' = engine \ {<<t.of, part>>}
          /\ task' = [task EXCEPT ![a].left = @ \ {part}]
          /\ UNCHANGED breaks
       \/ /\ \/ Break
             \/ ~Removable(t.of, part) /\ UNCHANGED breaks
          /\ task' = [task EXCEPT ![a].left = @ \ {part}, ![a].leaked = TRUE]
          /\ UNCHANGED engine
    /\ UNCHANGED <<states, prepared, underway, lapsed>>

(* A bug: the failed removals are not looked at.                           *)
AlwaysPassed(t) == TRUE

(* cleanup's status                                                        *)
Passed(t) == ~t.leaked

(* The end of cleanup: an attempt that is cleaned is forgotten, and so is  *)
(* whatever attempt of the dispatch is prepared.                           *)
Cleaned(a) ==
    LET t == task[a] IN
    /\ t.at = "clean" /\ t.left = {}
    /\ IF Passed(t)
       THEN /\ states' = [states EXCEPT ![t.runner] = @ \ {a}]
            /\ prepared' = [prepared EXCEPT ![t.runner] = NoAttempt]
       ELSE UNCHANGED <<states, prepared>>
    /\ task' = [task EXCEPT ![a].at = IF t.result THEN (IF Passed(t) THEN "reported" ELSE "over")
                                      ELSE "abort",
                            ![a].of = NoAttempt]
    /\ UNCHANGED <<engine, underway, lapsed, breaks>>

Undone(a) ==
    /\ task[a].at = "undo" /\ task[a].left = {}
    /\ states' = [states EXCEPT ![task[a].runner] = @ \ {a}]
    /\ task' = [task EXCEPT ![a].at = "abort", ![a].of = NoAttempt]
    /\ UNCHANGED <<prepared, engine, underway, lapsed, breaks>>

(* _abort_and_cleanup: of the attempt of this dispatch that is prepared,   *)
(* whichever that is.                                                      *)
Abort(a) ==
    LET t == task[a]
        b == prepared[t.runner]
    IN
    /\ t.at = "abort" /\ t.of = NoAttempt
    /\ task' = [task EXCEPT ![a] =
           IF b = NoAttempt THEN [t EXCEPT !.at = "over"]
           ELSE [t EXCEPT !.of = b, !.leaked = FALSE,
                          !.left = IF b \in states[t.runner] THEN Resources(b) ELSE {}]]
    /\ UNCHANGED <<states, prepared, engine, underway, lapsed, breaks>>

Aborted(a) ==
    LET t == task[a] IN
    /\ t.at = "abort" /\ t.of # NoAttempt /\ t.left = {}
    /\ IF Passed(t)
       THEN /\ states' = [states EXCEPT ![t.runner] = @ \ {t.of}]
            /\ prepared' = [prepared EXCEPT ![t.runner] = NoAttempt]
       ELSE UNCHANGED <<states, prepared>>
    /\ task' = [task EXCEPT ![a].at = "over", ![a].of = NoAttempt]
    /\ UNCHANGED <<engine, underway, lapsed, breaks>>

(* The report is stored and the dispatch completed, or its lease is gone.  *)
Report(a) ==
    /\ task[a].at = "reported"
    /\ task' = [task EXCEPT ![a].at = IF a \in lapsed THEN "abort" ELSE "over"]
    /\ UNCHANGED <<states, prepared, engine, underway, lapsed, breaks>>

(* A command that was cut off is carried out after all.  A container whose *)
(* volume was removed gets a new one, which has no labels.                 *)
TakeEffect(x) ==
    /\ x \in underway
    /\ underway' = underway \ {x}
    /\ engine' = engine \cup {x} \cup
           (IF x[2] \notin Volumes /\ <<x[1], "volume">> \notin engine
            THEN {<<x[1], "unlabelled">>} ELSE {})
    /\ UNCHANGED <<task, states, prepared, lapsed, breaks>>

Vanish(x) ==
    /\ x \in underway
    /\ underway' = underway \ {x}
    /\ UNCHANGED <<task, states, prepared, engine, lapsed, breaks>>

(* A bug: only containers are swept.                                       *)
SweptContainer(r, x) == x[1] \notin states[r] /\ x[2] \notin Volumes

(* cleanup_orphans: what carries the label, is not known to this process   *)
(* and is older than an attempt can be.                                    *)
Swept(r, x) == x[1] \notin states[r] /\ x[2] # "unlabelled"

Sweep(r) ==
    \E x \in engine :
        /\ Swept(r, x) /\ task[x[1]].at = "over"
        /\ Removable(x[1], x[2])
        /\ engine' = engine \ {x}
        /\ UNCHANGED <<task, states, prepared, underway, lapsed, breaks>>

(* The process dies and is started again.                                  *)
Crash(r) ==
    LET mine == {a \in Attempts : task[a].runner = r /\ task[a].at \notin {"none", "over"}} IN
    /\ mine # {} /\ Break
    /\ underway' = underway \cup UNION {IF Working(a) THEN Made(a) ELSE {} : a \in mine}
    /\ task' = [a \in Attempts |->
                   IF a \in mine THEN [NoTask EXCEPT !.runner = r, !.at = "over"] ELSE task[a]]
    /\ states' = [states EXCEPT ![r] = {}]
    /\ prepared' = [prepared EXCEPT ![r] = NoAttempt]
    /\ lapsed' = lapsed \cup mine
    /\ UNCHANGED engine

AttemptStep(a) ==
    \/ Perform(a) \/ Cleaned(a) \/ Undone(a) \/ Abort(a) \/ Aborted(a) \/ Report(a)
    \/ \E part \in task[a].left : Remove(a, part)

Next ==
    \/ \E r \in Runners : Sweep(r) \/ Crash(r) \/ \E a \in Attempts : Claim(r, a)
    \/ \E a \in Attempts : AttemptStep(a) \/ Fail(a) \/ Cancel(a) \/ Lapse(a)
    \/ \E x \in underway : TakeEffect(x) \/ Vanish(x)
-----------------------------------------------------------------------------
TypeOK ==
    /\ \A a \in Attempts :
          /\ task[a].runner \in Runners \cup {NoAttempt}
          /\ task[a].of \in Attempts \cup {NoAttempt}
          /\ task[a].left \subseteq task[a].names \cup {"volume", "stage", "install", "smoke"}
    /\ \A r \in Runners : states[r] \subseteq Attempts /\ prepared[r] \in Attempts \cup {NoAttempt}
    /\ lapsed \subseteq Attempts /\ breaks \in 0..MaxBreaks

(* An attempt that reports a passed cleanup has left nothing behind and    *)
(* nothing that could still turn up, whatever another attempt of the same  *)
(* dispatch cleaned up meanwhile (docker_executor.py, cleanup).            *)
ReportedCleanIsClean ==
    \A a \in Attempts : task[a].at = "reported" =>
        \A x \in engine \cup underway : x[1] # a

(* What is left of an attempt that no living runner remembers is removed   *)
(* (docker_executor.py, cleanup_orphans).                                  *)
Forgotten(a) ==
    task[a].at = "over" /\ \A r \in Runners : a \notin states[r]
Gone(a) == \A x \in engine : x[1] = a => x[2] = "unlabelled"
LeftoversGo == \A a \in Attempts : Forgotten(a) ~> Gone(a)
=============================================================================
