-------------------------- MODULE RuntimeContract --------------------------
(***************************************************************************)
(* What runtime validation promises, without jobs, leases, runners or      *)
(* storage: an offer to run a plugin ends once, its result is collected    *)
(* once, and a review run succeeds in no other way.  RuntimeDispatch       *)
(* implements it.                                                          *)
(***************************************************************************)
CONSTANT Gens     \* review attempts; each has a run and at most one offer

VARIABLES
    offer,        \* runtime_dispatches.status, "none" before the INSERT
    collected,    \* runtime_dispatches.collected_at is set
    run           \* review_runs.status of the runtime run

vars == <<offer, collected, run>>

Open  == {"queued", "running"}
Ended == {"succeeded", "failed", "timed_out", "cancelled"}

Init ==
    /\ offer = [g \in Gens |-> "none"]
    /\ collected = [g \in Gens |-> FALSE]
    /\ run = [g \in Gens |-> "none"]

StartRun(g) ==
    /\ run[g] = "none"
    /\ run' = [run EXCEPT ![g] = "running"]
    /\ UNCHANGED <<offer, collected>>

Offer(g) ==
    /\ run[g] # "none"
    /\ offer[g] = "none"
    /\ offer' = [offer EXCEPT ![g] = "queued"]
    /\ UNCHANGED <<collected, run>>

(* A runner takes the offer, again when an earlier one fell silent.        *)
Take(g) ==
    /\ offer[g] \in Open
    /\ offer' = [offer EXCEPT ![g] = "running"]
    /\ UNCHANGED <<collected, run>>

Report(g) ==
    /\ offer[g] = "running"
    /\ \E status \in Ended : offer' = [offer EXCEPT ![g] = status]
    /\ UNCHANGED <<collected, run>>

Withdraw(g) ==
    /\ offer[g] \in Open
    /\ offer' = [offer EXCEPT ![g] = "cancelled"]
    /\ UNCHANGED <<collected, run>>

(* The result is collected into a run that is still open; only a succeeded *)
(* offer makes it succeed, and a timeout is reported as one.               *)
Collect(g) ==
    /\ offer[g] \in Ended
    /\ ~collected[g]
    /\ run[g] = "running"
    /\ collected' = [collected EXCEPT ![g] = TRUE]
    /\ \E verdict \in {"failed"} \cup {s \in {"succeeded", "timed_out"} : offer[g] = s} :
          run' = [run EXCEPT ![g] = verdict]
    /\ UNCHANGED offer

(* A stage gives the run up; only an administrator's decision stands       *)
(* against it.                                                             *)
GiveUp(g) ==
    /\ run[g] \notin {"none", "cancelled"}
    /\ run' = [run EXCEPT ![g] = "failed"]
    /\ UNCHANGED <<offer, collected>>

(* A manual approval ends everything that is open, at once.                *)
Decide ==
    /\ offer' = [g \in Gens |-> IF offer[g] \in Open THEN "cancelled" ELSE offer[g]]
    /\ run' = [g \in Gens |-> IF run[g] = "running" THEN "cancelled" ELSE run[g]]
    /\ UNCHANGED collected

Next ==
    \/ \E g \in Gens : StartRun(g) \/ Offer(g) \/ Take(g) \/ Report(g) \/ Withdraw(g)
                       \/ Collect(g) \/ GiveUp(g)
    \/ Decide

Spec == Init /\ [][Next]_vars
=============================================================================
