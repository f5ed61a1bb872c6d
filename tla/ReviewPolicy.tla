---------------------------- MODULE ReviewPolicy ---------------------------
(***************************************************************************)
(* The life of review policies: drafts are created, validated, activated,  *)
(* retired and rolled back to by administrators whose calls read first and *)
(* commit later, each commit with its events in the audit log; artifacts   *)
(* take a snapshot of the active policy and are migrated by hand.  A call  *)
(* whose answer is lost is made again under its idempotency key.           *)
(***************************************************************************)
EXTENDS Naturals, Sequences, SequencesExt

CONSTANTS
    Policies, NoPolicy,
    Drafted,        \* policies that were created before
    Calls,          \* idempotency keys
    Reviewed,       \* artifacts under review
    MaxUpsets       \* bound: validations that find a tool missing, and lost answers

VARIABLES
    policy,         \* review_policies: status and validation_summary
    audit,          \* review_policy_events, in the order of their commits
    call,           \* what a call is for and how far it is
    snapshot,       \* policy_version_id of an artifact
    migrations,     \* review_decisions of policy migrations
    upsets          \* unready validations and lost answers so far

vars == <<policy, audit, call, snapshot, migrations, upsets>>

Operations == {"none", "create", "validate", "activate", "rollback", "retire", "migrate"}
Statuses == {"absent", "draft", "active", "retired"}
Idle == [op |-> "none", policy |-> NoPolicy, at |-> "start", seen |-> NoPolicy, valid |-> FALSE,
         over |-> FALSE]

Entry(k, kind, p, action, base) ==
    [key |-> <<k, kind>>, policy |-> p, action |-> action, base |-> base]

(* A market that starts, or one in which a call k has replaced a policy.   *)
Young ==
    /\ policy = [p \in Policies |-> [status |-> IF p \in Drafted THEN "draft" ELSE "absent",
                                    valid |-> FALSE]]
    /\ audit = SetToSeq({Entry(p, "own", p, "create", NoPolicy) : p \in Drafted})
    /\ call = [k \in Calls |-> Idle]

Seasoned(k, old, new) ==
    /\ policy = [p \in Policies |-> [status |-> CASE p = old -> "retired" [] p = new -> "active"
                                                 [] OTHER -> "absent",
                                    valid |-> p \in {old, new}]]
    /\ audit = <<Entry(old, "own", old, "activate", NoPolicy),
                 Entry(k, "validate", new, "validate", NoPolicy),
                 Entry(k, "retire", old, "retire", old), Entry(k, "own", new, "activate", old)>>
    /\ call = [c \in Calls |-> IF c = k THEN [Idle EXCEPT !.op = "activate", !.policy = new,
                                                         !.over = TRUE]
                               ELSE Idle]

Init ==
    /\ \/ Young
       \/ \E k \in Calls, old \in Drafted, new \in Policies : old # new /\ Seasoned(k, old, new)
    /\ snapshot = [a \in Reviewed |-> NoPolicy]
    /\ migrations = <<>>
    /\ upsets = 0

(* get_active_review_policy; the index allows one.                         *)
Actives == {p \in Policies : policy[p].status = "active"}
Active == IF Actives = {} THEN NoPolicy ELSE CHOOSE p \in Actives : TRUE

Repeated(k, kind) == \E i \in 1..Len(audit) : audit[i].key = <<k, kind>>
Step(k, step) == call' = [call EXCEPT ![k].at = step]
End(k) == call' = [call EXCEPT ![k] = [Idle EXCEPT !.op = call[k].op, !.policy = call[k].policy,
                                                !.over = TRUE]]

(* The routes: a core administrator calls.                                 *)
Ask(k, op, p) ==
    /\ call[k] = Idle
    /\ call' = [call EXCEPT ![k].op = op, ![k].policy = p]
    /\ UNCHANGED <<policy, audit, snapshot, migrations, upsets>>

Asked(k, ops) == call[k].op \in ops /\ ~call[k].over

(* create_draft and create_review_policy: a version is created once.       *)
Create(k) ==
    LET p == call[k].policy IN
    /\ Asked(k, {"create"})
    /\ policy' = IF policy[p].status = "absent" THEN [policy EXCEPT ![p].status = "draft"] ELSE policy
    /\ audit' = IF Repeated(k, "own") THEN audit
                ELSE Append(audit, Entry(k, "own", p, "create", Active))
    /\ End(k)
    /\ UNCHANGED <<snapshot, migrations, upsets>>

(* validate_draft: the tools are asked, outside of any transaction.        *)
AskTools(k) ==
    /\ Asked(k, {"validate", "activate", "rollback"}) /\ call[k].at = "start"
    /\ policy[call[k].policy].status # "absent"
    /\ \/ call' = [call EXCEPT ![k].at = "checked", ![k].valid = TRUE] /\ UNCHANGED upsets
       \/ /\ upsets < MaxUpsets
          /\ upsets' = upsets + 1
          /\ call' = [call EXCEPT ![k].at = "checked", ![k].valid = FALSE]
    /\ UNCHANGED <<policy, audit, snapshot, migrations>>

(* A bug: whatever its status, a policy may be validated again.            *)
MayBeAny(p) == policy[p].status # "absent"

(* _validate_review_policy_record                                          *)
MayBeValidated(p) == policy[p].status \in {"draft", "retired"}

(* A call that was validated before is given the record as it is now.      *)
CommitValidation(k) ==
    LET p == call[k].policy
        kind == IF call[k].op = "validate" THEN "own" ELSE "validate"
        next == IF kind = "own" THEN End(k) ELSE Step(k, "validated")
    IN
    /\ call[k].at = "checked"
    /\ \/ /\ Repeated(k, kind)
          /\ IF policy[p].valid THEN next ELSE End(k)
          /\ UNCHANGED <<policy, audit>>
       \/ /\ ~Repeated(k, kind) /\ MayBeValidated(p)
          /\ policy' = [policy EXCEPT ![p].valid = call[k].valid]
          /\ audit' = Append(audit, Entry(k, kind, p, "validate", NoPolicy))
          /\ IF call[k].valid THEN next ELSE End(k)
       \/ /\ ~Repeated(k, kind) /\ ~MayBeValidated(p)
          /\ End(k) /\ UNCHANGED <<policy, audit>>
    /\ UNCHANGED <<snapshot, migrations, upsets>>

(* The active policy is read before the commit that replaces it.           *)
ReadActive(k) ==
    /\ \/ call[k].at = "validated"
       \/ Asked(k, {"retire"}) /\ call[k].at = "start" /\ policy[call[k].policy].status # "absent"
    /\ call' = [call EXCEPT ![k].at = "read", ![k].seen = Active]
    /\ UNCHANGED <<policy, audit, snapshot, migrations, upsets>>

(* A bug: the policy that is replaced is not compared with the one read.   *)
SeenOrNot(k) == TRUE

SeenIsActive(k) == call[k].seen = Active

(* _transition_review_policy_state                                         *)
From(op) == [activate |-> {"draft"}, rollback |-> {"retired"}, retire |-> {"draft", "active"}][op]
Allowed(k) ==
    LET p == call[k].policy IN
    /\ SeenIsActive(k)
    /\ policy[p].status \in From(call[k].op)
    /\ call[k].op = "retire" \/ policy[p].valid

Superseding(k) == IF Active = NoPolicy THEN <<>>
                  ELSE <<Entry(k, "retire", Active, "retire", Active)>>

CommitTransition(k) ==
    LET p == call[k].policy
        own == Entry(k, "own", p, call[k].op, call[k].seen)
    IN
    /\ call[k].at = "read"
    /\ IF Repeated(k, "own") \/ ~Allowed(k) THEN UNCHANGED <<policy, audit>>
       ELSE IF call[k].op = "retire"
       THEN /\ policy' = [policy EXCEPT ![p].status = "retired"]
            /\ audit' = Append(audit, own)
       ELSE /\ policy' = [q \in Policies |->
                  IF q = p THEN [policy[q] EXCEPT !.status = "active"]
                  ELSE IF q = Active THEN [policy[q] EXCEPT !.status = "retired"]
                  ELSE policy[q]]
            /\ audit' = audit \o Superseding(k) \o <<own>>
    /\ End(k)
    /\ UNCHANGED <<snapshot, migrations, upsets>>

(* The call dies, or its answer is lost after it, and it is made again.    *)
Lose(k) ==
    /\ call[k].op # "none" /\ (call[k].over \/ call[k].at # "start")
    /\ upsets < MaxUpsets
    /\ upsets' = upsets + 1
    /\ call' = [call EXCEPT ![k] = [Idle EXCEPT !.op = call[k].op, !.policy = call[k].policy]]
    /\ UNCHANGED <<policy, audit, snapshot, migrations>>

(* snapshot_active_review_policy, in an artifact's precheck.               *)
TakeSnapshot(a) ==
    /\ snapshot[a] = NoPolicy /\ Active # NoPolicy /\ policy[Active].valid
    /\ snapshot' = [snapshot EXCEPT ![a] = Active]
    /\ UNCHANGED <<policy, audit, call, migrations, upsets>>

(* A bug: a migration is made again when it is asked for again.            *)
NeverMigrated(k) == FALSE

Migrated(k) == \E i \in 1..Len(migrations) : migrations[i].key = k

(* migrate_artifact_snapshot and migrate_artifact_policy                   *)
Migrate(k, a) ==
    LET p == call[k].policy
        may == /\ policy[p].status \in {"active", "retired"} /\ policy[p].valid
               /\ snapshot[a] # p
    IN
    /\ Asked(k, {"migrate"})
    /\ IF Migrated(k) \/ ~may THEN UNCHANGED <<snapshot, migrations>>
       ELSE /\ snapshot' = [snapshot EXCEPT ![a] = p]
            /\ migrations' = Append(migrations,
                   [key |-> k, artifact |-> a, from |-> snapshot[a], to |-> p])
    /\ End(k)
    /\ UNCHANGED <<policy, audit, upsets>>

Next ==
    \/ \E k \in Calls :
          \/ \E op \in Operations \ {"none"}, p \in Policies : Ask(k, op, p)
          \/ Create(k) \/ AskTools(k) \/ CommitValidation(k) \/ ReadActive(k)
          \/ CommitTransition(k) \/ Lose(k)
          \/ \E a \in Reviewed : Migrate(k, a)
    \/ \E a \in Reviewed : TakeSnapshot(a)
-----------------------------------------------------------------------------
TypeOK ==
    /\ policy \in [Policies -> [status : Statuses, valid : BOOLEAN]]
    /\ \A i \in 1..Len(audit) : audit[i].policy \in Policies /\ audit[i].action \in Operations
    /\ call \in [Calls -> [op : Operations, policy : Policies \cup {NoPolicy},
                           at : {"start", "checked", "validated", "read"},
                           seen : Policies \cup {NoPolicy}, valid : BOOLEAN, over : BOOLEAN]]
    /\ snapshot \in [Reviewed -> Policies \cup {NoPolicy}]
    /\ \A i \in 1..Len(migrations) : migrations[i].artifact \in Reviewed
    /\ upsets \in 0..MaxUpsets

(* The log tells every policy's status: it is what the last change of it   *)
(* has made it, a draft if it was only created; and each activation names  *)
(* the policy it replaced (advanced_repository.py,                         *)
(* transition_review_policy): whatever calls overlap or are repeated.      *)
Tells(log, p, status) ==
    LET own     == {i \in 1..Len(log) : log[i].policy = p}
        changes == {i \in own : log[i].action \in {"activate", "rollback", "retire"}} IN
    /\ \A i \in changes : (\A j \in changes : j <= i) =>
          status = IF log[i].action = "retire" THEN "retired" ELSE "active"
    /\ changes = {} =>
          status = IF \E i \in own : log[i].action = "create" THEN "draft" ELSE "absent"
NamesWhatItReplaces(i) ==
    LET earlier == {j \in 1..(i - 1) : audit[j].key = <<audit[i].key[1], "retire">>} IN
    audit[i].base = IF earlier = {} THEN NoPolicy ELSE audit[i - 1].policy
AuditTells ==
    /\ \A p \in Policies : Tells(audit, p, policy[p].status)
    /\ \A i \in 1..Len(audit) :
          audit[i].action \in {"activate", "rollback"} => NamesWhatItReplaces(i)

(* Artifacts are only given a policy that holds after its validation.      *)
ActiveIsValidated == \A p \in Actives : policy[p].valid

(* A migration that is asked for again changes nothing, even if the        *)
(* artifact was migrated elsewhere in between.                             *)
MigratesOnce ==
    \A i, j \in 1..Len(migrations) : migrations[i].key = migrations[j].key => i = j
=============================================================================
