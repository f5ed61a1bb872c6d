----------------------------- MODULE Category ------------------------------
(***************************************************************************)
(* The category of a plugin, which its author, a reviewer, the file in its *)
(* repository and a language model all write: people through edits that    *)
(* write back the whole row they have read, the model from the category    *)
(* stage of a version under review.                                        *)
(***************************************************************************)
EXTENDS Naturals, FiniteSets

CONSTANTS
    Official,      \* the official categories
    Reviewed,      \* versions of the plugin under review
    Tries,         \* attempts at a category job
    Writers,       \* requests and synchronizations that write the row back
    None,
    MaxChanges     \* bound: submissions and writes of the row

VARIABLES
    shelf,         \* the plugin's row: category, category_source, explicit
    sorting,       \* a version: its status and its attempts at the stage
    clerk,         \* a writer: its step, its patch and the row it has read
    chosen,        \* history: a person's category stands in the row
    changes        \* counts submissions and writes

vars == <<shelf, sorting, clerk, chosen, changes>>

Categories == Official \cup {"other"}
Shelves == [category : Categories, source : {"user", "ai", "reviewer"}, explicit : BOOLEAN]
Patches == [category : Official \cup {None}, source : {"user", "reviewer", None},
            explicit : BOOLEAN \cup {None}]

NoPatch == [category |-> None, source |-> None, explicit |-> None]
Free(row) == [at |-> "free", patch |-> NoPatch, row |-> row, chosen |-> FALSE]
Open == {"asking", "applied"}

(* register_plugin or submit_plugin made the row: the first stores the     *)
(* category it was given, the second leaves the column's default.          *)
Init ==
    /\ \/ \E k \in Official, stated \in BOOLEAN :
             shelf = [category |-> k, source |-> "user", explicit |-> stated]
       \/ \E stated \in BOOLEAN :
             shelf = [category |-> "other", source |-> "user", explicit |-> stated]
    /\ chosen = shelf.explicit
    /\ sorting = [v \in Reviewed |-> [status |-> "absent", try |-> [t \in Tries |-> "none"]]]
    /\ clerk = [w \in Writers |-> Free([category |-> "other", source |-> "user",
                                        explicit |-> FALSE])]
    /\ changes = 0

(* submit_plugin on the row that is there: of the category it keeps        *)
(* whether one was named.  One that leaves it out, for a row without a     *)
(* category, lets the model choose again.                                  *)
Resubmit(stated) ==
    /\ changes < MaxChanges /\ changes' = changes + 1
    /\ shelf' = [shelf EXCEPT !.explicit = stated]
    /\ chosen' = IF stated THEN chosen \/ shelf.source # "ai"
                 ELSE chosen /\ shelf.category # "other"
    /\ UNCHANGED <<sorting, clerk>>

(* The patches of update_plugin: a category, which then is a person's, or  *)
(* other fields; of a submission for the CDN, with the category it names   *)
(* or the file's; and of a synchronization, with the file's or none.  The  *)
(* table refuses an empty category, and so do these.                       *)
EditOf(k, by) == [category |-> k, source |-> by, explicit |-> TRUE]
CdnOf(k, stated) == [category |-> k, source |-> None, explicit |-> stated]
FileOf(k) == [category |-> k, source |-> None, explicit |-> None]

PossiblePatches ==
    {EditOf(k, by) : k \in Official, by \in {"user", "reviewer"}}
        \cup {CdnOf(k, stated) : k \in Official, stated \in BOOLEAN}
        \cup {FileOf(k) : k \in Official \cup {None}}

(* update_plugin_metadata reads the row, ...                               *)
ReadShelf(w, patch) ==
    /\ clerk[w].at = "free" /\ changes < MaxChanges
    /\ clerk' = [clerk EXCEPT ![w] = [at |-> "read", patch |-> patch, row |-> shelf,
                                      chosen |-> chosen]]
    /\ changes' = changes + 1
    /\ UNCHANGED <<shelf, sorting, chosen>>

Patched(row, patch) ==
    [f \in {"category", "source", "explicit"} |->
        IF patch[f] # None THEN patch[f] ELSE row[f]]

(* ... and writes the patched copy over whatever has become of it.  A      *)
(* category over one of the model's stays the model's unless an edit says  *)
(* whose it is.                                                            *)
WriteShelf(w) ==
    /\ clerk[w].at = "read"
    /\ shelf' = Patched(clerk[w].row, clerk[w].patch)
    /\ chosen' = \/ clerk[w].patch.source # None
                 \/ clerk[w].patch.explicit = TRUE /\ clerk[w].row.source # "ai"
                 \/ clerk[w].chosen
    /\ clerk' = [clerk EXCEPT ![w] = Free(@.row)]
    /\ UNCHANGED <<sorting, changes>>

(* A version comes to the stages, or leaves them: its review is decided or *)
(* ends in failure while an attempt is still under way.                    *)
StartScanning(v) ==
    /\ sorting[v].status = "absent"
    /\ sorting' = [sorting EXCEPT ![v].status = "scanning"]
    /\ UNCHANGED <<shelf, clerk, chosen, changes>>

LeaveScanning(v) ==
    /\ sorting[v].status = "scanning"
    /\ sorting' = [sorting EXCEPT ![v].status = "decided"]
    /\ UNCHANGED <<shelf, clerk, chosen, changes>>

Attempt(v, t, to) ==
    /\ sorting' = [sorting EXCEPT ![v].try[t] = to]
    /\ UNCHANGED <<shelf, clerk, chosen, changes>>

(* CategoryInputBuilder: the plugin's row and the metadata of a precheck   *)
(* are needed, and what is left without README and files has to fit into   *)
(* the policy's budget.                                                    *)
Inputs == [known : BOOLEAN, spare : BOOLEAN]
Usable(input) == input.known /\ input.spare

(* execute, up to the call of the provider: a policy without the stage is  *)
(* recorded as skipped, another configuration than the policy's and        *)
(* unusable input as degraded.  The next attempt starts when the lease of  *)
(* the last one has lapsed, whether its worker is dead or slow.            *)
Execute(v, t, enabled, configured, input) ==
    /\ sorting[v].status = "scanning" /\ sorting[v].try[t] = "none"
    /\ \A s \in Tries : s < t => sorting[v].try[s] \in Open
    /\ Attempt(v, t, IF ~enabled THEN "skipped"
                     ELSE IF ~configured \/ ~Usable(input) THEN "degraded"
                     ELSE "asking")

(* The call itself: the provider is late or away, or what comes back is    *)
(* not an answer.                                                          *)
FailCall(v, t) == sorting[v].try[t] = "asking" /\ Attempt(v, t, "degraded")

(* evaluate: a category with its confidence, of the model and prompt that  *)
(* were asked and among the policy's categories.                           *)
Answers == [kind : Categories, confident : BOOLEAN, asPolicy : BOOLEAN]

RefuseAnswer(v, t, answer) ==
    /\ sorting[v].try[t] = "asking" /\ ~answer.asPolicy
    /\ Attempt(v, t, "degraded")

(* A bug: any row without a category is the model's to fill.               *)
AnyOther(row, k, confident) ==
    /\ k # "other" /\ confident
    /\ row.source = "ai" \/ row.category = "other"

(* A bug: only a reviewer's category is kept.                              *)
OnlyReviewers(row, k, confident) ==
    k # "other" /\ confident /\ row.source # "reviewer"

(* should_apply: the model replaces its own category, or fills in one that *)
(* the author did not name.                                                *)
ShouldApply(row, k, confident) ==
    /\ k # "other" /\ confident
    /\ \/ row.source = "ai"
       \/ row.category = "other" /\ row.source = "user" /\ ~row.explicit

(* apply_category_suggestion, in one transaction with both rows locked.    *)
ApplySuggestion(v, t, answer) ==
    /\ sorting[v].try[t] = "asking" /\ answer.asPolicy
    /\ sorting[v].status = "scanning"
    /\ sorting' = [sorting EXCEPT ![v].try[t] = "applied"]
    /\ shelf' = IF ShouldApply(shelf, answer.kind, answer.confident)
                THEN [shelf EXCEPT !.category = answer.kind, !.source = "ai"] ELSE shelf
    /\ UNCHANGED <<clerk, chosen, changes>>

(* The version left scanning: the stage fails for good, its run still open.*)
TooLate(v, t) ==
    /\ sorting[v].try[t] = "asking" /\ sorting[v].status = "decided"
    /\ Attempt(v, t, "refused")

(* complete_review_run                                                     *)
Succeed(v, t) == sorting[v].try[t] = "applied" /\ Attempt(v, t, "succeeded")

StageStep(v) ==
    \/ StartScanning(v) \/ LeaveScanning(v)
    \/ \E t \in Tries, enabled, configured \in BOOLEAN, input \in Inputs :
          Execute(v, t, enabled, configured, input)
    \/ \E t \in Tries : FailCall(v, t) \/ TooLate(v, t) \/ Succeed(v, t)
    \/ \E t \in Tries, answer \in Answers :
          RefuseAnswer(v, t, answer) \/ ApplySuggestion(v, t, answer)

Next ==
    \/ \E stated \in BOOLEAN : Resubmit(stated)
    \/ \E w \in Writers, patch \in PossiblePatches : ReadShelf(w, patch)
    \/ \E w \in Writers : WriteShelf(w)
    \/ \E v \in Reviewed : StageStep(v)

Spec == Init /\ [][Next]_vars
-----------------------------------------------------------------------------
TypeOK ==
    /\ shelf \in Shelves
    /\ sorting \in [Reviewed ->
           [status : {"absent", "scanning", "decided"},
            try : [Tries -> {"none", "asking", "skipped", "degraded", "applied",
                             "refused", "succeeded"}]]]
    /\ clerk \in [Writers -> [at : {"free", "read"}, patch : Patches, row : Shelves,
                              chosen : BOOLEAN]]
    /\ chosen \in BOOLEAN /\ changes \in 0..MaxChanges

(* A step of the stage, however late and however often tried, leaves the   *)
(* row alone while what a person has named stands in it.                   *)
KeepsChoices == chosen /\ sorting' # sorting => shelf' = shelf
=============================================================================
