----------------------------- MODULE LlmReview -----------------------------
(***************************************************************************)
(* The three stages that ask a language model: about the package, about    *)
(* the files that are worth it, one by one, and about all that was said.   *)
(* They share one budget, which is what the runs have on record.  A worker *)
(* may die or stall; the next attempt of its job opens runs of its own.    *)
(* A number stands for tokens and cost, and one risk for the threshold     *)
(* from which a person has to look.                                        *)
(***************************************************************************)
EXTENDS Naturals, Sequences, FiniteSets, SequencesExt

CONSTANTS
    Sources,       \* 1..n, in the order of their paths; the first is the entrypoint
    Askers,        \* workers: 1..n; they are alike, so that the first free one is next
    NoAsker,       \* no lease
    Trials,        \* attempts of a job: 1..n
    Limit,         \* the policy's budget
    Reserve,       \* what the files leave for the summary
    Need,          \* the estimate of a call: the prompt is 1, the answer the rest
    MaxFiles,      \* the policy's number of files
    MaxSlips       \* bound: bad answers, failed reads, deaths and stalls

VARIABLES
    picked,        \* why a file is selected: it is the entrypoint; it was changed, is
                   \* imported or has a finding; only the package run may suggest it
    kind,          \* what the manifest says of a file
    errand,        \* jobs, by stage
    record,        \* review_runs, by stage or file and attempt
    suggested,     \* the files a package run suggests
    noted,         \* findings of the model, by file and attempt
    asker,         \* what a worker is at
    before,        \* history: what was on record when an attempt chose its files
    slips

vars == <<picked, kind, errand, record, suggested, noted, asker, before, slips>>

Stages == <<"package", "file", "summary">>
StageNames == {Stages[i] : i \in 1..3}
Keys == (StageNames \X {0} \X Trials) \cup ({"file"} \X Sources \X Trials)
NoRun == [status |-> "none", usage |-> 0, complete |-> FALSE, high |-> FALSE, manual |-> FALSE]
Away == [stage |-> "package", trial |-> 0, at |-> "idle", used |-> 0, todo |-> <<>>,
         reviewed |-> {}, whole |-> FALSE, manual |-> FALSE, usage |-> 0, high |-> FALSE,
         finding |-> FALSE]

Init ==
    /\ picked \in [Sources -> {"entrypoint", "changed", "none"}]
    /\ \A f \in Sources : picked[f] = "entrypoint" <=> f = 1
    /\ kind \in [Sources -> {"text", "large", "binary"}]
    /\ \A f \in Sources : picked[f] # "changed" => kind[f] = "text"
    /\ errand = [s \in StageNames |-> [trials |-> 0, holder |-> NoAsker, done |-> FALSE]]
    /\ record = [k \in Keys |-> NoRun]
    /\ suggested = [a \in Trials |-> {}]
    /\ noted = {}
    /\ asker = [w \in Askers |-> Away]
    /\ before = [a \in Trials |-> 0]
    /\ slips = 0

Slip == slips < MaxSlips /\ slips' = slips + 1
fixed == <<picked, kind>>

(* A bug: only what the attempt itself has spent is counted.               *)
RecordedByAttempt(a) ==
    FoldFunction(+, 0, [k \in {k \in Keys : k[3] = a} |-> record[k].usage])

(* artifact_llm_budget, as attempt a sees it: what every run has used      *)
OnRecord == FoldFunction(+, 0, [k \in Keys |-> record[k].usage])
Recorded(a) == OnRecord

(* A worker takes the stage's job.  Runs that an earlier attempt has left  *)
(* open have failed, and the attempt opens its own.                        *)
Claim(w, i) ==
    LET s == Stages[i]
        a == errand[s].trials + 1
    IN
    /\ asker[w] = Away /\ \A v \in Askers : v < w => asker[v] # Away
    /\ ~errand[s].done /\ errand[s].holder = NoAsker /\ a \in Trials
    /\ i > 1 => errand[Stages[i - 1]].done
    /\ errand' = [errand EXCEPT ![s] = [trials |-> a, holder |-> w, done |-> FALSE]]
    /\ record' = [k \in Keys |->
           IF k = <<s, 0, a>> THEN [NoRun EXCEPT !.status = "running"]
           ELSE IF k[1] = s /\ record[k].status = "running"
           THEN [record[k] EXCEPT !.status = "failed"] ELSE record[k]]
    /\ asker' = [asker EXCEPT ![w] = [Away EXCEPT !.stage = s, !.trial = a,
                                                  !.at = IF s = "package" THEN "ask" ELSE "read"]]
    /\ UNCHANGED <<fixed, suggested, noted, before, slips>>

At(w, s, at) == asker[w].stage = s /\ asker[w].at = at
Own(w, s) == <<s, 0, asker[w].trial>>
OwnFile(w) == <<"file", Head(asker[w].todo), asker[w].trial>>
Failed == [NoRun EXCEPT !.status = "failed", !.manual = TRUE]
Usages == 1..Need

(* What may be suggested; files that are selected anyway change nothing.   *)
Suggestible(f) == picked[f] = "none" /\ kind[f] = "text"

(* PackageReviewService.evaluate: a run whose input had to be cut, or      *)
(* whose risk is high, asks for a person.                                  *)
PackageRun(usage, complete, high) ==
    [status |-> "succeeded", usage |-> usage, complete |-> complete, high |-> high,
     manual |-> high \/ ~complete]

AskPackage(w) ==
    /\ At(w, "package", "ask")
    /\ \/ \E usage \in Usages, complete, high \in BOOLEAN,
             files \in SUBSET {f \in Sources : Suggestible(f)} :
             /\ record' = [record EXCEPT ![Own(w, "package")] = PackageRun(usage, complete, high)]
             /\ suggested' = [suggested EXCEPT ![asker[w].trial] = files]
             /\ UNCHANGED slips
       \/ /\ Slip
          /\ record' = [record EXCEPT ![Own(w, "package")] = Failed]
          /\ UNCHANGED suggested
    /\ asker' = [asker EXCEPT ![w].at = "over"]
    /\ UNCHANGED <<fixed, errand, noted, before>>

(* latest_package_result: of the last attempt that succeeded               *)
Answered == {a \in Trials : record[<<"package", 0, a>>].status = "succeeded"}
Latest(S) == CHOOSE a \in S : \A b \in S : b <= a
Suggestions == IF Answered = {} THEN {} ELSE suggested[Latest(Answered)]
PackageComplete == Answered # {} /\ record[<<"package", 0, Latest(Answered)>>].complete

(* FileCandidateSelector.build: what is selected, in the order in which it *)
(* is worth the budget, and whether the selection leaves anything out.     *)
Selected == {f \in Sources : picked[f] # "none" \/ f \in Suggestions}
Candidates == {f \in Selected : kind[f] = "text"}
Priority(f) == CASE picked[f] = "entrypoint" -> 0 [] picked[f] = "changed" -> 1 [] OTHER -> 2
Ahead(f, g) == Priority(f) < Priority(g) \/ (Priority(f) = Priority(g) /\ f < g)
PlanComplete == PackageComplete /\ \A f \in Selected : kind[f] # "large"

SelectFiles(w) ==
    /\ At(w, "file", "read")
    /\ asker' = [asker EXCEPT ![w].at = "next", ![w].used = Recorded(asker[w].trial),
                              ![w].todo = SetToSortSeq(Candidates, Ahead),
                              ![w].whole = PlanComplete]
    /\ before' = [before EXCEPT ![asker[w].trial] = OnRecord]
    /\ UNCHANGED <<fixed, errand, record, suggested, noted, slips>>

Left(n) == IF n < Limit - Reserve THEN Limit - Reserve - n ELSE 0

(* A bug: a file that there is no budget for counts as reviewed.           *)
SkipAsReviewed(w) ==
    asker' = [asker EXCEPT ![w].todo = Tail(@), ![w].reviewed = @ \cup {Head(asker[w].todo)}]

SkipFile(w) == asker' = [asker EXCEPT ![w].todo = Tail(@), ![w].whole = FALSE]

(* The next candidate: none is left or may be looked at, it is left out    *)
(* for want of budget or content, or a run is opened for it.               *)
NextFile(w) ==
    LET t == asker[w] IN
    /\ At(w, "file", "next")
    /\ \/ /\ t.todo = <<>> \/ Cardinality(t.reviewed) >= MaxFiles
          /\ asker' = [asker EXCEPT ![w].at = "conclude", ![w].whole = t.whole /\ t.todo = <<>>]
          /\ UNCHANGED <<record, slips>>
       \/ /\ t.todo # <<>> /\ Cardinality(t.reviewed) < MaxFiles
          /\ \/ Need > Left(t.used) /\ UNCHANGED slips
             \/ Slip
          /\ SkipFile(w)
          /\ UNCHANGED record
       \/ /\ t.todo # <<>> /\ Cardinality(t.reviewed) < MaxFiles /\ Need <= Left(t.used)
          /\ record' = [record EXCEPT ![OwnFile(w)] = [NoRun EXCEPT !.status = "running"]]
          /\ asker' = [asker EXCEPT ![w].at = "ask"]
          /\ UNCHANGED slips
    /\ UNCHANGED <<fixed, errand, suggested, noted, before>>

(* FileReviewService.evaluate: an answer within the budget, ...            *)
AskFile(w) ==
    /\ At(w, "file", "ask")
    /\ \E usage \in Usages, high, finding \in BOOLEAN :
          /\ ~(high /\ finding)
          /\ asker' = [asker EXCEPT ![w].at = "note", ![w].usage = usage, ![w].high = high,
                                    ![w].finding = finding]
    /\ UNCHANGED <<fixed, errand, record, suggested, noted, before, slips>>

(* ... none at all, one that cannot be used, or one that cost too much;    *)
(* what an answer has cost is on record either way.                        *)
FileFails(w) ==
    /\ At(w, "file", "ask") /\ Slip
    /\ \E usage \in {0} \cup Usages \cup {Left(asker[w].used) + 1} :
          record' = [record EXCEPT ![OwnFile(w)] = [Failed EXCEPT !.usage = usage],
                                   ![Own(w, "file")] = Failed]
    /\ asker' = [asker EXCEPT ![w].at = "over"]
    /\ UNCHANGED <<fixed, errand, suggested, noted, before>>

(* replace_findings, ...                                                   *)
NoteFindings(w) ==
    /\ At(w, "file", "note")
    /\ noted' = IF asker[w].finding THEN noted \cup {OwnFile(w)} ELSE noted
    /\ asker' = [asker EXCEPT ![w].at = "store"]
    /\ UNCHANGED <<fixed, errand, record, suggested, before, slips>>

(* ... and complete_review_run of the file.                                *)
StoreFile(w) ==
    LET t == asker[w] IN
    /\ At(w, "file", "store")
    /\ record' = [record EXCEPT ![OwnFile(w)] =
           [status |-> "succeeded", usage |-> t.usage, complete |-> TRUE, high |-> t.high,
            manual |-> t.high]]
    /\ asker' = [asker EXCEPT ![w] =
           [t EXCEPT !.at = "next", !.todo = Tail(@), !.reviewed = @ \cup {Head(t.todo)},
                     !.used = @ + t.usage, !.manual = @ \/ t.high, !.usage = 0, !.high = FALSE,
                     !.finding = FALSE]]
    /\ UNCHANGED <<fixed, errand, suggested, noted, before, slips>>

ConcludeFiles(w) ==
    LET t == asker[w] IN
    /\ At(w, "file", "conclude")
    /\ record' = [record EXCEPT ![Own(w, "file")] =
           [status |-> "succeeded", usage |-> 0, complete |-> t.whole, high |-> t.manual,
            manual |-> t.manual \/ ~t.whole]]
    /\ asker' = [asker EXCEPT ![w].at = "over"]
    /\ UNCHANGED <<fixed, errand, suggested, noted, before, slips>>

(* A bug: the findings are left to the model.                              *)
FloorOfRuns ==
    \E f \in Sources, a \in Trials :
        record[<<"file", f, a>>].status = "succeeded" /\ record[<<"file", f, a>>].high

(* _summary_risk_floor: the package, the last run of every file and every  *)
(* finding, whichever attempt it is of.                                    *)
Reviews(f) == {a \in Trials : record[<<"file", f, a>>].status = "succeeded"}
RiskFloor ==
    \/ Answered # {} /\ record[<<"package", 0, Latest(Answered)>>].high
    \/ \E f \in Sources : Reviews(f) # {} /\ record[<<"file", f, Latest(Reviews(f))>>].high
    \/ noted # {}

(* _latest_file_aggregate, whatever its status                             *)
FilesComplete ==
    LET opened == {a \in Trials : record[<<"file", 0, a>>].status # "none"} IN
    opened # {} /\ record[<<"file", 0, Latest(opened)>>].complete

(* SummaryInputBuilder.build: where the input has to be cut it is not      *)
(* complete.                                                               *)
ReadForSummary(w) ==
    /\ At(w, "summary", "read")
    /\ LET used == Recorded(asker[w].trial) IN
       IF used + Need <= Limit
       THEN /\ \E cut \in BOOLEAN :
                  asker' = [asker EXCEPT ![w].at = "ask", ![w].used = used, ![w].high = RiskFloor,
                                ![w].whole = PackageComplete /\ FilesComplete /\ ~cut]
            /\ UNCHANGED record
       ELSE /\ record' = [record EXCEPT ![Own(w, "summary")] = Failed]
            /\ asker' = [asker EXCEPT ![w].at = "over"]
    /\ UNCHANGED <<fixed, errand, suggested, noted, before, slips>>

AskSummary(w) ==
    LET t == asker[w] IN
    /\ At(w, "summary", "ask")
    /\ \/ \E usage \in Usages, high \in BOOLEAN :
             record' = [record EXCEPT ![Own(w, "summary")] =
                 [status |-> "succeeded", usage |-> usage, complete |-> t.whole,
                  high |-> t.high \/ high, manual |-> t.high \/ high \/ ~t.whole]]
          /\ UNCHANGED slips
       \/ /\ Slip
          /\ \E usage \in {0} \cup Usages :
                record' = [record EXCEPT ![Own(w, "summary")] = [Failed EXCEPT !.usage = usage]]
    /\ asker' = [asker EXCEPT ![w].at = "over"]
    /\ UNCHANGED <<fixed, errand, suggested, noted, before>>

(* complete_job, under the lease only                                      *)
FinishJob(w) ==
    LET s == asker[w].stage IN
    /\ asker[w].at = "over"
    /\ errand' = IF errand[s].holder = w /\ errand[s].trials = asker[w].trial
                 THEN [errand EXCEPT ![s].done = TRUE, ![s].holder = NoAsker] ELSE errand
    /\ asker' = [asker EXCEPT ![w] = Away]
    /\ UNCHANGED <<fixed, record, suggested, noted, before, slips>>

(* The lease lapses, because the worker dies or, with its many calls at    *)
(* the files, stalls and goes on.                                          *)
LoseLease(w) ==
    LET s == asker[w].stage IN
    /\ asker[w] # Away /\ errand[s].holder = w /\ errand[s].trials = asker[w].trial /\ Slip
    /\ errand' = [errand EXCEPT ![s].holder = NoAsker]
    /\ asker' \in {[asker EXCEPT ![w] = Away]} \cup (IF s = "file" THEN {asker} ELSE {})
    /\ UNCHANGED <<fixed, record, suggested, noted, before>>

Next ==
    \E w \in Askers :
        \/ \E i \in 1..3 : Claim(w, i)
        \/ AskPackage(w) \/ SelectFiles(w) \/ NextFile(w) \/ AskFile(w) \/ FileFails(w)
        \/ NoteFindings(w) \/ StoreFile(w) \/ ConcludeFiles(w)
        \/ ReadForSummary(w) \/ AskSummary(w) \/ FinishJob(w) \/ LoseLease(w)
-----------------------------------------------------------------------------
TypeOK ==
    /\ record \in [Keys -> [status : {"none", "running", "succeeded", "failed"}, usage : Nat,
                            complete : BOOLEAN, high : BOOLEAN, manual : BOOLEAN]]
    /\ \A s \in StageNames : errand[s].trials \in {0} \cup Trials
    /\ \A w \in Askers : asker[w].todo \in Seq(Sources) /\ asker[w].reviewed \subseteq Sources
    /\ noted \subseteq Keys
    /\ slips \in 0..MaxSlips

(* What an attempt at the files spends fits in what all runs before it     *)
(* have left of the budget, less the summary's share; one that cost more   *)
(* than that has failed (file_review.py, artifact_llm_budget).             *)
Spent(a) == FoldFunction(+, 0, [k \in {"file"} \X Sources \X {a} |-> record[k].usage])
FilesStayInBudget ==
    \A a \in Trials :
        record[<<"file", 0, a>>].status = "succeeded" /\ Spent(a) > 0 =>
            before[a] + Spent(a) <= Limit - Reserve

(* A file review that is reported as complete has looked at every file     *)
(* that was selected, itself; any other asks for a person                  *)
(* (stages/llm_file.py, execute).                                          *)
CompleteIsReviewed ==
    \A a \in Trials : LET run == record[<<"file", 0, a>>] IN
        /\ run.complete => \A f \in Candidates : record[<<"file", f, a>>].status = "succeeded"
        /\ run.status = "succeeded" /\ ~run.complete => run.manual

(* A summary asks for nobody only if the package and the last attempt at   *)
(* the files were complete and neither a result nor a finding of that      *)
(* attempt is of high risk (summary_review.py, _summary_risk_floor).       *)
QuietSummaryIsSafe ==
    LET n == errand["file"].trials IN
    \A a \in Trials :
        record[<<"summary", 0, a>>].status = "succeeded" /\ ~record[<<"summary", 0, a>>].manual =>
            /\ PackageComplete /\ record[<<"file", 0, n>>].complete
            /\ \A f \in Sources : ~record[<<"file", f, n>>].high /\ <<"file", f, n>> \notin noted
=============================================================================
