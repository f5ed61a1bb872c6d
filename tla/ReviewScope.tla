---------------------------- MODULE ReviewScope ----------------------------
(***************************************************************************)
(* What an incremental review looks at: the diff stage compares the files  *)
(* of an artifact with those of the release it builds on, and the graph    *)
(* stage follows the imports from what changed, so that every file whose   *)
(* behaviour may have changed is looked at or the review is a full one.    *)
(* A tree maps paths to contents.  Workers may stall and go on after their *)
(* lease, also one that registers the files, and a person may start the    *)
(* review anew.                                                            *)
(***************************************************************************)
EXTENDS Naturals, Sequences, FiniteSets, SequencesExt

CONSTANTS
    Order,         \* the paths, sorted
    ModuleOf,      \* the module that a path is
    Inits,         \* the paths that are a package's __init__.py
    Above,         \* the packages above a module
    Trees,         \* the trees that are looked at: the content of every path
    ImportsOf,     \* what a content imports: pairs of a module and of a name in it
    Entrypoints,   \* paths where the plugin starts
    MaxText,       \* limit: sides of files that are compared
    MaxHunks,      \* limit: hunks that are stored
    Analysts,      \* workers: 1..n, the first free one is next
    Rounds,        \* attempts of the review: 1..n
    Tries,         \* attempts of a job: 1..n
    MaxSetbacks    \* bound: failed reads, lost leases, late registrations and new rounds

VARIABLES
    base,          \* the files of the release it builds on
    origin,        \* whether that release is there: none, invalid, valid
    tree,          \* the files of the artifact
    diffs,         \* artifact_file_diffs; loose, once the files are registered anew
    graph,         \* review_coverage.import_graph
    stamped,       \* the graph that artifact_files and the edges are of
    scopeRun,      \* review_runs that are not superseded, by stage and attempt
    scopeJob,      \* the jobs of the two stages
    round,         \* attempts of the review
    analyst,       \* what a worker is at
    setbacks

vars == <<base, origin, tree, diffs, graph, stamped, scopeRun, scopeJob, round, analyst, setbacks>>

Paths == ToSet(Order)
ScopeStages == {"diff", "graph"}
NoDiffs == [rows |-> {}, whole |-> FALSE, loose |-> FALSE]
NoGraph == [paths |-> {}, whole |-> FALSE]
Unrun == [status |-> "none", out |-> NoGraph]
Fresh == [tries |-> 0, holder |-> 0, done |-> FALSE]
Free == [stage |-> "diff", try |-> 0, round |-> 0, at |-> "idle", seen |-> NoGraph,
         out |-> NoGraph]

Present(t) == {p \in Paths : t[p] # "absent"}
Text(c) == c # "binary"

Init ==
    /\ tree \in Trees
    /\ origin \in {"none", "invalid", "valid"}
    /\ base \in IF origin = "valid" THEN Trees ELSE {[p \in Paths |-> "absent"]}
    /\ diffs = NoDiffs /\ graph = NoGraph /\ stamped = NoGraph
    /\ scopeRun = [k \in ScopeStages \X Tries |-> Unrun]
    /\ scopeJob = [s \in ScopeStages |-> Fresh]
    /\ round = 1 /\ setbacks = 0
    /\ analyst = [w \in Analysts |-> Free]

fixedScope == <<base, origin, tree>>
Setback == setbacks < MaxSetbacks /\ setbacks' = setbacks + 1

(***************************************************************************)
(* The diff: a file of both trees, one that moved, one that went or came.  *)
(***************************************************************************)
Row(kind, path, from) == [kind |-> kind, path |-> path, from |-> from]
Gone == Present(base) \ Present(tree)
Came == Present(tree) \ Present(base)

(* A bug: a file that went is taken for every file that came with the same *)
(* content.                                                                *)
MovedAnywhere == {m \in Gone \X Came : base[m[1]] = tree[m[2]]}

(* The pairs of a file that went and one that came with the same content,  *)
(* when no other went or came with it.                                     *)
Moved == {m \in Gone \X Came :
             /\ base[m[1]] = tree[m[2]]
             /\ \A p \in Gone \ {m[1]} : base[p] # base[m[1]]
             /\ \A p \in Came \ {m[2]} : tree[p] # tree[m[2]]}

Classified ==
    {Row(IF base[p] = tree[p] THEN "unchanged" ELSE "modified", p, p) :
         p \in Present(base) \cap Present(tree)}
    \cup {Row("renamed", m[2], m[1]) : m \in Moved}
    \cup {Row("deleted", p, p) : p \in {p \in Gone : \A m \in Moved : m[1] # p}}
    \cup {Row("added", p, "") : p \in {p \in Came : \A m \in Moved : m[2] # p}}

(* A file is compared if it changed and both its sides are text.           *)
Sides(r) == {s \in {"base", "tree"} : r.kind # IF s = "base" THEN "added" ELSE "deleted"}
ContentAt(r, s) == IF s = "base" THEN base[r.from] ELSE tree[r.path]
Compared(r) == /\ r.kind \notin {"unchanged", "renamed"}
               /\ \A s \in Sides(r) : Text(ContentAt(r, s))

(* _content_limit_reason: the text that is compared has a limit.           *)
HasRoom(acc, n) == acc.text + n <= MaxText

(* _build_hunk_document: a hunk a side, and what does not fit is cut.      *)
Kept(acc, n) == IF n < MaxHunks - acc.hunks THEN n ELSE MaxHunks - acc.hunks

(* The files in their order, as far as their contents can be read          *)
WithHunks(lost) ==
    LET Compare(acc, p) ==
            LET n == Cardinality(UNION {Sides(r) : r \in {r \in Classified :
                                                              r.path = p /\ Compared(r)}})
            IN  IF ~HasRoom(acc, n) \/ (n > 0 /\ p \in lost)
                THEN [acc EXCEPT !.omitted = @ \cup {p}]
                ELSE [text |-> acc.text + n, hunks |-> acc.hunks + Kept(acc, n),
                      omitted |-> acc.omitted \cup IF Kept(acc, n) < n THEN {p} ELSE {}]
    IN  FoldLeft(Compare, [text |-> 0, hunks |-> 0, omitted |-> {}], Order)

(***************************************************************************)
(* The imports of a tree.                                                  *)
(***************************************************************************)
FilesOf(t, m) == {p \in Present(t) : ModuleOf[p] = m}
Unique(t, m) == Cardinality(FilesOf(t, m)) = 1
Uniques(t) == {m \in {ModuleOf[p] : p \in Present(t)} : Unique(t, m)}

(* The module that an import names; none, when there is no file for it or  *)
(* more than one, or when the name was one of a file that is gone.         *)
ResolveModule(t, m) == IF Unique(t, m) THEN m ELSE "none"
Resolve(t, removed, i) ==
    ResolveModule(t, IF FilesOf(t, i[2]) # {} \/ i[2] \in removed THEN i[2] ELSE i[1])

(* A bug: importing a module is not seen to run the packages above it.     *)
TargetsAlone(t, m) == FilesOf(t, m)

Targets(t, m) ==
    FilesOf(t, m) \cup {p \in Present(t) \cap Inits : ModuleOf[p] \in Above[m] /\ Unique(t, ModuleOf[p])}

(* Contents that are lost, no text or no Python have no imports; what an   *)
(* import is made of, or where modules are looked for, may be computed.    *)
Parsed(t, lost) == {p \in Present(t) \ lost : t[p] \notin {"binary", "broken"}}
Computed(c) == c = "dynamic"

Edges(t, removed, lost) ==
    UNION {{p} \X UNION {Targets(t, Resolve(t, removed, i)) : i \in ImportsOf[t[p]]} :
           p \in Parsed(t, lost)}
Understood(t, removed, lost) ==
    /\ Parsed(t, lost) = Present(t)
    /\ Entrypoints \subseteq Present(t)
    /\ \A p \in Present(t) :
          /\ Unique(t, ModuleOf[p]) /\ ~Computed(t[p])
          /\ \A i \in ImportsOf[t[p]] : Resolve(t, removed, i) # "none"

(* _closure, over edges or, for what is affected, over the reversed edges  *)
Closure(seeds, edges) ==
    FoldLeft(LAMBDA reached, p : reached \cup {e[2] : e \in {e \in edges : e[1] \in reached}},
             seeds, Order)
Reversed(edges) == {<<e[2], e[1]>> : e \in edges}

Changed(rows) == {r.path : r \in {r \in rows : r.kind \notin {"unchanged", "deleted"}}}
Removed(rows) == {r.from : r \in {r \in rows : r.kind = "deleted"}}

RemovedModules == Uniques(base) \ Uniques(tree)

(* A bug: nobody asks what the removed files were used by.                 *)
NotAsked(rows, lost) == {}

(* The files of today that used, in the base, a file that was removed      *)
RemovedImpact(rows, lost) ==
    LET users == Closure(Removed(rows), Reversed(Edges(base, {}, lost))) \ Removed(rows)
    IN  {r.path : r \in {r \in rows : r.kind # "deleted" /\ r.from \in users}}

(* ImportGraphService.build: the paths to review, all of them when the     *)
(* analysis of the tree, of its base or the diffs leave something open.    *)
Scope(rows, lost) ==
    LET edges == Edges(tree, RemovedModules, lost)
        open == \/ ~Understood(tree, RemovedModules, lost)
                \/ origin # "none" /\ (rows = {} \/ origin = "invalid")
                \/ Removed(rows) # {} /\ ~Understood(base, {}, lost)
        text == {p \in Present(tree) : Text(tree[p])}
    IN  [paths |-> IF open THEN text
                   ELSE Closure(Entrypoints, edges) \cup Closure(Changed(rows), Reversed(edges))
                        \cup RemovedImpact(rows, lost),
         whole |-> ~open]

(***************************************************************************)
(* The stages.                                                             *)
(***************************************************************************)
At(w, s, at) == analyst[w].stage = s /\ analyst[w].at = at
OwnRun(w) == <<analyst[w].stage, analyst[w].try>>

(* A worker takes the next attempt; the graph waits for the diff.  Runs    *)
(* that an earlier attempt has left open have failed.                      *)
Claim(w, s) ==
    LET try == scopeJob[s].tries + 1 IN
    /\ analyst[w] = Free /\ \A v \in Analysts : v < w => analyst[v] # Free
    /\ ~scopeJob[s].done /\ scopeJob[s].holder = 0 /\ try \in Tries
    /\ s = "graph" => scopeJob["diff"].done
    /\ scopeJob' = [scopeJob EXCEPT ![s] = [tries |-> try, holder |-> w, done |-> FALSE]]
    /\ scopeRun' = [k \in DOMAIN scopeRun |->
           IF k[1] = s /\ scopeRun[k].status = "running"
           THEN [scopeRun[k] EXCEPT !.status = "failed"] ELSE scopeRun[k]]
    /\ analyst' = [analyst EXCEPT ![w] = [Free EXCEPT !.stage = s, !.try = try, !.round = round,
                                           !.at = "recover", !.seen = graph]]
    /\ UNCHANGED <<fixedScope, diffs, graph, stamped, round, setbacks>>

(* What a run has on record as its output: diff_output_sha256              *)
OutOfDiffs == [paths |-> {r.path : r \in diffs.rows}, whole |-> diffs.whole]

(* The files and the edges are what a graph says of them:                  *)
(* import_graph_output_sha256.                                             *)
Stamps(g) == stamped = g
Succeeded(s) == {scopeRun[k].out : k \in {k \in DOMAIN scopeRun :
                                             k[1] = s /\ scopeRun[k].status = "succeeded"}}

(* _recover_diff and _recover_import_graph: a run that succeeded is good   *)
(* for another attempt if what it describes is what is stored.             *)
Bound == ~diffs.loose
DiffsHold == Bound /\ diffs.rows # {} /\ OutOfDiffs \in Succeeded("diff")
GraphHolds(w) ==
    /\ analyst[w].seen # NoGraph
    /\ Stamps(analyst[w].seen) /\ analyst[w].seen \in Succeeded("graph")

OpenRun(w) ==
    scopeRun' = IF analyst[w].round = round
                THEN [scopeRun EXCEPT ![OwnRun(w)].status = "running"] ELSE scopeRun

(* The attempt ends with what it recovered, or opens a run of its own.     *)
Recover(w) ==
    /\ analyst[w].at = "recover"
    /\ IF IF analyst[w].stage = "diff" THEN DiffsHold ELSE GraphHolds(w)
       THEN analyst' = [analyst EXCEPT ![w].at = "ran"] /\ UNCHANGED scopeRun
       ELSE analyst' = [analyst EXCEPT ![w].at = "build"] /\ OpenRun(w)
    /\ UNCHANGED <<fixedScope, diffs, graph, stamped, scopeJob, round, setbacks>>

(* Contents that cannot be read *)
Lose(lost) == \/ lost = {} /\ UNCHANGED setbacks
              \/ lost = Paths /\ Setback

(* replace_artifact_diffs: all of the rows at once                         *)
Stored(whole) == [rows |-> Classified, loose |-> FALSE, whole |-> whole]

(* The diffs are built and stored.                                         *)
BuildDiff(w) ==
    /\ At(w, "diff", "build")
    /\ \E lost \in {{}, Paths} :
          /\ Lose(lost)
          /\ diffs' = Stored(origin = "valid" /\ WithHunks(lost).omitted = {})
    /\ analyst' = [analyst EXCEPT ![w].at = "stored",
                      ![w].out = [paths |-> {r.path : r \in Classified}, whole |-> diffs'.whole]]
    /\ UNCHANGED <<fixedScope, graph, stamped, scopeRun, scopeJob, round>>

(* The graph is made of the diffs that were read before ...                *)
ReadDiffs(w) ==
    /\ At(w, "graph", "build")
    /\ \E lost \in {{}, Paths} :
          /\ Lose(lost)
          /\ analyst' = [analyst EXCEPT ![w].at = "built", ![w].out = Scope(diffs.rows, lost)]
    /\ UNCHANGED <<fixedScope, diffs, graph, stamped, scopeRun, scopeJob, round>>

(* ... and stored, with what it says of the files: replace_artifact_graph. *)
StoreGraph(w) ==
    /\ At(w, "graph", "built")
    /\ graph' = analyst[w].out /\ stamped' = graph'
    /\ analyst' = [analyst EXCEPT ![w].at = "stored"]
    /\ UNCHANGED <<fixedScope, diffs, scopeRun, scopeJob, round, setbacks>>

(* complete_review_run, whatever the run was taken for in the meantime     *)
CompleteRun(w) ==
    /\ analyst[w].at = "stored"
    /\ scopeRun' = IF analyst[w].round = round
                   THEN [scopeRun EXCEPT ![OwnRun(w)] = [status |-> "succeeded", out |-> analyst[w].out]]
                   ELSE scopeRun
    /\ analyst' = [analyst EXCEPT ![w].at = "ran"]
    /\ UNCHANGED <<fixedScope, diffs, graph, stamped, scopeJob, round, setbacks>>

Finish(w) ==
    /\ analyst[w].at = "ran"
    /\ scopeJob' = IF analyst[w].round = round /\ scopeJob[analyst[w].stage].holder = w
                   THEN [scopeJob EXCEPT ![analyst[w].stage].holder = 0, ![analyst[w].stage].done = TRUE]
                   ELSE scopeJob
    /\ analyst' = [analyst EXCEPT ![w] = Free]
    /\ UNCHANGED <<fixedScope, diffs, graph, stamped, scopeRun, round, setbacks>>

LoseLease(w) ==
    /\ Setback
    /\ analyst[w].round = round /\ scopeJob[analyst[w].stage].holder = w
    /\ scopeJob' = [scopeJob EXCEPT ![analyst[w].stage].holder = 0]
    /\ UNCHANGED <<fixedScope, diffs, graph, stamped, scopeRun, round, analyst>>

(* A precheck that goes on after its lease registers the same files once   *)
(* more: their edges and what the graph says of them are gone, and the     *)
(* diffs have lost their files (replace_artifact_files).                   *)
RegisterAgain ==
    /\ Setback
    /\ diffs' = [diffs EXCEPT !.loose = diffs.rows # {}]
    /\ stamped' = NoGraph
    /\ UNCHANGED <<fixedScope, graph, scopeRun, scopeJob, round, analyst>>

(* A person starts the review anew: what ran before is superseded.         *)
StartAnew ==
    /\ Setback
    /\ round + 1 \in Rounds /\ round' = round + 1
    /\ scopeRun' = [k \in ScopeStages \X Tries |-> Unrun]
    /\ scopeJob' = [s \in ScopeStages |-> Fresh]
    /\ UNCHANGED <<fixedScope, diffs, graph, stamped, analyst>>

Next ==
    \/ \E w \in Analysts :
          \/ \E s \in ScopeStages : Claim(w, s)
          \/ Recover(w) \/ BuildDiff(w) \/ ReadDiffs(w) \/ StoreGraph(w) \/ CompleteRun(w)
          \/ Finish(w) \/ LoseLease(w)
    \/ RegisterAgain
    \/ StartAnew

Spec == Init /\ [][Next]_vars

(***************************************************************************)
(* Properties                                                              *)
(***************************************************************************)
TypeOK ==
    /\ round \in Rounds /\ setbacks \in 0..MaxSetbacks
    /\ \A r \in diffs.rows : r.path \in Paths /\ r.from \in Paths \cup {""}
    /\ graph.paths \subseteq Present(tree) /\ stamped \in {NoGraph, graph}
    /\ \A k \in ScopeStages \X Tries : scopeRun[k].status \in {"none", "running", "succeeded", "failed"}
    /\ \A s \in ScopeStages : scopeJob[s].holder \in {0} \cup Analysts

(* Every file of either tree is told of once, and two files are taken for  *)
(* one that moved only if no other could have been it                      *)
(* (design.md: exactly the same content and one to one).                   *)
DiffsTellAll ==
    diffs.rows # {} =>
        /\ \A p \in Present(tree) : Cardinality({r \in diffs.rows : r.kind # "deleted" /\ r.path = p}) = 1
        /\ \A p \in Present(base) : Cardinality({r \in diffs.rows : r.from = p}) = 1
        /\ \A r, q \in diffs.rows : r.path = q.path => r = q

(* What a file runs: the file its import names, and the packages above.    *)
Runs(t, p) ==
    UNION {LET m == IF FilesOf(t, i[2]) # {} THEN i[2] ELSE i[1]
           IN  FilesOf(t, m) \cup {q \in Present(t) \cap Inits : ModuleOf[q] \in Above[m]} :
           i \in ImportsOf[t[p]]}
Users(t, S) ==
    FoldLeft(LAMBDA found, p : found \cup {q \in Present(t) : Runs(t, q) \cap found # {}}, S, Order)

(* A file has to be looked at if it is new, if it runs something new, or   *)
(* ran in the base what is no longer there.  The package's __init__ that   *)
(* was renamed is the exception: nobody looks for what ran it.             *)
New == {p \in Present(tree) : base[p] # tree[p]}
Old == {p \in Present(base) : tree[p] # base[p] /\ ~(p \in Inits /\ \E m \in Moved : m[1] = p)}
Affected == Users(tree, New) \cup (Users(base, Old) \cap Present(tree))

(* A review that is not a full one leaves out no file whose behaviour may  *)
(* have changed with the new files.                                        *)
ScopeCovers ==
    graph # NoGraph /\ graph.whole => Affected \subseteq graph.paths

(* A stage that is done has a run of this attempt of the review that says  *)
(* so, without which the review would wait for it.                         *)
DoneIsOnRecord == \A s \in ScopeStages : scopeJob[s].done => Succeeded(s) # {}

ScopeIsWhole == DiffsTellAll /\ ScopeCovers /\ DoneIsOnRecord
=============================================================================
