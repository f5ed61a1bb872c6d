----------------------------- MODULE Workspace -----------------------------
(***************************************************************************)
(* The review workspace in the browser: what it shows of one artifact and  *)
(* the reads and comment requests under way, whose answers come in any     *)
(* order, aborted or not, while the reviewer moves between artifacts.      *)
(***************************************************************************)
EXTENDS Naturals, Sequences, FiniteSets, SequencesExt

CONSTANTS
    Artifacts, Nowhere,
    Files,         \* files of an artifact
    Slots,         \* requests that can be under way
    Pages,         \* pages of an artifact's history
    CacheLimit,    \* contents that are kept
    MaxReads,      \* bound: reads of one resource
    MaxMoves,      \* bound: changes of the artifact
    MaxVersion     \* bound: versions of a comment

VARIABLES
    active,        \* activeArtifactId
    generation,
    sequence,      \* sequences of the resources
    loading,       \* loadingRefs
    errors,        \* errorRefs: whether an error is shown
    screen,        \* what is shown of each resource, and of which artifact
    kept,          \* contentCache, the oldest first
    asked,         \* the file that was asked for last
    flight,        \* requests under way
    version        \* on the server: the version of each artifact's comment

vars == <<active, generation, sequence, loading, errors, screen, kept, asked, flight, version>>

Reads == {"content", "comments", "history"}
Nothing == [of |-> Nowhere, value |-> 0]
NoScreen == [content |-> [of |-> Nowhere, value |-> Nowhere], comments |-> Nothing,
             history |-> [of |-> Nowhere, value |-> <<>>]]
Landed == [kind |-> "none", artifact |-> Nowhere, generation |-> 0, sequence |-> 0, arg |-> 0,
           reset |-> FALSE, answer |-> 0, at |-> "free"]

Init ==
    /\ active = Nowhere /\ generation = 0
    /\ sequence = [k \in Reads |-> 0]
    /\ loading = [k \in Reads |-> FALSE] /\ errors = loading
    /\ screen = NoScreen
    /\ kept = <<>> /\ asked = Nowhere
    /\ flight = [s \in Slots |-> Landed]
    /\ version = [a \in Artifacts |-> 1]

Mutating == \E s \in Slots : flight[s].kind = "comment"

(* resetForArtifact                                                        *)
Move(a) ==
    /\ a # active /\ generation < MaxMoves
    /\ active' = a /\ generation' = generation + 1
    /\ sequence' = [k \in Reads |-> sequence[k] + 1]
    /\ loading' = [k \in Reads |-> FALSE] /\ errors' = loading'
    /\ screen' = NoScreen
    /\ kept' = <<>> /\ asked' = Nowhere
    /\ UNCHANGED <<flight, version>>

(* begin: the read before it is aborted, which may be too late.            *)
Begin(s, k, arg, reset) ==
    /\ active # Nowhere /\ flight[s] = Landed /\ sequence[k] < MaxReads
    /\ sequence' = [sequence EXCEPT ![k] = @ + 1]
    /\ loading' = [loading EXCEPT ![k] = TRUE] /\ errors' = [errors EXCEPT ![k] = FALSE]
    /\ flight' = [flight EXCEPT ![s] =
           [kind |-> k, artifact |-> active, generation |-> generation,
            sequence |-> sequence[k] + 1, arg |-> arg, reset |-> reset, answer |-> 0,
            at |-> "sent"]]

Superseded(k) ==
    /\ sequence' = [sequence EXCEPT ![k] = @ + 1]
    /\ loading' = [loading EXCEPT ![k] = FALSE] /\ errors' = [errors EXCEPT ![k] = FALSE]

(* loadFileContent: from the cache, or read.                               *)
LoadContent(s, f) ==
    /\ asked' = f
    /\ IF \E i \in 1..Len(kept) : kept[i] = f
       THEN /\ sequence["content"] < MaxReads
            /\ Superseded("content")
            /\ kept' = Append(SelectSeq(kept, LAMBDA x : x # f), f)
            /\ screen' = [screen EXCEPT !.content = [of |-> active, value |-> f]]
            /\ UNCHANGED flight
       ELSE Begin(s, "content", f, FALSE) /\ UNCHANGED <<kept, screen>>
    /\ UNCHANGED <<active, generation, version>>

LoadComments(s) ==
    /\ Begin(s, "comments", 0, FALSE)
    /\ UNCHANGED <<active, generation, screen, kept, asked, version>>

(* loadHistory: from the start, or the page after the cursor unless one is *)
(* being read or there is none.                                            *)
LoadHistory(s, reset) ==
    LET shown == screen.history.value IN
    /\ reset \/ ~(loading["history"] \/ (shown # <<>> /\ Last(shown) = Pages))
    /\ Begin(s, "history", IF reset \/ shown = <<>> THEN 0 ELSE Last(shown), reset)
    /\ screen' = IF reset THEN [screen EXCEPT !.history = NoScreen.history] ELSE screen
    /\ UNCHANGED <<active, generation, kept, asked, version>>

(* mutateComment on the version that is shown; the page is busy meanwhile. *)
Comment(s) ==
    /\ screen.comments.of # Nowhere /\ ~Mutating /\ flight[s] = Landed
    /\ flight' = [flight EXCEPT ![s] =
           [Landed EXCEPT !.kind = "comment", !.artifact = active, !.generation = generation,
                          !.arg = screen.comments.value, !.at = "sent"]]
    /\ UNCHANGED <<active, generation, sequence, loading, errors, screen, kept, asked, version>>

(* The server answers: a page of the history, the comment as it is, or the *)
(* comment with another event if its version was the one expected.         *)
Serve(s) ==
    LET q == flight[s] IN
    /\ q.at = "sent"
    /\ IF q.kind = "comment" /\ version[q.artifact] = q.arg
       THEN /\ version[q.artifact] < MaxVersion
            /\ version' = [version EXCEPT ![q.artifact] = @ + 1]
            /\ flight' = [flight EXCEPT ![s].at = "served", ![s].answer = q.arg + 1]
       ELSE /\ flight' = [flight EXCEPT ![s].at = IF q.kind = "comment" THEN "refused" ELSE "served",
                  ![s].answer = IF q.kind = "history" THEN q.arg + 1
                                ELSE IF q.kind = "comments" THEN version[q.artifact] ELSE 0]
            /\ UNCHANGED version
    /\ UNCHANGED <<active, generation, sequence, loading, errors, screen, kept, asked>>

(* Somebody else comments.                                                 *)
Others(a) ==
    /\ version[a] < MaxVersion
    /\ version' = [version EXCEPT ![a] = @ + 1]
    /\ UNCHANGED <<active, generation, sequence, loading, errors, screen, kept, asked, flight>>

(* A bug: a read of the present artifact is taken for the last one.        *)
SameArtifact(q) == q.artifact = active

(* isCurrent                                                               *)
IsCurrent(q) ==
    /\ q.generation = generation
    /\ q.sequence = sequence[q.kind]
    /\ q.artifact = active

(* cachePut                                                                *)
Keep(f) ==
    LET all == Append(SelectSeq(kept, LAMBDA x : x # f), f) IN
    kept' = IF Len(all) > CacheLimit THEN Tail(all) ELSE all

Commit(q) ==
    CASE q.kind = "content" ->
           /\ Keep(q.arg)
           /\ screen' = [screen EXCEPT !.content = [of |-> q.artifact, value |-> q.arg]]
      [] q.kind = "comments" ->
           /\ screen' = [screen EXCEPT !.comments = [of |-> q.artifact, value |-> q.answer]]
           /\ UNCHANGED kept
      [] q.kind = "history" ->
           /\ screen' = [screen EXCEPT !.history =
                 [of |-> q.artifact,
                  value |-> Append(IF q.reset THEN <<>> ELSE @.value, q.answer)]]
           /\ UNCHANGED kept

(* runRead after its await.                                                *)
ReadArrives(s) ==
    LET q == flight[s] IN
    /\ q.kind \in Reads /\ q.at = "served"
    /\ IF IsCurrent(q)
       THEN Commit(q) /\ loading' = [loading EXCEPT ![q.kind] = FALSE]
       ELSE UNCHANGED <<screen, kept, loading>>
    /\ flight' = [flight EXCEPT ![s] = Landed]
    /\ UNCHANGED <<active, generation, sequence, errors, asked, version>>

(* It fails, or was aborted in time: only the last one has its error shown. *)
ReadFails(s) ==
    LET q == flight[s] IN
    /\ q.kind \in Reads
    /\ IF IsCurrent(q)
       THEN /\ loading' = [loading EXCEPT ![q.kind] = FALSE]
            /\ errors' = [errors EXCEPT ![q.kind] = TRUE]
       ELSE UNCHANGED <<loading, errors>>
    /\ flight' = [flight EXCEPT ![s] = Landed]
    /\ UNCHANGED <<active, generation, sequence, screen, kept, asked, version>>

(* A bug: the list that is being read is waited for.                       *)
ReadsOn == UNCHANGED <<sequence, loading, errors>>

(* useCached: the list that is being read is older than the answer.        *)
UseCached == Superseded("comments")

(* commentRequest after its await, upsertComment.                          *)
CommentArrives(s) ==
    LET q == flight[s] IN
    /\ q.kind = "comment" /\ q.at \in {"served", "refused"}
    /\ IF q.at = "served" /\ q.artifact = active /\ q.generation = generation
       THEN /\ UseCached
            /\ screen' = [screen EXCEPT !.comments = [of |-> active, value |-> q.answer]]
       ELSE UNCHANGED <<sequence, loading, errors, screen>>
    /\ flight' = [flight EXCEPT ![s] = Landed]
    /\ UNCHANGED <<active, generation, kept, asked, version>>

Next ==
    \/ \E a \in Artifacts : Move(a) \/ Others(a)
    \/ \E s \in Slots :
          \/ LoadComments(s) \/ Comment(s) \/ Serve(s)
          \/ ReadArrives(s) \/ ReadFails(s) \/ CommentArrives(s)
          \/ \E f \in Files : LoadContent(s, f)
          \/ \E reset \in BOOLEAN : LoadHistory(s, reset)
-----------------------------------------------------------------------------
TypeOK ==
    /\ active \in Artifacts \cup {Nowhere} /\ generation \in 0..MaxMoves
    /\ loading \in [Reads -> BOOLEAN]
    /\ Len(kept) <= CacheLimit /\ asked \in Files \cup {Nowhere}
    /\ \A s \in Slots : flight[s].kind \in Reads \cup {"none", "comment"}
    /\ version \in [Artifacts -> 1..MaxVersion]

(* What is shown is of the artifact the reviewer looks at; the content is  *)
(* that of the file asked for last, once it is not being read any more and *)
(* no error is shown (reviewWorkspace.ts, isCurrent).                      *)
ShownWasAskedFor ==
    /\ \A k \in Reads : screen[k].of \in {active, Nowhere}
    /\ ~loading["content"] /\ ~errors["content"] => screen.content.value = asked

(* A list that is read never takes back what an own comment's answer has   *)
(* shown; only such an answer may itself be older than a list that came in *)
(* before it (reviewWorkspace.ts, commentRequest).                         *)
ListsGoForward ==
    generation' = generation /\ screen'.comments.value < screen.comments.value
       => (\E s \in Slots : flight[s].kind = "comment" /\ flight'[s] = Landed)

(* The history that is shown has every page from the first on, once.       *)
HistoryHasNoGaps ==
    \A i \in 1..Len(screen.history.value) : screen.history.value[i] = i
=============================================================================
