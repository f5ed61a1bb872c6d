--------------------------- MODULE ReviewHistory ---------------------------
(***************************************************************************)
(* What a reviewer reads of a review while it goes on: its history, page   *)
(* after page in the order of when it happened, or a thread of comments,   *)
(* whose row, last events and number of events are read one by one.  There *)
(* is one reader, who looks at one of the two at a time.                   *)
(***************************************************************************)
EXTENDS Naturals, Sequences, FiniteSets, SequencesExt

CONSTANTS
    Entries,       \* runs, findings, decisions and events, by type and id
    PageRoom,      \* entries on a page
    EventLimit,    \* events that are shown of a thread
    MaxHour,       \* bound: moments told apart
    MaxSaid        \* bound: events of the thread

VARIABLES
    hour,          \* the time on the database's clock
    ledger,        \* an entry: its transaction's time and whether it is committed
    pager,         \* the reader of the history: what was shown, the cursor
    promised,      \* history: entries that were there from the first page on
    said,          \* the events of the thread, which are its version too
    viewer         \* what was read of the thread

vars == <<hour, ledger, pager, promised, said, viewer>>

Start == <<0, 0>>
NoPages == [at |-> "idle", shown |-> <<>>, after |-> Start]
NoView == [at |-> "idle", version |-> 0, events |-> {}, count |-> 0]

Init ==
    /\ hour = 1
    /\ ledger = [e \in Entries |-> [at |-> "none", time |-> 0]]
    /\ pager = NoPages /\ promised = {}
    /\ said = 1 /\ viewer = NoView

Tick ==
    /\ hour < MaxHour /\ hour' = hour + 1
    /\ UNCHANGED <<ledger, pager, promised, said, viewer>>

(* created_at is now(), which is when the transaction began: an entry may  *)
(* come to be seen after others that happened later.                       *)
OpenEntry(e) ==
    /\ ledger[e].at = "none"
    /\ ledger' = [ledger EXCEPT ![e] = [at |-> "open", time |-> hour]]
    /\ UNCHANGED <<hour, pager, promised, said, viewer>>

CommitEntry(e) ==
    /\ ledger[e].at = "open"
    /\ ledger' = [ledger EXCEPT ![e].at = "there"]
    /\ UNCHANGED <<hour, pager, promised, said, viewer>>

(* replace_findings deletes a finding, or another policy's events take the *)
(* place of those of the one before.                                       *)
RemoveEntry(e) ==
    /\ ledger[e].at = "there"
    /\ ledger' = [ledger EXCEPT ![e].at = "gone"]
    /\ promised' = promised \ {e}
    /\ UNCHANGED <<hour, pager, said, viewer>>
-----------------------------------------------------------------------------
Key(e) == <<ledger[e].time, e>>

(* A bug: entries of the moment the last page ended with are left out.     *)
LaterThan(k, m) == k[1] > m[1]

Beyond(k, m) == k[1] > m[1] \/ (k[1] = m[1] /\ k[2] > m[2])

(* list_review_history_records: what all tables hold beyond the cursor,    *)
(* ordered by time, then by type and id.                                   *)
Records(after) == {e \in Entries : ledger[e].at = "there" /\ Beyond(Key(e), after)}

Earlier(e, f) ==
    \/ ledger[e].time < ledger[f].time
    \/ ledger[e].time = ledger[f].time /\ e < f
InOrder(S) == {q \in SetToSeqs(S) : \A i, j \in DOMAIN q : i < j => Earlier(q[i], q[j])}

Seen == ToSet(pager.shown)

(* A bug: the cursor is that of the entry beyond the page.                 *)
CursorBeyond(found) == Key(found[PageRoom + 1])

(* The cursor, of the last entry on the page.                              *)
Cursor(found) == Key(found[PageRoom])

(* ReviewHistoryService.list asks for one entry more than it shows, to     *)
(* know whether there is another page; loadHistory appends what is new.    *)
ReadPage ==
    /\ pager.at \in {"idle", "paging"} /\ viewer = NoView
    /\ \E found \in InOrder(Records(pager.after)) :
          LET page == SubSeq(found, 1, IF Len(found) < PageRoom THEN Len(found) ELSE PageRoom)
              more == Len(found) > PageRoom IN
          \E fresh \in InOrder(ToSet(page) \ Seen) :
             pager' = [at |-> IF more THEN "paging" ELSE "read",
                       shown |-> pager.shown \o fresh,
                       after |-> IF more THEN Cursor(found) ELSE pager.after]
    /\ promised' = IF pager.at = "idle" THEN {e \in Entries : ledger[e].at = "there"}
                   ELSE promised
    /\ UNCHANGED <<hour, ledger, said, viewer>>

(* loadHistory with reset                                                  *)
Restart ==
    /\ pager # NoPages /\ pager' = NoPages /\ promised' = {}
    /\ UNCHANGED <<hour, ledger, said, viewer>>
-----------------------------------------------------------------------------
(* append_review_comment_event                                             *)
Say ==
    /\ said < MaxSaid /\ said' = said + 1
    /\ UNCHANGED <<hour, ledger, pager, promised, viewer>>

(* A bug: the events are counted before they are read.                     *)
CountFirst(at) ==
    CASE at = "idle" -> "thread" [] at = "thread" -> "count" [] at = "count" -> "events"

(* The statements of get_review_comment, which no transaction holds        *)
(* together.                                                               *)
Statement(at) ==
    CASE at = "idle" -> "thread" [] at = "thread" -> "events" [] at = "events" -> "count"

LastEvents == {i \in 1..said : i > said - EventLimit}

View ==
    LET now == Statement(viewer.at) IN
    /\ pager = NoPages /\ (viewer.count = 0 \/ viewer.events = {})
    /\ viewer' = CASE now = "thread" -> [viewer EXCEPT !.at = now, !.version = said]
                   [] now = "events" -> [viewer EXCEPT !.at = now, !.events = LastEvents]
                   [] now = "count"  -> [viewer EXCEPT !.at = now, !.count = said]
    /\ UNCHANGED <<hour, ledger, pager, promised, said>>

(* The answer is shown, and the thread read again.                         *)
Viewed == viewer.count # 0 /\ viewer.events # {}
Close ==
    /\ Viewed /\ viewer' = NoView
    /\ UNCHANGED <<hour, ledger, pager, promised, said>>

Next ==
    \/ Tick \/ ReadPage \/ Restart \/ Say \/ View \/ Close
    \/ \E e \in Entries : OpenEntry(e) \/ CommitEntry(e) \/ RemoveEntry(e)

Spec == Init /\ [][Next]_vars
-----------------------------------------------------------------------------
TypeOK ==
    /\ hour \in 1..MaxHour /\ said \in 1..MaxSaid
    /\ ledger \in [Entries -> [at : {"none", "open", "there", "gone"}, time : 0..MaxHour]]
    /\ pager.at \in {"idle", "paging", "read"} /\ pager.shown \in Seq(Entries)
    /\ promised \subseteq Entries
    /\ viewer.version \in 0..MaxSaid /\ viewer.events \subseteq 1..MaxSaid

(* A history that is read to its end shows every entry that was there from *)
(* its first page on, however many happened at the same moment and come in *)
(* meanwhile, and shows each once, in order (history.py, list).            *)
HistoryIsWhole ==
    /\ pager.at = "read" => promised \subseteq Seen
    /\ \A i, j \in 1..Len(pager.shown) :
          i < j => Earlier(pager.shown[i], pager.shown[j])

(* A thread that is not said to be truncated is shown whole, up to the     *)
(* version it is shown with at least (advanced_repository.py,              *)
(* get_review_comment).                                                    *)
Truncated == viewer.count > Cardinality(viewer.events)
ThreadsAreWhole ==
    Viewed => /\ ~Truncated => 1..viewer.version \subseteq viewer.events
              /\ viewer.version <= viewer.count
=============================================================================
