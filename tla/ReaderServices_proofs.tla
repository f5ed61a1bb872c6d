----------------------- MODULE ReaderServices_proofs ------------------------
(***************************************************************************)
(* Proofs about what people are shown of a review: the history and the     *)
(* threads as the server reads them, and the workspace in the browser, for *)
(* any number of entries, pages, requests and artifacts.                   *)
(***************************************************************************)
EXTENDS Services, FiniteSetTheorems, TLAPS

(* A behaviour stays with its service.                                     *)
LEMMA OneService ==
    ASSUME [Next]_vars
    PROVE  /\ focus' = focus
           /\ focus = "workspace" => [Workspace!Next]_(Workspace!vars)
           /\ focus = "history" => [ReviewHistory!Next]_(ReviewHistory!vars)
  <1>1. CASE UNCHANGED vars
    BY <1>1 DEF vars, workspaceVars, historyVars, Workspace!vars, ReviewHistory!vars
  <1>2. CASE Next
    BY <1>2, Zenon DEF Next, AccountsStep, ListingStep, CommunityStep, ReviewPolicyStep,
       ReviewDiscussionStep, SubmissionStep, WorkspaceStep, CdnSubscriptionStep, LlmReviewStep,
       ReviewScopeStep, CategoryStep, MalwareScanStep, ReviewHistoryStep
  <1> QED BY <1>1, <1>2

LEMMA OneServiceAtInit ==
    ASSUME Init
    PROVE  /\ focus = "workspace" => Workspace!Init
           /\ focus = "history" => ReviewHistory!Init
  BY Zenon DEF Init
-----------------------------------------------------------------------------
(* ReviewHistory: a thread, whose parts are read one by one.               *)

(* The last events of a thread of n.                                       *)
LastOf(n) == {i \in 1..n : i > n - EventLimit}

(* What was read later is of a thread that is as long or longer.           *)
ThreadInv ==
    /\ said \in Nat \ {0}
    /\ viewer \in [at : {"idle", "thread", "events", "count"}, version : Nat,
                   events : SUBSET Nat, count : Nat]
    /\ viewer.at = "idle" => viewer.events = {} /\ viewer.count = 0
    /\ viewer.at = "thread" => /\ viewer.version <= said
                               /\ viewer.events = {} /\ viewer.count = 0
    /\ viewer.at = "events" =>
          /\ viewer.count = 0
          /\ \E n \in 1..said : viewer.version <= n /\ viewer.events = LastOf(n)
    /\ viewer.at = "count" =>
          /\ viewer.count \in 1..said
          /\ \E n \in 1..viewer.count : viewer.version <= n /\ viewer.events = LastOf(n)

LEMMA ThreadAtInit == ReviewHistory!Init => ThreadInv
  BY DEF ReviewHistory!Init, ThreadInv, ReviewHistory!NoView

LEMMA ThreadStays ==
    ASSUME EventLimit \in Nat \ {0}, ThreadInv, [ReviewHistory!Next]_(ReviewHistory!vars)
    PROVE  ThreadInv'
  <1>1. CASE UNCHANGED <<said, viewer>>
    BY <1>1 DEF ThreadInv, LastOf
  <1>2. CASE ReviewHistory!Say
    <2>1. said' = said + 1 /\ UNCHANGED viewer
      BY <1>2 DEF ReviewHistory!Say
    <2> QED BY <2>1 DEF ThreadInv, LastOf
  <1>3. CASE ReviewHistory!View
    <2>1. CASE viewer.at = "idle"
      <3>1. viewer' = [viewer EXCEPT !.at = "thread", !.version = said] /\ UNCHANGED said
        BY <1>3, <2>1 DEF ReviewHistory!View, ReviewHistory!Statement
      <3>2. /\ viewer'.at = "thread" /\ viewer'.version = said /\ said' = said
            /\ viewer'.events = {} /\ viewer'.count = 0
        BY <2>1, <3>1 DEF ThreadInv
      <3>3. viewer' \in [at : {"idle", "thread", "events", "count"}, version : Nat,
                         events : SUBSET Nat, count : Nat]
        BY <3>1 DEF ThreadInv
      <3> QED BY <3>2, <3>3 DEF ThreadInv
    <2>2. CASE viewer.at = "thread"
      <3>1. /\ viewer' = [viewer EXCEPT !.at = "events", !.events = LastOf(said)]
            /\ UNCHANGED said
        BY <1>3, <2>2 DEF ReviewHistory!View, ReviewHistory!Statement, ReviewHistory!LastEvents, LastOf
      <3>2. LastOf(said) \subseteq Nat /\ said \in 1..said /\ viewer.version <= said
        BY <2>2 DEF LastOf, ThreadInv
      <3>3. LastOf(said') = LastOf(said)
        BY <3>1
      <3>4. \E n \in 1..said' : viewer'.version <= n /\ viewer'.events = LastOf(n)
        BY <3>1, <3>2 DEF ThreadInv
      <3>5. viewer' \in [at : {"idle", "thread", "events", "count"}, version : Nat,
                         events : SUBSET Nat, count : Nat]
        BY <3>1, <3>2 DEF ThreadInv
      <3>6. viewer'.at = "events" /\ viewer'.count = 0 /\ said' = said
        BY <2>2, <3>1 DEF ThreadInv
      <3> QED BY <3>4, <3>5, <3>6 DEF ThreadInv
    <2>3. CASE viewer.at = "events"
      <3>1. /\ viewer' = [viewer EXCEPT !.at = "count", !.count = said]
            /\ UNCHANGED said
        BY <1>3, <2>3 DEF ReviewHistory!View, ReviewHistory!Statement
      <3>2. viewer' \in [at : {"idle", "thread", "events", "count"}, version : Nat,
                         events : SUBSET Nat, count : Nat]
        BY <3>1 DEF ThreadInv
      <3>3. /\ viewer'.at = "count" /\ viewer'.count = said /\ said' = said
            /\ viewer'.events = viewer.events /\ viewer'.version = viewer.version
        BY <3>1 DEF ThreadInv
      <3>4. \E n \in 1..said : viewer.version <= n /\ viewer.events = LastOf(n)
        BY <2>3 DEF ThreadInv
      <3> QED BY <3>2, <3>3, <3>4 DEF ThreadInv, LastOf
    <2>4. viewer.at # "count"
      <3>1. SUFFICES ASSUME viewer.at = "count" PROVE FALSE
        OBVIOUS
      <3>2. PICK n \in 1..viewer.count : viewer.events = LastOf(n)
        BY <3>1 DEF ThreadInv
      <3>3. n \in LastOf(n)
        BY <3>1, <3>2 DEF LastOf, ThreadInv
      <3> QED BY <1>3, <3>1, <3>2, <3>3 DEF ReviewHistory!View, ThreadInv
    <2> QED BY <2>1, <2>2, <2>3, <2>4 DEF ThreadInv
  <1>4. CASE ReviewHistory!Close
    BY <1>4 DEF ReviewHistory!Close, ReviewHistory!NoView, ThreadInv
  <1> QED BY <1>1, <1>2, <1>3, <1>4 DEF ReviewHistory!Next, ReviewHistory!vars, ReviewHistory!Tick,
             ReviewHistory!ReadPage, ReviewHistory!Restart, ReviewHistory!OpenEntry,
             ReviewHistory!CommitEntry, ReviewHistory!RemoveEntry

(* Of a thread with more events than are shown, fewer are shown.           *)
LEMMA ThreadsHold ==
    ASSUME EventLimit \in Nat \ {0}, ThreadInv
    PROVE  ReviewHistory!ThreadsAreWhole
  <1>1. SUFFICES ASSUME ReviewHistory!Viewed
                 PROVE  /\ viewer.version <= viewer.count
                        /\ ReviewHistory!Truncated \/ 1..viewer.version \subseteq viewer.events
    BY DEF ReviewHistory!ThreadsAreWhole
  <1>2. viewer.at = "count"
    BY <1>1 DEF ReviewHistory!Viewed, ThreadInv
  <1>3. PICK n \in 1..viewer.count : viewer.version <= n /\ viewer.events = LastOf(n)
    BY <1>2 DEF ThreadInv
  <1>4. n \in Nat /\ viewer.count \in Nat /\ viewer.version \in Nat /\ n <= viewer.count
    BY <1>3 DEF ThreadInv
  <1>5. CASE n <= EventLimit
    BY <1>3, <1>4, <1>5 DEF LastOf
  <1>6. CASE n > EventLimit
    <2>1. LastOf(n) = (n - EventLimit + 1)..n
      BY <1>4, <1>6 DEF LastOf
    <2>2. Cardinality((n - EventLimit + 1)..n) = EventLimit
      <3>1. n - EventLimit + 1 \in Int /\ n \in Int /\ ~(n - EventLimit + 1 > n)
        BY <1>4
      <3>2. Cardinality((n - EventLimit + 1)..n) = n - (n - EventLimit + 1) + 1
        BY <3>1, FS_Interval
      <3> QED BY <1>4, <3>2
    <2>3. ReviewHistory!Cardinality(viewer.events) = Cardinality(viewer.events)
      BY Zenon DEF ReviewHistory!Cardinality, Cardinality
    <2>4. ReviewHistory!Truncated
      BY <1>3, <1>4, <1>6, <2>1, <2>2, <2>3 DEF ReviewHistory!Truncated
    <2> QED BY <1>3, <1>4, <2>4
  <1> QED BY <1>4, <1>5, <1>6
-----------------------------------------------------------------------------
(* ReviewHistory: a history, page after page.                              *)

EntryRows == [at : {"none", "open", "there", "gone"}, time : Nat]

Behind(e) == ReviewHistory!Beyond(ReviewHistory!Key(e), pager.after)

Elements(q) == {q[i] : i \in 1..Len(q)}
Sorted(q) == \A i, j \in 1..Len(q) : i < j => ReviewHistory!Earlier(q[i], q[j])

(* All that was shown is up to the cursor, and what was there from the     *)
(* first page on is shown or beyond it.                                    *)
PagerInv ==
    /\ hour \in Nat \ {0}
    /\ ledger \in [Entries -> EntryRows]
    /\ \A e \in Entries : ledger[e].at # "none" => ledger[e].time # 0
    /\ pager \in [at : {"idle", "paging", "read"}, shown : Seq(Entries), after : Nat \X Nat]
    /\ promised \subseteq {e \in Entries : ledger[e].at = "there"}
    /\ \A e \in Elements(pager.shown) : ledger[e].at \in {"there", "gone"}
    /\ Sorted(pager.shown)
    /\ pager.at = "idle" => pager.shown = <<>> /\ pager.after = <<0, 0>>
    /\ pager.at = "paging" => /\ \A e \in Elements(pager.shown) : ~Behind(e)
                              /\ \A e \in promised : Behind(e) \/ e \in Elements(pager.shown)
    /\ pager.at = "read" => promised \subseteq Elements(pager.shown)

(* An answer has all the rows, in order.                                   *)
LEMMA AnswerIsWhole ==
    ASSUME NEW S, IsFiniteSet(S), NEW q, q \in ReviewHistory!InOrder(S)
    PROVE  q \in Seq(S) /\ Elements(q) = S /\ Sorted(q)
  <1> DEFINE n == Cardinality(S)
  <1>1. n \in Nat
    BY FS_CardinalityType
  <1>2. ReviewHistory!Cardinality(S) = n
    BY Zenon DEF ReviewHistory!Cardinality, Cardinality
  <1>3. /\ q \in [1..n -> S]
        /\ \A i, j \in 1..n : i # j => q[i] # q[j]
        /\ \A i, j \in DOMAIN q : i < j => ReviewHistory!Earlier(q[i], q[j])
    BY <1>2 DEF ReviewHistory!InOrder, ReviewHistory!SetToSeqs
  <1> HIDE DEF n
  <1>4. q \in Seq(S) /\ Len(q) = n /\ DOMAIN q = 1..n
    BY <1>1, <1>3
  <1>5. Cardinality(1..n) = n
    BY <1>1, FS_Interval
  <1>6. q \in Injection(1..n, S)
    BY <1>3 DEF Injection, IsInjective
  <1>7. q \in Surjection(1..n, S)
    BY <1>5, <1>6, FS_Injection DEF n
  <1>8. \A e \in S : \E i \in 1..n : q[i] = e
    BY <1>7 DEF Surjection
  <1> QED BY <1>3, <1>4, <1>8 DEF Elements, Sorted

(* What comes after all that was shown is shown behind it.                 *)
LEMMA PagesJoin ==
    ASSUME NEW p \in Seq(Entries), NEW q \in Seq(Entries), Sorted(p), Sorted(q),
           \A e \in Elements(p), f \in Elements(q) : ReviewHistory!Earlier(e, f)
    PROVE  /\ p \o q \in Seq(Entries) /\ Elements(p \o q) = Elements(p) \cup Elements(q)
           /\ Sorted(p \o q)
  <1> DEFINE n == Len(p)
             k == Len(q)
             r == p \o q
  <1>1. /\ n \in Nat /\ k \in Nat /\ r \in Seq(Entries) /\ Len(r) = n + k
        /\ \A i \in 1..n : r[i] = p[i]
        /\ \A i \in 1..k : r[n + i] = q[i]
        /\ \A i \in 1..(n + k) : i > n => r[i] = q[i - n]
    OBVIOUS
  <1>2. /\ Elements(p) = {p[i] : i \in 1..n} /\ Elements(q) = {q[i] : i \in 1..k}
        /\ \A i, j \in 1..n : i < j => ReviewHistory!Earlier(p[i], p[j])
        /\ \A i, j \in 1..k : i < j => ReviewHistory!Earlier(q[i], q[j])
    BY DEF Elements, Sorted
  <1>3. Elements(r) = {r[i] : i \in 1..(n + k)}
    BY <1>1 DEF Elements
  <1> HIDE DEF n, k, r
  <1>4. Elements(r) = Elements(p) \cup Elements(q)
    <2>1. ASSUME NEW i \in 1..(n + k)
          PROVE  r[i] \in Elements(p) \cup Elements(q)
      <3>1. CASE i \in 1..n
        BY <1>1, <1>2, <3>1
      <3>2. CASE i > n
        <4>1. i - n \in 1..k /\ r[i] = q[i - n]
          BY <1>1, <3>2
        <4> QED BY <1>2, <4>1
      <3> QED BY <1>1, <3>1, <3>2
    <2>2. ASSUME NEW i \in 1..n
          PROVE  p[i] \in Elements(r)
      <3>1. i \in 1..(n + k) /\ r[i] = p[i]
        BY <1>1
      <3> QED BY <1>3, <3>1
    <2>3. ASSUME NEW i \in 1..k
          PROVE  q[i] \in Elements(r)
      <3>1. n + i \in 1..(n + k) /\ r[n + i] = q[i]
        BY <1>1
      <3> QED BY <1>3, <3>1
    <2> QED BY <1>2, <1>3, <2>1, <2>2, <2>3
  <1>5. ASSUME NEW i \in 1..(n + k), NEW j \in 1..(n + k), i < j
        PROVE  ReviewHistory!Earlier(r[i], r[j])
    <2>1. CASE j <= n
      <3>1. i \in 1..n /\ j \in 1..n /\ r[i] = p[i] /\ r[j] = p[j]
        BY <1>1, <1>5, <2>1
      <3> QED BY <1>2, <1>5, <3>1
    <2>2. CASE i > n
      <3>1. i - n \in 1..k /\ j - n \in 1..k /\ i - n < j - n /\ r[i] = q[i - n] /\ r[j] = q[j - n]
        BY <1>1, <1>5, <2>2
      <3> QED BY <1>2, <3>1
    <2>3. CASE i <= n /\ j > n
      <3>1. i \in 1..n /\ j - n \in 1..k /\ r[i] = p[i] /\ r[j] = q[j - n]
        BY <1>1, <1>5, <2>3
      <3> QED BY <1>2, <3>1
    <2> QED BY <1>1, <2>1, <2>2, <2>3
  <1>6. Sorted(r)
    BY <1>1, <1>5 DEF Sorted
  <1> QED BY <1>1, <1>4, <1>6 DEF r

LEMMA PagerAtInit ==
    ASSUME ReviewHistory!Init
    PROVE  PagerInv
  BY DEF ReviewHistory!Init, PagerInv, ReviewHistory!NoPages, ReviewHistory!Start, EntryRows,
         Elements, Sorted

(* One more page.                                                          *)
LEMMA PageStays ==
    ASSUME Entries \subseteq Nat, IsFiniteSet(Entries), PageRoom \in Nat \ {0}, PagerInv,
           ReviewHistory!ReadPage
    PROVE  PagerInv'
  <1> DEFINE S == ReviewHistory!Records(pager.after)
             Old == Elements(pager.shown)
  <1>1. PICK found \in ReviewHistory!InOrder(S) :
           LET page == SubSeq(found, 1, IF Len(found) < PageRoom THEN Len(found) ELSE PageRoom)
               more == Len(found) > PageRoom IN
           \E fresh \in ReviewHistory!InOrder(ReviewHistory!ToSet(page) \ ReviewHistory!Seen) :
              pager' = [at |-> IF more THEN "paging" ELSE "read",
                        shown |-> pager.shown \o fresh,
                        after |-> IF more THEN ReviewHistory!Cursor(found) ELSE pager.after]
    BY DEF ReviewHistory!ReadPage
  <1>2. /\ S = {e \in Entries : ledger[e].at = "there" /\ Behind(e)}
        /\ S \subseteq Entries /\ IsFiniteSet(S)
    <2>1. S = {e \in Entries : ledger[e].at = "there" /\ Behind(e)}
      BY DEF ReviewHistory!Records, Behind
    <2> QED BY <2>1, FS_Subset
  <1>3. found \in Seq(S) /\ Elements(found) = S /\ Sorted(found)
    <2>1. found \in ReviewHistory!InOrder(S)
      BY <1>1
    <2> HIDE DEF S
    <2> QED BY <1>2, <2>1, AnswerIsWhole
  <1> DEFINE more == Len(found) > PageRoom
             m == IF more THEN PageRoom ELSE Len(found)
             P == {found[i] : i \in 1..m}
  <1> HIDE DEF S
  <1>4. /\ m \in Nat /\ m <= Len(found) /\ Len(found) \in Nat
        /\ m = IF Len(found) < PageRoom THEN Len(found) ELSE PageRoom
    BY <1>3
  <1>5. P \subseteq S /\ IsFiniteSet(P)
    <2>1. P \subseteq S
      BY <1>3, <1>4
    <2> QED BY <1>2, <2>1, FS_Subset
  <1>6. ReviewHistory!ToSet(SubSeq(found, 1, m)) = P
    <2>1. /\ DOMAIN SubSeq(found, 1, m) = 1..m
          /\ \A i \in 1..m : SubSeq(found, 1, m)[i] = found[i]
      BY <1>3, <1>4
    <2> QED BY <2>1 DEF ReviewHistory!ToSet
  <1>7. ReviewHistory!Seen = Old /\ pager.shown \in Seq(Entries) /\ Old \subseteq Entries
    BY DEF ReviewHistory!Seen, ReviewHistory!ToSet, PagerInv, Elements
  <1>8. PICK fresh \in ReviewHistory!InOrder(P \ Old) :
              pager' = [at |-> IF more THEN "paging" ELSE "read",
                        shown |-> pager.shown \o fresh,
                        after |-> IF more THEN ReviewHistory!Cursor(found) ELSE pager.after]
    BY <1>1, <1>4, <1>6, <1>7
  <1>9. fresh \in Seq(P \ Old) /\ Elements(fresh) = P \ Old /\ Sorted(fresh)
    <2>1. IsFiniteSet(P \ Old) /\ fresh \in ReviewHistory!InOrder(P \ Old)
      BY <1>5, <1>8, FS_Subset
    <2> HIDE DEF P, Old
    <2> QED BY <2>1, AnswerIsWhole
  <1>10. UNCHANGED <<hour, ledger>> /\ pager.at \in {"idle", "paging"}
    BY DEF ReviewHistory!ReadPage
  <1> DEFINE shown == pager.shown \o fresh
  <1> HIDE DEF P, Old, shown
  <1>11. \A e \in P : e \in Nat /\ e \in Entries /\ Behind(e)
                      /\ ledger[e].at = "there" /\ ledger[e].time \in Nat
    BY <1>2, <1>5 DEF PagerInv, EntryRows
  <1>12. \A e \in Old : /\ e \in Nat /\ e \in Entries /\ ~Behind(e) /\ ledger[e].time \in Nat
                        /\ ledger[e].at \in {"there", "gone"}
    <2>1. \A e \in Old : ~Behind(e)
      <3>1. CASE pager.at = "idle"
        <4>1. pager.shown = <<>>
          BY <3>1 DEF PagerInv
        <4> QED BY <4>1 DEF Old, Elements
      <3>2. CASE pager.at = "paging"
        BY <3>2 DEF PagerInv, Old
      <3> QED BY <1>10, <3>1, <3>2
    <2> QED BY <1>7, <2>1 DEF PagerInv, EntryRows, Old
  <1>13. /\ shown \in Seq(Entries) /\ Elements(shown) = Old \cup P /\ Sorted(shown)
    <2>1. fresh \in Seq(Entries)
      BY <1>9, <1>11
    <2>2. ASSUME NEW e \in Elements(pager.shown), NEW f \in Elements(fresh)
          PROVE  ReviewHistory!Earlier(e, f)
      <3>1. /\ ~Behind(e) /\ Behind(f) /\ e \in Nat /\ f \in Nat
            /\ ledger[e].time \in Nat /\ ledger[f].time \in Nat
            /\ pager.after[1] \in Nat /\ pager.after[2] \in Nat
        BY <1>9, <1>11, <1>12 DEF PagerInv, Old
      <3> QED BY <3>1 DEF Behind, ReviewHistory!Beyond, ReviewHistory!Key, ReviewHistory!Earlier
    <2>3. Sorted(pager.shown)
      BY DEF PagerInv
    <2>4. /\ shown \in Seq(Entries) /\ Sorted(shown)
          /\ Elements(shown) = Elements(pager.shown) \cup Elements(fresh)
      BY <1>7, <1>9, <2>1, <2>2, <2>3, PagesJoin DEF shown
    <2> QED BY <1>9, <2>4 DEF Old
  (* What was there from the first page on is shown, or in the answer.     *)
  <1>14. /\ promised' \subseteq {e \in Entries : ledger[e].at = "there"}
         /\ promised' \subseteq Old \cup S
    <2>1. CASE pager.at = "idle"
      <3>1. promised' = {e \in Entries : ledger[e].at = "there"}
        BY <2>1 DEF ReviewHistory!ReadPage
      <3>2. ASSUME NEW e \in Entries, ledger[e].at = "there"
            PROVE  Behind(e)
        <4>1. ledger[e].time \in Nat \ {0} /\ pager.after = <<0, 0>>
          BY <2>1, <3>2 DEF PagerInv, EntryRows
        <4> QED BY <4>1 DEF Behind, ReviewHistory!Beyond, ReviewHistory!Key
      <3> QED BY <1>2, <3>1, <3>2
    <2>2. CASE pager.at = "paging"
      <3>1. promised' = promised
        BY <2>2 DEF ReviewHistory!ReadPage
      <3>2. \A e \in promised : e \in Old \/ Behind(e)
        BY <2>2 DEF PagerInv, Old
      <3> QED BY <1>2, <3>1, <3>2 DEF PagerInv
    <2> QED BY <1>10, <2>1, <2>2
  <1>15. ASSUME pager'.shown = shown
         PROVE  /\ hour' \in Nat \ {0} /\ ledger' \in [Entries -> EntryRows]
                /\ \A e \in Entries : ledger'[e].at # "none" => ledger'[e].time # 0
                /\ promised' \subseteq {e \in Entries : ledger'[e].at = "there"}
                /\ \A e \in Elements(pager'.shown) : ledger'[e].at \in {"there", "gone"}
                /\ Sorted(pager.shown)'
    <2>1. Sorted(pager.shown)'
      BY <1>10, <1>13, <1>15 DEF Sorted, ReviewHistory!Earlier
    <2>2. \A e \in Elements(pager'.shown) : ledger'[e].at \in {"there", "gone"}
      BY <1>10, <1>11, <1>12, <1>13, <1>15
    <2> QED BY <1>10, <1>14, <2>1, <2>2 DEF PagerInv
  <1>16. CASE ~more
    <2>1. S = P
      BY <1>3, <1>16 DEF P, Elements
    <2>2. pager' = [at |-> "read", shown |-> shown, after |-> pager.after]
      BY <1>8, <1>16 DEF shown
    <2>3. /\ pager'.at = "read" /\ pager'.shown = shown
          /\ pager' \in [at : {"idle", "paging", "read"}, shown : Seq(Entries), after : Nat \X Nat]
      BY <1>13, <2>2 DEF PagerInv
    <2>4. pager'.at = "read" => promised' \subseteq Elements(pager'.shown)
      BY <1>13, <1>14, <2>1, <2>3
    <2> QED BY <1>15, <2>3, <2>4 DEF PagerInv
  <1>17. CASE more
    <2> DEFINE last == found[PageRoom]
               next == <<ledger[last].time, last>>
    <2>1. last \in P /\ PageRoom \in 1..Len(found) /\ m = PageRoom
      BY <1>3, <1>17 DEF P
    <2>2. pager' = [at |-> "paging", shown |-> shown, after |-> next]
      BY <1>8, <1>17 DEF shown, ReviewHistory!Cursor, ReviewHistory!Key
    <2>3. last \in Nat /\ ledger[last].time \in Nat /\ Behind(last)
      BY <1>11, <2>1
    <2>4. \A i \in 1..Len(found) : /\ i < PageRoom => ReviewHistory!Earlier(found[i], last)
                                   /\ i > PageRoom => ReviewHistory!Earlier(last, found[i])
      BY <2>1 , <1>3 DEF Sorted
    <2> HIDE DEF last
    <2>5. /\ pager'.at = "paging" /\ pager'.shown = shown /\ pager'.after = next
          /\ pager' \in [at : {"idle", "paging", "read"}, shown : Seq(Entries), after : Nat \X Nat]
      BY <1>13, <2>2, <2>3 DEF PagerInv
    <2>6. \A e \in Entries : Behind(e)' <=> ReviewHistory!Beyond(<<ledger[e].time, e>>, next)
      BY <1>10, <2>5 DEF Behind, ReviewHistory!Key, ReviewHistory!Beyond
    <2>7. ASSUME NEW e \in P
          PROVE  ~Behind(e)'
      <3>1. PICK i \in 1..PageRoom : e = found[i]
        BY <2>1 DEF P
      <3>2. i \in 1..Len(found) /\ (i = PageRoom \/ i < PageRoom)
        BY <2>1, <3>1
      <3>3. e = last \/ ReviewHistory!Earlier(e, last)
        BY <2>4, <3>1, <3>2 DEF last
      <3>4. e \in Nat /\ ledger[e].time \in Nat /\ e \in Entries
        BY <1>11
      <3> QED BY <2>3, <2>6, <3>3, <3>4 DEF ReviewHistory!Earlier, ReviewHistory!Beyond
    <2>8. ASSUME NEW e \in Old
          PROVE  ~Behind(e)'
      <3>1. /\ ~Behind(e) /\ e \in Nat /\ e \in Entries /\ ledger[e].time \in Nat
            /\ pager.after[1] \in Nat /\ pager.after[2] \in Nat
        BY <1>12 DEF PagerInv
      <3> QED BY <2>3, <2>6, <3>1 DEF Behind, ReviewHistory!Beyond, ReviewHistory!Key
    <2>9. ASSUME NEW e \in S
          PROVE  e \in P \/ Behind(e)'
      <3>1. PICK i \in 1..Len(found) : found[i] = e
        BY <1>3 DEF Elements
      <3>2. CASE i <= PageRoom
        BY <2>1, <3>1, <3>2 DEF P
      <3>3. CASE i > PageRoom
        <4>1. ReviewHistory!Earlier(last, e)
          BY <2>4, <3>1, <3>3
        <4>2. e \in Nat /\ ledger[e].time \in Nat /\ e \in Entries
          BY <1>2 DEF PagerInv, EntryRows
        <4> QED BY <2>3, <2>6, <4>1, <4>2 DEF ReviewHistory!Earlier, ReviewHistory!Beyond
      <3> QED BY <1>4, <2>1, <3>2, <3>3
    <2>10. /\ \A e \in Elements(shown) : ~Behind(e)'
           /\ \A e \in promised' : Behind(e)' \/ e \in Elements(shown)
      BY <1>13, <1>14, <2>7, <2>8, <2>9
    <2>11. pager'.at = "paging" =>
              /\ \A e \in Elements(pager'.shown) : ~Behind(e)'
              /\ \A e \in promised' : Behind(e)' \/ e \in Elements(pager'.shown)
      BY <2>5, <2>10
    <2> QED BY <1>15, <2>5, <2>11 DEF PagerInv
  <1> QED BY <1>16, <1>17

(* What is open shows up later, even behind what was shown; what is removed *)
(* is promised no more.                                                    *)
LEMMA PagerStays ==
    ASSUME Entries \subseteq Nat, IsFiniteSet(Entries), PageRoom \in Nat \ {0}, PagerInv,
           [ReviewHistory!Next]_(ReviewHistory!vars)
    PROVE  PagerInv'
  <1>1. ASSUME UNCHANGED pager, hour' \in Nat \ {0}, promised' \subseteq promised,
               ledger' \in [Entries -> EntryRows],
               \A e \in Entries : ledger'[e].at # "none" => ledger'[e].time # 0,
               \A e \in promised' : ledger'[e].at = "there",
               \A e \in Entries : ledger[e].at \in {"there", "gone"} =>
                   /\ ledger'[e].at \in {"there", "gone"}
                   /\ ledger'[e].time = ledger[e].time
        PROVE  PagerInv'
    <2>1. /\ \A e \in Elements(pager.shown) :
                /\ e \in Entries /\ ledger[e].at \in {"there", "gone"}
                /\ ledger'[e].at \in {"there", "gone"} /\ ledger'[e].time = ledger[e].time
          /\ Elements(pager.shown)' = Elements(pager.shown)
          /\ \A i \in 1..Len(pager.shown) : pager.shown[i] \in Elements(pager.shown)
      <3>1. /\ Elements(pager.shown) \subseteq Entries
            /\ \A i \in 1..Len(pager.shown) : pager.shown[i] \in Elements(pager.shown)
        BY DEF PagerInv, Elements
      <3>2. \A e \in Elements(pager.shown) : ledger[e].at \in {"there", "gone"}
        BY DEF PagerInv
      <3>3. Elements(pager.shown)' = Elements(pager.shown)
        BY <1>1 DEF Elements
      <3> QED BY <1>1, <3>1, <3>2, <3>3
    <2>2. Sorted(pager.shown)'
      <3>1. ASSUME NEW i \in 1..Len(pager.shown), NEW j \in 1..Len(pager.shown), i < j
            PROVE  ReviewHistory!Earlier(pager.shown[i], pager.shown[j])'
        <4>1. ReviewHistory!Earlier(pager.shown[i], pager.shown[j])
          BY <3>1 DEF PagerInv, Sorted
        <4>2. /\ pager.shown[i] \in Elements(pager.shown)
              /\ pager.shown[j] \in Elements(pager.shown)
          BY <2>1
        <4> QED BY <1>1, <2>1, <4>1, <4>2 DEF ReviewHistory!Earlier
      <3> QED BY <1>1, <3>1 DEF Sorted
    <2>3. \A e \in Entries : ledger[e].at \in {"there", "gone"} => (Behind(e)' <=> Behind(e))
      BY <1>1 DEF Behind, ReviewHistory!Key
    <2>4. /\ \A e \in Elements(pager.shown) : Behind(e)' <=> Behind(e)
          /\ \A e \in promised' : Behind(e)' <=> Behind(e)
      BY <1>1, <2>1, <2>3 DEF PagerInv
    <2> QED BY <1>1, <2>1, <2>2, <2>4 DEF PagerInv
  <1>2. CASE UNCHANGED <<hour, ledger, pager, promised>>
    BY <1>1, <1>2 DEF PagerInv
  <1>3. CASE ReviewHistory!Tick
    BY <1>1, <1>3 DEF PagerInv, ReviewHistory!Tick
  <1>4. ASSUME NEW e \in Entries, ReviewHistory!OpenEntry(e)
        PROVE  PagerInv'
    <2>1. /\ ledger[e].at = "none" /\ ledger' = [ledger EXCEPT ![e] = [at |-> "open", time |-> hour]]
          /\ UNCHANGED <<hour, pager, promised>>
      BY <1>4 DEF ReviewHistory!OpenEntry
    <2>2. [at |-> "open", time |-> hour] \in EntryRows
      BY DEF EntryRows, PagerInv
    <2>3. /\ ledger' \in [Entries -> EntryRows]
          /\ \A f \in Entries : f # e => ledger'[f] = ledger[f]
          /\ ledger'[e].at = "open" /\ ledger'[e].time = hour
      BY <2>1, <2>2 DEF PagerInv
    <2> QED BY <1>1, <2>1, <2>3 DEF PagerInv
  <1>5. ASSUME NEW e \in Entries, ReviewHistory!CommitEntry(e)
        PROVE  PagerInv'
    <2>1. /\ ledger[e].at = "open" /\ ledger' = [ledger EXCEPT ![e] = [ledger[e] EXCEPT !.at = "there"]]
          /\ UNCHANGED <<hour, pager, promised>>
      BY <1>5 DEF ReviewHistory!CommitEntry
    <2>2. [ledger[e] EXCEPT !.at = "there"] \in EntryRows
      BY DEF EntryRows, PagerInv
    <2>3. /\ ledger' \in [Entries -> EntryRows]
          /\ \A f \in Entries : f # e => ledger'[f] = ledger[f]
          /\ ledger'[e].at = "there" /\ ledger'[e].time = ledger[e].time
      BY <2>1, <2>2 DEF PagerInv, EntryRows
    <2> QED BY <1>1, <2>1, <2>3 DEF PagerInv
  <1>6. ASSUME NEW e \in Entries, ReviewHistory!RemoveEntry(e)
        PROVE  PagerInv'
    <2>1. /\ ledger[e].at = "there" /\ ledger' = [ledger EXCEPT ![e] = [ledger[e] EXCEPT !.at = "gone"]]
          /\ promised' = promised \ {e} /\ UNCHANGED <<hour, pager>>
      BY <1>6 DEF ReviewHistory!RemoveEntry
    <2>2. [ledger[e] EXCEPT !.at = "gone"] \in EntryRows
      BY DEF EntryRows, PagerInv
    <2>3. /\ ledger' \in [Entries -> EntryRows]
          /\ \A f \in Entries : f # e => ledger'[f] = ledger[f]
          /\ ledger'[e].at = "gone" /\ ledger'[e].time = ledger[e].time
      BY <2>1, <2>2 DEF PagerInv, EntryRows
    <2> QED BY <1>1, <2>1, <2>3 DEF PagerInv
  <1>7. CASE ReviewHistory!Restart
    BY <1>7 DEF ReviewHistory!Restart, ReviewHistory!NoPages, ReviewHistory!Start, PagerInv,
            Elements, Sorted
  <1>8. CASE ReviewHistory!ReadPage
    BY <1>8, PageStays
  <1> QED BY <1>2, <1>3, <1>4, <1>5, <1>6, <1>7, <1>8 DEF ReviewHistory!Next, ReviewHistory!vars,
             ReviewHistory!Say, ReviewHistory!View, ReviewHistory!Close

LEMMA HistoryHolds == PagerInv => ReviewHistory!HistoryIsWhole
  BY DEF PagerInv, ReviewHistory!HistoryIsWhole, ReviewHistory!Seen, ReviewHistory!ToSet,
         Elements, Sorted
-----------------------------------------------------------------------------
(* Workspace: what the browser shows while answers come in any order.      *)

Places == Artifacts \cup {Nowhere}
Screens == [content : [of : Places, value : Files \cup {Nowhere}],
            comments : [of : Places, value : Nat],
            history : [of : Places, value : Seq(Nat)]]
Flights == [kind : {"none", "comment", "content", "comments", "history"}, artifact : Places,
            generation : Nat, sequence : Nat, arg : Nat \cup Files, reset : BOOLEAN, answer : Nat,
            at : {"free", "sent", "served", "refused"}]

WorkspaceTypes ==
    /\ active \in Places /\ generation \in Nat /\ asked \in Files \cup {Nowhere}
    /\ sequence \in [Workspace!Reads -> Nat]
    /\ loading \in [Workspace!Reads -> BOOLEAN] /\ errors \in [Workspace!Reads -> BOOLEAN]
    /\ screen \in Screens
    /\ flight \in [Slots -> Flights]
    /\ version \in [Artifacts -> Nat]

(* What is known of a request under way: only the last read of a resource  *)
(* is of what is shown.                                                    *)
Flies(q) ==
    /\ q.kind # "none" => q.artifact \in Artifacts
    /\ q.kind \in Workspace!Reads => q.sequence <= sequence[q.kind]
    /\ q.kind = "content" => q.arg \in Files /\ (Workspace!IsCurrent(q) => q.arg = asked)
    /\ q.kind = "history" =>
          /\ q.arg \in Nat /\ (q.at = "served" => q.answer = q.arg + 1)
          /\ Workspace!IsCurrent(q) => /\ q.arg = Len(screen.history.value)
                                       /\ q.reset => screen.history.value = <<>>
    /\ q.kind = "comments" /\ q.at = "served" =>
          /\ q.answer <= version[q.artifact]
          /\ Workspace!IsCurrent(q) => screen.comments.value <= q.answer
    /\ q.kind = "comment" => q.arg \in Nat /\ (q.at = "served" => q.answer <= version[q.artifact])

ScreenInv ==
    /\ Workspace!ShownWasAskedFor
    /\ Workspace!HistoryHasNoGaps
    /\ screen.comments.of = Nowhere => screen.comments.value = 0
    /\ screen.comments.of \in Artifacts => screen.comments.value <= version[screen.comments.of]

Apart == \A s, t \in Slots : s # t /\ flight[s].kind = flight[t].kind
             /\ flight[s].kind \in Workspace!Reads => flight[s].sequence # flight[t].sequence

WorkspaceInv == WorkspaceTypes /\ ScreenInv /\ (\A s \in Slots : Flies(flight[s])) /\ Apart

LEMMA LandedFlies ==
    /\ Workspace!Landed \in Flights /\ Workspace!Landed.kind = "none" /\ Flies(Workspace!Landed)
  BY DEF Workspace!Landed, Flights, Places, Flies, Workspace!Reads

LEMMA WorkspaceAtInit == Workspace!Init => WorkspaceInv
  <1> SUFFICES ASSUME Workspace!Init
               PROVE  WorkspaceInv
    OBVIOUS
  <1>1. loading \in [Workspace!Reads -> BOOLEAN] /\ errors \in [Workspace!Reads -> BOOLEAN]
    BY DEF Workspace!Init
  <1>2. /\ screen = [content |-> [of |-> Nowhere, value |-> Nowhere],
                     comments |-> [of |-> Nowhere, value |-> 0],
                     history |-> [of |-> Nowhere, value |-> <<>>]]
    BY DEF Workspace!Init, Workspace!NoScreen, Workspace!Nothing
  <1>3. screen \in Screens /\ ScreenInv
    <2>1. screen \in Screens
      BY <1>2 DEF Screens, Places
    <2>2. \A k \in Workspace!Reads : screen[k].of = Nowhere
      BY <1>2 DEF Workspace!Reads
    <2>3. /\ screen.content.value = Nowhere /\ asked = Nowhere /\ screen.comments.value = 0
          /\ screen.history.value = <<>>
      BY <1>2 DEF Workspace!Init
    <2>4. screen.comments.of = Nowhere /\ version = [a \in Artifacts |-> 1]
      BY <1>2 DEF Workspace!Init
    <2> QED BY <2>1, <2>2, <2>3, <2>4 DEF ScreenInv, Workspace!ShownWasAskedFor, Workspace!HistoryHasNoGaps
  <1>4. \A s \in Slots : flight[s] = Workspace!Landed
    BY DEF Workspace!Init
  <1>5. WorkspaceTypes
    <2>1. flight \in [Slots -> Flights]
      BY LandedFlies DEF Workspace!Init
    <2> QED BY <1>1, <1>3, <2>1 DEF Workspace!Init, WorkspaceTypes, Places
  <1> QED BY <1>3, <1>4, <1>5, LandedFlies DEF WorkspaceInv, Apart, Workspace!Reads

(* A request's slot is given another.                                      *)
LEMMA SlotUpdates ==
    ASSUME flight \in [Slots -> Flights], NEW s \in Slots, NEW q \in Flights,
           flight' = [flight EXCEPT ![s] = q]
    PROVE  /\ flight' \in [Slots -> Flights] /\ flight'[s] = q
           /\ \A t \in Slots \ {s} : flight'[t] = flight[t]
  OBVIOUS

LEMMA ScreenUpdates ==
    ASSUME screen \in Screens, NEW a \in Places
    PROVE  /\ \A f \in Files :
                LET n == [screen EXCEPT !.content = [of |-> a, value |-> f]] IN
                /\ n \in Screens /\ n.content.of = a /\ n.content.value = f
                /\ n.comments = screen.comments /\ n.history = screen.history
           /\ \A v \in Nat :
                LET n == [screen EXCEPT !.comments = [of |-> a, value |-> v]] IN
                /\ n \in Screens /\ n.comments.of = a /\ n.comments.value = v
                /\ n.content = screen.content /\ n.history = screen.history
           /\ \A h \in Seq(Nat) :
                LET n == [screen EXCEPT !.history = [of |-> a, value |-> h]] IN
                /\ n \in Screens /\ n.history.of = a /\ n.history.value = h
                /\ n.content = screen.content /\ n.comments = screen.comments
  <1>1. /\ screen.content \in [of : Places, value : Files \cup {Nowhere}]
        /\ screen.comments \in [of : Places, value : Nat]
        /\ screen.history \in [of : Places, value : Seq(Nat)]
    BY DEF Screens
  <1>2. ASSUME NEW f \in Files
        PROVE  LET n == [screen EXCEPT !.content = [of |-> a, value |-> f]] IN
               /\ n \in Screens /\ n.content.of = a /\ n.content.value = f
               /\ n.comments = screen.comments /\ n.history = screen.history
    BY <1>1 DEF Screens
  <1>3. ASSUME NEW v \in Nat
        PROVE  LET n == [screen EXCEPT !.comments = [of |-> a, value |-> v]] IN
               /\ n \in Screens /\ n.comments.of = a /\ n.comments.value = v
               /\ n.content = screen.content /\ n.history = screen.history
    BY <1>1 DEF Screens
  <1>4. ASSUME NEW h \in Seq(Nat)
        PROVE  LET n == [screen EXCEPT !.history = [of |-> a, value |-> h]] IN
               /\ n \in Screens /\ n.history.of = a /\ n.history.value = h
               /\ n.content = screen.content /\ n.comments = screen.comments
    BY <1>1 DEF Screens
  <1> QED BY <1>2, <1>3, <1>4

LEMMA FlagUpdates ==
    ASSUME NEW h \in [Workspace!Reads -> BOOLEAN], NEW k \in Workspace!Reads, NEW b \in BOOLEAN
    PROVE  /\ [h EXCEPT ![k] = b] \in [Workspace!Reads -> BOOLEAN] /\ [h EXCEPT ![k] = b][k] = b
           /\ \A l \in Workspace!Reads \ {k} : [h EXCEPT ![k] = b][l] = h[l]
  OBVIOUS

LEMMA ContentFlag ==
    ASSUME NEW h \in [Workspace!Reads -> BOOLEAN], NEW k \in Workspace!Reads, NEW b \in BOOLEAN
    PROVE  /\ [h EXCEPT ![k] = b] \in [Workspace!Reads -> BOOLEAN] /\ [h EXCEPT ![k] = b][k] = b
           /\ k # "content" => [h EXCEPT ![k] = b]["content"] = h["content"]
  <1>1. "content" \in Workspace!Reads
    BY DEF Workspace!Reads
  <1> QED BY <1>1, FlagUpdates

(* What flies stays so when nothing it depends on changes.                 *)
LEMMA FliesOn ==
    ASSUME NEW t \in Slots, flight'[t] = flight[t], Flies(flight[t]), WorkspaceTypes, WorkspaceTypes',
           \A k \in Workspace!Reads : sequence[k] <= sequence'[k],
           \A a \in Artifacts : version[a] <= version'[a],
           flight[t].kind \in Workspace!Reads /\ Workspace!IsCurrent(flight[t])' =>
               /\ Workspace!IsCurrent(flight[t])
               /\ flight[t].kind = "content" => asked' = asked
               /\ flight[t].kind = "history" => screen'.history = screen.history
               /\ flight[t].kind = "comments" => screen'.comments = screen.comments
    PROVE  Flies(flight[t])'
  <1>1. flight[t] \in Flights
    BY DEF WorkspaceTypes
  <1>2. flight[t].kind # "none" =>
            /\ version[flight[t].artifact] <= version'[flight[t].artifact]
            /\ version[flight[t].artifact] \in Nat /\ version'[flight[t].artifact] \in Nat
    BY DEF Flies, WorkspaceTypes
  <1>3. flight[t].kind \in Workspace!Reads =>
            /\ flight[t].sequence \in Nat /\ sequence[flight[t].kind] \in Nat
            /\ sequence'[flight[t].kind] \in Nat /\ sequence[flight[t].kind] <= sequence'[flight[t].kind]
    BY <1>1 DEF WorkspaceTypes, Flights
  <1>4. flight[t].answer \in Nat
    BY <1>1 DEF Flights
  <1>5. /\ flight[t].kind = "content" => flight[t].kind \in Workspace!Reads
        /\ flight[t].kind = "history" => flight[t].kind \in Workspace!Reads
        /\ flight[t].kind = "comments" => flight[t].kind \in Workspace!Reads
    BY DEF Workspace!Reads
  <1> QED BY <1>2, <1>3, <1>4, <1>5 DEF Flies

LEMMA FreeFlies ==
    ASSUME NEW s \in Slots, flight'[s] = Workspace!Landed
    PROVE  Flies(flight[s])'
  BY DEF Flies, Workspace!Landed, Workspace!Reads

(* An answer came in, or a request failed: its slot is free.               *)
LEMMA SlotIsFreed ==
    ASSUME WorkspaceInv, NEW s \in Slots, flight' = [flight EXCEPT ![s] = Workspace!Landed]
    PROVE  /\ flight' \in [Slots -> Flights] /\ flight'[s] = Workspace!Landed
           /\ \A t \in Slots \ {s} : flight'[t] = flight[t]
           /\ Flies(flight[s])' /\ Apart'
  <1>1. /\ flight' \in [Slots -> Flights] /\ flight'[s] = Workspace!Landed
        /\ \A t \in Slots \ {s} : flight'[t] = flight[t]
    BY LandedFlies, SlotUpdates DEF WorkspaceInv, WorkspaceTypes
  <1>2. Apart'
    BY <1>1 DEF WorkspaceInv, Apart, Workspace!Landed, Workspace!Reads
  <1> QED BY <1>1, <1>2, FreeFlies

(* Of two reads of a resource at most one is the last.                     *)
LEMMA OneIsLast ==
    ASSUME Apart, NEW s \in Slots, NEW t \in Slots, s # t, flight[s].kind \in Workspace!Reads,
           flight[t].kind = flight[s].kind, Workspace!IsCurrent(flight[s])
    PROVE  ~Workspace!IsCurrent(flight[t])
  BY DEF Apart, Workspace!IsCurrent

LEMMA MoveStays ==
    ASSUME WorkspaceInv, NEW a \in Artifacts, Workspace!Move(a)
    PROVE  WorkspaceInv' /\ Workspace!ListsGoForward
  <1>1. /\ active' = a /\ generation' = generation + 1 /\ asked' = Nowhere
        /\ sequence' = [k \in Workspace!Reads |-> sequence[k] + 1]
        /\ loading' = [k \in Workspace!Reads |-> FALSE] /\ errors' = loading'
        /\ screen' = [content |-> [of |-> Nowhere, value |-> Nowhere],
                      comments |-> [of |-> Nowhere, value |-> 0],
                      history |-> [of |-> Nowhere, value |-> <<>>]]
        /\ UNCHANGED <<flight, version>>
    BY DEF Workspace!Move, Workspace!NoScreen, Workspace!Nothing
  <1>2. WorkspaceTypes'
    <2>1. screen' \in Screens
      BY <1>1 DEF Screens, Places
    <2>2. loading' \in [Workspace!Reads -> BOOLEAN] /\ errors' \in [Workspace!Reads -> BOOLEAN]
      BY <1>1
    <2>3. sequence' \in [Workspace!Reads -> Nat]
      BY <1>1 DEF WorkspaceInv, WorkspaceTypes
    <2> QED BY <1>1, <2>1, <2>2, <2>3 DEF WorkspaceInv, WorkspaceTypes, Places
  <1>3. ScreenInv'
    <2>1. \A k \in Workspace!Reads : screen'[k].of = Nowhere
      BY <1>1 DEF Workspace!Reads
    <2>2. /\ screen'.content.value = Nowhere /\ screen'.comments.value = 0
          /\ screen'.history.value = <<>> /\ screen'.comments.of = Nowhere
      BY <1>1
    <2>3. version' \in [Artifacts -> Nat]
      BY <1>2 DEF WorkspaceTypes
    <2> QED BY <1>1, <2>1, <2>2, <2>3 DEF ScreenInv, Workspace!ShownWasAskedFor, Workspace!HistoryHasNoGaps
  <1>4. ASSUME NEW t \in Slots
        PROVE  Flies(flight[t])'
    <2>1. ASSUME flight[t].kind \in Workspace!Reads
          PROVE  ~Workspace!IsCurrent(flight[t])'
      <3>1. /\ flight[t].sequence <= sequence[flight[t].kind] /\ flight[t].sequence \in Nat
            /\ sequence[flight[t].kind] \in Nat
            /\ sequence'[flight[t].kind] = sequence[flight[t].kind] + 1
        BY <1>1, <2>1 DEF WorkspaceInv, WorkspaceTypes, Flies, Flights
      <3> QED BY <1>1, <3>1 DEF Workspace!IsCurrent
    <2>2. /\ \A k \in Workspace!Reads : sequence[k] <= sequence'[k]
          /\ \A b \in Artifacts : version[b] <= version'[b]
      BY <1>1 DEF WorkspaceInv, WorkspaceTypes
    <2>3. flight'[t] = flight[t] /\ Flies(flight[t]) /\ WorkspaceTypes
      BY <1>1 DEF WorkspaceInv
    <2> QED BY <1>2, <2>1, <2>2, <2>3, FliesOn
  <1>5. Apart'
    BY <1>1 DEF WorkspaceInv, Apart
  <1>6. Workspace!ListsGoForward
    BY <1>1 DEF Workspace!ListsGoForward, WorkspaceInv, WorkspaceTypes
  <1> QED BY <1>2, <1>3, <1>4, <1>5, <1>6 DEF WorkspaceInv

(* What a new read does: it supersedes those of its resource.              *)
Begun(s, k, arg, reset) ==
    /\ sequence' \in [Workspace!Reads -> Nat] /\ sequence'[k] = sequence[k] + 1
    /\ \A l \in Workspace!Reads : sequence[l] <= sequence'[l]
    /\ loading' \in [Workspace!Reads -> BOOLEAN] /\ loading'[k] = TRUE
    /\ errors' \in [Workspace!Reads -> BOOLEAN]
    /\ k # "content" => /\ loading'["content"] = loading["content"]
                        /\ errors'["content"] = errors["content"]
    /\ flight' \in [Slots -> Flights] /\ Apart' /\ active \in Artifacts
    /\ flight'[s].kind = k /\ flight'[s].artifact = active /\ flight'[s].at = "sent"
    /\ flight'[s].sequence = sequence[k] + 1 /\ flight'[s].arg = arg /\ flight'[s].reset = reset
    /\ \A t \in Slots \ {s} : flight'[t] = flight[t]
    /\ \A t \in Slots \ {s} : flight[t].kind \in Workspace!Reads /\ Workspace!IsCurrent(flight[t])'
           => Workspace!IsCurrent(flight[t]) /\ flight[t].kind # k

LEMMA ReadBegins ==
    ASSUME WorkspaceInv, NEW s \in Slots, NEW k \in Workspace!Reads, NEW arg \in Nat \cup Files,
           NEW reset \in BOOLEAN, Workspace!Begin(s, k, arg, reset), UNCHANGED <<active, generation>>
    PROVE  Begun(s, k, arg, reset)
  <1> DEFINE q == [kind |-> k, artifact |-> active, generation |-> generation,
                   sequence |-> sequence[k] + 1, arg |-> arg, reset |-> reset,
                   answer |-> 0, at |-> "sent"]
  <1>1. /\ active \in Artifacts
        /\ sequence' = [sequence EXCEPT ![k] = sequence[k] + 1]
        /\ loading' = [loading EXCEPT ![k] = TRUE] /\ errors' = [errors EXCEPT ![k] = FALSE]
        /\ flight' = [flight EXCEPT ![s] = q]
    BY DEF Workspace!Begin, WorkspaceInv, WorkspaceTypes, Places
  <1>2. /\ sequence \in [Workspace!Reads -> Nat] /\ loading \in [Workspace!Reads -> BOOLEAN]
        /\ errors \in [Workspace!Reads -> BOOLEAN] /\ flight \in [Slots -> Flights]
        /\ active \in Places /\ generation \in Nat
    BY DEF WorkspaceInv, WorkspaceTypes
  <1>3. /\ sequence' \in [Workspace!Reads -> Nat] /\ sequence'[k] = sequence[k] + 1
        /\ \A l \in Workspace!Reads : sequence[l] <= sequence'[l]
        /\ \A l \in Workspace!Reads \ {k} : sequence'[l] = sequence[l]
    BY <1>1, <1>2
  <1>4. q \in Flights
    BY <1>2 DEF Flights, Workspace!Reads
  <1>5. /\ q.kind = k /\ q.artifact = active /\ q.sequence = sequence[k] + 1 /\ q.arg = arg
        /\ q.at = "sent" /\ q.reset = reset
    OBVIOUS
  <1> HIDE DEF q
  <1>6. /\ flight' \in [Slots -> Flights] /\ flight'[s] = q
        /\ \A t \in Slots \ {s} : flight'[t] = flight[t]
    BY <1>1, <1>2, <1>4, SlotUpdates
  <1>7. ASSUME NEW t \in Slots \ {s}, flight[t].kind \in Workspace!Reads
        PROVE  /\ flight[t].sequence <= sequence[flight[t].kind] /\ flight[t].sequence \in Nat
               /\ sequence[flight[t].kind] \in Nat
    BY <1>2, <1>7 DEF WorkspaceInv, Flies, Flights
  <1>8. ASSUME NEW t \in Slots \ {s}, flight[t].kind \in Workspace!Reads,
               Workspace!IsCurrent(flight[t])'
        PROVE  Workspace!IsCurrent(flight[t]) /\ flight[t].kind # k
    BY <1>3, <1>6, <1>7, <1>8 DEF Workspace!IsCurrent
  <1>9. Apart'
    <2>1. \A t \in Slots \ {s} : flight[t].kind = k => flight[t].sequence # q.sequence
      BY <1>2, <1>5, <1>7
    <2> QED BY <1>5, <1>6, <2>1 DEF WorkspaceInv, Apart
  <1>10. /\ loading' \in [Workspace!Reads -> BOOLEAN] /\ loading'[k] = TRUE
         /\ errors' \in [Workspace!Reads -> BOOLEAN]
         /\ k # "content" => /\ loading'["content"] = loading["content"]
                             /\ errors'["content"] = errors["content"]
    <2>1. FALSE \in BOOLEAN /\ TRUE \in BOOLEAN
      OBVIOUS
    <2> QED BY <1>1, <1>2, <2>1, ContentFlag
  <1> QED BY <1>1, <1>3, <1>5, <1>6, <1>8, <1>9, <1>10 DEF Begun

LEMMA ReadSuperseded ==
    ASSUME WorkspaceInv, NEW k \in Workspace!Reads, Workspace!Superseded(k),
           UNCHANGED <<active, generation>>
    PROVE  /\ sequence' \in [Workspace!Reads -> Nat]
           /\ \A l \in Workspace!Reads : sequence[l] <= sequence'[l]
           /\ loading' \in [Workspace!Reads -> BOOLEAN] /\ errors' \in [Workspace!Reads -> BOOLEAN]
           /\ k # "content" => /\ loading'["content"] = loading["content"]
                               /\ errors'["content"] = errors["content"]
           /\ \A t \in Slots : /\ flight'[t] = flight[t] /\ flight[t].kind \in Workspace!Reads
                               /\ Workspace!IsCurrent(flight[t])'
                  => Workspace!IsCurrent(flight[t]) /\ flight[t].kind # k
  <1>1. /\ sequence' = [sequence EXCEPT ![k] = sequence[k] + 1]
        /\ loading' = [loading EXCEPT ![k] = FALSE] /\ errors' = [errors EXCEPT ![k] = FALSE]
    BY DEF Workspace!Superseded
  <1>2. /\ sequence \in [Workspace!Reads -> Nat] /\ loading \in [Workspace!Reads -> BOOLEAN]
        /\ errors \in [Workspace!Reads -> BOOLEAN] /\ flight \in [Slots -> Flights]
    BY DEF WorkspaceInv, WorkspaceTypes
  <1>3. /\ sequence' \in [Workspace!Reads -> Nat] /\ sequence'[k] = sequence[k] + 1
        /\ \A l \in Workspace!Reads : sequence[l] <= sequence'[l]
        /\ \A l \in Workspace!Reads \ {k} : sequence'[l] = sequence[l]
    BY <1>1, <1>2
  <1>4. ASSUME NEW t \in Slots, flight[t].kind \in Workspace!Reads
        PROVE  /\ flight[t].sequence <= sequence[flight[t].kind] /\ flight[t].sequence \in Nat
               /\ sequence[flight[t].kind] \in Nat
    BY <1>2, <1>4 DEF WorkspaceInv, Flies, Flights
  <1>5. ASSUME NEW t \in Slots, flight'[t] = flight[t], flight[t].kind \in Workspace!Reads,
               Workspace!IsCurrent(flight[t])'
        PROVE  Workspace!IsCurrent(flight[t]) /\ flight[t].kind # k
    BY <1>3, <1>4, <1>5 DEF Workspace!IsCurrent
  <1>6. /\ loading' \in [Workspace!Reads -> BOOLEAN] /\ errors' \in [Workspace!Reads -> BOOLEAN]
        /\ k # "content" => /\ loading'["content"] = loading["content"]
                            /\ errors'["content"] = errors["content"]
    <2>1. FALSE \in BOOLEAN /\ TRUE \in BOOLEAN
      OBVIOUS
    <2> QED BY <1>1, <1>2, <2>1, ContentFlag
  <1> QED BY <1>3, <1>5, <1>6

LEMMA LoadContentStays ==
    ASSUME WorkspaceInv, NEW s \in Slots, NEW f \in Files, Workspace!LoadContent(s, f)
    PROVE  WorkspaceInv' /\ Workspace!ListsGoForward
  <1>0. /\ WorkspaceTypes /\ ScreenInv /\ Apart /\ \A t \in Slots : Flies(flight[t])
        /\ "content" \in Workspace!Reads
    BY DEF WorkspaceInv, Workspace!Reads
  <1>1. asked' = f /\ UNCHANGED <<active, generation, version>>
    BY Zenon DEF Workspace!LoadContent
  <1>2. \/ /\ Workspace!Superseded("content") /\ UNCHANGED flight
           /\ screen' = [screen EXCEPT !.content = [of |-> active, value |-> f]]
        \/ Workspace!Begin(s, "content", f, FALSE) /\ UNCHANGED screen
    BY Zenon DEF Workspace!LoadContent
  <1>3. \A a \in Artifacts : version[a] <= version'[a]
    BY <1>0, <1>1 DEF WorkspaceTypes
  <1>4. CASE /\ Workspace!Superseded("content") /\ UNCHANGED flight
             /\ screen' = [screen EXCEPT !.content = [of |-> active, value |-> f]]
    <2>1. /\ sequence' \in [Workspace!Reads -> Nat]
          /\ \A l \in Workspace!Reads : sequence[l] <= sequence'[l]
          /\ loading' \in [Workspace!Reads -> BOOLEAN] /\ errors' \in [Workspace!Reads -> BOOLEAN]
          /\ \A t \in Slots : /\ flight'[t] = flight[t] /\ flight[t].kind \in Workspace!Reads
                              /\ Workspace!IsCurrent(flight[t])'
                 => Workspace!IsCurrent(flight[t]) /\ flight[t].kind # "content"
      BY <1>0, <1>1, <1>4, ReadSuperseded
    <2>2. /\ screen' \in Screens /\ screen'.content.of = active /\ screen'.content.value = f
          /\ screen'.comments = screen.comments /\ screen'.history = screen.history
      BY <1>0, <1>4, ScreenUpdates DEF WorkspaceTypes
    <2>3. WorkspaceTypes'
      BY <1>0, <1>1, <1>4, <2>1, <2>2 DEF WorkspaceTypes
    <2>4. ASSUME NEW t \in Slots
          PROVE  Flies(flight[t])'
      BY <1>0, <1>1, <1>3, <1>4, <2>1, <2>2, <2>3, FliesOn
    <2>5. \A k \in Workspace!Reads : screen'[k].of \in {active', Nowhere}
      BY <1>0, <1>1, <2>2 DEF ScreenInv, Workspace!ShownWasAskedFor, Workspace!Reads
    <2>6. ScreenInv'
      BY <1>0, <1>1, <2>2, <2>5 DEF ScreenInv, Workspace!ShownWasAskedFor, Workspace!HistoryHasNoGaps
    <2>7. Workspace!ListsGoForward
      BY <1>0, <2>2 DEF Workspace!ListsGoForward, WorkspaceTypes, Screens
    <2> QED BY <1>0, <1>4, <2>3, <2>4, <2>6, <2>7 DEF WorkspaceInv, Apart
  <1>5. CASE Workspace!Begin(s, "content", f, FALSE) /\ UNCHANGED screen
    <2>1. /\ sequence' \in [Workspace!Reads -> Nat] /\ sequence'["content"] = sequence["content"] + 1
          /\ \A l \in Workspace!Reads : sequence[l] <= sequence'[l]
          /\ loading' \in [Workspace!Reads -> BOOLEAN] /\ loading'["content"] = TRUE
          /\ errors' \in [Workspace!Reads -> BOOLEAN]
          /\ flight' \in [Slots -> Flights] /\ Apart' /\ active \in Artifacts
          /\ flight'[s].kind = "content" /\ flight'[s].artifact = active /\ flight'[s].at = "sent"
          /\ flight'[s].sequence = sequence["content"] + 1 /\ flight'[s].arg = f
          /\ \A t \in Slots \ {s} : flight'[t] = flight[t]
          /\ \A t \in Slots \ {s} : flight[t].kind \in Workspace!Reads /\ Workspace!IsCurrent(flight[t])'
                 => Workspace!IsCurrent(flight[t]) /\ flight[t].kind # "content"
      <3>1. f \in Nat \cup Files /\ FALSE \in BOOLEAN
        OBVIOUS
      <3>2. Begun(s, "content", f, FALSE)
        BY <1>0, <1>1, <1>5, <3>1, ReadBegins
      <3> QED BY <3>2 DEF Begun
    <2>2. WorkspaceTypes'
      BY <1>0, <1>1, <1>5, <2>1 DEF WorkspaceTypes
    <2>3. ASSUME NEW t \in Slots \ {s}
          PROVE  Flies(flight[t])'
      BY <1>0, <1>1, <1>3, <1>5, <2>1, <2>2, FliesOn
    <2>4. Flies(flight[s])'
      <3>1. sequence["content"] \in Nat
        BY <1>0 DEF WorkspaceTypes
      <3> QED BY <1>0, <1>1, <2>1, <3>1 DEF Flies
    <2>5. ScreenInv'
      BY <1>0, <1>1, <1>5, <2>1 DEF ScreenInv, Workspace!ShownWasAskedFor, Workspace!HistoryHasNoGaps
    <2>6. Workspace!ListsGoForward
      BY <1>0, <1>5 DEF Workspace!ListsGoForward, WorkspaceTypes, Screens
    <2> QED BY <2>1, <2>2, <2>3, <2>4, <2>5, <2>6 DEF WorkspaceInv
  <1> QED BY <1>2, <1>4, <1>5

LEMMA LoadCommentsStays ==
    ASSUME WorkspaceInv, NEW s \in Slots, Workspace!LoadComments(s)
    PROVE  WorkspaceInv' /\ Workspace!ListsGoForward
  <1>0. /\ WorkspaceTypes /\ ScreenInv /\ Apart /\ \A t \in Slots : Flies(flight[t])
        /\ "comments" \in Workspace!Reads
    BY DEF WorkspaceInv, Workspace!Reads
  <1>1. /\ Workspace!Begin(s, "comments", 0, FALSE)
        /\ UNCHANGED <<active, generation, version, screen, asked>>
    BY DEF Workspace!LoadComments
  <1>2. /\ sequence' \in [Workspace!Reads -> Nat] /\ sequence'["comments"] = sequence["comments"] + 1
        /\ \A l \in Workspace!Reads : sequence[l] <= sequence'[l]
        /\ loading' \in [Workspace!Reads -> BOOLEAN] /\ errors' \in [Workspace!Reads -> BOOLEAN]
        /\ loading'["content"] = loading["content"] /\ errors'["content"] = errors["content"]
        /\ flight' \in [Slots -> Flights] /\ Apart' /\ active \in Artifacts
        /\ flight'[s].kind = "comments" /\ flight'[s].artifact = active /\ flight'[s].at = "sent"
        /\ flight'[s].sequence = sequence["comments"] + 1 /\ flight'[s].arg = 0
        /\ \A t \in Slots \ {s} : flight'[t] = flight[t]
        /\ \A t \in Slots \ {s} : flight[t].kind \in Workspace!Reads /\ Workspace!IsCurrent(flight[t])'
               => Workspace!IsCurrent(flight[t])
    <2>1. 0 \in Nat \cup Files /\ FALSE \in BOOLEAN /\ "comments" # "content"
      OBVIOUS
    <2>2. Begun(s, "comments", 0, FALSE)
      BY <1>0, <1>1, <2>1, ReadBegins
    <2> QED BY <2>1, <2>2 DEF Begun
  <1>3. WorkspaceTypes'
    BY <1>0, <1>1, <1>2 DEF WorkspaceTypes
  <1>4. \A a \in Artifacts : version[a] <= version'[a]
    BY <1>0, <1>1 DEF WorkspaceTypes
  <1>5. ASSUME NEW t \in Slots \ {s}
        PROVE  Flies(flight[t])'
    BY <1>0, <1>1, <1>2, <1>3, <1>4, FliesOn
  <1>6. Flies(flight[s])'
    <2>1. sequence["comments"] \in Nat
      BY <1>0 DEF WorkspaceTypes
    <2> QED BY <1>0, <1>1, <1>2, <2>1 DEF Flies
  <1>7. ScreenInv'
    BY <1>0, <1>1, <1>2 DEF ScreenInv, Workspace!ShownWasAskedFor, Workspace!HistoryHasNoGaps
  <1>8. Workspace!ListsGoForward
    BY <1>0, <1>1 DEF Workspace!ListsGoForward, WorkspaceTypes, Screens
  <1> QED BY <1>2, <1>3, <1>5, <1>6, <1>7, <1>8 DEF WorkspaceInv

(* The next page follows the last one that is shown.                       *)
LEMMA LoadHistoryStays ==
    ASSUME WorkspaceInv, NEW s \in Slots, NEW reset \in BOOLEAN, Workspace!LoadHistory(s, reset)
    PROVE  WorkspaceInv' /\ Workspace!ListsGoForward
  <1>0. /\ WorkspaceTypes /\ ScreenInv /\ Apart /\ \A t \in Slots : Flies(flight[t])
        /\ "history" \in Workspace!Reads
    BY DEF WorkspaceInv, Workspace!Reads
  <1> DEFINE shown == screen.history.value
             arg == IF reset \/ shown = <<>> THEN 0 ELSE Workspace!Last(shown)
  <1>1. /\ Workspace!Begin(s, "history", arg, reset)
        /\ UNCHANGED <<active, generation, version, asked>>
        /\ screen' = IF reset THEN [screen EXCEPT !.history = [of |-> Nowhere, value |-> <<>>]]
                     ELSE screen
    BY DEF Workspace!LoadHistory, Workspace!NoScreen
  <1>2. /\ shown \in Seq(Nat) /\ \A i \in 1..Len(shown) : shown[i] = i
    BY <1>0 DEF WorkspaceTypes, Screens, ScreenInv, Workspace!HistoryHasNoGaps
  <1>3. arg \in Nat /\ (~reset => arg = Len(shown)) /\ (reset => arg = 0)
    BY <1>2 DEF Workspace!Last
  <1>4. /\ screen' \in Screens /\ screen'.content = screen.content
        /\ screen'.comments = screen.comments
        /\ arg = Len(screen'.history.value) /\ (reset => screen'.history.value = <<>>)
        /\ screen'.history.of \in {screen.history.of, Nowhere}
        /\ \A i \in 1..Len(screen'.history.value) : screen'.history.value[i] = i
    <2>1. CASE reset
      <3>1. <<>> \in Seq(Nat) /\ Nowhere \in Places /\ screen \in Screens
        BY <1>0 DEF Places, WorkspaceTypes
      <3>2. screen' = [screen EXCEPT !.history = [of |-> Nowhere, value |-> <<>>]]
        BY <1>1, <2>1
      <3>3. /\ screen' \in Screens /\ screen'.history.of = Nowhere /\ screen'.history.value = <<>>
            /\ screen'.content = screen.content /\ screen'.comments = screen.comments
        BY <3>1, <3>2, ScreenUpdates
      <3> QED BY <1>3, <2>1, <3>3
    <2>2. CASE ~reset
      BY <1>0, <1>1, <1>2, <1>3, <2>2 DEF WorkspaceTypes
    <2> QED BY <2>1, <2>2
  <1> HIDE DEF arg
  <1>5. /\ sequence' \in [Workspace!Reads -> Nat] /\ sequence'["history"] = sequence["history"] + 1
        /\ \A l \in Workspace!Reads : sequence[l] <= sequence'[l]
        /\ loading' \in [Workspace!Reads -> BOOLEAN] /\ errors' \in [Workspace!Reads -> BOOLEAN]
        /\ loading'["content"] = loading["content"] /\ errors'["content"] = errors["content"]
        /\ flight' \in [Slots -> Flights] /\ Apart' /\ active \in Artifacts
        /\ flight'[s].kind = "history" /\ flight'[s].artifact = active /\ flight'[s].at = "sent"
        /\ flight'[s].sequence = sequence["history"] + 1 /\ flight'[s].arg = arg /\ flight'[s].reset = reset
        /\ \A t \in Slots \ {s} : flight'[t] = flight[t]
        /\ \A t \in Slots \ {s} : flight[t].kind \in Workspace!Reads /\ Workspace!IsCurrent(flight[t])'
               => Workspace!IsCurrent(flight[t]) /\ flight[t].kind # "history"
    <2>1. arg \in Nat \cup Files /\ "history" # "content"
      BY <1>3
    <2>2. Begun(s, "history", arg, reset)
      BY <1>0, <1>1, <2>1, ReadBegins
    <2> QED BY <2>1, <2>2 DEF Begun
  <1>6. WorkspaceTypes'
    BY <1>0, <1>1, <1>4, <1>5 DEF WorkspaceTypes
  <1>7. \A a \in Artifacts : version[a] <= version'[a]
    BY <1>0, <1>1 DEF WorkspaceTypes
  <1>8. ASSUME NEW t \in Slots \ {s}
        PROVE  Flies(flight[t])'
    BY <1>0, <1>1, <1>4, <1>5, <1>6, <1>7, FliesOn
  <1>9. Flies(flight[s])'
    <2>1. sequence["history"] \in Nat
      BY <1>0 DEF WorkspaceTypes
    <2> QED BY <1>0, <1>1, <1>3, <1>4, <1>5, <2>1 DEF Flies
  <1>10. ScreenInv'
    <2>1. \A k \in Workspace!Reads : screen'[k].of \in {active', Nowhere}
      BY <1>0, <1>1, <1>4 DEF ScreenInv, Workspace!ShownWasAskedFor, Workspace!Reads
    <2> QED BY <1>0, <1>1, <1>4, <1>5, <2>1 DEF ScreenInv, Workspace!ShownWasAskedFor, Workspace!HistoryHasNoGaps
  <1>11. Workspace!ListsGoForward
    BY <1>0, <1>4 DEF Workspace!ListsGoForward, WorkspaceTypes, Screens
  <1> QED BY <1>5, <1>6, <1>8, <1>9, <1>10, <1>11 DEF WorkspaceInv

LEMMA CommentStays ==
    ASSUME Nowhere \notin Artifacts, WorkspaceInv, NEW s \in Slots, Workspace!Comment(s)
    PROVE  WorkspaceInv' /\ Workspace!ListsGoForward
  <1>0. /\ WorkspaceTypes /\ ScreenInv /\ Apart /\ \A t \in Slots : Flies(flight[t])
    BY DEF WorkspaceInv
  <1> DEFINE q == [Workspace!Landed EXCEPT !.kind = "comment", !.artifact = active,
                       !.generation = generation, !.arg = screen.comments.value, !.at = "sent"]
  <1>1. /\ screen.comments.of # Nowhere /\ flight' = [flight EXCEPT ![s] = q]
        /\ UNCHANGED <<active, generation, sequence, loading, errors, screen, asked, version>>
    BY DEF Workspace!Comment
  <1>2. q \in Flights
    <2>1. active \in Places /\ generation \in Nat /\ screen.comments.value \in Nat
      BY <1>0 DEF WorkspaceTypes, Screens
    <2> QED BY <2>1, LandedFlies DEF Flights
  <1>3. q.kind = "comment" /\ q.artifact = active /\ q.arg = screen.comments.value /\ q.at = "sent"
    BY DEF Workspace!Landed
  <1> HIDE DEF q
  <1>4. /\ flight' \in [Slots -> Flights] /\ flight'[s] = q
        /\ \A t \in Slots \ {s} : flight'[t] = flight[t]
    BY <1>0, <1>1, <1>2, SlotUpdates DEF WorkspaceTypes
  <1>5. WorkspaceTypes'
    BY <1>0, <1>1, <1>4 DEF WorkspaceTypes
  <1>6. /\ \A k \in Workspace!Reads : sequence[k] <= sequence'[k]
        /\ \A a \in Artifacts : version[a] <= version'[a]
    BY <1>0, <1>1 DEF WorkspaceTypes
  <1>7. ASSUME NEW t \in Slots \ {s}
        PROVE  Flies(flight[t])'
    <2>1. Workspace!IsCurrent(flight[t])' <=> Workspace!IsCurrent(flight[t])
      BY <1>1, <1>4 DEF Workspace!IsCurrent
    <2> QED BY <1>0, <1>1, <1>4, <1>5, <1>6, <2>1, FliesOn
  <1>8. Flies(flight[s])'
    <2>1. active \in Artifacts /\ screen.comments.value \in Nat
      BY <1>0, <1>1 DEF ScreenInv, Workspace!ShownWasAskedFor, Workspace!Reads, WorkspaceTypes,
                        Places, Screens
    <2> QED BY <1>1, <1>3, <1>4, <2>1 DEF Flies, Workspace!Reads
  <1>9. Apart'
    BY <1>0, <1>3, <1>4 DEF Apart, Workspace!Reads
  <1>10. ScreenInv'
    BY <1>0, <1>1 DEF ScreenInv, Workspace!ShownWasAskedFor, Workspace!HistoryHasNoGaps
  <1>11. Workspace!ListsGoForward
    BY <1>0, <1>1 DEF Workspace!ListsGoForward, WorkspaceTypes, Screens
  <1> QED BY <1>5, <1>7, <1>8, <1>9, <1>10, <1>11 DEF WorkspaceInv

LEMMA OthersStays ==
    ASSUME WorkspaceInv, NEW a \in Artifacts, Workspace!Others(a)
    PROVE  WorkspaceInv' /\ Workspace!ListsGoForward
  <1>0. /\ WorkspaceTypes /\ ScreenInv /\ Apart /\ \A t \in Slots : Flies(flight[t])
    BY DEF WorkspaceInv
  <1>1. /\ version' = [version EXCEPT ![a] = version[a] + 1]
        /\ UNCHANGED <<active, generation, sequence, loading, errors, screen, asked, flight>>
    BY DEF Workspace!Others
  <1>2. version' \in [Artifacts -> Nat] /\ \A b \in Artifacts : version[b] <= version'[b]
    BY <1>0, <1>1 DEF WorkspaceTypes
  <1>3. WorkspaceTypes'
    BY <1>0, <1>1, <1>2 DEF WorkspaceTypes
  <1>4. \A k \in Workspace!Reads : sequence[k] <= sequence'[k]
    BY <1>0, <1>1 DEF WorkspaceTypes
  <1>5. ASSUME NEW t \in Slots
        PROVE  Flies(flight[t])'
    <2>1. Workspace!IsCurrent(flight[t])' <=> Workspace!IsCurrent(flight[t])
      BY <1>1 DEF Workspace!IsCurrent
    <2> QED BY <1>0, <1>1, <1>2, <1>3, <1>4, <2>1, FliesOn
  <1>6. ScreenInv'
    <2>1. screen.comments.value \in Nat /\ version \in [Artifacts -> Nat]
      BY <1>0 DEF WorkspaceTypes, Screens
    <2> QED BY <1>0, <1>1, <1>2, <2>1 DEF ScreenInv, Workspace!ShownWasAskedFor, Workspace!HistoryHasNoGaps
  <1>7. Workspace!ListsGoForward
    BY <1>0, <1>1 DEF Workspace!ListsGoForward, WorkspaceTypes, Screens
  <1> QED BY <1>0, <1>1, <1>3, <1>5, <1>6, <1>7 DEF WorkspaceInv, Apart

(* The server answers what is there, or takes a comment that expected it.  *)
LEMMA ServeStays ==
    ASSUME WorkspaceInv, NEW s \in Slots, Workspace!Serve(s)
    PROVE  WorkspaceInv' /\ Workspace!ListsGoForward
  <1>0. /\ WorkspaceTypes /\ ScreenInv /\ Apart /\ \A t \in Slots : Flies(flight[t])
    BY DEF WorkspaceInv
  <1> DEFINE q == flight[s]
  <1>1. /\ q \in Flights /\ q.at = "sent" /\ Flies(q)
        /\ UNCHANGED <<active, generation, sequence, loading, errors, screen, asked>>
    BY <1>0 DEF Workspace!Serve, WorkspaceTypes
  <1> DEFINE Answers(at, answer) ==
            /\ flight' = [flight EXCEPT ![s] = [q EXCEPT !.at = at, !.answer = answer]]
            /\ version' \in [Artifacts -> Nat] /\ \A a \in Artifacts : version[a] <= version'[a]
            /\ q.kind = "history" => answer = q.arg + 1
            /\ q.kind = "comments" => answer = version[q.artifact] /\ q.artifact \in Artifacts
            /\ q.kind = "comment" /\ at = "served" => answer <= version'[q.artifact]
  <1>2. PICK at \in {"served", "refused"}, answer \in Nat : Answers(at, answer)
    <2>1. CASE q.kind = "comment" /\ version[q.artifact] = q.arg
      <3>1. /\ version' = [version EXCEPT ![q.artifact] = version[q.artifact] + 1]
            /\ flight' = [flight EXCEPT ![s] = [q EXCEPT !.at = "served", !.answer = q.arg + 1]]
        BY <2>1 DEF Workspace!Serve
      <3>2. q.artifact \in Artifacts /\ version[q.artifact] \in Nat
        BY <1>0, <2>1 DEF Flies, WorkspaceTypes
      <3>3. /\ version' \in [Artifacts -> Nat] /\ version'[q.artifact] = q.arg + 1
            /\ \A a \in Artifacts : version[a] <= version'[a]
        BY <1>0, <2>1, <3>1, <3>2 DEF WorkspaceTypes
      <3>4. q.arg + 1 \in Nat
        BY <2>1, <3>2
      <3>5. Answers("served", q.arg + 1)
        BY <2>1, <3>1, <3>3, <3>4
      <3> HIDE DEF Answers
      <3> QED BY <3>4, <3>5
    <2>2. CASE ~(q.kind = "comment" /\ version[q.artifact] = q.arg)
      <3> DEFINE at == IF q.kind = "comment" THEN "refused" ELSE "served"
                 answer == IF q.kind = "history" THEN q.arg + 1
                           ELSE IF q.kind = "comments" THEN version[q.artifact] ELSE 0
      <3>1. /\ flight' = [flight EXCEPT ![s] = [q EXCEPT !.at = at, !.answer = answer]]
            /\ UNCHANGED version
        BY <2>2 DEF Workspace!Serve
      <3>2. answer \in Nat /\ (q.kind = "comments" => q.artifact \in Artifacts)
        BY <1>0, <1>1 DEF Flies, WorkspaceTypes
      <3>3. /\ version' \in [Artifacts -> Nat] /\ \A a \in Artifacts : version[a] <= version'[a]
        BY <1>0, <3>1 DEF WorkspaceTypes
      <3>4. /\ at \in {"served", "refused"} /\ (q.kind = "comment" => at = "refused")
            /\ q.kind = "history" => answer = q.arg + 1
            /\ q.kind = "comments" => answer = version[q.artifact]
        OBVIOUS
      <3> HIDE DEF at, answer
      <3>5. Answers(at, answer)
        BY <3>1, <3>2, <3>3, <3>4
      <3> HIDE DEF Answers
      <3> QED BY <3>2, <3>4, <3>5
    <2> QED BY <2>1, <2>2
  <1> DEFINE n == [q EXCEPT !.at = at, !.answer = answer]
  <1>3. /\ n \in Flights /\ n.at = at /\ n.answer = answer /\ n.kind = q.kind
        /\ n.artifact = q.artifact /\ n.generation = q.generation /\ n.sequence = q.sequence
        /\ n.arg = q.arg /\ n.reset = q.reset
    BY <1>1, <1>2 DEF Flights
  <1> HIDE DEF n
  <1>4. /\ flight' \in [Slots -> Flights] /\ flight'[s] = n
        /\ \A t \in Slots \ {s} : flight'[t] = flight[t]
    <2>1. flight' = [flight EXCEPT ![s] = n] /\ flight \in [Slots -> Flights]
      BY <1>0, <1>2 DEF n, WorkspaceTypes
    <2> QED BY <1>3, <2>1, SlotUpdates
  <1>5. WorkspaceTypes'
    BY <1>0, <1>1, <1>2, <1>4 DEF WorkspaceTypes
  <1>6. \A k \in Workspace!Reads : sequence[k] <= sequence'[k]
    BY <1>0, <1>1 DEF WorkspaceTypes
  <1>7. ASSUME NEW t \in Slots \ {s}
        PROVE  Flies(flight[t])'
    <2>1. Workspace!IsCurrent(flight[t])' <=> Workspace!IsCurrent(flight[t])
      BY <1>1, <1>4 DEF Workspace!IsCurrent
    <2> QED BY <1>0, <1>1, <1>2, <1>4, <1>5, <1>6, <2>1, FliesOn
  <1>8. Flies(flight[s])'
    <2>1. Workspace!IsCurrent(flight[s])' <=> Workspace!IsCurrent(q)
      BY <1>1, <1>3, <1>4 DEF Workspace!IsCurrent
    <2>2. q.kind = "comments" =>
              /\ answer <= version'[q.artifact]
              /\ Workspace!IsCurrent(q) => screen.comments.value <= answer
      <3>1. SUFFICES ASSUME q.kind = "comments"
                     PROVE  /\ answer <= version'[q.artifact]
                            /\ Workspace!IsCurrent(q) => screen.comments.value <= answer
        OBVIOUS
      <3>2. q.artifact \in Artifacts /\ answer = version[q.artifact]
        BY <1>2, <3>1
      <3>3. Workspace!IsCurrent(q) => screen.comments.of \in {q.artifact, Nowhere}
        BY <1>0 DEF Workspace!IsCurrent, ScreenInv, Workspace!ShownWasAskedFor, Workspace!Reads
      <3>4. version[q.artifact] \in Nat /\ screen.comments.value \in Nat
        BY <1>0, <3>2 DEF WorkspaceTypes, Screens
      <3> QED BY <1>0, <1>2, <3>2, <3>3, <3>4 DEF ScreenInv
    <2> HIDE DEF q
    <2>3. /\ flight'[s].kind = q.kind /\ flight'[s].artifact = q.artifact /\ flight'[s].at = at
          /\ flight'[s].sequence = q.sequence /\ flight'[s].arg = q.arg
          /\ flight'[s].reset = q.reset /\ flight'[s].answer = answer
      BY <1>3, <1>4
    <2> QED BY <1>1, <1>2, <2>1, <2>2, <2>3 DEF Flies
  <1>9. Apart'
    BY <1>0, <1>3, <1>4 DEF Apart
  <1>10. ScreenInv'
    <2>1. screen.comments.value \in Nat /\ version \in [Artifacts -> Nat]
      BY <1>0 DEF WorkspaceTypes, Screens
    <2> QED BY <1>0, <1>1, <1>2, <2>1 DEF ScreenInv, Workspace!ShownWasAskedFor, Workspace!HistoryHasNoGaps
  <1>11. Workspace!ListsGoForward
    BY <1>0, <1>1 DEF Workspace!ListsGoForward, WorkspaceTypes, Screens
  <1> QED BY <1>5, <1>7, <1>8, <1>9, <1>10, <1>11 DEF WorkspaceInv

(* The last read is shown, and none that was begun before it any more.     *)
LEMMA ReadArrivesStays ==
    ASSUME Nowhere \notin Artifacts, WorkspaceInv, NEW s \in Slots, Workspace!ReadArrives(s)
    PROVE  WorkspaceInv' /\ Workspace!ListsGoForward
  <1>0. /\ WorkspaceTypes /\ ScreenInv /\ Apart /\ \A t \in Slots : Flies(flight[t])
    BY DEF WorkspaceInv
  <1> DEFINE q == flight[s]
  <1>1. /\ q \in Flights /\ q.kind \in Workspace!Reads /\ q.at = "served" /\ Flies(q)
        /\ q.artifact \in Artifacts
        /\ flight' = [flight EXCEPT ![s] = Workspace!Landed]
        /\ UNCHANGED <<active, generation, sequence, errors, asked, version>>
    BY <1>0 DEF Workspace!ReadArrives, WorkspaceTypes, Flies, Workspace!Reads
  <1>2. /\ flight' \in [Slots -> Flights] /\ flight'[s] = Workspace!Landed
        /\ \A t \in Slots \ {s} : flight'[t] = flight[t]
        /\ Flies(flight[s])' /\ Apart'
    BY <1>1, SlotIsFreed
  <1>3. /\ \A k \in Workspace!Reads : sequence[k] <= sequence'[k]
        /\ \A a \in Artifacts : version[a] <= version'[a]
    BY <1>0, <1>1 DEF WorkspaceTypes
  <1>4. \A t \in Slots \ {s} : Workspace!IsCurrent(flight[t])' <=> Workspace!IsCurrent(flight[t])
    BY <1>1, <1>2 DEF Workspace!IsCurrent
  <1>5. CASE ~Workspace!IsCurrent(q)
    <2>1. UNCHANGED <<screen, loading>>
      BY <1>5, Zenon DEF Workspace!ReadArrives
    <2>2. WorkspaceTypes'
      BY <1>0, <1>1, <1>2, <2>1 DEF WorkspaceTypes
    <2>3. ASSUME NEW t \in Slots \ {s}
          PROVE  Flies(flight[t])'
      BY <1>0, <1>1, <1>2, <1>3, <1>4, <2>1, <2>2, FliesOn
    <2>4. ScreenInv'
      BY <1>0, <1>1, <2>1 DEF ScreenInv, Workspace!ShownWasAskedFor, Workspace!HistoryHasNoGaps
    <2>5. Workspace!ListsGoForward
      BY <1>0, <2>1 DEF Workspace!ListsGoForward, WorkspaceTypes, Screens
    <2> QED BY <1>2, <2>2, <2>3, <2>4, <2>5 DEF WorkspaceInv
  <1>6. CASE Workspace!IsCurrent(q)
    <2>1. /\ Workspace!Commit(q) /\ loading' = [loading EXCEPT ![q.kind] = FALSE]
          /\ q.artifact = active
      BY <1>6, Zenon DEF Workspace!ReadArrives, Workspace!IsCurrent
    <2>2. loading' \in [Workspace!Reads -> BOOLEAN]
          /\ (q.kind # "content" => loading'["content"] = loading["content"])
      <3>1. /\ FALSE \in BOOLEAN /\ q.kind \in Workspace!Reads
            /\ loading \in [Workspace!Reads -> BOOLEAN]
        BY <1>0, <1>1 DEF WorkspaceTypes
      <3> HIDE DEF q
      <3> QED BY <2>1, <3>1, ContentFlag
    <2>3. \A t \in Slots \ {s} : flight[t].kind = q.kind => ~Workspace!IsCurrent(flight[t])
      BY <1>0, <1>1, <1>6, OneIsLast
    <2>4. active \in Places /\ active \in Artifacts /\ screen \in Screens
      BY <1>0, <1>1, <2>1 DEF WorkspaceTypes
    <2>5. ASSUME screen' \in Screens, \A k \in Workspace!Reads : screen'[k].of \in {active, Nowhere},
                 q.kind # "content" => screen'.content = screen.content,
                 q.kind # "history" => screen'.history = screen.history,
                 q.kind # "comments" => screen'.comments = screen.comments,
                 q.kind = "content" => screen'.content.value = asked,
                 q.kind = "comments" =>
                     /\ screen.comments.value <= screen'.comments.value
                     /\ screen'.comments.of = active /\ screen'.comments.value <= version[active],
                 \A i \in 1..Len(screen'.history.value) : screen'.history.value[i] = i
          PROVE  WorkspaceInv' /\ Workspace!ListsGoForward
      <3>1. WorkspaceTypes'
        BY <1>0, <1>1, <1>2, <2>2, <2>5 DEF WorkspaceTypes
      <3>2. ASSUME NEW t \in Slots \ {s}
            PROVE  Flies(flight[t])'
        BY <1>0, <1>1, <1>2, <1>3, <1>4, <2>3, <2>5, <3>1, FliesOn
      <3>3. ScreenInv'
        <4>1. Workspace!ShownWasAskedFor'
          BY <1>0, <1>1, <2>2, <2>5 DEF ScreenInv, Workspace!ShownWasAskedFor
        <4>2. Workspace!HistoryHasNoGaps'
          BY <2>5 DEF Workspace!HistoryHasNoGaps
        <4>3. /\ screen'.comments.of = Nowhere => screen'.comments.value = 0
              /\ screen'.comments.of \in Artifacts =>
                     screen'.comments.value <= version'[screen'.comments.of]
          <5>1. CASE q.kind = "comments"
            BY <1>1, <2>4, <2>5, <5>1
          <5>2. CASE q.kind # "comments"
            BY <1>0, <1>1, <2>5, <5>2 DEF ScreenInv
          <5> QED BY <5>1, <5>2
        <4> QED BY <4>1, <4>2, <4>3 DEF ScreenInv
      <3>4. Workspace!ListsGoForward
        <4>1. screen.comments.value \in Nat /\ screen'.comments.value \in Nat
          BY <2>4, <2>5 DEF Screens
        <4>2. screen.comments.value <= screen'.comments.value
          BY <2>5, <4>1
        <4> QED BY <4>1, <4>2 DEF Workspace!ListsGoForward
      <3> QED BY <1>2, <3>1, <3>2, <3>3, <3>4 DEF WorkspaceInv
    <2>6. CASE q.kind = "content"
      <3>1. screen' = [screen EXCEPT !.content = [of |-> active, value |-> q.arg]]
        BY <2>1, <2>6, Zenon DEF Workspace!Commit
      <3>2. q.arg \in Files /\ q.arg = asked
        BY <1>1, <1>6, <2>6 DEF Flies
      <3>3. /\ screen' \in Screens /\ screen'.content.of = active /\ screen'.content.value = q.arg
            /\ screen'.comments = screen.comments /\ screen'.history = screen.history
        BY <2>4, <3>1, <3>2, ScreenUpdates
      <3>4. \A k \in Workspace!Reads : screen'[k].of \in {active, Nowhere}
        BY <1>0, <3>3 DEF ScreenInv, Workspace!ShownWasAskedFor, Workspace!Reads
      <3>5. \A i \in 1..Len(screen'.history.value) : screen'.history.value[i] = i
        BY <1>0, <3>3 DEF ScreenInv, Workspace!HistoryHasNoGaps
      <3> QED BY <2>5, <2>6, <3>2, <3>3, <3>4, <3>5
    <2>7. CASE q.kind = "comments"
      <3>1. screen' = [screen EXCEPT !.comments = [of |-> active, value |-> q.answer]]
        BY <2>1, <2>7 DEF Workspace!Commit
      <3>2. /\ q.answer \in Nat /\ q.answer <= version[active]
            /\ screen.comments.value <= q.answer
        BY <1>1, <1>6, <2>1, <2>7 DEF Flies, Flights
      <3>3. /\ screen' \in Screens /\ screen'.comments.of = active
            /\ screen'.comments.value = q.answer
            /\ screen'.content = screen.content /\ screen'.history = screen.history
        BY <2>4, <3>1, <3>2, ScreenUpdates
      <3>4. \A k \in Workspace!Reads : screen'[k].of \in {active, Nowhere}
        BY <1>0, <3>3 DEF ScreenInv, Workspace!ShownWasAskedFor, Workspace!Reads
      <3>5. \A i \in 1..Len(screen'.history.value) : screen'.history.value[i] = i
        BY <1>0, <3>3 DEF ScreenInv, Workspace!HistoryHasNoGaps
      <3> QED BY <2>5, <2>7, <3>2, <3>3, <3>4, <3>5
    <2>8. CASE q.kind = "history"
      <3> DEFINE shown == screen.history.value
      <3>1. /\ q.arg = Len(shown) /\ q.answer = q.arg + 1 /\ (q.reset => shown = <<>>)
            /\ shown \in Seq(Nat) /\ \A i \in 1..Len(shown) : shown[i] = i
        BY <1>0, <1>1, <1>6, <2>4, <2>8 DEF Flies, Screens, ScreenInv, Workspace!HistoryHasNoGaps
      <3>2. screen' = [screen EXCEPT !.history =
                           [of |-> active, value |-> Append(IF q.reset THEN <<>> ELSE shown, q.answer)]]
        BY <2>1, <2>8 DEF Workspace!Commit
      <3>3. screen' = [screen EXCEPT !.history =
                           [of |-> active, value |-> Append(shown, Len(shown) + 1)]]
        BY <3>1, <3>2
      <3>4. /\ Append(shown, Len(shown) + 1) \in Seq(Nat)
            /\ \A i \in 1..Len(Append(shown, Len(shown) + 1)) : Append(shown, Len(shown) + 1)[i] = i
        <4> DEFINE n == Len(shown)
                   all == Append(shown, n + 1)
        <4>1. /\ n \in Nat /\ all \in Seq(Nat) /\ Len(all) = n + 1 /\ all[n + 1] = n + 1
              /\ \A i \in 1..n : all[i] = shown[i]
          BY <3>1
        <4> HIDE DEF n, all
        <4>2. \A i \in 1..n : shown[i] = i
          BY <3>1 DEF n
        <4> HIDE DEF shown
        <4>3. \A i \in 1..Len(all) : all[i] = i
          <5> SUFFICES ASSUME NEW i \in 1..Len(all) PROVE all[i] = i
            OBVIOUS
          <5>1. i = n + 1 \/ i \in 1..n
            BY <4>1
          <5>2. CASE i = n + 1
            BY <4>1, <5>2
          <5>3. CASE i \in 1..n
            BY <4>1, <4>2, <5>3
          <5> QED BY <5>1, <5>2, <5>3
        <4> QED BY <4>1, <4>3 DEF n, all
      <3>5. /\ screen' \in Screens /\ screen'.history.of = active
            /\ screen'.history.value = Append(shown, Len(shown) + 1)
            /\ screen'.content = screen.content /\ screen'.comments = screen.comments
        <4> DEFINE longer == Append(shown, Len(shown) + 1)
        <4>1. /\ longer \in Seq(Nat)
              /\ screen' = [screen EXCEPT !.history = [of |-> active, value |-> longer]]
          BY <3>3, <3>4
        <4> HIDE DEF longer
        <4>2. /\ screen' \in Screens /\ screen'.history.of = active
              /\ screen'.history.value = longer
              /\ screen'.content = screen.content /\ screen'.comments = screen.comments
          BY <2>4, <4>1, ScreenUpdates
        <4> QED BY <4>2 DEF longer
      <3>6. \A k \in Workspace!Reads : screen'[k].of \in {active, Nowhere}
        BY <1>0, <3>5 DEF ScreenInv, Workspace!ShownWasAskedFor, Workspace!Reads
      <3> QED BY <2>5, <2>8, <3>4, <3>5, <3>6
    <2> QED BY <1>1, <2>6, <2>7, <2>8 DEF Workspace!Reads
  <1> QED BY <1>5, <1>6

LEMMA ReadFailsStays ==
    ASSUME WorkspaceInv, NEW s \in Slots, Workspace!ReadFails(s)
    PROVE  WorkspaceInv' /\ Workspace!ListsGoForward
  <1>0. /\ WorkspaceTypes /\ ScreenInv /\ Apart /\ \A t \in Slots : Flies(flight[t])
    BY DEF WorkspaceInv
  <1> DEFINE q == flight[s]
  <1>1. /\ q.kind \in Workspace!Reads
        /\ flight' = [flight EXCEPT ![s] = Workspace!Landed]
        /\ UNCHANGED <<active, generation, sequence, screen, asked, version>>
    BY DEF Workspace!ReadFails
  <1>2. /\ flight' \in [Slots -> Flights] /\ flight'[s] = Workspace!Landed
        /\ \A t \in Slots \ {s} : flight'[t] = flight[t]
        /\ Flies(flight[s])' /\ Apart'
    BY <1>1, SlotIsFreed
  <1>3. /\ loading' \in [Workspace!Reads -> BOOLEAN] /\ errors' \in [Workspace!Reads -> BOOLEAN]
        /\ \/ loading'["content"] = loading["content"] /\ errors'["content"] = errors["content"]
           \/ errors'["content"]
    <2>1. CASE Workspace!IsCurrent(q)
      <3>1. loading' = [loading EXCEPT ![q.kind] = FALSE] /\ errors' = [errors EXCEPT ![q.kind] = TRUE]
        BY <2>1 DEF Workspace!ReadFails
      <3>2. FALSE \in BOOLEAN /\ TRUE \in BOOLEAN
        OBVIOUS
      <3>3. q.kind = "content" => errors'["content"] = TRUE
        BY <1>0, <1>1, <3>1, <3>2, ContentFlag DEF WorkspaceTypes
      <3>4. q.kind # "content" => /\ loading'["content"] = loading["content"]
                                  /\ errors'["content"] = errors["content"]
        BY <1>0, <1>1, <3>1, <3>2, ContentFlag DEF WorkspaceTypes
      <3>5. loading' \in [Workspace!Reads -> BOOLEAN] /\ errors' \in [Workspace!Reads -> BOOLEAN]
        BY <1>0, <1>1, <3>1, <3>2, ContentFlag DEF WorkspaceTypes
      <3> QED BY <3>3, <3>4, <3>5
    <2>2. CASE ~Workspace!IsCurrent(q)
      <3>1. UNCHANGED <<loading, errors>>
        BY <2>2 DEF Workspace!ReadFails
      <3> QED BY <1>0, <3>1 DEF WorkspaceTypes
    <2> QED BY <2>1, <2>2
  <1>4. WorkspaceTypes'
    BY <1>0, <1>1, <1>2, <1>3 DEF WorkspaceTypes
  <1>5. /\ \A k \in Workspace!Reads : sequence[k] <= sequence'[k]
        /\ \A a \in Artifacts : version[a] <= version'[a]
        /\ \A t \in Slots \ {s} : Workspace!IsCurrent(flight[t])' <=> Workspace!IsCurrent(flight[t])
    BY <1>0, <1>1, <1>2 DEF WorkspaceTypes, Workspace!IsCurrent
  <1>6. ASSUME NEW t \in Slots \ {s}
        PROVE  Flies(flight[t])'
    BY <1>0, <1>1, <1>2, <1>4, <1>5, FliesOn
  <1>7. ScreenInv'
    BY <1>0, <1>1, <1>3 DEF ScreenInv, Workspace!ShownWasAskedFor, Workspace!HistoryHasNoGaps
  <1>8. Workspace!ListsGoForward
    BY <1>0, <1>1 DEF Workspace!ListsGoForward, WorkspaceTypes, Screens
  <1> QED BY <1>2, <1>4, <1>6, <1>7, <1>8 DEF WorkspaceInv

(* The answer to an own comment supersedes the list that is being read.    *)
LEMMA CommentArrivesStays ==
    ASSUME Nowhere \notin Artifacts, WorkspaceInv, NEW s \in Slots, Workspace!CommentArrives(s)
    PROVE  WorkspaceInv' /\ Workspace!ListsGoForward
  <1>0. /\ WorkspaceTypes /\ ScreenInv /\ Apart /\ \A t \in Slots : Flies(flight[t])
    BY DEF WorkspaceInv
  <1> DEFINE q == flight[s]
  <1>1. /\ q \in Flights /\ q.kind = "comment" /\ Flies(q) /\ q.artifact \in Artifacts
        /\ flight' = [flight EXCEPT ![s] = Workspace!Landed]
        /\ UNCHANGED <<active, generation, asked, version>>
    BY <1>0 DEF Workspace!CommentArrives, WorkspaceTypes, Flies
  <1>2. /\ flight' \in [Slots -> Flights] /\ flight'[s] = Workspace!Landed
        /\ \A t \in Slots \ {s} : flight'[t] = flight[t]
        /\ Flies(flight[s])' /\ Apart'
    BY <1>1, SlotIsFreed
  <1>3. Workspace!ListsGoForward
    BY <1>1, <1>2 DEF Workspace!ListsGoForward
  <1>4. \A a \in Artifacts : version[a] <= version'[a]
    BY <1>0, <1>1 DEF WorkspaceTypes
  <1>5. CASE ~(q.at = "served" /\ q.artifact = active /\ q.generation = generation)
    <2>1. UNCHANGED <<sequence, loading, errors, screen>>
      BY <1>5 DEF Workspace!CommentArrives
    <2>2. WorkspaceTypes'
      BY <1>0, <1>1, <1>2, <2>1 DEF WorkspaceTypes
    <2>3. /\ \A k \in Workspace!Reads : sequence[k] <= sequence'[k]
          /\ \A t \in Slots \ {s} : Workspace!IsCurrent(flight[t])' <=> Workspace!IsCurrent(flight[t])
      BY <1>0, <1>1, <1>2, <2>1 DEF WorkspaceTypes, Workspace!IsCurrent
    <2>4. ASSUME NEW t \in Slots \ {s}
          PROVE  Flies(flight[t])'
      BY <1>0, <1>1, <1>2, <1>4, <2>1, <2>2, <2>3, FliesOn
    <2>5. ScreenInv'
      BY <1>0, <1>1, <2>1 DEF ScreenInv, Workspace!ShownWasAskedFor, Workspace!HistoryHasNoGaps
    <2> QED BY <1>2, <1>3, <2>2, <2>4, <2>5 DEF WorkspaceInv
  <1>6. CASE q.at = "served" /\ q.artifact = active /\ q.generation = generation
    <2>1. /\ Workspace!Superseded("comments") /\ "comments" \in Workspace!Reads
          /\ screen' = [screen EXCEPT !.comments = [of |-> active, value |-> q.answer]]
      BY <1>6 DEF Workspace!CommentArrives, Workspace!UseCached, Workspace!Reads
    <2>2. /\ sequence' \in [Workspace!Reads -> Nat]
          /\ \A l \in Workspace!Reads : sequence[l] <= sequence'[l]
          /\ loading' \in [Workspace!Reads -> BOOLEAN] /\ errors' \in [Workspace!Reads -> BOOLEAN]
          /\ loading'["content"] = loading["content"] /\ errors'["content"] = errors["content"]
          /\ \A t \in Slots : /\ flight'[t] = flight[t] /\ flight[t].kind \in Workspace!Reads
                              /\ Workspace!IsCurrent(flight[t])'
                 => Workspace!IsCurrent(flight[t]) /\ flight[t].kind # "comments"
      BY <1>1, <2>1, ReadSuperseded
    <2>3. q.answer \in Nat /\ q.answer <= version[active] /\ active \in Places /\ active \in Artifacts
      BY <1>0, <1>1, <1>6 DEF Flies, Flights, WorkspaceTypes
    <2>4. /\ screen' \in Screens /\ screen'.comments.of = active
          /\ screen'.comments.value = q.answer
          /\ screen'.content = screen.content /\ screen'.history = screen.history
      BY <1>0, <2>1, <2>3, ScreenUpdates DEF WorkspaceTypes
    <2>5. WorkspaceTypes'
      BY <1>0, <1>1, <1>2, <2>2, <2>4 DEF WorkspaceTypes
    <2>6. ASSUME NEW t \in Slots \ {s}
          PROVE  Flies(flight[t])'
      BY <1>0, <1>1, <1>2, <1>4, <2>2, <2>4, <2>5, FliesOn
    <2>7. ScreenInv'
      <3>1. Workspace!ShownWasAskedFor'
        <4>1. \A k \in Workspace!Reads : screen'[k].of \in {active', Nowhere}
          BY <1>0, <1>1, <2>4 DEF ScreenInv, Workspace!ShownWasAskedFor, Workspace!Reads
        <4> QED BY <1>0, <1>1, <2>2, <2>4, <4>1 DEF ScreenInv, Workspace!ShownWasAskedFor
      <3>2. Workspace!HistoryHasNoGaps'
        BY <1>0, <2>4 DEF ScreenInv, Workspace!HistoryHasNoGaps
      <3> QED BY <1>1, <2>3, <2>4, <3>1, <3>2 DEF ScreenInv
    <2> QED BY <1>2, <1>3, <2>5, <2>6, <2>7 DEF WorkspaceInv
  <1> QED BY <1>5, <1>6

LEMMA WorkspaceStays ==
    ASSUME Nowhere \notin Artifacts, WorkspaceInv, [Workspace!Next]_(Workspace!vars)
    PROVE  WorkspaceInv' /\ Workspace!ListsGoForward
  <1>1. CASE UNCHANGED Workspace!vars
    <2>1. UNCHANGED <<active, generation, sequence, loading, errors, screen, asked, flight, version>>
      BY <1>1 DEF Workspace!vars
    <2>2. WorkspaceTypes' /\ Apart'
      BY <2>1 DEF WorkspaceInv, WorkspaceTypes, Apart
    <2>3. ScreenInv'
      BY <2>1 DEF WorkspaceInv, ScreenInv, Workspace!ShownWasAskedFor, Workspace!HistoryHasNoGaps
    <2>4. \A t \in Slots : Flies(flight[t])'
      BY <2>1 DEF WorkspaceInv, Flies, Workspace!IsCurrent
    <2>5. Workspace!ListsGoForward
      BY <2>1 DEF Workspace!ListsGoForward, WorkspaceInv, WorkspaceTypes, Screens
    <2> QED BY <2>2, <2>3, <2>4, <2>5 DEF WorkspaceInv
  <1>2. CASE Workspace!Next
    <2>1. CASE \E a \in Artifacts : Workspace!Move(a) \/ Workspace!Others(a)
      BY <2>1, MoveStays, OthersStays
    <2>2. ASSUME NEW s \in Slots,
                 \/ Workspace!LoadComments(s) \/ Workspace!Comment(s) \/ Workspace!Serve(s)
                 \/ Workspace!ReadArrives(s) \/ Workspace!ReadFails(s) \/ Workspace!CommentArrives(s)
                 \/ \E f \in Files : Workspace!LoadContent(s, f)
                 \/ \E reset \in BOOLEAN : Workspace!LoadHistory(s, reset)
          PROVE  WorkspaceInv' /\ Workspace!ListsGoForward
      BY <2>2, LoadCommentsStays, CommentStays, ServeStays, ReadArrivesStays, ReadFailsStays,
         CommentArrivesStays, LoadContentStays, LoadHistoryStays, Zenon
    <2> QED BY <1>2, <2>1, <2>2, Zenon DEF Workspace!Next
  <1> QED BY <1>1, <1>2

(* People are shown what is there, however many requests are under way,    *)
(* pages there are and entries come in between them (reviewWorkspace.ts,   *)
(* isCurrent and commentRequest; history.py, list; advanced_repository.py, *)
(* get_review_comment).                                                    *)
THEOREM ReadersAreShownAll ==
    ASSUME Nowhere \notin Artifacts, Entries \subseteq Nat, IsFiniteSet(Entries),
           PageRoom \in Nat \ {0}, EventLimit \in Nat \ {0}
    PROVE  Spec => ReadersSeeTheReview
  <1> DEFINE I == /\ focus = "workspace" => WorkspaceInv
                  /\ focus = "history" => PagerInv /\ ThreadInv
  <1>1. Init => I
    BY OneServiceAtInit, WorkspaceAtInit, PagerAtInit, ThreadAtInit
  <1>2. I /\ [Next]_vars => I' /\ [focus = "workspace" => Workspace!ListsGoForward]_vars
    BY OneService, WorkspaceStays, PagerStays, ThreadStays
  <1>3. I => /\ focus = "workspace" => Workspace!ShownWasAskedFor /\ Workspace!HistoryHasNoGaps
             /\ focus = "history" => ReviewHistory!HistoryIsWhole /\ ReviewHistory!ThreadsAreWhole
    BY HistoryHolds, ThreadsHold DEF WorkspaceInv, ScreenInv
  <1> QED BY <1>1, <1>2, <1>3, PTL DEF Spec, ReadersSeeTheReview
=============================================================================
