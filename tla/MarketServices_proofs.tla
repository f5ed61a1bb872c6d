----------------------- MODULE MarketServices_proofs ------------------------
(***************************************************************************)
(* Proofs about the services of the market's people: what they list, what  *)
(* they say and like, and the policies that administrators have it         *)
(* reviewed by, each for any number of people and rows.  A behaviour is of *)
(* one service, so that what is to be proved of a service is proved from   *)
(* its own steps alone.                                                    *)
(***************************************************************************)
EXTENDS Services, FiniteSetTheorems, SequenceTheorems, TLAPS

(* A behaviour stays with its service.                                     *)
LEMMA OneService ==
    ASSUME [Next]_vars
    PROVE  /\ focus' = focus
           /\ focus = "listing" => [Listing!Next]_(Listing!vars)
           /\ focus = "community" => [Community!Next]_(Community!vars)
           /\ focus = "policies" => [ReviewPolicy!Next]_(ReviewPolicy!vars)
  <1>1. CASE UNCHANGED vars
    BY <1>1 DEF vars, listingVars, communityVars, policiesVars, Listing!vars, Community!vars,
       ReviewPolicy!vars
  <1>2. CASE Next
    BY <1>2, Zenon DEF Next, AccountsStep, ListingStep, CommunityStep, ReviewPolicyStep,
       ReviewDiscussionStep, SubmissionStep, WorkspaceStep, CdnSubscriptionStep, LlmReviewStep,
       ReviewScopeStep, CategoryStep, MalwareScanStep, ReviewHistoryStep
  <1> QED BY <1>1, <1>2

LEMMA OneServiceAtInit ==
    ASSUME Init
    PROVE  /\ focus = "listing" => Listing!Init
           /\ focus = "community" => Community!Init
           /\ focus = "policies" => ReviewPolicy!Init
  BY Zenon DEF Init
-----------------------------------------------------------------------------
(* Listing: submissions about plugins.                                     *)

Rows == [owner : Authors \cup {None}, name : Names \cup {None}, repo : Repos \cup {None},
         status : {"absent", "pending", "listed", "unlisted"}]

(* What was submitted before the last decision is settled.                 *)
ListingInv ==
    /\ market \in [Listing!Ids -> Rows]
    /\ tickets \in [Listing!Ids -> Seq({"pending", "closed"})]
    /\ decided \in [Listing!Ids -> Nat]
    /\ \A p \in Listing!Ids : decided[p] <= Len(tickets[p])
    /\ writer \in [Writers -> [at : {"free", "asked", "edit"}, plugin : Listing!Ids \cup {None},
                               row : Rows]]
    /\ Listing!PendingIsNew

LEMMA ListingAtInit == Listing!Init => ListingInv
  BY DEF Listing!Init, ListingInv, Listing!PendingIsNew, Listing!NotListed, Listing!Waiting, Rows

LEMMA NotListedIsRow == Listing!NotListed \in Rows
  BY DEF Listing!NotListed, Rows

(* One more submission comes behind those that were decided.               *)
LEMMA RowUpdates ==
    ASSUME NEW r \in Rows
    PROVE  /\ \A s \in {"listed", "unlisted"} : [r EXCEPT !.status = s] \in Rows
           /\ \A u \in Authors : [r EXCEPT !.owner = u] \in Rows
  BY DEF Rows

LEMMA TicketAppends ==
    ASSUME ListingInv, NEW p \in Listing!Ids, tickets' = [tickets EXCEPT ![p] = Append(@, "pending")],
           UNCHANGED decided
    PROVE  /\ tickets' \in [Listing!Ids -> Seq({"pending", "closed"})]
           /\ \A q \in Listing!Ids : decided'[q] <= Len(tickets'[q])
           /\ Listing!PendingIsNew'
  <1>1. /\ tickets'[p] = Append(tickets[p], "pending")
        /\ \A q \in Listing!Ids \ {p} : tickets'[q] = tickets[q]
        /\ \A q \in Listing!Ids : tickets[q] \in Seq({"pending", "closed"}) /\ decided[q] \in Nat
        /\ \A q \in Listing!Ids : decided[q] <= Len(tickets[q])
    BY DEF ListingInv
  <1>2. tickets' \in [Listing!Ids -> Seq({"pending", "closed"})]
    BY <1>1 DEF ListingInv
  <1>3. ASSUME NEW q \in Listing!Ids
        PROVE  /\ decided[q] <= Len(tickets'[q])
               /\ \A i \in 1..decided[q] : tickets'[q][i] = tickets[q][i]
    BY <1>1
  <1> QED BY <1>2, <1>3 DEF ListingInv, Listing!PendingIsNew

LEMMA ListingStays ==
    ASSUME ListingInv, [Listing!Next]_(Listing!vars)
    PROVE  ListingInv'
  <1>1. CASE UNCHANGED Listing!vars
    BY <1>1 DEF Listing!vars, ListingInv, Listing!PendingIsNew
  <1>2. ASSUME NEW u \in Authors, NEW n \in Names, NEW repo \in Repos,
               Listing!RegisterPlugin(u, n, repo)
        PROVE  ListingInv'
    <2>1. PICK p \in Listing!RegistrationId(u, n) :
              market' = [market EXCEPT ![p] = [owner |-> u, name |-> n, repo |-> repo, status |-> "pending"]]
      BY <1>2 DEF Listing!RegisterPlugin
    <2>2. [owner |-> u, name |-> n, repo |-> repo, status |-> "pending"] \in Rows
      BY DEF Rows
    <2>3. market' \in [Listing!Ids -> Rows]
      BY <2>1, <2>2 DEF ListingInv
    <2> QED BY <1>2, <2>3 DEF Listing!RegisterPlugin, ListingInv, Listing!PendingIsNew
  <1>3. ASSUME NEW u \in Authors, NEW n \in Names, NEW repo \in Repos,
               Listing!SubmitPlugin(u, n, repo)
        PROVE  ListingInv'
    <2>1. PICK p \in Listing!RegistrationId(u, n) :
              /\ market' = [market EXCEPT ![p] =
                     [owner |-> u, name |-> n, repo |-> repo,
                      status |-> IF market[p] = Listing!NotListed THEN "pending" ELSE market[p].status]]
              /\ tickets' = [tickets EXCEPT ![p] = Append(@, "pending")]
      BY <1>3 DEF Listing!SubmitPlugin
    <2>2. p \in Listing!Ids
      BY DEF Listing!RegistrationId, Listing!Own, Listing!Known, Listing!Ids
    <2> DEFINE status == IF market[p] = Listing!NotListed THEN "pending" ELSE market[p].status
    <2>3. status \in {"absent", "pending", "listed", "unlisted"}
      BY <2>2 DEF ListingInv, Rows
    <2>4. [owner |-> u, name |-> n, repo |-> repo, status |-> status] \in Rows
      BY <2>3 DEF Rows
    <2> HIDE DEF status
    <2>5. market' \in [Listing!Ids -> Rows]
      BY <2>1, <2>4 DEF ListingInv, status
    <2>6. UNCHANGED <<decided, writer>>
      BY <1>3 DEF Listing!SubmitPlugin
    <2> QED BY <2>1, <2>2, <2>5, <2>6, TicketAppends DEF ListingInv
  <1>4. ASSUME NEW p \in Listing!Ids, NEW status \in {"listed", "unlisted"},
               Listing!DecidePlugin(p, status)
        PROVE  ListingInv'
    <2>1. /\ market' = [market EXCEPT ![p].status = status]
          /\ tickets' = [tickets EXCEPT ![p] = [i \in 1..Len(tickets[p]) |-> "closed"]]
          /\ decided' = [decided EXCEPT ![p] = Len(tickets[p])]
          /\ UNCHANGED writer
      BY <1>4 DEF Listing!DecidePlugin, Listing!CompletePending
    <2>2. market' \in [Listing!Ids -> Rows]
      <3>1. market[p] \in Rows /\ market' = [market EXCEPT ![p] = [market[p] EXCEPT !.status = status]]
        BY <2>1 DEF ListingInv
      <3>2. [market[p] EXCEPT !.status = status] \in Rows
        BY <3>1, RowUpdates
      <3> QED BY <3>1, <3>2 DEF ListingInv
    <2> DEFINE closed == [i \in 1..Len(tickets[p]) |-> "closed"]
    <2>3. tickets[p] \in Seq({"pending", "closed"}) /\ Len(tickets[p]) \in Nat
      BY DEF ListingInv
    <2>4. closed \in [1..Len(tickets[p]) -> {"pending", "closed"}]
      OBVIOUS
    <2>5. closed \in Seq({"pending", "closed"}) /\ Len(closed) = Len(tickets[p])
      BY <2>3, <2>4
    <2>6. /\ closed \in Seq({"pending", "closed"}) /\ Len(closed) = Len(tickets[p])
          /\ \A i \in 1..Len(tickets[p]) : closed[i] # "pending"
          /\ Len(tickets[p]) \in Nat
      BY <2>3, <2>5
    <2> HIDE DEF closed
    <2>7. /\ tickets' \in [Listing!Ids -> Seq({"pending", "closed"})]
          /\ decided' \in [Listing!Ids -> Nat]
          /\ tickets'[p] = closed /\ decided'[p] = Len(tickets[p])
          /\ \A q \in Listing!Ids \ {p} : tickets'[q] = tickets[q] /\ decided'[q] = decided[q]
      BY <2>1, <2>6 DEF ListingInv, closed
    <2>8. ASSUME NEW q \in Listing!Ids
          PROVE  decided'[q] <= Len(tickets'[q])
      <3>1. CASE q = p
        BY <2>6, <2>7, <3>1
      <3>2. CASE q # p
        BY <2>7, <3>2 DEF ListingInv
      <3> QED BY <3>1, <3>2
    <2>9. Listing!PendingIsNew'
      BY <2>6, <2>7 DEF ListingInv, Listing!PendingIsNew
    <2> QED BY <2>1, <2>2, <2>7, <2>8, <2>9 DEF ListingInv
  <1>5. ASSUME NEW w \in Writers, NEW p \in Listing!Ids, Listing!AskListing(w, p)
        PROVE  ListingInv'
    <2> DEFINE m == [Listing!Waiting EXCEPT !.at = "asked", !.plugin = p]
    <2>1. m \in [at : {"free", "asked", "edit"}, plugin : Listing!Ids \cup {None}, row : Rows]
      BY NotListedIsRow DEF Listing!Waiting
    <2>2. writer' = [writer EXCEPT ![w] = m] /\ UNCHANGED <<market, tickets, decided>>
      BY <1>5 DEF Listing!AskListing
    <2> HIDE DEF m
    <2> QED BY <2>1, <2>2 DEF ListingInv, Listing!PendingIsNew
  <1>6. Listing!Waiting \in [at : {"free", "asked", "edit"}, plugin : Listing!Ids \cup {None}, row : Rows]
    BY NotListedIsRow DEF Listing!Waiting
  <1>7. ASSUME NEW w \in Writers, Listing!RequestListing(w)
        PROVE  ListingInv'
    <2> DEFINE p == writer[w].plugin
    <2>1. /\ market' = [market EXCEPT ![p].status = "pending"]
          /\ tickets' = tickets \/ tickets' = [tickets EXCEPT ![p] = Append(@, "pending")]
          /\ writer' = [writer EXCEPT ![w] = Listing!Waiting] /\ UNCHANGED decided
      BY <1>7 DEF Listing!RequestListing
    <2> HIDE DEF p
    <2>2. /\ market' \in [Listing!Ids -> Rows]
          /\ writer' \in [Writers -> [at : {"free", "asked", "edit"}, plugin : Listing!Ids \cup {None},
                                      row : Rows]]
      BY <1>6, <2>1 DEF ListingInv, Rows
    <2>3. CASE tickets' = tickets
      BY <2>1, <2>2, <2>3 DEF ListingInv, Listing!PendingIsNew
    <2>4. CASE tickets' = [tickets EXCEPT ![p] = Append(@, "pending")] /\ p \in Listing!Ids
      BY <2>1, <2>2, <2>4, TicketAppends DEF ListingInv
    <2>5. CASE tickets' = [tickets EXCEPT ![p] = Append(@, "pending")] /\ p \notin Listing!Ids
      <3>1. tickets' = tickets
        BY <2>5 DEF ListingInv
      <3> QED BY <2>3, <3>1
    <2> QED BY <2>1, <2>3, <2>4, <2>5
  <1>8. ASSUME NEW w \in Writers, NEW p \in Listing!Ids, NEW n \in Names, NEW repo \in Repos,
               Listing!ReadRow(w, p, n, repo)
        PROVE  ListingInv'
    <2> DEFINE m == [at |-> "edit", plugin |-> p, row |-> [market[p] EXCEPT !.name = n, !.repo = repo]]
    <2>1. m \in [at : {"free", "asked", "edit"}, plugin : Listing!Ids \cup {None}, row : Rows]
      <3>1. market[p] \in Rows
        BY DEF ListingInv
      <3>2. [market[p] EXCEPT !.name = n, !.repo = repo] \in Rows
        BY <3>1 DEF Rows
      <3> QED BY <3>2
    <2>2. writer' = [writer EXCEPT ![w] = m] /\ UNCHANGED <<market, tickets, decided>>
      BY <1>8 DEF Listing!ReadRow
    <2> HIDE DEF m
    <2> QED BY <2>1, <2>2 DEF ListingInv, Listing!PendingIsNew
  <1>9. ASSUME NEW w \in Writers, Listing!WriteRow(w)
        PROVE  ListingInv'
    <2>1. /\ market' = market \/ market' = [market EXCEPT ![writer[w].plugin] = writer[w].row]
          /\ writer' = [writer EXCEPT ![w] = Listing!Waiting] /\ UNCHANGED <<tickets, decided>>
      BY <1>9 DEF Listing!WriteRow
    <2>2. market' \in [Listing!Ids -> Rows]
      BY <2>1 DEF ListingInv
    <2> QED BY <1>6, <2>1, <2>2 DEF ListingInv, Listing!PendingIsNew
  <1>10. ASSUME NEW from \in Authors, NEW to \in Authors, Listing!HandOn(from, to)
         PROVE  ListingInv'
    <2>1. /\ market' = [p \in Listing!Ids |-> IF market[p].owner = from
                                              THEN [market[p] EXCEPT !.owner = to] ELSE market[p]]
          /\ UNCHANGED <<tickets, decided, writer>>
      BY <1>10 DEF Listing!HandOn
    <2>2. \A p \in Listing!Ids : [market[p] EXCEPT !.owner = to] \in Rows
      BY RowUpdates DEF ListingInv
    <2>3. market' \in [Listing!Ids -> Rows]
      BY <2>1, <2>2 DEF ListingInv
    <2> QED BY <2>1, <2>3 DEF ListingInv, Listing!PendingIsNew
  <1> QED BY <1>1, <1>2, <1>3, <1>4, <1>5, <1>7, <1>8, <1>9, <1>10 DEF Listing!Next

(* A submission leaves the row it goes to with whom it was.                *)
LEMMA SubmissionsStayApart ==
    ASSUME ListingInv, [Listing!Next]_(Listing!vars)
    PROVE  Listing!SubmitsApart
  <1>1. SUFFICES ASSUME NEW p \in Listing!Known, Len(tickets'[p]) > Len(tickets[p])
                 PROVE  [market'[p] EXCEPT !.status = market[p].status] = market[p]
    BY DEF Listing!SubmitsApart
  <1>2. p \in Listing!Ids /\ market[p] \in Rows /\ Len(tickets[p]) \in Nat
    BY DEF Listing!Known, ListingInv
  <1>3. tickets' # tickets
    BY <1>1, <1>2
  <1>4. CASE \E u \in Authors, n \in Names, repo \in Repos : Listing!SubmitPlugin(u, n, repo)
    <2>1. PICK u \in Authors, n \in Names, repo \in Repos : Listing!SubmitPlugin(u, n, repo)
      BY <1>4
    <2>2. PICK q \in Listing!RegistrationId(u, n) :
              /\ market' = [market EXCEPT ![q] =
                     [owner |-> u, name |-> n, repo |-> repo,
                      status |-> IF market[q] = Listing!NotListed THEN "pending" ELSE market[q].status]]
              /\ tickets' = [tickets EXCEPT ![q] = Append(@, "pending")]
      BY <2>1 DEF Listing!SubmitPlugin
    <2>3. q = p
      BY <1>1, <1>2, <2>2 DEF ListingInv
    <2>4. p \in Listing!Own(u, n)
      BY <2>2, <2>3 DEF Listing!RegistrationId
    <2>5. market[p].owner = u /\ market[p].name = n /\ market[p].repo = repo
      BY <2>1, <2>4 DEF Listing!Own, Listing!SubmitPlugin, Listing!SameRepo
    <2> DEFINE status == IF market[q] = Listing!NotListed THEN "pending" ELSE market[q].status
    <2>6. market'[p] = [owner |-> u, name |-> n, repo |-> repo, status |-> status]
      BY <1>2, <2>2, <2>3 DEF ListingInv
    <2> HIDE DEF status
    <2> QED BY <1>2, <2>5, <2>6 DEF Rows
  <1>5. CASE \E w \in Writers : Listing!RequestListing(w)
    <2>1. market'[p] = market[p] \/ market'[p] = [market[p] EXCEPT !.status = "pending"]
      BY <1>2, <1>5 DEF Listing!RequestListing, ListingInv
    <2> QED BY <1>2, <2>1 DEF Rows
  <1>6. CASE \E q \in Listing!Ids, status \in {"listed", "unlisted"} : Listing!DecidePlugin(q, status)
    <2>1. PICK q \in Listing!Ids : tickets' = [tickets EXCEPT ![q] = [i \in 1..Len(tickets[q]) |-> "closed"]]
      BY <1>6 DEF Listing!DecidePlugin, Listing!CompletePending
    <2>2. Len(tickets'[p]) = Len(tickets[p])
      BY <1>2, <2>1 DEF ListingInv
    <2> QED BY <1>1, <1>2, <2>2
  <1> QED BY <1>3, <1>4, <1>5, <1>6 DEF Listing!Next, Listing!vars, Listing!RegisterPlugin,
             Listing!WriteRow, Listing!AskListing, Listing!ReadRow, Listing!HandOn

(* A submission never takes over the row of a plugin that has another      *)
(* owner, name or repository, and one that waits was made after the last   *)
(* decision about its plugin, whoever writes rows back or hands plugins on *)
(* meanwhile (store.py, _plugin_registration_id, update_plugin_status).    *)
THEOREM SubmissionsAreApart == Spec => SubmissionsKeepApart
  <1> DEFINE I == focus = "listing" => ListingInv
  <1>1. Init => I
    BY OneServiceAtInit, ListingAtInit
  <1>2. I /\ [Next]_vars => I'
    BY OneService, ListingStays
  <1>3. I /\ [Next]_vars => [focus = "listing" => Listing!SubmitsApart]_vars
    BY OneService, SubmissionsStayApart
  <1>4. I => (focus = "listing" => Listing!PendingIsNew)
    BY DEF ListingInv
  <1> QED BY <1>1, <1>2, <1>3, <1>4, PTL DEF Spec, SubmissionsKeepApart
-----------------------------------------------------------------------------
(* Community: comments and the likes they get.                             *)

CommentTypes == [made : BOOLEAN, parent : Comments \cup {Missing}, deleted : BOOLEAN, likes : Nat]

Likers(c) == {u \in Readers : <<c, u>> \in likes}

(* What a handler has looked up was written, deleted or not.               *)
CommunityInv ==
    /\ comment \in [Comments -> CommentTypes]
    /\ handler \in [Readers -> [op : {"none", "reply", "like", "delete"},
                                comment : Comments \cup {Missing}]]
    /\ likes \subseteq Comments \X Readers
    /\ \A c \in Comments :
          /\ comment[c].deleted => comment[c].made
          /\ comment[c].likes = Cardinality(Likers(c))
    /\ \A u \in Readers : handler[u].op # "none" => /\ handler[u].comment \in Comments
                                                    /\ comment[handler[u].comment].made
    /\ \A c \in Comments : ~comment[c].made => comment[c].likes = 0

LEMMA CommunityAtInit == Community!Init => CommunityInv
  <1> SUFFICES ASSUME Community!Init
               PROVE  CommunityInv
    OBVIOUS
  <1>1. \A c \in Comments : Likers(c) = {}
    BY DEF Community!Init, Likers
  <1>2. Cardinality({}) = 0
    BY FS_EmptySet
  <1>3. \A c \in Comments : Cardinality(Likers(c)) = 0
    BY <1>1, <1>2
  <1> HIDE DEF Likers
  <1> QED BY <1>3 DEF Community!Init, CommunityInv, CommentTypes, Community!Unwritten, Community!Quiet

LEMMA DeletedFits ==
    ASSUME NEW h \in CommentTypes
    PROVE  /\ [h EXCEPT !.deleted = TRUE] \in CommentTypes
           /\ [h EXCEPT !.deleted = TRUE].likes = h.likes
           /\ [h EXCEPT !.deleted = TRUE].made = h.made
  BY DEF CommentTypes

LEMMA QuietFits ==
    Community!Quiet \in [op : {"none", "reply", "like", "delete"}, comment : Comments \cup {Missing}]
  BY DEF Community!Quiet

(* Every step but those of likes leaves the likes; a comment goes from     *)
(* unwritten to written, and from there to deleted.                        *)
LEMMA CommunityStays ==
    ASSUME IsFiniteSet(Readers), CommunityInv, [Community!Next]_(Community!vars)
    PROVE  CommunityInv' /\ Community!LeavesDeleted
  <1> USE DEF CommunityInv
  <1>0. \A c \in Comments : comment[c] \in CommentTypes
    OBVIOUS
  <1>1. ASSUME UNCHANGED <<comment, likes>>,
               handler' \in [Readers -> [op : {"none", "reply", "like", "delete"},
                                         comment : Comments \cup {Missing}]],
               \A u \in Readers : handler'[u].op # "none" =>
                   handler'[u].comment \in Comments /\ comment[handler'[u].comment].made
        PROVE  CommunityInv' /\ Community!LeavesDeleted
    <2>1. \A c \in Comments : Likers(c)' = Likers(c)
      BY <1>1 DEF Likers
    <2> QED BY <1>1, <2>1 DEF Community!LeavesDeleted
  <1>2. ASSUME NEW u \in Readers, NEW op \in {"reply", "like", "delete"}, NEW c \in Comments,
               Community!Look(u, op, c)
        PROVE  CommunityInv' /\ Community!LeavesDeleted
    <2> DEFINE h == [op |-> op, comment |-> c]
    <2>1. h \in [op : {"none", "reply", "like", "delete"}, comment : Comments \cup {Missing}]
          /\ h.comment = c
      OBVIOUS
    <2>2. handler' = [handler EXCEPT ![u] = h] /\ comment[c].made /\ UNCHANGED <<comment, likes>>
      BY <1>2 DEF Community!Look, Community!Written
    <2> HIDE DEF h
    <2> QED BY <1>1, <2>1, <2>2
  <1>3. ASSUME NEW c \in Comments, NEW parent \in Comments \cup {Missing}, Community!Insert(c, parent),
               UNCHANGED likes, handler' = handler \/ \E u \in Readers :
                                    handler' = [handler EXCEPT ![u] = Community!Quiet]
        PROVE  CommunityInv' /\ Community!LeavesDeleted
    <2> DEFINE n == [Community!Unwritten EXCEPT !.made = TRUE, !.parent = parent]
    <2>1. n \in CommentTypes /\ n.made = TRUE /\ n.deleted = FALSE /\ n.likes = 0
      BY DEF Community!Unwritten, CommentTypes
    <2>2. comment' = [comment EXCEPT ![c] = n] /\ ~comment[c].made
      BY <1>3 DEF Community!Insert, Community!Written
    <2> HIDE DEF n
    <2>3. comment[c].likes = 0 /\ ~comment[c].deleted
      BY <2>2
    <2>4. /\ comment' \in [Comments -> CommentTypes] /\ comment'[c] = n
          /\ \A d \in Comments \ {c} : comment'[d] = comment[d]
      BY <2>1, <2>2
    <2>5. /\ handler' \in [Readers -> [op : {"none", "reply", "like", "delete"},
                                       comment : Comments \cup {Missing}]]
          /\ \A u \in Readers : handler'[u].op # "none" => handler'[u] = handler[u]
      BY <1>3, QuietFits DEF Community!Quiet
    <2>6. \A d \in Comments : Likers(d)' = Likers(d)
      BY <1>3 DEF Likers
    <2>7. \A d \in Comments : comment'[d].likes = comment[d].likes
      BY <2>1, <2>3, <2>4
    <2>8. \A d \in Comments : /\ comment'[d].likes = Cardinality(Likers(d))'
                              /\ comment'[d].deleted => comment'[d].made
                              /\ ~comment'[d].made => comment'[d].likes = 0
                              /\ comment[d].made => comment'[d].made
      BY <2>1, <2>4, <2>6, <2>7
    <2>9. Community!LeavesDeleted
      BY <1>3, <2>3, <2>4 DEF Community!LeavesDeleted
    <2> QED BY <1>3, <2>4, <2>5, <2>8, <2>9
  <1>4. ASSUME NEW c \in Comments, NEW k \in Nat, ~comment[c].deleted, comment[c].made,
               comment' = [comment EXCEPT ![c].likes = k],
               likes' \subseteq Comments \X Readers,
               \A d \in Comments \ {c}, u \in Readers : <<d, u>> \in likes' <=> <<d, u>> \in likes,
               k = Cardinality(Likers(c)'),
               handler' = handler \/ \E u \in Readers : handler' = [handler EXCEPT ![u] = Community!Quiet]
        PROVE  CommunityInv' /\ Community!LeavesDeleted
    <2>1. /\ comment' \in [Comments -> CommentTypes]
          /\ comment'[c].made = comment[c].made /\ comment'[c].deleted = comment[c].deleted
          /\ comment'[c].likes = k
          /\ \A d \in Comments \ {c} : comment'[d] = comment[d]
      <3>1. comment[c] \in CommentTypes /\ comment' = [comment EXCEPT ![c] = [comment[c] EXCEPT !.likes = k]]
        BY <1>0, <1>4
      <3>2. [comment[c] EXCEPT !.likes = k] \in CommentTypes
        BY <1>4, <3>1 DEF CommentTypes
      <3> QED BY <1>0, <3>1, <3>2
    <2>2. \A d \in Comments \ {c} : Likers(d)' = Likers(d)
      BY <1>4 DEF Likers
    <2>3. /\ handler' \in [Readers -> [op : {"none", "reply", "like", "delete"},
                                       comment : Comments \cup {Missing}]]
          /\ \A u \in Readers : handler'[u].op # "none" => handler'[u] = handler[u]
      BY <1>4, QuietFits DEF Community!Quiet
    <2>4. Community!LeavesDeleted
      BY <1>4, <2>1 DEF Community!LeavesDeleted
    <2>5. \A d \in Comments : comment'[d].likes = Cardinality(Likers(d)')
      BY <1>4, <2>1, <2>2
    <2> QED BY <1>4, <2>1, <2>3, <2>4, <2>5
  <1>5. ASSUME NEW u \in Readers, Community!LikeComment(u)
        PROVE  CommunityInv' /\ Community!LeavesDeleted
    <2>0. PICK c \in Comments : c = handler[u].comment
      BY <1>5 DEF Community!LikeComment
    <2>1. handler' = [handler EXCEPT ![u] = Community!Quiet]
      BY <1>5 DEF Community!LikeComment
    <2>2. CASE UNCHANGED <<comment, likes>>
      <3>1. /\ handler' \in [Readers -> [op : {"none", "reply", "like", "delete"},
                                         comment : Comments \cup {Missing}]]
            /\ \A v \in Readers : handler'[v].op # "none" => handler'[v] = handler[v]
        BY <2>1, QuietFits DEF Community!Quiet
      <3> QED BY <1>1, <2>2, <3>1
    <2>3. CASE ~UNCHANGED <<comment, likes>>
      <3>1. /\ ~comment[c].deleted /\ comment[c].made /\ <<c, u>> \notin likes
            /\ likes' = likes \cup {<<c, u>>}
            /\ comment' = [comment EXCEPT ![c].likes = comment[c].likes + 1]
        BY <1>5, <2>0, <2>3 DEF Community!LikeComment, Community!Locked, Community!Written,
           Community!InsertLike
      <3>2. Likers(c)' = Likers(c) \cup {u} /\ u \notin Likers(c) /\ IsFiniteSet(Likers(c))
        <4>1. Likers(c)' = Likers(c) \cup {u}
          BY <3>1 DEF Likers
        <4>2. u \notin Likers(c) /\ Likers(c) \in SUBSET Readers
          BY <3>1 DEF Likers
        <4>3. IsFiniteSet(Likers(c))
          BY <4>2, FS_Subset
        <4> QED BY <4>1, <4>2, <4>3
      <3>3. Cardinality(Likers(c)') = comment[c].likes + 1
        <4>1. Cardinality(Likers(c) \cup {u}) = Cardinality(Likers(c)) + 1
          BY <3>2, FS_AddElement
        <4> QED BY <3>2, <4>1
      <3>4. /\ likes' \subseteq Comments \X Readers /\ comment[c].likes + 1 \in Nat
            /\ \A d \in Comments \ {c}, v \in Readers : <<d, v>> \in likes' <=> <<d, v>> \in likes
        BY <1>0, <2>1, <3>1 DEF CommentTypes
      <3> QED BY <1>4, <2>1, <3>1, <3>3, <3>4
    <2> QED BY <2>2, <2>3
  <1>6. ASSUME NEW u \in Readers, NEW c \in Comments, Community!UnlikeComment(u, c)
        PROVE  CommunityInv' /\ Community!LeavesDeleted
    <2>1. /\ ~comment[c].deleted /\ comment[c].made /\ <<c, u>> \in likes
          /\ likes' = likes \ {<<c, u>>}
          /\ comment' = [comment EXCEPT ![c].likes = IF comment[c].likes > 0 THEN comment[c].likes - 1 ELSE 0]
          /\ UNCHANGED handler
      BY <1>6 DEF Community!UnlikeComment, Community!Locked, Community!Written
    <2>2. Likers(c)' = Likers(c) \ {u} /\ u \in Likers(c) /\ IsFiniteSet(Likers(c))
      BY <2>1, FS_Subset DEF Likers
    <2>3. /\ Cardinality(Likers(c)') = comment[c].likes - 1 /\ IsFiniteSet(Likers(c)')
          /\ Cardinality(Likers(c)') \in Nat
      BY <2>2, FS_RemoveElement, FS_CardinalityType
    <2>4. comment[c].likes > 0 /\ comment[c].likes - 1 \in Nat
      BY <1>0, <2>3 DEF CommentTypes
    <2>5. comment' = [comment EXCEPT ![c].likes = comment[c].likes - 1]
      BY <2>1, <2>4
    <2>6. /\ likes' \subseteq Comments \X Readers
          /\ \A d \in Comments \ {c}, v \in Readers : <<d, v>> \in likes' <=> <<d, v>> \in likes
      BY <2>1
    <2> QED BY <1>4, <2>1, <2>3, <2>4, <2>5, <2>6
  <1>7. ASSUME NEW u \in Readers, Community!DeleteComment(u)
        PROVE  CommunityInv' /\ Community!LeavesDeleted
    <2> DEFINE c == handler[u].comment
    <2>1. /\ c \in Comments /\ comment[c].made
          /\ handler' = [handler EXCEPT ![u] = Community!Quiet] /\ UNCHANGED likes
          /\ comment' = [d \in Comments |->
                 IF d = c \/ (comment[d].made /\ comment[d].parent = c)
                 THEN [comment[d] EXCEPT !.deleted = TRUE] ELSE comment[d]]
      BY <1>7 DEF Community!DeleteComment, Community!Written
    <2> HIDE DEF c
    <2>2. \A d \in Comments :
              /\ [comment[d] EXCEPT !.deleted = TRUE] \in CommentTypes
              /\ [comment[d] EXCEPT !.deleted = TRUE].likes = comment[d].likes
              /\ [comment[d] EXCEPT !.deleted = TRUE].made = comment[d].made
      BY <1>0, DeletedFits
    <2>7. ASSUME NEW d \in Comments, comment[d].deleted
          PROVE  [comment[d] EXCEPT !.deleted = TRUE] = comment[d]
      <3>1. comment[d].deleted = TRUE
        BY <1>0, <2>7 DEF CommentTypes
      <3> QED BY <1>0, <3>1 DEF CommentTypes
    <2>3. /\ comment' \in [Comments -> CommentTypes]
          /\ \A d \in Comments : /\ comment'[d].likes = comment[d].likes
                                 /\ comment'[d].made = comment[d].made
                                 /\ comment[d].deleted => comment'[d] = comment[d]
                                 /\ comment'[d].deleted => comment[d].made
      BY <2>1, <2>2, <2>7
    <2>4. /\ handler' \in [Readers -> [op : {"none", "reply", "like", "delete"},
                                       comment : Comments \cup {Missing}]]
          /\ \A v \in Readers : handler'[v].op # "none" => handler'[v] = handler[v]
      BY <2>1, QuietFits DEF Community!Quiet
    <2>5. \A d \in Comments : Likers(d)' = Likers(d)
      BY <2>1 DEF Likers
    <2>6. Community!LeavesDeleted
      BY <2>1, <2>3 DEF Community!LeavesDeleted
    <2> QED BY <2>1, <2>3, <2>4, <2>5, <2>6
  <1>8. ASSUME NEW u \in Readers, Community!GiveUp(u)
        PROVE  CommunityInv' /\ Community!LeavesDeleted
    <2>1. handler' = [handler EXCEPT ![u] = Community!Quiet] /\ UNCHANGED <<comment, likes>>
      BY <1>8 DEF Community!GiveUp
    <2>2. /\ handler' \in [Readers -> [op : {"none", "reply", "like", "delete"},
                                       comment : Comments \cup {Missing}]]
          /\ \A v \in Readers : handler'[v].op # "none" => handler'[v] = handler[v]
      BY <2>1, QuietFits DEF Community!Quiet
    <2> QED BY <1>1, <2>1, <2>2
  <1>9. ASSUME NEW c \in Comments, Community!AddComment(c)
        PROVE  CommunityInv' /\ Community!LeavesDeleted
    BY <1>3, <1>9 DEF Community!AddComment
  <1>10. ASSUME NEW u \in Readers, NEW c \in Comments, Community!AddReply(u, c)
         PROVE  CommunityInv' /\ Community!LeavesDeleted
    <2>1. /\ handler[u].comment \in Comments /\ Community!Insert(c, handler[u].comment)
          /\ handler' = [handler EXCEPT ![u] = Community!Quiet] /\ UNCHANGED likes
      BY <1>10 DEF Community!AddReply
    <2> QED BY <1>3, <2>1
  <1>11. CASE UNCHANGED Community!vars
    BY <1>1, <1>11 DEF Community!vars
  <1> QED BY <1>2, <1>5, <1>6, <1>7, <1>8, <1>9, <1>10, <1>11, Zenon DEF Community!Next

(* A comment shows as many likes as there are users who like it, and       *)
(* nothing is added to one that was deleted after it was looked up, however*)
(* many users click at once (store.py, like_comment, unlike_comment and    *)
(* delete_comment).                                                        *)
THEOREM LikesAddUp ==
    ASSUME IsFiniteSet(Readers)
    PROVE  Spec => CommentsAddUp
  <1> DEFINE I == focus = "community" => CommunityInv
  <1>1. Init => I
    BY OneServiceAtInit, CommunityAtInit
  <1>2. I /\ [Next]_vars => I'
    BY OneService, CommunityStays
  <1>3. I /\ [Next]_vars => [focus = "community" => Community!LeavesDeleted]_vars
    BY OneService, CommunityStays
  <1>4. I => (focus = "community" => Community!LikesAreRows)
    <2>1. ASSUME NEW c \in Comments, CommunityInv
          PROVE  comment[c].likes = Cardinality({u \in Readers : <<c, u>> \in likes})
      BY <2>1, Zenon DEF CommunityInv, Likers
    <2>2. \A S : Community!Cardinality(S) = Cardinality(S)
      BY Zenon DEF Community!Cardinality, Cardinality
    <2>3. CommunityInv => Community!LikesAreRows
      BY <2>1, <2>2, Zenon DEF Community!LikesAreRows
    <2> QED BY <2>3
  <1> QED BY <1>1, <1>2, <1>3, <1>4, PTL DEF Spec, CommentsAddUp
-----------------------------------------------------------------------------
(* ReviewPolicy: policies, and the log of what was done with them.         *)

(* A call's key is not a policy, and those that were drafted before are    *)
(* finitely many policies.                                                 *)
PoliciesApart ==
    /\ NoPolicy \notin Policies /\ Calls \cap Policies = {}
    /\ Drafted \subseteq Policies /\ IsFiniteSet(Drafted)

OneOrNone == Policies \cup {NoPolicy}
PolicyRows == [status : ReviewPolicy!Statuses, valid : BOOLEAN]
LogEntries ==
    [key : (Calls \cup Policies) \X {"own", "validate", "retire"}, policy : Policies,
     action : ReviewPolicy!Operations, base : OneOrNone]
CallTypes ==
    [op : ReviewPolicy!Operations, policy : OneOrNone, at : {"start", "checked", "validated", "read"},
     seen : OneOrNone, valid : BOOLEAN, over : BOOLEAN]

PolicyTyped ==
    /\ policy \in [Policies -> PolicyRows] /\ audit \in Seq(LogEntries)
    /\ call \in [Calls -> CallTypes] /\ snapshot \in [Reviewed -> OneOrNone]
    /\ migrations \in Seq([key : Calls, artifact : Reviewed, from : OneOrNone, to : OneOrNone])

(* What a call c has found out by the step it is at, of policies pol.      *)
Fits(c, pol) ==
    /\ c.op # "none" => c.policy \in Policies
    /\ c.over => c.at = "start"
    /\ c.at = "checked" => c.op \in {"validate", "activate", "rollback"}
    /\ c.at = "validated" => c.op \in {"activate", "rollback"}
    /\ c.at = "read" => c.op \in {"activate", "rollback", "retire"}
    /\ c.at # "start" => pol[c.policy].status # "absent"

(* NamesWhatItReplaces, of any log.                                        *)
Replaces(log, i) ==
    LET earlier == {j \in 1..(i - 1) : log[j].key = <<log[i].key[1], "retire">>} IN
    log[i].base = IF earlier = {} THEN NoPolicy ELSE log[i - 1].policy

(* A log that tells what the policies are, and of existing ones only.      *)
LogTells(log, pol) ==
    /\ \A p \in Policies : ReviewPolicy!Tells(log, p, pol[p].status)
    /\ \A i \in 1..Len(log) : log[i].action \in {"activate", "rollback"} => Replaces(log, i)
    /\ \A i \in 1..Len(log) : pol[log[i].policy].status # "absent"

(* A call's own entry is of the policy it is for, and comes with the entry *)
(* of the policy that it retires.                                          *)
Keyed(log, calls) ==
    \A i \in 1..Len(log), k \in Calls :
       /\ log[i].key = <<k, "own">> =>
             calls[k].op # "none" /\ log[i].policy = calls[k].policy
       /\ log[i].key = <<k, "retire">> => \E j \in 1..Len(log) : log[j].key = <<k, "own">>

PolicyInv ==
    /\ PolicyTyped
    /\ \A k \in Calls : Fits(call[k], policy)
    /\ LogTells(audit, policy) /\ Keyed(audit, call)
    /\ ReviewPolicy!ActiveIsValidated /\ ReviewPolicy!MigratesOnce

(* The status of p after an entry e, if it was s.                          *)
After(e, p, s) ==
    IF e.policy # p \/ e.action \notin {"create", "activate", "rollback", "retire"} THEN s
    ELSE IF e.action = "create" THEN IF s = "absent" THEN "draft" ELSE s
    ELSE IF e.action = "retire" THEN "retired" ELSE "active"

(* A log with one entry more tells the status after it.                    *)
LEMMA ToldAfter ==
    ASSUME NEW log \in Seq(LogEntries), NEW e \in LogEntries, NEW p \in Policies,
           NEW s \in ReviewPolicy!Statuses, ReviewPolicy!Tells(log, p, s),
           s = "absent" => \A i \in 1..Len(log) : log[i].policy # p
    PROVE  ReviewPolicy!Tells(Append(log, e), p, After(e, p, s))
  <1> DEFINE n == Len(log)
             all == Append(log, e)
             changing == {"activate", "rollback", "retire"}
             own == {i \in 1..n : log[i].policy = p}
             moves == {i \in own : log[i].action \in changing}
             ownAll == {i \in 1..Len(all) : all[i].policy = p}
             movesAll == {i \in ownAll : all[i].action \in changing}
  <1>1. /\ n \in Nat /\ Len(all) = n + 1 /\ all[n + 1] = e
        /\ \A i \in 1..n : all[i] = log[i]
    OBVIOUS
  <1> HIDE DEF n, all
  <1>2. \A i : i \in ownAll <=> i \in own \/ (i = n + 1 /\ e.policy = p)
    BY <1>1 DEF n
  <1>3. \A i : i \in movesAll <=>
           i \in moves \/ (i = n + 1 /\ e.policy = p /\ e.action \in changing)
    BY <1>1, <1>2
  <1>4. own \subseteq 1..n /\ moves \subseteq own
    OBVIOUS
  <1>5. /\ \A i \in moves : (\A j \in moves : j <= i) =>
              s = IF log[i].action = "retire" THEN "retired" ELSE "active"
        /\ moves = {} => s = IF \E i \in own : log[i].action = "create" THEN "draft" ELSE "absent"
        /\ s = "absent" => own = {}
    BY DEF ReviewPolicy!Tells, n
  <1> HIDE DEF own, moves, ownAll, movesAll
  <1> SUFFICES
        /\ \A i \in movesAll : (\A j \in movesAll : j <= i) =>
              After(e, p, s) = IF all[i].action = "retire" THEN "retired" ELSE "active"
        /\ movesAll = {} =>
              After(e, p, s) = IF \E i \in ownAll : all[i].action = "create" THEN "draft" ELSE "absent"
    BY DEF ReviewPolicy!Tells, ownAll, movesAll, all
  <1>6. CASE e.policy = p /\ e.action \in changing
    <2>1. n + 1 \in movesAll
      BY <1>3, <1>6
    <2>2. ASSUME NEW i \in movesAll, \A j \in movesAll : j <= i PROVE i = n + 1
      <3>1. i \in 1..n \/ i = n + 1
        BY <1>3, <1>4
      <3>2. n + 1 <= i
        BY <2>1, <2>2
      <3> QED BY <1>1, <3>1, <3>2
    <2> QED BY <1>1, <1>6, <2>1, <2>2 DEF After
  <1>7. CASE ~(e.policy = p /\ e.action \in changing)
    <2>1. \A i : i \in movesAll <=> i \in moves
      BY <1>3, <1>7
    <2>2. \A i \in moves : all[i] = log[i]
      BY <1>1, <1>4
    <2>3. CASE e.policy = p /\ e.action = "create"
      <3>1. After(e, p, s) = IF s = "absent" THEN "draft" ELSE s
        BY <2>3 DEF After
      <3>2. \E i \in ownAll : all[i].action = "create"
        BY <1>1, <1>2, <2>3
      <3>3. moves # {} => s # "absent"
        BY <1>4, <1>5
      <3> QED BY <1>5, <2>1, <2>2, <3>1, <3>2, <3>3
    <2>4. CASE ~(e.policy = p /\ e.action = "create")
      <3>1. After(e, p, s) = s
        BY <1>7, <2>4 DEF After
      <3>2. (\E i \in ownAll : all[i].action = "create") <=> (\E i \in own : log[i].action = "create")
        BY <1>1, <1>2, <1>4, <2>4
      <3> QED BY <1>5, <2>1, <2>2, <3>1, <3>2
    <2> QED BY <2>3, <2>4
  <1> QED BY <1>6, <1>7

(* A log with one entry more tells what the policies are after it.         *)
LEMMA LogGrows ==
    ASSUME NEW log \in Seq(LogEntries), NEW pol \in [Policies -> PolicyRows],
           NEW after \in [Policies -> PolicyRows], NEW e \in LogEntries, LogTells(log, pol),
           \A p \in Policies : after[p].status = After(e, p, pol[p].status),
           after[e.policy].status # "absent",
           e.action \in {"activate", "rollback"} => Replaces(Append(log, e), Len(log) + 1)
    PROVE  LogTells(Append(log, e), after)
  <1> DEFINE n == Len(log)
             all == Append(log, e)
  <1>1. /\ n \in Nat /\ Len(all) = n + 1 /\ all[n + 1] = e
        /\ \A i \in 1..n : all[i] = log[i]
    OBVIOUS
  <1>2. ASSUME NEW p \in Policies PROVE ReviewPolicy!Tells(all, p, after[p].status)
    <2>1. pol[p].status \in ReviewPolicy!Statuses
      BY DEF PolicyRows
    <2>2. pol[p].status = "absent" => \A i \in 1..Len(log) : log[i].policy # p
      BY DEF LogTells
    <2> QED BY <2>1, <2>2, ToldAfter DEF LogTells
  <1> HIDE DEF n, all
  <1>3. ASSUME NEW i \in 1..n, log[i].action \in {"activate", "rollback"} PROVE Replaces(all, i)
    <2>1. Replaces(log, i)
      BY <1>3 DEF LogTells, n
    <2>2. all[i] = log[i] /\ \A j \in 1..(i - 1) : j \in 1..n /\ all[j] = log[j]
      BY <1>1
    <2>3. {j \in 1..(i - 1) : all[j].key = <<all[i].key[1], "retire">>} =
          {j \in 1..(i - 1) : log[j].key = <<log[i].key[1], "retire">>}
      BY <2>2
    <2>4. CASE i - 1 \in 1..(i - 1)
      BY <2>1, <2>2, <2>3, <2>4 DEF Replaces
    <2>5. CASE 1..(i - 1) = {}
      BY <2>1, <2>2, <2>3, <2>5 DEF Replaces
    <2> QED BY <1>1, <2>4, <2>5
  <1>4. ASSUME NEW i \in 1..n PROVE after[log[i].policy].status # "absent"
    <2>1. log[i] \in LogEntries
      BY DEF n
    <2>2. log[i].policy \in Policies
      BY <2>1 DEF LogEntries
    <2>3. pol[log[i].policy].status # "absent"
      BY DEF LogTells, n
    <2> QED BY <2>2, <2>3 DEF After
  <1>5. ASSUME NEW i \in 1..Len(all)
        PROVE  /\ all[i].action \in {"activate", "rollback"} => Replaces(all, i)
               /\ after[all[i].policy].status # "absent"
    <2>1. CASE i = n + 1
      BY <1>1, <2>1 DEF n, all
    <2>2. CASE i \in 1..n
      BY <1>1, <1>3, <1>4, <2>2
    <2> QED BY <1>1, <2>1, <2>2
  <1> QED BY <1>2, <1>5 DEF LogTells, all

(* A call has an entry more in the log, which is not of a policy retired.  *)
LEMMA KeyedGrows ==
    ASSUME NEW log \in Seq(LogEntries), NEW calls \in [Calls -> CallTypes], NEW e \in LogEntries,
           NEW k \in Calls, Keyed(log, calls), calls[k].op # "none", e.policy = calls[k].policy,
           e.key = <<k, "own">> \/ e.key = <<k, "validate">>
    PROVE  Keyed(Append(log, e), calls)
  <1> DEFINE n == Len(log)
             all == Append(log, e)
  <1>1. /\ n \in Nat /\ Len(all) = n + 1 /\ all[n + 1] = e
        /\ \A i \in 1..n : all[i] = log[i]
    OBVIOUS
  <1> HIDE DEF n, all
  <1>2. ASSUME NEW i \in 1..Len(all), NEW q \in Calls
        PROVE  /\ all[i].key = <<q, "own">> =>
                     calls[q].op # "none" /\ all[i].policy = calls[q].policy
               /\ all[i].key = <<q, "retire">> => \E j \in 1..Len(all) : all[j].key = <<q, "own">>
    <2>1. CASE i = n + 1
      BY <1>1, <2>1
    <2>2. CASE i \in 1..n
      <3>1. /\ log[i].key = <<q, "own">> =>
                  calls[q].op # "none" /\ log[i].policy = calls[q].policy
            /\ log[i].key = <<q, "retire">> => \E j \in 1..n : log[j].key = <<q, "own">>
        BY <2>2 DEF Keyed, n
      <3>2. \A j \in 1..n : j \in 1..Len(all) /\ all[j] = log[j]
        BY <1>1
      <3> QED BY <2>2, <3>1, <3>2
    <2> QED BY <1>1, <2>1, <2>2
  <1> QED BY <1>2 DEF Keyed, all

LEMMA KeyedStays ==
    ASSUME NEW log, NEW calls, NEW later, Keyed(log, calls),
           \A q \in Calls : calls[q].op # "none" =>
               later[q].op = calls[q].op /\ later[q].policy = calls[q].policy
    PROVE  Keyed(log, later)
  BY DEF Keyed

(* The active policy, if there is one.                                     *)
LEMMA ActiveIs ==
    \/ ReviewPolicy!Active = NoPolicy /\ ReviewPolicy!Actives = {}
    \/ ReviewPolicy!Active \in Policies /\ policy[ReviewPolicy!Active].status = "active"
  <1>1. CASE ReviewPolicy!Actives = {}
    BY <1>1 DEF ReviewPolicy!Active
  <1>2. CASE ReviewPolicy!Actives # {}
    <2>1. ReviewPolicy!Active = CHOOSE p \in ReviewPolicy!Actives : TRUE
      BY <1>2 DEF ReviewPolicy!Active
    <2>2. ReviewPolicy!Active \in ReviewPolicy!Actives
      BY <1>2, <2>1, Zenon
    <2> QED BY <2>2 DEF ReviewPolicy!Actives
  <1> QED BY <1>1, <1>2

(* A call that moves on stays with what it is for.                         *)
LEMMA CallMoves ==
    ASSUME PolicyInv, NEW k \in Calls, NEW c \in CallTypes, call' = [call EXCEPT ![k] = c],
           call[k].op # "none" => c.op = call[k].op /\ c.policy = call[k].policy,
           Fits(c, policy'),
           \A p \in Policies : policy[p].status # "absent" => policy'[p].status # "absent"
    PROVE  /\ call' \in [Calls -> CallTypes] /\ call'[k] = c
           /\ \A q \in Calls : Fits(call'[q], policy')
           /\ Keyed(audit, call')
  <1>1. call \in [Calls -> CallTypes] /\ Keyed(audit, call)
    BY DEF PolicyInv, PolicyTyped
  <1>2. call' \in [Calls -> CallTypes] /\ call'[k] = c
    BY <1>1
  <1>3. ASSUME NEW q \in Calls, q # k PROVE Fits(call'[q], policy')
    <2>1. call'[q] = call[q] /\ call[q] \in CallTypes /\ Fits(call[q], policy)
      BY <1>1, <1>3 DEF PolicyInv
    <2>2. call[q].at # "start" => call[q].policy \in Policies
      BY <2>1 DEF Fits, CallTypes
    <2> QED BY <2>1, <2>2 DEF Fits
  <1>4. \A q \in Calls : call[q].op # "none" =>
            call'[q].op = call[q].op /\ call'[q].policy = call[q].policy
    BY <1>1, <1>2
  <1> QED BY <1>1, <1>2, <1>3, <1>4, KeyedStays

(* A step of a call alone.                                                 *)
LEMMA CallAlone ==
    ASSUME PolicyInv, NEW k \in Calls, NEW c \in CallTypes, call' = [call EXCEPT ![k] = c],
           call[k].op # "none" => c.op = call[k].op /\ c.policy = call[k].policy,
           Fits(c, policy), UNCHANGED <<policy, audit, snapshot, migrations>>
    PROVE  PolicyInv'
  <1>1. Fits(c, policy')
    BY Zenon
  <1>2. /\ call' \in [Calls -> CallTypes] /\ \A q \in Calls : Fits(call'[q], policy')
        /\ Keyed(audit, call')
    BY <1>1, CallMoves
  <1>3. PolicyTyped'
    BY <1>2 DEF PolicyInv, PolicyTyped
  <1>4. LogTells(audit, policy)' /\ Keyed(audit, call)'
    BY <1>2, Zenon DEF PolicyInv
  <1>5. ReviewPolicy!ActiveIsValidated' /\ ReviewPolicy!MigratesOnce'
    BY DEF PolicyInv, ReviewPolicy!ActiveIsValidated, ReviewPolicy!Actives,
       ReviewPolicy!MigratesOnce
  <1>6. (\A q \in Calls : Fits(call[q], policy))'
    BY <1>2
  <1> QED BY <1>3, <1>4, <1>5, <1>6 DEF PolicyInv

(* A call that commits a change with an entry of its own.                  *)
LEMMA Commits ==
    ASSUME PolicyInv, NEW k \in Calls, NEW c \in CallTypes, call' = [call EXCEPT ![k] = c],
           call[k].op # "none", c.op = call[k].op, c.policy = call[k].policy, Fits(c, policy'),
           NEW e \in LogEntries, audit' = Append(audit, e), e.policy = call[k].policy,
           e.key = <<k, "own">> \/ e.key = <<k, "validate">>,
           policy' \in [Policies -> PolicyRows],
           \A p \in Policies : policy'[p].status = After(e, p, policy[p].status),
           policy'[e.policy].status # "absent",
           \A p \in Policies : policy'[p].status = "active" => policy'[p].valid,
           e.action \in {"activate", "rollback"} => Replaces(Append(audit, e), Len(audit) + 1),
           UNCHANGED <<snapshot, migrations>>
    PROVE  PolicyInv'
  <1>1. audit \in Seq(LogEntries) /\ policy \in [Policies -> PolicyRows] /\ LogTells(audit, policy)
    BY DEF PolicyInv, PolicyTyped
  <1>2. LogTells(Append(audit, e), policy')
    BY <1>1, LogGrows
  <1>3. \A p \in Policies : policy[p].status # "absent" => policy'[p].status # "absent"
    BY DEF After
  <1>4. /\ call' \in [Calls -> CallTypes] /\ call'[k] = c
        /\ \A q \in Calls : Fits(call'[q], policy')
        /\ Keyed(audit, call')
    BY <1>3, CallMoves
  <1>5. Keyed(Append(audit, e), call')
    BY <1>1, <1>4, KeyedGrows
  <1>6. PolicyTyped'
    BY <1>1, <1>4 DEF PolicyInv, PolicyTyped
  <1>7. LogTells(audit, policy)' /\ Keyed(audit, call)'
    BY <1>2, <1>5, Zenon
  <1>8. ReviewPolicy!ActiveIsValidated' /\ ReviewPolicy!MigratesOnce'
    BY DEF PolicyInv, ReviewPolicy!ActiveIsValidated, ReviewPolicy!Actives,
       ReviewPolicy!MigratesOnce
  <1>9. (\A q \in Calls : Fits(call[q], policy))'
    BY <1>4
  <1> QED BY <1>6, <1>7, <1>8, <1>9 DEF PolicyInv

(* A call that has ended is one that could be made again.                  *)
Ended(k) ==
    [op |-> call[k].op, policy |-> call[k].policy, at |-> "start", seen |-> NoPolicy,
     valid |-> FALSE, over |-> TRUE]

LEMMA EndFits ==
    ASSUME PolicyInv, NEW k \in Calls
    PROVE  /\ Ended(k) \in CallTypes
           /\ Ended(k).op = call[k].op /\ Ended(k).policy = call[k].policy
           /\ \A pol : Fits(Ended(k), pol)
           /\ ReviewPolicy!End(k) => call' = [call EXCEPT ![k] = Ended(k)]
  <1>1. call[k] \in CallTypes /\ Fits(call[k], policy)
    BY DEF PolicyInv, PolicyTyped
  <1>2. call[k].op \in ReviewPolicy!Operations /\ call[k].policy \in OneOrNone
    BY <1>1 DEF CallTypes
  <1>3. Ended(k) \in CallTypes
    BY <1>2 DEF Ended, CallTypes, OneOrNone
  <1>4. ASSUME NEW pol PROVE Fits(Ended(k), pol)
    BY <1>1 DEF Fits, Ended
  <1>5. ReviewPolicy!End(k) => call' = [call EXCEPT ![k] = Ended(k)]
    BY DEF ReviewPolicy!End, ReviewPolicy!Idle, Ended
  <1> QED BY <1>3, <1>4, <1>5 DEF Ended

LEMMA EntryFits ==
    ASSUME NEW k \in Calls, NEW what \in {"own", "validate", "retire"}, NEW p \in Policies,
           NEW action \in ReviewPolicy!Operations, NEW was \in OneOrNone
    PROVE  LET e == ReviewPolicy!Entry(k, what, p, action, was) IN
           /\ e \in LogEntries /\ e.key = <<k, what>> /\ e.policy = p /\ e.action = action
           /\ e.base = was
  BY DEF ReviewPolicy!Entry, LogEntries

(* create_draft.                                                           *)
LEMMA CreateTells ==
    ASSUME PolicyInv, NEW k \in Calls, ReviewPolicy!Create(k)
    PROVE  PolicyInv'
  <1> DEFINE p == call[k].policy
             e == ReviewPolicy!Entry(k, "own", p, "create", ReviewPolicy!Active)
  <1>1. /\ call[k].op = "create"
        /\ policy' = IF policy[p].status = "absent" THEN [policy EXCEPT ![p].status = "draft"]
                     ELSE policy
        /\ audit' = IF ReviewPolicy!Repeated(k, "own") THEN audit ELSE Append(audit, e)
        /\ ReviewPolicy!End(k) /\ UNCHANGED <<snapshot, migrations>>
    BY Zenon DEF ReviewPolicy!Create, ReviewPolicy!Asked
  <1>2. /\ call[k] \in CallTypes /\ p \in Policies /\ policy \in [Policies -> PolicyRows]
        /\ ReviewPolicy!Active \in OneOrNone
    BY <1>1, ActiveIs DEF PolicyInv, PolicyTyped, Fits, OneOrNone
  <1>3. /\ Ended(k) \in CallTypes /\ call' = [call EXCEPT ![k] = Ended(k)]
        /\ Ended(k).op = call[k].op /\ Ended(k).policy = p
        /\ \A pol : Fits(Ended(k), pol)
    BY <1>1, EndFits
  <1>4. CASE ReviewPolicy!Repeated(k, "own")
    <2>1. policy[p].status # "absent"
      BY <1>4 DEF ReviewPolicy!Repeated, PolicyInv, LogTells, Keyed
    <2> QED BY <1>1, <1>3, <1>4, <2>1, CallAlone
  <1>5. CASE ~ReviewPolicy!Repeated(k, "own")
    <2>1. /\ e \in LogEntries /\ e.key = <<k, "own">> /\ e.policy = p /\ e.action = "create"
      BY <1>2, EntryFits DEF ReviewPolicy!Operations
    <2> HIDE DEF e
    <2>2. \A q \in Policies : policy'[q].status =
              IF q = p /\ policy[q].status = "absent" THEN "draft" ELSE policy[q].status
      BY <1>1, <1>2 DEF PolicyRows
    <2>3. \A q \in Policies : policy'[q].status = After(e, q, policy[q].status)
      BY <2>1, <2>2 DEF After
    <2>4. policy' \in [Policies -> PolicyRows]
      BY <1>1, <1>2 DEF PolicyRows, ReviewPolicy!Statuses
    <2>5. ASSUME NEW q \in Policies, policy'[q].status = "active" PROVE policy'[q].valid
      <3>1. policy[q].status = "active" /\ policy'[q] = policy[q]
        BY <1>1, <1>2, <2>2, <2>5
      <3> QED BY <3>1 DEF PolicyInv, ReviewPolicy!ActiveIsValidated, ReviewPolicy!Actives
    <2>6. policy'[p].status # "absent"
      BY <1>2, <2>2
    <2> QED BY <1>1, <1>2, <1>3, <1>5, <2>1, <2>3, <2>4, <2>5, <2>6, Commits
  <1> QED BY <1>4, <1>5

(* Where a call was and is on, with what it is for as it was.              *)
IsOn(c, k, at) ==
    /\ c \in CallTypes /\ c.op = call[k].op /\ c.policy = call[k].policy /\ c.at = at
    /\ c.over <=> call[k].over

LEMMA StepFits ==
    ASSUME PolicyInv, NEW k \in Calls, NEW at \in {"checked", "validated", "read"},
           NEW b \in BOOLEAN, NEW s \in OneOrNone
    PROVE  /\ IsOn([call[k] EXCEPT !.at = at], k, at)
           /\ IsOn([call[k] EXCEPT !.at = at, !.valid = b], k, at)
           /\ IsOn([call[k] EXCEPT !.at = at, !.seen = s], k, at)
  <1> DEFINE was == call[k]
  <1>1. was \in CallTypes
    BY DEF PolicyInv, PolicyTyped
  <1> HIDE DEF was
  <1>2. ASSUME NEW c, c = [was EXCEPT !.at = at, !.valid = b]
        PROVE  /\ c \in CallTypes /\ c.op = was.op /\ c.policy = was.policy /\ c.at = at
               /\ c.over <=> was.over
    BY <1>1, <1>2 DEF CallTypes
  <1>3. ASSUME NEW c, c = [was EXCEPT !.at = at]
        PROVE  /\ c \in CallTypes /\ c.op = was.op /\ c.policy = was.policy /\ c.at = at
               /\ c.over <=> was.over
    BY <1>1, <1>3 DEF CallTypes
  <1>4. ASSUME NEW c, c = [was EXCEPT !.at = at, !.seen = s]
        PROVE  /\ c \in CallTypes /\ c.op = was.op /\ c.policy = was.policy /\ c.at = at
               /\ c.over <=> was.over
    BY <1>1, <1>4 DEF CallTypes
  <1> QED BY <1>2, <1>3, <1>4, Zenon DEF was, IsOn

(* validate_draft, up to its commit.                                       *)
LEMMA AskToolsTells ==
    ASSUME PolicyInv, NEW k \in Calls, ReviewPolicy!AskTools(k)
    PROVE  PolicyInv'
  <1>1. /\ call[k].op \in {"validate", "activate", "rollback"} /\ ~call[k].over
        /\ policy[call[k].policy].status # "absent"
        /\ UNCHANGED <<policy, audit, snapshot, migrations>>
    BY DEF ReviewPolicy!AskTools, ReviewPolicy!Asked
  <1>2. \E b \in BOOLEAN : call' = [call EXCEPT ![k].at = "checked", ![k].valid = b]
    BY Zenon DEF ReviewPolicy!AskTools
  <1>3. PICK b \in BOOLEAN : call' = [call EXCEPT ![k].at = "checked", ![k].valid = b]
    BY <1>2
  <1> DEFINE c == [call[k] EXCEPT !.at = "checked", !.valid = b]
  <1>4. call' = [call EXCEPT ![k] = c]
    BY <1>3 DEF PolicyInv, PolicyTyped
  <1>5. /\ c \in CallTypes /\ c.op = call[k].op /\ c.policy = call[k].policy
        /\ c.at = "checked" /\ (c.over <=> call[k].over)
    <2>1. NoPolicy \in OneOrNone
      BY DEF OneOrNone
    <2>2. IsOn(c, k, "checked")
      BY <2>1, StepFits, Zenon
    <2> QED BY <2>2 DEF IsOn
  <1> HIDE DEF c
  <1>6. Fits(c, policy)
    BY <1>1, <1>5 DEF Fits, PolicyInv
  <1> QED BY <1>1, <1>4, <1>5, <1>6, CallAlone

(* The active policy is read.                                              *)
LEMMA ReadActiveTells ==
    ASSUME PolicyInv, NEW k \in Calls, ReviewPolicy!ReadActive(k)
    PROVE  PolicyInv'
  <1>1. /\ \/ call[k].at = "validated"
           \/ call[k].op = "retire" /\ ~call[k].over /\ policy[call[k].policy].status # "absent"
        /\ call' = [call EXCEPT ![k].at = "read", ![k].seen = ReviewPolicy!Active]
        /\ UNCHANGED <<policy, audit, snapshot, migrations>>
    BY DEF ReviewPolicy!ReadActive, ReviewPolicy!Asked
  <1> DEFINE c == [call[k] EXCEPT !.at = "read", !.seen = ReviewPolicy!Active]
  <1>2. call' = [call EXCEPT ![k] = c]
    BY <1>1 DEF PolicyInv, PolicyTyped
  <1>3. ReviewPolicy!Active \in OneOrNone
    BY ActiveIs DEF OneOrNone
  <1>4. /\ c \in CallTypes /\ c.op = call[k].op /\ c.policy = call[k].policy
        /\ c.at = "read" /\ (c.over <=> call[k].over)
    <2>1. IsOn(c, k, "read")
      BY <1>3, StepFits, Zenon
    <2> QED BY <2>1 DEF IsOn
  <1> HIDE DEF c
  <1>5. Fits(c, policy)
    BY <1>1, <1>4 DEF Fits, PolicyInv
  <1> QED BY <1>1, <1>2, <1>4, <1>5, CallAlone

(* _validate_review_policy_record.                                         *)
LEMMA CommitValidationTells ==
    ASSUME PolicyInv, NEW k \in Calls, ReviewPolicy!CommitValidation(k)
    PROVE  PolicyInv'
  <1> DEFINE p == call[k].policy
             what == IF call[k].op = "validate" THEN "own" ELSE "validate"
             e == ReviewPolicy!Entry(k, what, p, "validate", NoPolicy)
             on == [call[k] EXCEPT !.at = "validated"]
  <1>1. /\ call[k].at = "checked" /\ UNCHANGED <<snapshot, migrations>>
        /\ \/ ReviewPolicy!End(k)
           \/ what # "own" /\ ReviewPolicy!Step(k, "validated")
        /\ \/ UNCHANGED <<policy, audit>>
           \/ /\ ReviewPolicy!MayBeValidated(p)
              /\ policy' = [policy EXCEPT ![p].valid = call[k].valid]
              /\ audit' = Append(audit, e)
    BY DEF ReviewPolicy!CommitValidation
  <1>2. /\ call[k] \in CallTypes /\ p \in Policies /\ policy \in [Policies -> PolicyRows]
        /\ call[k].op \in {"validate", "activate", "rollback"} /\ ~call[k].over
        /\ policy[p].status # "absent" /\ call \in [Calls -> CallTypes]
        /\ call[k].valid \in BOOLEAN
    BY <1>1 DEF PolicyInv, PolicyTyped, Fits, CallTypes
  <1>3. \E c \in CallTypes : /\ call' = [call EXCEPT ![k] = c]
                             /\ c.op = call[k].op /\ c.policy = p
                             /\ \A pol : pol[p].status # "absent" => Fits(c, pol)
    <2>1. CASE ReviewPolicy!End(k)
      BY <2>1, EndFits
    <2>2. CASE what # "own" /\ ReviewPolicy!Step(k, "validated")
      <3>1. call' = [call EXCEPT ![k] = on]
        BY <1>2, <2>2 DEF ReviewPolicy!Step
      <3>2. /\ on \in CallTypes /\ on.op = call[k].op /\ on.policy = p
            /\ on.at = "validated" /\ (on.over <=> call[k].over)
        <4>1. NoPolicy \in OneOrNone
          BY DEF OneOrNone
        <4>2. IsOn(on, k, "validated")
          BY <4>1, StepFits, Zenon
        <4> QED BY <4>2 DEF IsOn
      <3> HIDE DEF on
      <3>3. \A pol : pol[p].status # "absent" => Fits(on, pol)
        BY <1>2, <2>2, <3>2 DEF Fits
      <3> QED BY <3>1, <3>2, <3>3
    <2> QED BY <1>1, <2>1, <2>2
  <1>4. PICK c \in CallTypes : /\ call' = [call EXCEPT ![k] = c]
                               /\ c.op = call[k].op /\ c.policy = p
                               /\ \A pol : pol[p].status # "absent" => Fits(c, pol)
    BY <1>3
  <1>5. CASE UNCHANGED <<policy, audit>>
    BY <1>1, <1>2, <1>4, <1>5, CallAlone
  <1>6. CASE /\ ReviewPolicy!MayBeValidated(p)
             /\ policy' = [policy EXCEPT ![p].valid = call[k].valid]
             /\ audit' = Append(audit, e)
    <2>1. /\ e \in LogEntries /\ e.key = <<k, what>> /\ e.policy = p /\ e.action = "validate"
      BY <1>2, EntryFits DEF ReviewPolicy!Operations, OneOrNone
    <2> HIDE DEF e
    <2>2. /\ policy' \in [Policies -> PolicyRows]
          /\ \A q \in Policies : policy'[q].status = policy[q].status
          /\ \A q \in Policies : q # p => policy'[q] = policy[q]
      BY <1>2, <1>6 DEF PolicyRows
    <2>3. \A q \in Policies : policy'[q].status = After(e, q, policy[q].status)
      BY <2>1, <2>2 DEF After
    <2>4. ASSUME NEW q \in Policies, policy'[q].status = "active" PROVE policy'[q].valid
      <3>1. q # p /\ policy[q].status = "active"
        BY <1>6, <2>2, <2>4 DEF ReviewPolicy!MayBeValidated
      <3> QED BY <2>2, <3>1 DEF PolicyInv, ReviewPolicy!ActiveIsValidated, ReviewPolicy!Actives
    <2>5. policy'[p].status # "absent" /\ Fits(c, policy')
      BY <1>2, <1>4, <2>2
    <2>6. /\ e.key = <<k, "own">> \/ e.key = <<k, "validate">>
          /\ e.action \notin {"activate", "rollback"} /\ call[k].op # "none"
          /\ audit' = Append(audit, e) /\ UNCHANGED <<snapshot, migrations>>
          /\ call' = [call EXCEPT ![k] = c] /\ c.op = call[k].op /\ c.policy = p
      BY <1>1, <1>2, <1>4, <1>6, <2>1
    <2> HIDE DEF what
    <2> QED BY <2>1, <2>2, <2>3, <2>4, <2>5, <2>6, Commits
  <1> QED BY <1>1, <1>5, <1>6

(* A policy is retired, or replaces the active one if there is one.        *)
LEMMA CommitTransitionTells ==
    ASSUME PoliciesApart, PolicyInv, NEW k \in Calls, ReviewPolicy!CommitTransition(k)
    PROVE  PolicyInv'
  <1> DEFINE p == call[k].policy
             old == ReviewPolicy!Active
             e == ReviewPolicy!Entry(k, "own", p, call[k].op, call[k].seen)
             retired == ReviewPolicy!Entry(k, "retire", old, "retire", old)
             n == Len(audit)
  <1>1. /\ call[k].at = "read" /\ UNCHANGED <<snapshot, migrations>> /\ ReviewPolicy!End(k)
        /\ \/ UNCHANGED <<policy, audit>>
           \/ /\ ~ReviewPolicy!Repeated(k, "own") /\ ReviewPolicy!Allowed(k)
              /\ call[k].op = "retire"
              /\ policy' = [policy EXCEPT ![p].status = "retired"] /\ audit' = Append(audit, e)
           \/ /\ ~ReviewPolicy!Repeated(k, "own") /\ ReviewPolicy!Allowed(k)
              /\ call[k].op # "retire"
              /\ policy' = [q \in Policies |->
                     IF q = p THEN [policy[q] EXCEPT !.status = "active"]
                     ELSE IF q = old THEN [policy[q] EXCEPT !.status = "retired"]
                     ELSE policy[q]]
              /\ audit' = audit \o ReviewPolicy!Superseding(k) \o <<e>>
    BY DEF ReviewPolicy!CommitTransition
  <1>2. /\ call[k] \in CallTypes /\ p \in Policies /\ policy \in [Policies -> PolicyRows]
        /\ call[k].op \in {"activate", "rollback", "retire"} /\ call[k].op # "none"
        /\ policy[p].status # "absent" /\ audit \in Seq(LogEntries)
        /\ call[k].seen \in OneOrNone
    BY <1>1 DEF PolicyInv, PolicyTyped, Fits, CallTypes
  <1>3. /\ Ended(k) \in CallTypes /\ call' = [call EXCEPT ![k] = Ended(k)]
        /\ Ended(k).op = call[k].op /\ Ended(k).policy = p
        /\ \A pol : Fits(Ended(k), pol)
    BY <1>1, EndFits
  <1>4. /\ e \in LogEntries /\ e.key = <<k, "own">> /\ e.policy = p /\ e.action = call[k].op
        /\ e.base = call[k].seen
    BY <1>2, EntryFits DEF ReviewPolicy!Operations
  <1>5. CASE UNCHANGED <<policy, audit>>
    BY <1>1, <1>3, <1>5, EndFits, CallAlone
  <1>6. CASE /\ call[k].op = "retire"
             /\ policy' = [policy EXCEPT ![p].status = "retired"] /\ audit' = Append(audit, e)
    <2> HIDE DEF e
    <2>1. /\ policy' \in [Policies -> PolicyRows] /\ policy'[p].status = "retired"
          /\ \A q \in Policies : q # p => policy'[q] = policy[q]
      BY <1>2, <1>6 DEF PolicyRows, ReviewPolicy!Statuses
    <2>2. \A q \in Policies : policy'[q].status = After(e, q, policy[q].status)
      BY <1>4, <1>6, <2>1 DEF After
    <2>3. \A q \in Policies : policy'[q].status = "active" => policy'[q].valid
      BY <2>1 DEF PolicyInv, ReviewPolicy!ActiveIsValidated, ReviewPolicy!Actives
    <2>4. /\ policy'[e.policy].status # "absent" /\ e.action \notin {"activate", "rollback"}
          /\ audit' = Append(audit, e) /\ UNCHANGED <<snapshot, migrations>>
          /\ Fits(Ended(k), policy')
      BY <1>1, <1>3, <1>4, <1>6, <2>1
    <2> QED BY <1>2, <1>3, <1>4, <2>1, <2>2, <2>3, <2>4, Commits
  <1>7. CASE /\ ~ReviewPolicy!Repeated(k, "own") /\ ReviewPolicy!Allowed(k)
             /\ call[k].op # "retire"
             /\ policy' = [q \in Policies |->
                    IF q = p THEN [policy[q] EXCEPT !.status = "active"]
                    ELSE IF q = old THEN [policy[q] EXCEPT !.status = "retired"]
                    ELSE policy[q]]
             /\ audit' = audit \o ReviewPolicy!Superseding(k) \o <<e>>
    <2>1. /\ call[k].op \in {"activate", "rollback"} /\ call[k].seen = old
          /\ policy[p].status \in {"draft", "retired"} /\ policy[p].valid
      BY <1>2, <1>7 DEF ReviewPolicy!Allowed, ReviewPolicy!SeenIsActive, ReviewPolicy!From
    <2>2. \A j \in 1..n : audit[j].key # <<k, "own">> /\ audit[j].key # <<k, "retire">>
      BY <1>7 DEF ReviewPolicy!Repeated, PolicyInv, Keyed
    <2>3. /\ policy' \in [Policies -> PolicyRows]
          /\ policy'[p].status = "active" /\ (policy'[p].valid <=> policy[p].valid)
          /\ \A q \in Policies : q # p /\ q # old => policy'[q] = policy[q]
          /\ \A q \in Policies : q # p /\ q = old => policy'[q].status = "retired"
      BY <1>2, <1>7 DEF PolicyRows, ReviewPolicy!Statuses
    <2>4. \A q \in Policies : policy'[q].status = "active" => policy'[q].valid
      BY <2>1, <2>3 DEF PolicyInv, ReviewPolicy!ActiveIsValidated, ReviewPolicy!Actives
    <2> HIDE DEF e, retired
    <2>5. CASE old = NoPolicy
      <3>1. audit' = Append(audit, e)
        <4>1. ReviewPolicy!Superseding(k) = <<>>
          BY <2>5 DEF ReviewPolicy!Superseding
        <4>2. audit' = audit \o <<>> \o <<e>>
          BY <1>7, <4>1
        <4> HIDE DEF n
        <4> QED BY <1>2, <1>4, <4>2
      <3>2. \A q \in Policies : policy'[q].status = After(e, q, policy[q].status)
        BY <1>4, <2>1, <2>3, <2>5 DEF After, PoliciesApart
      <3>3. Replaces(Append(audit, e), n + 1)
        <4>1. /\ Append(audit, e)[n + 1] = e /\ n \in Nat
              /\ \A j \in 1..n : Append(audit, e)[j] = audit[j]
          BY <1>2, <1>4
        <4>2. e.key[1] = k /\ e.base = NoPolicy
          BY <1>4, <2>1, <2>5
        <4>3. {j \in 1..((n + 1) - 1) : Append(audit, e)[j].key = <<k, "retire">>} = {}
          BY <2>2, <4>1
        <4> QED BY <4>1, <4>2, <4>3 DEF Replaces
      <3>4. policy'[e.policy].status # "absent" /\ Fits(Ended(k), policy')
        BY <1>3, <1>4, <2>3
      <3> QED BY <1>1, <1>2, <1>3, <1>4, <2>3, <2>4, <3>1, <3>2, <3>3, <3>4, Commits
    <2>6. CASE old # NoPolicy
      <3> DEFINE mid == [policy EXCEPT ![old].status = "retired"]
                 most == Append(audit, retired)
                 all == Append(most, e)
      <3>1. old \in Policies /\ policy[old].status = "active" /\ old # p /\ old \in OneOrNone
        BY <2>1, <2>6, ActiveIs DEF OneOrNone
      <3>2. /\ retired \in LogEntries /\ retired.key = <<k, "retire">> /\ retired.policy = old
            /\ retired.action = "retire"
        BY <3>1, EntryFits DEF ReviewPolicy!Operations, retired
      <3>3. /\ mid \in [Policies -> PolicyRows] /\ mid[old].status = "retired"
            /\ \A q \in Policies : q # old => mid[q] = policy[q]
        BY <1>2, <3>1 DEF PolicyRows, ReviewPolicy!Statuses
      <3> HIDE DEF mid
      <3>4. \A q \in Policies : mid[q].status = After(retired, q, policy[q].status)
        BY <3>1, <3>2, <3>3 DEF After
      <3>5. LogTells(most, mid)
        BY <1>2, <3>1, <3>2, <3>3, <3>4, LogGrows DEF PolicyInv
      <3>6. /\ most \in Seq(LogEntries) /\ Len(most) = n + 1 /\ most[n + 1] = retired /\ n \in Nat
            /\ \A j \in 1..n : most[j] = audit[j]
        BY <1>2, <3>2
      <3> HIDE DEF most
      <3>7. /\ all \in Seq(LogEntries) /\ Len(all) = n + 2 /\ all[n + 2] = e
            /\ \A j \in 1..(n + 1) : all[j] = most[j]
        BY <1>4, <3>6
      <3>8. audit' = all
        <4>1. ReviewPolicy!Superseding(k) = <<retired>>
          BY <2>6 DEF ReviewPolicy!Superseding, retired
        <4>2. audit' = audit \o <<retired>> \o <<e>>
          BY <1>7, <4>1
        <4>3. most = audit \o <<retired>>
          BY <1>2, <3>2, AppendIsConcat DEF most
        <4>4. all = most \o <<e>>
          BY <1>4, <3>6, AppendIsConcat
        <4> QED BY <4>2, <4>3, <4>4
      <3>9. Replaces(all, Len(most) + 1)
        <4>1. e.key[1] = k /\ e.base = old /\ Len(most) + 1 = n + 2 /\ (n + 2) - 1 = n + 1
          BY <1>4, <2>1, <3>6
        <4>2. n + 1 \in {j \in 1..(n + 1) : all[j].key = <<k, "retire">>}
          BY <3>2, <3>6, <3>7
        <4>3. all[n + 1].policy = old
          BY <3>2, <3>6, <3>7
        <4> HIDE DEF all, n
        <4> QED BY <3>7, <4>1, <4>2, <4>3 DEF Replaces
      <3>10. \A q \in Policies : policy'[q].status = After(e, q, mid[q].status)
        BY <1>4, <2>1, <2>3, <3>1, <3>3 DEF After
      <3>11. LogTells(all, policy')
        BY <1>4, <2>3, <3>3, <3>5, <3>6, <3>9, <3>10, LogGrows
      <3> HIDE DEF all
      <3>12. \A q \in Policies : policy[q].status # "absent" => policy'[q].status # "absent"
        BY <2>3
      <3>13. /\ call' \in [Calls -> CallTypes] /\ call'[k] = Ended(k)
             /\ \A q \in Calls : Fits(call'[q], policy')
             /\ Keyed(audit, call')
        BY <1>3, <3>12, CallMoves
      <3>14. Keyed(all, call')
        <4> SUFFICES ASSUME NEW i \in 1..(n + 2), NEW q \in Calls
                     PROVE  /\ all[i].key = <<q, "own">> =>
                                  call'[q].op # "none" /\ all[i].policy = call'[q].policy
                            /\ all[i].key = <<q, "retire">> =>
                                  \E j \in 1..(n + 2) : all[j].key = <<q, "own">>
          BY <3>7 DEF Keyed
        <4>1. CASE i = n + 2
          BY <1>2, <1>3, <1>4, <3>7, <3>13, <4>1
        <4>2. CASE i = n + 1
          BY <1>4, <3>2, <3>6, <3>7, <4>2
        <4>3. CASE i \in 1..n
          <5>1. /\ audit[i].key = <<q, "own">> =>
                      call'[q].op # "none" /\ audit[i].policy = call'[q].policy
                /\ audit[i].key = <<q, "retire">> => \E j \in 1..n : audit[j].key = <<q, "own">>
            BY <3>13, <4>3 DEF Keyed
          <5>2. \A j \in 1..n : j \in 1..(n + 2) /\ all[j] = audit[j]
            BY <3>6, <3>7
          <5> QED BY <4>3, <5>1, <5>2
        <4> QED BY <3>6, <4>1, <4>2, <4>3
      <3>15. PolicyTyped'
        BY <1>1, <2>3, <3>7, <3>8, <3>13 DEF PolicyInv, PolicyTyped
      <3>16. LogTells(audit, policy)' /\ Keyed(audit, call)'
        BY <3>8, <3>11, <3>14, Zenon
      <3>17. ReviewPolicy!ActiveIsValidated' /\ ReviewPolicy!MigratesOnce'
        BY <1>1, <2>4 DEF PolicyInv, ReviewPolicy!ActiveIsValidated, ReviewPolicy!Actives,
           ReviewPolicy!MigratesOnce
      <3>18. (\A q \in Calls : Fits(call[q], policy))'
        BY <3>13
      <3> QED BY <3>15, <3>16, <3>17, <3>18 DEF PolicyInv
    <2> QED BY <2>5, <2>6
  <1> HIDE DEF e
  <1> QED BY <1>1, <1>5, <1>6, <1>7, Zenon

(* A call is made, or made again.                                          *)
LEMMA AsksTell ==
    ASSUME PolicyInv, NEW k \in Calls,
           \/ \E op \in ReviewPolicy!Operations \ {"none"}, p \in Policies : ReviewPolicy!Ask(k, op, p)
           \/ ReviewPolicy!Lose(k)
    PROVE  PolicyInv'
  <1>1. call \in [Calls -> CallTypes] /\ call[k] \in CallTypes /\ Fits(call[k], policy)
    BY DEF PolicyInv, PolicyTyped
  <1>2. ASSUME NEW op \in ReviewPolicy!Operations \ {"none"}, NEW p \in Policies,
               ReviewPolicy!Ask(k, op, p)
        PROVE  PolicyInv'
    <2> DEFINE c == [op |-> op, policy |-> p, at |-> "start", seen |-> NoPolicy, valid |-> FALSE,
                     over |-> FALSE]
    <2>1. /\ call[k] = ReviewPolicy!Idle /\ UNCHANGED <<policy, audit, snapshot, migrations>>
          /\ call' = [call EXCEPT ![k] = [call[k] EXCEPT !.op = op, !.policy = p]]
      BY <1>1, <1>2 DEF ReviewPolicy!Ask
    <2>2. call[k].op = "none" /\ [call[k] EXCEPT !.op = op, !.policy = p] = c
      <3>1. ReviewPolicy!Idle.op = "none"
        BY DEF ReviewPolicy!Idle
      <3>2. [ReviewPolicy!Idle EXCEPT !.op = op, !.policy = p] = c
        <4> SUFFICES ASSUME NEW x, x = [ReviewPolicy!Idle EXCEPT !.op = op, !.policy = p]
                     PROVE  x = c
          OBVIOUS
        <4> QED BY DEF ReviewPolicy!Idle
      <3> HIDE DEF c
      <3> QED BY <2>1, <3>1, <3>2
    <2>3. c \in CallTypes /\ Fits(c, policy)
      BY DEF CallTypes, Fits, OneOrNone
    <2>4. call' = [call EXCEPT ![k] = c]
      BY <2>1, <2>2
    <2> HIDE DEF c
    <2> QED BY <2>1, <2>2, <2>3, <2>4, CallAlone
  <1>3. ASSUME ReviewPolicy!Lose(k) PROVE PolicyInv'
    <2> DEFINE c == [op |-> call[k].op, policy |-> call[k].policy, at |-> "start",
                     seen |-> NoPolicy, valid |-> FALSE, over |-> FALSE]
    <2>1. /\ UNCHANGED <<policy, audit, snapshot, migrations>>
          /\ call' = [call EXCEPT ![k] = c]
      <3>1. [ReviewPolicy!Idle EXCEPT !.op = call[k].op, !.policy = call[k].policy] = c
        <4> SUFFICES ASSUME NEW x, x = [ReviewPolicy!Idle EXCEPT !.op = call[k].op,
                                                                 !.policy = call[k].policy]
                     PROVE  x = c
          OBVIOUS
        <4> QED BY DEF ReviewPolicy!Idle
      <3> HIDE DEF c
      <3> QED BY <1>3, <3>1 DEF ReviewPolicy!Lose
    <2>2. c \in CallTypes /\ Fits(c, policy) /\ c.op = call[k].op /\ c.policy = call[k].policy
      BY <1>1 DEF CallTypes, Fits, OneOrNone
    <2> HIDE DEF c
    <2> QED BY <2>1, <2>2, CallAlone
  <1> QED BY <1>2, <1>3

(* migrate_artifact_snapshot and snapshot_active_review_policy.            *)
LEMMA MigrateTells ==
    ASSUME PolicyInv, NEW k \in Calls, NEW a \in Reviewed, ReviewPolicy!Migrate(k, a)
    PROVE  PolicyInv'
  <1> DEFINE p == call[k].policy
             m == [key |-> k, artifact |-> a, from |-> snapshot[a], to |-> p]
             n == Len(migrations)
             all == Append(migrations, m)
             MoveRows == [key : Calls, artifact : Reviewed, from : OneOrNone, to : OneOrNone]
  <1>1. /\ call[k].op = "migrate" /\ ReviewPolicy!End(k) /\ UNCHANGED <<policy, audit>>
        /\ \/ UNCHANGED <<snapshot, migrations>>
           \/ /\ ~ReviewPolicy!Migrated(k)
              /\ snapshot' = [snapshot EXCEPT ![a] = p] /\ migrations' = all
    BY Zenon DEF ReviewPolicy!Migrate, ReviewPolicy!Asked
  <1>2. /\ Ended(k) \in CallTypes /\ call' = [call EXCEPT ![k] = Ended(k)]
        /\ Ended(k).op = call[k].op /\ Ended(k).policy = p
        /\ \A pol : Fits(Ended(k), pol)
    BY <1>1, EndFits
  <1>3. CASE UNCHANGED <<snapshot, migrations>>
    BY <1>1, <1>2, <1>3, CallAlone
  <1>4. CASE /\ ~ReviewPolicy!Migrated(k)
             /\ snapshot' = [snapshot EXCEPT ![a] = p] /\ migrations' = all
    <2>1. /\ p \in OneOrNone /\ snapshot \in [Reviewed -> OneOrNone] /\ migrations \in Seq(MoveRows)
      BY <1>1 DEF PolicyInv, PolicyTyped, Fits, OneOrNone
    <2>2. m \in MoveRows /\ m.key = k
      BY <2>1
    <2> HIDE DEF m, MoveRows
    <2>3. /\ all \in Seq(MoveRows) /\ Len(all) = n + 1 /\ n \in Nat /\ all[n + 1] = m
          /\ \A i \in 1..n : all[i] = migrations[i]
      BY <2>1, <2>2
    <2> HIDE DEF all
    <2>4. \A i \in 1..n : migrations[i].key # k
      BY <1>4 DEF ReviewPolicy!Migrated
    <2>5. \A i, j \in 1..n : migrations[i].key = migrations[j].key => i = j
      BY DEF PolicyInv, ReviewPolicy!MigratesOnce
    <2> HIDE DEF n
    <2>6. ASSUME NEW i \in 1..(n + 1), NEW j \in 1..(n + 1), all[i].key = all[j].key PROVE i = j
      <3>1. CASE i \in 1..n /\ j \in 1..n
        BY <2>3, <2>5, <2>6, <3>1
      <3>2. CASE i \in 1..n /\ j = n + 1
        BY <2>2, <2>3, <2>4, <2>6, <3>2
      <3>3. CASE i = n + 1 /\ j \in 1..n
        BY <2>2, <2>3, <2>4, <2>6, <3>3
      <3>4. CASE i = n + 1 /\ j = n + 1
        BY <3>4
      <3> QED BY <2>3, <3>1, <3>2, <3>3, <3>4
    <2>7. ReviewPolicy!MigratesOnce'
      BY <1>4, <2>3, <2>6 DEF ReviewPolicy!MigratesOnce
    <2>8. Fits(Ended(k), policy')
      BY <1>2
    <2>9. /\ call' \in [Calls -> CallTypes] /\ \A q \in Calls : Fits(call'[q], policy')
          /\ Keyed(audit, call')
      BY <1>1, <1>2, <2>8, CallMoves
    <2>10. PolicyTyped'
      BY <1>1, <1>4, <2>1, <2>3, <2>9 DEF PolicyInv, PolicyTyped, MoveRows
    <2>11. LogTells(audit, policy)' /\ Keyed(audit, call)'
      BY <1>1, <2>9, Zenon DEF PolicyInv
    <2>12. ReviewPolicy!ActiveIsValidated'
      BY <1>1 DEF PolicyInv, ReviewPolicy!ActiveIsValidated, ReviewPolicy!Actives
    <2>13. (\A q \in Calls : Fits(call[q], policy))'
      BY <2>9
    <2> QED BY <2>7, <2>10, <2>11, <2>12, <2>13 DEF PolicyInv
  <1> QED BY <1>1, <1>3, <1>4

LEMMA TakeSnapshotTells ==
    ASSUME PolicyInv, NEW a \in Reviewed, ReviewPolicy!TakeSnapshot(a)
    PROVE  PolicyInv'
  <1>1. /\ UNCHANGED <<policy, audit, call, migrations>>
        /\ snapshot' = [snapshot EXCEPT ![a] = ReviewPolicy!Active]
    BY DEF ReviewPolicy!TakeSnapshot
  <1>2. ReviewPolicy!Active \in OneOrNone
    BY ActiveIs DEF OneOrNone
  <1>3. PolicyTyped'
    BY <1>1, <1>2 DEF PolicyInv, PolicyTyped
  <1>4. LogTells(audit, policy)' /\ Keyed(audit, call)' /\ (\A q \in Calls : Fits(call[q], policy))'
    BY <1>1, Zenon DEF PolicyInv
  <1>5. ReviewPolicy!ActiveIsValidated' /\ ReviewPolicy!MigratesOnce'
    BY <1>1 DEF PolicyInv, ReviewPolicy!ActiveIsValidated, ReviewPolicy!Actives,
       ReviewPolicy!MigratesOnce
  <1> QED BY <1>3, <1>4, <1>5 DEF PolicyInv

LEMMA PoliciesStay ==
    ASSUME PoliciesApart, PolicyInv, [ReviewPolicy!Next]_(ReviewPolicy!vars)
    PROVE  PolicyInv'
  <1>1. CASE UNCHANGED ReviewPolicy!vars
    <2>1. UNCHANGED <<policy, audit, call, snapshot, migrations>>
      BY <1>1 DEF ReviewPolicy!vars
    <2>2. PolicyTyped'
      BY <2>1 DEF PolicyInv, PolicyTyped
    <2>3. LogTells(audit, policy)' /\ Keyed(audit, call)' /\ (\A q \in Calls : Fits(call[q], policy))'
      BY <2>1, Zenon DEF PolicyInv
    <2>4. ReviewPolicy!ActiveIsValidated' /\ ReviewPolicy!MigratesOnce'
      BY <2>1 DEF PolicyInv, ReviewPolicy!ActiveIsValidated, ReviewPolicy!Actives,
         ReviewPolicy!MigratesOnce
    <2> QED BY <2>2, <2>3, <2>4 DEF PolicyInv
  <1>2. CASE \E k \in Calls :
           \/ \E op \in ReviewPolicy!Operations \ {"none"}, p \in Policies :
                 ReviewPolicy!Ask(k, op, p)
           \/ ReviewPolicy!Create(k) \/ ReviewPolicy!AskTools(k)
           \/ ReviewPolicy!CommitValidation(k) \/ ReviewPolicy!ReadActive(k)
           \/ ReviewPolicy!CommitTransition(k) \/ ReviewPolicy!Lose(k)
           \/ \E a \in Reviewed : ReviewPolicy!Migrate(k, a)
    BY <1>2, AsksTell, CreateTells, AskToolsTells, CommitValidationTells, ReadActiveTells,
       CommitTransitionTells, MigrateTells
  <1>3. CASE \E a \in Reviewed : ReviewPolicy!TakeSnapshot(a)
    BY <1>3, TakeSnapshotTells
  <1> QED BY <1>1, <1>2, <1>3 DEF ReviewPolicy!Next

(* A market that starts: those that were drafted are in the log, in some   *)
(* order.                                                                  *)
LEMMA YoungTells ==
    ASSUME PoliciesApart, ReviewPolicy!Young,
           snapshot = [a \in Reviewed |-> NoPolicy], migrations = <<>>
    PROVE  PolicyInv
  <1> DEFINE made(p) == ReviewPolicy!Entry(p, "own", p, "create", NoPolicy)
             first == {made(p) : p \in Drafted}
             n == Cardinality(first)
             f == [p \in Drafted |-> made(p)]
  <1>1. /\ policy = [p \in Policies |-> [status |-> IF p \in Drafted THEN "draft" ELSE "absent",
                                        valid |-> FALSE]]
        /\ audit = ReviewPolicy!SetToSeq(first) /\ call = [k \in Calls |-> ReviewPolicy!Idle]
    BY Zenon DEF ReviewPolicy!Young
  <1>2. \A p \in Drafted : /\ made(p) \in LogEntries /\ made(p).key = <<p, "own">>
                           /\ made(p).policy = p /\ made(p).action = "create"
    BY DEF ReviewPolicy!Entry, LogEntries, PoliciesApart, OneOrNone, ReviewPolicy!Operations
  <1>3. IsFiniteSet(first)
    <2>1. f \in Surjection(Drafted, first)
      <3>1. f \in [Drafted -> first] /\ \A e \in first : \E p \in Drafted : f[p] = e
        BY Zenon
      <3> QED BY <3>1 DEF Surjection
    <2> HIDE DEF f, first
    <2> QED BY <2>1, FS_Surjection DEF PoliciesApart
  <1> HIDE DEF made, f
  <1>4. /\ n \in Nat /\ audit \in [1..n -> first]
        /\ \A e \in first : \E i \in 1..n : audit[i] = e
    <2> HIDE DEF first
    <2>1. n \in Nat /\ ExistsBijection(1..n, first)
      BY <1>3, FS_CardinalityType
    <2>2. \E g \in [1..n -> first] : ReviewPolicy!IsInjective(g)
      BY <2>1, Zenon DEF ExistsBijection, Bijection, Injection, IsInjective, ReviewPolicy!IsInjective
    <2>3. audit = CHOOSE g \in [1..n -> first] : ReviewPolicy!IsInjective(g)
      <3>1. audit = ReviewPolicy!SetToSeq(first)
        BY <1>1
      <3>2. ReviewPolicy!SetToSeq(first) = CHOOSE g \in [1..n -> first] : ReviewPolicy!IsInjective(g)
        <4>1. ReviewPolicy!Cardinality(first) = n
          BY Zenon DEF ReviewPolicy!Cardinality, Cardinality
        <4> HIDE DEF n
        <4> QED BY <4>1 DEF ReviewPolicy!SetToSeq
      <3> QED BY <3>1, <3>2
    <2>4. audit \in [1..n -> first] /\ ReviewPolicy!IsInjective(audit)
      BY <2>2, <2>3, Zenon
    <2>5. audit \in Injection(1..n, first)
      BY <2>4, Zenon DEF Injection, IsInjective, ReviewPolicy!IsInjective
    <2>6. n = Cardinality(1..n)
      BY <2>1, FS_Interval
    <2>7. audit \in Surjection(1..n, first)
      BY <1>3, <2>5, <2>6, FS_Injection
    <2> QED BY <2>1, <2>4, <2>7, Zenon DEF Surjection
  <1> HIDE DEF n
  <1>5. /\ audit \in Seq(LogEntries) /\ Len(audit) = n
        /\ \A i \in 1..n : \E p \in Drafted : audit[i] = made(p)
        /\ \A p \in Drafted : \E i \in 1..n : audit[i] = made(p)
    <2>1. \A i \in 1..n : audit[i] \in LogEntries
      BY <1>2, <1>4
    <2> QED BY <1>4, <2>1
  <1>6. \A i \in 1..n : /\ audit[i].policy \in Drafted /\ audit[i].action = "create"
                        /\ audit[i].key = <<audit[i].policy, "own">>
    BY <1>2, <1>5
  <1>7. PolicyTyped
    BY <1>1, <1>5 DEF PolicyTyped, PolicyRows, ReviewPolicy!Statuses, CallTypes, ReviewPolicy!Idle,
       ReviewPolicy!Operations, OneOrNone
  <1>8. \A k \in Calls : Fits(call[k], policy)
    BY <1>1 DEF Fits, ReviewPolicy!Idle
  <1>9. ASSUME NEW p \in Policies PROVE ReviewPolicy!Tells(audit, p, policy[p].status)
    <2>1. policy[p].status = IF p \in Drafted THEN "draft" ELSE "absent"
      BY <1>1
    <2>2. p \in Drafted <=> \E i \in 1..n : audit[i].policy = p
      BY <1>2, <1>5, <1>6
    <2>3. {i \in {j \in 1..Len(audit) : audit[j].policy = p} :
              audit[i].action \in {"activate", "rollback", "retire"}} = {}
      BY <1>5, <1>6
    <2>4. p \in Drafted <=> \E i \in {j \in 1..Len(audit) : audit[j].policy = p} :
                               audit[i].action = "create"
      BY <1>5, <1>6, <2>2
    <2> QED BY <2>1, <2>3, <2>4 DEF ReviewPolicy!Tells
  <1>10. LogTells(audit, policy)
    <2>1. \A i \in 1..n : policy[audit[i].policy].status # "absent"
      BY <1>1, <1>6 DEF PoliciesApart
    <2> QED BY <1>5, <1>6, <1>9, <2>1 DEF LogTells
  <1>11. Keyed(audit, call)
    BY <1>5, <1>6 DEF Keyed, PoliciesApart
  <1>12. ReviewPolicy!ActiveIsValidated /\ ReviewPolicy!MigratesOnce
    BY <1>1 DEF ReviewPolicy!ActiveIsValidated, ReviewPolicy!Actives, ReviewPolicy!MigratesOnce
  <1> QED BY <1>7, <1>8, <1>10, <1>11, <1>12 DEF PolicyInv

(* A market in which a call has replaced a policy.                         *)
LEMMA SeasonedTells ==
    ASSUME PoliciesApart, NEW k \in Calls, NEW old \in Policies, NEW new \in Policies, old # new,
           ReviewPolicy!Seasoned(k, old, new),
           snapshot = [a \in Reviewed |-> NoPolicy], migrations = <<>>
    PROVE  PolicyInv
  <1>1. /\ policy = [p \in Policies |-> [status |-> CASE p = old -> "retired" [] p = new -> "active"
                                                      [] OTHER -> "absent",
                                        valid |-> p \in {old, new}]]
        /\ audit = <<ReviewPolicy!Entry(old, "own", old, "activate", NoPolicy),
                     ReviewPolicy!Entry(k, "validate", new, "validate", NoPolicy),
                     ReviewPolicy!Entry(k, "retire", old, "retire", old),
                     ReviewPolicy!Entry(k, "own", new, "activate", old)>>
        /\ call = [c \in Calls |-> IF c = k THEN [op |-> "activate", policy |-> new, at |-> "start",
                                                 seen |-> NoPolicy, valid |-> FALSE, over |-> TRUE]
                                   ELSE ReviewPolicy!Idle]
    <2>1. [ReviewPolicy!Idle EXCEPT !.op = "activate", !.policy = new, !.over = TRUE] =
          [op |-> "activate", policy |-> new, at |-> "start", seen |-> NoPolicy, valid |-> FALSE,
           over |-> TRUE]
      <3> SUFFICES ASSUME NEW x, x = [ReviewPolicy!Idle EXCEPT !.op = "activate", !.policy = new,
                                                              !.over = TRUE]
                   PROVE  x = [op |-> "activate", policy |-> new, at |-> "start",
                               seen |-> NoPolicy, valid |-> FALSE, over |-> TRUE]
        OBVIOUS
      <3> QED BY DEF ReviewPolicy!Idle
    <2> QED BY <2>1, Zenon DEF ReviewPolicy!Seasoned
  <1>2. /\ audit \in Seq(LogEntries) /\ Len(audit) = 4
        /\ audit[1].key = <<old, "own">> /\ audit[1].policy = old /\ audit[1].action = "activate"
        /\ audit[2].key = <<k, "validate">> /\ audit[2].policy = new
        /\ audit[2].action = "validate"
        /\ audit[3].key = <<k, "retire">> /\ audit[3].policy = old /\ audit[3].action = "retire"
        /\ audit[4].key = <<k, "own">> /\ audit[4].policy = new /\ audit[4].action = "activate"
        /\ audit[1].base = NoPolicy /\ audit[4].base = old
    BY <1>1 DEF ReviewPolicy!Entry, LogEntries, OneOrNone, ReviewPolicy!Operations
  <1>3. /\ policy \in [Policies -> PolicyRows]
        /\ policy[old].status = "retired" /\ policy[new].status = "active" /\ policy[new].valid
        /\ \A p \in Policies \ {old, new} : policy[p].status = "absent"
    <2>1. /\ policy[old].status = "retired" /\ policy[new].status = "active" /\ policy[new].valid
          /\ \A p \in Policies \ {old, new} : policy[p].status = "absent"
      BY <1>1
    <2>2. \A p \in Policies : (CASE p = old -> "retired" [] p = new -> "active"
                                [] OTHER -> "absent") \in ReviewPolicy!Statuses
      BY DEF ReviewPolicy!Statuses
    <2>3. policy \in [Policies -> PolicyRows]
      BY <1>1, <2>2 DEF PolicyRows
    <2> QED BY <2>1, <2>3
  <1>4. PolicyTyped
    BY <1>1, <1>2, <1>3 DEF PolicyTyped, CallTypes, ReviewPolicy!Idle, ReviewPolicy!Operations,
       OneOrNone
  <1>5. /\ \A c \in Calls : Fits(call[c], policy)
        /\ call[k].op = "activate" /\ call[k].policy = new
    BY <1>1 DEF Fits, ReviewPolicy!Idle
  <1>6. ASSUME NEW p \in Policies PROVE ReviewPolicy!Tells(audit, p, policy[p].status)
    <2> DEFINE own == {i \in 1..4 : audit[i].policy = p}
               moves == {i \in own : audit[i].action \in {"activate", "rollback", "retire"}}
    <2>1. CASE p = old
      <3>1. moves = {1, 3}
        BY <1>2, <2>1
      <3> HIDE DEF moves
      <3>2. \A i \in moves : (\A j \in moves : j <= i) => i = 3
        BY <3>1
      <3> QED BY <1>2, <1>3, <2>1, <3>1, <3>2 DEF ReviewPolicy!Tells, moves
    <2>2. CASE p = new
      <3>1. moves = {4}
        BY <1>2, <2>2
      <3> QED BY <1>2, <1>3, <2>2, <3>1 DEF ReviewPolicy!Tells
    <2>3. CASE p \notin {old, new}
      <3>1. own = {}
        BY <1>2, <2>3
      <3> QED BY <1>2, <1>3, <2>3, <3>1 DEF ReviewPolicy!Tells
    <2> QED BY <2>1, <2>2, <2>3
  <1>7. Replaces(audit, 1) /\ Replaces(audit, 4)
    <2>1. {j \in 1..(1 - 1) : audit[j].key = <<audit[1].key[1], "retire">>} = {}
      OBVIOUS
    <2>2. 3 \in {j \in 1..(4 - 1) : audit[j].key = <<audit[4].key[1], "retire">>}
      BY <1>2
    <2> QED BY <1>2, <2>1, <2>2 DEF Replaces
  <1>8. LogTells(audit, policy)
    BY <1>2, <1>3, <1>6, <1>7 DEF LogTells
  <1>9. Keyed(audit, call)
    BY <1>2, <1>5 DEF Keyed, PoliciesApart
  <1>10. ReviewPolicy!ActiveIsValidated /\ ReviewPolicy!MigratesOnce
    BY <1>3 DEF ReviewPolicy!ActiveIsValidated, ReviewPolicy!Actives, ReviewPolicy!MigratesOnce
  <1> QED BY <1>4, <1>5, <1>8, <1>9, <1>10 DEF PolicyInv

LEMMA PoliciesAtInit ==
    ASSUME PoliciesApart, ReviewPolicy!Init
    PROVE  PolicyInv
  <1>1. snapshot = [a \in Reviewed |-> NoPolicy] /\ migrations = <<>>
    BY DEF ReviewPolicy!Init
  <1>2. CASE ReviewPolicy!Young
    BY <1>1, <1>2, YoungTells
  <1>3. CASE \E k \in Calls, old \in Drafted, new \in Policies :
                old # new /\ ReviewPolicy!Seasoned(k, old, new)
    BY <1>1, <1>3, SeasonedTells DEF PoliciesApart
  <1> QED BY <1>2, <1>3 DEF ReviewPolicy!Init

(* Whatever calls overlap, die or are made again, the log tells what every *)
(* policy is and what each activation replaced, the active policy is a     *)
(* validated one, and nobody migrates an artifact twice with one call, for *)
(* any number of policies, calls and artifacts (advanced_repository.py,    *)
(* transition_review_policy).                                              *)
THEOREM PoliciesTellAll ==
    ASSUME PoliciesApart
    PROVE  Spec => []PoliciesAddUp
  <1> DEFINE I == focus = "policies" => PolicyInv
  <1>1. Init => I
    BY OneServiceAtInit, PoliciesAtInit
  <1>2. I /\ [Next]_vars => I'
    BY OneService, PoliciesStay
  <1>3. I => PoliciesAddUp
    <2> SUFFICES ASSUME PolicyInv
                 PROVE  ReviewPolicy!AuditTells /\ ReviewPolicy!ActiveIsValidated
                        /\ ReviewPolicy!MigratesOnce
      BY DEF PoliciesAddUp
    <2>1. \A i \in 1..Len(audit) : Replaces(audit, i) <=> ReviewPolicy!NamesWhatItReplaces(i)
      BY Zenon DEF Replaces, ReviewPolicy!NamesWhatItReplaces
    <2>2. ReviewPolicy!AuditTells
      BY <2>1 DEF PolicyInv, LogTells, ReviewPolicy!AuditTells
    <2> QED BY <2>2 DEF PolicyInv
  <1> QED BY <1>1, <1>2, <1>3, PTL DEF Spec
=============================================================================
