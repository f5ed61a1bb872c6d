-------------------------- MODULE Background_proofs --------------------------
(***************************************************************************)
(* Proofs about the work in the background: what a dispatcher delivers and *)
(* what is left in the sandbox, for any number of events, users,           *)
(* processes and attempts.  A behaviour is of one service, so that what is *)
(* to be proved of a service is proved from its own steps alone.           *)
(***************************************************************************)
EXTENDS Background, FiniteSetTheorems, TLAPS

(* A behaviour stays with its service.                                     *)
LEMMA OneService ==
    ASSUME [Next]_vars
    PROVE  /\ focus' = focus
           /\ focus = "outbox" => [Outbox!Next]_(Outbox!vars)
           /\ focus = "cdn" => [CdnSubscription!Next]_(CdnSubscription!vars)
           /\ focus = "containers" => [Containers!Next]_(Containers!vars)
  <1>1. CASE UNCHANGED vars
    BY <1>1 DEF vars, outboxVars, cdnVars, containersVars, Outbox!vars, CdnSubscription!vars,
                Containers!vars
  <1>2. CASE Next
    BY <1>2 DEF Next, OutboxStep, CdnSubscriptionStep, ContainersStep
  <1> QED BY <1>1, <1>2

LEMMA OneServiceAtInit ==
    ASSUME Init
    PROVE  /\ focus \in Foci
           /\ focus = "outbox" => Outbox!Init
           /\ focus = "cdn" => CdnSubscription!Init
           /\ focus = "containers" => Containers!Init
  BY Zenon DEF Init
-----------------------------------------------------------------------------
(* Outbox: what has been delivered.                                        *)

UsersApart == Users \cap {"idle", "deliver", "done", "failed"} = {}

OutboxNumbers == {Batch, Tries} \subseteq Nat /\ IsFiniteSet(Dispatchers)

Couriers == [event : Messages \cup {Nobody}, batch : Seq(Messages), left : SUBSET Users,
             at : {"idle", "deliver", "done", "failed"} \cup Users]

OutboxTyped ==
    /\ outbox \in [Messages -> Outbox!Row]
    /\ site \subseteq Messages \X Users
    /\ mails \in [Messages -> [Users -> Nat]]
    /\ courier \in [Dispatchers -> Couriers]

(* Whom a dispatcher has passed over has the event on the site and a mail; *)
(* what it has claimed, it has claimed once.                               *)
Reached(c, onSite, sent) ==
    \A u \in Users : u \notin c.left /\ u # c.at =>
        <<c.event, u>> \in onSite /\ sent[c.event][u] > 0

CourierFits(c, onSite, sent) ==
    /\ \A i, j \in 1..Len(c.batch) : i # j => c.batch[i] # c.batch[j]
    /\ c.at # "idle" => c.event \in Messages /\ \A i \in 1..Len(c.batch) : c.batch[i] # c.event
    /\ c.at \in {"deliver", "done"} \cup Users => Reached(c, onSite, sent)
    /\ c.at = "done" => c.left = {}
    /\ c.at \in Users => c.at \notin c.left /\ <<c.event, c.at>> \in onSite

(* A courier that may still mail a user an event.                          *)
Owes(c, m, u) ==
    \/ \E i \in 1..Len(c.batch) : c.batch[i] = m
    \/ c.event = m /\ c.at \in {"deliver"} \cup Users /\ (u \in c.left \/ u = c.at)

Debtors(m, u) == {d \in Dispatchers : Owes(courier[d], m, u)}

(* Each mail, sent or owed, is of an attempt of its own.                   *)
MailsFit ==
    \A m \in Messages, u \in Users :
        mails[m][u] + Cardinality(Debtors(m, u)) <= outbox[m].attempts

GivenUpAtLast ==
    \A m \in Messages : outbox[m].status = "cancelled" => outbox[m].attempts = Tries

OutboxInv ==
    /\ OutboxTyped
    /\ \A d \in Dispatchers : CourierFits(courier[d], site, mails)
    /\ MailsFit
    /\ Outbox!DeliveredHasReachedAll
    /\ GivenUpAtLast

LEMMA RestingFits ==
    ASSUME UsersApart
    PROVE  /\ Outbox!Resting \in Couriers
           /\ \A s, t : CourierFits(Outbox!Resting, s, t)
           /\ \A m, u : ~Owes(Outbox!Resting, m, u)
  BY DEF Outbox!Resting, Couriers, CourierFits, Owes, UsersApart

LEMMA OutboxAtInit ==
    ASSUME UsersApart, OutboxNumbers, Outbox!Init PROVE OutboxInv
  <1>1. OutboxTyped
    BY RestingFits DEF Outbox!Init, OutboxTyped, Outbox!Row, OutboxNumbers
  <1>2. \A m, u : Debtors(m, u) = {}
    BY RestingFits DEF Outbox!Init, Debtors
  <1>3. MailsFit
    <2> SUFFICES ASSUME NEW m \in Messages, NEW u \in Users
                 PROVE  mails[m][u] + Cardinality(Debtors(m, u)) <= outbox[m].attempts
      BY DEF MailsFit
    <2>1. Cardinality(Debtors(m, u)) = 0
      BY Zenon, <1>2, FS_EmptySet
    <2>2. mails[m][u] = 0 /\ outbox[m].attempts = 0
      BY DEF Outbox!Init
    <2> QED BY <2>1, <2>2
  <1> QED BY <1>1, <1>3, RestingFits
          DEF Outbox!Init, OutboxInv, Outbox!DeliveredHasReachedAll, GivenUpAtLast

(* The site and the mails only grow, so that who was reached stays so.     *)
LEMMA ReachedStays ==
    ASSUME NEW s, NEW t \in SUBSET (Messages \X Users), s \subseteq t,
           NEW f \in [Messages -> [Users -> Nat]], NEW g \in [Messages -> [Users -> Nat]],
           \A m \in Messages, u \in Users : f[m][u] <= g[m][u],
           NEW c \in Couriers, CourierFits(c, s, f), UsersApart
    PROVE  CourierFits(c, t, g)
  <1>1. c.at \in {"deliver", "done"} \cup Users => Reached(c, t, g)
    <2> SUFFICES ASSUME c.at \in {"deliver", "done"} \cup Users, NEW u \in Users,
                        u \notin c.left, u # c.at
                 PROVE  <<c.event, u>> \in t /\ g[c.event][u] > 0
      BY DEF Reached
    <2>1. c.event \in Messages /\ <<c.event, u>> \in s /\ f[c.event][u] > 0
      BY DEF CourierFits, Reached, UsersApart
    <2>2. f[c.event][u] <= g[c.event][u] /\ f[c.event][u] \in Nat /\ g[c.event][u] \in Nat
      BY <2>1
    <2> QED BY <2>1, <2>2
  <1> QED BY <1>1 DEF CourierFits

(* Where nobody owes more than before, and nothing is sent, mails fit.     *)
LEMMA DebtsFit ==
    ASSUME OutboxNumbers, OutboxTyped, MailsFit, NEW m \in Messages, NEW u \in Users,
           \A d \in Dispatchers : Owes(courier'[d], m, u) => Owes(courier[d], m, u),
           mails'[m][u] = mails[m][u], outbox'[m].attempts = outbox[m].attempts
    PROVE  mails'[m][u] + Cardinality(Debtors(m, u)') <= outbox'[m].attempts
  <1>1. Debtors(m, u)' \in SUBSET Debtors(m, u)
    BY DEF Debtors
  <1>2. IsFiniteSet(Debtors(m, u))
    BY FS_Subset DEF Debtors, OutboxNumbers
  <1>3. /\ Cardinality(Debtors(m, u)') <= Cardinality(Debtors(m, u))
        /\ Cardinality(Debtors(m, u)') \in Nat /\ Cardinality(Debtors(m, u)) \in Nat
    BY <1>1, <1>2, FS_Subset, FS_CardinalityType
  <1>4. mails[m][u] \in Nat /\ outbox[m].attempts \in Nat
    BY DEF OutboxTyped, Outbox!Row, OutboxNumbers
  <1>5. mails[m][u] + Cardinality(Debtors(m, u)) <= outbox[m].attempts
    BY DEF MailsFit
  <1> QED BY <1>3, <1>4, <1>5

(* One courier moves, and the others stay as they were.                    *)
LEMMA OneCourierMoves ==
    ASSUME UsersApart, OutboxInv, NEW d \in Dispatchers, NEW c \in Couriers,
           courier' = [courier EXCEPT ![d] = c], CourierFits(c, site', mails'),
           site' \in SUBSET (Messages \X Users), site \subseteq site',
           mails' \in [Messages -> [Users -> Nat]],
           \A m \in Messages, u \in Users : mails[m][u] <= mails'[m][u]
    PROVE  /\ courier' \in [Dispatchers -> Couriers]
           /\ \A e \in Dispatchers : CourierFits(courier'[e], site', mails')
  <1>1. courier \in [Dispatchers -> Couriers] /\ mails \in [Messages -> [Users -> Nat]]
    BY DEF OutboxInv, OutboxTyped
  <1>2. \A e \in Dispatchers : courier'[e] = IF e = d THEN c ELSE courier[e]
    BY <1>1
  <1>3. ASSUME NEW e \in Dispatchers, e # d PROVE CourierFits(courier[e], site', mails')
    <2>1. courier[e] \in Couriers /\ CourierFits(courier[e], site, mails)
      BY <1>1 DEF OutboxInv
    <2> QED BY <1>1, <2>1, ReachedStays
  <1> QED BY <1>1, <1>2, <1>3

(* Of a courier that moves without mail nothing new is owed.               *)
LEMMA QuietMovesFit ==
    ASSUME UsersApart, OutboxNumbers, OutboxInv, NEW d \in Dispatchers, NEW c \in Couriers,
           courier' = [courier EXCEPT ![d] = c],
           \A m \in Messages, u \in Users : Owes(c, m, u) => Owes(courier[d], m, u),
           mails' = mails, \A m \in Messages : outbox'[m].attempts = outbox[m].attempts
    PROVE  MailsFit'
  <1>1. courier \in [Dispatchers -> Couriers] /\ OutboxTyped /\ MailsFit
    BY DEF OutboxInv, OutboxTyped
  <1>2. \A e \in Dispatchers : courier'[e] = IF e = d THEN c ELSE courier[e]
    BY <1>1
  <1> SUFFICES ASSUME NEW m \in Messages, NEW u \in Users
               PROVE  mails'[m][u] + Cardinality(Debtors(m, u)') <= outbox'[m].attempts
    BY DEF MailsFit
  <1>3. \A e \in Dispatchers : Owes(courier'[e], m, u) => Owes(courier[e], m, u)
    BY <1>2
  <1> QED BY <1>1, <1>3, DebtsFit

(* What a row may come to, where attempts are not counted.                 *)
RowsMove ==
    \A m \in Messages :
        /\ outbox'[m].attempts = outbox[m].attempts
        /\ outbox'[m] # outbox[m] =>
              /\ outbox[m].status \notin {"delivered", "cancelled"}
              /\ outbox'[m].status = "delivered" =>
                    \A u \in Users : <<m, u>> \in site /\ mails[m][u] > 0
              /\ outbox'[m].status = "cancelled" => outbox'[m].attempts = Tries

LEMMA RowsFit ==
    ASSUME OutboxInv, RowsMove,
           site \subseteq site', \A m \in Messages, u \in Users : mails[m][u] <= mails'[m][u],
           mails' \in [Messages -> [Users -> Nat]]
    PROVE  Outbox!DeliveredHasReachedAll' /\ GivenUpAtLast' /\ Outbox!SettledStays
  <1>1. Outbox!DeliveredHasReachedAll'
    <2> SUFFICES ASSUME NEW m \in Messages, outbox'[m].status = "delivered", NEW u \in Users
                 PROVE  <<m, u>> \in site' /\ mails'[m][u] > 0
      BY DEF Outbox!DeliveredHasReachedAll
    <2>1. <<m, u>> \in site /\ mails[m][u] > 0
      BY DEF OutboxInv, Outbox!DeliveredHasReachedAll, RowsMove
    <2>2. mails[m][u] \in Nat /\ mails'[m][u] \in Nat /\ mails[m][u] <= mails'[m][u]
      BY DEF OutboxInv, OutboxTyped
    <2> QED BY <2>1, <2>2
  <1>2. GivenUpAtLast'
    BY DEF OutboxInv, GivenUpAtLast, RowsMove
  <1>3. Outbox!SettledStays
    BY DEF RowsMove, Outbox!SettledStays
  <1> QED BY <1>1, <1>2, <1>3

LEMMA RowsRest == ASSUME outbox' = outbox PROVE RowsMove
  BY DEF RowsMove

LEMMA EnqueueFits ==
    ASSUME UsersApart, OutboxNumbers, OutboxInv, NEW m \in Messages, Outbox!EnqueueOutbox(m)
    PROVE  OutboxInv' /\ Outbox!SettledStays
  <1>1. OutboxTyped'
    BY DEF OutboxInv, OutboxTyped, Outbox!EnqueueOutbox, Outbox!Row
  <1>2. RowsMove
    BY DEF RowsMove, OutboxInv, OutboxTyped, Outbox!EnqueueOutbox, Outbox!Row
  <1>3. courier' = courier /\ site' = site /\ mails' = mails
    BY DEF Outbox!EnqueueOutbox
  <1>4. MailsFit'
    <2> SUFFICES ASSUME NEW n \in Messages, NEW u \in Users
                 PROVE  mails'[n][u] + Cardinality(Debtors(n, u)') <= outbox'[n].attempts
      BY DEF MailsFit
    <2> QED BY <1>2, <1>3, DebtsFit DEF OutboxInv, RowsMove
  <1>5. \A k \in Messages, u \in Users : mails[k][u] <= mails'[k][u]
    BY <1>3 DEF OutboxInv, OutboxTyped
  <1> QED BY <1>1, <1>2, <1>3, <1>4, <1>5, RowsFit DEF OutboxInv, OutboxTyped

LEMMA LapseFits ==
    ASSUME UsersApart, OutboxNumbers, OutboxInv, NEW m \in Messages, Outbox!LeaseLapses(m)
    PROVE  OutboxInv' /\ Outbox!SettledStays
  <1>1. OutboxTyped'
    BY DEF OutboxInv, OutboxTyped, Outbox!LeaseLapses, Outbox!Row
  <1>2. RowsMove
    BY DEF RowsMove, OutboxInv, OutboxTyped, Outbox!LeaseLapses, Outbox!Row
  <1>3. courier' = courier /\ site' = site /\ mails' = mails
    BY DEF Outbox!LeaseLapses
  <1>4. MailsFit'
    <2> SUFFICES ASSUME NEW n \in Messages, NEW u \in Users
                 PROVE  mails'[n][u] + Cardinality(Debtors(n, u)') <= outbox'[n].attempts
      BY DEF MailsFit
    <2> QED BY <1>2, <1>3, DebtsFit DEF OutboxInv, RowsMove
  <1>5. \A k \in Messages, u \in Users : mails[k][u] <= mails'[k][u]
    BY <1>3 DEF OutboxInv, OutboxTyped
  <1> QED BY <1>1, <1>2, <1>3, <1>4, <1>5, RowsFit DEF OutboxInv, OutboxTyped

LEMMA DeliverFits ==
    ASSUME UsersApart, OutboxNumbers, OutboxInv, NEW d \in Dispatchers, Outbox!Deliver(d)
    PROVE  OutboxInv' /\ Outbox!SettledStays
  <1> DEFINE b == courier[d].batch
             c == [event |-> Head(b), batch |-> Tail(b), left |-> Users, at |-> "deliver"]
  <1>1. b \in Seq(Messages) /\ b # <<>> /\ CourierFits(courier[d], site, mails)
    BY DEF OutboxInv, OutboxTyped, Couriers, Outbox!Deliver
  <1>2. /\ Head(b) = b[1] /\ Head(b) \in Messages /\ Tail(b) \in Seq(Messages)
        /\ Len(Tail(b)) = Len(b) - 1 /\ Len(b) \in Nat /\ 1 <= Len(b)
        /\ \A i \in 1..Len(Tail(b)) : Tail(b)[i] = b[i + 1]
    BY <1>1
  <1>3. c \in Couriers
    BY <1>2 DEF Couriers
  <1>4. \A i \in 1..Len(Tail(b)) : i + 1 \in 1..Len(b) /\ i + 1 # 1
    BY <1>2
  <1>5. \A i, j \in 1..Len(b) : i # j => b[i] # b[j]
    BY <1>1 DEF CourierFits
  <1>6. /\ \A i \in 1..Len(Tail(b)) : Tail(b)[i] # Head(b)
        /\ \A i, j \in 1..Len(Tail(b)) : i # j => Tail(b)[i] # Tail(b)[j]
    BY <1>2, <1>4, <1>5
  <1>7. CourierFits(c, site, mails)
    BY <1>2, <1>6, UsersApart DEF CourierFits, Reached, UsersApart
  <1>8. courier' = [courier EXCEPT ![d] = c] /\ outbox' = outbox /\ site' = site /\ mails' = mails
    BY DEF Outbox!Deliver
  <1>9. \A m \in Messages, u \in Users : Owes(c, m, u) => Owes(courier[d], m, u)
    <2> SUFFICES ASSUME NEW m \in Messages, NEW u \in Users, Owes(c, m, u)
                 PROVE  \E i \in 1..Len(b) : b[i] = m
      BY DEF Owes
    <2>1. CASE c.event = m
      BY <1>2, <2>1
    <2>2. CASE \E i \in 1..Len(c.batch) : c.batch[i] = m
      BY <1>2, <1>4, <2>2
    <2> QED BY <2>1, <2>2 DEF Owes
  <1> HIDE DEF c
  <1>10. MailsFit'
    BY <1>3, <1>8, <1>9, QuietMovesFit
  <1>11. \A m \in Messages, u \in Users : mails[m][u] <= mails'[m][u]
    BY <1>8 DEF OutboxInv, OutboxTyped
  <1>12. /\ courier' \in [Dispatchers -> Couriers]
         /\ \A e \in Dispatchers : CourierFits(courier'[e], site', mails')
    BY <1>3, <1>7, <1>8, <1>11, OneCourierMoves DEF OutboxInv, OutboxTyped
  <1> QED BY <1>8, <1>10, <1>11, <1>12, RowsRest, RowsFit DEF OutboxInv, OutboxTyped

LEMMA NotifyFits ==
    ASSUME UsersApart, OutboxNumbers, OutboxInv, NEW d \in Dispatchers, NEW u \in Users,
           Outbox!NotifyOnSite(d, u)
    PROVE  OutboxInv' /\ Outbox!SettledStays
  <1> DEFINE o == courier[d]
             c == [o EXCEPT !.at = u, !.left = @ \ {u}]
  <1>1. o \in Couriers /\ CourierFits(o, site, mails) /\ o.at = "deliver" /\ u \in o.left
    BY DEF OutboxInv, OutboxTyped, Outbox!NotifyOnSite
  <1>2. /\ c \in Couriers
        /\ c.at = u /\ c.left = o.left \ {u} /\ c.event = o.event /\ c.batch = o.batch
    BY <1>1 DEF Couriers
  <1>3. o.event \in Messages
    BY <1>1 DEF CourierFits
  <1>4. /\ courier' = [courier EXCEPT ![d] = c] /\ outbox' = outbox /\ mails' = mails
        /\ site' = site \cup {<<o.event, u>>}
    BY DEF Outbox!NotifyOnSite
  <1>5. \A m \in Messages, v \in Users : Owes(c, m, v) => Owes(o, m, v)
    BY <1>1, <1>2 DEF Owes
  <1>6. site \subseteq site' /\ site' \in SUBSET (Messages \X Users)
    BY <1>3, <1>4 DEF OutboxInv, OutboxTyped
  <1>7. Reached(c, site', mails)
    <2>1. Reached(o, site, mails)
      BY <1>1 DEF CourierFits
    <2>2. ASSUME NEW v \in Users, v \notin c.left, v # c.at PROVE v \notin o.left /\ v # o.at
      BY <1>1, <1>2, <2>2, UsersApart DEF UsersApart
    <2> QED BY <1>2, <1>6, <2>1, <2>2 DEF Reached
  <1>8. CourierFits(c, site', mails')
    BY <1>1, <1>2, <1>3, <1>4, <1>7, UsersApart DEF CourierFits, UsersApart
  <1> HIDE DEF c
  <1>10. MailsFit'
    BY <1>2, <1>4, <1>5, QuietMovesFit
  <1>11. \A m \in Messages, v \in Users : mails[m][v] <= mails'[m][v]
    BY <1>4 DEF OutboxInv, OutboxTyped
  <1>12. /\ courier' \in [Dispatchers -> Couriers]
         /\ \A e \in Dispatchers : CourierFits(courier'[e], site', mails')
    BY <1>2, <1>4, <1>6, <1>8, <1>11, OneCourierMoves DEF OutboxInv, OutboxTyped
  <1> QED BY <1>4, <1>6, <1>10, <1>11, <1>12, RowsRest, RowsFit DEF OutboxInv, OutboxTyped

(* A mail that is sent is no longer owed, and owed to nobody else's event. *)
LEMMA MailFits ==
    ASSUME UsersApart, OutboxNumbers, OutboxInv, NEW d \in Dispatchers, NEW u \in Users,
           Outbox!Mail(d, u)
    PROVE  OutboxInv' /\ Outbox!SettledStays
  <1> DEFINE o == courier[d]
  <1>1. /\ o \in Couriers /\ CourierFits(o, site, mails) /\ o.at = u /\ u \notin o.left
        /\ o.event \in Messages /\ Reached(o, site, mails) /\ <<o.event, u>> \in site
        /\ \A i \in 1..Len(o.batch) : o.batch[i] # o.event
    BY UsersApart DEF OutboxInv, OutboxTyped, Outbox!Mail, CourierFits, UsersApart
  <1>2. outbox' = outbox /\ site' = site
    BY DEF Outbox!Mail
  <1>3. CASE /\ mails' = [mails EXCEPT ![o.event][u] = @ + 1]
             /\ courier' = [courier EXCEPT ![d].at = IF o.left = {} THEN "done" ELSE "deliver"]
    <2> DEFINE c == [o EXCEPT !.at = IF o.left = {} THEN "done" ELSE "deliver"]
    <2>1. /\ c \in Couriers /\ c.left = o.left /\ c.event = o.event /\ c.batch = o.batch
          /\ c.at = IF o.left = {} THEN "done" ELSE "deliver"
      BY <1>1 DEF Couriers
    <2>2. courier' = [courier EXCEPT ![d] = c]
      BY <1>3
    <2>3. /\ mails' \in [Messages -> [Users -> Nat]]
          /\ \A m \in Messages, v \in Users :
                mails'[m][v] = mails[m][v] + (IF m = o.event /\ v = u THEN 1 ELSE 0)
      BY <1>1, <1>3 DEF OutboxInv, OutboxTyped
    <2>4. \A m \in Messages, v \in Users : mails[m][v] <= mails'[m][v] /\ mails[m][v] \in Nat
      BY <2>3 DEF OutboxInv, OutboxTyped
    <2>5. Reached(c, site', mails')
      <3> SUFFICES ASSUME NEW v \in Users, v \notin o.left
                   PROVE  <<o.event, v>> \in site /\ mails'[o.event][v] > 0
        BY <1>2, <2>1 DEF Reached
      <3>1. CASE v = u
        <4>1. mails'[o.event][u] = mails[o.event][u] + 1 /\ mails[o.event][u] \in Nat
          BY <1>1, <2>3, <2>4
        <4>2. mails'[o.event][v] > 0
          BY <3>1, <4>1
        <4> QED BY <1>1, <3>1, <4>2
      <3>2. CASE v # u
        <4>1. <<o.event, v>> \in site /\ mails[o.event][v] > 0
          BY <1>1, <3>2 DEF Reached
        <4>2. mails'[o.event][v] = mails[o.event][v] /\ mails[o.event][v] \in Nat
          BY <1>1, <2>3, <2>4, <3>2
        <4> QED BY <4>1, <4>2
      <3> QED BY <3>1, <3>2
    <2>6. CourierFits(c, site', mails')
      BY <1>1, <2>1, <2>5, UsersApart DEF CourierFits, UsersApart
    <2>7. \A m \in Messages, v \in Users : Owes(c, m, v) => Owes(o, m, v)
      BY <1>1, <2>1, UsersApart DEF Owes, UsersApart
    <2>8. Owes(o, o.event, u) /\ ~Owes(c, o.event, u)
      BY <1>1, <2>1, UsersApart DEF Owes, UsersApart
    <2> HIDE DEF c
    <2>9. \A e \in Dispatchers : courier'[e] = IF e = d THEN c ELSE courier[e]
      BY <2>2 DEF OutboxInv, OutboxTyped
    <2>10. MailsFit'
      <3> SUFFICES ASSUME NEW m \in Messages, NEW v \in Users
                   PROVE  mails'[m][v] + Cardinality(Debtors(m, v)') <= outbox'[m].attempts
        BY DEF MailsFit
      <3>1. CASE m = o.event /\ v = u
        <4>1. d \in Debtors(m, v) /\ Debtors(m, v)' \in SUBSET (Debtors(m, v) \ {d})
          BY <2>7, <2>8, <2>9, <3>1 DEF Debtors
        <4>2. IsFiniteSet(Debtors(m, v))
          BY FS_Subset DEF Debtors, OutboxNumbers
        <4>3. /\ IsFiniteSet(Debtors(m, v) \ {d})
              /\ Cardinality(Debtors(m, v) \ {d}) = Cardinality(Debtors(m, v)) - 1
          BY <4>1, <4>2, FS_RemoveElement
        <4>4. /\ Cardinality(Debtors(m, v)') <= Cardinality(Debtors(m, v) \ {d})
              /\ IsFiniteSet(Debtors(m, v)')
          BY <4>1, <4>3, FS_Subset
        <4>5. /\ Cardinality(Debtors(m, v)') \in Nat /\ Cardinality(Debtors(m, v)) \in Nat
          BY <4>2, <4>4, FS_CardinalityType
        <4>6. mails[m][v] + Cardinality(Debtors(m, v)) <= outbox[m].attempts
          BY DEF OutboxInv, MailsFit
        <4>7. outbox[m].attempts \in Nat /\ mails[m][v] \in Nat /\ mails'[m][v] = mails[m][v] + 1
          BY <2>3, <2>4, <3>1 DEF OutboxInv, OutboxTyped, Outbox!Row, OutboxNumbers
        <4> QED BY <1>2, <4>3, <4>4, <4>5, <4>6, <4>7
      <3>2. CASE ~(m = o.event /\ v = u)
        <4>1. \A e \in Dispatchers : Owes(courier'[e], m, v) => Owes(courier[e], m, v)
          BY <2>7, <2>9
        <4>2. mails'[m][v] = mails[m][v]
          BY <2>3, <2>4, <3>2
        <4> QED BY <1>2, <4>1, <4>2, DebtsFit DEF OutboxInv
      <3> QED BY <3>1, <3>2
    <2>11. /\ courier' \in [Dispatchers -> Couriers]
           /\ \A e \in Dispatchers : CourierFits(courier'[e], site', mails')
      BY <1>2, <2>1, <2>2, <2>3, <2>4, <2>6, OneCourierMoves DEF OutboxInv, OutboxTyped
    <2> QED BY <1>2, <2>3, <2>4, <2>10, <2>11, RowsRest, RowsFit DEF OutboxInv, OutboxTyped
  <1>4. CASE mails' = mails /\ courier' = [courier EXCEPT ![d].at = "failed"]
    <2> DEFINE c == [o EXCEPT !.at = "failed"]
    <2>1. /\ c \in Couriers /\ c.at = "failed"
          /\ c.left = o.left /\ c.event = o.event /\ c.batch = o.batch
      BY <1>1 DEF Couriers
    <2>2. courier' = [courier EXCEPT ![d] = c]
      BY <1>4
    <2>3. CourierFits(c, site', mails')
      BY <1>1, <2>1, UsersApart DEF CourierFits, UsersApart
    <2>4. \A m \in Messages, v \in Users : Owes(c, m, v) => Owes(o, m, v)
      BY <1>1, <2>1, UsersApart DEF Owes, UsersApart
    <2> HIDE DEF c
    <2>5. MailsFit'
      BY <1>2, <1>4, <2>1, <2>2, <2>4, QuietMovesFit
    <2>6. \A m \in Messages, v \in Users : mails[m][v] <= mails'[m][v]
      BY <1>4 DEF OutboxInv, OutboxTyped
    <2>7. /\ courier' \in [Dispatchers -> Couriers]
          /\ \A e \in Dispatchers : CourierFits(courier'[e], site', mails')
      BY <1>2, <1>4, <2>1, <2>2, <2>3, <2>6, OneCourierMoves DEF OutboxInv, OutboxTyped
    <2> QED BY <1>2, <1>4, <2>5, <2>6, <2>7, RowsRest, RowsFit DEF OutboxInv, OutboxTyped
  <1> QED BY <1>3, <1>4 DEF Outbox!Mail

(* A settled event is no longer held; a courier that has reported goes on  *)
(* to the rest of its batch.                                               *)
LEMMA SettleFits ==
    ASSUME UsersApart, OutboxNumbers, OutboxInv, NEW d \in Dispatchers,
           Outbox!CompleteOutbox(d) \/ Outbox!FailOutbox(d)
    PROVE  OutboxInv' /\ Outbox!SettledStays
  <1> DEFINE o == courier[d]
             m == o.event
             c == [Outbox!Resting EXCEPT !.batch = o.batch]
  <1>1. o \in Couriers /\ CourierFits(o, site, mails)
    BY DEF OutboxInv, OutboxTyped
  <1>2. PICK status \in {"delivered", "failed", "cancelled"} :
            /\ Outbox!Settle(d, status)
            /\ status = "delivered" => o.at = "done"
            /\ o.at \in {"done", "failed"}
            /\ status = "cancelled" => ~(outbox[m].attempts < Tries)
    <2>1. CASE Outbox!CompleteOutbox(d)
      BY <2>1 DEF Outbox!CompleteOutbox
    <2>2. CASE Outbox!FailOutbox(d)
      BY <2>2 DEF Outbox!FailOutbox
    <2> QED BY <2>1, <2>2
  <1>3. m \in Messages
    BY <1>1, <1>2 DEF CourierFits
  <1>4. /\ c \in Couriers /\ c.at = "idle" /\ c.left = {} /\ c.batch = o.batch /\ c.event = Nobody
    BY <1>1 DEF Couriers, Outbox!Resting
  <1>5. /\ courier' = [courier EXCEPT ![d] = c] /\ site' = site /\ mails' = mails
    BY <1>2 DEF Outbox!Settle
  <1>6. \A n \in Messages :
            \/ outbox'[n] = outbox[n]
            \/ /\ n = m /\ outbox[n].status = "running"
               /\ outbox'[n] = [outbox[n] EXCEPT !.status = status, !.owner = Nobody,
                                                 !.lapsed = FALSE]
    BY <1>2, <1>3 DEF Outbox!Settle, Outbox!Holds, OutboxInv, OutboxTyped
  <1>7. outbox' \in [Messages -> Outbox!Row]
    <2>1. \A h \in Outbox!Row : [h EXCEPT !.status = status, !.owner = Nobody, !.lapsed = FALSE]
              \in Outbox!Row
      BY DEF Outbox!Row
    <2>2. \A n \in Messages : outbox[n] \in Outbox!Row
      BY DEF OutboxInv, OutboxTyped
    <2>3. \A n \in Messages : outbox'[n] \in Outbox!Row
      BY <1>6, <2>1, <2>2
    <2>4. outbox' = [n \in Messages |-> outbox'[n]]
      BY <1>2 DEF Outbox!Settle, OutboxInv, OutboxTyped
    <2> QED BY <2>3, <2>4
  <1>8. status = "delivered" => \A u \in Users : <<m, u>> \in site /\ mails[m][u] > 0
    BY <1>1, <1>2, UsersApart DEF CourierFits, Reached, UsersApart
  <1>9. ASSUME NEW n \in Messages, n = m, outbox[n].status = "running",
               outbox'[n] = [outbox[n] EXCEPT !.status = status, !.owner = Nobody,
                                              !.lapsed = FALSE]
        PROVE  /\ outbox'[n].attempts = outbox[n].attempts
               /\ outbox'[n].status = status
               /\ status = "cancelled" => outbox[n].attempts = Tries
    <2>1. outbox[n] \in Outbox!Row
      BY DEF OutboxInv, OutboxTyped
    <2>2. /\ outbox'[n].attempts = outbox[n].attempts /\ outbox'[n].status = status
      BY <1>9, <2>1 DEF Outbox!Row
    <2>3. outbox[n].attempts \in 0..Tries /\ Tries \in Nat
      BY <2>1 DEF Outbox!Row, OutboxNumbers
    <2> QED BY <1>2, <1>9, <2>2, <2>3
  <1>10. RowsMove
    BY <1>6, <1>8, <1>9 DEF RowsMove
  <1>11. \A k \in Messages, u \in Users : Owes(c, k, u) => Owes(o, k, u)
    BY <1>4, UsersApart DEF Owes, UsersApart
  <1>12. CourierFits(c, site', mails')
    BY <1>1, <1>4, UsersApart DEF CourierFits, UsersApart
  <1> HIDE DEF c
  <1>13. MailsFit'
    BY <1>4, <1>5, <1>10, <1>11, QuietMovesFit DEF RowsMove
  <1>14. \A k \in Messages, u \in Users : mails[k][u] <= mails'[k][u]
    BY <1>5 DEF OutboxInv, OutboxTyped
  <1>15. /\ courier' \in [Dispatchers -> Couriers]
         /\ \A e \in Dispatchers : CourierFits(courier'[e], site', mails')
    BY <1>4, <1>5, <1>12, <1>14, OneCourierMoves DEF OutboxInv, OutboxTyped
  <1> QED BY <1>5, <1>7, <1>10, <1>13, <1>14, <1>15, RowsFit DEF OutboxInv, OutboxTyped

(* A courier that dies owes nothing more.                                  *)
LEMMA DieFits ==
    ASSUME UsersApart, OutboxNumbers, OutboxInv, NEW d \in Dispatchers, Outbox!Die(d)
    PROVE  OutboxInv' /\ Outbox!SettledStays
  <1>1. /\ courier' = [courier EXCEPT ![d] = Outbox!Resting] /\ site' = site /\ mails' = mails
    BY DEF Outbox!Die
  <1>2. \A n \in Messages :
            outbox'[n] = IF Outbox!Holds(d, n) THEN [outbox[n] EXCEPT !.lapsed = TRUE]
                         ELSE outbox[n]
    BY DEF Outbox!Die
  <1>3. \A h \in Outbox!Row :
            /\ [h EXCEPT !.lapsed = TRUE] \in Outbox!Row
            /\ [h EXCEPT !.lapsed = TRUE].attempts = h.attempts
            /\ [h EXCEPT !.lapsed = TRUE].status = h.status
    BY DEF Outbox!Row
  <1>4. \A n \in Messages : outbox[n] \in Outbox!Row
    BY DEF OutboxInv, OutboxTyped
  <1>5. outbox' \in [Messages -> Outbox!Row]
    BY <1>3, <1>4 DEF Outbox!Die
  <1>6. RowsMove
    BY <1>2, <1>3, <1>4 DEF RowsMove, Outbox!Holds
  <1>7. MailsFit'
    BY <1>1, <1>6, RestingFits, QuietMovesFit DEF RowsMove
  <1>8. \A k \in Messages, u \in Users : mails[k][u] <= mails'[k][u]
    BY <1>1 DEF OutboxInv, OutboxTyped
  <1>9. /\ courier' \in [Dispatchers -> Couriers]
        /\ \A e \in Dispatchers : CourierFits(courier'[e], site', mails')
    BY <1>1, <1>8, RestingFits, OneCourierMoves DEF OutboxInv, OutboxTyped
  <1> QED BY <1>1, <1>5, <1>6, <1>7, <1>8, <1>9, RowsFit DEF OutboxInv, OutboxTyped

(* A claim is an attempt, of which its courier owes each user one mail; a  *)
(* batch names what it took, each event once.                              *)
LEMMA ClaimFits ==
    ASSUME UsersApart, OutboxNumbers, OutboxInv, NEW d \in Dispatchers, Outbox!ClaimOutbox(d)
    PROVE  OutboxInv' /\ Outbox!SettledStays
  <1> DEFINE Taken(n) == [status |-> "running", attempts |-> outbox[n].attempts + 1, owner |-> d,
                          lapsed |-> FALSE]
  <1>1. PICK taken \in SUBSET {n \in Messages : Outbox!Claimable(n)} :
            /\ Outbox!Cardinality(taken) \in 1..Batch
            /\ outbox' = [n \in Messages |-> IF n \in taken THEN Taken(n) ELSE outbox[n]]
            /\ \E order \in Outbox!SetToSeqs(taken) :
                  courier' = [courier EXCEPT ![d].batch = order]
    BY Zenon DEF Outbox!ClaimOutbox
  <1>2. PICK order \in Outbox!SetToSeqs(taken) : courier' = [courier EXCEPT ![d].batch = order]
    BY <1>1
  <1>3. site' = site /\ mails' = mails /\ courier[d] = Outbox!Resting
    BY DEF Outbox!ClaimOutbox
  <1> DEFINE k == Outbox!Cardinality(taken)
             c == [Outbox!Resting EXCEPT !.batch = order]
  <1>4. order \in [1..k -> taken] /\ \A i, j \in 1..k : i # j => order[i] # order[j]
    BY Zenon DEF Outbox!SetToSeqs
  <1>5. k \in Nat
    BY <1>1 DEF OutboxNumbers
  <1> HIDE DEF k
  <1>6. order \in Seq(Messages) /\ Len(order) = k /\ \A i \in 1..k : order[i] \in taken
    BY <1>4, <1>5
  <1>7. /\ c \in Couriers /\ c.at = "idle" /\ c.left = {} /\ c.batch = order /\ c.event = Nobody
    BY <1>6 DEF Couriers, Outbox!Resting
  <1>8. courier' = [courier EXCEPT ![d] = c]
    BY <1>2, <1>3 DEF OutboxInv, OutboxTyped
  <1>9. CourierFits(c, site', mails')
    BY <1>4, <1>6, <1>7, UsersApart DEF CourierFits, UsersApart
  <1>10. \A m \in Messages, u \in Users : Owes(c, m, u) => m \in taken
    BY <1>6, <1>7, UsersApart DEF Owes, UsersApart
  <1> HIDE DEF c
  <1>11. \A n \in Messages : outbox[n] \in Outbox!Row
    BY DEF OutboxInv, OutboxTyped
  <1>12. \A n \in taken : n \in Messages /\ Outbox!Claimable(n)
    BY <1>1
  <1>13. \A n \in taken : Taken(n) \in Outbox!Row
    BY <1>11, <1>12 DEF Outbox!Row, Outbox!Claimable, OutboxNumbers
  <1>14. outbox' \in [Messages -> Outbox!Row]
    BY <1>1, <1>11, <1>13
  <1>15. \A n \in Messages :
            \/ outbox'[n] = outbox[n]
            \/ /\ outbox[n].status \notin {"delivered", "cancelled"}
               /\ outbox'[n].status = "running"
    BY <1>1, <1>12 DEF Outbox!Claimable
  <1>16. Outbox!SettledStays
    BY <1>15 DEF Outbox!SettledStays
  <1>17. Outbox!DeliveredHasReachedAll' /\ GivenUpAtLast'
    <2>1. \A n \in Messages : outbox'[n].status \in {"delivered", "cancelled"} => outbox'[n] = outbox[n]
      BY <1>15
    <2>2. Outbox!DeliveredHasReachedAll'
      BY <1>3, <2>1 DEF OutboxInv, Outbox!DeliveredHasReachedAll
    <2>3. GivenUpAtLast'
      BY <2>1 DEF OutboxInv, GivenUpAtLast
    <2> QED BY <2>2, <2>3
  <1>18. /\ courier' \in [Dispatchers -> Couriers]
         /\ \A e \in Dispatchers : CourierFits(courier'[e], site', mails')
    <2>1. \A m \in Messages, u \in Users : mails[m][u] <= mails'[m][u]
      BY <1>3 DEF OutboxInv, OutboxTyped
    <2> QED BY <1>3, <1>7, <1>8, <1>9, <2>1, OneCourierMoves DEF OutboxInv, OutboxTyped
  <1>19. \A e \in Dispatchers : courier'[e] = IF e = d THEN c ELSE courier[e]
    BY <1>8 DEF OutboxInv, OutboxTyped
  <1>20. MailsFit'
    <2> SUFFICES ASSUME NEW m \in Messages, NEW u \in Users
                 PROVE  mails'[m][u] + Cardinality(Debtors(m, u)') <= outbox'[m].attempts
      BY DEF MailsFit
    <2>1. CASE m \in taken
      <3>1. Debtors(m, u)' \in SUBSET (Debtors(m, u) \cup {d})
        BY <1>19 DEF Debtors
      <3>2. IsFiniteSet(Debtors(m, u))
        BY FS_Subset DEF Debtors, OutboxNumbers
      <3>3. /\ IsFiniteSet(Debtors(m, u) \cup {d})
            /\ Cardinality(Debtors(m, u) \cup {d}) <= Cardinality(Debtors(m, u)) + 1
        <4>1. Cardinality(Debtors(m, u)) \in Nat
          BY <3>2, FS_CardinalityType
        <4>2. /\ IsFiniteSet(Debtors(m, u) \cup {d})
              /\ \/ Cardinality(Debtors(m, u) \cup {d}) = Cardinality(Debtors(m, u))
                 \/ Cardinality(Debtors(m, u) \cup {d}) = Cardinality(Debtors(m, u)) + 1
          BY <3>2, FS_AddElement
        <4> QED BY <4>1, <4>2
      <3>4. /\ IsFiniteSet(Debtors(m, u)')
            /\ Cardinality(Debtors(m, u)') <= Cardinality(Debtors(m, u) \cup {d})
        BY <3>1, <3>3, FS_Subset
      <3>5. /\ Cardinality(Debtors(m, u)) \in Nat /\ Cardinality(Debtors(m, u)') \in Nat
            /\ Cardinality(Debtors(m, u) \cup {d}) \in Nat
        BY <3>2, <3>3, <3>4, FS_CardinalityType
      <3>6. mails[m][u] \in Nat /\ outbox[m].attempts \in Nat
        BY DEF OutboxInv, OutboxTyped, Outbox!Row, OutboxNumbers
      <3>7. mails'[m][u] = mails[m][u] /\ outbox'[m].attempts = outbox[m].attempts + 1
        BY <1>1, <1>3, <2>1
      <3>8. mails[m][u] + Cardinality(Debtors(m, u)) <= outbox[m].attempts
        BY DEF OutboxInv, MailsFit
      <3> QED BY <3>3, <3>4, <3>5, <3>6, <3>7, <3>8
    <2>2. CASE m \notin taken
      <3>1. \A e \in Dispatchers : Owes(courier'[e], m, u) => Owes(courier[e], m, u)
        BY <1>10, <1>19, <2>2
      <3>2. mails'[m][u] = mails[m][u] /\ outbox'[m].attempts = outbox[m].attempts
        BY <1>1, <1>3, <2>2
      <3> QED BY <3>1, <3>2, DebtsFit DEF OutboxInv
    <2> QED BY <2>1, <2>2
  <1> QED BY <1>3, <1>14, <1>16, <1>17, <1>18, <1>20 DEF OutboxInv, OutboxTyped

LEMMA OutboxStays ==
    ASSUME UsersApart, OutboxNumbers, OutboxInv, [Outbox!Next]_(Outbox!vars)
    PROVE  OutboxInv' /\ Outbox!SettledStays
  <1>1. CASE UNCHANGED Outbox!vars
    BY <1>1 DEF Outbox!vars, OutboxInv, OutboxTyped, MailsFit, Debtors, GivenUpAtLast,
                Outbox!DeliveredHasReachedAll, Outbox!SettledStays
  <1>2. ASSUME NEW m \in Messages, Outbox!EnqueueOutbox(m) \/ Outbox!LeaseLapses(m)
        PROVE  OutboxInv' /\ Outbox!SettledStays
    BY <1>2, EnqueueFits, LapseFits
  <1>3. ASSUME NEW d \in Dispatchers, Outbox!DispatcherStep(d) \/ Outbox!Die(d)
        PROVE  OutboxInv' /\ Outbox!SettledStays
    BY <1>3, ClaimFits, DeliverFits, NotifyFits, MailFits, SettleFits, DieFits
       DEF Outbox!DispatcherStep
  <1> QED BY <1>1, <1>2, <1>3 DEF Outbox!Next

(* What is reported as delivered has reached everyone, nobody is mailed an *)
(* event more often than it was claimed, and what is settled stays so, for *)
(* any number of events, users and dispatchers and whatever dies or stalls *)
(* (notifications.py, run_once; repository.py, claim_outbox and            *)
(* complete_outbox).                                                       *)
THEOREM DeliveriesReachAll ==
    ASSUME UsersApart, OutboxNumbers PROVE Spec => DeliveredHasReachedAll
  <1> DEFINE I == focus = "outbox" => OutboxInv
  <1>1. Init => I
    BY OneServiceAtInit, OutboxAtInit
  <1>2. I /\ [Next]_vars => I'
    BY OneService, OutboxStays
  <1>3. I /\ [Next]_vars => (focus = "outbox" => Outbox!SettledStays)
    BY OneService, OutboxStays
  <1>4. I => (focus = "outbox" => Outbox!DeliveredHasReachedAll /\ Outbox!MailsAreAttempts)
    <2> SUFFICES ASSUME OutboxInv, NEW m \in Messages, NEW u \in Users
                 PROVE  mails[m][u] <= outbox[m].attempts
      BY DEF OutboxInv, GivenUpAtLast, Outbox!MailsAreAttempts
    <2>1. Cardinality(Debtors(m, u)) \in Nat
      BY FS_Subset, FS_CardinalityType DEF Debtors, OutboxNumbers
    <2>2. mails[m][u] \in Nat /\ outbox[m].attempts \in Nat
      BY DEF OutboxInv, OutboxTyped, Outbox!Row, OutboxNumbers
    <2>3. mails[m][u] + Cardinality(Debtors(m, u)) <= outbox[m].attempts
      BY DEF OutboxInv, MailsFit
    <2> QED BY <2>1, <2>2, <2>3
  <1> QED BY <1>1, <1>2, <1>3, <1>4, PTL DEF Spec, DeliveredHasReachedAll
-----------------------------------------------------------------------------
(* Containers: what a reported attempt leaves behind.                      *)

AttemptsApart == NoAttempt \notin Attempts

Places == {"volume", "stage", "version", "install", "smoke"}
Parts == Places \ {"version"}

Tasks == [runner : Runners \cup {NoAttempt},
          at : Places \cup {"none", "clean", "undo", "abort", "reported", "over"},
          names : SUBSET Parts, of : Attempts \cup {NoAttempt}, left : SUBSET Parts,
          leaked : BOOLEAN, result : BOOLEAN]

(* While an attempt works, and to the end if all of its commands came      *)
(* back, nothing of it is still to come.                                   *)
Sure(t) == \/ t.at \in Places \cup {"none", "reported"}
           \/ t.at = "clean" /\ t.result

(* Of a sure attempt everything that exists is known: by name as long as   *)
(* it works, in the list of what is to be removed while it cleans up.      *)
AttemptFits(t, a, things, coming) ==
    /\ Sure(t) => \A x \in coming : x[1] # a
    /\ t.at \in {"none", "reported"} => \A x \in things : x[1] # a
    /\ t.at \in Places => \A x \in things : x[1] = a => x[2] \in t.names \cup {"volume"}
    /\ t.at = "clean" /\ t.result =>
          /\ t.of = a
          /\ t.leaked \/ \A x \in things : x[1] = a => x[2] \in t.left

Things == Places \cup {"unlabelled"}

ContainersInv ==
    /\ task \in [Attempts -> Tasks]
    /\ engine \in SUBSET (Attempts \X Things) /\ underway \in SUBSET (Attempts \X Things)
    /\ prepared \in [Runners -> Attempts \cup {NoAttempt}]
    /\ \A a \in Attempts : task[a].at # "none" => task[a].runner \in Runners
    /\ \A a \in Attempts : AttemptFits(task[a], a, engine, underway)

(* The phases, one by one.                                                 *)
LEMMA PhasesAre ==
    ASSUME NEW a \in Attempts
    PROVE  /\ Containers!Working(a) <=> task[a].at \in Places
           /\ Containers!InPrepare(a) <=> task[a].at \in {"volume", "stage", "version"}
           /\ task[a].at \in Places => Containers!NextAt(a) \in Places \cup {"clean"}
           /\ task[a].at \in Places \ {"smoke"} => Containers!NextAt(a) \in Places
  <1> DEFINE P == Containers!Phases
  <1>1. /\ Len(P) = 5 /\ Len(Containers!Preparing) = 3
        /\ P[1] = "volume" /\ P[2] = "stage" /\ P[3] = "version" /\ P[4] = "install"
        /\ P[5] = "smoke"
    BY DEF Containers!Phases, Containers!Preparing
  <1> HIDE DEF P
  <1>2. \A i \in 1..Len(P) : i \in {1, 2, 3, 4, 5}
    BY <1>1
  <1>3. Containers!Working(a) <=> task[a].at \in Places
    BY <1>1, <1>2 DEF Containers!Working, Places, P
  <1>4. ASSUME NEW k \in {1, 2, 3, 4, 5}, task[a].at = P[k] PROVE Containers!Position(a) = k
    <2>1. /\ k \in 1..Len(P)
          /\ \A i \in 1..Len(P) : P[i] = task[a].at => i = k
      BY <1>1, <1>2, <1>4
    <2> QED BY Zenon, <1>4, <2>1 DEF Containers!Position, P
  <1>5. Containers!InPrepare(a) <=> task[a].at \in {"volume", "stage", "version"}
    <2>1. CASE task[a].at \in {"volume", "stage", "version"}
      BY <1>1, <1>3, <1>4, <2>1 DEF Containers!InPrepare, Places
    <2>2. CASE task[a].at \in {"install", "smoke"}
      BY <1>1, <1>3, <1>4, <2>2 DEF Containers!InPrepare, Places
    <2> QED BY <1>3, <2>1, <2>2 DEF Containers!InPrepare, Places
  <1>6. ASSUME task[a].at \in Places \ {"smoke"} PROVE Containers!NextAt(a) \in Places
    <2>1. \A k \in {1, 2, 3, 4} : task[a].at = P[k] => Containers!NextAt(a) = P[k + 1]
      BY <1>4, <1>6 DEF Containers!NextAt, P
    <2>2. PICK k \in {1, 2, 3, 4} : task[a].at = P[k]
      BY <1>1, <1>6 DEF Places
    <2> QED BY <1>1, <2>1, <2>2 DEF Places
  <1>7. task[a].at = "smoke" => Containers!NextAt(a) = "clean"
    BY DEF Containers!NextAt
  <1> QED BY <1>3, <1>5, <1>6, <1>7

LEMMA ContainersAtInit ==
    ASSUME Containers!Init PROVE ContainersInv
  BY DEF Containers!Init, Containers!NoTask, ContainersInv, AttemptFits, Tasks, Places, Parts

(* What happens to the things of others leaves an attempt alone.           *)
LEMMA OthersFit ==
    ASSUME NEW t, NEW a, NEW things, NEW coming, AttemptFits(t, a, things, coming),
           NEW things2, \A x \in things2 : x[1] = a => x \in things,
           NEW coming2, \A x \in coming2 : x[1] = a => x \in coming
    PROVE  AttemptFits(t, a, things2, coming2)
  BY DEF AttemptFits

(* One attempt takes a step, which touches only what is its own.           *)
LEMMA OneAttemptMoves ==
    ASSUME ContainersInv, NEW a \in Attempts, NEW t \in Tasks,
           task' = [task EXCEPT ![a] = t], t.at # "none" => t.runner \in Runners,
           prepared' \in [Runners -> Attempts \cup {NoAttempt}],
           engine' \in SUBSET (engine \cup {a} \X Things),
           underway' \in SUBSET (underway \cup {a} \X Things),
           AttemptFits(t, a, engine', underway')
    PROVE  ContainersInv'
  <1>1. task \in [Attempts -> Tasks]
    BY DEF ContainersInv
  <1>2. \A b \in Attempts : task'[b] = IF b = a THEN t ELSE task[b]
    BY <1>1
  <1>3. ASSUME NEW b \in Attempts, b # a PROVE AttemptFits(task[b], b, engine', underway')
    <2>1. AttemptFits(task[b], b, engine, underway)
      BY DEF ContainersInv
    <2>2. \A x \in engine' : x[1] = b => x \in engine
      BY <1>3
    <2>3. \A x \in underway' : x[1] = b => x \in underway
      BY <1>3
    <2> QED BY <2>1, <2>2, <2>3, OthersFit
  <1>4. /\ engine' \in SUBSET (Attempts \X Things) /\ underway' \in SUBSET (Attempts \X Things)
    BY DEF ContainersInv
  <1> QED BY <1>1, <1>2, <1>3, <1>4 DEF ContainersInv

(* What a cleanup of an attempt's own begins with.                         *)
Cleaning(a, at, result) ==
    [Containers!Removing(a, at, a, result) EXCEPT !.left = IF Containers!Known(a) THEN @ ELSE {}]

LEMMA CleaningIs ==
    ASSUME AttemptsApart, ContainersInv, NEW a \in Attempts, task[a].at \in Places,
           NEW at \in {"clean", "undo"}, NEW result \in BOOLEAN
    PROVE  LET t == Cleaning(a, at, result)
           IN  /\ t \in Tasks /\ t.at = at /\ t.of = a /\ t.result = result
               /\ t.runner = task[a].runner
               /\ Containers!Known(a) => t.left = Containers!Named(a) \cup {"volume"}
  <1>1. task[a] \in Tasks /\ a \in Attempts \cup {NoAttempt} /\ a # NoAttempt
    BY DEF ContainersInv, AttemptsApart
  <1> DEFINE named == Containers!Named(a)
             known == Containers!Known(a)
             t == [task[a] EXCEPT !.at = at, !.of = a, !.leaked = FALSE, !.result = result,
                                  !.names = named, !.left = named \cup {"volume"}]
  <1>2. named \in SUBSET Parts
    BY <1>1 DEF Containers!Named, Tasks, Places, Parts
  <1>3. Containers!Working(a)
    BY PhasesAre
  <1>4. Containers!Removing(a, at, a, result) = t
    BY Zenon, <1>1, <1>3 DEF Containers!Removing
  <1> HIDE DEF named, known
  <1>5. t \in Tasks
    BY <1>1, <1>2 DEF Tasks, Places, Parts
  <1>6. /\ t.at = at /\ t.of = a /\ t.result = result /\ t.runner = task[a].runner
        /\ t.left = named \cup {"volume"}
    BY <1>1 DEF Tasks
  <1> HIDE DEF t
  <1> DEFINE some == [t EXCEPT !.left = IF known THEN t.left ELSE {}]
  <1>7. /\ some \in Tasks /\ some.at = at /\ some.of = a /\ some.result = result
        /\ some.runner = task[a].runner /\ (known => some.left = t.left)
    BY <1>5, <1>6 DEF Tasks
  <1>8. Cleaning(a, at, result) = some
    BY Zenon, <1>4 DEF Cleaning, known
  <1> QED BY <1>6, <1>7, <1>8 DEF named, known

(* What an attempt makes is its own, and by the name of its phase.         *)
LEMMA MadeIs ==
    ASSUME NEW a \in Attempts, task[a].at \in Places \cup {"clean", "undo"}
    PROVE  Containers!Made(a) \in SUBSET ({a} \X Things)
  BY DEF Containers!Made, Things

LEMMA ClaimStays ==
    ASSUME AttemptsApart, ContainersInv, NEW r \in Runners, NEW a \in Attempts,
           Containers!Claim(r, a)
    PROVE  ContainersInv'
  <1> DEFINE t == [task[a] EXCEPT !.runner = r, !.at = "volume"]
  <1>1. task[a] \in Tasks /\ task[a].at = "none" /\ task \in [Attempts -> Tasks]
    BY DEF ContainersInv, Containers!Claim, Containers!NoTask
  <1>2. t \in Tasks /\ t.at = "volume" /\ t.runner = r
    BY <1>1 DEF Tasks, Places, Parts
  <1>3. task' = [task EXCEPT ![a] = t]
    BY <1>1 DEF Containers!Claim
  <1> HIDE DEF t
  <1>4. AttemptFits(t, a, engine, underway)
    BY <1>1, <1>2 DEF ContainersInv, AttemptFits, Sure, Places
  <1>5. engine' = engine /\ underway' = underway /\ prepared' = prepared
    BY DEF Containers!Claim
  <1> QED BY <1>2, <1>3, <1>4, <1>5, OneAttemptMoves DEF ContainersInv

LEMMA PerformStays ==
    ASSUME AttemptsApart, ContainersInv, NEW a \in Attempts, Containers!Perform(a)
    PROVE  ContainersInv'
  <1>1. /\ task[a] \in Tasks /\ task[a].at \in Places /\ task[a].runner \in Runners
        /\ AttemptFits(task[a], a, engine, underway) /\ task \in [Attempts -> Tasks]
    BY PhasesAre DEF ContainersInv, Containers!Perform, Places
  <1>2. underway' = underway /\ engine' = engine \cup Containers!Made(a)
    BY DEF Containers!Perform
  <1>3. prepared' \in [Runners -> Attempts \cup {NoAttempt}]
    BY <1>1 DEF ContainersInv, Containers!Perform
  <1>4. \A x \in underway : x[1] # a
    BY <1>1 DEF AttemptFits, Sure
  <1>5. \A x \in engine' : x[1] = a => x[2] \in Containers!Named(a) \cup {"volume"}
    <2>1. \A x \in engine : x[1] = a => x[2] \in task[a].names \cup {"volume"}
      BY <1>1 DEF AttemptFits
    <2>2. \A x \in Containers!Made(a) : x[2] \in Containers!Named(a) \cup {"volume"}
      BY DEF Containers!Made, Containers!Named
    <2>3. task[a].names \subseteq Containers!Named(a)
      BY DEF Containers!Named
    <2> QED BY <1>2, <2>1, <2>2, <2>3
  <1>k. /\ engine' \in SUBSET (engine \cup {a} \X Things)
        /\ underway' \in SUBSET (underway \cup {a} \X Things)
    BY <1>1, <1>2, MadeIs
  <1>6. CASE task[a].at = "smoke"
    <2> DEFINE t == Cleaning(a, "clean", TRUE)
    <2>1. Containers!Known(a)
      BY <1>6, PhasesAre DEF Containers!Perform
    <2>2. /\ t \in Tasks /\ t.at = "clean" /\ t.of = a /\ t.result = TRUE
          /\ t.runner = task[a].runner /\ t.left = Containers!Named(a) \cup {"volume"}
      BY <1>1, <2>1, CleaningIs
    <2>4. task' = [task EXCEPT ![a] = t]
      BY Zenon, <1>6 DEF Containers!Perform, Cleaning
    <2> HIDE DEF t
    <2>5. \A x \in engine' : x[1] = a => x[2] \in t.left
      BY <1>5, <2>2
    <2>6. t.at \notin Places \cup {"none", "reported"}
      BY <2>2 DEF Places
    <2>7. AttemptFits(t, a, engine', underway')
      BY <1>2, <1>4, <2>2, <2>5, <2>6 DEF AttemptFits
    <2> QED BY <1>1, <1>3, <1>k, <2>2, <2>4, <2>7, OneAttemptMoves
  <1>7. CASE task[a].at # "smoke"
    <2> DEFINE t == [task[a] EXCEPT !.at = Containers!NextAt(a), !.names = Containers!Named(a)]
    <2>1. Containers!NextAt(a) \in Places /\ Containers!Named(a) \in SUBSET Parts
      BY <1>1, <1>7, PhasesAre DEF Containers!Named, Tasks, Places, Parts
    <2>2. /\ t \in Tasks /\ t.at \in Places /\ t.names = Containers!Named(a)
          /\ t.runner = task[a].runner
      BY <1>1, <2>1 DEF Tasks
    <2>3. task' = [task EXCEPT ![a] = t]
      BY <1>7 DEF Containers!Perform
    <2> HIDE DEF t
    <2>4. AttemptFits(t, a, engine', underway')
      BY <1>2, <1>4, <1>5, <2>2 DEF AttemptFits, Places
    <2> QED BY <1>1, <1>3, <1>k, <2>2, <2>3, <2>4, OneAttemptMoves
  <1> QED BY <1>6, <1>7

(* An attempt that fails or is cancelled is no longer sure: what was cut   *)
(* off may come, and its cleanup has no result to report.                  *)
LEMMA UnsureFits ==
    ASSUME NEW t, NEW a, NEW things, NEW coming,
           t.at = "clean" => t.result = FALSE, t.at \in {"clean", "undo", "abort", "over"}
    PROVE  AttemptFits(t, a, things, coming)
  BY DEF AttemptFits, Sure, Places

LEMMA FailStays ==
    ASSUME AttemptsApart, ContainersInv, NEW a \in Attempts,
           Containers!Fail(a) \/ Containers!Cancel(a)
    PROVE  ContainersInv'
  <1>1. task[a] \in Tasks /\ task \in [Attempts -> Tasks]
    BY DEF ContainersInv
  <1>2. /\ engine' = engine /\ prepared' = prepared
        /\ underway' \in SUBSET (underway \cup {a} \X Things)
    <2>1. /\ engine' = engine /\ prepared' = prepared
          /\ underway' = underway \/ underway' = underway \cup Containers!Made(a)
      <3>1. CASE Containers!Fail(a)
        BY Zenon, <3>1 DEF Containers!Fail
      <3>2. CASE Containers!Cancel(a)
        BY Zenon, <3>2 DEF Containers!Cancel
      <3> QED BY <3>1, <3>2
    <2>2. task[a].at \in Places \cup {"clean", "undo"}
      BY PhasesAre DEF Containers!Fail, Containers!Cancel
    <2>3. Containers!Made(a) \in SUBSET ({a} \X Things)
      BY <2>2, MadeIs
    <2> QED BY <2>1, <2>3
  <1>3. CASE /\ task[a].at \in Places
             /\ \E at \in {"clean", "undo"} : task' = [task EXCEPT ![a] = Cleaning(a, at, FALSE)]
    <2>1. PICK at \in {"clean", "undo"} : task' = [task EXCEPT ![a] = Cleaning(a, at, FALSE)]
      BY <1>3
    <2> DEFINE t == Cleaning(a, at, FALSE)
    <2>2. t \in Tasks /\ t.at = at /\ t.result = FALSE /\ t.runner = task[a].runner
      <3>1. CASE at = "clean"
        BY <1>3, <3>1, CleaningIs
      <3>2. CASE at = "undo"
        BY <1>3, <3>2, CleaningIs
      <3> QED BY <2>1, <3>1, <3>2
    <2>3. task[a].runner \in Runners
      BY <1>3 DEF ContainersInv, Places
    <2>4. task' = [task EXCEPT ![a] = t]
      BY <2>1
    <2> HIDE DEF t
    <2>5. AttemptFits(t, a, engine', underway')
      BY <2>1, <2>2, UnsureFits
    <2> QED BY <1>2, <2>2, <2>3, <2>4, <2>5, OneAttemptMoves DEF ContainersInv
  <1>4. CASE /\ task[a].at \in Places \cup {"clean", "undo"}
             /\ task' = [task EXCEPT ![a] =
                    [task[a] EXCEPT !.at = "abort",
                                    !.names = IF Containers!Working(a) THEN Containers!Named(a) ELSE @,
                                    !.of = NoAttempt, !.left = {}, !.result = FALSE]]
    <2> DEFINE names == IF Containers!Working(a) THEN Containers!Named(a) ELSE task[a].names
               t == [task[a] EXCEPT !.at = "abort", !.names = names, !.of = NoAttempt,
                                    !.left = {}, !.result = FALSE]
    <2>1. names \in SUBSET Parts
      BY <1>1, PhasesAre DEF Containers!Named, Tasks, Places, Parts
    <2>2. task' = [task EXCEPT ![a] = t]
      BY <1>4
    <2> HIDE DEF names
    <2>3. t \in Tasks /\ t.at = "abort" /\ t.runner = task[a].runner
      BY <1>1, <2>1 DEF Tasks
    <2>4. task[a].runner \in Runners
      BY <1>4 DEF ContainersInv, Places
    <2> HIDE DEF t
    <2>5. AttemptFits(t, a, engine', underway')
      BY <2>3, UnsureFits
    <2> QED BY <1>2, <2>2, <2>3, <2>4, <2>5, OneAttemptMoves DEF ContainersInv
  <1>5. CASE Containers!Fail(a)
    <2>1. task[a].at \in Places
      BY <1>5, PhasesAre DEF Containers!Fail
    <2>2. task' = [task EXCEPT ![a] =
                       Cleaning(a, IF Containers!InPrepare(a) THEN "undo" ELSE "clean", FALSE)]
      BY Zenon, <1>5 DEF Containers!Fail, Cleaning
    <2> QED BY <1>3, <2>1, <2>2
  <1>6. CASE Containers!Cancel(a)
    <2>1. task[a].at \in Places \cup {"clean", "undo"}
      BY <1>6, PhasesAre DEF Containers!Cancel
    <2>2. CASE Containers!Working(a) /\ ~Containers!InPrepare(a)
      <3>1. task[a].at \in Places
        BY <2>2, PhasesAre
      <3>2. task' = [task EXCEPT ![a] = Cleaning(a, "clean", FALSE)]
        BY Zenon, <1>6, <2>2 DEF Containers!Cancel, Cleaning
      <3> QED BY <1>3, <3>1, <3>2
    <2>3. CASE ~(Containers!Working(a) /\ ~Containers!InPrepare(a))
      <3>1. task' = [task EXCEPT ![a] =
                [task[a] EXCEPT !.at = "abort",
                                !.names = IF Containers!Working(a) THEN Containers!Named(a) ELSE @,
                                !.of = NoAttempt, !.left = {}, !.result = FALSE]]
        BY Zenon, <1>6, <2>3 DEF Containers!Cancel
      <3> QED BY <1>4, <2>1, <3>1
    <2> QED BY <2>2, <2>3
  <1> QED BY <1>5, <1>6

(* What is taken from a list to be removed is removed, or has leaked.      *)
LEMMA RemoveStays ==
    ASSUME AttemptsApart, ContainersInv, NEW a \in Attempts, NEW part \in task[a].left,
           Containers!Remove(a, part)
    PROVE  ContainersInv'
  <1> DEFINE o == task[a]
  <1>1. /\ o \in Tasks /\ task \in [Attempts -> Tasks] /\ o.left \in SUBSET Parts
        /\ AttemptFits(o, a, engine, underway) /\ (o.at # "none" => o.runner \in Runners)
    BY DEF ContainersInv, Tasks
  <1>2. /\ prepared' = prepared /\ underway' = underway
        /\ engine' \in SUBSET engine
    BY DEF Containers!Remove
  <1>3. CASE /\ engine' = engine \ {<<o.of, part>>}
             /\ task' = [task EXCEPT ![a].left = @ \ {part}]
    <2> DEFINE t == [o EXCEPT !.left = @ \ {part}]
    <2>1. /\ t \in Tasks /\ t.left = o.left \ {part} /\ t.at = o.at /\ t.of = o.of
          /\ t.leaked = o.leaked /\ t.result = o.result /\ t.names = o.names
          /\ t.runner = o.runner
      BY <1>1 DEF Tasks
    <2>2. task' = [task EXCEPT ![a] = t]
      BY <1>3
    <2> HIDE DEF t
    <2>3. AttemptFits(o, a, engine', underway')
      BY <1>1, <1>2, <1>3, OthersFit
    <2>4. ASSUME o.at = "clean" /\ o.result, ~o.leaked
          PROVE  \A x \in engine' : x[1] = a => x[2] \in o.left \ {part}
      <3>1. \A x \in Attempts \X Things : x[1] = a /\ x[2] = part => x = <<a, part>>
        OBVIOUS
      <3>2. o.of = a /\ \A x \in engine : x[1] = a => x[2] \in o.left
        BY <1>1, <2>4 DEF AttemptFits
      <3>3. \A x \in engine' : x \in engine /\ x # <<a, part>> /\ x \in Attempts \X Things
        BY <1>3, <3>2 DEF ContainersInv
      <3> QED BY <3>1, <3>2, <3>3
    <2>5. AttemptFits(t, a, engine', underway')
      BY <2>1, <2>3, <2>4 DEF AttemptFits, Sure
    <2> QED BY <1>1, <1>2, <2>1, <2>2, <2>5, OneAttemptMoves DEF ContainersInv
  <1>4. CASE /\ engine' = engine
             /\ task' = [task EXCEPT ![a].left = @ \ {part}, ![a].leaked = TRUE]
    <2> DEFINE t == [o EXCEPT !.left = @ \ {part}, !.leaked = TRUE]
    <2>1. /\ t \in Tasks /\ t.at = o.at /\ t.of = o.of
          /\ t.leaked /\ t.result = o.result /\ t.names = o.names /\ t.runner = o.runner
      BY <1>1 DEF Tasks
    <2>2. task' = [task EXCEPT ![a] = t]
      BY <1>4
    <2> HIDE DEF t
    <2>3. AttemptFits(t, a, engine', underway')
      BY <1>1, <1>2, <1>4, <2>1 DEF AttemptFits, Sure
    <2> QED BY <1>1, <1>2, <2>1, <2>2, <2>3, OneAttemptMoves DEF ContainersInv
  <1> QED BY Zenon, <1>3, <1>4 DEF Containers!Remove

(* The ends of a cleanup: with a result, and nothing that leaked, nothing  *)
(* is left.                                                                *)
LEMMA CleanedStays ==
    ASSUME AttemptsApart, ContainersInv, NEW a \in Attempts, Containers!Cleaned(a)
    PROVE  ContainersInv'
  <1> DEFINE o == task[a]
             at == IF o.result THEN (IF Containers!Passed(o) THEN "reported" ELSE "over") ELSE "abort"
             t == [o EXCEPT !.at = at, !.of = NoAttempt]
  <1>1. /\ o \in Tasks /\ task \in [Attempts -> Tasks] /\ o.at = "clean" /\ o.left = {}
        /\ AttemptFits(o, a, engine, underway) /\ o.runner \in Runners
    BY DEF ContainersInv, Containers!Cleaned
  <1>2. engine' = engine /\ underway' = underway /\ task' = [task EXCEPT ![a] = t]
    BY DEF Containers!Cleaned
  <1>3. prepared' \in [Runners -> Attempts \cup {NoAttempt}]
    BY DEF ContainersInv, Containers!Cleaned
  <1>4. at \in {"reported", "over", "abort"}
    OBVIOUS
  <1>5. at = "reported" => o.result /\ ~o.leaked
    BY DEF Containers!Passed
  <1> HIDE DEF at
  <1>6. t \in Tasks /\ t.at = at /\ t.runner = o.runner
    BY <1>1, <1>4 DEF Tasks
  <1> HIDE DEF t
  <1>7. AttemptFits(t, a, engine', underway')
    <2>1. CASE at = "reported"
      <3>1. /\ \A x \in underway : x[1] # a
            /\ \A x \in engine : x[1] # a
        BY <1>1, <1>5, <2>1 DEF AttemptFits, Sure
      <3>2. t.at \notin Places /\ t.at # "clean"
        BY <1>6, <2>1 DEF Places
      <3> QED BY <1>2, <3>1, <3>2 DEF AttemptFits
    <2>2. CASE at # "reported"
      BY <1>4, <1>6, <2>2, UnsureFits
    <2> QED BY <2>1, <2>2
  <1> QED BY <1>1, <1>2, <1>3, <1>6, <1>7, OneAttemptMoves

(* An attempt that undoes, aborts or is over has nothing to report.        *)
LEMMA EndsStay ==
    ASSUME AttemptsApart, ContainersInv, NEW a \in Attempts,
           \/ Containers!Undone(a) \/ Containers!Abort(a) \/ Containers!Aborted(a)
           \/ Containers!Report(a)
    PROVE  ContainersInv'
  <1> DEFINE o == task[a]
  <1>1. /\ o \in Tasks /\ task \in [Attempts -> Tasks]
        /\ o.at \in {"undo", "abort", "reported"} /\ o.runner \in Runners
    BY DEF ContainersInv, Containers!Undone, Containers!Abort, Containers!Aborted,
           Containers!Report
  <1>2. engine' = engine /\ underway' = underway
    BY DEF Containers!Undone, Containers!Abort, Containers!Aborted, Containers!Report
  <1>3. prepared' \in [Runners -> Attempts \cup {NoAttempt}]
    BY DEF ContainersInv, Containers!Undone, Containers!Abort, Containers!Aborted,
           Containers!Report
  <1>4. ASSUME NEW t \in Tasks, task' = [task EXCEPT ![a] = t], t.at \in {"abort", "over"},
               t.runner = o.runner
        PROVE  ContainersInv'
    <2>1. AttemptFits(t, a, engine', underway')
      BY <1>4, UnsureFits
    <2> QED BY <1>1, <1>2, <1>3, <1>4, <2>1, OneAttemptMoves
  <1>5. CASE Containers!Undone(a) \/ Containers!Aborted(a) \/ Containers!Report(a)
    <2> DEFINE Ended(at, of) == [o EXCEPT !.at = at, !.of = of]
    <2>1. ASSUME NEW at \in {"abort", "over"}, NEW of \in Attempts \cup {NoAttempt}
          PROVE  Ended(at, of) \in Tasks /\ Ended(at, of).at = at /\ Ended(at, of).runner = o.runner
      BY <1>1, <2>1 DEF Tasks
    <2>2. \E at \in {"abort", "over"}, of \in Attempts \cup {NoAttempt} :
              task' = [task EXCEPT ![a] = Ended(at, of)]
      <3>1. CASE Containers!Undone(a)
        BY <1>1, <3>1 DEF Containers!Undone
      <3>2. CASE Containers!Aborted(a)
        BY <1>1, <3>2 DEF Containers!Aborted
      <3>3. CASE Containers!Report(a)
        <4>1. o.of \in Attempts \cup {NoAttempt} /\ \A at : [o EXCEPT !.at = at] = Ended(at, o.of)
          BY <1>1 DEF Tasks
        <4>2. task' = [task EXCEPT ![a] = [o EXCEPT !.at = IF a \in lapsed THEN "abort" ELSE "over"]]
          BY <1>1, <3>3 DEF Containers!Report
        <4> QED BY <4>1, <4>2
      <3> QED BY <1>5, <3>1, <3>2, <3>3
    <2> HIDE DEF Ended
    <2> QED BY <1>4, <2>1, <2>2
  <1>6. CASE Containers!Abort(a)
    <2> DEFINE b == prepared[o.runner]
    <2>1. CASE b = NoAttempt
      <3> DEFINE t == [o EXCEPT !.at = "over"]
      <3>1. t \in Tasks /\ t.at = "over" /\ t.runner = o.runner
        BY <1>1 DEF Tasks
      <3>2. task' = [task EXCEPT ![a] = t]
        BY <1>6, <2>1 DEF Containers!Abort
      <3> HIDE DEF t
      <3> QED BY <1>4, <3>1, <3>2
    <2>2. CASE b # NoAttempt
      <3> DEFINE left == IF b \in states[o.runner] THEN Containers!Resources(b) ELSE {}
                 t == [o EXCEPT !.of = b, !.leaked = FALSE, !.left = left]
      <3>1. b \in Attempts
        BY <1>1, <2>2 DEF ContainersInv
      <3>2. left \in SUBSET Parts
        BY <1>1, <3>1 DEF Containers!Resources, Tasks, Places, Parts
      <3>3. task' = [task EXCEPT ![a] = t]
        BY <1>6, <2>2 DEF Containers!Abort
      <3> HIDE DEF left, b
      <3>4. t \in Tasks /\ t.at = "abort" /\ t.runner = o.runner
        BY <1>1, <1>6, <3>1, <3>2 DEF Tasks, Containers!Abort
      <3> HIDE DEF t
      <3> QED BY <1>4, <3>3, <3>4
    <2> QED BY <2>1, <2>2
  <1> QED BY <1>5, <1>6

(* Nobody else's step adds to what there is or may come of an attempt that *)
(* is sure of itself.                                                      *)
LEMMA EngineStays ==
    ASSUME AttemptsApart, ContainersInv,
           \/ \E r \in Runners : Containers!Sweep(r)
           \/ \E x \in underway : Containers!TakeEffect(x) \/ Containers!Vanish(x)
    PROVE  ContainersInv'
  <1>1. task' = task /\ prepared' = prepared
    BY Zenon DEF Containers!Sweep, Containers!TakeEffect, Containers!Vanish
  <1>2. CASE engine' \in SUBSET engine /\ underway' \in SUBSET underway
    <2>1. \A a \in Attempts : AttemptFits(task[a], a, engine', underway')
      BY <1>2, OthersFit DEF ContainersInv
    <2> QED BY <1>1, <1>2, <2>1 DEF ContainersInv
  <1>3. ASSUME NEW x \in underway, Containers!TakeEffect(x) PROVE ContainersInv'
    <2>1. x \in Attempts \X Things /\ x[1] \in Attempts
      BY DEF ContainersInv
    <2>2. /\ underway' \in SUBSET underway
          /\ engine' \in SUBSET (engine \cup {x, <<x[1], "unlabelled">>})
      BY <1>3 DEF Containers!TakeEffect
    <2>3. engine' \in SUBSET (Attempts \X Things) /\ underway' \in SUBSET (Attempts \X Things)
      BY <2>1, <2>2 DEF ContainersInv, Things
    <2>4. ASSUME NEW a \in Attempts PROVE AttemptFits(task[a], a, engine', underway')
      <3>1. AttemptFits(task[a], a, engine, underway)
        BY DEF ContainersInv
      <3>2. CASE x[1] = a
        <4>1. ~Sure(task[a])
          BY <3>1, <3>2 DEF AttemptFits
        <4> QED BY <4>1 DEF AttemptFits, Sure
      <3>3. CASE x[1] # a
        <4>1. \A y \in engine' : y[1] = a => y \in engine
          BY <2>2, <3>3
        <4>2. \A y \in underway' : y[1] = a => y \in underway
          BY <2>2
        <4> QED BY <3>1, <4>1, <4>2, OthersFit
      <3> QED BY <3>2, <3>3
    <2> QED BY <1>1, <2>3, <2>4 DEF ContainersInv
  <1>4. ASSUME NEW r \in Runners, Containers!Sweep(r) PROVE ContainersInv'
    BY <1>2, <1>4 DEF Containers!Sweep
  <1>5. ASSUME NEW x \in underway, Containers!Vanish(x) PROVE ContainersInv'
    BY <1>2, <1>5 DEF Containers!Vanish
  <1> QED BY <1>3, <1>4, <1>5

(* With a runner die its attempts, and nobody is sure of them.             *)
LEMMA CrashStays ==
    ASSUME AttemptsApart, ContainersInv, NEW r \in Runners, Containers!Crash(r)
    PROVE  ContainersInv'
  <1> DEFINE mine == {a \in Attempts : task[a].runner = r /\ task[a].at \notin {"none", "over"}}
             t == [Containers!NoTask EXCEPT !.runner = r, !.at = "over"]
             Cut(a) == IF Containers!Working(a) THEN Containers!Made(a) ELSE {}
  <1>1. /\ task' = [a \in Attempts |-> IF a \in mine THEN t ELSE task[a]]
        /\ prepared' = [prepared EXCEPT ![r] = NoAttempt] /\ engine' = engine
        /\ underway' = underway \cup UNION {Cut(a) : a \in mine}
    BY Zenon DEF Containers!Crash
  <1>2. t \in Tasks /\ t.at = "over" /\ t.runner = r
    BY DEF Tasks, Containers!NoTask
  <1>3. task \in [Attempts -> Tasks] /\ prepared \in [Runners -> Attempts \cup {NoAttempt}]
    BY DEF ContainersInv
  <1>4. /\ task' \in [Attempts -> Tasks]
        /\ \A a \in Attempts : task'[a] = IF a \in mine THEN t ELSE task[a]
    BY <1>1, <1>2, <1>3
  <1>5. prepared' \in [Runners -> Attempts \cup {NoAttempt}]
    BY <1>1, <1>3
  <1>6. \A a \in Attempts : Cut(a) \in SUBSET ({a} \X Things)
    BY PhasesAre, MadeIs
  <1>7. /\ underway' \in SUBSET (Attempts \X Things)
        /\ \A x \in underway' : x \in underway \/ x[1] \in mine
    <2>1. \A a \in mine : a \in Attempts
      OBVIOUS
    <2> HIDE DEF mine, Cut
    <2>2. \A x \in underway' : x \in underway \/ \E a \in mine : x \in {a} \X Things
      BY <1>1, <1>6, <2>1
    <2> QED BY <2>1, <2>2 DEF ContainersInv
  <1>8. ASSUME NEW a \in Attempts PROVE AttemptFits(task'[a], a, engine', underway')
    <2>1. CASE a \in mine
      BY <1>2, <1>4, <2>1, UnsureFits
    <2>2. CASE a \notin mine
      <3>1. \A x \in underway' : x[1] = a => x \in underway
        BY <1>7, <2>2
      <3>2. AttemptFits(task[a], a, engine, underway) /\ task'[a] = task[a] /\ engine' = engine
        BY <1>1, <1>4, <2>2 DEF ContainersInv
      <3> QED BY <3>1, <3>2, OthersFit
    <2> QED BY <2>1, <2>2
  <1>9. \A a \in Attempts : task'[a].at # "none" => task'[a].runner \in Runners
    BY <1>2, <1>4 DEF ContainersInv
  <1>10. engine' \in SUBSET (Attempts \X Things)
    BY <1>1 DEF ContainersInv
  <1> QED BY <1>4, <1>5, <1>7, <1>8, <1>9, <1>10 DEF ContainersInv

LEMMA ContainersStay ==
    ASSUME AttemptsApart, ContainersInv, [Containers!Next]_(Containers!vars)
    PROVE  ContainersInv'
  <1>1. CASE UNCHANGED Containers!vars
    BY <1>1 DEF Containers!vars, ContainersInv
  <1>2. ASSUME NEW a \in Attempts,
               Containers!AttemptStep(a) \/ Containers!Fail(a) \/ Containers!Cancel(a)
        PROVE  ContainersInv'
    BY <1>2, PerformStays, CleanedStays, EndsStay, RemoveStays, FailStays
       DEF Containers!AttemptStep
  <1>3. ASSUME NEW a \in Attempts, Containers!Lapse(a) PROVE ContainersInv'
    BY <1>3 DEF Containers!Lapse, ContainersInv
  <1>4. CASE \E r \in Runners, a \in Attempts : Containers!Claim(r, a)
    BY <1>4, ClaimStays
  <1>5. CASE \E r \in Runners : Containers!Crash(r)
    BY <1>5, CrashStays
  <1> QED BY <1>1, <1>2, <1>3, <1>4, <1>5, EngineStays DEF Containers!Next

(* A runner that reports a passed cleanup has left nothing of the attempt  *)
(* behind, and nothing can still turn up, whatever is cut off, fails or    *)
(* dies in any number of attempts and runners (docker_executor.py,         *)
(* cleanup).                                                               *)
THEOREM ReportedAttemptsAreClean ==
    ASSUME AttemptsApart PROVE Spec => []ReportedCleanIsClean
  <1> DEFINE I == focus = "containers" => ContainersInv
  <1>1. Init => I
    BY OneServiceAtInit, ContainersAtInit
  <1>2. I /\ [Next]_vars => I'
    BY OneService, ContainersStay
  <1>3. I => ReportedCleanIsClean
    <2> SUFFICES ASSUME ContainersInv, NEW a \in Attempts, task[a].at = "reported",
                        NEW x \in engine \cup underway
                 PROVE  x[1] # a
      BY DEF ReportedCleanIsClean, Containers!ReportedCleanIsClean
    <2> QED BY DEF ContainersInv, AttemptFits, Sure
  <1> QED BY <1>1, <1>2, <1>3, PTL DEF Spec
-----------------------------------------------------------------------------
(* Types.  What a dispatcher may mail is bounded by its attempts, so that  *)
(* the type of the mails rests on MailsFit.                                *)

Bounds == {MaxTroubles, MaxGen, MaxFaults, MaxBreaks} \subseteq Nat
FirstVersion == Owners # {} /\ \E v \in Versions : \A w \in Versions : v <= w

LEMMA OutboxTypes ==
    ASSUME OutboxNumbers, OutboxInv, troubles \in 0..MaxTroubles
    PROVE  Outbox!TypeOK
  <1>1. ASSUME NEW m \in Messages, NEW u \in Users PROVE mails[m][u] \in 0..Tries
    <2>1. Cardinality(Debtors(m, u)) \in Nat
      BY FS_Subset, FS_CardinalityType DEF Debtors, OutboxNumbers
    <2>2. mails[m][u] \in Nat /\ outbox[m].attempts \in 0..Tries
      BY DEF OutboxInv, OutboxTyped, Outbox!Row
    <2>3. mails[m][u] + Cardinality(Debtors(m, u)) <= outbox[m].attempts
      BY DEF OutboxInv, MailsFit
    <2> QED BY <2>1, <2>2, <2>3 DEF OutboxNumbers
  <1>2. mails \in [Messages -> [Users -> 0..Tries]]
    BY <1>1 DEF OutboxInv, OutboxTyped
  <1> QED BY <1>2 DEF OutboxInv, OutboxTyped, Couriers, Outbox!TypeOK

LEMMA TroublesCounted ==
    ASSUME Bounds, troubles \in 0..MaxTroubles, [Outbox!Next]_(Outbox!vars)
    PROVE  troubles' \in 0..MaxTroubles
  <1>1. troubles' = troubles \/ (troubles < MaxTroubles /\ troubles' = troubles + 1)
    BY DEF Outbox!Next, Outbox!vars, Outbox!EnqueueOutbox, Outbox!LeaseLapses, Outbox!DispatcherStep,
       Outbox!ClaimOutbox, Outbox!Deliver, Outbox!NotifyOnSite, Outbox!Mail, Outbox!CompleteOutbox,
       Outbox!FailOutbox, Outbox!Settle, Outbox!Die, Outbox!Trouble
  <1> QED BY <1>1 DEF Bounds

(* CdnSubscription: every value that is written is one that was there, or  *)
(* a generation within the bound.                                          *)
CdnRow == [state : CdnSubscription!States, gen : 0..MaxGen, requested : Versions, scope : Owners,
           lease : Reviewers \cup {Nobody}, lapsed : BOOLEAN]
CdnSyncer == [at : {"idle", "fetched", "read", "written"}, plugin : CdnSubscription!Plugin,
              version : Versions]
CdnReviewer == [at : {"idle", "claimed", "verified", "submitted"}, version : Versions,
                gen : 0..MaxGen, scope : Owners]

CdnIdle ==
    /\ CdnSubscription!Consent \in CdnSubscription!Plugin
    /\ CdnSubscription!NotSyncing \in CdnSyncer
    /\ CdnSubscription!NotReviewing \in CdnReviewer

LEMMA CdnIdles == ASSUME Bounds, FirstVersion PROVE CdnIdle
  <1> DEFINE c == CdnSubscription!Consent
  <1>1. (CHOOSE v \in Versions : \A w \in Versions : v <= w) \in Versions
        /\ (CHOOSE o \in Owners : TRUE) \in Owners /\ 0 \in 0..MaxGen
    BY DEF FirstVersion, Bounds
  <1>2. c \in CdnSubscription!Plugin /\ c.version \in Versions /\ c.owner \in Owners
    BY <1>1 DEF CdnSubscription!Consent, CdnSubscription!Plugin
  <1> HIDE DEF c
  <1>3. /\ CdnSubscription!NotSyncing = [at |-> "idle", version |-> c.version, plugin |-> c]
        /\ CdnSubscription!NotReviewing = [at |-> "idle", version |-> c.version, gen |-> 0,
                                           scope |-> c.owner]
    BY DEF c, CdnSubscription!NotSyncing, CdnSubscription!NotReviewing
  <1> QED BY <1>1, <1>2, <1>3 DEF c, CdnIdle, CdnSyncer, CdnReviewer

LEMMA CdnTypeAtInit ==
    ASSUME Bounds, FirstVersion, CdnSubscription!Init PROVE CdnSubscription!TypeOK
  <1> DEFINE c == CdnSubscription!Consent
  <1>1. CdnIdle
    BY CdnIdles
  <1>2. c \in CdnSubscription!Plugin /\ c.version \in Versions /\ c.owner \in Owners
    BY <1>1 DEF CdnIdle, CdnSubscription!Plugin
  <1> HIDE DEF c
  <1>3. row = [state |-> "none", gen |-> 0, requested |-> c.version, scope |-> c.owner,
               lease |-> Nobody, lapsed |-> FALSE]
    BY DEF CdnSubscription!Init, c
  <1>4. row \in CdnRow
    BY <1>2, <1>3 DEF CdnRow, CdnSubscription!States, Bounds
  <1> QED BY <1>1, <1>2, <1>4
          DEF c, CdnIdle, CdnRow, CdnSyncer, CdnReviewer, Bounds, CdnSubscription!Init,
              CdnSubscription!TypeOK

LEMMA RequestTyped ==
    ASSUME NEW state \in CdnSubscription!States, NEW g \in 0..MaxGen, NEW v \in Versions,
           NEW o \in Owners
    PROVE  CdnSubscription!Requested(state, g, v, o) \in CdnRow
  BY DEF CdnSubscription!Requested, CdnRow

LEMMA CdnTypeStays ==
    ASSUME Bounds, FirstVersion, CdnSubscription!TypeOK,
           [CdnSubscription!Next]_(CdnSubscription!vars)
    PROVE  CdnSubscription!TypeOK'
  <1>1. /\ plugin \in CdnSubscription!Plugin /\ row \in CdnRow /\ github \in Versions
        /\ syncer \in [Syncers -> CdnSyncer] /\ reviewer \in [Reviewers -> CdnReviewer]
        /\ packages \subseteq Versions /\ faults \in 0..MaxFaults
    BY DEF CdnSubscription!TypeOK, CdnRow, CdnSyncer, CdnReviewer
  <1> SUFFICES /\ plugin' \in CdnSubscription!Plugin /\ row' \in CdnRow /\ github' \in Versions
               /\ syncer' \in [Syncers -> CdnSyncer] /\ reviewer' \in [Reviewers -> CdnReviewer]
               /\ packages' \subseteq Versions /\ faults' \in 0..MaxFaults
    BY DEF CdnSubscription!TypeOK, CdnRow, CdnSyncer, CdnReviewer
  <1>2. CdnIdle
    BY CdnIdles
  <1>3. CdnSubscription!Fault => faults' \in 0..MaxFaults
    BY <1>1 DEF CdnSubscription!Fault, Bounds
  <1>4. CASE UNCHANGED CdnSubscription!vars
    BY <1>1, <1>4 DEF CdnSubscription!vars
  <1>5. CASE CdnSubscription!Release \/ CdnSubscription!LeaseLapses
    BY <1>1, <1>3, <1>5 DEF CdnSubscription!Release, CdnSubscription!LeaseLapses, CdnRow
  <1>6. ASSUME NEW o \in Owners, CdnSubscription!ChangeOwner(o)
        PROVE  plugin' \in CdnSubscription!Plugin /\ faults' \in 0..MaxFaults
               /\ UNCHANGED <<row, github, syncer, reviewer, packages>>
    BY <1>1, <1>3, <1>6 DEF CdnSubscription!ChangeOwner, CdnSubscription!Plugin
  <1>7. ASSUME NEW on \in BOOLEAN, NEW v \in Versions, CdnSubscription!Configure(on, v)
        PROVE  plugin' \in CdnSubscription!Plugin /\ row' \in CdnRow
               /\ UNCHANGED <<github, syncer, reviewer, packages, faults>>
    <2> DEFINE g == CdnSubscription!NextGen(on)
    <2>1. g \in 0..MaxGen
      BY <1>1, <1>7 DEF CdnSubscription!Configure, CdnSubscription!NextGen, CdnSubscription!Plugin, Bounds
    <2>2. plugin' = [plugin EXCEPT !.on = on, !.gen = g, !.version = v]
          /\ UNCHANGED <<github, syncer, reviewer, packages, faults>>
      BY <1>7 DEF CdnSubscription!Configure
    <2>3. \/ row' = row
          \/ \E state \in {"queued", "idle", "disabled"}, o \in {plugin.owner, row.scope} :
                row' = CdnSubscription!Requested(state, g, v, o)
      BY <1>7 DEF CdnSubscription!Configure
    <2> HIDE DEF g
    <2>4. plugin' \in CdnSubscription!Plugin
      BY <1>1, <2>1, <2>2 DEF CdnSubscription!Plugin
    <2>5. row' \in CdnRow
      <3>1. plugin.owner \in Owners /\ row.scope \in Owners
        BY <1>1 DEF CdnSubscription!Plugin, CdnRow
      <3>2. \A state \in {"queued", "idle", "disabled"} : state \in CdnSubscription!States
        BY DEF CdnSubscription!States
      <3> QED BY <1>1, <2>1, <2>3, <3>1, <3>2, RequestTyped
    <2> QED BY <2>2, <2>4, <2>5
  <1>8. ASSUME NEW on \in BOOLEAN,
               CdnSubscription!SubmitPlugin(on) \/ CdnSubscription!UpdatePluginCdn(on)
        PROVE  \E v \in Versions : CdnSubscription!Configure(on, v)
    BY <1>1, <1>8 DEF CdnSubscription!SubmitPlugin, CdnSubscription!UpdatePluginCdn,
       CdnSubscription!Plugin
  <1>9. ASSUME NEW s \in Syncers, CdnSubscription!SyncerStep(s) \/ CdnSubscription!SyncDies(s)
        PROVE  /\ plugin' \in CdnSubscription!Plugin /\ row' \in CdnRow
               /\ syncer' \in [Syncers -> CdnSyncer] /\ faults' \in 0..MaxFaults
               /\ UNCHANGED <<github, reviewer, packages>>
    <2>1. syncer[s] \in CdnSyncer
      BY <1>1
    <2>2. CASE CdnSubscription!Fetch(s) \/ CdnSubscription!ReadPlugin(s)
      <3>1. /\ UNCHANGED <<plugin, row, github, reviewer, packages, faults>>
            /\ \/ syncer' = [syncer EXCEPT ![s] = [syncer[s] EXCEPT !.at = "fetched",
                                                                  !.version = github]]
               \/ syncer' = [syncer EXCEPT ![s] = [syncer[s] EXCEPT !.at = "read",
                                                                  !.plugin = plugin]]
        BY <1>1, <2>2 DEF CdnSubscription!Fetch, CdnSubscription!ReadPlugin
      <3>2. /\ [syncer[s] EXCEPT !.at = "fetched", !.version = github] \in CdnSyncer
            /\ [syncer[s] EXCEPT !.at = "read", !.plugin = plugin] \in CdnSyncer
        BY <1>1, <2>1 DEF CdnSyncer
      <3> QED BY <1>1, <3>1, <3>2
    <2>3. CASE CdnSubscription!WritePlugin(s)
      <3>1. plugin' = [syncer[s].plugin EXCEPT !.version = syncer[s].version]
            /\ UNCHANGED <<row, github, reviewer, packages, faults>>
        BY <2>3 DEF CdnSubscription!WritePlugin
      <3>2. plugin' \in CdnSubscription!Plugin
        BY <2>1, <3>1 DEF CdnSyncer, CdnSubscription!Plugin
      <3>3. syncer' = [syncer EXCEPT ![s] = [syncer[s] EXCEPT !.at = "written", !.plugin = plugin']]
        BY <1>1, <2>3 DEF CdnSubscription!WritePlugin
      <3>4. [syncer[s] EXCEPT !.at = "written", !.plugin = plugin'] \in CdnSyncer
        BY <2>1, <3>2 DEF CdnSyncer
      <3> QED BY <1>1, <3>1, <3>2, <3>3, <3>4
    <2>4. CASE CdnSubscription!QueueVersion(s)
      <3>1. UNCHANGED <<plugin, github, reviewer, packages, faults>>
            /\ syncer' = [syncer EXCEPT ![s] = CdnSubscription!NotSyncing]
        BY <2>4 DEF CdnSubscription!QueueVersion
      <3>2. row' = row \/ row' = CdnSubscription!Requested("queued", row.gen, syncer[s].plugin.version,
                                                           row.scope)
        BY <2>4 DEF CdnSubscription!QueueVersion
      <3>3. row' \in CdnRow
        <4>1. /\ syncer[s].plugin.version \in Versions /\ row.gen \in 0..MaxGen
              /\ row.scope \in Owners /\ "queued" \in CdnSubscription!States
          BY <1>1, <2>1 DEF CdnSyncer, CdnSubscription!Plugin, CdnRow, CdnSubscription!States
        <4> QED BY <1>1, <3>2, <4>1, RequestTyped
      <3> QED BY <1>1, <1>2, <3>1, <3>3 DEF CdnIdle
    <2>5. CASE CdnSubscription!SyncDies(s)
      BY <1>1, <1>2, <1>3, <2>5 DEF CdnSubscription!SyncDies, CdnIdle
    <2> QED BY <1>9, <2>2, <2>3, <2>4, <2>5 DEF CdnSubscription!SyncerStep
  <1>10. ASSUME NEW r \in Reviewers,
                \/ CdnSubscription!ReviewerStep(r) \/ CdnSubscription!Refuse(r)
                \/ CdnSubscription!ReviewDies(r)
         PROVE  /\ row' \in CdnRow /\ reviewer' \in [Reviewers -> CdnReviewer]
                /\ packages' \subseteq Versions /\ faults' \in 0..MaxFaults
                /\ UNCHANGED <<plugin, github, syncer>>
    <2>1. reviewer[r] \in CdnReviewer
      BY <1>1
    <2>2. ASSUME NEW state \in {"blocked", "error", "submitted"}, CdnSubscription!Finish(r, state)
          PROVE  row' \in CdnRow /\ reviewer' \in [Reviewers -> CdnReviewer]
      BY <1>1, <1>2, <2>2 DEF CdnSubscription!Finish, CdnRow, CdnIdle, CdnSubscription!States
    <2>3. CASE CdnSubscription!Claim(r)
      <3>1. row' = [row EXCEPT !.state = "running", !.lease = r, !.lapsed = FALSE]
            /\ reviewer' = [reviewer EXCEPT ![r] = [at |-> "claimed", version |-> row.requested,
                                                    gen |-> row.gen, scope |-> row.scope]]
            /\ UNCHANGED <<plugin, github, syncer, packages, faults>>
        BY <2>3 DEF CdnSubscription!Claim
      <3>2. row' \in CdnRow
        BY <1>1, <3>1 DEF CdnRow, CdnSubscription!States
      <3>3. [at |-> "claimed", version |-> row.requested, gen |-> row.gen, scope |-> row.scope]
            \in CdnReviewer
        BY <1>1 DEF CdnRow, CdnReviewer
      <3> QED BY <1>1, <3>1, <3>2, <3>3
    <2>4. \A at \in {"verified", "submitted"} : [reviewer[r] EXCEPT !.at = at] \in CdnReviewer
      BY <2>1 DEF CdnReviewer
    <2>5. CASE CdnSubscription!Verify(r)
      <3>1. /\ UNCHANGED <<plugin, github, syncer, packages, faults>>
            /\ \/ CdnSubscription!Finish(r, "blocked")
               \/ /\ reviewer' = [reviewer EXCEPT ![r] = [reviewer[r] EXCEPT !.at = "verified"]]
                  /\ row' = row
        BY <1>1, <2>5 DEF CdnSubscription!Verify
      <3> QED BY <1>1, <2>2, <2>4, <3>1
    <2>6. CASE CdnSubscription!Submit(r)
      <3>1. /\ UNCHANGED <<plugin, github, syncer, faults>>
            /\ packages' \in {packages, packages \cup {github}}
            /\ \/ CdnSubscription!Finish(r, "blocked")
               \/ /\ reviewer' = [reviewer EXCEPT ![r] = [reviewer[r] EXCEPT !.at = "submitted"]]
                  /\ row' = row
        BY <1>1, <2>6 DEF CdnSubscription!Submit
      <3> QED BY <1>1, <2>2, <2>4, <3>1
    <2>7. CASE CdnSubscription!Refuse(r)
      BY <1>1, <1>3, <2>2, <2>7 DEF CdnSubscription!Refuse
    <2>8. CASE CdnSubscription!Conclude(r)
      BY <1>1, <2>2, <2>8 DEF CdnSubscription!Conclude
    <2>9. CASE CdnSubscription!ReviewDies(r)
      BY <1>1, <1>2, <1>3, <2>9 DEF CdnSubscription!ReviewDies, CdnRow, CdnIdle
    <2> QED BY <1>10, <2>3, <2>5, <2>6, <2>7, <2>8, <2>9 DEF CdnSubscription!ReviewerStep
  <1> QED BY <1>1, <1>4, <1>5, <1>6, <1>7, <1>8, <1>9, <1>10 DEF CdnSubscription!Next

(* Containers: what a runner knows, and what has lapsed.                   *)
KnownTyped ==
    /\ states \in [Runners -> SUBSET Attempts]
    /\ lapsed \subseteq Attempts /\ breaks \in 0..MaxBreaks

LEMMA KnownStays ==
    ASSUME Bounds, KnownTyped, [Containers!Next]_(Containers!vars)
    PROVE  KnownTyped'
  <1>1. breaks' = breaks \/ (breaks < MaxBreaks /\ breaks' = breaks + 1) => breaks' \in 0..MaxBreaks
    BY DEF KnownTyped, Bounds
  <1>2. CASE UNCHANGED Containers!vars
    BY <1>2 DEF Containers!vars, KnownTyped
  <1>3. ASSUME NEW r \in Runners, NEW a \in Attempts, Containers!Claim(r, a) PROVE KnownTyped'
    BY <1>3 DEF Containers!Claim, KnownTyped
  <1>4. ASSUME NEW r \in Runners, Containers!Sweep(r) PROVE KnownTyped'
    BY <1>4 DEF Containers!Sweep, KnownTyped
  <1>5. ASSUME NEW r \in Runners, Containers!Crash(r) PROVE KnownTyped'
    <2>1. /\ states' = [states EXCEPT ![r] = {}] /\ Containers!Break
          /\ \E mine \in SUBSET Attempts : lapsed' = lapsed \cup mine
      BY Zenon, <1>5 DEF Containers!Crash
    <2> QED BY <1>1, <2>1 DEF Containers!Break, KnownTyped
  <1>6. ASSUME NEW a \in Attempts, Containers!Fail(a) \/ Containers!Cancel(a) \/ Containers!Lapse(a)
        PROVE  KnownTyped'
    <2>1. /\ states' = states /\ lapsed' \in {lapsed, lapsed \cup {a}}
          /\ breaks' = breaks \/ Containers!Break
      <3>1. CASE Containers!Fail(a)
        BY Zenon, <3>1 DEF Containers!Fail
      <3>2. CASE Containers!Cancel(a)
        BY Zenon, <3>2 DEF Containers!Cancel
      <3>3. CASE Containers!Lapse(a)
        BY Zenon, <3>3 DEF Containers!Lapse
      <3> QED BY <1>6, <3>1, <3>2, <3>3
    <2> QED BY <1>1, <2>1 DEF Containers!Break, KnownTyped
  <1>7. ASSUME NEW a \in Attempts, NEW part \in task[a].left, Containers!Remove(a, part)
        PROVE  KnownTyped'
    <2>1. /\ states' = states /\ lapsed' = lapsed
          /\ breaks' = breaks \/ Containers!Break
      BY Zenon, <1>7 DEF Containers!Remove
    <2> QED BY <1>1, <2>1 DEF Containers!Break, KnownTyped
  <1>8. ASSUME NEW a \in Attempts,
               \/ Containers!Perform(a) \/ Containers!Cleaned(a) \/ Containers!Undone(a)
               \/ Containers!Abort(a) \/ Containers!Aborted(a) \/ Containers!Report(a)
        PROVE  KnownTyped'
    <2>1. /\ lapsed' = lapsed /\ breaks' = breaks
          /\ states' = states \/ \E r, b : states' = [states EXCEPT ![r] = @ \ {b}]
      BY <1>8 DEF Containers!Perform, Containers!Cleaned, Containers!Undone, Containers!Abort,
         Containers!Aborted, Containers!Report
    <2> QED BY <2>1 DEF KnownTyped
  <1>9. ASSUME NEW x \in underway, Containers!TakeEffect(x) \/ Containers!Vanish(x)
        PROVE  KnownTyped'
    BY <1>9 DEF Containers!TakeEffect, Containers!Vanish, KnownTyped
  <1> QED BY <1>2, <1>3, <1>4, <1>5, <1>6, <1>7, <1>8, <1>9
          DEF Containers!Next, Containers!AttemptStep

(* Each service keeps the types of its rows, of its memory and of what is  *)
(* bounded: a mail is one of its event's attempts, and what a cleanup is   *)
(* to remove are the volume and the containers of an attempt, never the    *)
(* mere reading of the version (notifications.py; cdn.py;                  *)
(* docker_executor.py).                                                    *)
THEOREM TypeCorrectness ==
    ASSUME UsersApart, OutboxNumbers, AttemptsApart, Bounds, FirstVersion,
           Foci \subseteq {"outbox", "cdn", "containers"}
    PROVE  Spec => []TypeOK
  <1> DEFINE I == /\ focus \in Foci
                  /\ focus = "outbox" => OutboxInv /\ troubles \in 0..MaxTroubles
                  /\ focus = "cdn" => CdnSubscription!TypeOK
                  /\ focus = "containers" => ContainersInv /\ KnownTyped
  <1>1. Init => I
    <2>1. Outbox!Init => troubles \in 0..MaxTroubles
      BY DEF Outbox!Init, Bounds
    <2>2. Containers!Init => KnownTyped
      BY DEF Containers!Init, KnownTyped, Bounds
    <2> QED BY <2>1, <2>2, OneServiceAtInit, OutboxAtInit, CdnTypeAtInit, ContainersAtInit
  <1>2. I /\ [Next]_vars => I'
    <2> SUFFICES ASSUME I, [Next]_vars PROVE I'
      OBVIOUS
    <2>1. focus' = focus
      BY OneService
    <2>2. CASE focus = "outbox"
      <3>1. OutboxInv' /\ troubles' \in 0..MaxTroubles
        BY <2>2, OneService, OutboxStays, TroublesCounted
      <3> QED BY <2>1, <2>2, <3>1
    <2>3. CASE focus = "cdn"
      <3>1. CdnSubscription!TypeOK'
        BY <2>3, OneService, CdnTypeStays
      <3> QED BY <2>1, <2>3, <3>1
    <2>4. CASE focus = "containers"
      <3>1. ContainersInv' /\ KnownTyped'
        BY <2>4, OneService, ContainersStay, KnownStays
      <3> QED BY <2>1, <2>4, <3>1
    <2> QED BY <2>1, <2>2, <2>3, <2>4
  <1>3. I => TypeOK
    <2>1. ContainersInv /\ KnownTyped => Containers!TypeOK
      BY DEF ContainersInv, KnownTyped, Containers!TypeOK, Tasks, Places, Parts
    <2> QED BY <2>1, OutboxTypes DEF TypeOK
  <1> QED BY <1>1, <1>2, <1>3, PTL DEF Spec
=============================================================================
