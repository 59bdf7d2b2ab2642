--------------------------- MODULE PurchaseProofs ---------------------------
(***************************************************************************)
(* Theorems of Purchase, for every number of users, items, keys, replicas  *)
(* and requests, and every quantity, price, window and clock.              *)
(***************************************************************************)
EXTENDS Purchase, SumTheorems, FiniteSetTheorems, TLAPS

USE PurchaseAssumption

\* An idle slot is a legal request record.
LEMMA IdleType == Idle \in Request /\ Idle.at = "idle"
<1>1. 0 \in Time
  BY DEF Time
<1>2. Day(0) \in Days
  BY <1>1 DEF Days
<1>3. (CHOOSE k \in Keys : TRUE) \in Keys
  OBVIOUS
<1> QED
  BY <1>2, <1>3 DEF Idle, Request, Stages

\* The day of a time is a day.
LEMMA DayType == ASSUME NEW t \in Time PROVE Day(t) \in Days
BY DEF Days

\* The answers Purchase remembers.
LEMMA AnswerType ==
  Refused \in Remembered /\ \A left \in Nat : Ok(left) \in Remembered
BY DEF Refused, Ok, Remembered

-----------------------------------------------------------------------------
(* The inductive invariant                                                 *)

\* FOR UPDATE lets one transaction at a time hold a row.
ItemMutex ==
  \A s, t \in Slots : HoldsItem(s) /\ HoldsItem(t) /\ Item(s) = Item(t) => s = t
UserMutex ==
  \A s, t \in Slots : HoldsUser(s) /\ HoldsUser(t) /\ User(s) = User(t) => s = t

\* What was checked under a lock stays true until the lock is released.
SeatReserved ==
  \A s \in Slots : HoldsItem(s) => /\ sold[Item(s)] < Quantity[Item(s)]
                                   /\ req[s].seen = sold[Item(s)]
FundsReserved ==
  \A s \in Slots : HoldsUser(s) => balance[User(s)] >= Price[Item(s)]

\* An inserted row clashes neither with a committed nor with another inserted one.
InsertedFresh ==
  \A s \in Slots : At(s, "commit") =>
    \A p \in purchases : ~Clash(p, req[s].key, req[s].day)
InsertedApart ==
  \A s, t \in Slots : At(s, "commit") /\ At(t, "commit") /\ s # t =>
    ~Clash(NewRow(t), req[s].key, req[s].day)

CountsMatch == IsFiniteSet(purchases) /\ NoOversell

IInv ==
  /\ TypeOK /\ ItemMutex /\ UserMutex /\ SeatReserved /\ FundsReserved
  /\ InsertedFresh /\ InsertedApart /\ DailyCap /\ CountsMatch
  /\ EventPerPurchase

\* The initial tables are empty and every slot is idle.
LEMMA InitIInv == Init => IInv
<1> SUFFICES ASSUME Init PROVE IInv
  OBVIOUS
<1> USE IdleType DEF Init
<1>1. TypeOK
  BY DEF TypeOK, Time
<1>2. \A s \in Slots : req[s].at = "idle"
  OBVIOUS
<1>3. CountsMatch
  <2>1. \A i \in Items : RowsOf(i) = {}
    BY DEF RowsOf
  <2>2. \A i \in Items : sold[i] = 0 /\ 0 <= Quantity[i]
    OBVIOUS
  <2> QED
    BY <2>1, <2>2, FS_EmptySet DEF CountsMatch, NoOversell
<1>4. ItemMutex /\ UserMutex /\ SeatReserved /\ FundsReserved
  BY <1>2 DEF ItemMutex, UserMutex, SeatReserved, FundsReserved, HoldsItem, HoldsUser
<1>5. InsertedFresh /\ InsertedApart /\ DailyCap /\ EventPerPurchase
  BY <1>2 DEF InsertedFresh, InsertedApart, DailyCap, EventPerPurchase, At
<1> QED
  BY <1>1, <1>3, <1>4, <1>5 DEF IInv

\* Moving a request on, ending it, and telling its client keep the types.
LEMMA MoveType ==
  ASSUME TypeOK, NEW s \in Slots,
         Finish(s) \/ \E stage \in Stages : GoTo(s, stage)
  PROVE  req' \in [Slots -> Request]
<1>1. CASE Finish(s)
  BY <1>1, IdleType DEF TypeOK, Finish
<1>2. ASSUME NEW stage \in Stages, GoTo(s, stage) PROVE req' \in [Slots -> Request]
  BY <1>2 DEF TypeOK, GoTo, Request
<1> QED
  BY <1>1, <1>2

\* What a client hears is one of the answers that are remembered.
LEMMA HearType ==
  ASSUME TypeOK, NEW s \in Slots, NEW a \in Remembered, Hears(s, a)
  PROVE  answers' \in [Keys -> SUBSET Remembered]
<1>1. req[s].key \in Keys
  BY DEF TypeOK, Request
<1> QED
  BY <1>1 DEF TypeOK, Hears

\* Every step of the program keeps the types; Commit needs the reserved funds.
LEMMA TypeStep == IInv /\ [Next]_vars => TypeOK'
<1> SUFFICES ASSUME TypeOK, IInv, [Next]_vars PROVE TypeOK'
  BY DEF IInv
<1> USE IdleType, AnswerType DEF TypeOK, db, redis
<1>1. ASSUME NEW s \in Slots, NEW k \in Keys, Arrive(s, k) PROVE TypeOK'
  BY <1>1 DEF Arrive, Request, Stages
<1>2. ASSUME NEW s \in Slots, Lookup(s) PROVE TypeOK'
  <2>1. \A e \in Cached(req[s].key) : e.answer \in Remembered
    BY DEF Cached
  <2>2. answers' \in [Keys -> SUBSET Remembered]
    BY <1>2, <2>1, HearType DEF Lookup
  <2>3. req' \in [Slots -> Request]
    BY <1>2, MoveType DEF Lookup, Stages
  <2> QED
    BY <1>2, <2>2, <2>3 DEF Lookup
<1>3. ASSUME NEW s \in Slots, Begin(s) PROVE TypeOK'
  BY <1>3, DayType DEF Begin, Request, Stages
<1>4. ASSUME NEW s \in Slots, CheckDaily(s) PROVE TypeOK'
  <2>1. answers' \in [Keys -> SUBSET Remembered]
    BY <1>4, HearType DEF CheckDaily
  <2>2. req' \in [Slots -> Request]
    BY <1>4, MoveType DEF CheckDaily, Stages
  <2> QED
    BY <1>4, <2>1, <2>2 DEF CheckDaily
<1>5. ASSUME NEW s \in Slots, LockItem(s) PROVE TypeOK'
  <2>1. Item(s) \in Items
    BY DEF Item, Request
  <2>2. CASE Finish(s)
    BY <1>5, <2>2, MoveType DEF LockItem
  <2>3. CASE req' = [req EXCEPT ![s].at = "user", ![s].seen = sold[Item(s)]]
    <3>1. sold[Item(s)] \in Nat /\ req[s] \in Request
      BY <2>1
    <3>2. [req[s] EXCEPT !.at = "user", !.seen = sold[Item(s)]] \in Request
      BY <3>1 DEF Request, Stages
    <3> QED
      BY <1>5, <2>3, <3>2 DEF LockItem
  <2> QED
    BY <1>5, <2>2, <2>3 DEF LockItem
<1>6. ASSUME NEW s \in Slots, LockUser(s) PROVE TypeOK'
  BY <1>6, MoveType DEF LockUser, Stages
<1>7. ASSUME NEW s \in Slots, Debit(s) PROVE TypeOK'
  BY <1>7, MoveType DEF Debit, Stages
<1>8. ASSUME NEW s \in Slots, Insert(s) PROVE TypeOK'
  <2>1. answers' \in [Keys -> SUBSET Remembered]
    BY <1>8, HearType DEF Insert
  <2>2. req' \in [Slots -> Request]
    BY <1>8, MoveType DEF Insert, Stages
  <2> QED
    BY <1>8, <2>1, <2>2 DEF Insert
<1>9. ASSUME NEW s \in Slots, Commit(s) PROVE TypeOK'
  <2>1. /\ req[s].key \in Keys /\ Item(s) \in Items /\ User(s) \in Users
        /\ NewRow(s) \in Row
    BY DEF Request, Item, User, NewRow, Row
  <2>2. /\ sold[Item(s)] < Quantity[Item(s)] /\ req[s].seen = sold[Item(s)]
        /\ balance[User(s)] >= Price[Item(s)]
    BY <1>9 DEF IInv, SeatReserved, FundsReserved, Commit, At, HoldsItem, HoldsUser
  <2>3. Ok(Quantity[Item(s)] - (req[s].seen + 1)) \in Remembered
    BY <2>1, <2>2
  <2>4. balance[User(s)] - Price[Item(s)] \in Nat
    BY <2>1, <2>2
  <2>5. balance' \in [Users -> Nat]
    BY <1>9, <2>1, <2>4 DEF Commit
  <2>6. sold' \in [Items -> Nat] /\ purchases' \subseteq Row /\ events' \in [Keys -> Nat]
    BY <1>9, <2>1 DEF Commit
  <2>7. /\ wire' \subseteq [key : Keys, answer : Remembered]
        /\ answers' \in [Keys -> SUBSET Remembered]
    BY <1>9, <2>1, <2>3 DEF Commit, Hears
  <2>8. req' \in [Slots -> Request]
    BY <1>9 DEF Commit, Finish
  <2> QED
    BY <1>9, <2>5, <2>6, <2>7, <2>8 DEF Commit
<1>10. ASSUME NEW s \in Slots, Abort(s) \/ Crash(s) PROVE TypeOK'
  BY <1>10 DEF Abort, Crash, Finish
<1>11. ASSUME NEW e \in wire, CacheSet(e) PROVE TypeOK'
  BY <1>11 DEF CacheSet, Time
<1>12. ASSUME NEW e \in wire, CacheLost(e) PROVE TypeOK'
  BY <1>12 DEF CacheLost
<1>13. ASSUME NEW new \in SUBSET Items, Publish(new) PROVE TypeOK'
  BY <1>13 DEF Publish
<1>14. CASE Tick
  BY <1>14 DEF Tick, Time
<1>15. CASE UNCHANGED vars
  BY <1>15 DEF vars
<1> QED
  BY <1>1, <1>2, <1>3, <1>4, <1>5, <1>6, <1>7, <1>8, <1>9, <1>10, <1>11,
     <1>12, <1>13, <1>14, <1>15 DEF Next, Serve

\* A step that leaves the tables alone and gives no transaction a lock keeps
\* the invariant: most handlers, every rollback and everything outside.
LEMMA QuietStep ==
  ASSUME IInv, TypeOK', UNCHANGED db,
         \A t \in Slots : \/ req'[t] = req[t]
                          \/ req'[t].at \in {"idle", "lookup", "begin", "exists", "item"}
  PROVE  IInv'
<1> USE DEF IInv, db
<1>1. \A t \in Slots : HoldsItem(t)' => HoldsItem(t) /\ req'[t] = req[t]
  BY DEF HoldsItem
<1>2. \A t \in Slots : HoldsUser(t)' => HoldsUser(t) /\ req'[t] = req[t]
  BY DEF HoldsUser
<1>3. \A t \in Slots : At(t, "commit")' => At(t, "commit") /\ req'[t] = req[t]
  BY DEF At
<1>4. ItemMutex' /\ SeatReserved'
  BY <1>1 DEF ItemMutex, SeatReserved, Item
<1>5. UserMutex' /\ FundsReserved'
  BY <1>2 DEF UserMutex, FundsReserved, User, Item
<1>6. InsertedFresh' /\ InsertedApart'
  BY <1>3 DEF InsertedFresh, InsertedApart, NewRow, User, Item, Clash
<1>7. DailyCap' /\ CountsMatch' /\ EventPerPurchase'
  BY DEF DailyCap, CountsMatch, NoOversell, EventPerPurchase, RowsOf
<1> QED
  BY <1>4, <1>5, <1>6, <1>7

\* LockItem that finds a unit: the row was free, so the lock is exclusive.
LEMMA LockItemStep ==
  ASSUME IInv, TypeOK', NEW s \in Slots, LockItem(s) PROVE IInv'
<1> USE DEF IInv, TypeOK, db
<1>1. CASE Finish(s)
  BY <1>1, QuietStep, IdleType DEF LockItem, Finish
<1>2. CASE ~Finish(s)
  <2> DEFINE i == Item(s)
  <2>1. /\ At(s, "item") /\ ItemFree(i) /\ sold[i] < Quantity[i] /\ UNCHANGED db
        /\ req' = [req EXCEPT ![s].at = "user", ![s].seen = sold[i]]
    BY <1>2 DEF LockItem
  <2>2. \A t \in Slots : t # s => req'[t] = req[t]
    BY <2>1
  <2>3. /\ req'[s].key = req[s].key /\ req'[s].day = req[s].day
        /\ req'[s].at = "user" /\ req'[s].seen = sold[i]
    BY <2>1 DEF Request
  <2>4. \A t \in Slots : Item(t)' = Item(t) /\ User(t)' = User(t)
    BY <2>2, <2>3 DEF Item, User
  <2>5. \A t \in Slots : HoldsItem(t)' => (HoldsItem(t) /\ t # s) \/ t = s
    BY <2>2 DEF HoldsItem
  <2>6. \A t \in Slots : HoldsUser(t)' => HoldsUser(t) /\ t # s
    BY <2>2, <2>3 DEF HoldsUser
  <2>7. \A t \in Slots : At(t, "commit")' => At(t, "commit") /\ t # s
    BY <2>2, <2>3 DEF At
  <2>8. ItemMutex'
    BY <2>1, <2>4, <2>5 DEF ItemMutex, ItemFree
  <2>9. SeatReserved'
    BY <2>1, <2>2, <2>3, <2>4, <2>5 DEF SeatReserved
  <2>10. UserMutex' /\ FundsReserved'
    BY <2>1, <2>4, <2>6 DEF UserMutex, FundsReserved
  <2>11. InsertedFresh' /\ InsertedApart'
    BY <2>1, <2>2, <2>7 DEF InsertedFresh, InsertedApart, NewRow, User, Item, Clash
  <2>12. DailyCap' /\ CountsMatch' /\ EventPerPurchase'
    BY <2>1 DEF DailyCap, CountsMatch, NoOversell, EventPerPurchase, RowsOf
  <2> QED
    BY <2>8, <2>9, <2>10, <2>11, <2>12
<1> QED
  BY <1>1, <1>2

\* LockUser that finds the money: as for the item row.
LEMMA LockUserStep ==
  ASSUME IInv, TypeOK', NEW s \in Slots, LockUser(s) PROVE IInv'
<1> USE DEF IInv, TypeOK, db
<1>1. CASE Finish(s)
  BY <1>1, QuietStep, IdleType DEF LockUser, Finish
<1>2. CASE ~Finish(s)
  <2>1. /\ At(s, "user") /\ UserFree(User(s)) /\ UNCHANGED db
        /\ balance[User(s)] >= Price[Item(s)]
        /\ req' = [req EXCEPT ![s].at = "debit"]
    BY <1>2 DEF LockUser, GoTo
  <2>2. \A t \in Slots : t # s => req'[t] = req[t]
    BY <2>1
  <2>3. /\ req'[s].key = req[s].key /\ req'[s].day = req[s].day
        /\ req'[s].at = "debit" /\ req'[s].seen = req[s].seen
    BY <2>1 DEF Request
  <2>4. \A t \in Slots : Item(t)' = Item(t) /\ User(t)' = User(t)
    BY <2>2, <2>3 DEF Item, User
  <2>5. \A t \in Slots : (HoldsItem(t)' => HoldsItem(t)) /\ req'[t].seen = req[t].seen
    BY <2>1, <2>2, <2>3 DEF HoldsItem, At
  <2>6. \A t \in Slots : HoldsUser(t)' => HoldsUser(t) \/ t = s
    BY <2>2 DEF HoldsUser
  <2>7. \A t \in Slots : At(t, "commit")' => At(t, "commit") /\ t # s
    BY <2>2, <2>3 DEF At
  <2>8. ItemMutex' /\ SeatReserved'
    BY <2>1, <2>4, <2>5 DEF ItemMutex, SeatReserved
  <2>9. UserMutex'
    BY <2>1, <2>2, <2>4, <2>6 DEF UserMutex, UserFree, HoldsUser
  <2>10. FundsReserved'
    BY <2>1, <2>4, <2>6 DEF FundsReserved
  <2>11. InsertedFresh' /\ InsertedApart'
    BY <2>1, <2>2, <2>7 DEF InsertedFresh, InsertedApart, NewRow, User, Item, Clash
  <2>12. DailyCap' /\ CountsMatch' /\ EventPerPurchase'
    BY <2>1 DEF DailyCap, CountsMatch, NoOversell, EventPerPurchase, RowsOf
  <2> QED
    BY <2>8, <2>9, <2>10, <2>11, <2>12
<1> QED
  BY <1>1, <1>2

\* Debit and a successful INSERT: the locks held stay the same.
LEMMA AdvanceStep ==
  ASSUME IInv, TypeOK', NEW s \in Slots, NEW stage, UNCHANGED db,
         GoTo(s, stage), HoldsUser(s), stage \in {"insert", "commit"},
         stage = "commit" =>
           /\ \A p \in Uncommitted(s) : ~Clash(p, req[s].key, req[s].day)
           /\ \A p \in purchases : ~Clash(p, req[s].key, req[s].day)
  PROVE  IInv'
<1> USE DEF IInv, TypeOK, db
<1>1. \A t \in Slots : t # s => req'[t] = req[t]
  BY DEF GoTo
<1>2. /\ req'[s].key = req[s].key /\ req'[s].day = req[s].day
      /\ req'[s].at = stage /\ req'[s].seen = req[s].seen
  BY DEF GoTo, Request
<1>3. \A t \in Slots : /\ Item(t)' = Item(t) /\ User(t)' = User(t)
                       /\ NewRow(t)' = NewRow(t) /\ req'[t].seen = req[t].seen
                       /\ req'[t].key = req[t].key /\ req'[t].day = req[t].day
  BY <1>1, <1>2 DEF Item, User, NewRow
<1>4. HoldsItem(s)
  BY DEF HoldsItem, HoldsUser
<1>5. \A t \in Slots : (HoldsItem(t)' => HoldsItem(t)) /\ (HoldsUser(t)' => HoldsUser(t))
  BY <1>1, <1>4 DEF HoldsItem, HoldsUser
<1>6. \A t \in Slots : At(t, "commit")' => At(t, "commit") \/ (t = s /\ stage = "commit")
  BY <1>1, <1>2 DEF At
<1>7. ItemMutex' /\ SeatReserved' /\ UserMutex' /\ FundsReserved'
  BY <1>3, <1>5 DEF ItemMutex, SeatReserved, UserMutex, FundsReserved
<1>8. InsertedFresh'
  BY <1>3, <1>6 DEF InsertedFresh, Clash
<1>9. InsertedApart'
  <2>1. ASSUME NEW t \in Slots, NEW x \in Slots, t # x,
               At(t, "commit")', At(x, "commit")'
        PROVE  ~Clash(NewRow(x), req[t].key, req[t].day)
    <3>1. CASE t # s /\ x # s
      BY <2>1, <3>1, <1>6 DEF InsertedApart
    <3>2. CASE t = s
      <4>1. NewRow(x) \in Uncommitted(s) /\ stage = "commit"
        BY <2>1, <3>2, <1>6, <1>2 DEF Uncommitted, At
      <4> QED
        BY <4>1, <3>2
    <3>3. CASE x = s
      <4>1. NewRow(t) \in Uncommitted(s) /\ stage = "commit"
        BY <2>1, <3>3, <1>6, <1>2 DEF Uncommitted, At
      <4>2. ~Clash(NewRow(t), req[s].key, req[s].day)
        BY <4>1
      <4> QED
        BY <4>2, <3>3 DEF Clash, NewRow, User
    <3> QED
      BY <3>1, <3>2, <3>3
  <2> QED
    BY <2>1, <1>3 DEF InsertedApart, Clash
<1>10. DailyCap' /\ CountsMatch' /\ EventPerPurchase'
  BY DEF DailyCap, CountsMatch, NoOversell, EventPerPurchase, RowsOf
<1> QED
  BY <1>7, <1>8, <1>9, <1>10

\* Commit publishes the sale the transaction had reserved.
LEMMA CommitStep ==
  ASSUME IInv, TypeOK', NEW s \in Slots, Commit(s) PROVE IInv'
<1> USE DEF IInv, TypeOK
<1> DEFINE k == req[s].key
           i == Item(s)
           u == User(s)
           new == NewRow(s)
<1>1. /\ k \in Keys /\ i \in Items /\ u \in Users /\ new \in Row
      /\ new.key = k /\ new.user = u /\ new.item = i /\ new.day = req[s].day
  BY DEF Request, Item, User, NewRow, Row
<1>2. /\ At(s, "commit") /\ req' = [req EXCEPT ![s] = Idle]
      /\ sold' = [sold EXCEPT ![i] = @ + 1]
      /\ balance' = [balance EXCEPT ![u] = @ - Price[i]]
      /\ purchases' = purchases \cup {new}
      /\ events' = [events EXCEPT ![k] = @ + 1]
  BY DEF Commit, Finish
<1>3. HoldsItem(s) /\ HoldsUser(s)
  BY <1>2 DEF At, HoldsItem, HoldsUser
<1>4. \A p \in purchases : ~Clash(p, k, req[s].day)
  BY <1>2 DEF InsertedFresh
<1>5. \A t \in Slots : t # s => req'[t] = req[t]
  BY <1>2
<1>6. req'[s].at = "idle"
  BY <1>2, IdleType
<1>7. \A t \in Slots : HoldsItem(t)' => HoldsItem(t) /\ t # s /\ Item(t) # i
  BY <1>3, <1>5, <1>6 DEF HoldsItem, ItemMutex
<1>8. \A t \in Slots : HoldsUser(t)' => HoldsUser(t) /\ t # s /\ User(t) # u
  BY <1>3, <1>5, <1>6 DEF HoldsUser, UserMutex
<1>9. \A t \in Slots : At(t, "commit")' => At(t, "commit") /\ t # s
  BY <1>5, <1>6 DEF At
<1>10. ItemMutex'
  BY <1>5, <1>7 DEF ItemMutex, Item
<1>11. UserMutex'
  BY <1>5, <1>8 DEF UserMutex, User
<1>12. SeatReserved'
  <2> SUFFICES ASSUME NEW t \in Slots, HoldsItem(t)'
               PROVE  /\ sold'[Item(t)'] < Quantity[Item(t)']
                      /\ req'[t].seen = sold'[Item(t)']
    BY DEF SeatReserved
  <2>1. HoldsItem(t) /\ req'[t] = req[t] /\ Item(t) # i /\ Item(t)' = Item(t)
    BY <1>5, <1>7 DEF Item
  <2>2. Item(t) \in Items
    BY DEF Item, Request
  <2>3. sold'[Item(t)] = sold[Item(t)]
    BY <1>2, <2>1, <2>2
  <2> QED
    BY <2>1, <2>3 DEF SeatReserved
<1>13. FundsReserved'
  <2> SUFFICES ASSUME NEW t \in Slots, HoldsUser(t)'
               PROVE  balance'[User(t)'] >= Price[Item(t)']
    BY DEF FundsReserved
  <2>1. HoldsUser(t) /\ User(t) # u /\ User(t)' = User(t) /\ Item(t)' = Item(t)
    BY <1>5, <1>8 DEF User, Item
  <2>2. User(t) \in Users
    BY DEF User, Request
  <2>3. balance'[User(t)] = balance[User(t)]
    BY <1>2, <2>1, <2>2
  <2> QED
    BY <2>1, <2>3 DEF FundsReserved
<1>14. InsertedFresh'
  <2> SUFFICES ASSUME NEW t \in Slots, At(t, "commit")', NEW p \in purchases'
               PROVE  ~Clash(p, req[t].key, req[t].day)
    BY <1>5, <1>9 DEF InsertedFresh, Clash
  <2>1. At(t, "commit") /\ t # s
    BY <1>9
  <2>2. CASE p \in purchases
    BY <2>1, <2>2 DEF InsertedFresh
  <2>3. CASE p = new
    BY <1>2, <2>1, <2>3 DEF InsertedApart
  <2> QED
    BY <1>2, <2>2, <2>3
<1>15. InsertedApart'
  BY <1>5, <1>9 DEF InsertedApart, NewRow, User, Item, Clash
<1>16. DailyCap'
  <2> SUFFICES ASSUME NEW p \in purchases', NEW q \in purchases', p # q
               PROVE  p.key # q.key /\ ~(p.user = q.user /\ p.day = q.day)
    BY DEF DailyCap
  <2>1. CASE p \in purchases /\ q \in purchases
    BY <2>1 DEF DailyCap
  <2>2. CASE p = new /\ q \in purchases
    BY <1>1, <1>4, <2>2 DEF Clash, User
  <2>3. CASE q = new /\ p \in purchases
    BY <1>1, <1>4, <2>3 DEF Clash, User
  <2> QED
    BY <1>2, <2>1, <2>2, <2>3
<1>17. CountsMatch'
  <2>1. new \notin purchases
    BY <1>1, <1>4 DEF Clash
  <2>2. IsFiniteSet(purchases')
    BY <1>2, FS_AddElement DEF CountsMatch
  <2> SUFFICES ASSUME NEW j \in Items
               PROVE  /\ sold'[j] = Cardinality(RowsOf(j)')
                      /\ sold'[j] <= Quantity[j]
    BY <2>2 DEF CountsMatch, NoOversell
  <2>3. /\ IsFiniteSet(RowsOf(j)) /\ sold[j] = Cardinality(RowsOf(j))
        /\ sold[j] <= Quantity[j]
    BY FS_Subset DEF CountsMatch, NoOversell, RowsOf
  <2>4. CASE j = i
    <3>1. RowsOf(j)' = RowsOf(j) \cup {new} /\ new \notin RowsOf(j)
      BY <1>1, <1>2, <2>1, <2>4 DEF RowsOf
    <3>2. Cardinality(RowsOf(j)') = Cardinality(RowsOf(j)) + 1
      <4>1. Cardinality(RowsOf(j) \cup {new}) = Cardinality(RowsOf(j)) + 1
        BY <2>3, <3>1, FS_AddElement
      <4> QED
        BY <3>1, <4>1
    <3>3. sold[i] < Quantity[i] /\ sold'[i] = sold[i] + 1
      BY <1>1, <1>2, <1>3 DEF SeatReserved
    <3>4. sold[i] \in Nat /\ Quantity[i] \in Nat
      BY <1>1
    <3>5. sold'[i] <= Quantity[i]
      BY <3>3, <3>4
    <3> QED
      BY <2>3, <2>4, <3>2, <3>3, <3>5
  <2>5. CASE j # i
    <3>1. RowsOf(j)' = RowsOf(j)
      BY <1>1, <1>2, <2>5 DEF RowsOf
    <3> QED
      BY <1>2, <2>3, <2>5, <3>1
  <2> QED
    BY <2>4, <2>5
<1>18. EventPerPurchase'
  <2> SUFFICES ASSUME NEW j \in Keys
               PROVE  events'[j] = IF \E p \in purchases' : p.key = j THEN 1 ELSE 0
    BY DEF EventPerPurchase
  <2>1. CASE j = k
    <3>1. events[k] = 0
      BY <1>1, <1>4 DEF EventPerPurchase, Clash
    <3>2. events'[k] = 1
      BY <1>1, <1>2, <3>1
    <3>3. \E p \in purchases' : p.key = j
      BY <1>1, <1>2, <2>1
    <3> QED
      BY <2>1, <3>2, <3>3
  <2>2. CASE j # k
    BY <1>1, <1>2, <2>2 DEF EventPerPurchase
  <2> QED
    BY <2>1, <2>2
<1> QED
  BY <1>10, <1>11, <1>12, <1>13, <1>14, <1>15, <1>16, <1>17, <1>18

\* IInv is inductive: one lemma for each kind of step.
LEMMA IInvStep == IInv /\ [Next]_vars => IInv'
<1> SUFFICES ASSUME IInv, [Next]_vars PROVE IInv'
  OBVIOUS
<1> USE TypeStep, QuietStep, IdleType DEF db
<1>t. req \in [Slots -> Request]
  BY DEF IInv, TypeOK
<1>1. ASSUME NEW s \in Slots, NEW k \in Keys, Arrive(s, k) PROVE IInv'
  <2>1. [Idle EXCEPT !.at = "lookup", !.key = k].at = "lookup"
    BY DEF Request
  <2> QED
    BY <1>t, <1>1, <2>1 DEF Arrive
<1>2. ASSUME NEW s \in Slots, NEW stage, GoTo(s, stage) \/ Finish(s), UNCHANGED db,
             stage \in {"begin", "item"}
      PROVE  IInv'
  BY <1>t, <1>2 DEF GoTo, Finish, Request
<1>3. ASSUME NEW s \in Slots, Lookup(s) PROVE IInv'
  BY <1>2, <1>3 DEF Lookup
<1>4. ASSUME NEW s \in Slots, Begin(s) PROVE IInv'
  BY <1>t, <1>4 DEF Begin, Request
<1>5. ASSUME NEW s \in Slots, CheckDaily(s) PROVE IInv'
  BY <1>2, <1>5 DEF CheckDaily
<1>6. ASSUME NEW s \in Slots, LockItem(s) PROVE IInv'
  BY <1>6, LockItemStep
<1>7. ASSUME NEW s \in Slots, LockUser(s) PROVE IInv'
  BY <1>7, LockUserStep
<1>8. ASSUME NEW s \in Slots, Debit(s) PROVE IInv'
  BY <1>8, AdvanceStep DEF Debit, At, HoldsUser
<1>9. ASSUME NEW s \in Slots, Insert(s) PROVE IInv'
  <2>1. CASE Finish(s)
    BY <1>2, <1>9, <2>1 DEF Insert
  <2>2. CASE GoTo(s, "commit") /\ \A p \in purchases : ~Clash(p, req[s].key, req[s].day)
    BY <1>9, <2>2, AdvanceStep DEF Insert, At, HoldsUser
  <2> QED
    BY <1>9, <2>1, <2>2 DEF Insert
<1>10. ASSUME NEW s \in Slots, Commit(s) PROVE IInv'
  BY <1>10, CommitStep
<1>11. ASSUME NEW s \in Slots, Abort(s) \/ Crash(s) PROVE IInv'
  BY <1>2, <1>11 DEF Abort, Crash
<1>12. ASSUME UNCHANGED <<db, req>> PROVE IInv'
  BY <1>12
<1>13. ASSUME NEW e \in wire, CacheSet(e) \/ CacheLost(e) PROVE IInv'
  BY <1>12, <1>13 DEF CacheSet, CacheLost
<1>14. ASSUME NEW new \in SUBSET Items, Publish(new) PROVE IInv'
  BY <1>12, <1>14 DEF Publish
<1>15. CASE Tick \/ UNCHANGED vars
  BY <1>12, <1>15 DEF Tick, vars
<1> QED
  BY <1>1, <1>3, <1>4, <1>5, <1>6, <1>7, <1>8, <1>9, <1>10, <1>11, <1>13, <1>14,
     <1>15 DEF Next, Serve

\* Nothing but a commit writes the tables of purchases.
LEMMA DatabaseStep ==
  [Next]_vars /\ ~UNCHANGED db => \E s \in Slots : Commit(s)
BY DEF db, Next, vars, Serve, Arrive, Lookup, Begin, CheckDaily, LockItem, LockUser,
   Debit, Insert, Abort, Crash, CacheSet, CacheLost, Publish, Tick

-----------------------------------------------------------------------------
(* The theorems                                                            *)

\* IInv holds in every state: row locks exclude, and what purchaseTx has read under
\* them is still so when it commits.
THEOREM Invariance == Spec => []IInv
BY InitIInv, IInvStep, PTL DEF Spec

\* Every column keeps its type, the CHECKed ones their sign: TypeOK.
THEOREM TypeCorrect == Spec => []TypeOK
<1>1. IInv => TypeOK
  BY DEF IInv
<1> QED
  BY <1>1, Invariance, PTL

\* sold counts the purchases and never passes the quantity.
THEOREM NeverOversold == Spec => []NoOversell
<1>1. IInv => NoOversell
  BY DEF IInv, CountsMatch
<1> QED
  BY <1>1, Invariance, PTL

\* One purchase per key, and one per user and day.
THEOREM CapHolds == Spec => []DailyCap
<1>1. IInv => DailyCap
  BY DEF IInv
<1> QED
  BY <1>1, Invariance, PTL

\* Exactly one outbox event for each committed purchase.
THEOREM EventsMatch == Spec => []EventPerPurchase
<1>1. IInv => EventPerPurchase
  BY DEF IInv
<1> QED
  BY <1>1, Invariance, PTL

\* The CHECK constraints never fire: locks and checks suffice.
THEOREM ChecksStaySilent == Spec => []GuardsSuffice
<1>1. IInv => GuardsSuffice
  <2> SUFFICES ASSUME IInv, NEW s \in Slots, At(s, "debit") PROVE WithinChecks(s)
    BY DEF GuardsSuffice
  <2>1. HoldsItem(s) /\ HoldsUser(s)
    BY DEF At, HoldsItem, HoldsUser
  <2>2. Item(s) \in Items /\ User(s) \in Users
    BY DEF IInv, TypeOK, Request, Item, User
  <2>3. /\ sold[Item(s)] \in Nat /\ Quantity[Item(s)] \in Nat
        /\ balance[User(s)] \in Nat /\ Price[Item(s)] \in Nat
    BY <2>2 DEF IInv, TypeOK
  <2> QED
    BY <2>1, <2>3 DEF IInv, SeatReserved, FundsReserved, WithinChecks
<1> QED
  BY <1>1, Invariance, PTL

-----------------------------------------------------------------------------
(* What users have paid                                                    *)

\* The price of a row, and the books of the users as a relation of two columns.
Paid == [p \in Row |-> Price[p.item]]
RowsOfUser(rows, u) == {p \in rows : p.user = u}
Solvent(money, rows) ==
  \A u \in Users :
    /\ SumOver(Paid, RowsOfUser(rows, u)) <= OpeningBalance[u]
    /\ money[u] = OpeningBalance[u] - SumOver(Paid, RowsOfUser(rows, u))

\* What a user has spent is the sum of Paid over the user's rows.
LEMMA SpentIsPaid ==
  ASSUME NEW u, IsFiniteSet(purchases), purchases \subseteq Row
  PROVE  Spent(u) = SumOver(Paid, RowsOfUser(purchases, u))
<1> DEFINE S == RowsOfUser(purchases, u)
           PriceAt(g, s) == IF s = {} THEN 0
                            ELSE Price[First(s).item] + g[s \ {First(s)}]
           Runs(g) == g = [s \in SUBSET S |-> PriceAt(g, s)]
           H == CHOOSE g : Runs(g)
           G == CHOOSE g : IsSum(g, Paid, S)
<1>1. Spent(u) = H[S]
  BY DEF Spent, MapThenSumSet, MapThenFoldSet, First, RowsOfUser
<1>2. SumOver(Paid, S) = G[S]
  BY DEF SumOver, MapThenSumSet, MapThenFoldSet, IsSum, SumAt, First
<1>3. IsFiniteSet(S) /\ S \subseteq Row
  BY FS_Subset DEF RowsOfUser
<1>4. \A g : Runs(g) <=> IsSum(g, Paid, S)
  <2>1. \A s \in SUBSET S : s # {} => Paid[First(s)] = Price[First(s).item]
    BY <1>3 DEF Paid, First
  <2>2. \A g : \A s \in SUBSET S : PriceAt(g, s) = SumAt(g, Paid, s)
    BY <2>1 DEF SumAt
  <2> QED
    BY <2>2 DEF IsSum
<1>5. \E g : IsSum(g, Paid, S)
  BY <1>3, SumExists
<1>6. IsSum(G, Paid, S)
  BY <1>5
<1>7. IsSum(H, Paid, S)
  <2>1. \E g : Runs(g)
    BY <1>4, <1>5
  <2>2. Runs(H)
    BY <2>1
  <2> QED
    BY <1>4, <2>2
<1> HIDE DEF G, H, S
<1>8. H[S] = G[S]
  BY <1>3, <1>6, <1>7, SumUnique
<1> QED
  BY <1>1, <1>2, <1>8 DEF S

\* So BalanceIntegrity is about the columns balance and purchases alone.
LEMMA BooksAreSolvent ==
  /\ IInv => (BalanceIntegrity <=> Solvent(balance, purchases))
  /\ IInv' => (BalanceIntegrity' <=> Solvent(balance', purchases'))
<1>1. IInv => (BalanceIntegrity <=> Solvent(balance, purchases))
  <2> SUFFICES ASSUME IInv PROVE BalanceIntegrity <=> Solvent(balance, purchases)
    OBVIOUS
  <2>1. \A u : Spent(u) = SumOver(Paid, RowsOfUser(purchases, u))
    BY SpentIsPaid DEF IInv, CountsMatch, TypeOK
  <2> QED
    BY <2>1 DEF BalanceIntegrity, Solvent
<1>2. IInv' => (BalanceIntegrity' <=> Solvent(balance, purchases)')
  BY <1>1, PTL
<1>3. Solvent(balance, purchases)' <=> Solvent(balance', purchases')
  BY DEF Solvent, RowsOfUser
<1> QED
  BY <1>1, <1>2, <1>3

\* A commit debits the price of the row it inserts, from a balance that covers it.
LEMMA CommitSolvent ==
  ASSUME IInv, IInv', Solvent(balance, purchases), NEW s \in Slots, Commit(s)
  PROVE  Solvent(balance', purchases')
<1> DEFINE u == User(s)
           i == Item(s)
           new == NewRow(s)
<1>1. /\ i \in Items /\ u \in Users /\ new \in Row /\ new.user = u /\ new.item = i
      /\ req[s].key = new.key
  BY DEF IInv, TypeOK, Request, Item, User, NewRow, Row
<1>2. /\ balance' = [balance EXCEPT ![u] = @ - Price[i]]
      /\ purchases' = purchases \cup {new} /\ At(s, "commit")
  BY DEF Commit
<1>3. new \notin purchases
  BY <1>1, <1>2 DEF IInv, InsertedFresh, Clash
<1>4. balance[u] >= Price[i] /\ balance \in [Users -> Nat] /\ Price[i] \in Nat
  BY <1>1, <1>2 DEF IInv, TypeOK, FundsReserved, At, HoldsUser
<1>5. IsFiniteSet(purchases) /\ purchases \subseteq Row
  BY DEF IInv, CountsMatch, TypeOK
<1> SUFFICES ASSUME NEW v \in Users
             PROVE  /\ SumOver(Paid, RowsOfUser(purchases', v)) <= OpeningBalance[v]
                    /\ balance'[v] = OpeningBalance[v] - SumOver(Paid, RowsOfUser(purchases', v))
  BY DEF Solvent
<1>6. /\ SumOver(Paid, RowsOfUser(purchases, v)) <= OpeningBalance[v]
      /\ balance[v] = OpeningBalance[v] - SumOver(Paid, RowsOfUser(purchases, v))
  BY DEF Solvent
<1>7. CASE v = u
  <2> DEFINE S == RowsOfUser(purchases, u)
  <2>1. RowsOfUser(purchases', v) = S \cup {new} /\ new \notin S
    BY <1>1, <1>2, <1>3, <1>7 DEF RowsOfUser
  <2>2. IsFiniteSet(S) /\ S \subseteq Row
    BY <1>5, FS_Subset DEF RowsOfUser
  <2>3. \A p \in S : Paid[p] \in Nat
    BY <2>2 DEF Paid, Row
  <2>4. Paid[new] = Price[i]
    BY <1>1 DEF Paid
  <2> HIDE DEF S
  <2>5. \A p \in S \cup {new} : Paid[p] \in Int
    BY <1>4, <2>3, <2>4
  <2>6. SumOver(Paid, S \cup {new}) = Price[i] + SumOver(Paid, S)
    BY <2>1, <2>2, <2>4, <2>5, SumAdd
  <2>7. SumOver(Paid, S) \in Nat
    BY <2>2, <2>3, SumType
  <2>8. balance[u] = OpeningBalance[u] - SumOver(Paid, S)
    BY <1>6, <1>7 DEF S
  <2>9. balance'[u] = balance[u] - Price[i]
    BY <1>1, <1>2, <1>4
  <2>10. OpeningBalance[u] \in Nat
    BY <1>1
  <2> QED
    BY <1>1, <1>4, <1>7, <2>1, <2>6, <2>7, <2>8, <2>9, <2>10
<1>8. CASE v # u
  <2>1. RowsOfUser(purchases', v) = RowsOfUser(purchases, v)
    BY <1>1, <1>2, <1>8 DEF RowsOfUser
  <2>2. balance'[v] = balance[v]
    BY <1>2, <1>4, <1>8
  <2> QED
    BY <1>6, <2>1, <2>2
<1> QED
  BY <1>7, <1>8

\* A user has paid for exactly the purchases on record, and could afford them.
THEOREM PaymentsAddUp == Spec => []BalanceIntegrity
<1>1. Init => BalanceIntegrity
  <2> SUFFICES ASSUME Init PROVE BalanceIntegrity
    OBVIOUS
  <2>1. IInv
    BY InitIInv
  <2>2. \A u : RowsOfUser(purchases, u) = {}
    BY DEF Init, RowsOfUser
  <2>3. Solvent(balance, purchases)
    <3>1. \A u : SumOver(Paid, RowsOfUser(purchases, u)) = 0
      BY <2>2, SumEmpty
    <3>2. \A u \in Users : balance[u] = OpeningBalance[u] /\ OpeningBalance[u] \in Nat
      BY DEF Init
    <3> HIDE PurchaseAssumption
    <3> QED
      BY <3>1, <3>2 DEF Solvent
  <2> QED
    BY <2>1, <2>3, BooksAreSolvent
<1>2. IInv /\ IInv' /\ BalanceIntegrity /\ [Next]_vars => BalanceIntegrity'
  <2> SUFFICES ASSUME IInv, IInv', Solvent(balance, purchases), [Next]_vars
               PROVE  Solvent(balance', purchases')
    BY BooksAreSolvent
  <2>1. CASE UNCHANGED db
    BY <2>1 DEF db
  <2>2. CASE ~UNCHANGED db
    <3>1. PICK s \in Slots : Commit(s)
      BY <2>2, DatabaseStep
    <3> QED
      BY <3>1, CommitSolvent
  <2> QED
    BY <2>1, <2>2
<1> QED
  BY <1>1, <1>2, Invariance, PTL DEF Spec

-----------------------------------------------------------------------------
(* What clients are told                                                   *)

\* Success a is known of key k: a client has it, or Redis has or will have it.
Known(k, a) ==
  /\ a.code = "ok"
  /\ \/ a \in answers[k]
     \/ \E e \in cache : e.key = k /\ e.answer = a
     \/ \E e \in wire : e.key = k /\ e.answer = a

\* A known success is a ticket: it belongs to a committed purchase, lies above
\* the figure the next buyer will get, and no other key has it.
Tickets ==
  /\ \A e \in cache : e.answer.code = "ok"
  /\ \A e \in wire : e.answer.code = "ok"
  /\ \A k \in Keys, a \in Remembered : Known(k, a) =>
       /\ IsBought(k) /\ a.left < Quantity[Wanted[k]]
       /\ a.left >= Quantity[Wanted[k]] - sold[Wanted[k]]
  /\ \A j, k \in Keys, a, b \in Remembered :
       Known(j, a) /\ Known(k, b) /\ Wanted[j] = Wanted[k] => (a.left = b.left <=> j = k)

\* A step that sells nothing and makes up no new success keeps the tickets.
LEMMA QuietTickets ==
  ASSUME Tickets, TypeOK, TypeOK', UNCHANGED db,
         \A e \in cache' : e.answer.code = "ok", \A e \in wire' : e.answer.code = "ok",
         \A k \in Keys, a \in Remembered : Known(k, a)' => Known(k, a)
  PROVE  Tickets'
BY DEF Tickets, db, IsBought

\* Commit: the figure it tells is below every figure told before.
LEMMA CommitTickets ==
  ASSUME IInv, Tickets, TypeOK', NEW s \in Slots, Commit(s) PROVE Tickets'
<1> USE DEF IInv, TypeOK
<1> DEFINE key == req[s].key
           i == Item(s)
           new == Ok(Quantity[i] - (req[s].seen + 1))
<1>1. /\ key \in Keys /\ i \in Items /\ i = Wanted[key]
      /\ sold' = [sold EXCEPT ![i] = @ + 1] /\ purchases' = purchases \cup {NewRow(s)}
      /\ cache' = cache
  BY DEF Request, Item, Commit
<1>2. /\ sold[i] \in Nat /\ Quantity[i] \in Nat /\ sold'[i] = sold[i] + 1
      /\ sold[i] < Quantity[i] /\ req[s].seen = sold[i]
  BY <1>1 DEF SeatReserved, Commit, At, HoldsItem
<1>3. new.code = "ok" /\ new.left = Quantity[i] - sold'[i] /\ new \in Remembered
  BY <1>2, AnswerType DEF Ok
<1>4. ~IsBought(key)
  BY DEF Commit, InsertedFresh, Clash, IsBought
<1>5. \A k \in Keys : IsBought(k) => IsBought(k)'
  BY <1>1 DEF IsBought
<1>6. \A k \in Keys : k = key => IsBought(k)'
  <2>1. NewRow(s) \in purchases' /\ NewRow(s).key = key
    BY <1>1 DEF NewRow
  <2> QED
    BY <2>1 DEF IsBought
<1>7. \A e \in wire' : e \in wire \/ (e.key = key /\ e.answer = new)
  BY DEF Commit
<1>8. \A k \in Keys : answers'[k] \subseteq answers[k] \cup (IF k = key THEN {new} ELSE {})
  BY <1>1 DEF Commit, Hears
<1>9. \A k \in Keys, a \in Remembered :
        Known(k, a)' => Known(k, a) \/ (k = key /\ a = new)
  BY <1>1, <1>7, <1>8 DEF Known
<1>10. \A e \in wire' : e.answer.code = "ok"
  BY <1>3, <1>7 DEF Tickets
<1>11. ASSUME NEW k \in Keys, NEW a \in Remembered, Known(k, a)'
       PROVE  /\ IsBought(k)' /\ a.left < Quantity[Wanted[k]]
              /\ a.left >= Quantity[Wanted[k]] - sold'[Wanted[k]]
  <2>1. CASE Known(k, a)
    <3>1. /\ IsBought(k) /\ a.left < Quantity[Wanted[k]]
          /\ a.left >= Quantity[Wanted[k]] - sold[Wanted[k]]
      BY <2>1 DEF Tickets
    <3>2. Wanted[k] \in Items /\ a.left \in Nat
      BY DEF Remembered
    <3>3. sold'[Wanted[k]] \in {sold[Wanted[k]], sold[Wanted[k]] + 1}
      BY <1>1, <3>2
    <3>4. sold[Wanted[k]] \in Nat /\ Quantity[Wanted[k]] \in Nat
      BY <3>2
    <3> QED
      BY <1>5, <3>1, <3>2, <3>3, <3>4
  <2>2. CASE k = key /\ a = new
    <3>1. new.left < Quantity[i] /\ new.left >= Quantity[i] - sold'[i]
      BY <1>2, <1>3
    <3> QED
      BY <1>1, <1>6, <2>2, <3>1
  <2> QED
    BY <1>9, <1>11, <2>1, <2>2
<1>12. ASSUME NEW k \in Keys, NEW b \in Remembered, Known(k, b), Wanted[k] = i
       PROVE  b.left # new.left /\ k # key
  <2>1. IsBought(k) /\ b.left >= Quantity[i] - sold[i] /\ b.left \in Nat
    BY <1>12 DEF Tickets, Remembered
  <2> QED
    BY <1>2, <1>3, <1>4, <2>1
<1>13. ASSUME NEW j \in Keys, NEW k \in Keys, NEW a \in Remembered, NEW b \in Remembered,
              Known(j, a)', Known(k, b)', Wanted[j] = Wanted[k]
       PROVE  a.left = b.left <=> j = k
  <2>1. CASE Known(j, a) /\ Known(k, b)
    BY <1>13, <2>1 DEF Tickets
  <2>2. CASE j = key /\ a = new /\ Known(k, b)
    BY <1>1, <1>12, <1>13, <2>2
  <2>3. CASE Known(j, a) /\ k = key /\ b = new
    BY <1>1, <1>12, <1>13, <2>3
  <2>4. CASE j = key /\ a = new /\ k = key /\ b = new
    BY <2>4
  <2> QED
    BY <1>9, <1>13, <2>1, <2>2, <2>3, <2>4
<1> QED
  BY <1>1, <1>10, <1>11, <1>13 DEF Tickets

\* Every step keeps what Redis and the clients hold true to the purchases.
LEMMA TicketsStep == IInv /\ Tickets /\ [Next]_vars => Tickets'
<1> SUFFICES ASSUME IInv, Tickets, [Next]_vars PROVE Tickets'
  OBVIOUS
<1>0. TypeOK /\ TypeOK'
  BY TypeStep DEF IInv
<1>1. ASSUME NEW s \in Slots, Lookup(s) PROVE Tickets'
  <2>1. req[s].key \in Keys
    BY <1>0 DEF TypeOK, Request
  <2>2. \A k \in Keys, a \in Remembered : Known(k, a)' => Known(k, a)
    BY <1>0, <1>1, <2>1 DEF Lookup, Hears, Cached, Known, TypeOK, redis
  <2> QED
    BY <1>0, <1>1, <2>2, QuietTickets DEF Lookup, db, redis, Tickets
<1>2. ASSUME NEW s \in Slots, CheckDaily(s) \/ Insert(s) PROVE Tickets'
  <2>1. req[s].key \in Keys
    BY <1>0 DEF TypeOK, Request
  <2>2. UNCHANGED db /\ UNCHANGED redis /\ (Hears(s, Refused) \/ UNCHANGED answers)
    BY <1>2 DEF CheckDaily, Insert
  <2>3. \A k \in Keys : answers'[k] \subseteq answers[k] \cup {Refused}
    BY <1>0, <2>1, <2>2 DEF Hears, TypeOK
  <2>4. \A k \in Keys, a \in Remembered : Known(k, a)' => Known(k, a)
    BY <2>2, <2>3 DEF Known, Refused, redis
  <2> QED
    BY <1>0, <2>2, <2>4, QuietTickets DEF redis, Tickets
<1>3. ASSUME NEW s \in Slots, Commit(s) PROVE Tickets'
  BY <1>0, <1>3, CommitTickets
<1>4. ASSUME NEW e \in wire, CacheSet(e) PROVE Tickets'
  <2>1. \A c \in cache' : c \in cache \/ (c.key = e.key /\ c.answer = e.answer)
    BY <1>4 DEF CacheSet
  <2>2. wire' \subseteq wire /\ answers' = answers /\ UNCHANGED db
    BY <1>4 DEF CacheSet
  <2>3. \A k \in Keys, a \in Remembered : Known(k, a)' => Known(k, a)
    BY <2>1, <2>2 DEF Known
  <2> QED
    BY <1>0, <2>1, <2>2, <2>3, QuietTickets DEF Tickets
<1>5. ASSUME UNCHANGED <<db, answers>>, cache' \subseteq cache, wire' \subseteq wire
      PROVE  Tickets'
  <2>1. \A k \in Keys, a \in Remembered : Known(k, a)' => Known(k, a)
    BY <1>5 DEF Known
  <2> QED
    BY <1>0, <1>5, <2>1, QuietTickets DEF Tickets
<1>6. ASSUME NEW s \in Slots, NEW k \in Keys, Arrive(s, k) PROVE Tickets'
  BY <1>5, <1>6 DEF Arrive, redis
<1>7. ASSUME NEW s \in Slots, Begin(s) \/ LockItem(s) \/ LockUser(s) \/ Debit(s)
                              \/ Abort(s) \/ Crash(s)
      PROVE  Tickets'
  BY <1>5, <1>7 DEF Begin, LockItem, LockUser, Debit, Abort, Crash, redis
<1>8. ASSUME NEW e \in wire, CacheLost(e) PROVE Tickets'
  BY <1>5, <1>8 DEF CacheLost
<1>9. ASSUME NEW new \in SUBSET Items, Publish(new) PROVE Tickets'
  BY <1>5, <1>9 DEF Publish, redis
<1>10. CASE Tick \/ UNCHANGED vars
  <2>1. UNCHANGED <<db, answers>> /\ cache' \subseteq cache /\ wire' \subseteq wire
    BY <1>10 DEF Tick, vars, redis
  <2> QED
    BY <1>5, <2>1
<1> QED
  BY <1>1, <1>2, <1>3, <1>4, <1>6, <1>7, <1>8, <1>9, <1>10 DEF Next, Serve

\* Tickets holds in every state.
LEMMA TicketsInvariance == Spec => []Tickets
<1>1. Init => Tickets
  BY DEF Init, Tickets, Known
<1> QED
  BY <1>1, TicketsStep, Invariance, PTL DEF Spec

\* Whatever a client was told, or Redis will replay, is a committed purchase.
THEOREM AcknowledgedStays == Spec => []AcknowledgedIsDurable
<1>1. IInv /\ Tickets => AcknowledgedIsDurable
  <2> SUFFICES ASSUME IInv, Tickets PROVE AcknowledgedIsDurable
    OBVIOUS
  <2> USE DEF IInv, TypeOK
  <2>1. \A k \in Keys : (\E a \in answers[k] : a.code = "ok") => IsBought(k)
    BY DEF Tickets, Known
  <2>2. \A e \in cache : e.key \in Keys /\ e.answer \in Remembered /\ Known(e.key, e.answer)
    BY DEF Tickets, Known
  <2>3. \A e \in wire : e.key \in Keys /\ e.answer \in Remembered /\ Known(e.key, e.answer)
    BY DEF Tickets, Known
  <2> QED
    BY <2>1, <2>2, <2>3 DEF AcknowledgedIsDurable, Tickets
<1> QED
  BY <1>1, Invariance, TicketsInvariance, PTL

\* No two keys are ever told the same remaining_allocation of one item.
THEOREM TicketsStayDistinct == Spec => []TicketsDistinct
<1>1. IInv /\ Tickets => TicketsDistinct
  BY DEF IInv, TypeOK, Tickets, TicketsDistinct, Known
<1> QED
  BY <1>1, Invariance, TicketsInvariance, PTL

-----------------------------------------------------------------------------
(* Refinement                                                              *)

\* The tables seen alone: each step is one indivisible sale, or nothing.
THEOREM Refinement == Spec => LedgerSpec
<1>1. Init => Ledger!Init
  BY DEF Init, Ledger!Init
<1>2. IInv /\ [Next]_vars => [Ledger!Next]_(Ledger!ledger)
  <2> SUFFICES ASSUME IInv, [Next]_vars, ~UNCHANGED db
               PROVE  Ledger!Next
    BY DEF db, Ledger!ledger
  <2>1. PICK s \in Slots : Commit(s)
    BY DatabaseStep
  <2>2. req[s].key \in Keys /\ req[s].day \in Days
    BY DEF IInv, TypeOK, Request
  <2>3. HoldsItem(s) /\ HoldsUser(s)
    BY <2>1 DEF Commit, At, HoldsItem, HoldsUser
  <2>4. sold[Item(s)] < Quantity[Item(s)] /\ balance[User(s)] >= Price[Item(s)]
    BY <2>3 DEF IInv, SeatReserved, FundsReserved
  <2>5. \A p \in purchases : ~Clash(p, req[s].key, req[s].day)
    BY <2>1 DEF IInv, InsertedFresh, Commit
  <2>6. Ledger!Sell(req[s].key, req[s].day)
    BY <2>1, <2>4, <2>5 DEF Ledger!Sell, Commit, Clash, NewRow, Item, User
  <2> QED
    BY <2>2, <2>6 DEF Ledger!Next
<1> QED
  BY <1>1, <1>2, Invariance, PTL DEF Spec, LedgerSpec, Ledger!Spec

\* How a step of one slot changes the set of locked item rows.
LEMMA BusySame ==
  ASSUME TypeOK, NEW s \in Slots, \A t \in Slots : t # s => req'[t] = req[t],
         \/ ~HoldsItem(s) /\ ~HoldsItem(s)'
         \/ HoldsItem(s) /\ HoldsItem(s)' /\ req'[s].key = req[s].key
  PROVE  Busy' = Busy
BY DEF Busy, HoldsItem, Item

\* A request that ends gives its item row back.
LEMMA BusyFinish ==
  ASSUME IInv, NEW s \in Slots, Finish(s)
  PROVE  IF HoldsItem(s) THEN Item(s) \in Busy /\ Busy' = Busy \ {Item(s)} ELSE Busy' = Busy
<1>1. /\ req'[s].at = "idle" /\ TypeOK
      /\ \A t \in Slots : t # s => req'[t] = req[t]
  BY IdleType DEF IInv, TypeOK, Finish
<1>2. ~HoldsItem(s)'
  BY <1>1 DEF HoldsItem
<1>3. CASE HoldsItem(s)
  <2>1. \A t \in Slots : t # s /\ HoldsItem(t) => Item(t) # Item(s)
    BY <1>3 DEF IInv, ItemMutex
  <2>2. \A t \in Slots : t # s => (HoldsItem(t)' <=> HoldsItem(t)) /\ Item(t)' = Item(t)
    BY <1>1 DEF HoldsItem, Item
  <2> QED
    BY <1>2, <1>3, <2>1, <2>2 DEF Busy
<1>4. CASE ~HoldsItem(s)
  BY <1>1, <1>2, <1>4, BusySame
<1> QED
  BY <1>3, <1>4

\* Every step of Purchase is a step of ItemRows, or leaves its state alone.
LEMMA RowsStep == IInv /\ [Next]_vars => [Rows!RowsNext]_(Rows!rows)
<1> SUFFICES ASSUME IInv, [Next]_vars PROVE [Rows!RowsNext]_(Rows!rows)
  OBVIOUS
<1> USE DEF db
<1>0. TypeOK /\ req \in [Slots -> Request]
  BY DEF IInv, TypeOK
<1>1. ASSUME UNCHANGED <<now, listed, sold>>, Busy' = Busy
      PROVE  [Rows!RowsNext]_(Rows!rows)
  BY <1>1 DEF Rows!rows
<1>2. ASSUME UNCHANGED <<now, listed, sold>>, NEW s \in Slots, Finish(s)
      PROVE  [Rows!RowsNext]_(Rows!rows)
  <2>1. Item(s) \in Items
    BY <1>0 DEF Item, Request
  <2>2. CASE HoldsItem(s)
    BY <1>2, <2>1, <2>2, BusyFinish DEF Rows!RowsNext, Rows!Release
  <2>3. CASE ~HoldsItem(s)
    BY <1>1, <1>2, <2>3, BusyFinish
  <2> QED
    BY <2>2, <2>3
<1>3. ASSUME UNCHANGED <<now, listed, sold>>, NEW s \in Slots, NEW stage, GoTo(s, stage),
             (stage \in {"begin", "exists", "item"} /\ ~HoldsItem(s))
               \/ (stage \in {"debit", "insert", "commit"} /\ HoldsItem(s))
      PROVE  [Rows!RowsNext]_(Rows!rows)
  <2>1. /\ req'[s].at = stage /\ req'[s].key = req[s].key
        /\ \A t \in Slots : t # s => req'[t] = req[t]
    BY <1>0, <1>3 DEF GoTo, Request
  <2>2. Busy' = Busy
    BY <1>0, <1>3, <2>1, BusySame DEF HoldsItem
  <2> QED
    BY <1>1, <1>3, <2>2
<1>4. ASSUME NEW s \in Slots, NEW k \in Keys, Arrive(s, k)
      PROVE  [Rows!RowsNext]_(Rows!rows)
  <2>1. /\ req'[s].at = "lookup" /\ ~HoldsItem(s)
        /\ \A t \in Slots : t # s => req'[t] = req[t]
    BY <1>0, <1>4, IdleType DEF Arrive, Request, At, HoldsItem
  <2>2. Busy' = Busy
    BY <1>0, <2>1, BusySame DEF HoldsItem
  <2> QED
    BY <1>1, <1>4, <2>2 DEF Arrive
<1>5. ASSUME NEW s \in Slots, Lookup(s) \/ CheckDaily(s)
      PROVE  [Rows!RowsNext]_(Rows!rows)
  BY <1>2, <1>3, <1>5 DEF Lookup, CheckDaily, At, HoldsItem
<1>6. ASSUME NEW s \in Slots, Begin(s) PROVE [Rows!RowsNext]_(Rows!rows)
  <2>1. /\ req'[s].at = "exists" /\ ~HoldsItem(s)
        /\ \A t \in Slots : t # s => req'[t] = req[t]
    BY <1>0, <1>6 DEF Begin, Request, At, HoldsItem
  <2>2. Busy' = Busy
    BY <1>0, <2>1, BusySame DEF HoldsItem
  <2> QED
    BY <1>1, <1>6, <2>2 DEF Begin
<1>7. ASSUME NEW s \in Slots, LockItem(s) PROVE [Rows!RowsNext]_(Rows!rows)
  <2>1. CASE Finish(s)
    BY <1>2, <1>7, <2>1 DEF LockItem
  <2>2. CASE ~Finish(s)
    <3>1. /\ At(s, "item") /\ ItemFree(Item(s)) /\ Item(s) \in listed /\ Open(Item(s))
          /\ sold[Item(s)] < Quantity[Item(s)] /\ UNCHANGED <<now, listed, sold>>
          /\ req' = [req EXCEPT ![s].at = "user", ![s].seen = sold[Item(s)]]
      BY <1>7, <2>2 DEF LockItem
    <3>2. /\ req'[s].at = "user" /\ req'[s].key = req[s].key
          /\ \A t \in Slots : t # s => req'[t] = req[t]
      BY <1>0, <3>1 DEF Request
    <3>3. ~HoldsItem(s) /\ HoldsItem(s)' /\ Item(s)' = Item(s)
      BY <3>1, <3>2 DEF At, HoldsItem, Item
    <3>4. \A t \in Slots : t # s => (HoldsItem(t)' <=> HoldsItem(t)) /\ Item(t)' = Item(t)
      BY <3>2 DEF HoldsItem, Item
    <3>5. Busy' = Busy \cup {Item(s)} /\ Item(s) \notin Busy
      BY <3>1, <3>3, <3>4 DEF Busy, ItemFree
    <3>6. Item(s) \in Items
      BY <1>0 DEF Item, Request
    <3>7. Rows!Reserve(Item(s))
      BY <3>1, <3>5 DEF Rows!Reserve, Rows!Open, Open
    <3> QED
      BY <3>6, <3>7 DEF Rows!RowsNext
  <2> QED
    BY <2>1, <2>2
<1>8. ASSUME NEW s \in Slots, LockUser(s) \/ Debit(s) \/ Insert(s) \/ Abort(s) \/ Crash(s)
      PROVE  [Rows!RowsNext]_(Rows!rows)
  BY <1>2, <1>3, <1>8 DEF LockUser, Debit, Insert, Abort, Crash, At, HoldsItem
<1>9. ASSUME NEW s \in Slots, Commit(s) PROVE [Rows!RowsNext]_(Rows!rows)
  <2>1. HoldsItem(s) /\ Item(s) \in Items
    BY <1>0, <1>9 DEF Commit, At, HoldsItem, Item, Request
  <2>2. Item(s) \in Busy /\ Busy' = Busy \ {Item(s)}
    BY <1>9, <2>1, BusyFinish DEF Commit
  <2> QED
    BY <1>9, <2>1, <2>2 DEF Commit, Rows!RowsNext, Rows!Sell
<1>10. ASSUME UNCHANGED req PROVE Busy' = Busy
  BY <1>10 DEF Busy, HoldsItem, Item
<1>11. ASSUME NEW e \in wire, CacheSet(e) \/ CacheLost(e) PROVE [Rows!RowsNext]_(Rows!rows)
  BY <1>1, <1>10, <1>11 DEF CacheSet, CacheLost
<1>12. ASSUME NEW new \in SUBSET Items, Publish(new) PROVE [Rows!RowsNext]_(Rows!rows)
  BY <1>10, <1>12 DEF Publish, Rows!RowsNext, Rows!Publish
<1>13. CASE Tick
  BY <1>10, <1>13 DEF Tick, Rows!RowsNext, Rows!Tick
<1>14. CASE UNCHANGED vars
  BY <1>1, <1>10, <1>14 DEF vars
<1> QED
  BY <1>4, <1>5, <1>6, <1>7, <1>8, <1>9, <1>11, <1>12, <1>13, <1>14 DEF Next, Serve

\* Purchases take turns at an item's row, as SaleLifecycle assumes they do.
THEOREM RowsRefinement == Spec => RowsSpec
<1>1. Init => Rows!RowsInit
  BY IdleType DEF Init, Rows!RowsInit, Busy, HoldsItem
<1> QED
  BY <1>1, RowsStep, Invariance, PTL DEF Spec, RowsSpec, Rows!RowsSpec
=============================================================================
