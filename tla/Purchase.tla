------------------------------ MODULE Purchase ------------------------------
(***************************************************************************)
(* POST /v1/flashsale/purchase: the Redis-backed IdempotencyInterceptor    *)
(* around FlashSaleRepository.purchaseTx, run by any number of API         *)
(* replicas against one Postgres database at READ COMMITTED.               *)
(*                                                                         *)
(* Each SQL statement is one action.  A transaction's writes stay private  *)
(* until Commit, and a row lock is held from the statement that takes it   *)
(* to the end of the transaction, so who holds a row follows from how far  *)
(* each request has come (HoldsItem, HoldsUser).  A slot is a place where  *)
(* one request at a time runs; a client may send the same Idempotency-Key  *)
(* any number of times, in parallel or after a failure.                    *)
(***************************************************************************)
EXTENDS Integers, FiniteSets, FiniteSetsExt

CONSTANTS
  Users, Items, Slots,
  Keys,            \* Idempotency-Key values: one per intention to buy
  Buyer,           \* [Keys -> Users], the client that made the key up
  Wanted,          \* [Keys -> Items], the sale_item_id it is sent with
  Quantity, Price, StartsAt, EndsAt,   \* columns of each sale item
  OpeningBalance,  \* [Users -> Nat], users.balance_cents at the start
  DayLength,       \* clock ticks in a calendar day
  CacheTTL,        \* clock ticks an entry of the response cache lives
  Horizon          \* bound: the clock stops here

Time == 0 .. Horizon
Day(t) == t \div DayLength
Days == {Day(t) : t \in Time}

ASSUME PurchaseAssumption ==
  /\ Keys # {} /\ IsFiniteSet(Keys)
  /\ Buyer \in [Keys -> Users] /\ Wanted \in [Keys -> Items]
  /\ Quantity \in [Items -> Nat \ {0}] /\ Price \in [Items -> Nat]
  /\ StartsAt \in [Items -> Nat] /\ EndsAt \in [Items -> Nat]
  /\ OpeningBalance \in [Users -> Nat]
  /\ DayLength \in Nat \ {0} /\ CacheTTL \in Nat /\ Horizon \in Nat

VARIABLES
  now,        \* the clock that `new Date()` and `now()` read
  listed,     \* ids of the flash_sale_items rows
  sold,       \* flash_sale_items.sold
  balance,    \* users.balance_cents
  purchases,  \* rows of purchases
  events,     \* number of purchase.completed outbox rows per key
  cache,      \* the idem:<key> entries in Redis
  wire,       \* SET commands sent to Redis and not yet executed
  req,        \* what runs in each slot
  answers     \* history: the Remembered answers clients received for a key

db == <<sold, balance, purchases, events>>
redis == <<cache, wire>>
vars == <<now, listed, db, redis, req, answers>>

Ok(left) == [code |-> "ok", left |-> left]
Refused == [code |-> "already_purchased_today", left |-> 0]
\* The answers that speak of a purchase as made; no other is cached, or kept
\* in the history: 404, 402, the other 409s and 500 say that nothing changed.
Remembered == [code : {"ok", "already_purchased_today"}, left : Nat]

Stages == {"idle", "lookup", "begin", "exists", "item", "user", "debit",
           "insert", "commit"}
Row == [key : Keys, user : Users, item : Items, day : Days]
Request == [at : Stages, key : Keys, day : Days, seen : Nat]

Idle == [at |-> "idle", key |-> CHOOSE k \in Keys : TRUE, day |-> Day(0),
         seen |-> 0]

Init ==
  /\ now = 0
  /\ listed = {}
  /\ sold = [i \in Items |-> 0]
  /\ balance = OpeningBalance
  /\ purchases = {}
  /\ events = [k \in Keys |-> 0]
  /\ cache = {}
  /\ wire = {}
  /\ req = [s \in Slots |-> Idle]
  /\ answers = [k \in Keys |-> {}]

-----------------------------------------------------------------------------
At(s, stage) == req[s].at = stage
User(s) == Buyer[req[s].key]
Item(s) == Wanted[req[s].key]

GoTo(s, stage) == req' = [req EXCEPT ![s].at = stage]
\* The request ends; its answer a reaches the client, or is lost on the way.
Finish(s) == req' = [req EXCEPT ![s] = Idle]
Hears(s, a) ==
  answers' \in {answers, [answers EXCEPT ![req[s].key] = @ \cup {a}]}

\* The transaction of s has the item row, respectively the user row, locked.
HoldsItemBriefly(s) == req[s].at = "user"   \* mutant: released too early
HoldsItem(s) == req[s].at \in {"user", "debit", "insert", "commit"}
HoldsUser(s) == req[s].at \in {"debit", "insert", "commit"}
NoWait(row) == TRUE                         \* mutant: no FOR UPDATE
ItemFree(i) == \A t \in Slots : HoldsItem(t) => Item(t) # i
UserFree(u) == \A t \in Slots : HoldsUser(t) => User(t) # u

\* Inside $transaction, where a timeout or a lost connection rolls back.
InTransaction(s) ==
  req[s].at \in {"exists", "item", "user", "debit", "insert", "commit"}

Cached(k) == {e \in cache : e.key = k}
PurchasedOn(u, d) == \E p \in purchases : p.user = u /\ p.day = d
Open(i) == StartsAt[i] <= now /\ now <= EndsAt[i]

\* UNIQUE (idempotency_key) and UNIQUE (user_id, day) on purchases.
ClashOfKeys(p, k, d) == p.key = k           \* mutant: no UNIQUE (user_id, day)
Clash(p, k, d) == p.key = k \/ (p.user = Buyer[k] /\ p.day = d)
NewRow(s) == [key |-> req[s].key, user |-> User(s), item |-> Item(s),
              day |-> req[s].day]
\* Rows that transactions other than s have inserted and not committed.
Uncommitted(s) == {NewRow(t) : t \in {x \in Slots \ {s} : At(x, "commit")}}

-----------------------------------------------------------------------------
\* A client sends, or sends again, the request of key k.
Arrive(s, k) ==
  /\ At(s, "idle")
  /\ req' = [req EXCEPT ![s] = [Idle EXCEPT !.at = "lookup", !.key = k]]
  /\ UNCHANGED <<now, listed, db, redis, answers>>

\* GET idem:<key>: replay the cached answer, go on, or fail with Redis.
Lookup(s) ==
  /\ At(s, "lookup")
  /\ \/ \E e \in Cached(req[s].key) : Finish(s) /\ Hears(s, e.answer)
     \/ Cached(req[s].key) = {} /\ GoTo(s, "begin") /\ UNCHANGED answers
     \/ Finish(s) /\ UNCHANGED answers
  /\ UNCHANGED <<now, listed, db, redis>>

\* The calendar day is taken before the transaction starts.
Begin(s) ==
  /\ At(s, "begin")
  /\ req' = [req EXCEPT ![s].at = "exists", ![s].day = Day(now)]
  /\ UNCHANGED <<now, listed, db, redis, answers>>

\* The transaction opens and looks for a purchase of that day.
CheckDaily(s) ==
  /\ At(s, "exists")
  /\ \/ /\ PurchasedOn(User(s), req[s].day)
        /\ Finish(s) /\ Hears(s, Refused)
     \/ /\ ~PurchasedOn(User(s), req[s].day)
        /\ GoTo(s, "item") /\ UNCHANGED answers
  /\ UNCHANGED <<now, listed, db, redis>>

\* SELECT ... FOR UPDATE OF fsi, then the checks on the row it returned.
LockItem(s) ==
  LET i == Item(s) IN
  /\ At(s, "item")
  /\ ItemFree(i)
  /\ \/ i \notin listed /\ Finish(s)              \* sale_item_not_found
     \/ i \in listed /\ ~Open(i) /\ Finish(s)     \* out_of_window
     \/ i \in listed /\ Open(i) /\ sold[i] >= Quantity[i] /\ Finish(s)
     \/ /\ i \in listed /\ Open(i) /\ sold[i] < Quantity[i]
        /\ req' = [req EXCEPT ![s].at = "user", ![s].seen = sold[i]]
  /\ UNCHANGED <<now, listed, db, redis, answers>>

\* SELECT balance_cents ... FOR UPDATE.
LockUser(s) ==
  /\ At(s, "user")
  /\ UserFree(User(s))
  /\ \/ balance[User(s)] < Price[Item(s)] /\ Finish(s)
     \/ balance[User(s)] >= Price[Item(s)] /\ GoTo(s, "debit")
  /\ UNCHANGED <<now, listed, db, redis, answers>>

\* The two relative UPDATEs pass the CHECK constraints of their tables; if
\* one does not, the statement fails and Abort is all that is left.
WithinChecks(s) ==
  /\ sold[Item(s)] + 1 <= Quantity[Item(s)]
  /\ balance[User(s)] - Price[Item(s)] >= 0

Debit(s) ==
  /\ At(s, "debit")
  /\ WithinChecks(s)
  /\ GoTo(s, "insert")
  /\ UNCHANGED <<now, listed, db, redis, answers>>

\* INSERT INTO purchases.  A clash with an uncommitted row waits; a clash
\* with a committed one is P2002, answered already_purchased_today.
Insert(s) ==
  LET k == req[s].key
      d == req[s].day
  IN
  /\ At(s, "insert")
  /\ \A p \in Uncommitted(s) : ~Clash(p, k, d)
  /\ \/ /\ \E p \in purchases : Clash(p, k, d)
        /\ Finish(s) /\ Hears(s, Refused)
     \/ /\ \A p \in purchases : ~Clash(p, k, d)
        /\ GoTo(s, "commit") /\ UNCHANGED answers
  /\ UNCHANGED <<now, listed, db, redis>>

\* The outbox row is appended and everything becomes visible at once.  When
\* the acknowledgement arrives the interceptor sends SET idem:<key> without
\* awaiting it; when the connection drops first, the client sees a 500.
Commit(s) ==
  LET k == req[s].key
      a == Ok(Quantity[Item(s)] - (req[s].seen + 1))
  IN
  /\ At(s, "commit")
  /\ sold' = [sold EXCEPT ![Item(s)] = @ + 1]
  /\ balance' = [balance EXCEPT ![User(s)] = @ - Price[Item(s)]]
  /\ purchases' = purchases \cup {NewRow(s)}
  /\ events' = [events EXCEPT ![k] = @ + 1]
  /\ Finish(s)
  /\ \/ wire' = wire \cup {[key |-> k, answer |-> a]} /\ Hears(s, a)
     \/ UNCHANGED <<wire, answers>>
  /\ UNCHANGED <<now, listed, cache>>

\* lock_timeout, statement_timeout, Prisma's transaction timeout, a failed
\* CHECK, a dropped connection: everything rolls back, the answer is a 500.
AbortKeepsEvent(s) ==                       \* mutant: append outside the tx
  /\ InTransaction(s)
  /\ Finish(s)
  /\ events' = [events EXCEPT ![req[s].key] =
                  IF At(s, "commit") THEN @ + 1 ELSE @]
  /\ UNCHANGED <<now, listed, sold, balance, purchases, redis, answers>>

AbortKeepsAnswer(s) ==                      \* mutant: SET before the commit
  /\ InTransaction(s)
  /\ Finish(s)
  /\ wire' = wire \cup {e \in [key : {req[s].key}, answer : {Ok(0)}] : At(s, "commit")}
  /\ UNCHANGED <<now, listed, db, cache, answers>>

NeverAborts(s) == FALSE                     \* mutant: no timeouts

Abort(s) ==
  /\ InTransaction(s)
  /\ Finish(s)
  /\ UNCHANGED <<now, listed, db, redis, answers>>

\* The replica dies: Postgres rolls back, the client never hears.
Crash(s) ==
  /\ ~At(s, "idle")
  /\ Finish(s)
  /\ UNCHANGED <<now, listed, db, redis, answers>>

\* Redis executes SET idem:<key> ... EX, or the command is lost.
CacheSet(e) ==
  /\ e \in wire
  /\ cache' = {c \in cache : c.key # e.key} \cup
              {[key |-> e.key, answer |-> e.answer, until |-> now + CacheTTL]}
  /\ wire' = wire \ {e}
  /\ UNCHANGED <<now, listed, db, req, answers>>

CacheLost(e) ==
  /\ e \in wire
  /\ wire' = wire \ {e}
  /\ UNCHANGED <<now, listed, db, cache, req, answers>>

\* What SaleCreationService.create does to the tables read here.
Publish(new) ==
  /\ new # {} /\ new \subseteq Items \ listed
  /\ listed' = listed \cup new
  /\ UNCHANGED <<now, db, redis, req, answers>>

\* The clock moves on, and Redis forgets the entries whose EX has passed.
Tick ==
  /\ now < Horizon
  /\ now' = now + 1
  /\ cache' = {e \in cache : now' < e.until}
  /\ UNCHANGED <<listed, db, wire, req, answers>>

\* Everything the server does by itself for the request in slot s.
Serve(s) ==
  \/ Lookup(s) \/ Begin(s) \/ CheckDaily(s) \/ LockItem(s) \/ LockUser(s)
  \/ Debit(s) \/ Insert(s) \/ Commit(s) \/ Abort(s)

Next ==
  \/ \E s \in Slots, k \in Keys : Arrive(s, k)
  \/ \E s \in Slots : Serve(s)
  \/ \E s \in Slots : Crash(s)
  \/ \E e \in wire : CacheSet(e)
  \/ \E e \in wire : CacheLost(e)
  \/ \E new \in SUBSET Items : Publish(new)
  \/ Tick

Spec == Init /\ [][Next]_vars

\* A replica that stays up keeps running its requests, and lock_timeout
\* ends every wait, so no request is ignored forever.
FairSpec == Spec /\ \A s \in Slots : WF_vars(Serve(s))

-----------------------------------------------------------------------------
(* What must hold                                                          *)

\* Every variable keeps the type the schema and the protocol give it; the
\* columns under a CHECK (sold, balance_cents) stay non-negative.
TypeOK ==
  /\ now \in Time /\ listed \subseteq Items
  /\ sold \in [Items -> Nat] /\ balance \in [Users -> Nat]
  /\ purchases \subseteq Row /\ events \in [Keys -> Nat]
  /\ cache \subseteq [key : Keys, answer : Remembered, until : Nat]
  /\ wire \subseteq [key : Keys, answer : Remembered]
  /\ req \in [Slots -> Request]
  /\ answers \in [Keys -> SUBSET Remembered]

\* The units an item is short of are exactly the purchases made of it, and
\* never more than its quantity: two buyers of the last unit cannot both win.
RowsOf(i) == {p \in purchases : p.item = i}
NoOversell ==
  \A i \in Items : sold[i] = Cardinality(RowsOf(i)) /\ sold[i] <= Quantity[i]

\* No two purchases share a key, or a user and a day, however the EXISTS
\* checks and the inserts of parallel requests interleave.
DailyCap ==
  \A p, q \in purchases :
    p # q => p.key # q.key /\ ~(p.user = q.user /\ p.day = q.day)

\* A user has paid for exactly the purchases on record, and could afford them.
Spent(u) == MapThenSumSet(LAMBDA p : Price[p.item],
                          {p \in purchases : p.user = u})
BalanceIntegrity ==
  \A u \in Users : /\ Spent(u) <= OpeningBalance[u]
                  /\ balance[u] = OpeningBalance[u] - Spent(u)

\* The outbox holds one purchase.completed event for each purchase, and none
\* for an attempt that rolled back.
EventPerPurchase ==
  \A k \in Keys :
    events[k] = IF \E p \in purchases : p.key = k THEN 1 ELSE 0

\* A success that a client saw, that Redis would replay or that is on its way
\* to Redis is the success of a committed purchase with that key.
IsBought(k) == \E p \in purchases : p.key = k
AcknowledgedIsDurable ==
  /\ \A k \in Keys : (\E a \in answers[k] : a.code = "ok") => IsBought(k)
  /\ \A e \in cache : IsBought(e.key)
  /\ \A e \in wire : IsBought(e.key)

\* The remaining_allocation figures clients of one item were told differ from
\* key to key and stay below the quantity, and a replay repeats the figure:
\* each is the ticket of one unit, read and sold under one lock.
TicketsDistinct ==
  \A j, k \in Keys : \A a \in answers[j], b \in answers[k] :
    (Wanted[j] = Wanted[k] /\ a.code = "ok" /\ b.code = "ok")
    => /\ a.left < Quantity[Wanted[j]]
       /\ (a.left = b.left <=> j = k)

\* The row locks and the two checks made under them are enough: the CHECK
\* constraints of the database never have to stop a debit.
GuardsSuffice == \A s \in Slots : At(s, "debit") => WithinChecks(s)

\* A request that a replica accepted ends, whatever locks it meets.
EveryRequestEnds == \A s \in Slots : ~At(s, "idle") ~> At(s, "idle")

\* Seen from the tables alone, every request is one indivisible sale or nothing.
Ledger == INSTANCE PurchaseLedger
LedgerSpec == Ledger!Spec

\* Seen from one item's row, requests take turns: each locks the row, passes the
\* checks, and sells one unit or lets go.  SaleLifecycle builds on this view.
Busy == {Item(s) : s \in {t \in Slots : HoldsItem(t)}}
Rows == INSTANCE ItemRows WITH busy <- Busy
RowsSpec == Rows!RowsSpec

-----------------------------------------------------------------------------
(* What the repository says and the code does not do (see the README)      *)

\* docs/DESIGN.md 7.1: "same Idempotency-Key always returns the same response".
\* Only answers about a made purchase count: a key whose purchase was
\* acknowledged is never answered already_purchased_today.
ExactlyOnceResult == \A k \in Keys : \A a, b \in answers[k] : a = b

\* flashsale.repository.ts:94-96: an insert that meets a UNIQUE constraint was
\* stopped by the daily cap: the user has a purchase on that day.
P2002IsDailyCap ==
  [][\A s \in Slots :
       (At(s, "insert") /\ Insert(s) /\ req'[s].at = "idle")
       => PurchasedOn(User(s), req[s].day)]_vars

\* docs/DESIGN.md, Conventions: purchases.day is the day of created_at.  The
\* default now() of created_at is not before the start of the transaction, so a
\* transaction that goes on to buy has to start on the day that its row carries.
DayIsCreationDay ==
  [][\A s \in Slots :
       (At(s, "exists") /\ req'[s].at = "item") => req[s].day = Day(now)]_vars

=============================================================================
