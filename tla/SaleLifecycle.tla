---------------------------- MODULE SaleLifecycle ---------------------------
(***************************************************************************)
(* A flash sale from its creation (SaleCreationService.create, or the seed *)
(* script) over the listing and buying of its items to its settlement by   *)
(* the outbox workers (FlashSaleSettleHandler, driven by OutboxPoller),    *)
(* and the product stock that creation takes and settlement gives back.    *)
(*                                                                         *)
(* Each transaction shows its writes at its commit and holds the rows it   *)
(* has updated or selected FOR UPDATE until then.  A worker's claim on the *)
(* outbox row is a transaction of its own, around the handler's: it can be *)
(* rolled back (Prisma's five seconds, a lost connection) while the        *)
(* handler runs on, and then another worker can claim the row.             *)
(***************************************************************************)
EXTENDS ItemRows, Sequences, FiniteSets, FiniteSetsExt

CONSTANTS
  Sales, Products, Workers,
  Lines,         \* [Sales -> Seq(Items)], the items in the order of the input
  SEEDS,         \* Seq(Sales), the sales of prisma/seed.ts, in its order
  ProductOf,     \* [Items -> Products]
  OpeningStock,  \* [Products -> Nat], products.stock as it is seeded
  MaxAttempts,   \* OUTBOX_MAX_ATTEMPTS
  Asked,         \* bound: the items buyers ask for
  MaxFaults      \* bound: worker crashes and lost claims in a behaviour

ItemsOf(a) == {Lines[a][n] : n \in DOMAIN Lines[a]}
Seeded == {SEEDS[n] : n \in DOMAIN SEEDS}

ASSUME LifecycleAssumption ==
  /\ Sales # {} /\ IsFiniteSet(Items)
  /\ Lines \in [Sales -> Seq(Items)] /\ SEEDS \in Seq(Sales)
  /\ ProductOf \in [Items -> Products]
  /\ OpeningStock \in [Products -> Nat]
  /\ Quantity \in [Items -> Nat \ {0}]
  /\ StartsAt \in [Items -> Nat] /\ EndsAt \in [Items -> Nat] /\ Horizon \in Nat
  /\ Asked \subseteq Items
  /\ MaxAttempts \in Nat \ {0} /\ MaxFaults \in Nat
  /\ \A a \in Sales : Lines[a] # <<>>
  \* UNIQUE (flash_sale_id, product_id); a sale has one window, and CHECK
  \* (ends_at > starts_at) on it; each line belongs to one sale.
  /\ \A a \in Sales : \A m, n \in DOMAIN Lines[a] :
       /\ ProductOf[Lines[a][m]] = ProductOf[Lines[a][n]] => m = n
       /\ StartsAt[Lines[a][m]] = StartsAt[Lines[a][n]]
       /\ EndsAt[Lines[a][m]] = EndsAt[Lines[a][n]]
  /\ \A i \in Items : StartsAt[i] < EndsAt[i]
  /\ \A a, b \in Sales : a # b => ItemsOf(a) \cap ItemsOf(b) = {}

VARIABLES
  catalogue, \* the products rows there are
  stock,     \* products.stock, of those rows
  creating,  \* lines the creation transaction of each sale has reserved
  seeder,    \* the seed it is at; 1: also between two runs; past the last: done
  settled,   \* sales whose settled_at is set
  job,       \* the flash_sale.settle outbox row of each sale
  worker,    \* what each worker does
  faults,    \* crashes and lost claims so far
  returned   \* history: units of each item given back to stock

made == <<catalogue, creating, seeder>>
db == <<stock, settled, returned>>
vars == <<rows, made, db, job, worker, faults>>

JobStatus == {"NONE", "PENDING", "PROCESSED", "DEAD_LETTER"}
Job == [status : JobStatus, attempts : 0 .. MaxAttempts, delayed : BOOLEAN]
Stages == {"idle", "lock", "read", "return", "mark", "failed"}
Nothing == [i \in Items |-> 0]
Rest == [at |-> "idle", sale |-> CHOOSE a \in Sales : TRUE, claim |-> FALSE,
         unsold |-> Nothing, todo |-> {}]

Init ==
  /\ RowsInit
  /\ catalogue = {}
  /\ stock = OpeningStock
  /\ seeder = 1
  /\ creating = [a \in Sales |-> 0]
  /\ settled = {}
  /\ job = [a \in Sales |-> [status |-> "NONE", attempts |-> 0, delayed |-> FALSE]]
  /\ worker = [w \in Workers |-> Rest]
  /\ faults = 0
  /\ returned = Nothing

-----------------------------------------------------------------------------
At(w, stage) == worker[w].at = stage
Sale(w) == worker[w].sale
Exists(a) == ItemsOf(a) \cap listed # {}      \* its flash_sales row is committed
Listed(a) == ItemsOf(a) \subseteq listed      \* ... and all of its items

\* GET /v1/flashsale/active: one query, of committed rows.
Active == {i \in listed : Open(i)}

\* Products that the creation of a, or the settlement run by w, has locked.
CreationHolds(a) ==
  IF Listed(a) THEN {} ELSE {ProductOf[Lines[a][n]] : n \in 1 .. creating[a]}
SettlementHolds(w) ==
  IF At(w, "return")
  THEN {ProductOf[i] : i \in {j \in Items : worker[w].unsold[j] > 0} \ worker[w].todo}
  ELSE {}
HoldsSale(w) == worker[w].at \in {"read", "return"}

-----------------------------------------------------------------------------
(* Creation, by the service or by the seed script: one loop, the same locks *)

\* The seed script creates its sales one at a time.
SeedsSales == seeder \in DOMAIN SEEDS /\ catalogue = Products
Due(a) == a \in Seeded => SeedsSales /\ SEEDS[seeder] = a
MoveOn(a) == seeder' = IF a \in Seeded THEN seeder + 1 ELSE seeder
StopOn(a) == seeder' = IF a \in Seeded THEN 1 ELSE seeder

ReserveLineUnlocked(a) ==                     \* mutant: no FOR UPDATE
  /\ catalogue = Products
  /\ ~Listed(a) /\ Due(a) /\ creating[a] < Len(Lines[a])
  /\ stock[ProductOf[Lines[a][creating[a] + 1]]] >= Quantity[Lines[a][creating[a] + 1]]
  /\ creating' = [creating EXCEPT ![a] = @ + 1]
  /\ UNCHANGED <<rows, catalogue, seeder, db, job, worker, faults>>

\* One turn of the loop: lock the product, take the units, insert the item.
\* If CHECK (stock >= 0) or the foreign key fails, AbortCreation is all that is
\* left.
ReserveLine(a) ==
  LET i == Lines[a][creating[a] + 1]
      p == ProductOf[i]
  IN
  /\ ~Exists(a) /\ Due(a) /\ creating[a] < Len(Lines[a])
  /\ p \in catalogue
  /\ \A b \in Sales \ {a} : p \notin CreationHolds(b)
  /\ \A w \in Workers : p \notin SettlementHolds(w)
  /\ stock[p] - Quantity[i] >= 0
  /\ creating' = [creating EXCEPT ![a] = @ + 1]
  /\ UNCHANGED <<rows, catalogue, seeder, db, job, worker, faults>>

UnitsOf(p, items) ==
  MapThenSumSet(LAMBDA i : Quantity[i], {i \in items : ProductOf[i] = p})

AbortCreationKeepsStock(a) ==                 \* mutant: taken outside the tx
  /\ ~Listed(a) /\ creating[a] > 0
  /\ creating' = [creating EXCEPT ![a] = 0]
  /\ stock' = [p \in Products |->
       IF p \in CreationHolds(a) /\ stock[p] > 0 THEN stock[p] - 1 ELSE stock[p]]
  /\ StopOn(a)
  /\ UNCHANGED <<rows, catalogue, settled, returned, job, worker, faults>>

AbortCreationKeepsItems(a) ==                 \* mutant: no transaction
  LET done == {Lines[a][n] : n \in 1 .. creating[a]} IN
  /\ ~Exists(a) /\ creating[a] > 0
  /\ Publish(done)
  /\ creating' = [creating EXCEPT ![a] = 0]
  /\ stock' = [p \in Products |-> stock[p] - UnitsOf(p, done)]
  /\ StopOn(a)
  /\ UNCHANGED <<catalogue, settled, returned, job, worker, faults>>

\* A rollback, which the seed script answers with exit(1).
AbortCreation(a) ==
  /\ ~Listed(a) /\ creating[a] > 0
  /\ creating' = [creating EXCEPT ![a] = 0]
  /\ StopOn(a)
  /\ UNCHANGED <<rows, catalogue, db, job, worker, faults>>

CommitCreationOnly(a) ==                      \* mutant: no settle row appended
  /\ ~Listed(a) /\ creating[a] = Len(Lines[a])
  /\ Publish(ItemsOf(a))
  /\ stock' = [p \in Products |-> stock[p] - UnitsOf(p, ItemsOf(a))]
  /\ MoveOn(a)
  /\ UNCHANGED <<catalogue, creating, settled, returned, job, worker, faults>>

\* The outbox rows commit with the sale; the seed script writes no settle row.
CommitCreation(a) ==
  /\ ~Listed(a) /\ creating[a] = Len(Lines[a])
  /\ Publish(ItemsOf(a))
  /\ stock' = [p \in Products |-> stock[p] - UnitsOf(p, ItemsOf(a))]
  /\ job' = IF a \in Seeded THEN job ELSE [job EXCEPT ![a].status = "PENDING"]
  /\ MoveOn(a)
  /\ UNCHANGED <<catalogue, creating, settled, returned, worker, faults>>

-----------------------------------------------------------------------------
(* The seed script                                                         *)

SeedProductAnew(p) ==                         \* mutant: the upsert overwrites
  /\ seeder = 1
  /\ catalogue' = catalogue \cup {p}
  /\ stock' = [stock EXCEPT ![p] = OpeningStock[p]]
  /\ UNCHANGED <<rows, creating, seeder, settled, returned, job, worker, faults>>

\* upsert with an empty update: a product that is there keeps its stock.
SeedProduct(p) ==
  /\ seeder = 1 /\ p \notin catalogue
  /\ catalogue' = catalogue \cup {p}
  /\ UNCHANGED <<rows, creating, seeder, db, job, worker, faults>>

\* The sale exists by its id: go on with the next one.
SeedNext ==
  /\ SeedsSales /\ Exists(SEEDS[seeder])
  /\ seeder' = seeder + 1
  /\ UNCHANGED <<rows, catalogue, creating, db, job, worker, faults>>

\* The script ends, is killed, or a query throws; the sale it was at is rolled
\* back.  It can be run again at any time, from its first line.
SeedEnds ==
  /\ seeder # 1
  /\ seeder' = 1
  /\ creating' = [a \in Sales |->
       IF a \in Seeded /\ ~Listed(a) THEN 0 ELSE creating[a]]
  /\ UNCHANGED <<rows, catalogue, db, job, worker, faults>>

-----------------------------------------------------------------------------
(* Settlement                                                              *)

ClaimEarly(w, a) ==                           \* mutant: visible_at not looked at
  /\ At(w, "idle")
  /\ job[a].status = "PENDING" /\ ~job[a].delayed
  /\ \A v \in Workers : worker[v].claim => Sale(v) # a
  /\ worker' = [worker EXCEPT ![w] =
                  [Rest EXCEPT !.at = "lock", !.sale = a, !.claim = TRUE]]
  /\ UNCHANGED <<rows, made, db, job, faults>>

\* The poller claims a due row that no other worker has locked (SKIP LOCKED).
Claim(w, a) ==
  /\ At(w, "idle")
  /\ job[a].status = "PENDING" /\ ~job[a].delayed
  /\ \A i \in ItemsOf(a) : EndsAt[i] <= now
  /\ \A v \in Workers : worker[v].claim => Sale(v) # a
  /\ worker' = [worker EXCEPT ![w] =
                  [Rest EXCEPT !.at = "lock", !.sale = a, !.claim = TRUE]]
  /\ UNCHANGED <<rows, made, db, job, faults>>

LockSaleAnyway(w) ==                          \* mutant: settled_at not looked at
  /\ At(w, "lock")
  /\ \A v \in Workers \ {w} : HoldsSale(v) => Sale(v) # Sale(w)
  /\ worker' = [worker EXCEPT ![w].at = "read"]
  /\ UNCHANGED <<rows, made, db, job, faults>>

\* SELECT settled_at ... FOR UPDATE; an already settled sale is a no-op.
LockSale(w) ==
  /\ At(w, "lock")
  /\ \A v \in Workers \ {w} : HoldsSale(v) => Sale(v) # Sale(w)
  /\ worker' = [worker EXCEPT ![w].at = IF Sale(w) \in settled THEN "mark" ELSE "read"]
  /\ UNCHANGED <<rows, made, db, job, faults>>

\* quantity - sold, of the committed rows.
UnsoldDirty(w) ==                             \* mutant: reads uncommitted rows
  [i \in Items |-> IF i \in ItemsOf(Sale(w))
                   THEN Quantity[i] - sold[i] - Cardinality({i} \cap busy) ELSE 0]
Unsold(w) ==
  [i \in Items |-> IF i \in ItemsOf(Sale(w)) THEN Quantity[i] - sold[i] ELSE 0]

\* SELECT ... WHERE quantity > sold takes no lock on the item rows.
ReadItems(w) ==
  LET left == Unsold(w) IN
  /\ At(w, "read")
  /\ worker' = [worker EXCEPT ![w].at = "return", ![w].unsold = left,
                              ![w].todo = {i \in Items : left[i] > 0}]
  /\ UNCHANGED <<rows, made, db, job, faults>>

\* UPDATE products SET stock = stock + unsold, once the row is free.
ReturnItem(w, i) ==
  /\ At(w, "return") /\ i \in worker[w].todo
  /\ \A a \in Sales : ProductOf[i] \notin CreationHolds(a)
  /\ \A v \in Workers \ {w} : ProductOf[i] \notin SettlementHolds(v)
  /\ worker' = [worker EXCEPT ![w].todo = @ \ {i}]
  /\ UNCHANGED <<rows, made, db, job, faults>>

\* settled_at is stamped and the handler's transaction commits; the
\* acknowledgement may be lost, which the worker takes for a failure.
CommitSettlement(w) ==
  /\ At(w, "return") /\ worker[w].todo = {}
  /\ settled' = settled \cup {Sale(w)}
  /\ returned' = [i \in Items |-> returned[i] + worker[w].unsold[i]]
  /\ stock' = [p \in Products |->
       stock[p] + MapThenSumSet(LAMBDA i : worker[w].unsold[i],
                                {i \in Items : ProductOf[i] = p})]
  /\ \E stage \in {"mark", "failed"} : worker' = [worker EXCEPT ![w].at = stage]
  /\ UNCHANGED <<rows, made, job, faults>>

AbortUnnoticed(w) ==                          \* mutant: the handler swallows it
  /\ worker[w].at \in {"lock", "read", "return"}
  /\ worker' = [worker EXCEPT ![w].at = "mark"]
  /\ UNCHANGED <<rows, made, db, job, faults>>

\* A timeout, deadlock or lost connection rolls the handler's work back.
AbortSettlement(w) ==
  /\ worker[w].at \in {"lock", "read", "return"}
  /\ worker' = [worker EXCEPT ![w].at = "failed"]
  /\ UNCHANGED <<rows, made, db, job, faults>>

\* The outbox row is updated and the claim commits.
Mark(w) ==
  /\ At(w, "mark") /\ worker[w].claim
  /\ job' = [job EXCEPT ![Sale(w)].status = "PROCESSED"]
  /\ worker' = [worker EXCEPT ![w] = Rest]
  /\ UNCHANGED <<rows, made, db, faults>>

RetryGivesUp(w) ==                            \* mutant: one attempt too few
  /\ At(w, "failed") /\ worker[w].claim
  /\ job' = [job EXCEPT ![Sale(w)].status = "DEAD_LETTER", ![Sale(w)].attempts = @ + 1]
  /\ worker' = [worker EXCEPT ![w] = Rest]
  /\ UNCHANGED <<rows, made, db, faults>>

\* The handler threw: one attempt more, then wait or give up.
Retry(w) ==
  LET n == job[Sale(w)].attempts + 1 IN
  /\ At(w, "failed") /\ worker[w].claim
  /\ job' = [job EXCEPT ![Sale(w)] =
       IF n >= MaxAttempts
       THEN [status |-> "DEAD_LETTER", attempts |-> n, delayed |-> FALSE]
       ELSE [status |-> "PENDING", attempts |-> n, delayed |-> TRUE]]
  /\ worker' = [worker EXCEPT ![w] = Rest]
  /\ UNCHANGED <<rows, made, db, faults>>

\* Without its claim the worker can update nothing: the tick rejects.
Drop(w) ==
  /\ worker[w].at \in {"mark", "failed"} /\ ~worker[w].claim
  /\ worker' = [worker EXCEPT ![w] = Rest]
  /\ UNCHANGED <<rows, made, db, job, faults>>

\* visible_at has come.
BackoffOver(a) ==
  /\ job[a].delayed
  /\ job' = [job EXCEPT ![a].delayed = FALSE]
  /\ UNCHANGED <<rows, made, db, worker, faults>>

\* The claim's transaction is rolled back while the handler runs on.
LoseClaim(w) ==
  /\ worker[w].claim /\ faults < MaxFaults
  /\ worker' = [worker EXCEPT ![w].claim = FALSE]
  /\ faults' = faults + 1
  /\ UNCHANGED <<rows, made, db, job>>

Crash(w) ==
  /\ ~At(w, "idle") /\ faults < MaxFaults
  /\ worker' = [worker EXCEPT ![w] = Rest]
  /\ faults' = faults + 1
  /\ UNCHANGED <<rows, made, db, job>>

-----------------------------------------------------------------------------
Buying ==
  /\ Tick \/ \E i \in Asked : Reserve(i) \/ Sell(i) \/ Release(i)
  /\ UNCHANGED <<made, db, job, worker, faults>>

Settle(w) ==
  \/ \E a \in Sales : Claim(w, a)
  \/ LockSale(w) \/ ReadItems(w) \/ CommitSettlement(w) \/ AbortSettlement(w)
  \/ \E i \in Items : ReturnItem(w, i)
  \/ Mark(w) \/ Retry(w) \/ Drop(w)

Next ==
  \/ \E a \in Sales : ReserveLine(a) \/ AbortCreation(a) \/ CommitCreation(a)
  \/ \E p \in Products : SeedProduct(p)
  \/ SeedNext \/ SeedEnds
  \/ Buying
  \/ \E w \in Workers : Settle(w) \/ LoseClaim(w) \/ Crash(w)
  \/ \E a \in Sales : BackoffOver(a)

Spec == Init /\ [][Next]_vars

\* The clock runs, visible_at comes, some worker is up and goes on (the same one
\* need not be), and lock and statement timeouts end the waits of a creation.
FairSpec ==
  /\ Spec
  /\ WF_vars(Tick /\ UNCHANGED <<made, db, job, worker, faults>>)
  /\ WF_vars(\E w \in Workers : Settle(w))
  /\ WF_vars(\E a \in Sales : BackoffOver(a))
  /\ \A a \in Sales : WF_vars(AbortCreation(a))

-----------------------------------------------------------------------------
(* What must hold                                                          *)

\* Types, and products.stock >= 0: parallel creations cannot promise a unit
\* twice, whatever locks they take in whatever order.
TypeOK ==
  /\ now \in 0 .. Horizon /\ listed \subseteq Items /\ busy \subseteq listed
  /\ sold \in [Items -> Nat] /\ stock \in [Products -> Nat]
  /\ creating \in [Sales -> Nat] /\ \A a \in Sales : creating[a] <= Len(Lines[a])
  /\ catalogue \subseteq Products /\ seeder \in 1 .. Len(SEEDS) + 1
  /\ settled \subseteq Sales /\ job \in [Sales -> Job]
  /\ worker \in [Workers -> [at : Stages, sale : Sales, claim : BOOLEAN,
                             unsold : [Items -> Nat], todo : SUBSET Items]]
  /\ faults \in 0 .. MaxFaults /\ returned \in [Items -> Nat]

\* The stock of a product is what it opened with, less the quantities of its
\* committed sale items, plus what settlements gave back: creations and
\* settlements of several sales that share products never lose an update, and
\* a rolled back one leaves nothing behind.
StockLedger ==
  \A p \in Products :
    stock[p] + UnitsOf(p, listed) =
      OpeningStock[p] + MapThenSumSet(LAMBDA i : returned[i],
                                      {i \in Items : ProductOf[i] = p})

\* A sale gives its units back once, though its settle row is delivered again
\* after a lost acknowledgement or by a second worker.
NoDoubleReturn ==
  \A a \in Sales : \A i \in ItemsOf(a) :
    returned[i] <= (IF a \in settled THEN Quantity[i] ELSE 0)

\* Once a sale is settled, every unit of it was sold or given back.
NoUnitLost ==
  \A a \in settled : \A i \in ItemsOf(a) : returned[i] + sold[i] >= Quantity[i]

\* What the listing offers can still be bought: none of the units it shows has
\* gone back to products.stock, nor will it before the window is over.  At the
\* instant of ends_at itself the listing and the settlement overlap.
OffersAreBacked ==
  \A i \in Active :
    now < EndsAt[i] => returned[i] = 0 /\ sold[i] <= Quantity[i]

\* The seed script checks that a sale exists by its id only.  When it has gone
\* past a sale, in its first run or in one after a crash, the sale is complete.
SeedIsComplete ==
  \A n \in DOMAIN SEEDS : n < seeder => Listed(SEEDS[n])

\* The settle row is marked PROCESSED only when its sale is settled.
ProcessedMeansSettled ==
  \A a \in Sales : job[a].status = "PROCESSED" => a \in settled

\* The settlement is one of the handlers the outbox delivers to: marked
\* PROCESSED only when the sale is settled, given up only after the last attempt.
Promise == INSTANCE Delivery WITH
  Events <- Sales, Handled <- Sales,
  status <- [a \in Sales |-> job[a].status],
  attempts <- [a \in Sales |-> job[a].attempts],
  effects <- [a \in Sales |-> IF a \in settled THEN 1 ELSE 0],
  losses <- faults
DeliverySpec == Promise!Spec

\* No sale of SaleCreationService stays unsettled: again and again all that are
\* there are settled, or their rows dead-lettered for an operator, through
\* aborts, backoffs and a bounded number of crashes.  The seeds have no settle
\* row: nothing ever settles them.
SaleIsSettled ==
  []<>(\A a \in Sales \ Seeded :
         Listed(a) => a \in settled \/ job[a].status = "DEAD_LETTER")

-----------------------------------------------------------------------------
(* What the repository says and the code does not do (see the README)      *)

\* docs/DESIGN.md 4.5 returns "each unsold item": a unit given back to stock is
\* not sold as well.
OnlyUnsoldReturned == \A i \in Items : returned[i] + sold[i] <= Quantity[i]

=============================================================================
