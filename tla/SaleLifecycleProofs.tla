------------------------ MODULE SaleLifecycleProofs -------------------------
(***************************************************************************)
(* Theorems of SaleLifecycle, for every number of sales, products, workers *)
(* and attempts, every order of the lines of a sale and of the seeds, and  *)
(* every quantity, stock, window and clock.                                *)
(***************************************************************************)
EXTENDS SaleLifecycle, SumTheorems

\* The assumption on the constants, in the parts the proofs below cite.
LEMMA Types ==
  /\ Sales # {} /\ IsFiniteSet(Items) /\ Asked \subseteq Items
  /\ ProductOf \in [Items -> Products] /\ OpeningStock \in [Products -> Nat]
  /\ Quantity \in [Items -> Nat \ {0}] /\ EndsAt \in [Items -> Nat]
  /\ Horizon \in Nat /\ MaxAttempts \in Nat \ {0} /\ MaxFaults \in Nat
BY LifecycleAssumption

\* The seeds are sales, in some order.
LEMMA SeedsType ==
  /\ Len(SEEDS) \in Nat /\ DOMAIN SEEDS = 1 .. Len(SEEDS)
  /\ \A n \in DOMAIN SEEDS : SEEDS[n] \in Sales /\ SEEDS[n] \in Seeded
<1>1. SEEDS \in Seq(Sales)
  BY LifecycleAssumption
<1> QED
  BY <1>1 DEF Seeded

\* A sale has lines, and they are items.
LEMMA LinesOfSale ==
  ASSUME NEW a \in Sales
  PROVE  /\ Len(Lines[a]) \in Nat \ {0} /\ DOMAIN Lines[a] = 1 .. Len(Lines[a])
         /\ \A n \in 1 .. Len(Lines[a]) : Lines[a][n] \in ItemsOf(a) /\ Lines[a][n] \in Items
         /\ ItemsOf(a) \subseteq Items /\ ItemsOf(a) # {} /\ IsFiniteSet(ItemsOf(a))
<1>1. Lines[a] \in Seq(Items) /\ Lines[a] # <<>>
  <2>1. Lines \in [Sales -> Seq(Items)] /\ \A b \in Sales : Lines[b] # <<>>
    BY LifecycleAssumption
  <2> QED
    BY <2>1
<1>2. Len(Lines[a]) \in Nat \ {0} /\ DOMAIN Lines[a] = 1 .. Len(Lines[a])
  BY <1>1
<1>3. \A n \in 1 .. Len(Lines[a]) : Lines[a][n] \in ItemsOf(a) /\ Lines[a][n] \in Items
  BY <1>1, <1>2 DEF ItemsOf
<1>4. ItemsOf(a) \subseteq Items
  BY <1>2, <1>3 DEF ItemsOf
<1>5. ItemsOf(a) # {}
  BY <1>2, <1>3
<1>6. IsFiniteSet(ItemsOf(a))
  BY <1>4, Types, FS_Subset
<1> QED
  BY <1>2, <1>3, <1>4, <1>5, <1>6

\* Items belong to one sale.
LEMMA SalesDisjoint ==
  ASSUME NEW a \in Sales, NEW b \in Sales, NEW i, i \in ItemsOf(a), i \in ItemsOf(b)
  PROVE  a = b
<1>1. \A x, y \in Sales : x # y => ItemsOf(x) \cap ItemsOf(y) = {}
  BY LifecycleAssumption
<1> QED
  BY <1>1

\* UNIQUE (flash_sale_id, product_id).
LEMMA ProductsDistinct ==
  ASSUME NEW a \in Sales, NEW m \in 1 .. Len(Lines[a]), NEW n \in 1 .. Len(Lines[a]),
         ProductOf[Lines[a][m]] = ProductOf[Lines[a][n]]
  PROVE  m = n
<1>1. \A b \in Sales : \A k, l \in DOMAIN Lines[b] :
        ProductOf[Lines[b][k]] = ProductOf[Lines[b][l]] => k = l
  BY LifecycleAssumption
<1> QED
  BY <1>1, LinesOfSale

\* The items of a product, among a set of items.
LEMMA OfProduct ==
  ASSUME NEW S \in SUBSET Items, NEW p
  PROVE  /\ IsFiniteSet({i \in S : ProductOf[i] = p})
         /\ UnitsOf(p, S) = SumOver(Quantity, {i \in S : ProductOf[i] = p})
         /\ UnitsOf(p, S) \in Nat
<1> DEFINE T == {i \in S : ProductOf[i] = p}
<1>1. IsFiniteSet(T)
  BY Types, FS_Subset
<1>2. UnitsOf(p, S) = SumOver(Quantity, T)
  BY DEF UnitsOf, SumOver
<1>3. SumOver(Quantity, T) \in Nat
  BY <1>1, Types, SumType
<1> QED
  BY <1>1, <1>2, <1>3

\* A product is at most once in a sale, so the sale takes one line's quantity of
\* it, or nothing.
LEMMA UnitsOfSale ==
  ASSUME NEW a \in Sales, NEW p
  PROVE  \/ \E n \in 1 .. Len(Lines[a]) :
              ProductOf[Lines[a][n]] = p /\ UnitsOf(p, ItemsOf(a)) = Quantity[Lines[a][n]]
         \/ /\ \A n \in 1 .. Len(Lines[a]) : ProductOf[Lines[a][n]] # p
            /\ UnitsOf(p, ItemsOf(a)) = 0
<1> DEFINE T == {i \in ItemsOf(a) : ProductOf[i] = p}
<1>1. UnitsOf(p, ItemsOf(a)) = SumOver(Quantity, T)
  BY LinesOfSale, OfProduct
<1>2. CASE T = {}
  BY <1>1, <1>2, SumEmpty, LinesOfSale
<1>3. CASE T # {}
  <2>1. PICK n \in 1 .. Len(Lines[a]) : Lines[a][n] \in T
    BY <1>3, LinesOfSale DEF ItemsOf
  <2> DEFINE i == Lines[a][n]
  <2>2. i \in Items /\ ProductOf[i] = p
    BY <2>1, LinesOfSale
  <2>3. T = {i}
    <3>1. ASSUME NEW j \in T PROVE j = i
      <4>1. PICK m \in 1 .. Len(Lines[a]) : j = Lines[a][m]
        BY LinesOfSale DEF ItemsOf
      <4> QED
        BY <2>2, <4>1, ProductsDistinct
    <3> QED
      BY <2>1, <3>1
  <2>4. SumOver(Quantity, {i}) = Quantity[i]
    <3>1. Quantity[i] \in Int
      BY <2>2, Types
    <3> HIDE DEF i
    <3> QED
      BY <3>1, SumSingle
  <2> QED
    BY <1>1, <2>2, <2>3, <2>4
<1> QED
  BY <1>2, <1>3

-----------------------------------------------------------------------------
(* The inductive invariant                                                 *)

\* A locked row has a unit left.
SoldWithin ==
  \A i \in Items : sold[i] <= Quantity[i] /\ (i \in busy => sold[i] < Quantity[i])

\* A sale is there with all of its items or not at all.
WholeSales == \A a \in Sales : Exists(a) => Listed(a)

\* What a creation has taken is still in stock, and no other has taken it.
LinesReserved ==
  \A a \in Sales : ~Listed(a) => \A n \in 1 .. creating[a] :
    stock[ProductOf[Lines[a][n]]] >= Quantity[Lines[a][n]]
CreationsApart ==
  \A a, b \in Sales : a # b => CreationHolds(a) \cap CreationHolds(b) = {}

\* The seed script has only the sale it is at in the making.
SeederAt ==
  \A a \in Seeded : ~Listed(a) /\ creating[a] > 0 =>
    seeder \in DOMAIN SEEDS /\ SEEDS[seeder] = a

\* A settle row is appended with its sale, and waits while attempts are left.
JobsOfSales ==
  \A a \in Sales :
    /\ job[a].status = "NONE" => job[a].attempts = 0
    /\ job[a].status = "PENDING" => job[a].attempts < MaxAttempts
    /\ job[a].status # "NONE" => Listed(a)

\* SKIP LOCKED gives a row to one claim; SELECT ... FOR UPDATE a sale to one
\* handler.  The first can be lost while the second is held.
ClaimsApart ==
  \A v, w \in Workers : worker[v].claim /\ worker[w].claim /\ Sale(v) = Sale(w) => v = w
ClaimsPending == \A w \in Workers : worker[w].claim => job[Sale(w)].status = "PENDING"
SalesApart ==
  \A v, w \in Workers : HoldsSale(v) /\ HoldsSale(w) /\ Sale(v) = Sale(w) => v = w

\* Only a sale that is over is settled.
Over(a) == \A i \in ItemsOf(a) : EndsAt[i] <= now
SettledAreOver == \A a \in settled : Over(a)
HandledAreOver ==
  \A w \in Workers : ~At(w, "idle") => Over(Sale(w)) /\ job[Sale(w)].status # "NONE"

\* What a settlement has read: the sale is not settled, and what it took for
\* unsold is at least what is unsold now.
ReadsHold ==
  \A w \in Workers :
    /\ HoldsSale(w) => Sale(w) \notin settled
    /\ At(w, "mark") => Sale(w) \in settled
    /\ At(w, "return") => \A i \in Items :
         /\ worker[w].unsold[i] <= Quantity[i]
         /\ i \in ItemsOf(Sale(w)) => worker[w].unsold[i] + sold[i] >= Quantity[i]
         /\ i \notin ItemsOf(Sale(w)) => worker[w].unsold[i] = 0

\* Units came back from settled sales only.
ReturnedOnce ==
  \A i \in Items : returned[i] # 0 =>
    returned[i] <= Quantity[i] /\ \E a \in settled : i \in ItemsOf(a)

Stocked ==
  /\ SoldWithin /\ WholeSales /\ LinesReserved /\ CreationsApart
  /\ SeederAt /\ SeedIsComplete /\ StockLedger

Settling ==
  /\ JobsOfSales /\ ClaimsApart /\ ClaimsPending /\ SalesApart
  /\ SettledAreOver /\ HandledAreOver /\ ReadsHold
  /\ ReturnedOnce /\ NoUnitLost /\ ProcessedMeansSettled

IInv == TypeOK /\ Stocked /\ Settling

WorkerState == [at : Stages, sale : Sales, claim : BOOLEAN,
                unsold : [Items -> Nat], todo : SUBSET Items]

\* A worker at rest holds nothing.
LEMMA RestType == Rest \in WorkerState /\ Rest.at = "idle" /\ Rest.claim = FALSE
<1>1. (CHOOSE a \in Sales : TRUE) \in Sales
  BY Types
<1> QED
  BY <1>1 DEF Rest, WorkerState, Stages, Nothing

\* The ledger, as a relation of its three columns.
Balanced(st, li, back) ==
  \A p \in Products :
    st[p] + SumOver(Quantity, {i \in li : ProductOf[i] = p}) =
      OpeningStock[p] + SumOver(back, {i \in Items : ProductOf[i] = p})

\* StockLedger, as a fact about values, before and after a step.
LEMMA LedgerBalanced ==
  /\ StockLedger <=> Balanced(stock, listed, returned)
  /\ StockLedger' <=> Balanced(stock', listed', returned')
<1>1. StockLedger <=> Balanced(stock, listed, returned)
  BY DEF StockLedger, Balanced, UnitsOf, SumOver
<1>2. StockLedger' <=> Balanced(stock, listed, returned)'
  BY <1>1, PTL
<1>3. Balanced(stock, listed, returned)' <=> Balanced(stock', listed', returned')
  BY DEF Balanced
<1> QED
  BY <1>1, <1>2, <1>3

\* At first nothing is created, listed or settled.
LEMMA InitIInv == Init => IInv
<1> SUFFICES ASSUME Init PROVE IInv
  OBVIOUS
<1> USE Types DEF Init, RowsInit
<1>1. TypeOK
  <2>1. seeder \in 1 .. Len(SEEDS) + 1
    BY SeedsType
  <2>2. worker \in [Workers -> WorkerState]
    BY RestType
  <2>3. creating \in [Sales -> Nat] /\ \A a \in Sales : creating[a] <= Len(Lines[a])
    BY LinesOfSale
  <2>4. job \in [Sales -> Job]
    BY DEF Job, JobStatus
  <2> QED
    BY <2>1, <2>2, <2>3, <2>4 DEF TypeOK, WorkerState, Nothing
<1>2. \A w \in Workers : worker[w].at = "idle" /\ worker[w].claim = FALSE
  BY RestType
<1>3. SoldWithin /\ WholeSales /\ LinesReserved /\ CreationsApart /\ SeederAt
  <2>1. \A a \in Sales : creating[a] = 0
    OBVIOUS
  <2>2. \A a \in Sales : CreationHolds(a) = {}
    BY <2>1 DEF CreationHolds
  <2>3. \A a \in Sales : ~Exists(a)
    BY DEF Exists
  <2>4. \A a \in Seeded : a \in Sales
    BY SeedsType DEF Seeded
  <2> QED
    BY <2>1, <2>2, <2>3, <2>4
       DEF SoldWithin, WholeSales, LinesReserved, CreationsApart, SeederAt
<1>4. SeedIsComplete
  BY SeedsType DEF SeedIsComplete
<1>5. StockLedger
  <2>1. ASSUME NEW p \in Products
        PROVE  stock[p] + SumOver(Quantity, {i \in {} : ProductOf[i] = p}) =
                 OpeningStock[p] + SumOver(returned, {i \in Items : ProductOf[i] = p})
    <3> DEFINE S == {i \in Items : ProductOf[i] = p}
    <3>1. {i \in {} : ProductOf[i] = p} = {}
      OBVIOUS
    <3>2. IsFiniteSet(S) /\ \A i \in S : returned[i] = 0
      BY FS_Subset DEF Nothing
    <3>3. SumOver(returned, S) = 0 /\ SumOver(Quantity, {}) = 0
      BY <3>2, SumZero, SumEmpty
    <3> QED
      BY <3>1, <3>3
  <2> QED
    BY <2>1, LedgerBalanced DEF Balanced
<1>6. Settling
  <2>1. \A a \in Sales : job[a].status = "NONE" /\ job[a].attempts = 0
    OBVIOUS
  <2>2. \A i \in Items : returned[i] = 0
    BY DEF Nothing
  <2> QED
    BY <1>2, <2>1, <2>2
       DEF Settling, JobsOfSales, ClaimsApart, ClaimsPending, SalesApart, SettledAreOver,
           HandledAreOver, ReadsHold, ReturnedOnce, NoUnitLost, ProcessedMeansSettled,
           At, HoldsSale
<1> QED
  BY <1>1, <1>3, <1>4, <1>5, <1>6 DEF IInv, Stocked

-----------------------------------------------------------------------------
(* Types                                                                   *)

\* Moving a worker keeps the types of the workers.
LEMMA WorkerType ==
  ASSUME TypeOK, NEW w \in Workers, NEW x \in WorkerState,
         worker' = [worker EXCEPT ![w] = x]
  PROVE  worker' \in [Workers -> WorkerState]
BY DEF TypeOK, WorkerState

\* A settlement's steps keep the types.
LEMMA SettleType ==
  ASSUME IInv, NEW w \in Workers, Settle(w) \/ LoseClaim(w) \/ Crash(w)
  PROVE  TypeOK'
<1> USE Types, RestType DEF made, db, rows
<1>0. /\ TypeOK /\ worker \in [Workers -> WorkerState]
      /\ worker[w] \in WorkerState /\ Sale(w) \in Sales
  BY DEF IInv, TypeOK, WorkerState, Sale
<1>1. ASSUME NEW a \in Sales, Claim(w, a) PROVE TypeOK'
  <2>1. [Rest EXCEPT !.at = "lock", !.sale = a, !.claim = TRUE] \in WorkerState
    BY DEF WorkerState, Stages
  <2> QED
    BY <1>0, <1>1, <2>1, WorkerType DEF Claim, TypeOK, WorkerState
<1>2. CASE LockSale(w) \/ AbortSettlement(w)
  <2>1. PICK stage \in Stages : worker' = [worker EXCEPT ![w].at = stage]
    BY <1>2 DEF LockSale, AbortSettlement, Stages
  <2>2. worker' \in [Workers -> WorkerState]
    BY <1>0, <2>1 DEF WorkerState
  <2> QED
    BY <1>0, <1>2, <2>2 DEF LockSale, AbortSettlement, TypeOK, WorkerState
<1>3. CASE ReadItems(w)
  <2>1. \A i \in Items : sold[i] <= Quantity[i] /\ sold[i] \in Nat /\ Quantity[i] \in Nat
    BY <1>0 DEF IInv, Stocked, SoldWithin, TypeOK
  <2>2. Unsold(w) \in [Items -> Nat]
    BY <2>1 DEF Unsold
  <2>3. worker' \in [Workers -> WorkerState]
    BY <1>0, <1>3, <2>2 DEF ReadItems, WorkerState, Stages
  <2> QED
    BY <1>0, <1>3, <2>3 DEF ReadItems, TypeOK, WorkerState
<1>4. ASSUME NEW i \in Items, ReturnItem(w, i) PROVE TypeOK'
  <2>1. worker' \in [Workers -> WorkerState]
    BY <1>0, <1>4 DEF ReturnItem, WorkerState
  <2> QED
    BY <1>0, <1>4, <2>1 DEF ReturnItem, TypeOK, WorkerState
<1>5. CASE CommitSettlement(w)
  <2>1. PICK stage \in Stages : worker' = [worker EXCEPT ![w].at = stage]
    BY <1>5 DEF CommitSettlement, Stages
  <2>2. worker' \in [Workers -> WorkerState]
    BY <1>0, <2>1 DEF WorkerState
  <2>3. worker[w].unsold \in [Items -> Nat]
    BY <1>0 DEF WorkerState
  <2>4. ASSUME NEW p \in Products
        PROVE  MapThenSumSet(LAMBDA i : worker[w].unsold[i], {i \in Items : ProductOf[i] = p}) \in Nat
    <3> DEFINE S == {i \in Items : ProductOf[i] = p}
    <3>1. IsFiniteSet(S) /\ \A i \in S : worker[w].unsold[i] \in Nat
      BY <2>3, FS_Subset
    <3>2. SumOver(worker[w].unsold, S) \in Nat
      BY <3>1, SumType
    <3> QED
      BY <3>2 DEF SumOver
  <2>5. stock' \in [Products -> Nat]
    <3> DEFINE back(p) == MapThenSumSet(LAMBDA i : worker[w].unsold[i],
                                        {i \in Items : ProductOf[i] = p})
    <3>1. \A p \in Products : back(p) \in Nat
      BY <2>4
    <3>2. stock' = [p \in Products |-> stock[p] + back(p)]
      BY <1>5 DEF CommitSettlement
    <3>3. stock \in [Products -> Nat]
      BY <1>0 DEF TypeOK
    <3> HIDE DEF back
    <3> QED
      BY <3>1, <3>2, <3>3
  <2>6. returned' \in [Items -> Nat]
    BY <1>0, <1>5, <2>3 DEF CommitSettlement, TypeOK
  <2>7. settled' \subseteq Sales
    BY <1>0, <1>5 DEF CommitSettlement, TypeOK
  <2>8. UNCHANGED <<now, listed, sold, busy, catalogue, creating, seeder, job, faults>>
    BY <1>5 DEF CommitSettlement
  <2> QED
    BY <1>0, <2>2, <2>5, <2>6, <2>7, <2>8 DEF TypeOK, WorkerState
<1>6. CASE Mark(w) \/ Retry(w) \/ Drop(w) \/ Crash(w)
  <2>1. worker' \in [Workers -> WorkerState]
    BY <1>0, <1>6, WorkerType DEF Mark, Retry, Drop, Crash
  <2>2. job' \in [Sales -> Job]
    <3>1. CASE Retry(w)
      <4>1. job[Sale(w)].status = "PENDING"
        BY <3>1 DEF IInv, Settling, ClaimsPending, Retry
      <4>2. job[Sale(w)].attempts < MaxAttempts /\ job[Sale(w)].attempts \in 0 .. MaxAttempts
        BY <1>0, <4>1 DEF IInv, Settling, JobsOfSales, TypeOK, Job
      <4>3. job[Sale(w)].attempts + 1 \in 0 .. MaxAttempts
        BY <4>2
      <4> QED
        BY <1>0, <3>1, <4>3 DEF Retry, TypeOK, Job, JobStatus
    <3>2. CASE Mark(w)
      BY <1>0, <3>2 DEF Mark, TypeOK, Job, JobStatus
    <3>3. CASE Drop(w) \/ Crash(w)
      BY <1>0, <3>3 DEF Drop, Crash, TypeOK
    <3> QED
      BY <1>6, <3>1, <3>2, <3>3
  <2>3. faults' \in 0 .. MaxFaults
    BY <1>0, <1>6 DEF Mark, Retry, Drop, Crash, TypeOK
  <2> QED
    BY <1>0, <1>6, <2>1, <2>2, <2>3 DEF Mark, Retry, Drop, Crash, TypeOK, WorkerState
<1>7. CASE LoseClaim(w)
  <2>1. worker' \in [Workers -> WorkerState]
    BY <1>0, <1>7 DEF LoseClaim, WorkerState
  <2>2. faults' \in 0 .. MaxFaults
    BY <1>0, <1>7 DEF LoseClaim, TypeOK
  <2> QED
    BY <1>0, <1>7, <2>1, <2>2 DEF LoseClaim, TypeOK, WorkerState
<1> QED
  BY <1>1, <1>2, <1>3, <1>4, <1>5, <1>6, <1>7 DEF Settle

\* The units a creation commits were in stock, and are still.
LEMMA CommitStock ==
  ASSUME TypeOK, LinesReserved, NEW a \in Sales, CommitCreation(a), NEW p \in Products
  PROVE  /\ UnitsOf(p, ItemsOf(a)) \in Nat /\ stock[p] \in Nat
         /\ stock'[p] = stock[p] - UnitsOf(p, ItemsOf(a)) /\ stock'[p] \in Nat
<1>1. stock[p] \in Nat /\ stock'[p] = stock[p] - UnitsOf(p, ItemsOf(a))
  BY DEF TypeOK, CommitCreation
<1>2. UnitsOf(p, ItemsOf(a)) \in Nat
  BY LinesOfSale, OfProduct
<1>3. CASE UnitsOf(p, ItemsOf(a)) = 0
  BY <1>1, <1>3
<1>4. ASSUME NEW n \in 1 .. Len(Lines[a]),
             ProductOf[Lines[a][n]] = p, UnitsOf(p, ItemsOf(a)) = Quantity[Lines[a][n]]
      PROVE  stock'[p] \in Nat
  <2>1. stock[p] >= Quantity[Lines[a][n]]
    BY <1>4 DEF LinesReserved, CommitCreation
  <2> QED
    BY <1>1, <1>2, <1>4, <2>1
<1> QED
  BY <1>1, <1>2, <1>3, <1>4, UnitsOfSale

\* The creation of a seed is the one the seed script is at.
LEMMA SeederMoves ==
  ASSUME TypeOK, SeederAt, NEW a \in Sales, ~Listed(a), creating[a] > 0
  PROVE  /\ MoveOn(a) => seeder' \in 1 .. Len(SEEDS) + 1
         /\ StopOn(a) => seeder' \in 1 .. Len(SEEDS) + 1
         /\ a \in Seeded => seeder \in DOMAIN SEEDS /\ SEEDS[seeder] = a
<1>1. seeder \in 1 .. Len(SEEDS) + 1 /\ Len(SEEDS) \in Nat
  BY SeedsType DEF TypeOK
<1>2. a \in Seeded => seeder \in 1 .. Len(SEEDS) /\ SEEDS[seeder] = a
  BY SeedsType DEF SeederAt
<1>3. MoveOn(a) => seeder' \in 1 .. Len(SEEDS) + 1
  BY <1>1, <1>2 DEF MoveOn
<1>4. StopOn(a) => seeder' \in 1 .. Len(SEEDS) + 1
  BY <1>1 DEF StopOn
<1> QED
  BY <1>2, <1>3, <1>4, SeedsType

\* Every step of the program keeps the types.
LEMMA TypeStep == IInv /\ [Next]_vars => TypeOK'
<1> SUFFICES ASSUME IInv, [Next]_vars PROVE TypeOK'
  OBVIOUS
<1>0. TypeOK /\ Stocked
  BY DEF IInv
<1> USE DEF made, db, rows
<1>1. ASSUME NEW a \in Sales, ReserveLine(a) PROVE TypeOK'
  <2>1. creating[a] + 1 <= Len(Lines[a])
    BY <1>0, <1>1, LinesOfSale DEF ReserveLine, TypeOK
  <2>2. creating' \in [Sales -> Nat] /\ \A b \in Sales : creating'[b] <= Len(Lines[b])
    BY <1>0, <1>1, <2>1 DEF ReserveLine, TypeOK
  <2> QED
    BY <1>0, <1>1, <2>2 DEF ReserveLine, TypeOK
<1>2. ASSUME NEW a \in Sales, AbortCreation(a) PROVE TypeOK'
  <2>1. creating' \in [Sales -> Nat] /\ \A b \in Sales : creating'[b] <= Len(Lines[b])
    BY <1>0, <1>2, LinesOfSale DEF AbortCreation, TypeOK
  <2>2. seeder' \in 1 .. Len(SEEDS) + 1
    BY <1>0, <1>2, SeederMoves DEF AbortCreation, Stocked
  <2> QED
    BY <1>0, <1>2, <2>1, <2>2 DEF AbortCreation, TypeOK
<1>3. ASSUME NEW a \in Sales, CommitCreation(a) PROVE TypeOK'
  <2>1. creating[a] > 0 /\ ~Listed(a)
    BY <1>3, LinesOfSale DEF CommitCreation
  <2>2. seeder' \in 1 .. Len(SEEDS) + 1
    BY <1>0, <1>3, <2>1, SeederMoves DEF CommitCreation, Stocked
  <2>3. stock' \in [Products -> Nat]
    <3> DEFINE left(p) == stock[p] - UnitsOf(p, ItemsOf(a))
    <3>1. stock' = [p \in Products |-> left(p)]
      BY <1>3 DEF CommitCreation
    <3>2. \A p \in Products : stock'[p] \in Nat
      BY <1>0, <1>3, CommitStock DEF Stocked
    <3> HIDE DEF left
    <3> QED
      BY <3>1, <3>2
  <2>4. listed' \subseteq Items /\ busy' \subseteq listed' /\ UNCHANGED <<now, sold>>
    BY <1>0, <1>3 DEF CommitCreation, Publish, TypeOK
  <2>5. job' \in [Sales -> Job]
    BY <1>0, <1>3 DEF CommitCreation, TypeOK, Job, JobStatus
  <2> QED
    BY <1>0, <1>3, <2>2, <2>3, <2>4, <2>5 DEF CommitCreation, TypeOK
<1>4. ASSUME NEW p \in Products, SeedProduct(p) PROVE TypeOK'
  BY <1>0, <1>4 DEF SeedProduct, TypeOK
<1>5. CASE SeedNext
  <2>1. seeder \in 1 .. Len(SEEDS) /\ seeder' = seeder + 1
    BY <1>5, SeedsType DEF SeedNext, SeedsSales
  <2>2. seeder' \in 1 .. Len(SEEDS) + 1
    BY <2>1, SeedsType
  <2> QED
    BY <1>0, <1>5, <2>2 DEF SeedNext, TypeOK
<1>6. CASE SeedEnds
  <2>1. creating' \in [Sales -> Nat] /\ \A b \in Sales : creating'[b] <= Len(Lines[b])
    BY <1>0, <1>6, LinesOfSale DEF SeedEnds, TypeOK
  <2>2. seeder' \in 1 .. Len(SEEDS) + 1
    BY <1>6, SeedsType DEF SeedEnds
  <2> QED
    BY <1>0, <1>6, <2>1, <2>2 DEF SeedEnds, TypeOK
<1>7. CASE Buying
  <2>1. CASE Tick
    <3>1. now' \in 0 .. Horizon
      BY <1>0, <2>1, Types DEF Tick, TypeOK
    <3> QED
      BY <1>0, <1>7, <2>1, <3>1 DEF Buying, Tick, TypeOK
  <2>2. ASSUME NEW i \in Asked, Reserve(i) \/ Sell(i) \/ Release(i) PROVE TypeOK'
    <3>1. /\ sold' \in [Items -> Nat] /\ busy' \subseteq listed
          /\ UNCHANGED <<now, listed>>
      <4>1. i \in Items /\ sold \in [Items -> Nat] /\ busy \subseteq listed
        BY <1>0, Types DEF TypeOK
      <4>2. CASE Reserve(i)
        BY <4>1, <4>2 DEF Reserve
      <4>3. CASE Sell(i)
        BY <4>1, <4>3 DEF Sell
      <4>4. CASE Release(i)
        BY <4>1, <4>4 DEF Release
      <4> QED
        BY <2>2, <4>2, <4>3, <4>4
    <3> QED
      BY <1>0, <1>7, <3>1 DEF Buying, TypeOK
  <2> QED
    BY <1>7, <2>1, <2>2 DEF Buying
<1>8. ASSUME NEW a \in Sales, BackoffOver(a) PROVE TypeOK'
  <2>1. job' \in [Sales -> Job]
    BY <1>0, <1>8 DEF BackoffOver, TypeOK, Job
  <2> QED
    BY <1>0, <1>8, <2>1 DEF BackoffOver, TypeOK
<1>9. CASE UNCHANGED vars
  BY <1>0, <1>9 DEF vars, TypeOK
<1> QED
  BY <1>1, <1>2, <1>3, <1>4, <1>5, <1>6, <1>7, <1>8, <1>9, SettleType DEF Next

-----------------------------------------------------------------------------
(* The rows, the stock and the creations                                   *)

\* Steps that leave them alone, or only give up what was reserved.
LEMMA QuietStocked ==
  ASSUME Stocked, UNCHANGED <<rows, stock, returned, seeder>>,
         \A a \in Sales : creating'[a] = creating[a]
  PROVE  Stocked'
<1> USE DEF Stocked, rows
<1>1. \A a \in Sales : /\ Listed(a)' = Listed(a) /\ Exists(a)' = Exists(a)
                       /\ CreationHolds(a)' = CreationHolds(a)
  BY DEF Listed, Exists, CreationHolds
<1>2. SoldWithin' /\ StockLedger'
  BY LedgerBalanced DEF SoldWithin
<1>3. WholeSales' /\ CreationsApart'
  BY <1>1 DEF WholeSales, CreationsApart
<1>4. LinesReserved'
  BY <1>1 DEF LinesReserved
<1>5. SeederAt' /\ SeedIsComplete'
  <2>1. \A a \in Seeded : a \in Sales
    BY SeedsType DEF Seeded
  <2> QED
    BY <1>1, <2>1, SeedsType DEF SeederAt, SeedIsComplete
<1> QED
  BY <1>2, <1>3, <1>4, <1>5

\* A creation reserves one line: the product row it locks has the stock it takes.
LEMMA ReserveLineStep ==
  ASSUME IInv, TypeOK', NEW a \in Sales, ReserveLine(a) PROVE Stocked'
<1> DEFINE n == creating[a] + 1
           p == ProductOf[Lines[a][n]]
<1> USE DEF IInv, Stocked, TypeOK, made, db, rows
<1>1. /\ ~Exists(a) /\ Due(a) /\ n \in 1 .. Len(Lines[a])
      /\ \A b \in Sales \ {a} : p \notin CreationHolds(b)
      /\ stock[p] - Quantity[Lines[a][n]] >= 0
      /\ creating' = [creating EXCEPT ![a] = n]
      /\ UNCHANGED <<rows, stock, returned, seeder>>
  BY LinesOfSale DEF ReserveLine
<1>2. \A b \in Sales : Listed(b)' = Listed(b) /\ Exists(b)' = Exists(b)
  BY <1>1 DEF Listed, Exists
<1>3. ~Listed(a)
  BY <1>1, LinesOfSale DEF Exists, Listed
<1>4. \A b \in Sales \ {a} : CreationHolds(b)' = CreationHolds(b)
  BY <1>1, <1>2 DEF CreationHolds
<1>5. CreationHolds(a)' \subseteq CreationHolds(a) \cup {p}
  <2>1. creating'[a] = creating[a] + 1 /\ creating[a] \in Nat
    BY <1>1
  <2>2. \A m \in 1 .. creating'[a] : m \in 1 .. creating[a] \/ m = n
    BY <2>1
  <2> HIDE DEF n, p
  <2> QED
    BY <1>2, <1>3, <2>2 DEF CreationHolds, p
<1>6. CreationsApart'
  BY <1>1, <1>4, <1>5 DEF CreationsApart
<1>7. LinesReserved'
  <2>1. ASSUME NEW b \in Sales, ~Listed(b), NEW m \in 1 .. creating'[b]
        PROVE  stock[ProductOf[Lines[b][m]]] >= Quantity[Lines[b][m]]
    <3>1. CASE m \in 1 .. creating[b]
      BY <2>1, <3>1 DEF LinesReserved
    <3>2. CASE m \notin 1 .. creating[b]
      <4>1. b = a /\ m = n
        BY <1>1, <2>1, <3>2
      <4>2. stock[p] \in Nat /\ Quantity[Lines[a][n]] \in Nat
        <5>1. Lines[a][n] \in Items
          BY <1>1, LinesOfSale
        <5> QED
          BY <5>1, Types
      <4> HIDE DEF n
      <4> QED
        BY <1>1, <4>1, <4>2
    <3> QED
      BY <3>1, <3>2
  <2> QED
    BY <1>1, <1>2, <2>1 DEF LinesReserved
<1>8. SeederAt' /\ SeedIsComplete'
  <2>1. \A b \in Seeded : b \in Sales
    BY SeedsType DEF Seeded
  <2>2. a \in Seeded => seeder \in DOMAIN SEEDS /\ SEEDS[seeder] = a
    BY <1>1 DEF Due, SeedsSales
  <2>3. SeederAt'
    BY <1>1, <1>2, <2>1, <2>2 DEF SeederAt
  <2> QED
    BY <1>1, <1>2, <2>3, SeedsType DEF SeedIsComplete
<1>9. SoldWithin' /\ WholeSales' /\ StockLedger'
  BY <1>1, <1>2, LedgerBalanced DEF SoldWithin, WholeSales
<1> QED
  BY <1>6, <1>7, <1>8, <1>9

\* Creations that are given up: those of some sales, all the seeds' if the
\* script starts again.
LEMMA GiveUpStep ==
  ASSUME IInv, UNCHANGED <<rows, stock, returned>>,
         \A a \in Sales : ~Listed(a) => creating'[a] \in {0, creating[a]},
         \/ UNCHANGED seeder
         \/ /\ seeder' = 1
            /\ \A a \in Seeded : ~Listed(a) => creating'[a] = 0
  PROVE  Stocked'
<1> USE DEF IInv, Stocked, rows
<1>1. \A a \in Sales : Listed(a)' = Listed(a) /\ Exists(a)' = Exists(a)
  BY DEF Listed, Exists
<1>2. \A a \in Sales : CreationHolds(a)' \subseteq CreationHolds(a)
  BY <1>1 DEF CreationHolds
<1>3. SoldWithin' /\ StockLedger' /\ WholeSales'
  BY <1>1, LedgerBalanced DEF SoldWithin, WholeSales
<1>4. CreationsApart'
  BY <1>2 DEF CreationsApart
<1>5. LinesReserved'
  <2>1. \A a \in Sales : ~Listed(a) => 1 .. creating'[a] \subseteq 1 .. creating[a]
    OBVIOUS
  <2> QED
    BY <1>1, <2>1 DEF LinesReserved
<1>6. \A a \in Seeded : a \in Sales
  BY SeedsType DEF Seeded
<1>7. SeederAt'
  BY <1>1, <1>6 DEF SeederAt
<1>8. SeedIsComplete'
  <2>1. seeder' = 1 \/ seeder' = seeder
    OBVIOUS
  <2>2. \A n \in DOMAIN SEEDS : ~(n < 1)
    BY SeedsType
  <2> QED
    BY <1>1, <2>1, <2>2, SeedsType DEF SeedIsComplete
<1> QED
  BY <1>3, <1>4, <1>5, <1>7, <1>8

\* Publishing a sale adds the units of its items to the listed ones.
LEMMA UnitsPublished ==
  ASSUME TypeOK, NEW a \in Sales, CommitCreation(a), NEW p
  PROVE  SumOver(Quantity, {i \in listed' : ProductOf[i] = p}) =
           SumOver(Quantity, {i \in listed : ProductOf[i] = p}) + UnitsOf(p, ItemsOf(a))
<1> DEFINE old == {i \in listed : ProductOf[i] = p}
           new == {i \in ItemsOf(a) : ProductOf[i] = p}
<1>1. listed \subseteq Items /\ ItemsOf(a) \subseteq Items \ listed
      /\ listed' = listed \cup ItemsOf(a)
  BY DEF TypeOK, CommitCreation, Publish
<1>2. IsFiniteSet(old) /\ IsFiniteSet(new) /\ UnitsOf(p, ItemsOf(a)) = SumOver(Quantity, new)
  BY <1>1, OfProduct
<1>3. old \cap new = {} /\ {i \in listed' : ProductOf[i] = p} = old \cup new
  BY <1>1
<1>4. \A i \in old \cup new : Quantity[i] \in Int
  BY <1>1, Types
<1> HIDE DEF old, new
<1>5. SumOver(Quantity, old \cup new) = SumOver(Quantity, old) + SumOver(Quantity, new)
  BY <1>2, <1>3, <1>4, SumUnion
<1> QED
  BY <1>2, <1>3, <1>5 DEF old

\* A creation commits: its items are listed, and their units leave the stock.
LEMMA CommitCreationStep ==
  ASSUME IInv, TypeOK', NEW a \in Sales, CommitCreation(a) PROVE Stocked'
<1> USE DEF IInv, Stocked
<1>0. TypeOK
  OBVIOUS
<1>1. /\ ~Listed(a) /\ creating[a] = Len(Lines[a]) /\ creating' = creating
      /\ listed' = listed \cup ItemsOf(a) /\ MoveOn(a)
      /\ UNCHANGED <<now, sold, busy, returned>>
  BY DEF CommitCreation, Publish
<1>2. \A b \in Sales : Listed(b) => Listed(b)'
  BY <1>1 DEF Listed
<1>3. Listed(a)' /\ creating[a] > 0
  BY <1>1, LinesOfSale DEF Listed
<1>4. WholeSales'
  <2>1. ASSUME NEW b \in Sales, Exists(b)' PROVE Listed(b)'
    <3>1. CASE Exists(b)
      BY <1>2, <3>1 DEF WholeSales
    <3>2. CASE ~Exists(b)
      <4>1. PICK i : i \in ItemsOf(b) /\ i \in ItemsOf(a)
        <5>1. PICK i : i \in ItemsOf(b) /\ i \in listed'
          BY <2>1 DEF Exists
        <5>2. i \notin listed
          BY <3>2, <5>1 DEF Exists
        <5> QED
          BY <1>1, <5>1, <5>2
      <4>2. a = b
        BY <4>1, SalesDisjoint
      <4> QED
        BY <1>3, <4>2
    <3> QED
      BY <3>1, <3>2
  <2> QED
    BY <2>1 DEF WholeSales
<1>5. CreationsApart'
  <2>1. \A b \in Sales : CreationHolds(b)' \subseteq CreationHolds(b)
    BY <1>1, <1>2 DEF CreationHolds
  <2> QED
    BY <2>1 DEF CreationsApart
<1>6. LinesReserved'
  <2>1. ASSUME NEW b \in Sales, ~Listed(b)', NEW n \in 1 .. creating[b]
        PROVE  stock'[ProductOf[Lines[b][n]]] >= Quantity[Lines[b][n]]
    <3> DEFINE p == ProductOf[Lines[b][n]]
    <3>1. ~Listed(b) /\ a # b
      BY <1>2, <1>3, <2>1
    <3>2. n \in 1 .. Len(Lines[b]) /\ Lines[b][n] \in Items
      <4>1. creating[b] \in Nat /\ creating[b] <= Len(Lines[b])
        BY <1>0 DEF TypeOK
      <4>2. n \in 1 .. Len(Lines[b])
        BY <4>1, LinesOfSale
      <4> QED
        BY <4>2, LinesOfSale
    <3>3. p \in CreationHolds(b) /\ p \in Products
      BY <3>1, <3>2, Types DEF CreationHolds
    <3>4. p \notin CreationHolds(a)
      BY <3>1, <3>3 DEF CreationsApart
    <3>5. \A m \in 1 .. Len(Lines[a]) : ProductOf[Lines[a][m]] # p
      BY <1>1, <3>4 DEF CreationHolds
    <3>6. UnitsOf(p, ItemsOf(a)) = 0
      BY <3>5, UnitsOfSale
    <3>7. stock'[p] = stock[p]
      BY <1>0, <3>3, <3>6, CommitStock
    <3>8. stock[p] >= Quantity[Lines[b][n]]
      BY <3>1 DEF LinesReserved
    <3> QED
      BY <3>7, <3>8
  <2> QED
    BY <1>1, <2>1 DEF LinesReserved
<1>7. a \in Seeded => seeder \in DOMAIN SEEDS /\ SEEDS[seeder] = a /\ seeder' = seeder + 1
  BY <1>0, <1>1, <1>3, SeederMoves DEF MoveOn
<1>8. a \notin Seeded => seeder' = seeder
  BY <1>1 DEF MoveOn
<1>9. SeederAt'
  <2>1. \A b \in Seeded : b \in Sales
    BY SeedsType DEF Seeded
  <2>2. ASSUME NEW b \in Seeded, ~Listed(b)', creating[b] > 0
        PROVE  a \notin Seeded /\ seeder \in DOMAIN SEEDS /\ SEEDS[seeder] = b
    <3>1. seeder \in DOMAIN SEEDS /\ SEEDS[seeder] = b
      BY <1>2, <2>1, <2>2 DEF SeederAt
    <3> QED
      BY <1>3, <1>7, <2>2, <3>1
  <2> QED
    BY <1>1, <1>8, <2>2 DEF SeederAt
<1>10. SeedIsComplete'
  <2>1. ASSUME NEW n \in DOMAIN SEEDS, n < seeder' PROVE Listed(SEEDS[n])'
    <3>1. CASE n < seeder
      BY <1>2, <3>1, SeedsType DEF SeedIsComplete
    <3>2. CASE ~(n < seeder)
      <4>1. n \in Nat /\ seeder \in Nat
        BY <1>0, SeedsType DEF TypeOK
      <4>2. a \in Seeded /\ n = seeder
        BY <1>7, <1>8, <2>1, <3>2, <4>1
      <4> QED
        BY <1>3, <1>7, <4>2
    <3> QED
      BY <3>1, <3>2
  <2> QED
    BY <2>1 DEF SeedIsComplete
<1>11. SoldWithin'
  BY <1>1 DEF SoldWithin
<1>12. StockLedger'
  <2>1. ASSUME NEW p \in Products
        PROVE  stock'[p] + SumOver(Quantity, {i \in listed' : ProductOf[i] = p}) =
                 OpeningStock[p] + SumOver(returned', {i \in Items : ProductOf[i] = p})
    <3> DEFINE on == SumOver(Quantity, {i \in listed : ProductOf[i] = p})
               units == UnitsOf(p, ItemsOf(a))
    <3>1. stock[p] + on = OpeningStock[p] + SumOver(returned, {i \in Items : ProductOf[i] = p})
      BY LedgerBalanced DEF Balanced
    <3>2. /\ SumOver(Quantity, {i \in listed' : ProductOf[i] = p}) = on + units
          /\ stock'[p] = stock[p] - units /\ stock[p] \in Nat /\ units \in Nat
      BY <1>0, CommitStock, UnitsPublished
    <3>3. on \in Nat
      <4>1. listed \in SUBSET Items
        BY <1>0 DEF TypeOK
      <4> QED
        BY <4>1, OfProduct
    <3>4. stock'[p] + (on + units) = stock[p] + on
      <4> HIDE DEF on, units
      <4> QED
        BY <3>2, <3>3
    <3> QED
      BY <1>1, <3>1, <3>2, <3>4
  <2> QED
    BY <2>1, LedgerBalanced DEF Balanced
<1> QED
  BY <1>4, <1>5, <1>6, <1>9, <1>10, <1>11, <1>12

\* Buyers move between the rows that are listed.
LEMMA BuyingStocked ==
  ASSUME IInv, TypeOK', Buying PROVE Stocked'
<1> USE DEF IInv, Stocked, made, db
<1>1. UNCHANGED <<listed, catalogue, creating, seeder, stock, returned>>
  BY DEF Buying, Tick, Reserve, Sell, Release
<1>2. SoldWithin'
  <2>1. CASE Tick
    BY <2>1 DEF Tick, SoldWithin
  <2>2. ASSUME NEW i \in Asked, Reserve(i) \/ Sell(i) \/ Release(i) PROVE SoldWithin'
    <3>1. i \in Items /\ sold \in [Items -> Nat]
      BY Types DEF TypeOK
    <3>2. CASE Reserve(i)
      BY <3>1, <3>2 DEF Reserve, SoldWithin
    <3>3. CASE Sell(i)
      <4>1. /\ sold[i] < Quantity[i] /\ sold' = [sold EXCEPT ![i] = @ + 1]
            /\ busy' = busy \ {i}
        BY <3>1, <3>3 DEF Sell, SoldWithin
      <4>2. \A j \in Items : sold[j] \in Nat /\ Quantity[j] \in Nat
        BY <3>1, Types
      <4>3. sold'[i] <= Quantity[i]
        BY <3>1, <4>1, <4>2
      <4> QED
        BY <3>1, <4>1, <4>3 DEF SoldWithin
    <3>4. CASE Release(i)
      BY <3>1, <3>4 DEF Release, SoldWithin
    <3> QED
      BY <2>2, <3>2, <3>3, <3>4
  <2> QED
    BY <2>1, <2>2 DEF Buying
<1>3. \A a \in Sales : /\ Listed(a)' = Listed(a) /\ Exists(a)' = Exists(a)
                       /\ CreationHolds(a)' = CreationHolds(a)
  BY <1>1 DEF Listed, Exists, CreationHolds
<1>4. WholeSales' /\ CreationsApart' /\ LinesReserved'
  BY <1>1, <1>3 DEF WholeSales, CreationsApart, LinesReserved
<1>5. SeederAt' /\ SeedIsComplete'
  <2>1. \A a \in Seeded : a \in Sales
    BY SeedsType DEF Seeded
  <2> QED
    BY <1>1, <1>3, <2>1, SeedsType DEF SeederAt, SeedIsComplete
<1>6. StockLedger'
  BY <1>1, LedgerBalanced
<1> QED
  BY <1>2, <1>4, <1>5, <1>6

\* A settlement adds to the stock what it adds to the returned units.
LEMMA CommitSettlementStocked ==
  ASSUME IInv, TypeOK', NEW w \in Workers, CommitSettlement(w) PROVE Stocked'
<1> USE DEF IInv, Stocked, made
<1> DEFINE back == worker[w].unsold
           of(p) == {i \in Items : ProductOf[i] = p}
<1>1. UNCHANGED <<rows, catalogue, creating, seeder>>
  BY DEF CommitSettlement
<1>2. back \in [Items -> Nat] /\ returned \in [Items -> Nat] /\ stock \in [Products -> Nat]
  BY DEF TypeOK
<1>3. \A p : IsFiniteSet(of(p)) /\ SumOver(back, of(p)) \in Nat
  <2>1. \A p : IsFiniteSet(of(p))
    BY Types, FS_Subset
  <2>2. ASSUME NEW p PROVE SumOver(back, of(p)) \in Nat
    <3>1. \A i \in of(p) : back[i] \in Nat
      BY <1>2
    <3> HIDE DEF back, of
    <3> QED
      BY <2>1, <3>1, SumType
  <2> QED
    BY <2>1, <2>2
<1>4. ASSUME NEW p \in Products PROVE stock'[p] = stock[p] + SumOver(back, of(p))
  <2>1. stock'[p] = stock[p] + MapThenSumSet(LAMBDA i : worker[w].unsold[i], of(p))
    BY DEF CommitSettlement
  <2> QED
    BY <2>1 DEF SumOver
<1>5. ASSUME NEW p
      PROVE  SumOver(returned', of(p)) = SumOver(returned, of(p)) + SumOver(back, of(p))
  <2>1. \A i \in of(p) :
          returned[i] \in Int /\ back[i] \in Int /\ returned'[i] = returned[i] + back[i]
    BY <1>2 DEF CommitSettlement
  <2> HIDE DEF back, of
  <2> QED
    BY <1>3, <2>1, SumPlus
<1>6. StockLedger'
  <2>1. ASSUME NEW p \in Products
        PROVE  stock'[p] + SumOver(Quantity, {i \in listed' : ProductOf[i] = p}) =
                 OpeningStock[p] + SumOver(returned', of(p))
    <3> DEFINE on == SumOver(Quantity, {i \in listed : ProductOf[i] = p})
    <3>1. stock[p] + on = OpeningStock[p] + SumOver(returned, of(p))
      BY LedgerBalanced DEF Balanced
    <3>2. on \in Nat
      <4>1. listed \in SUBSET Items
        BY DEF TypeOK
      <4> QED
        BY <4>1, OfProduct
    <3>3. SumOver(returned, of(p)) \in Nat
      <4>1. \A i \in of(p) : returned[i] \in Nat
        BY <1>2
      <4> HIDE DEF of
      <4> QED
        BY <1>3, <4>1, SumType
    <3>4. stock[p] \in Nat /\ OpeningStock[p] \in Nat
      BY <1>2, Types
    <3>5. listed' = listed
      BY <1>1 DEF rows
    <3> HIDE DEF on, of, back
    <3>6. stock'[p] + on = OpeningStock[p] + SumOver(returned', of(p))
      BY <1>3, <1>4, <1>5, <3>1, <3>2, <3>3, <3>4
    <3> QED
      BY <3>5, <3>6 DEF on
  <2> QED
    BY <2>1, LedgerBalanced DEF Balanced
<1>7. \A a \in Sales : /\ Listed(a)' = Listed(a) /\ Exists(a)' = Exists(a)
                       /\ CreationHolds(a)' = CreationHolds(a)
  BY <1>1 DEF Listed, Exists, CreationHolds, rows
<1>8. WholeSales' /\ CreationsApart' /\ SoldWithin'
  BY <1>1, <1>7 DEF WholeSales, CreationsApart, SoldWithin, rows
<1>9. LinesReserved'
  <2>1. ASSUME NEW a \in Sales, ~Listed(a), NEW n \in 1 .. creating[a]
        PROVE  stock'[ProductOf[Lines[a][n]]] >= Quantity[Lines[a][n]]
    <3> DEFINE p == ProductOf[Lines[a][n]]
    <3>1. creating[a] \in Nat /\ creating[a] <= Len(Lines[a])
      BY DEF TypeOK
    <3>2. n \in 1 .. Len(Lines[a])
      BY <3>1, LinesOfSale
    <3>3. Lines[a][n] \in Items
      BY <3>2, LinesOfSale
    <3>4. p \in Products /\ Quantity[Lines[a][n]] \in Nat /\ stock[p] \in Nat
      BY <1>2, <3>3, Types
    <3>5. stock[p] >= Quantity[Lines[a][n]]
      BY <2>1 DEF LinesReserved
    <3>6. stock'[p] = stock[p] + SumOver(back, of(p)) /\ SumOver(back, of(p)) \in Nat
      BY <1>3, <1>4, <3>4
    <3> HIDE DEF back, of, p
    <3>7. stock'[p] >= Quantity[Lines[a][n]]
      BY <3>4, <3>5, <3>6
    <3> QED
      BY <3>7 DEF p
  <2> QED
    BY <1>1, <1>7, <2>1 DEF LinesReserved
<1>10. SeederAt' /\ SeedIsComplete'
  <2>1. \A a \in Seeded : a \in Sales
    BY SeedsType DEF Seeded
  <2> QED
    BY <1>1, <1>7, <2>1, SeedsType DEF SeederAt, SeedIsComplete
<1> QED
  BY <1>6, <1>8, <1>9, <1>10

\* Every step keeps what is known of the rows, the stock and the creations.
LEMMA StockedStep == IInv /\ TypeOK' /\ [Next]_vars => Stocked'
<1> SUFFICES ASSUME IInv, TypeOK', [Next]_vars PROVE Stocked'
  OBVIOUS
<1> USE DEF made, db
<1>0. Stocked /\ TypeOK
  BY DEF IInv
<1>1. ASSUME NEW a \in Sales, AbortCreation(a) PROVE Stocked'
  <2>1. /\ ~Listed(a) /\ creating[a] > 0 /\ StopOn(a)
        /\ creating' = [creating EXCEPT ![a] = 0]
        /\ UNCHANGED <<rows, stock, returned>>
    BY <1>1 DEF AbortCreation
  <2>2. creating \in [Sales -> Nat]
    BY <1>0 DEF TypeOK
  <2>3. CASE a \in Seeded
    <3>1. seeder \in DOMAIN SEEDS /\ SEEDS[seeder] = a /\ seeder' = 1
      BY <1>0, <2>1, <2>3, SeederMoves DEF Stocked, StopOn
    <3>2. ASSUME NEW b \in Seeded, ~Listed(b) PROVE creating'[b] = 0
      <4>1. b \in Sales /\ (creating[b] > 0 => SEEDS[seeder] = b)
        BY <1>0, <3>2, SeedsType DEF Stocked, SeederAt, Seeded
      <4> QED
        BY <2>1, <2>2, <3>1, <4>1
    <3> QED
      BY <2>1, <2>2, <3>1, <3>2, GiveUpStep
  <2>4. CASE a \notin Seeded
    BY <2>1, <2>2, <2>4, GiveUpStep DEF StopOn
  <2> QED
    BY <2>3, <2>4
<1>2. CASE SeedNext
  <2>1. seeder \in DOMAIN SEEDS /\ Exists(SEEDS[seeder]) /\ seeder' = seeder + 1
        /\ UNCHANGED <<rows, creating, stock, returned>>
    BY <1>2 DEF SeedNext, SeedsSales
  <2>2. SEEDS[seeder] \in Sales /\ Listed(SEEDS[seeder])
    BY <1>0, <2>1, SeedsType DEF Stocked, WholeSales
  <2>3. \A a \in Sales : /\ Listed(a)' = Listed(a) /\ Exists(a)' = Exists(a)
                         /\ CreationHolds(a)' = CreationHolds(a)
    BY <2>1 DEF Listed, Exists, CreationHolds, rows
  <2>4. SeederAt'
    <3>1. \A a \in Seeded : a \in Sales /\ (~Listed(a) => ~(creating[a] > 0))
      BY <1>0, <2>2, SeedsType DEF Stocked, SeederAt, Seeded
    <3> QED
      BY <2>1, <2>3, <3>1 DEF SeederAt
  <2>5. SeedIsComplete'
    <3>1. ASSUME NEW n \in DOMAIN SEEDS, n < seeder + 1 PROVE Listed(SEEDS[n])
      <4>1. n \in Nat /\ seeder \in Nat
        BY <2>1, SeedsType
      <4>2. n < seeder \/ n = seeder
        BY <3>1, <4>1
      <4> QED
        BY <1>0, <2>2, <4>2 DEF Stocked, SeedIsComplete
    <3> QED
      BY <2>1, <2>3, <3>1, SeedsType DEF SeedIsComplete
  <2>6. SoldWithin' /\ StockLedger' /\ WholeSales' /\ CreationsApart' /\ LinesReserved'
    BY <1>0, <2>1, <2>3, LedgerBalanced
       DEF Stocked, SoldWithin, WholeSales, CreationsApart, LinesReserved, rows
  <2> QED
    BY <2>4, <2>5, <2>6 DEF Stocked
<1>3. CASE SeedEnds
  <2>1. creating' = [a \in Sales |-> IF a \in Seeded /\ ~Listed(a) THEN 0 ELSE creating[a]]
        /\ seeder' = 1 /\ UNCHANGED <<rows, stock, returned>>
    BY <1>3 DEF SeedEnds
  <2>2. \A a \in Seeded : a \in Sales
    BY SeedsType DEF Seeded
  <2> QED
    BY <2>1, <2>2, GiveUpStep
<1>4. ASSUME UNCHANGED <<rows, stock, returned, seeder, creating>> PROVE Stocked'
  BY <1>0, <1>4, QuietStocked
<1>5. ASSUME NEW p \in Products, SeedProduct(p) PROVE Stocked'
  BY <1>4, <1>5 DEF SeedProduct
<1>6. ASSUME NEW w \in Workers, Settle(w), ~CommitSettlement(w) PROVE Stocked'
  <2>1. UNCHANGED <<rows, stock, returned, seeder, creating>>
    BY <1>6 DEF Settle, Claim, LockSale, ReadItems, ReturnItem, AbortSettlement,
       Mark, Retry, Drop
  <2> QED
    BY <1>4, <2>1
<1>7. ASSUME NEW w \in Workers, LoseClaim(w) \/ Crash(w) PROVE Stocked'
  BY <1>4, <1>7 DEF LoseClaim, Crash
<1>8. ASSUME NEW a \in Sales, BackoffOver(a) PROVE Stocked'
  BY <1>4, <1>8 DEF BackoffOver
<1>9. CASE UNCHANGED vars
  BY <1>4, <1>9 DEF vars
<1> QED
  BY <1>1, <1>2, <1>3, <1>5, <1>6, <1>7, <1>8, <1>9, ReserveLineStep, CommitCreationStep,
     BuyingStocked, CommitSettlementStocked DEF Next

-----------------------------------------------------------------------------
(* The settle rows and the workers                                         *)

\* Steps of creations and buyers: time passes, rows appear and are sold, and a
\* new sale's settle row may be appended.
LEMMA OutsideSettling ==
  ASSUME IInv, UNCHANGED <<settled, returned, worker>>,
         now' \in Nat, now' >= now, listed \subseteq listed',
         \A i \in Items : sold'[i] \in Nat /\ sold'[i] >= sold[i],
         \A a \in Sales :
           \/ job'[a].status = job[a].status /\ job'[a].attempts = job[a].attempts
           \/ /\ job[a].status = "NONE" /\ ItemsOf(a) \subseteq listed'
              /\ job'[a].status = "PENDING" /\ job'[a].attempts = 0
  PROVE  Settling'
<1> USE DEF IInv, Settling
<1>1. \A a \in Sales : (Listed(a) => Listed(a)') /\ (Over(a) => Over(a)')
  <2>1. \A i \in Items : EndsAt[i] \in Nat
    BY Types
  <2>2. now \in Nat
    BY Types DEF TypeOK
  <2>3. \A a \in Sales : ItemsOf(a) \subseteq Items
    BY LinesOfSale
  <2> QED
    BY <2>1, <2>2, <2>3 DEF Listed, Over
<1>2. \A w \in Workers : Sale(w) \in Sales /\ Sale(w)' = Sale(w)
  BY DEF TypeOK, Sale
<1>3. \A w \in Workers : HoldsSale(w)' = HoldsSale(w)
  BY DEF HoldsSale
<1>4. JobsOfSales'
  <2>1. 0 < MaxAttempts
    BY Types
  <2> QED
    BY <1>1, <2>1 DEF JobsOfSales, Listed
<1>5. ClaimsApart' /\ SalesApart'
  BY <1>2, <1>3 DEF ClaimsApart, SalesApart
<1>6. ClaimsPending'
  BY <1>2 DEF ClaimsPending
<1>7. SettledAreOver'
  BY <1>1 DEF SettledAreOver, TypeOK
<1>8. HandledAreOver'
  BY <1>1, <1>2 DEF HandledAreOver, At
<1>9. ReadsHold'
  <2>1. \A i \in Items : sold[i] \in Nat /\ Quantity[i] \in Nat
    BY Types DEF TypeOK
  <2>2. \A w \in Workers : \A i \in Items : worker[w].unsold[i] \in Nat
    BY DEF TypeOK
  <2> QED
    BY <1>2, <1>3, <2>1, <2>2 DEF ReadsHold, At
<1>10. ReturnedOnce'
  BY DEF ReturnedOnce
<1>11. NoUnitLost'
  <2>1. ASSUME NEW a \in settled, NEW i \in ItemsOf(a)
        PROVE  returned[i] + sold'[i] >= Quantity[i]
    <3>1. i \in Items
      BY LinesOfSale DEF TypeOK
    <3>2. sold[i] \in Nat /\ sold'[i] \in Nat /\ Quantity[i] \in Nat /\ returned[i] \in Nat
          /\ sold'[i] >= sold[i]
      BY <3>1, Types DEF TypeOK
    <3>3. returned[i] + sold[i] >= Quantity[i]
      BY DEF NoUnitLost
    <3> QED
      BY <3>2, <3>3
  <2> QED
    BY <2>1 DEF NoUnitLost
<1>12. ProcessedMeansSettled'
  BY DEF ProcessedMeansSettled
<1> QED
  BY <1>4, <1>5, <1>6, <1>7, <1>8, <1>9, <1>10, <1>11, <1>12

\* A step that gives a worker no row: it only lets go, fails, or goes on.
LEMMA QuietWorker ==
  ASSUME IInv, UNCHANGED <<rows, settled, returned, job>>, NEW w \in Workers,
         \A v \in Workers \ {w} : worker'[v] = worker[v],
         worker'[w].claim => worker[w].claim /\ worker'[w].sale = worker[w].sale,
         \/ worker'[w].at = "idle"
         \/ /\ worker'[w].at = "failed" /\ worker'[w].sale = worker[w].sale
            /\ worker[w].at # "idle"
         \/ /\ worker'[w].at = worker[w].at /\ worker'[w].sale = worker[w].sale
            /\ worker'[w].unsold = worker[w].unsold
  PROVE  Settling'
<1> USE DEF IInv, Settling, rows
<1>1. \A a \in Sales : Listed(a)' = Listed(a) /\ Over(a)' = Over(a)
  BY DEF Listed, Over
<1>2. \A v \in Workers : HoldsSale(v)' => HoldsSale(v) /\ Sale(v)' = Sale(v)
  BY DEF HoldsSale, Sale
<1>3. \A v \in Workers : worker'[v].claim => worker[v].claim /\ Sale(v)' = Sale(v)
  BY DEF Sale
<1>4. \A v \in Workers : Sale(v) \in Sales
  BY DEF TypeOK, Sale
<1>5. JobsOfSales' /\ SettledAreOver' /\ ReturnedOnce' /\ NoUnitLost' /\ ProcessedMeansSettled'
  <2>1. SettledAreOver'
    BY <1>1 DEF SettledAreOver, TypeOK
  <2> QED
    BY <1>1, <2>1 DEF JobsOfSales, ReturnedOnce, NoUnitLost, ProcessedMeansSettled
<1>6. ClaimsApart' /\ ClaimsPending'
  BY <1>3 DEF ClaimsApart, ClaimsPending
<1>7. SalesApart'
  BY <1>2 DEF SalesApart
<1>8. HandledAreOver'
  <2>1. \A v \in Workers : ~At(v, "idle")' => ~At(v, "idle") /\ Sale(v)' = Sale(v)
    BY DEF At, Sale
  <2> QED
    BY <1>1, <1>4, <2>1 DEF HandledAreOver
<1>9. ReadsHold'
  <2>1. ASSUME NEW v \in Workers, At(v, "mark")' \/ At(v, "return")'
        PROVE  /\ worker'[v].at = worker[v].at /\ worker'[v].unsold = worker[v].unsold
               /\ Sale(v)' = Sale(v)
    BY <2>1 DEF At, Sale
  <2>2. \A v \in Workers : At(v, "mark")' => Sale(v)' \in settled'
    BY <2>1 DEF ReadsHold, At
  <2>3. ASSUME NEW v \in Workers, At(v, "return")', NEW i \in Items
        PROVE  /\ worker'[v].unsold[i] <= Quantity[i]
               /\ i \in ItemsOf(Sale(v))' => worker'[v].unsold[i] + sold'[i] >= Quantity[i]
               /\ i \notin ItemsOf(Sale(v))' => worker'[v].unsold[i] = 0
    <3>1. At(v, "return") /\ ItemsOf(Sale(v))' = ItemsOf(Sale(v))
      BY <2>1, <2>3 DEF At, ItemsOf
    <3> QED
      BY <2>1, <2>3, <3>1 DEF ReadsHold
  <2> QED
    BY <1>2, <2>2, <2>3 DEF ReadsHold
<1> QED
  BY <1>5, <1>6, <1>7, <1>8, <1>9

\* A claim: the row is due and no other worker has it.
LEMMA ClaimStep ==
  ASSUME IInv, NEW w \in Workers, NEW a \in Sales, Claim(w, a) PROVE Settling'
<1> USE DEF IInv, Settling, made, db, rows
<1>1. /\ UNCHANGED <<rows, settled, returned, job>>
      /\ job[a].status = "PENDING" /\ Over(a)
      /\ \A v \in Workers : worker[v].claim => Sale(v) # a
      /\ \A v \in Workers \ {w} : worker'[v] = worker[v]
      /\ worker'[w].at = "lock" /\ worker'[w].sale = a
  <2>1. worker \in [Workers -> WorkerState]
    BY DEF TypeOK, WorkerState
  <2> QED
    BY <2>1, RestType DEF Claim, WorkerState, Over
<1>2. \A b \in Sales : Listed(b)' = Listed(b) /\ Over(b)' = Over(b)
  BY <1>1 DEF Listed, Over
<1>3. Sale(w)' = a /\ \A v \in Workers \ {w} : Sale(v)' = Sale(v) /\ Sale(v) \in Sales
  BY <1>1 DEF Sale, TypeOK
<1>4. \A v \in Workers : HoldsSale(v)' => HoldsSale(v) /\ v # w
  BY <1>1 DEF HoldsSale
<1>5. JobsOfSales' /\ ReturnedOnce' /\ NoUnitLost' /\ ProcessedMeansSettled'
  BY <1>1, <1>2 DEF JobsOfSales, ReturnedOnce, NoUnitLost, ProcessedMeansSettled
<1>6. SettledAreOver'
  BY <1>1, <1>2 DEF SettledAreOver, TypeOK
<1>7. ClaimsApart' /\ ClaimsPending'
  BY <1>1, <1>3 DEF ClaimsApart, ClaimsPending
<1>8. SalesApart'
  BY <1>3, <1>4 DEF SalesApart
<1>9. HandledAreOver'
  BY <1>1, <1>2, <1>3 DEF HandledAreOver, At
<1>10. ReadsHold'
  <2>1. ASSUME NEW v \in Workers, At(v, "mark")' \/ HoldsSale(v)'
        PROVE  v # w /\ worker'[v] = worker[v] /\ Sale(v)' = Sale(v)
    BY <1>1, <1>3, <1>4, <2>1 DEF At
  <2>2. \A v \in Workers : At(v, "return")' => HoldsSale(v)'
    BY DEF At, HoldsSale
  <2>3. ASSUME NEW v \in Workers, At(v, "return")', NEW i \in Items
        PROVE  /\ worker'[v].unsold[i] <= Quantity[i]
               /\ i \in ItemsOf(Sale(v))' => worker'[v].unsold[i] + sold'[i] >= Quantity[i]
               /\ i \notin ItemsOf(Sale(v))' => worker'[v].unsold[i] = 0
    <3>1. At(v, "return") /\ ItemsOf(Sale(v))' = ItemsOf(Sale(v))
      BY <2>1, <2>2, <2>3 DEF At, ItemsOf
    <3> QED
      BY <1>1, <2>1, <2>2, <2>3, <3>1 DEF ReadsHold
  <2>4. \A v \in Workers : At(v, "mark")' => Sale(v)' \in settled'
    BY <1>1, <2>1 DEF ReadsHold, At
  <2>5. \A v \in Workers : HoldsSale(v)' => Sale(v)' \notin settled'
    BY <1>1, <1>4, <2>1 DEF ReadsHold
  <2> QED
    BY <2>3, <2>4, <2>5 DEF ReadsHold
<1> QED
  BY <1>5, <1>6, <1>7, <1>8, <1>9, <1>10

\* SELECT settled_at FOR UPDATE, and the read of the items under it.
LEMMA ReadStep ==
  ASSUME IInv, TypeOK', NEW w \in Workers, LockSale(w) \/ ReadItems(w) PROVE Settling'
<1> USE DEF IInv, Settling, made, db, rows
<1>1. /\ UNCHANGED <<rows, settled, returned, job>>
      /\ \A v \in Workers \ {w} : worker'[v] = worker[v]
      /\ worker'[w].sale = worker[w].sale /\ worker'[w].claim = worker[w].claim
      /\ worker[w].at # "idle" /\ worker'[w].at # "idle"
      /\ worker'[w].at = "mark" => Sale(w) \in settled
      /\ worker'[w].at \in {"read", "return"} => Sale(w) \notin settled
  <2>1. worker \in [Workers -> WorkerState]
    BY DEF TypeOK, WorkerState
  <2>2. CASE LockSale(w)
    BY <2>1, <2>2 DEF LockSale, WorkerState, At
  <2>3. CASE ReadItems(w)
    BY <2>1, <2>3 DEF ReadItems, WorkerState, At, ReadsHold, HoldsSale
  <2> QED
    BY <2>2, <2>3
<1>2. \A b \in Sales : Listed(b)' = Listed(b) /\ Over(b)' = Over(b)
  BY <1>1 DEF Listed, Over
<1>3. \A v \in Workers : /\ Sale(v)' = Sale(v) /\ Sale(v) \in Sales
                         /\ worker'[v].claim = worker[v].claim
  BY <1>1 DEF Sale, TypeOK
<1>4. JobsOfSales' /\ ReturnedOnce' /\ NoUnitLost' /\ ProcessedMeansSettled'
  BY <1>1, <1>2 DEF JobsOfSales, ReturnedOnce, NoUnitLost, ProcessedMeansSettled
<1>5. SettledAreOver'
  BY <1>1, <1>2 DEF SettledAreOver, TypeOK
<1>6. ClaimsApart' /\ ClaimsPending'
  BY <1>1, <1>3 DEF ClaimsApart, ClaimsPending
<1>7. SalesApart'
  <2>1. \A v \in Workers \ {w} : HoldsSale(v)' = HoldsSale(v)
    BY <1>1 DEF HoldsSale
  <2>2. HoldsSale(w)' => \A v \in Workers \ {w} : HoldsSale(v) => Sale(v) # Sale(w)
    BY DEF LockSale, ReadItems, HoldsSale, At, SalesApart
  <2> QED
    BY <1>3, <2>1, <2>2 DEF SalesApart
<1>8. HandledAreOver'
  BY <1>1, <1>2, <1>3 DEF HandledAreOver, At
<1>9. ReadsHold'
  <2>1. \A v \in Workers : HoldsSale(v)' => Sale(v)' \notin settled'
    BY <1>1, <1>3 DEF ReadsHold, HoldsSale
  <2>2. \A v \in Workers : At(v, "mark")' => Sale(v)' \in settled'
    BY <1>1, <1>3 DEF ReadsHold, At
  <2>3. ASSUME NEW v \in Workers, At(v, "return")', NEW i \in Items
        PROVE  /\ worker'[v].unsold[i] <= Quantity[i]
               /\ i \in ItemsOf(Sale(v))' => worker'[v].unsold[i] + sold'[i] >= Quantity[i]
               /\ i \notin ItemsOf(Sale(v))' => worker'[v].unsold[i] = 0
    <3>0. ItemsOf(Sale(v))' = ItemsOf(Sale(v))
      BY <1>3 DEF ItemsOf
    <3>1. CASE v # w
      BY <1>1, <2>3, <3>0, <3>1 DEF ReadsHold, At
    <3>2. CASE v = w
      <4>1. ReadItems(w) /\ worker[w] \in WorkerState
        BY <2>3, <3>2 DEF LockSale, At, TypeOK, WorkerState
      <4>2. worker'[w].unsold = Unsold(w)
        BY <4>1 DEF ReadItems, TypeOK, WorkerState
      <4>3. sold[i] \in Nat /\ Quantity[i] \in Nat /\ sold[i] <= Quantity[i]
        BY Types DEF TypeOK, Stocked, SoldWithin
      <4>4. Unsold(w)[i] = IF i \in ItemsOf(Sale(w)) THEN Quantity[i] - sold[i] ELSE 0
        BY DEF Unsold
      <4> QED
        BY <1>1, <3>0, <3>2, <4>2, <4>3, <4>4
    <3> QED
      BY <3>1, <3>2
  <2> QED
    BY <2>1, <2>2, <2>3 DEF ReadsHold
<1> QED
  BY <1>4, <1>5, <1>6, <1>7, <1>8, <1>9

\* The settlement commits: its sale was not settled, no other handler holds it,
\* and it gives back what it read as unsold.
LEMMA CommitSettlementStep ==
  ASSUME IInv, TypeOK', NEW w \in Workers, CommitSettlement(w) PROVE Settling'
<1> USE DEF IInv, Settling, made, rows
<1> DEFINE a == Sale(w)
           back == worker[w].unsold
<1>1. /\ UNCHANGED <<now, listed, sold, busy, job>>
      /\ \A v \in Workers \ {w} : worker'[v] = worker[v]
      /\ worker'[w].sale = worker[w].sale /\ worker'[w].claim = worker[w].claim
      /\ At(w, "return") /\ worker'[w].at \in {"mark", "failed"}
      /\ settled' = settled \cup {a}
  <2>1. worker \in [Workers -> WorkerState]
    BY DEF TypeOK, WorkerState
  <2> QED
    BY <2>1 DEF CommitSettlement, WorkerState
<1>2. a \in Sales /\ a \notin settled /\ HoldsSale(w) /\ Over(a)
  BY <1>1 DEF HoldsSale, At, ReadsHold, HandledAreOver, TypeOK, Sale
<1>3. /\ \A i \in Items : back[i] \in Nat /\ back[i] <= Quantity[i]
      /\ \A i \in ItemsOf(a) : back[i] + sold[i] >= Quantity[i]
      /\ \A i \in Items \ ItemsOf(a) : back[i] = 0
  <2>1. worker[w] \in WorkerState
    BY DEF TypeOK, WorkerState
  <2>2. ItemsOf(a) \subseteq Items
    BY <1>2, LinesOfSale
  <2> QED
    BY <1>1, <2>1, <2>2 DEF ReadsHold, WorkerState
<1>4. \A i \in Items : returned[i] \in Nat /\ returned'[i] = returned[i] + back[i]
  BY DEF CommitSettlement, TypeOK
<1>5. ASSUME NEW i \in ItemsOf(a) PROVE returned[i] = 0
  <2>1. i \in Items
    BY <1>2, LinesOfSale
  <2>2. SUFFICES ASSUME returned[i] # 0 PROVE FALSE
    OBVIOUS
  <2>3. PICK b \in settled : i \in ItemsOf(b)
    BY <2>1, <2>2 DEF ReturnedOnce
  <2>4. b \in Sales
    BY DEF TypeOK
  <2>5. a = b
    BY <1>2, <2>3, <2>4, SalesDisjoint
  <2> QED
    BY <1>2, <2>5
<1> HIDE DEF back
<1>6. \A b \in Sales : Listed(b)' = Listed(b) /\ Over(b)' = Over(b)
  BY <1>1 DEF Listed, Over
<1>7. \A v \in Workers : /\ Sale(v)' = Sale(v) /\ Sale(v) \in Sales
                         /\ worker'[v].claim = worker[v].claim
  BY <1>1 DEF Sale, TypeOK
<1>8. \A v \in Workers : HoldsSale(v)' => HoldsSale(v) /\ v # w /\ Sale(v) # a
  BY <1>1, <1>2 DEF HoldsSale, SalesApart
<1>9. JobsOfSales' /\ ClaimsApart' /\ ClaimsPending' /\ SalesApart'
  BY <1>1, <1>6, <1>7, <1>8 DEF JobsOfSales, ClaimsApart, ClaimsPending, SalesApart
<1>10. SettledAreOver' /\ HandledAreOver'
  <2>1. \A b \in settled : b \in Sales
    BY DEF TypeOK
  <2>2. SettledAreOver'
    BY <1>1, <1>2, <1>6, <2>1 DEF SettledAreOver
  <2>3. \A v \in Workers : ~At(v, "idle")' => ~At(v, "idle")
    BY <1>1 DEF At
  <2> QED
    BY <1>1, <1>6, <1>7, <2>2, <2>3 DEF HandledAreOver
<1>11. ReadsHold'
  <2>1. \A v \in Workers : HoldsSale(v)' => Sale(v)' \notin settled'
    BY <1>1, <1>7, <1>8 DEF ReadsHold
  <2>2. \A v \in Workers : At(v, "mark")' => Sale(v)' \in settled'
    BY <1>1, <1>7 DEF ReadsHold, At
  <2>3. ASSUME NEW v \in Workers, At(v, "return")', NEW i \in Items
        PROVE  /\ worker'[v].unsold[i] <= Quantity[i]
               /\ i \in ItemsOf(Sale(v))' => worker'[v].unsold[i] + sold'[i] >= Quantity[i]
               /\ i \notin ItemsOf(Sale(v))' => worker'[v].unsold[i] = 0
    <3>1. v # w /\ worker'[v] = worker[v] /\ At(v, "return")
      BY <1>1, <2>3 DEF At
    <3>2. ItemsOf(Sale(v))' = ItemsOf(Sale(v))
      BY <1>7 DEF ItemsOf
    <3> QED
      BY <1>1, <3>1, <3>2 DEF ReadsHold
  <2> QED
    BY <2>1, <2>2, <2>3 DEF ReadsHold
<1>12. ReturnedOnce'
  <2>1. ASSUME NEW i \in Items, returned'[i] # 0
        PROVE  returned'[i] <= Quantity[i] /\ \E b \in settled' : i \in ItemsOf(b)
    <3>1. CASE i \in ItemsOf(a)
      <4>1. returned'[i] = back[i]
        BY <1>3, <1>4, <1>5, <3>1
      <4> QED
        BY <1>1, <1>3, <3>1, <4>1
    <3>2. CASE i \notin ItemsOf(a)
      <4>1. returned'[i] = returned[i]
        BY <1>3, <1>4, <3>2
      <4> QED
        BY <1>1, <2>1, <4>1 DEF ReturnedOnce
    <3> QED
      BY <3>1, <3>2
  <2> QED
    BY <2>1 DEF ReturnedOnce, ItemsOf
<1>13. NoUnitLost'
  <2>1. ASSUME NEW b \in settled', NEW i \in ItemsOf(b)
        PROVE  returned'[i] + sold[i] >= Quantity[i]
    <3>1. b \in Sales
      BY <1>1, <1>2 DEF TypeOK
    <3>2. i \in Items /\ sold[i] \in Nat /\ Quantity[i] \in Nat
      <4>1. i \in Items
        BY <3>1, LinesOfSale
      <4> QED
        BY <4>1, Types DEF TypeOK
    <3>3. CASE b = a
      BY <1>3, <1>4, <1>5, <3>2, <3>3
    <3>4. CASE b # a
      <4>1. returned[i] + sold[i] >= Quantity[i]
        BY <1>1, <3>4 DEF NoUnitLost
      <4> QED
        BY <1>3, <1>4, <3>2, <4>1
    <3> QED
      BY <3>3, <3>4
  <2> QED
    BY <1>1, <2>1 DEF NoUnitLost, ItemsOf
<1>14. ProcessedMeansSettled'
  BY <1>1 DEF ProcessedMeansSettled
<1> QED
  BY <1>9, <1>10, <1>11, <1>12, <1>13, <1>14

\* The settle row is updated by the one worker that has it.
LEMMA AnswerStep ==
  ASSUME IInv, TypeOK', NEW w \in Workers, Mark(w) \/ Retry(w) PROVE Settling'
<1> USE DEF IInv, Settling, made, db, rows
<1> DEFINE a == Sale(w)
<1>1. /\ UNCHANGED <<rows, settled, returned>> /\ worker[w].claim
      /\ \A v \in Workers \ {w} : worker'[v] = worker[v]
      /\ worker'[w].at = "idle" /\ worker'[w].claim = FALSE
  BY RestType DEF Mark, Retry, TypeOK
<1>2. a \in Sales /\ job[a].status = "PENDING" /\ job[a].attempts < MaxAttempts
      /\ job[a].attempts \in Nat /\ Listed(a)
  <2>1. a \in Sales
    BY DEF Sale, TypeOK
  <2>2. job[a].status = "PENDING"
    BY <1>1 DEF ClaimsPending
  <2> QED
    BY <2>1, <2>2 DEF JobsOfSales, TypeOK, Job
<1>3. /\ \A b \in Sales \ {a} : job'[b] = job[b]
      /\ job'[a].status # "NONE"
      /\ job'[a].status = "PENDING" => job'[a].attempts < MaxAttempts
      /\ job'[a].status = "PROCESSED" => a \in settled
  <2>1. job \in [Sales -> Job]
    BY DEF TypeOK
  <2>2. CASE Mark(w)
    BY <1>2, <2>1, <2>2 DEF Mark, Job, ReadsHold
  <2>3. CASE Retry(w)
    BY <1>2, <2>1, <2>3, Types DEF Retry
  <2> QED
    BY <2>2, <2>3
<1>4. \A b \in Sales : Listed(b)' = Listed(b) /\ Over(b)' = Over(b)
  BY <1>1 DEF Listed, Over
<1>5. \A v \in Workers \ {w} : Sale(v)' = Sale(v) /\ Sale(v) \in Sales
                               /\ (worker[v].claim => Sale(v) # a)
  BY <1>1 DEF Sale, TypeOK, ClaimsApart
<1>6. \A v \in Workers : HoldsSale(v)' => HoldsSale(v) /\ v # w
  BY <1>1 DEF HoldsSale
<1>7. JobsOfSales'
  BY <1>2, <1>3, <1>4 DEF JobsOfSales
<1>8. ClaimsApart' /\ ClaimsPending'
  BY <1>1, <1>3, <1>5 DEF ClaimsApart, ClaimsPending
<1>9. SalesApart'
  BY <1>5, <1>6 DEF SalesApart
<1>10. SettledAreOver'
  BY <1>1, <1>4 DEF SettledAreOver, TypeOK
<1>11. HandledAreOver'
  <2>1. \A v \in Workers : ~At(v, "idle")' => v # w /\ ~At(v, "idle")
    BY <1>1 DEF At
  <2> QED
    BY <1>3, <1>4, <1>5, <2>1 DEF HandledAreOver
<1>12. ReadsHold'
  <2>1. ASSUME NEW v \in Workers, At(v, "mark")' \/ HoldsSale(v)'
        PROVE  v # w /\ worker'[v] = worker[v] /\ Sale(v)' = Sale(v)
    BY <1>1, <1>5, <1>6, <2>1 DEF At
  <2>2. \A v \in Workers : At(v, "return")' => HoldsSale(v)'
    BY DEF At, HoldsSale
  <2>3. ASSUME NEW v \in Workers, At(v, "return")', NEW i \in Items
        PROVE  /\ worker'[v].unsold[i] <= Quantity[i]
               /\ i \in ItemsOf(Sale(v))' => worker'[v].unsold[i] + sold'[i] >= Quantity[i]
               /\ i \notin ItemsOf(Sale(v))' => worker'[v].unsold[i] = 0
    <3>1. At(v, "return") /\ ItemsOf(Sale(v))' = ItemsOf(Sale(v))
      BY <2>1, <2>2, <2>3 DEF At, ItemsOf
    <3> QED
      BY <1>1, <2>1, <2>2, <2>3, <3>1 DEF ReadsHold
  <2>4. \A v \in Workers : At(v, "mark")' => Sale(v)' \in settled'
    BY <1>1, <2>1 DEF ReadsHold, At
  <2>5. \A v \in Workers : HoldsSale(v)' => Sale(v)' \notin settled'
    BY <1>1, <1>6, <2>1 DEF ReadsHold
  <2> QED
    BY <2>3, <2>4, <2>5 DEF ReadsHold
<1>13. ReturnedOnce' /\ NoUnitLost' /\ ProcessedMeansSettled'
  BY <1>1, <1>3 DEF ReturnedOnce, NoUnitLost, ProcessedMeansSettled
<1> QED
  BY <1>7, <1>8, <1>9, <1>10, <1>11, <1>12, <1>13

\* Every step keeps what a settlement under way has read, and what it will return.
LEMMA SettlingStep == IInv /\ TypeOK' /\ [Next]_vars => Settling'
<1> SUFFICES ASSUME IInv, TypeOK', [Next]_vars PROVE Settling'
  OBVIOUS
<1> USE DEF made, db
<1>0. TypeOK /\ Settling
  BY DEF IInv
<1>1. /\ now \in Nat /\ job \in [Sales -> Job] /\ worker \in [Workers -> WorkerState]
      /\ \A i \in Items : sold[i] \in Nat
  BY <1>0, Types DEF TypeOK, WorkerState
<1>2. ASSUME UNCHANGED <<rows, settled, returned, worker, job>> PROVE Settling'
  BY <1>1, <1>2, OutsideSettling DEF rows
<1>3. ASSUME NEW a \in Sales, ReserveLine(a) \/ AbortCreation(a) PROVE Settling'
  BY <1>2, <1>3 DEF ReserveLine, AbortCreation
<1>4. ASSUME NEW a \in Sales, CommitCreation(a) PROVE Settling'
  <2>1. job[a].status = "NONE" /\ job[a].attempts = 0
    BY <1>0, <1>4 DEF Settling, JobsOfSales, CommitCreation
  <2>2. \A b \in Sales : job'[b] = job[b] \/ (b = a /\ job'[b].status = "PENDING"
                                               /\ job'[b].attempts = job[b].attempts)
    BY <1>1, <1>4 DEF CommitCreation, Job
  <2>3. listed' = listed \cup ItemsOf(a) /\ UNCHANGED <<now, sold, settled, returned, worker>>
    BY <1>4 DEF CommitCreation, Publish
  <2> QED
    BY <1>1, <2>1, <2>2, <2>3, OutsideSettling
<1>5. ASSUME NEW p \in Products, SeedProduct(p) PROVE Settling'
  BY <1>2, <1>5 DEF SeedProduct
<1>6. CASE SeedNext \/ SeedEnds
  BY <1>2, <1>6 DEF SeedNext, SeedEnds
<1>7. CASE Buying
  <2>1. UNCHANGED <<settled, returned, worker, job, listed>> /\ now' \in {now, now + 1}
    BY <1>7 DEF Buying, Tick, Reserve, Sell, Release
  <2>2. \A i \in Items : sold'[i] \in {sold[i], sold[i] + 1}
    <3>1. sold \in [Items -> Nat]
      BY <1>0 DEF TypeOK
    <3> QED
      BY <1>7, <3>1 DEF Buying, Tick, Reserve, Sell, Release
  <2>3. now' \in Nat /\ now' >= now
    BY <1>1, <2>1
  <2>4. \A i \in Items : sold'[i] \in Nat /\ sold'[i] >= sold[i]
    BY <1>1, <2>2
  <2> QED
    BY <2>1, <2>3, <2>4, OutsideSettling
<1>8. ASSUME NEW w \in Workers, NEW i \in Items, ReturnItem(w, i) PROVE Settling'
  <2>1. /\ \A v \in Workers \ {w} : worker'[v] = worker[v]
        /\ worker'[w].at = worker[w].at /\ worker'[w].sale = worker[w].sale
        /\ worker'[w].claim = worker[w].claim /\ worker'[w].unsold = worker[w].unsold
        /\ UNCHANGED <<rows, settled, returned, job>>
    BY <1>1, <1>8 DEF ReturnItem, WorkerState
  <2> QED
    BY <2>1, QuietWorker
<1>9. ASSUME NEW w \in Workers, AbortSettlement(w) PROVE Settling'
  <2>1. /\ \A v \in Workers \ {w} : worker'[v] = worker[v]
        /\ worker'[w].at = "failed" /\ worker'[w].sale = worker[w].sale
        /\ worker'[w].claim = worker[w].claim /\ worker[w].at # "idle"
        /\ UNCHANGED <<rows, settled, returned, job>>
    BY <1>1, <1>9 DEF AbortSettlement, WorkerState
  <2> QED
    BY <2>1, QuietWorker
<1>10. ASSUME NEW w \in Workers, Drop(w) \/ Crash(w) PROVE Settling'
  <2>1. /\ \A v \in Workers \ {w} : worker'[v] = worker[v]
        /\ worker'[w].at = "idle" /\ ~worker'[w].claim
        /\ UNCHANGED <<rows, settled, returned, job>>
    BY <1>1, <1>10, RestType DEF Drop, Crash
  <2> QED
    BY <2>1, QuietWorker
<1>11. ASSUME NEW w \in Workers, LoseClaim(w) PROVE Settling'
  <2>1. /\ \A v \in Workers \ {w} : worker'[v] = worker[v]
        /\ worker'[w].at = worker[w].at /\ worker'[w].sale = worker[w].sale
        /\ ~worker'[w].claim /\ worker'[w].unsold = worker[w].unsold
        /\ UNCHANGED <<rows, settled, returned, job>>
    BY <1>1, <1>11 DEF LoseClaim, WorkerState
  <2> QED
    BY <2>1, QuietWorker
<1>12. ASSUME NEW a \in Sales, BackoffOver(a) PROVE Settling'
  <2>1. \A b \in Sales : job'[b].status = job[b].status /\ job'[b].attempts = job[b].attempts
    BY <1>1, <1>12 DEF BackoffOver, Job
  <2>2. UNCHANGED <<rows, settled, returned, worker>>
    BY <1>12 DEF BackoffOver
  <2> QED
    BY <1>1, <2>1, <2>2, OutsideSettling DEF rows
<1>13. CASE UNCHANGED vars
  BY <1>2, <1>13 DEF vars
<1> QED
  BY <1>3, <1>4, <1>5, <1>6, <1>7, <1>8, <1>9, <1>10, <1>11, <1>12, <1>13,
     ClaimStep, ReadStep, CommitSettlementStep, AnswerStep DEF Next, Settle

-----------------------------------------------------------------------------
(* The theorems                                                            *)

\* The invariant is inductive: creations, buyers, settlements, crashes and lost
\* claims, in any order.
THEOREM Invariance == Spec => []IInv
<1>1. IInv /\ [Next]_vars => IInv'
  BY TypeStep, StockedStep, SettlingStep DEF IInv
<1> QED
  BY <1>1, InitIInv, PTL DEF Spec

\* Types, and products.stock is never negative (the CHECK never fires).
THEOREM TypeCorrect == Spec => []TypeOK
<1>1. IInv => TypeOK
  BY DEF IInv
<1> QED
  BY <1>1, Invariance, PTL

\* The stock is the opening stock less what is listed plus what came back.
THEOREM StockIsLedger == Spec => []StockLedger
<1>1. IInv => StockLedger
  BY DEF IInv, Stocked
<1> QED
  BY <1>1, Invariance, PTL

\* Deliveries may repeat; units come back once.
THEOREM ReturnsHappenOnce == Spec => []NoDoubleReturn
<1>1. IInv => NoDoubleReturn
  <2> SUFFICES ASSUME IInv, NEW a \in Sales, NEW i \in ItemsOf(a)
               PROVE  returned[i] <= (IF a \in settled THEN Quantity[i] ELSE 0)
    BY DEF NoDoubleReturn
  <2> USE DEF IInv, Settling
  <2>1. i \in Items
    BY LinesOfSale
  <2>2. returned[i] \in Nat /\ Quantity[i] \in Nat
    BY <2>1, Types DEF TypeOK
  <2>3. CASE returned[i] = 0
    BY <2>2, <2>3
  <2>4. CASE returned[i] # 0
    <3>1. PICK b \in settled : i \in ItemsOf(b) /\ returned[i] <= Quantity[i]
      BY <2>1, <2>4 DEF ReturnedOnce
    <3>2. b \in Sales
      BY DEF TypeOK
    <3>3. a = b
      BY <3>1, <3>2, SalesDisjoint
    <3> QED
      BY <3>1, <3>3
  <2> QED
    BY <2>3, <2>4
<1> QED
  BY <1>1, Invariance, PTL

\* A settled sale has no unit that is neither sold nor given back.
THEOREM UnitsAccounted == Spec => []NoUnitLost
<1>1. IInv => NoUnitLost
  BY DEF IInv, Settling
<1> QED
  BY <1>1, Invariance, PTL

\* While its window is open, no unit of a listed item has gone back to stock.
THEOREM OffersStayBacked == Spec => []OffersAreBacked
<1>1. IInv => OffersAreBacked
  <2> SUFFICES ASSUME IInv, NEW i \in listed, now < EndsAt[i]
               PROVE  returned[i] = 0 /\ sold[i] <= Quantity[i]
    BY DEF OffersAreBacked, Active
  <2> USE DEF IInv, Settling, Stocked
  <2>1. i \in Items /\ now \in Nat /\ EndsAt[i] \in Nat
    <3>1. i \in Items
      BY DEF TypeOK
    <3> QED
      BY <3>1, Types DEF TypeOK
  <2>2. ASSUME NEW a \in settled, i \in ItemsOf(a) PROVE FALSE
    <3>1. EndsAt[i] <= now
      BY <2>2 DEF SettledAreOver, Over
    <3> QED
      BY <2>1, <3>1
  <2> QED
    BY <2>1, <2>2 DEF ReturnedOnce, SoldWithin
<1> QED
  BY <1>1, Invariance, PTL

\* The seed script leaves no sale half made behind it.
THEOREM SeedsComplete == Spec => []SeedIsComplete
<1>1. IInv => SeedIsComplete
  BY DEF IInv, Stocked
<1> QED
  BY <1>1, Invariance, PTL

\* PROCESSED is never written for a sale that is not settled.
THEOREM ProcessedAreSettled == Spec => []ProcessedMeansSettled
<1>1. IInv => ProcessedMeansSettled
  BY DEF IInv, Settling
<1> QED
  BY <1>1, Invariance, PTL

\* The settlement is a handler of the outbox: its rows seen alone obey Delivery.
THEOREM DeliveryRefinement == Spec => DeliverySpec
<1>1. Init => Promise!Init
  BY DEF Init, Promise!Init
<1>2. IInv /\ IInv' /\ [Next]_vars => [Promise!Next]_(Promise!vars)
  <2> SUFFICES ASSUME IInv, IInv', [Next]_vars PROVE [Promise!Next]_(Promise!vars)
    OBVIOUS
  <2> DEFINE st(a) == job[a].status
             at(a) == job[a].attempts
             ef(a) == IF a \in settled THEN 1 ELSE 0
             Still(a) == st(a)' = st(a) /\ at(a)' = at(a) /\ ef(a)' = ef(a)
             Moved(a) ==
               \/ /\ st(a) = "NONE" /\ st(a)' = "PENDING"
                  /\ at(a)' = at(a) /\ ef(a)' = ef(a)
               \/ /\ st(a) # "NONE" /\ ef(a) <= at(a) + faults /\ ef(a)' = ef(a) + 1
                  /\ st(a)' = st(a) /\ at(a)' = at(a)
               \/ /\ st(a) = "PENDING" /\ st(a)' = "PROCESSED" /\ ef(a) > 0
                  /\ at(a)' = at(a) /\ ef(a)' = ef(a)
               \/ /\ st(a) = "PENDING" /\ at(a)' = at(a) + 1 /\ at(a)' <= MaxAttempts
                  /\ st(a)' = IF at(a)' < MaxAttempts THEN "PENDING" ELSE "DEAD_LETTER"
                  /\ ef(a)' = ef(a)
  <2> USE DEF IInv, Settling, made, db
  <2>1. /\ job \in [Sales -> Job] /\ worker \in [Workers -> WorkerState]
        /\ faults \in Nat /\ \A w \in Workers : Sale(w) \in Sales
    BY Types DEF TypeOK, WorkerState, Sale
  <2>2. ASSUME faults' \in {faults, faults + 1},
               \A a \in Sales : Still(a) \/ Moved(a)
        PROVE  Promise!Next
    BY <2>2 DEF Promise!Next, Promise!Append, Promise!Deliver, Promise!Process,
       Promise!Fail, Promise!Unmoved
  <2>3. ASSUME UNCHANGED <<job, settled>>, faults' \in {faults, faults + 1}
        PROVE  Promise!Next
    <3>1. \A a \in Sales : Still(a)
      BY <2>3
    <3> QED
      BY <2>2, <2>3, <3>1
  <2>4. ASSUME NEW a \in Sales, CommitCreation(a) PROVE Promise!Next
    <3>1. st(a) = "NONE"
      BY <2>4 DEF JobsOfSales, CommitCreation
    <3>2. UNCHANGED <<settled, faults>>
      BY <2>4 DEF CommitCreation
    <3>3. \A b \in Sales : Still(b) \/ (b = a /\ Moved(b))
      BY <2>1, <2>4, <3>1, <3>2 DEF CommitCreation, Job
    <3> QED
      BY <2>2, <3>2, <3>3
  <2>5. ASSUME NEW w \in Workers, CommitSettlement(w) PROVE Promise!Next
    <3>0. PICK a \in Sales : a = Sale(w)
      BY <2>1
    <3>1. a \notin settled /\ st(a) # "NONE" /\ at(a) \in Nat
      BY <2>1, <3>0, <2>5 DEF CommitSettlement, ReadsHold, HoldsSale, HandledAreOver, At, Job
    <3>2. settled' = settled \cup {a} /\ UNCHANGED <<job, faults>>
      BY <2>5, <3>0 DEF CommitSettlement
    <3>3. \A b \in Sales : b # a => Still(b)
      BY <3>2
    <3>4. Moved(a)
      BY <2>1, <3>1, <3>2
    <3> QED
      BY <2>2, <3>2, <3>3, <3>4
  <2>6. ASSUME NEW w \in Workers, Mark(w) PROVE Promise!Next
    <3>0. PICK a \in Sales : a = Sale(w)
      BY <2>1
    <3>1. a \in settled /\ st(a) = "PENDING"
      BY <2>1, <3>0, <2>6 DEF Mark, ReadsHold, ClaimsPending
    <3>2. UNCHANGED <<settled, faults>>
      BY <2>6 DEF Mark
    <3>3. \A b \in Sales : Still(b) \/ (b = a /\ Moved(b))
      BY <2>1, <2>6, <3>0, <3>1, <3>2 DEF Mark, Job
    <3> QED
      BY <2>2, <3>2, <3>3
  <2>7. ASSUME NEW w \in Workers, Retry(w) PROVE Promise!Next
    <3>0. PICK a \in Sales : a = Sale(w)
      BY <2>1
    <3>1. st(a) = "PENDING" /\ at(a) \in Nat /\ at(a) < MaxAttempts
      BY <2>1, <2>7, <3>0 DEF Retry, ClaimsPending, JobsOfSales, Job
    <3>2. UNCHANGED <<settled, faults>>
      BY <2>7 DEF Retry
    <3>3. \A b \in Sales : b # a => Still(b)
      BY <2>1, <2>7, <3>0, <3>2 DEF Retry
    <3>4. at(a)' = at(a) + 1 /\ at(a)' <= MaxAttempts
          /\ st(a)' = IF at(a)' < MaxAttempts THEN "PENDING" ELSE "DEAD_LETTER"
      BY <2>1, <2>7, <3>0, <3>1, Types DEF Retry
    <3>5. Moved(a)
      BY <3>1, <3>2, <3>4
    <3> QED
      BY <2>2, <3>2, <3>3, <3>5
  <2>8. ASSUME NEW a \in Sales, BackoffOver(a) PROVE Promise!Next
    <3>1. \A b \in Sales : Still(b)
      BY <2>1, <2>8 DEF BackoffOver, Job
    <3> QED
      BY <2>2, <2>8, <3>1 DEF BackoffOver
  <2>9. ASSUME NEW w \in Workers, Settle(w), ~CommitSettlement(w), ~Mark(w), ~Retry(w)
        PROVE  Promise!Next
    <3>1. UNCHANGED <<job, settled, faults>>
      BY <2>9 DEF Settle, Claim, LockSale, ReadItems, ReturnItem, AbortSettlement, Drop
    <3> QED
      BY <2>3, <3>1
  <2>10. ASSUME NEW w \in Workers, LoseClaim(w) \/ Crash(w) PROVE Promise!Next
    BY <2>3, <2>10 DEF LoseClaim, Crash
  <2>11. ASSUME NEW a \in Sales, ReserveLine(a) \/ AbortCreation(a) PROVE Promise!Next
    BY <2>3, <2>11 DEF ReserveLine, AbortCreation
  <2>12. ASSUME NEW p \in Products, SeedProduct(p) PROVE Promise!Next
    BY <2>3, <2>12 DEF SeedProduct
  <2>13. CASE SeedNext \/ SeedEnds \/ Buying
    BY <2>3, <2>13 DEF SeedNext, SeedEnds, Buying
  <2>14. CASE UNCHANGED vars
    BY <2>14 DEF vars, Promise!vars
  <2> QED
    BY <2>4, <2>5, <2>6, <2>7, <2>8, <2>9, <2>10, <2>11, <2>12, <2>13, <2>14 DEF Next
<1> QED
  BY <1>1, <1>2, Invariance, PTL DEF Spec, DeliverySpec, Promise!Spec
=============================================================================
