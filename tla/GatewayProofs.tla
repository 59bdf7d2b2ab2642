---------------------------- MODULE GatewayProofs ---------------------------
(***************************************************************************)
(* Theorems of Gateway and RateLimit, for every refill rate, capacity and  *)
(* number of requests, and every difference of the readings of the clock.  *)
(* The argument is a potential of the watched bucket: what was taken from  *)
(* it and what is left grow no faster than the time it counts.             *)
(***************************************************************************)
EXTENDS Gateway, SumTheorems

Low == Min(Offsets)
High == Max(Offsets)
Keys == {"ip", "identifier", "user_id"}

-----------------------------------------------------------------------------
(* Numbers                                                                 *)

\* What the assumptions say, in the portions the proofs cite.
LEMMA Rates ==
  PerSecond \in Nat /\ PerSecond # 0 /\ Horizon \in Nat
BY RateLimitAssumption

\* Rounding up to whole seconds covers the time.
LEMMA CeilCovers ==
  \A n \in Nat, d \in Nat \ {0} : Ceil(n, d) \in Nat /\ n <= Ceil(n, d) * d
<1>1. \A n \in Nat, d \in Nat \ {0} :
        /\ n + d - 1 \in Nat
        /\ \A m \in Nat : /\ m \div d \in Nat /\ (m \div d) * d \in Nat
                          /\ m < (m \div d) * d + d
  OBVIOUS
<1> QED
  BY <1>1 DEF Ceil

\* The greater of zero and a number.
LEMMA PairMax == \A x \in Int : Max({0, x}) = IF x > 0 THEN x ELSE 0
BY DEF Max

\* The smaller of two numbers.
LEMMA PairMin == \A x, y \in Int : Min({x, y}) = IF x <= y THEN x ELSE y
BY DEF Min

\* A token more, and a capacity in shares.
LEMMA OneMore ==
  \A n, m, u \in Nat : /\ n * u \in Nat /\ (n + 1) * u = n * u + u
                       /\ n # 0 => u <= n * u
                       /\ n * u > m * u - u => n >= m
OBVIOUS

\* A finite set of numbers that is not empty has a greatest one.
LEMMA GreatestExists ==
  ASSUME NEW S \in SUBSET Nat, IsFiniteSet(S), S # {}
  PROVE  \E x \in S : \A y \in S : x >= y
<1> DEFINE Bad == {T \in SUBSET S : T # {} /\ ~\E x \in T : \A y \in T : x >= y}
<1>1. Bad = {}
  <2>1. SUFFICES ASSUME Bad # {} PROVE FALSE
    OBVIOUS
  <2>2. Bad \in SUBSET FiniteSubsetsOf(S)
    BY FS_Subset DEF FiniteSubsetsOf
  <2>3. PICK T \in Bad : \A U \in Bad : U \subseteq T => U = T
    <3> HIDE DEF Bad
    <3> QED
      BY <2>1, <2>2, Smallest
  <2>4. PICK t \in T : TRUE
    BY <2>3
  <2>5. T \ {t} = {} \/ \E x \in T \ {t} : \A y \in T \ {t} : x >= y
    <3>1. T \ {t} \notin Bad
      BY <2>3, <2>4
    <3>2. T \ {t} \in SUBSET S
      BY <2>3
    <3> QED
      BY <3>1, <3>2
  <2>6. CASE T \ {t} = {}
    <3>1. t \in Nat /\ \A y \in T : y = t
      BY <2>3, <2>4, <2>6
    <3> QED
      BY <2>3, <2>4, <3>1
  <2>7. ASSUME NEW x \in T \ {t}, \A y \in T \ {t} : x >= y PROVE FALSE
    <3>1. T \subseteq Nat /\ x \in Nat /\ t \in Nat
      BY <2>3, <2>4
    <3>2. CASE x >= t
      <4>1. \A y \in T : x >= y
        BY <2>7, <3>2
      <4> QED
        BY <2>3, <4>1
    <3>3. CASE ~(x >= t)
      <4>1. \A y \in T : t >= y
        <5> TAKE y \in T
        <5>1. y = t \/ x >= y
          BY <2>7
        <5> QED
          BY <3>1, <3>3, <5>1
      <4> QED
        BY <2>3, <2>4, <4>1
    <3> QED
      BY <3>2, <3>3
  <2> QED
    BY <2>5, <2>6, <2>7
<1> QED
  BY <1>1

\* Every reading of the clock is between the earliest and the latest.
LEMMA Clocks ==
  /\ Low \in Nat /\ High \in Nat /\ Skew = High - Low /\ Skew \in Nat
  /\ \A o \in Offsets : o \in Nat /\ Low <= o /\ o <= High
  /\ Beyond \in Nat /\ Skew - PerSecond <= Beyond
<1>1. Offsets \in SUBSET Nat /\ Offsets # {} /\ IsFiniteSet(Offsets)
  BY GatewayAssumption
<1>2. Low = Min(Offsets) /\ High = Max(Offsets) /\ Skew = Max(Offsets) - Min(Offsets)
  BY DEF Low, High, Skew
<1>3. PICK a \in Offsets : \A y \in Offsets : a >= y
  BY <1>1, GreatestExists
<1>4. PICK b \in Offsets : \A y \in Offsets : ~(y < b)
  BY <1>1, Least
<1>5. \A y \in Offsets : b <= y
  BY <1>1, <1>4
<1>6. Max(Offsets) \in Offsets /\ \A y \in Offsets : Max(Offsets) >= y
  BY <1>3 DEF Max
<1>7. Min(Offsets) \in Offsets /\ \A y \in Offsets : Min(Offsets) <= y
  BY <1>5 DEF Min
<1>8. /\ Low \in Nat /\ High \in Nat /\ Skew = High - Low /\ Skew \in Nat
      /\ \A o \in Offsets : o \in Nat /\ Low <= o /\ o <= High
  <2>1. PICK low \in Nat : low = Low /\ \A y \in Offsets : low <= y
    BY <1>1, <1>2, <1>7
  <2>2. PICK high \in Nat : high = High /\ high \in Offsets /\ \A y \in Offsets : high >= y
    BY <1>1, <1>2, <1>6
  <2>3. low <= high /\ Skew = high - low
    BY <1>2, <2>1, <2>2
  <2> QED
    BY <1>1, <2>1, <2>2, <2>3
<1>9. PICK d \in Int : d = Skew - PerSecond
  BY <1>8, Rates
<1>10. Beyond = IF d > 0 THEN d ELSE 0
  BY <1>9, PairMax DEF Beyond
<1> QED
  BY <1>8, <1>9, <1>10

\* A token more allows for ts moving backwards once more, and for an expiry.
LEMMA SetbackPerToken ==
  ASSUME NEW n \in Nat, NEW b \in Nat, NEW x \in Nat,
         b <= n * (Skew + Beyond), x <= Skew
  PROVE  /\ n * (Skew + Beyond) \in Nat
         /\ b + x + Beyond <= (n + 1) * (Skew + Beyond)
<1>1. PICK u \in Nat : u = Skew + Beyond
  BY Clocks
<1>2. n * u \in Nat /\ (n + 1) * u = n * u + u
  BY OneMore
<1> QED
  BY <1>1, <1>2, Clocks

-----------------------------------------------------------------------------
(* Routes, subjects and replies                                            *)

\* What the decorators give a limit.
LEMMA Configs ==
  ASSUME NEW route \in Routes, NEW key \in Keys
  PROVE  /\ Config(route, key).key = key
         /\ Config(route, key).capacity \in Nat \ {0}
         /\ Config(route, key).unit \in Nat \ {0}
BY GatewayAssumption DEF Config, Keys

\* A limit of a route is what its key says, and a limit that counts users stands
\* behind JwtAuthGuard.
LEMMA RouteLimits ==
  ASSUME NEW route \in Routes
  PROVE  /\ Len(Limits[route]) \in Nat
         /\ \A i \in 1 .. Len(Limits[route]) :
              /\ Limits[route][i].key \in Keys
              /\ Limits[route][i] = Config(route, Limits[route][i].key)
              /\ Limits[route][i].key = "user_id" => route \notin Public
<1>1. /\ route = "login" =>
           Limits[route] = <<Config(route, "ip"), Config(route, "identifier")>>
      /\ route = "register" => Limits[route] = <<Config(route, "ip")>>
      /\ route \in {"verify-otp", "resend-otp"} => Limits[route] = <<Config(route, "identifier")>>
      /\ route = "purchase" => Limits[route] = <<Config(route, "user_id")>>
      /\ route \in {"refresh", "logout", "active"} => Limits[route] = <<>>
  BY DEF Limits
<1>2. \A k : Config(route, k).key = k
  BY DEF Config
<1>3. "purchase" \notin Public
  BY DEF Public
<1> DEFINE Good(list) ==
      /\ Len(list) \in Nat
      /\ \A i \in 1 .. Len(list) :
           /\ list[i].key \in Keys
           /\ list[i] = Config(route, list[i].key)
           /\ list[i].key = "user_id" => route \notin Public
<1>4. \A k \in Keys : (k = "user_id" => route \notin Public) => Good(<<Config(route, k)>>)
  BY <1>2
<1>5. Good(<<Config(route, "ip"), Config(route, "identifier")>>)
  BY <1>2 DEF Keys
<1>6. Good(<<>>)
  OBVIOUS
<1>7. Good(Limits[route])
  <2> HIDE DEF Good
  <2> QED
    BY <1>1, <1>3, <1>4, <1>5, <1>6 DEF Routes, Keys
<1> QED
  BY <1>7

\* For a request that JwtAuthGuard let in, the guard counts whom the limit means.
LEMMA GuardCountsSubject ==
  ASSUME NEW q, NEW user, NEW key \in Keys, key = "user_id" => user = q.user /\ user # NoUser
  PROVE  KeyValue(q, user, key) = Subject(q, key)
<1>1. CASE key = "ip"
  BY <1>1 DEF KeyValue, Subject
<1>2. CASE key = "identifier"
  BY <1>2 DEF KeyValue, Subject
<1>3. CASE key = "user_id"
  BY <1>3 DEF KeyValue, Subject
<1> QED
  BY <1>1, <1>2, <1>3 DEF Keys

\* The filter passes the details of a 429 on, and gives no other reply that code.
LEMMA Replies ==
  /\ \A n : /\ Reply(AppHttpException(429, "rate_limited", <<n>>)).code = "rate_limited"
            /\ ComeAgain(Reply(AppHttpException(429, "rate_limited", <<n>>))) = now + n * PerSecond
  /\ Reply(PlainError).code # "rate_limited"
  /\ Reply(HttpException(401, Nothing)).code # "rate_limited"
  /\ Reply(HttpException(400, <<"issues">>)).code # "rate_limited"
<1>1. ASSUME NEW n
      PROVE  /\ Reply(AppHttpException(429, "rate_limited", <<n>>)).code = "rate_limited"
             /\ ComeAgain(Reply(AppHttpException(429, "rate_limited", <<n>>))) = now + n * PerSecond
  <2>1. Reply(AppHttpException(429, "rate_limited", <<n>>)) = Answer(429, "rate_limited", <<n>>)
    <3>1. \A e : e.class = "app" => Reply(e) = Answer(e.status, e.code, e.details)
      BY DEF Reply, Invalid
    <3> QED
      BY <3>1 DEF AppHttpException
  <2>2. /\ Answer(429, "rate_limited", <<n>>).code = "rate_limited"
        /\ Answer(429, "rate_limited", <<n>>).details = <<n>>
    BY DEF Answer
  <2>3. <<n>> # Nothing /\ <<n>>[1] = n
    BY DEF Nothing
  <2> QED
    BY <2>1, <2>2, <2>3 DEF ComeAgain, Told
<1>2. Reply(PlainError).code # "rate_limited"
  BY DEF Reply, PlainError, Answer
<1>3. Reply(HttpException(401, Nothing)).code # "rate_limited"
  BY DEF Reply, HttpException, Answer, Invalid, StatusCode, Nothing
<1>4. Reply(HttpException(400, <<"issues">>)).code # "rate_limited"
  BY DEF Reply, HttpException, Answer, Invalid, Nothing
<1> QED
  BY <1>1, <1>2, <1>3, <1>4

-----------------------------------------------------------------------------
(* The inductive invariant                                                 *)

\* What is watched is a limit of a route, and somebody.
WatchedOK ==
  /\ watched.route \in Routes /\ watched.subject # NoUser
  /\ \E i \in 1 .. Len(Limits[watched.route]) : watched.limit = Limits[watched.route][i]

\* A request that was let in, with the user that JwtAuthGuard has left.
Inside(e) ==
  \E q \in Requests, n \in 0 .. Len(Limits[watched.route]) :
    /\ q.route = watched.route /\ (q.route \notin Public => q.user # NoUser)
    /\ e = [on |-> TRUE, request |-> q, passed |-> n,
            user |-> IF q.route \in Public THEN NoUser ELSE q.user]

SlotsOK ==
  /\ api = [s \in Slots |-> api[s]]
  /\ \A s \in Slots : api[s] = Idle \/ Inside(api[s])

BucketsOK ==
  \A b \in DOMAIN bucket :
    /\ b[1] \in Routes /\ \E i \in 1 .. Len(Limits[b[1]]) : Limits[b[1]][i].key = b[2]
    /\ bucket[b].tokens \in 0 .. Full(Config(b[1], b[2]))
    /\ bucket[b].ts \in Nat /\ bucket[b].until \in Nat

Counters ==
  /\ now \in 0 .. Horizon
  /\ taken \in Nat /\ debt \in Nat /\ setback \in Nat /\ promise \in Nat

\* The potential.  With h the hash of the watched bucket, h.ts - Low is the time it
\* has counted, and h.ts - High the time at which it was written at the latest.
One == watched.limit.unit
Whole == Full(watched.limit)
Potential(h) ==
  /\ taken * One + h.tokens <= Whole + (h.ts - Low) + setback
  /\ taken * One + h.tokens >= Whole
  /\ Whole + h.ts <= h.tokens + now + High + debt
  /\ h.ts <= now + High
  /\ h.ts + Whole + PerSecond <= h.until + High
  /\ promise = Never \/ h.ts + One <= h.tokens + promise + High
  /\ setback + Beyond <= taken * (Skew + Beyond)

Present == WatchedBucket \in DOMAIN bucket => Potential(bucket[WatchedBucket])
Absent ==
  WatchedBucket \notin DOMAIN bucket =>
    taken * One <= now + setback /\ setback <= taken * (Skew + Beyond)

GInv == WatchedOK /\ SlotsOK /\ BucketsOK /\ Counters /\ Present /\ Absent

\* The watched limit, and what fits into its bucket.
LEMMA WatchedLimit ==
  ASSUME WatchedOK
  PROVE  /\ watched.limit = Config(watched.route, watched.limit.key)
         /\ watched.limit.key \in Keys
         /\ watched.limit.capacity \in Nat /\ watched.limit.capacity # 0
         /\ One \in Nat /\ One # 0 /\ Whole \in Nat /\ One <= Whole
         /\ Whole = watched.limit.capacity * One
<1>1. PICK i \in 1 .. Len(Limits[watched.route]) : watched.limit = Limits[watched.route][i]
  BY DEF WatchedOK
<1>2. watched.limit = Config(watched.route, watched.limit.key) /\ watched.limit.key \in Keys
  BY <1>1, RouteLimits DEF WatchedOK
<1>3. PICK c \in Nat \ {0} : c = watched.limit.capacity
  BY <1>2, Configs DEF WatchedOK
<1>4. PICK u \in Nat \ {0} : u = One
  BY <1>2, Configs DEF WatchedOK, One
<1>5. Whole = c * u
  BY <1>3, <1>4 DEF Whole, Full, One
<1>6. c * u \in Nat /\ u <= c * u
  BY OneMore
<1> QED
  BY <1>2, <1>3, <1>4, <1>5, <1>6

\* Nothing has happened at first.
LEMMA InitGInv == Init => GInv
<1> SUFFICES ASSUME Init PROVE GInv
  OBVIOUS
<1>1. /\ now = 0 /\ bucket = [b \in {} |-> 0] /\ api = [s \in Slots |-> Idle]
      /\ taken = 0 /\ debt = 0 /\ setback = 0 /\ promise = Never
  BY DEF Init, LimiterInit
<1>q. PICK q \in Requests : \E i \in 1 .. Len(Limits[q.route]) :
        /\ Subject(q, Limits[q.route][i].key) # NoUser
        /\ watched = [route |-> q.route, limit |-> Limits[q.route][i],
                      subject |-> Subject(q, Limits[q.route][i].key)]
  BY DEF Init
<1>2. PICK i \in 1 .. Len(Limits[q.route]) :
        /\ Subject(q, Limits[q.route][i].key) # NoUser
        /\ watched = [route |-> q.route, limit |-> Limits[q.route][i],
                      subject |-> Subject(q, Limits[q.route][i].key)]
  BY <1>q
<1>3. WatchedOK
  BY <1>2, GatewayAssumption DEF WatchedOK
<1>4. SlotsOK
  BY <1>1 DEF SlotsOK
<1>5. DOMAIN bucket = {}
  BY <1>1
<1>6. BucketsOK /\ Present
  BY <1>5 DEF BucketsOK, Present
<1>7. Counters
  BY <1>1, Rates DEF Counters, Never
<1>8. Absent
  <2>1. One \in Nat
    BY <1>3, WatchedLimit
  <2>2. taken * One = 0 /\ taken * (Skew + Beyond) = 0
    BY <1>1, <2>1, Clocks
  <2> QED
    BY <1>1, <2>2 DEF Absent
<1> QED
  BY <1>3, <1>4, <1>6, <1>7, <1>8 DEF GInv

-----------------------------------------------------------------------------
(* A turn of the loop of RateLimitGuard                                    *)

\* A request that is before a limit: what the limit is, which bucket it asks,
\* and that this is the watched bucket exactly if the watched subject asks the
\* watched limit.
LEMMA Turn ==
  ASSUME WatchedOK, SlotsOK, NEW s \in Slots, api[s].on, ~Admitted(s)
  PROVE  /\ Inside(api[s]) /\ api[s].passed + 1 \in 1 .. Len(Limits[watched.route])
         /\ api[s].request.route = watched.route
         /\ NextLimit(s) = Config(watched.route, NextLimit(s).key)
         /\ \E i \in 1 .. Len(Limits[watched.route]) :
              Limits[watched.route][i].key = NextLimit(s).key
         /\ NextLimit(s).capacity \in Nat \ {0} /\ NextLimit(s).unit \in Nat \ {0}
         /\ NextBucket(s)[1] = watched.route /\ NextBucket(s)[2] = NextLimit(s).key
         /\ Watching(s) <=> NextBucket(s) = WatchedBucket
<1>1. Inside(api[s])
  BY DEF SlotsOK, Idle
<1>2. PICK q \in Requests, n \in 0 .. Len(Limits[watched.route]) :
        /\ q.route = watched.route /\ (q.route \notin Public => q.user # NoUser)
        /\ api[s] = [on |-> TRUE, request |-> q, passed |-> n,
                     user |-> IF q.route \in Public THEN NoUser ELSE q.user]
  BY <1>1 DEF Inside
<1>3. /\ api[s].request = q /\ api[s].passed = n
      /\ q.route \notin Public => api[s].user = q.user
  BY <1>2
<1>4. watched.route \in Routes
  BY DEF WatchedOK
<1>5. Len(Limits[watched.route]) \in Nat
  BY <1>4, RouteLimits
<1>6. n # Len(Limits[watched.route])
  BY <1>2, <1>3 DEF Admitted
<1>7. n + 1 \in 1 .. Len(Limits[watched.route])
  BY <1>5, <1>6
<1>8. PICK limit : limit = Limits[watched.route][n + 1]
  OBVIOUS
<1>9. NextLimit(s) = limit
  BY <1>2, <1>3, <1>8 DEF NextLimit
<1>10. /\ limit.key \in Keys /\ limit = Config(watched.route, limit.key)
       /\ limit.key = "user_id" => watched.route \notin Public
  BY <1>4, <1>7, <1>8, RouteLimits
<1>11. limit.capacity \in Nat \ {0} /\ limit.unit \in Nat \ {0}
  BY <1>4, <1>10, Configs
<1>12. KeyValue(q, api[s].user, limit.key) = Subject(q, limit.key)
  BY <1>2, <1>3, <1>10, GuardCountsSubject
<1>13. NextBucket(s) = <<watched.route, limit.key, Subject(q, limit.key)>>
  BY <1>2, <1>3, <1>9, <1>12 DEF NextBucket, Bucket
<1>14. Watching(s) <=> limit = watched.limit /\ Subject(q, watched.limit.key) = watched.subject
  BY <1>3, <1>9 DEF Watching
<1>15. Watching(s) <=> NextBucket(s) = WatchedBucket
  <2>1. WatchedBucket = <<watched.route, watched.limit.key, watched.subject>>
    BY DEF WatchedBucket, Bucket
  <2>2. limit.key = watched.limit.key => limit = watched.limit
    BY <1>10, WatchedLimit
  <2> QED
    BY <1>13, <1>14, <2>1, <2>2
<1>16. \E i \in 1 .. Len(Limits[watched.route]) : Limits[watched.route][i].key = limit.key
  BY <1>7, <1>8
<1> QED
  BY <1>1, <1>2, <1>3, <1>7, <1>9, <1>10, <1>11, <1>13, <1>15, <1>16

\* What a script reads for a clock.
LEMMA Reading ==
  ASSUME Counters, NEW o \in Offsets
  PROVE  now \in Nat /\ now + o \in Nat /\ now + Low <= now + o /\ now + o <= now + High
<1>1. now \in Nat
  BY Rates DEF Counters
<1> QED
  BY <1>1, Clocks

\* The tokens there are, of what is left and the time that has passed.
LEMMA RefilledIs ==
  ASSUME NEW b, NEW limit, limit.capacity \in Nat \ {0}, limit.unit \in Nat \ {0},
         NEW t \in Nat,
         Exists(b) => bucket[b].tokens \in 0 .. Full(limit) /\ bucket[b].ts \in Nat
  PROVE  /\ Full(limit) \in Nat /\ limit.unit <= Full(limit)
         /\ Refilled(b, limit, t) \in 0 .. Full(limit)
         /\ ~Exists(b) => Refilled(b, limit, t) = Full(limit) /\ BackwardsBy(b, t) = 0
         /\ Exists(b) /\ t >= bucket[b].ts =>
              /\ BackwardsBy(b, t) = 0
              /\ \/ Refilled(b, limit, t) = bucket[b].tokens + (t - bucket[b].ts)
                 \/ /\ Refilled(b, limit, t) = Full(limit)
                    /\ Full(limit) <= bucket[b].tokens + (t - bucket[b].ts)
         /\ Exists(b) /\ ~(t >= bucket[b].ts) =>
              /\ BackwardsBy(b, t) = bucket[b].ts - t
              /\ Refilled(b, limit, t) = bucket[b].tokens
<1>1. Full(limit) \in Nat /\ limit.unit <= Full(limit)
  <2>1. \A c \in Nat \ {0}, u \in Nat : c * u \in Nat /\ u <= c * u
    OBVIOUS
  <2> QED
    BY <2>1 DEF Full
<1>2. CASE ~Exists(b)
  BY <1>1, <1>2 DEF Refilled, BackwardsBy
<1>3. CASE Exists(b)
  <2>1. PICK k \in 0 .. Full(limit) : k = bucket[b].tokens
    BY <1>3
  <2>2. PICK a \in Nat : a = bucket[b].ts
    BY <1>3
  <2>3. /\ Refilled(b, limit, t) = Min({Full(limit), k + Max({0, t - a})})
        /\ BackwardsBy(b, t) = Max({0, a - t})
    BY <1>3, <2>1, <2>2 DEF Refilled, BackwardsBy
  <2>4. k \in Nat /\ k <= Full(limit)
    BY <1>1, <2>1
  <2>5. CASE t >= a
    <3>1. Max({0, t - a}) = t - a /\ Max({0, a - t}) = 0
      BY <2>5, PairMax
    <3>2. Refilled(b, limit, t) = IF Full(limit) <= k + (t - a)
                                  THEN Full(limit) ELSE k + (t - a)
      <4>1. PICK whole \in Int : whole = Full(limit)
        BY <1>1
      <4>2. PICK sum \in Int : sum = k + (t - a)
        BY <2>4
      <4> QED
        BY <2>3, <3>1, <4>1, <4>2, PairMin
    <3>3. Refilled(b, limit, t) \in 0 .. Full(limit)
      BY <1>1, <2>4, <2>5, <3>2
    <3>4. \/ Refilled(b, limit, t) = bucket[b].tokens + (t - bucket[b].ts)
          \/ /\ Refilled(b, limit, t) = Full(limit)
             /\ Full(limit) <= bucket[b].tokens + (t - bucket[b].ts)
      BY <2>1, <2>2, <3>2
    <3>5. t >= bucket[b].ts /\ BackwardsBy(b, t) = 0
      BY <2>2, <2>3, <2>5, <3>1
    <3> QED
      BY <1>1, <1>3, <3>3, <3>4, <3>5, Zenon
  <2>6. CASE ~(t >= a)
    <3>1. Max({0, t - a}) = 0 /\ Max({0, a - t}) = a - t
      BY <2>6, PairMax
    <3>2. Refilled(b, limit, t) = k
      <4>1. k + 0 = k /\ (Full(limit) <= k => k = Full(limit))
        BY <1>1, <2>4
      <4> QED
        BY <1>1, <2>3, <2>4, <3>1, <4>1, PairMin
    <3>3. Refilled(b, limit, t) \in 0 .. Full(limit)
      BY <2>1, <3>2
    <3>4. BackwardsBy(b, t) = bucket[b].ts - t /\ Refilled(b, limit, t) = bucket[b].tokens
      BY <2>1, <2>2, <2>3, <3>1, <3>2
    <3>5. ~(t >= bucket[b].ts)
      BY <2>2, <2>6
    <3> QED
      BY <1>1, <1>3, <3>3, <3>4, <3>5, Zenon
  <2> QED
    BY <2>5, <2>6
<1> QED
  BY <1>2, <1>3

-----------------------------------------------------------------------------
(* One step at a time                                                      *)

\* One slot changes, and what is watched does not.
LEMMA SlotMoves ==
  ASSUME SlotsOK, NEW s \in Slots, NEW x, x = Idle \/ Inside(x),
         api' = [api EXCEPT ![s] = x], watched' = watched
  PROVE  SlotsOK'
<1>1. /\ api' = [t \in Slots |-> api'[t]] /\ api'[s] = x
      /\ \A t \in Slots : t # s => api'[t] = api[t]
  BY DEF SlotsOK
<1>2. \A t \in Slots : api'[t] = Idle \/ Inside(api'[t])
  BY <1>1 DEF SlotsOK
<1>3. \A t \in Slots : Inside(api'[t]) => Inside(api[t])'
  BY DEF Inside
<1>4. \A t \in Slots : api'[t] = Idle \/ Inside(api[t])'
  BY <1>2, <1>3
<1> QED
  BY <1>1, <1>4 DEF SlotsOK, Idle

\* What the watched bucket holds, as numbers.
LEMMA WatchedHash ==
  ASSUME WatchedOK, BucketsOK, WatchedBucket \in DOMAIN bucket
  PROVE  /\ bucket[WatchedBucket].tokens \in 0 .. Whole
         /\ bucket[WatchedBucket].tokens \in Nat
         /\ bucket[WatchedBucket].ts \in Nat /\ bucket[WatchedBucket].until \in Nat
<1>1. /\ WatchedBucket[1] = watched.route /\ WatchedBucket[2] = watched.limit.key
      /\ Config(watched.route, watched.limit.key) = watched.limit
  BY WatchedLimit DEF WatchedBucket, Bucket
<1>2. bucket[WatchedBucket].tokens \in 0 .. Whole
  BY <1>1 DEF BucketsOK, Whole
<1>3. bucket[WatchedBucket].ts \in Nat /\ bucket[WatchedBucket].until \in Nat
  BY DEF BucketsOK
<1>4. \A n \in Nat : \A m \in 0 .. n : m \in Nat
  OBVIOUS
<1> QED
  BY <1>2, <1>3, <1>4, WatchedLimit

\* A step that leaves Redis and the clock alone, and makes no promise too early.
LEMMA QuietKeeps ==
  ASSUME GInv, NEW s \in Slots, NEW x, x = Idle \/ Inside(x), api' = [api EXCEPT ![s] = x],
         UNCHANGED <<now, bucket, watched, taken, debt, setback>>, promise' \in Nat,
         \/ promise' = promise
         \/ WatchedBucket \in DOMAIN bucket /\
              bucket[WatchedBucket].ts + One <= bucket[WatchedBucket].tokens + promise' + High
  PROVE  GInv'
<1> USE DEF GInv
<1>1. SlotsOK'
  BY SlotMoves
<1>2. WatchedOK'
  BY DEF WatchedOK
<1>3. BucketsOK'
  BY DEF BucketsOK
<1>4. Counters'
  BY DEF Counters
<1>5. WatchedBucket' = WatchedBucket /\ Whole' = Whole /\ One' = One
  BY DEF WatchedBucket, Bucket, Whole, One
<1>6. Absent'
  BY <1>5 DEF Absent
<1>7. Present'
  <2>1. PICK h : h = bucket[WatchedBucket]
    OBVIOUS
  <2>2. ASSUME WatchedBucket \in DOMAIN bucket
        PROVE  /\ taken * One + h.tokens <= Whole + (h.ts - Low) + setback
               /\ taken * One + h.tokens >= Whole
               /\ Whole + h.ts <= h.tokens + now + High + debt
               /\ h.ts <= now + High
               /\ h.ts + Whole + PerSecond <= h.until + High
               /\ promise' = Never \/ h.ts + One <= h.tokens + promise' + High
               /\ setback + Beyond <= taken * (Skew + Beyond)
    BY <2>1, <2>2 DEF Present, Potential
  <2>3. ASSUME WatchedBucket \in DOMAIN bucket PROVE Potential(h)'
    BY <1>5, <2>2, <2>3 DEF Potential
  <2> QED
    BY <1>5, <2>1, <2>3 DEF Present
<1> QED
  BY <1>1, <1>2, <1>3, <1>4, <1>6, <1>7

\* A request that ends with an exception other than a 429.
LEMMA ThrowStep ==
  ASSUME GInv, NEW s \in Slots, NEW e, Throw(s, e), Reply(e).code # "rate_limited",
         UNCHANGED <<now, bucket, watched>>
  PROVE  GInv'
<1>1. /\ api' = [api EXCEPT ![s] = Idle] /\ promise' = promise
      /\ taken' = taken /\ debt' = debt /\ setback' = setback
  BY DEF Throw
<1>2. promise' \in Nat
  BY <1>1 DEF GInv, Counters
<1> QED
  BY <1>1, <1>2, QuietKeeps

\* JwtAuthGuard lets a request in with the user that its route calls for, or throws.
LEMMA ArriveStep ==
  ASSUME GInv, NEW s \in Slots, NEW q \in Requests, Arrive(s, q)
  PROVE  GInv'
<1>0. q.route = watched.route /\ UNCHANGED <<now, bucket, watched>>
  BY DEF Arrive
<1>1. ASSUME NEW user, user = IF q.route \in Public THEN NoUser ELSE q.user,
             q.route \notin Public => q.user # NoUser,
             api' = [api EXCEPT ![s] = Entered(q, user)], UNCHANGED history
      PROVE  GInv'
  <2>1. 0 \in 0 .. Len(Limits[watched.route])
    BY RouteLimits DEF GInv, WatchedOK
  <2>2. Inside(Entered(q, user))
    BY <1>0, <1>1, <2>1 DEF Inside, Entered
  <2>3. /\ promise' = promise /\ promise' \in Nat /\ taken' = taken /\ debt' = debt
        /\ setback' = setback
    BY <1>1 DEF history, GInv, Counters
  <2> QED
    BY <1>0, <1>1, <2>2, <2>3, QuietKeeps
<1>2. CASE /\ q.route \in Public /\ api' = [api EXCEPT ![s] = Entered(q, NoUser)]
           /\ UNCHANGED history
  BY <1>1, <1>2
<1>3. CASE /\ q.route \notin Public /\ q.user # NoUser
           /\ api' = [api EXCEPT ![s] = Entered(q, q.user)] /\ UNCHANGED history
  BY <1>1, <1>3
<1>4. CASE Throw(s, HttpException(401, Nothing))
  BY <1>0, <1>4, Replies, ThrowStep
<1> QED
  BY <1>2, <1>3, <1>4 DEF Arrive

\* A request that has passed its limits ends, and takes no token.
LEMMA HandleStep == ASSUME GInv, NEW s \in Slots, Handle(s) PROVE GInv'
<1>0. UNCHANGED <<now, bucket, watched>>
  BY DEF Handle
<1>1. CASE Throw(s, HttpException(400, <<"issues">>)) \/ Throw(s, PlainError)
  BY <1>0, <1>1, Replies, ThrowStep
<1>2. CASE api' = [api EXCEPT ![s] = Idle] /\ UNCHANGED history
  <2>1. /\ promise' = promise /\ promise' \in Nat /\ taken' = taken /\ debt' = debt
        /\ setback' = setback
    BY <1>2 DEF history, GInv, Counters
  <2> QED
    BY <1>0, <1>2, <2>1, QuietKeeps
<1> QED
  BY <1>1, <1>2 DEF Handle

\* Who is refused is told to wait until the slowest clock finds a token.
LEMMA RefuseStep ==
  ASSUME GInv, NEW s \in Slots, NEW o \in Offsets, api[s].on, ~Admitted(s), Refuse(s, o),
         UNCHANGED <<now, watched>>
  PROVE  GInv'
<1> USE DEF GInv
<1>1. PICK b : b = NextBucket(s)
  OBVIOUS
<1>2. PICK limit : limit = NextLimit(s)
  OBVIOUS
<1>3. PICK t \in Nat : t = now + o /\ t <= now + High
  BY Reading
<1>4. /\ ~Allowed(b, limit, t) /\ bucket' = bucket
      /\ Throw(s, AppHttpException(429, "rate_limited", <<RetrySeconds(b, limit, t)>>))
  BY <1>1, <1>2, <1>3 DEF Refuse
<1>5. /\ limit.capacity \in Nat \ {0} /\ limit.unit \in Nat \ {0}
      /\ limit = Config(b[1], b[2])
      /\ Watching(s) <=> b = WatchedBucket
  BY <1>1, <1>2, Turn
<1>6. Exists(b) => /\ bucket[b].tokens \in 0 .. Full(limit) /\ bucket[b].ts \in Nat
  BY <1>5 DEF Exists, BucketsOK
<1>7. /\ Full(limit) \in Nat /\ limit.unit <= Full(limit)
      /\ Refilled(b, limit, t) \in 0 .. Full(limit)
      /\ ~Exists(b) => Refilled(b, limit, t) = Full(limit)
      /\ Exists(b) /\ t >= bucket[b].ts =>
           \/ Refilled(b, limit, t) = bucket[b].tokens + (t - bucket[b].ts)
           \/ Refilled(b, limit, t) = Full(limit)
      /\ Exists(b) /\ ~(t >= bucket[b].ts) => Refilled(b, limit, t) = bucket[b].tokens
  BY <1>5, <1>6, RefilledIs
<1>8. PICK left \in Nat : left = Refilled(b, limit, t)
  BY <1>7
<1>9. left < limit.unit
  BY <1>4, <1>5, <1>7, <1>8 DEF Allowed
<1>10. Exists(b)
  BY <1>5, <1>7, <1>8, <1>9
<1>11. limit.unit - left \in Nat
  BY <1>5, <1>9
<1>12. PICK n \in Nat : n = RetrySeconds(b, limit, t) /\ limit.unit - left <= n * PerSecond
  BY <1>8, <1>11, CeilCovers, Rates DEF RetrySeconds
<1>13. n * PerSecond \in Nat
  BY OneMore, Rates
<1>14. PICK wait \in Nat : wait = n * PerSecond
  BY <1>13
<1>15. /\ api' = [api EXCEPT ![s] = Idle]
       /\ taken' = taken /\ debt' = debt /\ setback' = setback
       /\ promise' = promise \/ (Watching(s) /\ promise' = now + wait)
  BY <1>4, <1>12, <1>14, Replies DEF Throw
<1>16. now \in Nat /\ promise \in Nat
  BY Rates DEF Counters
<1>17. promise' \in Nat
  BY <1>15, <1>16
<1>18. CASE promise' = promise
  BY <1>4, <1>15, <1>17, <1>18, QuietKeeps
<1>19. CASE Watching(s) /\ promise' = now + wait
  <2>1. b = WatchedBucket /\ WatchedBucket \in DOMAIN bucket
    BY <1>5, <1>10, <1>19 DEF Exists
  <2>2. PICK k \in Nat : k = bucket[b].tokens
    BY <2>1, WatchedHash
  <2>3. PICK a \in Nat : a = bucket[b].ts
    BY <2>1, WatchedHash
  <2>4. a <= now + High
    BY <2>1, <2>3 DEF Present, Potential
  <2>5. left = k + (t - a) \/ (~(t >= a) /\ left = k)
    BY <1>5, <1>7, <1>8, <1>9, <1>10, <2>2, <2>3
  <2>6. PICK one \in Nat : one = limit.unit
    BY <1>5
  <2>7. a + one <= k + (now + wait) + High
    BY <1>3, <1>12, <1>14, <1>16, <2>4, <2>5, <2>6, Clocks
  <2>8. one = One
    BY <1>2, <1>19, <2>6 DEF Watching, One
  <2>9. bucket[WatchedBucket].ts + One <= bucket[WatchedBucket].tokens + promise' + High
    BY <1>19, <2>1, <2>2, <2>3, <2>7, <2>8
  <2> QED
    BY <1>4, <1>15, <1>17, <2>1, <2>9, QuietKeeps
<1> QED
  BY <1>15, <1>18, <1>19

\* The second that the script adds to the time to live.
LEMMA TtlCovers ==
  ASSUME NEW limit, limit.capacity \in Nat \ {0}, limit.unit \in Nat \ {0}
  PROVE  /\ TtlSeconds(limit) * PerSecond \in Nat
         /\ Full(limit) + PerSecond <= TtlSeconds(limit) * PerSecond
<1>1. Full(limit) \in Nat
  BY OneMore DEF Full
<1>2. PICK c \in Nat : c = Ceil(Full(limit), PerSecond)
  BY <1>1, CeilCovers, Rates
<1>3. Full(limit) <= c * PerSecond
  BY <1>1, <1>2, CeilCovers, Rates
<1>4. (c + 1) * PerSecond = c * PerSecond + PerSecond /\ c * PerSecond \in Nat
  BY OneMore, Rates
<1>5. TtlSeconds(limit) = c + 1
  BY <1>2 DEF TtlSeconds
<1> QED
  BY <1>1, <1>3, <1>4, <1>5, Rates

\* A request that has passed a limit is before the next one.
LEMMA OneTurn ==
  ASSUME NEW on, NEW q, NEW n, NEW u, NEW m
  PROVE  [[on |-> on, request |-> q, passed |-> n, user |-> u] EXCEPT !.passed = m]
         = [on |-> on, request |-> q, passed |-> m, user |-> u]
OBVIOUS

\* A token taken moves the potential by no more than the time counted.
LEMMA SpendStep ==
  ASSUME GInv, NEW s \in Slots, NEW o \in Offsets, api[s].on, ~Admitted(s), Spend(s, o),
         NEW x, x = Idle \/ Inside(x), api' = [api EXCEPT ![s] = x],
         UNCHANGED <<now, watched>>
  PROVE  GInv'
<1> USE DEF GInv
<1>1. PICK b : b = NextBucket(s)
  OBVIOUS
<1>2. PICK limit : limit = NextLimit(s)
  OBVIOUS
<1>3. PICK t \in Nat : t = now + o /\ now + Low <= t /\ t <= now + High
  BY Reading
<1>4. /\ Allowed(b, limit, t) /\ TakeToken(b, limit, t)
      /\ Watching(s) => /\ taken' = taken + 1 /\ promise' = Never
                        /\ debt' = debt + limit.unit
                        /\ setback' = setback + BackwardsBy(b, t)
      /\ ~Watching(s) => /\ taken' = taken /\ debt' = debt
                         /\ setback' = setback /\ promise' = promise
  BY <1>1, <1>2, <1>3 DEF Spend, history
<1>5. /\ limit.capacity \in Nat \ {0} /\ limit.unit \in Nat \ {0}
      /\ b[1] = watched.route /\ b[2] = NextLimit(s).key
      /\ limit = Config(b[1], b[2])
      /\ \E i \in 1 .. Len(Limits[watched.route]) :
           Limits[watched.route][i].key = NextLimit(s).key
      /\ Watching(s) <=> b = WatchedBucket
  BY <1>1, <1>2, Turn
<1>6. Exists(b) => /\ bucket[b].tokens \in 0 .. Full(limit) /\ bucket[b].ts \in Nat
  BY <1>5 DEF Exists, BucketsOK
<1>7. /\ Full(limit) \in Nat /\ limit.unit <= Full(limit)
      /\ Refilled(b, limit, t) \in 0 .. Full(limit)
      /\ ~Exists(b) => Refilled(b, limit, t) = Full(limit) /\ BackwardsBy(b, t) = 0
      /\ Exists(b) /\ t >= bucket[b].ts =>
           /\ BackwardsBy(b, t) = 0
           /\ \/ Refilled(b, limit, t) = bucket[b].tokens + (t - bucket[b].ts)
              \/ /\ Refilled(b, limit, t) = Full(limit)
                 /\ Full(limit) <= bucket[b].tokens + (t - bucket[b].ts)
      /\ Exists(b) /\ ~(t >= bucket[b].ts) =>
           /\ BackwardsBy(b, t) = bucket[b].ts - t
           /\ Refilled(b, limit, t) = bucket[b].tokens
  <2>1. limit.capacity \in Nat \ {0} /\ limit.unit \in Nat \ {0} /\ t \in Nat
    BY <1>5
  <2> QED
    BY <1>6, <2>1, RefilledIs, Zenon
<1>8. PICK left \in 0 .. Full(limit) : left = Refilled(b, limit, t)
  BY <1>7
<1>one. PICK one \in Nat : one = limit.unit
  BY <1>5
<1>9. left \in Nat /\ one <= left /\ left - one \in 0 .. Full(limit)
  BY <1>one, <1>4, <1>7, <1>8 DEF Allowed
<1>10. PICK live \in Nat : /\ live = TtlSeconds(limit) * PerSecond
                           /\ Full(limit) + PerSecond <= live
  BY <1>5, TtlCovers
<1>11. PICK hash : hash = [tokens |-> left - one, ts |-> t, until |-> now + live]
  OBVIOUS
<1>12. bucket' = [c \in DOMAIN bucket \cup {b} |-> IF c = b THEN hash ELSE bucket[c]]
  BY <1>one, <1>4, <1>8, <1>10, <1>11 DEF TakeToken
<1>13. /\ DOMAIN bucket' = DOMAIN bucket \cup {b} /\ bucket'[b] = hash
       /\ \A c \in DOMAIN bucket : c # b => bucket'[c] = bucket[c]
  BY <1>12
<1>14. hash.tokens = left - one /\ hash.ts = t /\ hash.until = now + live
  BY <1>11
<1>15. now \in Nat /\ taken \in Nat /\ debt \in Nat /\ setback \in Nat /\ promise \in Nat
  BY Rates DEF Counters
<1>16. SlotsOK'
  BY SlotMoves
<1>17. WatchedOK'
  BY DEF WatchedOK
<1>18. BucketsOK'
  <2>1. b[1] \in Routes /\ \E i \in 1 .. Len(Limits[b[1]]) : Limits[b[1]][i].key = b[2]
    BY <1>5 DEF WatchedOK
  <2>2. hash.tokens \in 0 .. Full(Config(b[1], b[2]))
    BY <1>5, <1>9, <1>14
  <2>3. hash.ts \in Nat /\ hash.until \in Nat
    BY <1>5, <1>14, <1>15
  <2> SUFFICES ASSUME NEW c \in DOMAIN bucket'
      PROVE  /\ c[1] \in Routes /\ \E i \in 1 .. Len(Limits[c[1]]) : Limits[c[1]][i].key = c[2]
             /\ bucket'[c].tokens \in 0 .. Full(Config(c[1], c[2]))
             /\ bucket'[c].ts \in Nat /\ bucket'[c].until \in Nat
    BY DEF BucketsOK
  <2>4. CASE c = b
    BY <1>13, <2>1, <2>2, <2>3, <2>4
  <2>5. CASE c # b
    BY <1>13, <2>5 DEF BucketsOK
  <2> QED
    BY <2>4, <2>5
<1>19. BackwardsBy(b, t) \in Nat
  BY <1>5, <1>6, <1>7
<1>20. Counters'
  <2>1. promise' \in Nat
    BY <1>4, <1>15, Rates DEF Never
  <2>2. taken' \in Nat /\ setback' \in Nat
    BY <1>4, <1>15, <1>19
  <2>3. debt' \in Nat
    BY <1>one, <1>4, <1>15
  <2> QED
    BY <2>1, <2>2, <2>3 DEF Counters
<1>21. WatchedBucket' = WatchedBucket /\ Whole' = Whole /\ One' = One /\ Never' = Never
  BY DEF WatchedBucket, Bucket, Whole, One, Never
<1>22. CASE ~Watching(s)
  <2>1. /\ WatchedBucket \in DOMAIN bucket' <=> WatchedBucket \in DOMAIN bucket
        /\ WatchedBucket \in DOMAIN bucket => bucket'[WatchedBucket] = bucket[WatchedBucket]
    BY <1>5, <1>13, <1>22
  <2>2. /\ taken' = taken /\ debt' = debt /\ setback' = setback
        /\ promise' = promise /\ now' = now
    BY <1>4, <1>22
  <2>3. Absent'
    BY <1>21, <2>1, <2>2 DEF Absent
  <2>4. PICK h : h = bucket[WatchedBucket]
    OBVIOUS
  <2>5. ASSUME WatchedBucket \in DOMAIN bucket PROVE Potential(h)'
    <3>1. Potential(h)
      BY <2>4, <2>5 DEF Present
    <3> QED
      BY <1>21, <2>2, <3>1 DEF Potential
  <2>6. Present'
    BY <1>21, <2>1, <2>4, <2>5 DEF Present
  <2> QED
    BY <1>16, <1>17, <1>18, <1>20, <2>3, <2>6
<1>23. CASE Watching(s)
  <2>1. b = WatchedBucket /\ limit = watched.limit /\ Full(limit) = Whole /\ one = One
    BY <1>one, <1>2, <1>5, <1>23 DEF Watching, Whole, One
  <2>2. WatchedBucket \in DOMAIN bucket' /\ bucket'[WatchedBucket] = hash
    BY <1>13, <2>1
  <2>3. PICK whole \in Nat : whole = Whole
    BY <1>7, <2>1
  <2>4. PICK p \in Nat : p = taken * one
    BY <1>15, OneMore
  <2>5. (taken + 1) * one = p + one
    BY <1>15, <2>4, OneMore
  <2>6. /\ taken' = taken + 1 /\ promise' = Never /\ now' = now /\ debt' = debt + one
        /\ setback' = setback + BackwardsBy(b, t)
    BY <1>one, <1>4, <1>23
  <2>7. PICK back \in Nat : back = BackwardsBy(b, t)
    BY <1>19
  <2>8. /\ p + left <= whole + (t - Low) + setback + back
        /\ p + left >= whole
        /\ whole + t <= left + now + High + debt
        /\ setback + back + Beyond <= (taken + 1) * (Skew + Beyond)
    <3>1. CASE ~Exists(b)
      <4>1. left = whole /\ back = 0
        BY <1>7, <1>8, <2>1, <2>3, <2>7, <3>1
      <4>2. p <= now + setback /\ setback <= taken * (Skew + Beyond)
        BY <2>1, <2>4, <3>1 DEF Absent, Exists
      <4>3. back <= Skew
        BY <4>1, Clocks
      <4>4. setback + back + Beyond <= (taken + 1) * (Skew + Beyond)
        BY <1>15, <4>2, <4>3, SetbackPerToken
      <4>5. /\ p + left <= whole + (t - Low) + setback + back
            /\ whole + t <= left + now + High + debt
        BY <1>3, <1>15, <4>1, <4>2, Clocks
      <4> QED
        BY <1>15, <4>1, <4>4, <4>5
    <3>2. CASE Exists(b)
      <4>1. PICK k \in Nat : k = bucket[b].tokens
        BY <2>1, <3>2, WatchedHash DEF Exists
      <4>2. PICK a \in Nat : a = bucket[b].ts
        BY <2>1, <3>2, WatchedHash DEF Exists
      <4>3. /\ p + k <= whole + (a - Low) + setback /\ p + k >= whole
            /\ whole + a <= k + now + High + debt /\ a <= now + High
        BY <2>1, <2>3, <2>4, <3>2, <4>1, <4>2 DEF Present, Potential, Exists
      <4>4. setback + Beyond <= taken * (Skew + Beyond)
        BY <2>1, <3>2 DEF Present, Potential, Exists
      <4>5. setback <= taken * (Skew + Beyond)
        <5>1. PICK u \in Nat : u = Skew + Beyond
          BY Clocks
        <5>2. taken * u \in Nat
          BY <1>15, OneMore
        <5> QED
          BY <1>15, <4>4, <5>1, <5>2, Clocks
      <4>6. /\ p + left <= whole + (t - Low) + setback + back
            /\ p + left >= whole
            /\ whole + t <= left + now + High + debt /\ back <= Skew
        <5>1. CASE t >= a
          <6>1. /\ back = 0
                /\ left = k + (t - a) \/ (left = whole /\ whole <= k + (t - a))
            BY <1>7, <1>8, <2>1, <2>3, <2>7, <3>2, <4>1, <4>2, <5>1
          <6> QED
            BY <1>3, <1>9, <1>15, <4>3, <5>1, <6>1, Clocks
        <5>2. CASE ~(t >= a)
          <6>1. back = a - t /\ left = k
            BY <1>7, <1>8, <2>7, <3>2, <4>1, <4>2, <5>2
          <6> QED
            BY <1>3, <1>15, <4>3, <5>2, <6>1, Clocks
        <5> QED
          BY <5>1, <5>2
      <4>7. setback + back + Beyond <= (taken + 1) * (Skew + Beyond)
        BY <1>15, <4>5, <4>6, SetbackPerToken
      <4> QED
        BY <4>6, <4>7
    <3> QED
      BY <3>1, <3>2
  <2>9. /\ (p + one) + (left - one) <= whole + (t - Low) + (setback + back)
        /\ (p + one) + (left - one) >= whole
        /\ whole + t <= (left - one) + now + High + (debt + one)
        /\ t <= now + High
        /\ t + whole + PerSecond <= (now + live) + High
    <3>1. whole + PerSecond <= live
      BY <1>10, <2>1, <2>3
    <3>2. t + whole + PerSecond <= (now + live) + High
      BY <1>3, <1>15, <3>1, Clocks, Rates
    <3>3. /\ (p + one) + (left - one) <= whole + (t - Low) + (setback + back)
          /\ (p + one) + (left - one) >= whole
      BY <1>9, <1>15, <2>8, Clocks
    <3>4. whole + t <= (left - one) + now + High + (debt + one)
      BY <1>9, <1>15, <2>8, Clocks
    <3> QED
      BY <1>3, <3>2, <3>3, <3>4
  <2>10. /\ taken' * One' + hash.tokens <= Whole' + (hash.ts - Low) + setback'
         /\ taken' * One' + hash.tokens >= Whole'
         /\ Whole' + hash.ts <= hash.tokens + now' + High + debt'
         /\ hash.ts <= now' + High
         /\ hash.ts + Whole' + PerSecond <= hash.until + High
         /\ promise' = Never'
         /\ setback' + Beyond <= taken' * (Skew + Beyond)
    <3>1. setback' = setback + back /\ taken' * One' = p + one
      BY <1>21, <2>1, <2>5, <2>6, <2>7
    <3>2. setback' + Beyond <= taken' * (Skew + Beyond)
      BY <2>6, <2>8, <3>1
    <3> QED
      BY <1>14, <1>21, <2>3, <2>6, <2>9, <3>1, <3>2
  <2>11. Potential(hash)'
    BY <2>10 DEF Potential
  <2>12. Present' /\ Absent'
    BY <1>21, <2>2, <2>11 DEF Present, Absent
  <2> QED
    BY <1>16, <1>17, <1>18, <1>20, <2>12
<1> QED
  BY <1>22, <1>23

\* A token taken, and the request goes on to the next limit, or fails because the
\* answer is lost.
LEMMA PassStep ==
  ASSUME GInv, NEW s \in Slots, NEW o \in Offsets, api[s].on, ~Admitted(s),
         Pass(s, o) \/ PassUnanswered(s, o), UNCHANGED <<now, watched>>
  PROVE  GInv'
<1> USE DEF GInv
<1>1. CASE PassUnanswered(s, o)
  BY <1>1, SpendStep DEF PassUnanswered
<1>2. CASE Pass(s, o)
  <2>1. Spend(s, o) /\ api' = [api EXCEPT ![s].passed = @ + 1]
    BY <1>2 DEF Pass
  <2>2. Inside(api[s]) /\ api[s].passed + 1 \in 1 .. Len(Limits[watched.route])
    BY Turn
  <2>3. PICK q \in Requests, n \in 0 .. Len(Limits[watched.route]) :
          /\ q.route = watched.route /\ (q.route \notin Public => q.user # NoUser)
          /\ api[s] = [on |-> TRUE, request |-> q, passed |-> n,
                       user |-> IF q.route \in Public THEN NoUser ELSE q.user]
    BY <2>2 DEF Inside
  <2>4. PICK x : x = [on |-> TRUE, request |-> q, passed |-> n + 1,
                      user |-> IF q.route \in Public THEN NoUser ELSE q.user]
    OBVIOUS
  <2>5. api' = [api EXCEPT ![s] = x]
    <3>1. PICK e : e = api[s]
      OBVIOUS
    <3>2. PICK on : on = TRUE
      OBVIOUS
    <3>3. PICK u : u = IF q.route \in Public THEN NoUser ELSE q.user
      OBVIOUS
    <3>4. PICK m : m = n + 1
      OBVIOUS
    <3>5. e = [on |-> on, request |-> q, passed |-> n, user |-> u]
      BY <2>3, <3>1, <3>2, <3>3
    <3>6. x = [on |-> on, request |-> q, passed |-> m, user |-> u]
      BY <2>4, <3>2, <3>3, <3>4
    <3>7. [e EXCEPT !.passed = m] = x
      BY <3>5, <3>6, OneTurn
    <3>8. e.passed = n
      BY <3>5
    <3>9. api' = [api EXCEPT ![s] = [e EXCEPT !.passed = m]]
      <4>1. api' = [api EXCEPT ![s].passed = m]
        BY <2>1, <3>1, <3>4, <3>8
      <4> QED
        BY <3>1, <4>1
    <3> QED
      BY <3>7, <3>9
  <2>6. n + 1 \in 0 .. Len(Limits[watched.route])
    <3>1. n + 1 \in 1 .. Len(Limits[watched.route])
      BY <2>2, <2>3
    <3>2. Len(Limits[watched.route]) \in Nat
      BY RouteLimits DEF WatchedOK
    <3> QED
      BY <3>1, <3>2
  <2>7. Inside(x)
    BY <2>3, <2>4, <2>6 DEF Inside
  <2> QED
    BY <2>1, <2>5, <2>7, SpendStep
<1> QED
  BY <1>1, <1>2

\* One turn of the guard's loop passes, refuses, or fails with Redis.
LEMMA CheckStep == ASSUME GInv, NEW s \in Slots, Check(s) PROVE GInv'
<1>1. api[s].on /\ ~Admitted(s) /\ UNCHANGED <<now, watched>>
  BY DEF Check
<1>2. CASE Throw(s, PlainError) /\ UNCHANGED bucket
  BY <1>1, <1>2, Replies, ThrowStep
<1> QED
  BY <1>1, <1>2, PassStep, RefuseStep DEF Check

\* Time passes.  When the watched bucket expires, what was taken from it is
\* covered by the time, but for what the clocks differ by beyond a second.
LEMMA TickStep == ASSUME GInv, Tick PROVE GInv'
<1> USE DEF GInv
<1>1. /\ now < Horizon /\ now' = now + 1
      /\ api' = api /\ watched' = watched /\ taken' = taken /\ promise' = promise
      /\ debt' = Max({0, debt - 1})
  BY DEF Tick, LimiterTick
<1>2. /\ DOMAIN bucket' = {b \in DOMAIN bucket : bucket[b].until > now'}
      /\ \A b \in DOMAIN bucket' : bucket'[b] = bucket[b]
  BY DEF Tick, LimiterTick, Restrict
<1>3. /\ now \in Nat /\ taken \in Nat /\ debt \in Nat /\ setback \in Nat /\ promise \in Nat
      /\ now' \in Nat
  BY <1>1, Rates DEF Counters
<1>4. PICK beyond \in Nat : beyond = Beyond /\ Skew - PerSecond <= beyond
  BY Clocks
<1>debt. debt' \in Nat /\ debt <= debt' + 1
  <2>1. debt - 1 \in Int
    BY <1>3
  <2>2. debt' = IF debt - 1 > 0 THEN debt - 1 ELSE 0
    BY <1>1, <2>1, PairMax
  <2> QED
    BY <1>3, <2>2
<1>5. /\ WatchedBucket \in DOMAIN bucket /\ WatchedBucket \notin DOMAIN bucket'
           => setback' = setback + beyond
      /\ ~(WatchedBucket \in DOMAIN bucket /\ WatchedBucket \notin DOMAIN bucket')
           => setback' = setback
  <2>1. setback + 0 = setback
    BY <1>3
  <2>2. setback' = setback + IF WatchedBucket \in DOMAIN bucket \ DOMAIN bucket'
                             THEN beyond ELSE 0
    BY <1>4 DEF Tick
  <2> QED
    BY <2>1, <2>2
<1>6. setback' \in Nat /\ setback <= setback'
  BY <1>3, <1>4, <1>5
<1>7. WatchedOK'
  BY <1>1 DEF WatchedOK
<1>8. SlotsOK'
  <2>1. \A t \in Slots : Inside(api[t])' <=> Inside(api[t])
    BY <1>1 DEF Inside
  <2> QED
    BY <1>1, <2>1 DEF SlotsOK, Idle
<1>9. BucketsOK'
  BY <1>2 DEF BucketsOK
<1>10. Counters'
  BY <1>debt, <1>1, <1>3, <1>6, Rates DEF Counters
<1>11. WatchedBucket' = WatchedBucket /\ Whole' = Whole /\ One' = One /\ Never' = Never
  BY <1>1 DEF WatchedBucket, Bucket, Whole, One, Never
<1>12. PICK p \in Nat : p = taken * One
  BY <1>3, OneMore, WatchedLimit
<1>most. PICK most \in Nat : most = taken * (Skew + Beyond)
  <2>1. PICK u \in Nat : u = Skew + Beyond
    BY Clocks
  <2>2. taken * u \in Nat
    BY <1>3, OneMore
  <2> QED
    BY <2>1, <2>2
<1>13. CASE WatchedBucket \notin DOMAIN bucket
  <2>1. WatchedBucket \notin DOMAIN bucket' /\ setback' = setback
    BY <1>2, <1>5, <1>13
  <2>2. p <= now + setback /\ setback <= most
    BY <1>most, <1>12, <1>13 DEF Absent
  <2>3. p <= now' + setback' /\ setback' <= most
    BY <1>1, <1>3, <2>1, <2>2
  <2>4. Present' /\ Absent'
    BY <1>most, <1>1, <1>11, <1>12, <2>1, <2>3 DEF Present, Absent
  <2> QED
    BY <1>7, <1>8, <1>9, <1>10, <2>4
<1>14. CASE WatchedBucket \in DOMAIN bucket
  <2>1. PICK h : h = bucket[WatchedBucket]
    OBVIOUS
  <2>2. Potential(h)
    BY <1>14, <2>1 DEF Present
  <2>3. h.tokens \in Nat /\ h.ts \in Nat /\ h.until \in Nat /\ Whole \in Nat
    BY <1>14, <2>1, WatchedHash, WatchedLimit
  <2>4. CASE WatchedBucket \in DOMAIN bucket'
    <3>1. bucket'[WatchedBucket] = h /\ setback' = setback
      BY <1>2, <1>5, <2>1, <2>4
    <3>2. h.ts <= now' + High
      BY <1>1, <1>3, <2>2, <2>3, Clocks DEF Potential
    <3>3. Whole + h.ts <= h.tokens + now' + High + debt'
      <4>1. Whole + h.ts <= h.tokens + now + High + debt
        BY <2>2 DEF Potential
      <4> QED
        BY <1>debt, <1>1, <1>3, <2>3, <4>1, Clocks
    <3>4. Potential(h)'
      BY <1>1, <1>11, <2>2, <3>1, <3>2, <3>3 DEF Potential
    <3>5. Present' /\ Absent'
      BY <1>11, <2>4, <3>1, <3>4 DEF Present, Absent
    <3> QED
      BY <1>7, <1>8, <1>9, <1>10, <3>5
  <2>5. CASE WatchedBucket \notin DOMAIN bucket'
    <3>1. setback' = setback + beyond
      BY <1>5, <1>14, <2>5
    <3>2. PICK k \in Nat : k = h.tokens
      BY <2>3
    <3>3. PICK a \in Nat : a = h.ts
      BY <2>3
    <3>4. PICK u \in Nat : u = h.until
      BY <2>3
    <3>5. PICK whole \in Nat : whole = Whole
      BY <2>3
    <3>6. p + k <= whole + (a - Low) + setback /\ a + whole + PerSecond <= u + High
      BY <1>12, <2>2, <3>2, <3>3, <3>4, <3>5 DEF Potential
    <3>7. u <= now'
      BY <1>2, <1>3, <1>14, <2>1, <2>5, <3>4
    <3>8. p <= now' + setback'
      <4>1. PICK d \in Int : d = High - Low - PerSecond /\ d <= beyond
        BY <1>4, Clocks, Rates
      <4>2. p <= u + d + setback
        BY <1>3, <3>6, <4>1, Clocks, Rates
      <4>3. PICK later \in Nat : later = now'
        BY <1>3
      <4>4. PICK more \in Nat : more = setback'
        BY <1>6
      <4>5. u <= later /\ more = setback + beyond
        BY <3>1, <3>7, <4>3, <4>4
      <4>6. p <= later + more
        BY <1>3, <4>1, <4>2, <4>5
      <4> QED
        BY <4>3, <4>4, <4>6
    <3>9. setback' <= most
      <4>1. setback + beyond <= most
        BY <1>most, <1>4, <2>2 DEF Potential
      <4> QED
        BY <3>1, <4>1
    <3>10. Present' /\ Absent'
      BY <1>most, <1>1, <1>11, <1>12, <2>5, <3>8, <3>9 DEF Present, Absent
    <3> QED
      BY <1>7, <1>8, <1>9, <1>10, <3>10
  <2> QED
    BY <2>4, <2>5
<1> QED
  BY <1>13, <1>14

\* Every step.
LEMMA GStep == GInv /\ [Next]_vars => GInv'
<1> SUFFICES ASSUME GInv, [Next]_vars PROVE GInv'
  OBVIOUS
<1>1. ASSUME NEW s \in Slots, NEW q \in Requests, Arrive(s, q)
      PROVE  GInv'
  BY <1>1, ArriveStep
<1>2. ASSUME NEW s \in Slots, Check(s) \/ Handle(s) PROVE GInv'
  BY <1>2, CheckStep, HandleStep
<1>3. CASE Tick
  BY <1>3, TickStep
<1>4. CASE UNCHANGED vars
  <2>1. UNCHANGED <<now, bucket, api, watched, taken, debt, setback, promise>>
    BY <1>4 DEF vars, history
  <2>2. WatchedOK' /\ SlotsOK'
    <3>1. \A t \in Slots : Inside(api[t])' <=> Inside(api[t])
      BY <2>1 DEF Inside
    <3> QED
      BY <2>1, <3>1 DEF GInv, WatchedOK, SlotsOK, Idle
  <2>3. BucketsOK' /\ Counters'
    BY <2>1 DEF GInv, BucketsOK, Counters
  <2>4. WatchedBucket' = WatchedBucket /\ Whole' = Whole /\ One' = One /\ Never' = Never
    BY <2>1 DEF WatchedBucket, Bucket, Whole, One, Never
  <2>5. PICK h : h = bucket[WatchedBucket]
    OBVIOUS
  <2>6. Potential(h) => Potential(h)'
    BY <2>1, <2>4 DEF Potential
  <2>7. Present' /\ Absent'
    BY <2>1, <2>4, <2>5, <2>6 DEF GInv, Present, Absent
  <2> QED
    BY <2>2, <2>3, <2>7 DEF GInv
<1> QED
  BY <1>1, <1>2, <1>3, <1>4 DEF Next

-----------------------------------------------------------------------------
(* The theorems                                                            *)

\* The invariant that the theorems follow from holds in every state.
THEOREM GatewayInvariance == Spec => []GInv
<1>1. Init => GInv
  BY InitGInv
<1>2. GInv /\ [Next]_vars => GInv'
  BY GStep
<1> QED
  BY <1>1, <1>2, PTL DEF Spec

\* Types: a bucket holds at most its capacity and never less than nothing, and a
\* request that is inside has passed no more limits than its route has.
THEOREM TypeCorrect == Spec => []TypeOK
<1>1. GInv => TypeOK
  <2> SUFFICES ASSUME GInv PROVE TypeOK
    OBVIOUS
  <2>1. ASSUME NEW b \in DOMAIN bucket
        PROVE  /\ \E i \in 1 .. Len(Limits[b[1]]) :
                    /\ Limits[b[1]][i].key = b[2]
                    /\ bucket[b].tokens \in 0 .. Full(Limits[b[1]][i])
               /\ bucket[b].ts \in Nat /\ bucket[b].until \in Nat
    <3>1. /\ b[1] \in Routes
          /\ bucket[b].tokens \in 0 .. Full(Config(b[1], b[2]))
          /\ bucket[b].ts \in Nat /\ bucket[b].until \in Nat
      BY DEF GInv, BucketsOK
    <3>2. PICK i \in 1 .. Len(Limits[b[1]]) : Limits[b[1]][i].key = b[2]
      BY DEF GInv, BucketsOK
    <3>3. Limits[b[1]][i] = Config(b[1], b[2])
      BY <3>1, <3>2, RouteLimits
    <3> QED
      BY <3>1, <3>2, <3>3
  <2>2. ASSUME NEW s \in Slots, api[s].on
        PROVE  /\ api[s].request \in Requests
               /\ api[s].passed \in 0 .. Len(Limits[api[s].request.route])
    <3>1. Inside(api[s])
      BY <2>2 DEF GInv, SlotsOK, Idle
    <3> QED
      BY <3>1 DEF Inside
  <2>3. Counters
    BY DEF GInv
  <2> QED
    BY <2>1, <2>2, <2>3 DEF TypeOK, Counters
<1> QED
  BY <1>1, GatewayInvariance, PTL

\* The rate holds: a subject takes no more from a limit than its capacity and what
\* the time has refilled, however often the key expires, up to what the readings of
\* the clock differ by; and what that adds is bounded for each token.
THEOREM RateBounded == Spec => []RateIsBounded
<1>1. GInv => RateIsBounded
  <2> SUFFICES ASSUME GInv PROVE RateIsBounded
    OBVIOUS
  <2>1. now \in Nat /\ taken \in Nat /\ setback \in Nat
    BY Rates DEF GInv, Counters
  <2>2. PICK p \in Nat : p = taken * One
    BY <2>1, OneMore, WatchedLimit DEF GInv
  <2>3. PICK whole \in Nat : whole = Whole
    BY WatchedLimit DEF GInv
  <2>4. CASE WatchedBucket \notin DOMAIN bucket
    <3>1. p <= now + setback /\ setback <= taken * (Skew + Beyond)
      BY <2>2, <2>4 DEF GInv, Absent
    <3>2. p <= whole + now + Skew + setback
      BY <2>1, <3>1, Clocks
    <3> QED
      BY <2>2, <2>3, <3>1, <3>2 DEF RateIsBounded, Whole, One
  <2>5. CASE WatchedBucket \in DOMAIN bucket
    <3>1. PICK k \in Nat : k = bucket[WatchedBucket].tokens
      BY <2>5, WatchedHash DEF GInv
    <3>2. PICK a \in Nat : a = bucket[WatchedBucket].ts
      BY <2>5, WatchedHash DEF GInv
    <3>3. p + k <= whole + (a - Low) + setback /\ a <= now + High
      BY <2>2, <2>3, <2>5, <3>1, <3>2 DEF GInv, Present, Potential
    <3>4. p <= whole + now + Skew + setback
      BY <2>1, <3>3, Clocks
    <3>5. setback <= taken * (Skew + Beyond)
      <4>1. setback + Beyond <= taken * (Skew + Beyond)
        BY <2>5 DEF GInv, Present, Potential
      <4>2. PICK u \in Nat : u = Skew + Beyond
        BY Clocks
      <4>3. taken * u \in Nat
        BY <2>1, OneMore
      <4> QED
        BY <2>1, <4>1, <4>2, <4>3, Clocks
    <3> QED
      BY <2>2, <2>3, <3>4, <3>5 DEF RateIsBounded, Whole, One
  <2> QED
    BY <2>4, <2>5
<1> QED
  BY <1>1, GatewayInvariance, PTL

\* The watched limit refuses only when its bucket exists and holds too little even
\* with what the time has added.
LEMMA RefusedBucket ==
  ASSUME GInv, NEW s \in Slots, Refusing(s)
  PROVE  /\ WatchedBucket \in DOMAIN bucket
         /\ bucket[WatchedBucket].tokens < One
         /\ bucket[WatchedBucket].tokens + (now + Low) < bucket[WatchedBucket].ts + One
<1> USE DEF GInv
<1>o. PICK o \in Offsets : ~Allowed(NextBucket(s), NextLimit(s), now + o)
  BY DEF Refusing
<1>1. PICK b : b = NextBucket(s)
  OBVIOUS
<1>2. PICK limit : limit = NextLimit(s)
  OBVIOUS
<1>3. PICK t \in Nat : t = now + o /\ now + Low <= t
  BY Reading
<1>4. ~Allowed(b, limit, t) /\ Watching(s) /\ api[s].on /\ ~Admitted(s)
  BY <1>o, <1>1, <1>2, <1>3 DEF Refusing
<1>5. /\ limit.capacity \in Nat \ {0} /\ limit.unit \in Nat \ {0}
      /\ limit = Config(b[1], b[2])
      /\ b = WatchedBucket
  BY <1>1, <1>2, <1>4, Turn
<1>one. PICK one \in Nat : one = limit.unit /\ one = One
  BY <1>2, <1>4, <1>5 DEF Watching, One
<1>6. Exists(b) => /\ bucket[b].tokens \in 0 .. Full(limit) /\ bucket[b].ts \in Nat
  BY <1>5 DEF Exists, BucketsOK
<1>7. /\ Full(limit) \in Nat /\ one <= Full(limit)
      /\ Refilled(b, limit, t) \in 0 .. Full(limit)
      /\ ~Exists(b) => Refilled(b, limit, t) = Full(limit)
      /\ Exists(b) /\ t >= bucket[b].ts =>
           \/ Refilled(b, limit, t) = bucket[b].tokens + (t - bucket[b].ts)
           \/ Refilled(b, limit, t) = Full(limit)
      /\ Exists(b) /\ ~(t >= bucket[b].ts) => Refilled(b, limit, t) = bucket[b].tokens
  <2>1. limit.capacity \in Nat \ {0} /\ limit.unit \in Nat \ {0} /\ t \in Nat
    BY <1>5
  <2> QED
    BY <1>one, <1>6, <2>1, RefilledIs, Zenon
<1>8. PICK left \in Nat : left = Refilled(b, limit, t)
  BY <1>7
<1>9. left < one
  BY <1>one, <1>4, <1>7, <1>8 DEF Allowed
<1>10. Exists(b)
  BY <1>7, <1>8, <1>9
<1>11. WatchedBucket \in DOMAIN bucket
  BY <1>5, <1>10 DEF Exists
<1>12. PICK k \in Nat : k = bucket[b].tokens
  BY <1>5, <1>11, WatchedHash
<1>13. PICK a \in Nat : a = bucket[b].ts
  BY <1>5, <1>11, WatchedHash
<1>14. (t >= a /\ left = k + (t - a)) \/ (~(t >= a) /\ left = k)
  BY <1>7, <1>8, <1>9, <1>10, <1>12, <1>13
<1>15. now \in Nat
  BY Rates DEF Counters
<1>16. k < one /\ k + (now + Low) < a + one
  BY <1>3, <1>9, <1>14, <1>15, Clocks
<1> QED
  BY <1>one, <1>5, <1>11, <1>12, <1>13, <1>16

\* Nobody is refused for what others did, nor for what is long ago.
THEOREM RefusedOnlyForOwnUse == Spec => []RefusedForOwnUse
<1>1. GInv => RefusedForOwnUse
  <2> SUFFICES ASSUME GInv, NEW s \in Slots, Refusing(s)
      PROVE  /\ taken >= watched.limit.capacity
             /\ debt + watched.limit.unit + Skew > Full(watched.limit)
    BY DEF RefusedForOwnUse
  <2>1. /\ WatchedBucket \in DOMAIN bucket
        /\ bucket[WatchedBucket].tokens < One
        /\ bucket[WatchedBucket].tokens + (now + Low) < bucket[WatchedBucket].ts + One
    BY RefusedBucket
  <2>2. PICK k \in Nat : k = bucket[WatchedBucket].tokens
    BY <2>1, WatchedHash DEF GInv
  <2>3. PICK a \in Nat : a = bucket[WatchedBucket].ts
    BY <2>1, WatchedHash DEF GInv
  <2>4. PICK n \in Nat : n = taken
    BY DEF GInv, Counters
  <2>5. PICK c \in Nat : c = watched.limit.capacity
    BY WatchedLimit DEF GInv
  <2>6. PICK u \in Nat : u = One
    BY WatchedLimit DEF GInv
  <2>7. n * u \in Nat /\ c * u \in Nat /\ Whole = c * u
    BY <2>5, <2>6, OneMore, WatchedLimit DEF GInv
  <2>8. taken >= watched.limit.capacity
    <3>1. n * u + k >= c * u
      BY <2>1, <2>2, <2>4, <2>6, <2>7 DEF GInv, Present, Potential
    <3>2. n * u > c * u - u
      BY <2>1, <2>2, <2>6, <2>7, <3>1
    <3> QED
      BY <2>4, <2>5, <3>2, OneMore
  <2>9. debt + u + Skew > Whole
    <3>1. PICK whole \in Nat : whole = Whole
      BY <2>7
    <3>2. whole + a <= k + now + High + debt
      BY <2>1, <2>2, <2>3, <3>1 DEF GInv, Present, Potential
    <3>3. k + (now + Low) < a + u
      BY <2>1, <2>2, <2>3, <2>6
    <3>4. now \in Nat /\ debt \in Nat
      BY Rates DEF GInv, Counters
    <3>5. debt + u + Skew > whole
      BY <3>2, <3>3, <3>4, Clocks
    <3> QED
      BY <3>1, <3>5
  <2> QED
    BY <2>6, <2>8, <2>9 DEF Whole, One
<1> QED
  BY <1>1, GatewayInvariance, PTL

\* A client that waits as long as the 429 said, and is not overtaken, is let in.
THEOREM RetryIsEnough == Spec => []RetryAfterSuffices
<1>1. GInv => RetryAfterSuffices
  <2> SUFFICES ASSUME GInv, NEW s \in Slots, Refusing(s) PROVE now < promise + Skew
    BY DEF RetryAfterSuffices
  <2>1. /\ WatchedBucket \in DOMAIN bucket
        /\ bucket[WatchedBucket].tokens + (now + Low) < bucket[WatchedBucket].ts + One
    BY RefusedBucket
  <2>2. PICK k \in Nat : k = bucket[WatchedBucket].tokens
    BY <2>1, WatchedHash DEF GInv
  <2>3. PICK a \in Nat : a = bucket[WatchedBucket].ts
    BY <2>1, WatchedHash DEF GInv
  <2>4. now \in 0 .. Horizon /\ promise \in Nat
    BY DEF GInv, Counters
  <2>one. PICK u \in Nat : u = One
    BY WatchedLimit DEF GInv
  <2>5. CASE promise = Never
    BY <2>4, <2>5, Clocks, Rates DEF Never
  <2>6. CASE a + u <= k + promise + High
    <3>1. k + (now + Low) < a + u
      BY <2>one, <2>1, <2>2, <2>3
    <3> QED
      BY <2>4, <2>6, <3>1, Clocks, Rates
  <2> QED
    BY <2>one, <2>1, <2>2, <2>3, <2>5, <2>6 DEF GInv, Present, Potential
<1> QED
  BY <1>1, GatewayInvariance, PTL
=============================================================================
