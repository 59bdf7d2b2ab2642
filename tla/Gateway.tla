------------------------------- MODULE Gateway ------------------------------
(***************************************************************************)
(* The way of a request through the API: JwtAuthGuard, RateLimitGuard with *)
(* one bucket for each configured limit of the route, interceptors, the    *)
(* ValidationPipe and the handler, and AppErrorFilter on the way out.      *)
(*                                                                         *)
(* Buckets of different routes have different prefixes, so a behaviour     *)
(* follows the requests of one route, that of the watched subject.         *)
(***************************************************************************)
EXTENDS RateLimit, Sequences

CONSTANTS
  Capacity, Unit,  \* [route, key -> Nat]: the @RateLimit configs
  Requests,        \* [route, ip, user, identifier, valid] as Fastify delivers them
  NoUser,          \* user of a request whose token does not verify
  NoAddress,       \* req.ip of a request without one
  Normalised,      \* [spelling -> account]; a string not in it is invalid
  Offsets,         \* how far Date.now() may be ahead when its script runs
  Slots            \* requests in the API at the same time

\* The decorators of the controllers: who needs a token, which limits stand in
\* front of a handler and in which order, and whose service takes an identifier.
Routes == {"register", "verify-otp", "login", "refresh", "logout", "resend-otp",
           "active", "purchase"}
Public == Routes \ {"logout", "purchase"}
NeedsIdentifier == {"register", "verify-otp", "login", "resend-otp"}

Config(route, key) ==
  [key |-> key, capacity |-> Capacity[<<route, key>>], unit |-> Unit[<<route, key>>]]
Limits == [route \in Routes |->
  CASE route = "login" -> <<Config(route, "ip"), Config(route, "identifier")>>
    [] route = "register" -> <<Config(route, "ip")>>
    [] route \in {"verify-otp", "resend-otp"} -> <<Config(route, "identifier")>>
    [] route = "purchase" -> <<Config(route, "user_id")>>
    [] OTHER -> <<>>]

Bucket(route, key, value) == <<route, key, value>>

ASSUME GatewayAssumption ==
  /\ \A route \in Routes, key \in {"ip", "identifier", "user_id"} :
       Capacity[<<route, key>>] \in Nat \ {0} /\ Unit[<<route, key>>] \in Nat \ {0}
  /\ Offsets \subseteq Nat /\ Offsets # {} /\ IsFiniteSet(Offsets)
  /\ \A q \in Requests : q.route \in Routes /\ q.valid \in BOOLEAN

VARIABLES
  api,       \* the request in each slot: req.user, and how many limits it passed
  watched,   \* the subject whom the histories below are about
  taken,     \* history: tokens taken by the subject
  debt,      \* history: shares it has taken, less what time has given back since
  setback,   \* history: time that its bucket has counted twice, in all
  promise    \* history: when one client of the subject was told to come again

history == <<taken, debt, setback, promise>>
vars == <<now, bucket, api, watched, history>>

-----------------------------------------------------------------------------
(* Who a request is, to the guard and to the services                      *)

Valid(identifier) == identifier \in DOMAIN Normalised

\* normalizeIdentifier; a string that it rejects is the guard's key as it is.
Normal(identifier) == IF Valid(identifier) THEN Normalised[identifier] ELSE identifier

\* req.ip, which is what X-Forwarded-For says (trustProxy), or 'unknown'.
Address(q) == IF q.ip = NoAddress THEN "unknown" ELSE q.ip

\* The user that a token is for, the account that AuthService looks up, or the
\* address: what a limit is meant to count.  Those without an address are one.
Subject(q, key) ==
  CASE key = "ip" -> Address(q)
    [] key = "user_id" -> q.user
    [] key = "identifier" -> Normal(q.identifier)

\* extractKeyValue, with req.user as the guards before have left it.
KeyAsSpelled(q, user, key) ==                    \* mutant: body.identifier itself
  CASE key = "ip" -> Address(q)
    [] key = "user_id" -> user
    [] key = "identifier" -> q.identifier
KeyBeforeAuth(q, user, key) ==                   \* mutant: RateLimitGuard is first
  CASE key = "ip" -> Address(q)
    [] key = "user_id" -> "unauthenticated"
    [] key = "identifier" -> Normal(q.identifier)
KeyValue(q, user, key) ==
  CASE key = "ip" -> Address(q)
    [] key = "user_id" -> IF user = NoUser THEN "unauthenticated" ELSE user
    [] key = "identifier" -> Normal(q.identifier)

Idle == [on |-> FALSE]
Entered(q, user) == [on |-> TRUE, request |-> q, user |-> user, passed |-> 0]

\* The limit whose turn it is in a slot, and its bucket.
Admitted(s) == api[s].passed = Len(Limits[api[s].request.route])
NextLimit(s) == Limits[api[s].request.route][api[s].passed + 1]
NextBucket(s) ==
  Bucket(api[s].request.route, NextLimit(s).key,
         KeyValue(api[s].request, api[s].user, NextLimit(s).key))

\* By how much two readings of Date.now() differ whose scripts run at one time:
\* the clocks of the replicas differ, and each script comes some time after its
\* reading.  The second in the time to live makes up for a second of it.
Skew == Max(Offsets) - Min(Offsets)
Beyond == Max({0, Skew - PerSecond})

\* The bucket of the watched subject, and its turn at the watched limit.
WatchedBucket == Bucket(watched.route, watched.limit.key, watched.subject)
Watching(s) ==
  /\ NextLimit(s) = watched.limit
  /\ Subject(api[s].request, watched.limit.key) = watched.subject

-----------------------------------------------------------------------------
(* What goes wrong, and what the client is told (AppErrorFilter)           *)

Nothing == <<>>
AppHttpException(status, code, details) ==
  [class |-> "app", status |-> status, code |-> code, details |-> details]
HttpException(status, issues) ==
  [class |-> "http", status |-> status, issues |-> issues]
PlainError == [class |-> "error"]

StatusCode(status) ==
  CASE status = 401 -> "unauthorized"
    [] status = 429 -> "rate_limited"
    [] OTHER -> "http_error"

Answer(status, code, details) == [status |-> status, code |-> code, details |-> details]

ReplyUndetailed(e) ==                            \* mutant: details are not passed on
  CASE e.class = "app" -> Answer(e.status, e.code, Nothing)
    [] e.class = "http" -> Answer(e.status, StatusCode(e.status), Nothing)
    [] OTHER -> Answer(500, "internal_error", Nothing)
Invalid(e) == e.class = "http" /\ e.status = 400 /\ e.issues # Nothing
Reply(e) ==
  CASE e.class = "app" -> Answer(e.status, e.code, e.details)
    [] Invalid(e) -> Answer(400, "validation_failed", e.issues)
    [] e.class = "http" /\ ~Invalid(e) -> Answer(e.status, StatusCode(e.status), Nothing)
    [] e.class = "error" -> Answer(500, "internal_error", Nothing)

\* Until when a client that is refused is asked to wait.
Told(reply) == IF reply.details = Nothing THEN 0 ELSE reply.details[1]
ComeAgain(reply) == now + Told(reply) * PerSecond

Never == Horizon + 1

-----------------------------------------------------------------------------
Init ==
  /\ LimiterInit
  /\ api = [s \in Slots |-> Idle]
  /\ \E q \in Requests : \E i \in 1 .. Len(Limits[q.route]) :
       LET limit == Limits[q.route][i]  subject == Subject(q, limit.key) IN
       subject # NoUser /\ watched = [route |-> q.route, limit |-> limit, subject |-> subject]
  /\ taken = 0 /\ debt = 0 /\ setback = 0 /\ promise = Never

\* A request ends with an exception, and the client with the filter's reply to
\* it.  One refused client of the watched subject remembers what it was told.
Throw(s, e) ==
  LET reply == Reply(e) IN
  /\ api' = [api EXCEPT ![s] = Idle]
  /\ \/ UNCHANGED promise
     \/ reply.code = "rate_limited" /\ Watching(s) /\ promise' = ComeAgain(reply)
  /\ UNCHANGED <<taken, debt, setback>>

\* JwtAuthGuard: a public route is entered without a user, any other with the
\* user of the token, or not at all.
Arrive(s, q) ==
  /\ ~api[s].on /\ q.route = watched.route
  /\ \/ /\ q.route \in Public
        /\ api' = [api EXCEPT ![s] = Entered(q, NoUser)]
        /\ UNCHANGED history
     \/ /\ q.route \notin Public /\ q.user # NoUser
        /\ api' = [api EXCEPT ![s] = Entered(q, q.user)]
        /\ UNCHANGED history
     \/ /\ q.route \notin Public /\ q.user = NoUser
        /\ Throw(s, HttpException(401, Nothing))
  /\ UNCHANGED <<now, bucket, watched>>

\* One turn of the loop of RateLimitGuard, where the script works with a Date.now()
\* that is ahead by o: it takes a token, and its answer arrives or is lost; it
\* refuses; or it never runs.  Tokens of earlier limits stay spent.
Spend(s, o) ==
  LET b == NextBucket(s)  limit == NextLimit(s)  t == now + o IN
  /\ Allowed(b, limit, t)
  /\ TakeToken(b, limit, t)
  /\ IF Watching(s)
     THEN /\ taken' = taken + 1
          /\ debt' = debt + limit.unit
          /\ setback' = setback + BackwardsBy(b, t)
          /\ promise' = Never
     ELSE UNCHANGED history

Pass(s, o) == Spend(s, o) /\ api' = [api EXCEPT ![s].passed = @ + 1]
PassUnanswered(s, o) == Spend(s, o) /\ api' = [api EXCEPT ![s] = Idle]

Refuse(s, o) ==
  LET b == NextBucket(s)  limit == NextLimit(s)  t == now + o IN
  /\ ~Allowed(b, limit, t)
  /\ Throw(s, AppHttpException(429, "rate_limited", <<RetrySeconds(b, limit, t)>>))
  /\ UNCHANGED bucket

Check(s) ==
  /\ api[s].on /\ ~Admitted(s)
  /\ \/ \E o \in Offsets : Pass(s, o) \/ PassUnanswered(s, o) \/ Refuse(s, o)
     \/ Throw(s, PlainError) /\ UNCHANGED bucket
  /\ UNCHANGED <<now, watched>>

\* The pipe refuses a body that does not fit its DTO, and the service fails on an
\* identifier that it cannot normalise.  Whatever else becomes of the request,
\* no token is given back.
Handle(s) ==
  LET q == api[s].request IN
  /\ api[s].on /\ Admitted(s)
  /\ \/ ~q.valid /\ Throw(s, HttpException(400, <<"issues">>))
     \/ q.valid /\ q.route \in NeedsIdentifier /\ ~Valid(q.identifier) /\ Throw(s, PlainError)
     \/ q.valid /\ api' = [api EXCEPT ![s] = Idle] /\ UNCHANGED history
  /\ UNCHANGED <<now, bucket, watched>>

\* A key that expires takes its ts with it.
Tick ==
  /\ LimiterTick
  /\ debt' = Max({0, debt - 1})
  /\ setback' = setback + IF WatchedBucket \in DOMAIN bucket \ DOMAIN bucket'
                          THEN Beyond ELSE 0
  /\ UNCHANGED <<api, watched, taken, promise>>

Next ==
  \/ \E s \in Slots, q \in Requests : Arrive(s, q)
  \/ \E s \in Slots : Check(s) \/ Handle(s)
  \/ Tick

Spec == Init /\ [][Next]_vars

-----------------------------------------------------------------------------
(* What must hold                                                          *)

\* Types; no bucket holds a negative number of tokens or more than fit.
TypeOK ==
  /\ now \in 0 .. Horizon
  /\ \A b \in DOMAIN bucket :
       /\ \E i \in 1 .. Len(Limits[b[1]]) :
            /\ Limits[b[1]][i].key = b[2]
            /\ bucket[b].tokens \in 0 .. Full(Limits[b[1]][i])
       /\ bucket[b].ts \in Nat /\ bucket[b].until \in Nat
  /\ \A s \in Slots : api[s].on =>
       /\ api[s].request \in Requests
       /\ api[s].passed \in 0 .. Len(Limits[api[s].request.route])
  /\ taken \in Nat /\ debt \in Nat /\ setback \in Nat /\ promise \in Nat

\* One subject gets no more through a limit than the capacity and what the time
\* that passed refills: over expiries of the key, and however its requests spell
\* the identifier.  Readings of the clock that differ can stretch this by their
\* difference, and by what they made the bucket count twice; that is at most
\* Skew for each token taken, by ts moving backwards, and Beyond for each, when
\* the key expires after it.  A limit whose tokens take less time than that to
\* refill bounds nothing.
RateIsBounded ==
  /\ taken * watched.limit.unit <= Full(watched.limit) + now + Skew + setback
  /\ setback <= taken * (Skew + Beyond)

\* A script of the watched subject may now be refused by the watched limit.
Refusing(s) ==
  /\ api[s].on /\ ~Admitted(s) /\ Watching(s)
  /\ \E o \in Offsets : ~Allowed(NextBucket(s), NextLimit(s), now + o)

\* Nobody is refused for what others did, nor for what is long ago: a subject that
\* a limit refuses has itself taken a bucketful, and of what it took time has not
\* given back more than a token and the difference of the clocks.
RefusedForOwnUse ==
  \A s \in Slots : Refusing(s) =>
    /\ taken >= watched.limit.capacity
    /\ debt + watched.limit.unit + Skew > Full(watched.limit)

\* Who waits as long as the 429 said, and is not overtaken, is let in: at most
\* a difference of clocks comes on top.
RetryAfterSuffices == \A s \in Slots : Refusing(s) => now < promise + Skew
=============================================================================
