------------------------------ MODULE Accounts ------------------------------
(***************************************************************************)
(* Registration, OTP verification, resend and login (AuthService with      *)
(* OtpService and UsersRepository), on top of Sessions, whose tokens they  *)
(* issue.  A user is an identifier, of which UNIQUE (email) and UNIQUE     *)
(* (phone) allow one row.  Every query outside a transaction is a step of  *)
(* its own, so what a request read may be out of date when it acts on it.  *)
(* A guess is the number of the OTP whose code the client sends, or 0 for  *)
(* a code that is nobody's: codes do not collide here.  Passwords match.   *)
(***************************************************************************)
EXTENDS Sessions, Sequences

CONSTANTS
  Slots,           \* requests running at the same time
  TestUsers,       \* users that prisma/seed.ts creates
  MaxOtpAttempts,  \* MAX_OTP_ATTEMPTS
  OtpTTL,          \* OTP_TTL_SECONDS, in clock ticks
  MaxOtps          \* bound: OTPs made in a behaviour

ASSUME AccountsAssumption ==
  /\ Slots # {} /\ IsFiniteSet(Slots) /\ TestUsers \subseteq Users
  /\ MaxOtpAttempts \in Nat \ {0} /\ OtpTTL \in Nat \ {0} /\ MaxOtps \in Nat

VARIABLES
  status,    \* users.status, or "none" without a row
  otps,      \* the otp_codes rows
  req,       \* what runs in each slot
  accepted,  \* history: how often each OTP turned its user ACTIVE
  late,      \* history: OTPs made for each user when ACTIVE already
  seeded     \* history: users that the seed script has created

vars == <<sessions, status, otps, req, accepted, late, seeded>>

Statuses == {"none", "PENDING_VERIFICATION", "ACTIVE"}
Otp == [user : Users, created : Nat, expires : Nat \ {0}, used : BOOLEAN, attempts : Nat]
Kinds == {"register", "resend", "verify", "login"}
Stages == Kinds \cup {"idle", "create user", "create otp", "select", "count",
                      "activate", "issue"}
Idle == [at |-> "idle", user |-> CHOOSE u \in Users : TRUE, code |-> 0, otp |-> 0,
         expires |-> 0]

Init ==
  /\ SessionsInit
  /\ status = [u \in Users |-> "none"]
  /\ otps = <<>>
  /\ req = [s \in Slots |-> Idle]
  /\ accepted = [o \in 1 .. MaxOtps |-> 0]
  /\ late = [u \in Users |-> 0]
  /\ seeded = {}

-----------------------------------------------------------------------------
At(s, stage) == req[s].at = stage
User(s) == req[s].user
GoTo(s, stage) == req' = [req EXCEPT ![s].at = stage]
Finish(s) == req' = [req EXCEPT ![s] = Idle]

\* The OTPs findValid chooses from, and those it may return: the newest.
ValidUsedToo(u) ==                              \* mutant: used not in the query
  {o \in DOMAIN otps : otps[o].user = u /\ now < otps[o].expires
                       /\ otps[o].attempts < MaxOtpAttempts}
Valid(u) ==
  {o \in DOMAIN otps : otps[o].user = u /\ ~otps[o].used /\ now < otps[o].expires
                       /\ otps[o].attempts < MaxOtpAttempts}
Newest(os) == {o \in os : \A p \in os : otps[p].created <= otps[o].created}

\* INSERT INTO otp_codes, next to its otp.send outbox row.
AddOtp(s) ==
  /\ Len(otps) < MaxOtps
  /\ otps' = Append(otps, [user |-> User(s), created |-> now, used |-> FALSE,
                           expires |-> req[s].expires, attempts |-> 0])

\* UPDATE users and UPDATE otp_codes, each by its id.
MarkActive(u) == status' = [status EXCEPT ![u] = "ACTIVE"]
MarkUsed(o) == otps' = [otps EXCEPT ![o].used = TRUE]

-----------------------------------------------------------------------------
Arrive(s, kind, u, code) ==
  /\ At(s, "idle")
  /\ req' = [req EXCEPT ![s] = [Idle EXCEPT !.at = kind, !.user = u, !.code = code]]
  /\ UNCHANGED <<sessions, status, otps, accepted, late, seeded>>

PrepareNoExpiry(s) ==                           \* mutant: no expiresAt
  /\ \/ At(s, "register") /\ status[User(s)] = "none"
     \/ At(s, "resend") /\ status[User(s)] = "PENDING_VERIFICATION"
  /\ GoTo(s, IF At(s, "register") THEN "create user" ELSE "create otp")
  /\ UNCHANGED <<sessions, status, otps, accepted, late, seeded>>

PrepareAnyStatus(s) ==                          \* mutant: resend to anyone
  /\ \/ At(s, "register") /\ status[User(s)] = "none"
     \/ At(s, "resend") /\ status[User(s)] # "none"
  /\ req' = [req EXCEPT ![s].expires = now + OtpTTL,
       ![s].at = IF @ = "register" THEN "create user" ELSE "create otp"]
  /\ UNCHANGED <<sessions, status, otps, accepted, late, seeded>>

\* findByIdentifier, then otp.prepare() reads the clock.
Prepare(s) ==
  /\ \/ At(s, "register") /\ status[User(s)] = "none"
     \/ At(s, "resend") /\ status[User(s)] = "PENDING_VERIFICATION"
  /\ req' = [req EXCEPT ![s].expires = now + OtpTTL,
       ![s].at = IF @ = "register" THEN "create user" ELSE "create otp"]
  /\ UNCHANGED <<sessions, status, otps, accepted, late, seeded>>

\* identifier_taken; the silent 204 of resend; otp_invalid; account_not_verified.
TurnAway(s) ==
  /\ \/ At(s, "register") /\ status[User(s)] # "none"
     \/ At(s, "resend") /\ status[User(s)] # "PENDING_VERIFICATION"
     \/ At(s, "verify") /\ status[User(s)] = "none"
     \/ At(s, "login") /\ status[User(s)] # "ACTIVE"
  /\ Finish(s)
  /\ UNCHANGED <<sessions, status, otps, accepted, late, seeded>>

\* One transaction for the user, the OTP and the event; P2002 ends it.
CreateUserOnly(s) ==                            \* mutant: the OTP is left out
  /\ At(s, "create user")
  /\ status' = [status EXCEPT ![User(s)] =
                  IF @ = "none" THEN "PENDING_VERIFICATION" ELSE @]
  /\ Finish(s)
  /\ UNCHANGED <<sessions, otps, accepted, late, seeded>>

CreateUser(s) ==
  /\ At(s, "create user")
  /\ \/ /\ status[User(s)] = "none"
        /\ status' = [status EXCEPT ![User(s)] = "PENDING_VERIFICATION"]
        /\ AddOtp(s)
     \/ status[User(s)] # "none" /\ UNCHANGED <<status, otps>>
  /\ Finish(s)
  /\ UNCHANGED <<sessions, accepted, late, seeded>>

\* The status is not looked at again.
CreateOtp(s) ==
  /\ At(s, "create otp")
  /\ AddOtp(s)
  /\ late' = [late EXCEPT ![User(s)] = @ + IF status[User(s)] = "ACTIVE" THEN 1 ELSE 0]
  /\ Finish(s)
  /\ UNCHANGED <<sessions, status, accepted, seeded>>

\* The row exists: verification goes on to the OTPs, login to the tokens.
FindUser(s) ==
  /\ \/ At(s, "verify") /\ status[User(s)] # "none" /\ GoTo(s, "select")
     \/ At(s, "login") /\ status[User(s)] = "ACTIVE" /\ GoTo(s, "issue")
  /\ UNCHANGED <<sessions, status, otps, accepted, late, seeded>>

\* findValid and the comparison of the codes; without a row, otp_expired.
SelectOtp(s) ==
  /\ At(s, "select")
  /\ \/ \E o \in Newest(Valid(User(s))) :
          req' = [req EXCEPT ![s].otp = o,
                             ![s].at = IF req[s].code = o THEN "activate" ELSE "count"]
     \/ Valid(User(s)) = {} /\ Finish(s)
  /\ UNCHANGED <<sessions, status, otps, accepted, late, seeded>>

\* incrementAttempts: attempts = attempts + 1 in the database; otp_invalid.
CountAttempt(s) ==
  /\ At(s, "count")
  /\ otps' = [otps EXCEPT ![req[s].otp].attempts = @ + 1]
  /\ Finish(s)
  /\ UNCHANGED <<sessions, status, accepted, late, seeded>>

\* markUsed and markActive in one transaction, on what SelectOtp has read.
Activate(s) ==
  /\ At(s, "activate")
  /\ MarkUsed(req[s].otp) /\ MarkActive(User(s))
  /\ accepted' = [accepted EXCEPT ![req[s].otp] = @ + 1]
  /\ GoTo(s, "issue")
  /\ UNCHANGED <<sessions, late, seeded>>

IssuePair(s) ==
  /\ At(s, "issue")
  /\ SignIn(User(s))
  /\ Finish(s)
  /\ UNCHANGED <<status, otps, accepted, late, seeded>>

\* A query or a transaction fails, or the replica dies.
Fail(s) ==
  /\ ~At(s, "idle")
  /\ Finish(s)
  /\ UNCHANGED <<sessions, status, otps, accepted, late, seeded>>

SeedUserAnyway(u) ==                            \* mutant: an upsert
  /\ u \in TestUsers
  /\ MarkActive(u)
  /\ seeded' = IF status[u] = "none" THEN seeded \cup {u} ELSE seeded
  /\ UNCHANGED <<sessions, otps, req, accepted, late>>

\* The seed script creates test users as ACTIVE, without an OTP, and leaves an
\* account that is there as it is.  Between its look and its insert a
\* registration may come: UNIQUE then ends the script.
SeedUser(u) ==
  /\ u \in TestUsers /\ status[u] = "none"
  /\ MarkActive(u)
  /\ seeded' = seeded \cup {u}
  /\ UNCHANGED <<sessions, otps, req, accepted, late>>

-----------------------------------------------------------------------------
Serve(s) ==
  \/ Prepare(s) \/ TurnAway(s) \/ CreateUser(s) \/ CreateOtp(s) \/ FindUser(s)
  \/ SelectOtp(s) \/ CountAttempt(s) \/ Activate(s) \/ IssuePair(s) \/ Fail(s)

Next ==
  \/ \E s \in Slots, kind \in Kinds, u \in Users : Arrive(s, kind, u, 0)
  \/ \E s \in Slots, u \in Users, o \in DOMAIN otps : Arrive(s, "verify", u, o)
  \/ \E s \in Slots : Serve(s)
  \/ \E u \in TestUsers : SeedUser(u)
  \/ /\ Expire \/ \E c \in Calls : CallStep(c)
     /\ UNCHANGED <<status, otps, req, accepted, late, seeded>>

Spec == Init /\ [][Next]_vars

-----------------------------------------------------------------------------
(* What must hold                                                          *)

\* Types of the rows and the requests, next to those of Sessions.
TypeOK ==
  /\ SessionsTypeOK
  /\ status \in [Users -> Statuses]
  /\ otps \in Seq(Otp) /\ Len(otps) <= MaxOtps
  /\ accepted \in [1 .. MaxOtps -> Nat] /\ late \in [Users -> Nat]
  /\ seeded \subseteq TestUsers
  /\ req \in [Slots -> [at : Stages, user : Users, code : 0 .. MaxOtps,
                        otp : 0 .. MaxOtps, expires : Nat]]

\* MAX_OTP_ATTEMPTS and the used flag are read by findValid and written later.
\* What a limit may be overrun by is the requests that had read the row when
\* it was reached, one for each slot, and nothing that comes later.
InFlight(stage, o) == Cardinality({s \in Slots : At(s, stage) /\ req[s].otp = o})
OverrunIsInFlight ==
  \A o \in DOMAIN otps :
    /\ otps[o].attempts + InFlight("count", o) < MaxOtpAttempts + Cardinality(Slots)
    /\ accepted[o] + InFlight("activate", o) <= Cardinality(Slots)

\* resend reads the status, and makes the OTP later without another look: an
\* ACTIVE user gets at most one from each resend that was under way when the
\* request that activated the user committed, and none from a later one.
LateOtpIsInFlight ==
  \A u \in Users : status[u] = "ACTIVE" =>
    late[u] + Cardinality({s \in Slots : At(s, "create otp") /\ User(s) = u})
      < Cardinality(Slots)

\* A user is ACTIVE exactly when one of their OTPs was accepted, has an OTP
\* from the first moment on, and every session belongs to an ACTIVE user.  The
\* seed script is the one way around this, and for users it created itself.
ActiveIsVerified ==
  /\ \A u \in Users :
       LET own == {o \in DOMAIN otps : otps[o].user = u} IN
       IF u \in seeded THEN status[u] = "ACTIVE" /\ own = {}
       ELSE /\ status[u] = "ACTIVE" <=> \E o \in own : otps[o].used
            /\ status[u] # "none" => own # {}
  /\ \A e \in store : status[e.user] = "ACTIVE"
  /\ \A o \in DOMAIN otps : otps[o].used <=> accepted[o] > 0

=============================================================================
