--------------------------- MODULE AccountsProofs ---------------------------
(***************************************************************************)
(* Theorems of Accounts, for every number of users, requests, OTPs and     *)
(* attempts.  A step of Accounts is a step of Sessions or leaves its       *)
(* variables alone, so what SessionsProofs shows holds here as well.       *)
(***************************************************************************)
EXTENDS Accounts, SessionsProofs

Request == [at : Stages, user : Users, code : 0 .. MaxOtps, otp : 0 .. MaxOtps,
            expires : Nat]

\* What the assumption says, in the portions the proofs cite.
LEMMA Limits ==
  /\ Slots # {} /\ IsFiniteSet(Slots) /\ TestUsers \subseteq Users
  /\ MaxOtpAttempts \in Nat /\ MaxOtpAttempts # 0 /\ OtpTTL \in Nat /\ OtpTTL # 0
  /\ MaxOtps \in Nat
  /\ Cardinality(Slots) \in Nat /\ Cardinality(Slots) # 0
<1>1. Slots # {} /\ IsFiniteSet(Slots)
  BY AccountsAssumption
<1>2. Cardinality(Slots) \in Nat /\ Cardinality(Slots) # 0
  BY <1>1, FS_CardinalityType, FS_EmptySet
<1> QED
  BY <1>1, <1>2, AccountsAssumption

\* A request at rest.
LEMMA IdleType == Idle \in Request /\ Idle.at = "idle"
<1>1. (CHOOSE u \in Users : TRUE) \in Users
  BY SessionsAssumption
<1>2. 0 \in 0 .. MaxOtps
  BY Limits
<1> QED
  BY <1>1, <1>2 DEF Idle, Request, Stages

\* The requests that are at one place form a set of at most all the slots, and
\* one slot moves at a time.
LEMMA CrowdMoves ==
  ASSUME NEW A \in SUBSET Slots, NEW B \in SUBSET Slots, NEW s \in Slots,
         \A t \in Slots : t # s => (t \in A <=> t \in B)
  PROVE  /\ Cardinality(A) \in Nat /\ Cardinality(B) \in Nat
         /\ Cardinality(B) <= Cardinality(Slots)
         /\ s \notin B => Cardinality(B) < Cardinality(Slots)
         /\ s \notin B => Cardinality(B) <= Cardinality(A)
         /\ s \in A /\ s \notin B => Cardinality(B) = Cardinality(A) - 1
<1>1. IsFiniteSet(A) /\ IsFiniteSet(B)
  BY Limits, FS_Subset
<1>2. /\ Cardinality(A) \in Nat /\ Cardinality(B) \in Nat
      /\ Cardinality(B) <= Cardinality(Slots)
  BY <1>1, Limits, FS_CardinalityType, FS_Subset
<1>3. ASSUME s \notin B
      PROVE  /\ Cardinality(B) < Cardinality(Slots)
             /\ Cardinality(B) <= Cardinality(A)
             /\ s \in A => Cardinality(B) = Cardinality(A) - 1
  <2>1. B = A \ {s} /\ B \subseteq Slots \ {s}
    BY <1>3
  <2>2. Cardinality(A \ {s}) = IF s \in A THEN Cardinality(A) - 1 ELSE Cardinality(A)
    BY <1>1, FS_RemoveElement
  <2>3. /\ IsFiniteSet(Slots \ {s})
        /\ Cardinality(Slots \ {s}) = Cardinality(Slots) - 1
    BY Limits, FS_RemoveElement
  <2>4. Cardinality(B) <= Cardinality(Slots \ {s})
    BY <2>1, <2>3, FS_Subset
  <2> QED
    BY <1>2, <2>1, <2>2, <2>3, <2>4, Limits
<1> QED
  BY <1>2, <1>3

-----------------------------------------------------------------------------
(* The inductive invariant                                                 *)

Typed ==
  /\ status \in [Users -> Statuses]
  /\ otps \in Seq(Otp) /\ Len(otps) <= MaxOtps
  /\ accepted \in [1 .. MaxOtps -> Nat] /\ late \in [Users -> Nat]
  /\ seeded \subseteq TestUsers
  /\ req \in [Slots -> Request]

\* What a request has read and still relies on.
Chosen ==
  \A s \in Slots :
    /\ req[s].at \in {"count", "activate"} =>
         req[s].otp \in DOMAIN otps /\ otps[req[s].otp].user = User(s)
    /\ req[s].at \in {"create user", "create otp"} => req[s].expires # 0
    /\ At(s, "create otp") => status[User(s)] # "none" /\ User(s) \notin seeded
    /\ At(s, "issue") => status[User(s)] = "ACTIVE"

\* What has not happened yet has left no trace.
Untouched ==
  /\ \A u \in Users : status[u] = "none" => \A o \in DOMAIN otps : otps[o].user # u
  /\ \A u \in Users : status[u] # "ACTIVE" => late[u] = 0
  /\ \A o \in 1 .. MaxOtps : o \notin DOMAIN otps => accepted[o] = 0

\* Every session, and every call about one, is of an ACTIVE user.
Entitled ==
  /\ \A e \in store \cup held : status[e.user] = "ACTIVE"
  /\ \A c \in Calls : call[c].at # "idle" => status[call[c].user] = "ACTIVE"

\* The requests under way, as sets.
Counting(o) == {s \in Slots : At(s, "count") /\ req[s].otp = o}
Activating(o) == {s \in Slots : At(s, "activate") /\ req[s].otp = o}
Creating(u) == {s \in Slots : At(s, "create otp") /\ User(s) = u}

\* The limits and the accounts, clause by clause.
Limited ==
  \A o \in DOMAIN otps :
    /\ otps[o].attempts + Cardinality(Counting(o)) < MaxOtpAttempts + Cardinality(Slots)
    /\ accepted[o] + Cardinality(Activating(o)) <= Cardinality(Slots)
Bounded ==
  \A u \in Users : status[u] = "ACTIVE" => late[u] + Cardinality(Creating(u)) < Cardinality(Slots)
SeededAsIs ==
  \A u \in seeded : status[u] = "ACTIVE" /\ \A o \in DOMAIN otps : otps[o].user # u
VerifiedByOtp ==
  \A u \in Users \ seeded :
    status[u] = "ACTIVE" <=> \E o \in DOMAIN otps : otps[o].user = u /\ otps[o].used
HasOtp ==
  \A u \in Users \ seeded : status[u] # "none" => \E o \in DOMAIN otps : otps[o].user = u
UsedIsAccepted == \A o \in DOMAIN otps : otps[o].used <=> accepted[o] > 0

AInv ==
  /\ Typed /\ Chosen /\ Untouched /\ Entitled /\ Limited /\ Bounded
  /\ SeededAsIs /\ VerifiedByOtp /\ HasOtp /\ UsedIsAccepted

\* The clauses are what the runs check.
LEMMA Clauses ==
  /\ OverrunIsInFlight <=> Limited
  /\ LateOtpIsInFlight <=> Bounded
  /\ seeded \subseteq Users /\ Entitled =>
       (ActiveIsVerified <=> SeededAsIs /\ VerifiedByOtp /\ HasOtp /\ UsedIsAccepted)
<1>1. OverrunIsInFlight <=> Limited
  BY DEF OverrunIsInFlight, Limited, InFlight, Counting, Activating
<1>2. LateOtpIsInFlight <=> Bounded
  BY DEF LateOtpIsInFlight, Bounded, Creating
<1>3. ASSUME seeded \subseteq Users, Entitled
      PROVE  ActiveIsVerified <=> SeededAsIs /\ VerifiedByOtp /\ HasOtp /\ UsedIsAccepted
  <2>1. ASSUME ActiveIsVerified
        PROVE  SeededAsIs /\ VerifiedByOtp /\ HasOtp /\ UsedIsAccepted
    BY <1>3, <2>1 DEF ActiveIsVerified, SeededAsIs, VerifiedByOtp, HasOtp, UsedIsAccepted
  <2>2. ASSUME SeededAsIs, VerifiedByOtp, HasOtp, UsedIsAccepted
        PROVE  ActiveIsVerified
    BY <1>3, <2>2 DEF ActiveIsVerified, SeededAsIs, VerifiedByOtp, HasOtp, UsedIsAccepted,
       Entitled
  <2> QED
    BY <2>1, <2>2
<1> QED
  BY <1>1, <1>2, <1>3

\* Nobody has come at first.
LEMMA InitAInv == Init => AInv
<1> SUFFICES ASSUME Init PROVE AInv
  OBVIOUS
<1> USE DEF Init, SessionsInit
<1>1. Typed
  <2>1. req \in [Slots -> Request]
    <3>1. req = [s \in Slots |-> Idle]
      OBVIOUS
    <3> QED
      BY <3>1, IdleType
  <2>2. otps \in Seq(Otp) /\ Len(otps) <= MaxOtps
    BY Limits
  <2>3. status \in [Users -> Statuses] /\ late \in [Users -> Nat]
    BY DEF Statuses
  <2>4. accepted \in [1 .. MaxOtps -> Nat] /\ seeded \subseteq TestUsers
    OBVIOUS
  <2> QED
    BY <2>1, <2>2, <2>3, <2>4 DEF Typed
<1>2. Chosen
  <2>1. \A s \in Slots : req[s].at = "idle"
    BY IdleType
  <2> QED
    BY <2>1 DEF Chosen, At
<1>e. Untouched /\ Entitled
  BY QuietType DEF Untouched, Entitled
<1>3. Limited /\ Bounded
  BY DEF Limited, Bounded
<1>4. SeededAsIs /\ VerifiedByOtp /\ HasOtp /\ UsedIsAccepted
  BY DEF SeededAsIs, VerifiedByOtp, HasOtp, UsedIsAccepted
<1> QED
  BY <1>1, <1>2, <1>e, <1>3, <1>4 DEF AInv

-----------------------------------------------------------------------------
(* One step at a time                                                      *)

\* The table of OTPs: its rows are numbered from 1.
LEMMA OtpRows ==
  ASSUME Typed
  PROVE  /\ Len(otps) \in Nat /\ DOMAIN otps = 1 .. Len(otps)
         /\ DOMAIN otps \subseteq 1 .. MaxOtps
         /\ \A o \in DOMAIN otps : otps[o] \in Otp
<1>1. otps \in Seq(Otp) /\ Len(otps) <= MaxOtps
  BY DEF Typed
<1> QED
  BY <1>1, Limits

\* An INSERT adds the next row and changes no other.
LEMMA AddMoves ==
  ASSUME Typed, NEW s \in Slots, AddOtp(s), req[s].expires # 0, now \in Nat
  PROVE  /\ otps' \in Seq(Otp) /\ Len(otps') <= MaxOtps
         /\ DOMAIN otps' = DOMAIN otps \cup {Len(otps) + 1}
         /\ Len(otps) + 1 \notin DOMAIN otps /\ Len(otps) + 1 \in 1 .. MaxOtps
         /\ \A o \in DOMAIN otps : otps'[o] = otps[o]
         /\ otps'[Len(otps) + 1] = [user |-> User(s), created |-> now, used |-> FALSE,
                                    expires |-> req[s].expires, attempts |-> 0]
<1> DEFINE x == [user |-> User(s), created |-> now, used |-> FALSE,
                 expires |-> req[s].expires, attempts |-> 0]
<1>1. x \in Otp
  BY DEF Typed, Request, Otp, User
<1>2. otps \in Seq(Otp) /\ Len(otps) \in Nat /\ DOMAIN otps = 1 .. Len(otps)
  BY OtpRows DEF Typed
<1>3. otps' = Append(otps, x) /\ Len(otps) < MaxOtps
  BY DEF AddOtp
<1> HIDE DEF x
<1>4. /\ otps' \in Seq(Otp) /\ Len(otps') = Len(otps) + 1
      /\ DOMAIN otps' = 1 .. Len(otps) + 1
      /\ \A o \in 1 .. Len(otps) : otps'[o] = otps[o]
      /\ otps'[Len(otps) + 1] = x
  BY <1>1, <1>2, <1>3
<1> QED
  BY <1>2, <1>3, <1>4, Limits DEF x

\* An UPDATE of one row.
LEMMA EditMoves ==
  ASSUME Typed, NEW o \in DOMAIN otps, NEW x \in Otp, otps' = [otps EXCEPT ![o] = x]
  PROVE  /\ otps' \in Seq(Otp) /\ Len(otps') <= MaxOtps /\ DOMAIN otps' = DOMAIN otps
         /\ otps'[o] = x /\ \A p \in DOMAIN otps : p # o => otps'[p] = otps[p]
<1>1. otps \in Seq(Otp) /\ Len(otps) \in Nat /\ DOMAIN otps = 1 .. Len(otps)
  BY OtpRows DEF Typed
<1>2. otps' \in Seq(Otp) /\ Len(otps') = Len(otps)
  BY <1>1
<1> QED
  BY <1>1, <1>2 DEF Typed

\* One request moves, and the others stay where they are.
LEMMA RequestMoves ==
  ASSUME Typed, NEW s \in Slots, NEW x \in Request, req' = [req EXCEPT ![s] = x]
  PROVE  /\ req' \in [Slots -> Request] /\ req'[s] = x
         /\ \A t \in Slots : t # s => req'[t] = req[t]
BY DEF Typed

\* What that does to the crowds that the limits are about.
LEMMA CrowdsMove ==
  ASSUME Typed, NEW s \in Slots, NEW x \in Request, req' = [req EXCEPT ![s] = x]
  PROVE  /\ \A o : /\ Cardinality(Counting(o)) \in Nat /\ Cardinality(Counting(o)') \in Nat
                   /\ Cardinality(Counting(o)') <= Cardinality(Slots)
                   /\ ~(x.at = "count" /\ x.otp = o) =>
                        /\ Cardinality(Counting(o)') <= Cardinality(Counting(o))
                        /\ At(s, "count") /\ req[s].otp = o =>
                             Cardinality(Counting(o)') = Cardinality(Counting(o)) - 1
         /\ \A o : /\ Cardinality(Activating(o)) \in Nat /\ Cardinality(Activating(o)') \in Nat
                   /\ Cardinality(Activating(o)') <= Cardinality(Slots)
                   /\ ~(x.at = "activate" /\ x.otp = o) =>
                        /\ Cardinality(Activating(o)') <= Cardinality(Activating(o))
                        /\ At(s, "activate") /\ req[s].otp = o =>
                             Cardinality(Activating(o)') = Cardinality(Activating(o)) - 1
         /\ \A u : /\ Cardinality(Creating(u)) \in Nat /\ Cardinality(Creating(u)') \in Nat
                   /\ ~(x.at = "create otp" /\ x.user = u) =>
                        /\ Cardinality(Creating(u)') < Cardinality(Slots)
                        /\ Cardinality(Creating(u)') <= Cardinality(Creating(u))
                        /\ At(s, "create otp") /\ User(s) = u =>
                             Cardinality(Creating(u)') = Cardinality(Creating(u)) - 1
<1>0. req'[s] = x /\ \A t \in Slots : t # s => req'[t] = req[t]
  BY RequestMoves
<1>1. ASSUME NEW o
      PROVE  /\ Cardinality(Counting(o)) \in Nat /\ Cardinality(Counting(o)') \in Nat
             /\ Cardinality(Counting(o)') <= Cardinality(Slots)
             /\ ~(x.at = "count" /\ x.otp = o) =>
                  /\ Cardinality(Counting(o)') <= Cardinality(Counting(o))
                  /\ At(s, "count") /\ req[s].otp = o =>
                       Cardinality(Counting(o)') = Cardinality(Counting(o)) - 1
  <2>1. /\ Counting(o) \subseteq Slots /\ Counting(o)' \subseteq Slots
        /\ \A t \in Slots : t # s => (t \in Counting(o) <=> t \in Counting(o)')
        /\ s \in Counting(o)' <=> x.at = "count" /\ x.otp = o
        /\ s \in Counting(o) <=> At(s, "count") /\ req[s].otp = o
    BY <1>0 DEF Counting, At
  <2> QED
    BY <2>1, CrowdMoves
<1>2. ASSUME NEW o
      PROVE  /\ Cardinality(Activating(o)) \in Nat /\ Cardinality(Activating(o)') \in Nat
             /\ Cardinality(Activating(o)') <= Cardinality(Slots)
             /\ ~(x.at = "activate" /\ x.otp = o) =>
                  /\ Cardinality(Activating(o)') <= Cardinality(Activating(o))
                  /\ At(s, "activate") /\ req[s].otp = o =>
                       Cardinality(Activating(o)') = Cardinality(Activating(o)) - 1
  <2>1. /\ Activating(o) \subseteq Slots /\ Activating(o)' \subseteq Slots
        /\ \A t \in Slots : t # s => (t \in Activating(o) <=> t \in Activating(o)')
        /\ s \in Activating(o)' <=> x.at = "activate" /\ x.otp = o
        /\ s \in Activating(o) <=> At(s, "activate") /\ req[s].otp = o
    BY <1>0 DEF Activating, At
  <2> QED
    BY <2>1, CrowdMoves
<1>3. ASSUME NEW u
      PROVE  /\ Cardinality(Creating(u)) \in Nat /\ Cardinality(Creating(u)') \in Nat
             /\ ~(x.at = "create otp" /\ x.user = u) =>
                  /\ Cardinality(Creating(u)') < Cardinality(Slots)
                  /\ Cardinality(Creating(u)') <= Cardinality(Creating(u))
                  /\ At(s, "create otp") /\ User(s) = u =>
                       Cardinality(Creating(u)') = Cardinality(Creating(u)) - 1
  <2>1. /\ Creating(u) \subseteq Slots /\ Creating(u)' \subseteq Slots
        /\ \A t \in Slots : t # s => (t \in Creating(u) <=> t \in Creating(u)')
        /\ s \in Creating(u)' <=> x.at = "create otp" /\ x.user = u
        /\ s \in Creating(u) <=> At(s, "create otp") /\ User(s) = u
    BY <1>0 DEF Creating, At, User
  <2> QED
    BY <2>1, CrowdMoves
<1> QED
  BY <1>1, <1>2, <1>3

\* An account only goes forward, and an OTP stays its user's.
Grows ==
  /\ \A u \in Users : status[u] = "ACTIVE" => status'[u] = "ACTIVE"
  /\ \A u \in Users : status[u] # "none" => status'[u] # "none"
  /\ \A o \in DOMAIN otps : o \in DOMAIN otps' /\ otps'[o].user = otps[o].user

\* What the other requests have read therefore stays good.
LEMMA ChosenKept ==
  ASSUME Typed, Chosen, Grows, NEW s \in Slots, NEW x \in Request,
         req' = [req EXCEPT ![s] = x], seeded' = seeded,
         x.at \in {"count", "activate"} =>
           x.otp \in DOMAIN otps' /\ otps'[x.otp].user = x.user,
         x.at \in {"create user", "create otp"} => x.expires # 0,
         x.at = "create otp" => status'[x.user] # "none" /\ x.user \notin seeded,
         x.at = "issue" => status'[x.user] = "ACTIVE"
  PROVE  Chosen'
<1>0. req'[s] = x /\ \A t \in Slots : t # s => req'[t] = req[t]
  BY RequestMoves
<1>1. \A t \in Slots : req[t].user \in Users
  BY DEF Typed, Request
<1>2. ASSUME NEW t \in Slots, NEW y, y = req'[t]
      PROVE  /\ y.at \in {"count", "activate"} =>
                  y.otp \in DOMAIN otps' /\ otps'[y.otp].user = y.user
             /\ y.at \in {"create user", "create otp"} => y.expires # 0
             /\ y.at = "create otp" => status'[y.user] # "none" /\ y.user \notin seeded
             /\ y.at = "issue" => status'[y.user] = "ACTIVE"
  <2>1. CASE t = s
    <3>1. y = x
      BY <1>0, <1>2, <2>1
    <3> QED
      BY <3>1
  <2>2. CASE t # s
    <3>1. y = req[t]
      BY <1>0, <1>2, <2>2
    <3>2. /\ y.at \in {"count", "activate"} =>
               y.otp \in DOMAIN otps /\ otps[y.otp].user = y.user
          /\ y.at \in {"create user", "create otp"} => y.expires # 0
          /\ y.at = "create otp" => status[y.user] # "none" /\ y.user \notin seeded
          /\ y.at = "issue" => status[y.user] = "ACTIVE"
      BY <3>1 DEF Chosen, At, User
    <3>3. y.user \in Users
      BY <1>1, <3>1
    <3> QED
      BY <3>2, <3>3 DEF Grows
  <2> QED
    BY <2>1, <2>2
<1>3. \A t \in Slots :
        /\ req'[t].at \in {"count", "activate"} =>
             req'[t].otp \in DOMAIN otps' /\ otps'[req'[t].otp].user = req'[t].user
        /\ req'[t].at \in {"create user", "create otp"} => req'[t].expires # 0
        /\ req'[t].at = "create otp" =>
             status'[req'[t].user] # "none" /\ req'[t].user \notin seeded'
        /\ req'[t].at = "issue" => status'[req'[t].user] = "ACTIVE"
  <2> TAKE t \in Slots
  <2>1. PICK y : y = req'[t]
    OBVIOUS
  <2>2. /\ y.at \in {"count", "activate"} =>
             y.otp \in DOMAIN otps' /\ otps'[y.otp].user = y.user
        /\ y.at \in {"create user", "create otp"} => y.expires # 0
        /\ y.at = "create otp" => status'[y.user] # "none" /\ y.user \notin seeded
        /\ y.at = "issue" => status'[y.user] = "ACTIVE"
    BY <1>2, <2>1
  <2> QED
    BY <2>1, <2>2
<1> QED
  BY <1>3, Zenon DEF Chosen, At, User

\* So do the sessions, where Redis is left alone.
LEMMA EntitledKept ==
  ASSUME SInv, Entitled, Grows, UNCHANGED sessions
  PROVE  Entitled'
<1>1. store \subseteq Session /\ held \subseteq Session /\ call \in [Calls -> Call]
  BY SessionTypes
<1>2. UNCHANGED <<store, held, call>>
  BY DEF sessions, tokens
<1>3. \A e \in store \cup held : e.user \in Users
  BY <1>1 DEF Session
<1>4. \A c \in Calls : call[c].user \in Users
  BY <1>1 DEF Call
<1> QED
  BY <1>2, <1>3, <1>4 DEF Entitled, Grows

-----------------------------------------------------------------------------
(* A step that only moves a request                                        *)

\* The arithmetic of the two limits: the crowd c in front of a counter a becomes b.
LEMMA Headroom ==
  \A a, b, c, m, n \in Nat :
    /\ a < m /\ b <= n => a + b < m + n
    /\ a + c < m + n /\ b <= c => a + b < m + n
    /\ a + c < m + n /\ b = c - 1 => (a + 1) + b < m + n
OBVIOUS

\* A counter that has counted something, and one that has not.
LEMMA NoneYet == \A n \in Nat : n > 0 \/ n = 0
OBVIOUS

\* Attempts made and attempts in flight, against a limit: a slot that starts, one
\* that is let in by the limit, and one that counts its attempt.
LEMMA Room ==
  \A a, b, c, n \in Nat :
    /\ a = 0 /\ b <= n => a + b <= n
    /\ a = 0 /\ b < n => a + b < n
    /\ a + c <= n /\ b <= c => a + b <= n
    /\ a + c <= n /\ b = c - 1 => (a + 1) + b <= n
    /\ a + c < n /\ b <= c => a + b < n
    /\ a + c < n /\ b = c - 1 => (a + 1) + b < n
OBVIOUS

\* Reading, refusing, failing: the tables stay as they are, and what the request
\* relies on next is what it has just read.
LEMMA MoveKeeps ==
  ASSUME AInv, Entitled', NEW s \in Slots, NEW x \in Request,
         req' = [req EXCEPT ![s] = x],
         UNCHANGED <<status, otps, accepted, late, seeded>>,
         x.at \in {"count", "activate"} => x.otp \in Valid(x.user),
         x.at \in {"create user", "create otp"} => x.expires # 0,
         x.at = "create otp" => status[x.user] = "PENDING_VERIFICATION",
         x.at = "issue" => status[x.user] = "ACTIVE"
  PROVE  AInv'
<1> USE DEF AInv
<1>1. Typed'
  BY RequestMoves DEF Typed
<1>2. x.user \in Users /\ DOMAIN otps' = DOMAIN otps
  BY DEF Request
<1>3. Grows
  BY DEF Grows
<1>4. Chosen'
  <2>1. x.at \in {"count", "activate"} => x.otp \in DOMAIN otps' /\ otps'[x.otp].user = x.user
    BY DEF Valid
  <2>2. x.at = "create otp" => status'[x.user] # "none" /\ x.user \notin seeded
    BY DEF SeededAsIs
  <2>3. seeded' = seeded /\ (x.at = "issue" => status'[x.user] = "ACTIVE")
    OBVIOUS
  <2> QED
    BY <1>3, <2>1, <2>2, <2>3, ChosenKept
<1>5. Untouched' /\ SeededAsIs' /\ VerifiedByOtp' /\ HasOtp' /\ UsedIsAccepted'
  <2>1. Untouched'
    BY DEF Untouched
  <2>2. SeededAsIs'
    BY DEF SeededAsIs
  <2>3. VerifiedByOtp'
    BY DEF VerifiedByOtp
  <2>4. HasOtp'
    BY DEF HasOtp
  <2>5. UsedIsAccepted'
    BY DEF UsedIsAccepted
  <2> QED
    BY <2>1, <2>2, <2>3, <2>4, <2>5
<1>6. Limited'
  <2> SUFFICES ASSUME NEW o \in DOMAIN otps
      PROVE  /\ otps[o].attempts + Cardinality(Counting(o)') < MaxOtpAttempts + Cardinality(Slots)
             /\ accepted[o] + Cardinality(Activating(o)') <= Cardinality(Slots)
    BY <1>2 DEF Limited
  <2>1. otps[o].attempts \in Nat /\ accepted[o] \in Nat
    BY OtpRows DEF Otp, Typed
  <2>2. /\ otps[o].attempts + Cardinality(Counting(o)) < MaxOtpAttempts + Cardinality(Slots)
        /\ accepted[o] + Cardinality(Activating(o)) <= Cardinality(Slots)
        /\ otps[o].used <=> accepted[o] > 0
    BY DEF Limited, UsedIsAccepted
  <2>3. /\ Cardinality(Counting(o)) \in Nat /\ Cardinality(Counting(o)') \in Nat
        /\ Cardinality(Counting(o)') <= Cardinality(Slots)
        /\ ~(x.at = "count" /\ x.otp = o) => Cardinality(Counting(o)') <= Cardinality(Counting(o))
    BY CrowdsMove
  <2>4. /\ Cardinality(Activating(o)) \in Nat /\ Cardinality(Activating(o)') \in Nat
        /\ Cardinality(Activating(o)') <= Cardinality(Slots)
        /\ ~(x.at = "activate" /\ x.otp = o) =>
             Cardinality(Activating(o)') <= Cardinality(Activating(o))
    BY CrowdsMove
  <2>5. otps[o].attempts + Cardinality(Counting(o)') < MaxOtpAttempts + Cardinality(Slots)
    <3>1. CASE x.at = "count" /\ x.otp = o
      <4>1. otps[o].attempts < MaxOtpAttempts
        BY <3>1 DEF Valid
      <4> QED
        BY <2>1, <2>3, <4>1, Limits, Headroom
    <3>2. CASE ~(x.at = "count" /\ x.otp = o)
      BY <2>1, <2>2, <2>3, <3>2, Limits, Headroom
    <3> QED
      BY <3>1, <3>2
  <2>6. accepted[o] + Cardinality(Activating(o)') <= Cardinality(Slots)
    <3>1. CASE x.at = "activate" /\ x.otp = o
      <4>1. ~otps[o].used
        BY <3>1 DEF Valid
      <4>2. accepted[o] = 0
        <5>1. ~(accepted[o] > 0)
          BY <2>2, <4>1
        <5> QED
          BY <2>1, <5>1, NoneYet
      <4> QED
        BY <2>1, <2>4, <4>2, Limits, Room
    <3>2. CASE ~(x.at = "activate" /\ x.otp = o)
      BY <2>1, <2>2, <2>4, <3>2, Limits, Room
    <3> QED
      BY <3>1, <3>2
  <2> QED
    BY <2>5, <2>6
<1>7. Bounded'
  <2> SUFFICES ASSUME NEW u \in Users, status[u] = "ACTIVE"
      PROVE  late[u] + Cardinality(Creating(u)') < Cardinality(Slots)
    BY DEF Bounded
  <2>1. late[u] \in Nat /\ ~(x.at = "create otp" /\ x.user = u)
    BY DEF Typed
  <2>2. /\ Cardinality(Creating(u)) \in Nat /\ Cardinality(Creating(u)') \in Nat
        /\ Cardinality(Creating(u)') <= Cardinality(Creating(u))
    BY <2>1, CrowdsMove
  <2>3. late[u] + Cardinality(Creating(u)) < Cardinality(Slots)
    BY DEF Bounded
  <2> QED
    BY <2>1, <2>2, <2>3, Limits, Room
<1> QED
  BY <1>1, <1>4, <1>5, <1>6, <1>7

\* The same, with Redis left alone.
LEMMA MoveAlone ==
  ASSUME SInv, AInv, NEW s \in Slots, NEW x \in Request,
         req' = [req EXCEPT ![s] = x],
         UNCHANGED <<sessions, status, otps, accepted, late, seeded>>,
         x.at \in {"count", "activate"} => x.otp \in Valid(x.user),
         x.at \in {"create user", "create otp"} => x.expires # 0,
         x.at = "create otp" => status[x.user] = "PENDING_VERIFICATION",
         x.at = "issue" => status[x.user] = "ACTIVE"
  PROVE  AInv'
<1>1. Grows
  BY DEF Grows
<1>2. Entitled'
  BY <1>1, EntitledKept DEF AInv
<1> QED
  BY <1>2, MoveKeeps

\* A client sends a request: the slot is taken, and nothing is written.
LEMMA ArriveStep ==
  ASSUME SInv, AInv, NEW s \in Slots, NEW kind \in Kinds, NEW u \in Users,
         NEW code \in 0 .. MaxOtps, Arrive(s, kind, u, code)
  PROVE  AInv'
<1> DEFINE x == [Idle EXCEPT !.at = kind, !.user = u, !.code = code]
<1>1. x \in Request /\ x.at \in Kinds
  BY IdleType DEF Request, Stages
<1>2. /\ req' = [req EXCEPT ![s] = x]
      /\ UNCHANGED <<sessions, status, otps, accepted, late, seeded>>
  BY DEF Arrive
<1> HIDE DEF x
<1>3. x.at \notin {"count", "activate", "create user", "create otp", "issue"}
  BY <1>1 DEF Kinds
<1> QED
  BY <1>1, <1>2, <1>3, MoveAlone

\* A request that ends without having written anything.
LEMMA EndAlone ==
  ASSUME SInv, AInv, NEW s \in Slots, Finish(s),
         UNCHANGED <<sessions, status, otps, accepted, late, seeded>>
  PROVE  AInv'
BY IdleType, MoveAlone DEF Finish

\* The first read of register and of resend; it draws a new OTP.
LEMMA PrepareStep == ASSUME SInv, AInv, NEW s \in Slots, Prepare(s) PROVE AInv'
<1> DEFINE x == [req[s] EXCEPT !.expires = now + OtpTTL,
                   !.at = IF @ = "register" THEN "create user" ELSE "create otp"]
<1>t. req[s] \in Request /\ now \in Nat
  BY SessionTypes DEF AInv, Typed
<1>1. /\ req' = [req EXCEPT ![s] = x]
      /\ UNCHANGED <<sessions, status, otps, accepted, late, seeded>>
      /\ \/ req[s].at = "register" /\ status[req[s].user] = "none"
         \/ req[s].at = "resend" /\ status[req[s].user] = "PENDING_VERIFICATION"
  BY DEF Prepare, At, User
<1>2. now + OtpTTL \in Nat /\ now + OtpTTL # 0
  BY <1>t, Limits
<1>3. /\ x \in Request /\ x.user = req[s].user /\ x.expires # 0
      /\ x.at = (IF req[s].at = "register" THEN "create user" ELSE "create otp")
  BY <1>t, <1>2 DEF Request, Stages
<1> HIDE DEF x
<1>4. x.at \in {"create user", "create otp"}
  BY <1>3
<1>5. x.at = "create otp" => status[x.user] = "PENDING_VERIFICATION"
  BY <1>1, <1>3
<1> QED
  BY <1>1, <1>3, <1>4, <1>5, MoveAlone

\* The user that verify and login look up.
LEMMA FindUserStep == ASSUME SInv, AInv, NEW s \in Slots, FindUser(s) PROVE AInv'
<1>t. req[s] \in Request
  BY DEF AInv, Typed
<1>1. ASSUME NEW at \in {"select", "issue"}, req' = [req EXCEPT ![s].at = at],
             at = "issue" => status[req[s].user] = "ACTIVE"
      PROVE  AInv'
  <2> DEFINE x == [req[s] EXCEPT !.at = at]
  <2>1. x \in Request /\ x.at = at /\ x.user = req[s].user
    BY <1>t DEF Request, Stages
  <2>2. /\ req' = [req EXCEPT ![s] = x]
        /\ UNCHANGED <<sessions, status, otps, accepted, late, seeded>>
    BY <1>1 DEF FindUser
  <2> HIDE DEF x
  <2>3. x.at \notin {"count", "activate", "create user", "create otp"}
    BY <2>1
  <2> QED
    BY <1>1, <2>1, <2>2, <2>3, MoveAlone
<1> QED
  BY <1>1 DEF FindUser, GoTo, At, User

\* The OTP that is selected is valid at that moment.
LEMMA SelectOtpStep == ASSUME SInv, AInv, NEW s \in Slots, SelectOtp(s) PROVE AInv'
<1>t. req[s] \in Request
  BY DEF AInv, Typed
<1>1. ASSUME NEW o \in Valid(User(s)),
             req' = [req EXCEPT ![s].otp = o,
                                ![s].at = IF req[s].code = o THEN "activate" ELSE "count"]
      PROVE  AInv'
  <2> DEFINE x == [req[s] EXCEPT !.otp = o,
                     !.at = IF req[s].code = o THEN "activate" ELSE "count"]
  <2>1. o \in 0 .. MaxOtps
    BY OtpRows, Limits DEF Valid, AInv
  <2>2. /\ x \in Request /\ x.user = req[s].user /\ x.otp = o
        /\ x.at = (IF req[s].code = o THEN "activate" ELSE "count")
    BY <1>t, <2>1 DEF Request, Stages
  <2>3. /\ req' = [req EXCEPT ![s] = x]
        /\ UNCHANGED <<sessions, status, otps, accepted, late, seeded>>
    BY <1>1 DEF SelectOtp
  <2> HIDE DEF x
  <2>4. x.otp \in Valid(x.user) /\ x.at \in {"activate", "count"}
    BY <1>1, <2>2 DEF User
  <2> QED
    BY <2>2, <2>3, <2>4, MoveAlone
<1>2. CASE Finish(s)
  BY <1>2, EndAlone DEF SelectOtp
<1> QED
  BY <1>1, <1>2 DEF SelectOtp, Newest

\* Tokens are issued to a user that was ACTIVE when the request saw it, and a
\* user stays ACTIVE.
LEMMA IssuePairStep == ASSUME SInv, AInv, NEW s \in Slots, IssuePair(s) PROVE AInv'
<1>1. status[req[s].user] = "ACTIVE" /\ req[s].user \in Users
  BY DEF IssuePair, AInv, Chosen, At, User, Typed, Request
<1>2. /\ Issue(req[s].user) /\ call' = call /\ Finish(s)
      /\ UNCHANGED <<status, otps, accepted, late, seeded>>
  BY DEF IssuePair, SignIn, User
<1>3. PICK e : /\ e.user = req[s].user /\ store' = store \cup {e}
               /\ held' \in {held, held \cup {e}}
  BY <1>2 DEF Issue
<1>4. Entitled'
  BY <1>1, <1>2, <1>3 DEF Entitled, AInv
<1> QED
  BY <1>2, <1>4, IdleType, MoveKeeps DEF Finish

-----------------------------------------------------------------------------
(* The steps that write                                                    *)

\* A registration and a resend add an unused OTP of their user.
LEMMA AddKeeps ==
  ASSUME SInv, AInv, NEW s \in Slots, AddOtp(s), Finish(s),
         req[s].expires # 0, User(s) \notin seeded,
         UNCHANGED <<sessions, accepted, seeded>>,
         status' \in [Users -> Statuses], late' \in [Users -> Nat],
         \A u \in Users : u # User(s) => status'[u] = status[u],
         status'[User(s)] # "none",
         status'[User(s)] = "ACTIVE" <=> status[User(s)] = "ACTIVE",
         \A u \in Users : status'[u] # "ACTIVE" => late'[u] = 0,
         Bounded'
  PROVE  AInv'
<1> USE DEF AInv
<1> DEFINE n == Len(otps) + 1
<1>1. req' = [req EXCEPT ![s] = Idle] /\ User(s) \in Users
  BY DEF Finish, Typed, Request, User
<1>2. now \in Nat
  BY SessionTypes
<1>3. /\ otps' \in Seq(Otp) /\ Len(otps') <= MaxOtps
      /\ DOMAIN otps' = DOMAIN otps \cup {n}
      /\ n \notin DOMAIN otps /\ n \in 1 .. MaxOtps
      /\ \A o \in DOMAIN otps : otps'[o] = otps[o]
      /\ otps'[n] = [user |-> User(s), created |-> now, used |-> FALSE,
                      expires |-> req[s].expires, attempts |-> 0]
  BY <1>2, AddMoves
<1> HIDE DEF n
<1>x. otps'[n].user = User(s) /\ otps'[n].used = FALSE /\ otps'[n].attempts = 0
  BY <1>3
<1>4. \A u \in Users : /\ status'[u] = "ACTIVE" <=> status[u] = "ACTIVE"
                       /\ status[u] # "none" => status'[u] # "none"
  OBVIOUS
<1>5. Grows
  BY <1>3, <1>4 DEF Grows
<1>6. Typed'
  <2>1. req' \in [Slots -> Request]
    BY <1>1, IdleType, RequestMoves
  <2>2. accepted' \in [1 .. MaxOtps -> Nat] /\ seeded' \subseteq TestUsers
    BY DEF Typed
  <2> QED
    BY <1>3, <2>1, <2>2 DEF Typed
<1>7. Chosen'
  BY <1>1, <1>5, IdleType, ChosenKept
<1>8. Entitled'
  BY <1>5, EntitledKept
<1>9. Untouched'
  <2>1. \A u \in Users : status'[u] = "none" => \A o \in DOMAIN otps' : otps'[o].user # u
    BY <1>1, <1>3, <1>x, <1>4 DEF Untouched
  <2>2. \A o \in 1 .. MaxOtps : o \notin DOMAIN otps' => accepted'[o] = 0
    BY <1>3 DEF Untouched
  <2> QED
    BY <2>1, <2>2 DEF Untouched
<1>10. SeededAsIs'
  <2>1. \A u \in seeded : u \in Users
    BY Limits DEF Typed
  <2> QED
    BY <1>3, <1>x, <1>4, <2>1 DEF SeededAsIs
<1>11. VerifiedByOtp' /\ HasOtp'
  <2>1. \A u \in Users : (\E o \in DOMAIN otps' : otps'[o].user = u /\ otps'[o].used)
                      <=> (\E o \in DOMAIN otps : otps[o].user = u /\ otps[o].used)
    BY <1>3, <1>x
  <2>2. VerifiedByOtp'
    BY <1>4, <2>1 DEF VerifiedByOtp
  <2>3. HasOtp'
    BY <1>3, <1>x, <1>4 DEF HasOtp
  <2> QED
    BY <2>2, <2>3
<1>12. accepted[n] = 0
  BY <1>3 DEF Untouched
<1>13. UsedIsAccepted'
  BY <1>3, <1>x, <1>12 DEF UsedIsAccepted
<1>14. Limited'
  <2> SUFFICES ASSUME NEW o \in DOMAIN otps'
      PROVE  /\ otps'[o].attempts + Cardinality(Counting(o)') < MaxOtpAttempts + Cardinality(Slots)
             /\ accepted'[o] + Cardinality(Activating(o)') <= Cardinality(Slots)
    BY DEF Limited
  <2>1. /\ Cardinality(Counting(o)) \in Nat /\ Cardinality(Counting(o)') \in Nat
        /\ Cardinality(Counting(o)') <= Cardinality(Slots)
        /\ Cardinality(Counting(o)') <= Cardinality(Counting(o))
    BY <1>1, IdleType, CrowdsMove
  <2>2. /\ Cardinality(Activating(o)) \in Nat /\ Cardinality(Activating(o)') \in Nat
        /\ Cardinality(Activating(o)') <= Cardinality(Slots)
        /\ Cardinality(Activating(o)') <= Cardinality(Activating(o))
    BY <1>1, IdleType, CrowdsMove
  <2>3. accepted' = accepted
    OBVIOUS
  <2>4. CASE o \in DOMAIN otps
    <3>1. otps'[o] = otps[o] /\ otps[o].attempts \in Nat /\ accepted[o] \in Nat
      BY <1>3, <2>4, OtpRows DEF Otp, Typed
    <3>2. /\ otps[o].attempts + Cardinality(Counting(o)) < MaxOtpAttempts + Cardinality(Slots)
          /\ accepted[o] + Cardinality(Activating(o)) <= Cardinality(Slots)
      BY <2>4 DEF Limited
    <3>3. otps[o].attempts + Cardinality(Counting(o)') < MaxOtpAttempts + Cardinality(Slots)
      BY <2>1, <3>1, <3>2, Limits, Headroom
    <3>4. accepted[o] + Cardinality(Activating(o)') <= Cardinality(Slots)
      BY <2>2, <3>1, <3>2, Limits, Room
    <3> QED
      BY <2>3, <3>1, <3>3, <3>4
  <2>5. CASE o = n
    <3>1. otps'[o].attempts = 0 /\ accepted[o] = 0
      BY <1>x, <1>12, <2>5
    <3>2. 0 < MaxOtpAttempts /\ 0 \in Nat
      BY Limits
    <3>3. 0 + Cardinality(Counting(o)') < MaxOtpAttempts + Cardinality(Slots)
      BY <2>1, <3>2, Limits, Headroom
    <3>4. 0 + Cardinality(Activating(o)') <= Cardinality(Slots)
      BY <2>2, <3>2, Limits, Room
    <3> QED
      BY <2>3, <3>1, <3>3, <3>4
  <2> QED
    BY <1>3, <2>4, <2>5
<1> QED
  BY <1>6, <1>7, <1>8, <1>9, <1>10, <1>11, <1>13, <1>14

\* The OTPs that are on their way to an ACTIVE user, with a request that ends.
LEMMA CreatingEnds ==
  ASSUME AInv, NEW s \in Slots, Finish(s), NEW u \in Users
  PROVE  /\ late[u] \in Nat
         /\ Cardinality(Creating(u)) \in Nat /\ Cardinality(Creating(u)') \in Nat
         /\ Cardinality(Creating(u)') < Cardinality(Slots)
         /\ Cardinality(Creating(u)') <= Cardinality(Creating(u))
         /\ At(s, "create otp") /\ User(s) = u =>
              Cardinality(Creating(u)') = Cardinality(Creating(u)) - 1
         /\ status[u] = "ACTIVE" => late[u] + Cardinality(Creating(u)) < Cardinality(Slots)
BY IdleType, CrowdsMove DEF AInv, Finish, Bounded, Typed

\* The transaction of register: the user and a first OTP, together.
LEMMA CreateUserStep == ASSUME SInv, AInv, NEW s \in Slots, CreateUser(s) PROVE AInv'
<1>1. CASE UNCHANGED <<status, otps>>
  BY <1>1, EndAlone DEF CreateUser
<1>2. CASE /\ status[User(s)] = "none"
           /\ status' = [status EXCEPT ![User(s)] = "PENDING_VERIFICATION"]
           /\ AddOtp(s)
  <2>1. /\ User(s) \in Users /\ status \in [Users -> Statuses] /\ late \in [Users -> Nat]
        /\ Finish(s) /\ UNCHANGED <<sessions, accepted, late, seeded>>
    BY DEF CreateUser, AInv, Typed, Request, User
  <2>2. req[s].expires # 0 /\ User(s) \notin seeded
    BY <1>2 DEF CreateUser, AInv, Chosen, SeededAsIs, At
  <2>3. /\ status' \in [Users -> Statuses] /\ status'[User(s)] = "PENDING_VERIFICATION"
        /\ \A u \in Users : u # User(s) => status'[u] = status[u]
    BY <1>2, <2>1 DEF Statuses
  <2>4. \A u \in Users : status'[u] # "ACTIVE" => late'[u] = 0
    BY <1>2, <2>1, <2>3 DEF AInv, Untouched
  <2>5. Bounded'
    <3> SUFFICES ASSUME NEW u \in Users, status'[u] = "ACTIVE"
        PROVE  late[u] + Cardinality(Creating(u)') < Cardinality(Slots)
      BY <2>1 DEF Bounded
    <3>1. status[u] = "ACTIVE"
      BY <2>3
    <3> QED
      BY <2>1, <3>1, CreatingEnds, Limits, Room
  <2> QED
    BY <1>2, <2>1, <2>2, <2>3, <2>4, <2>5, AddKeeps
<1> QED
  BY <1>1, <1>2 DEF CreateUser

\* A resend does not look at the status again: what it adds to an ACTIVE user
\* was on its way when the user became ACTIVE.
LEMMA CreateOtpStep == ASSUME SInv, AInv, NEW s \in Slots, CreateOtp(s) PROVE AInv'
<1>1. /\ User(s) \in Users /\ status \in [Users -> Statuses] /\ late \in [Users -> Nat]
      /\ At(s, "create otp") /\ AddOtp(s) /\ Finish(s)
      /\ UNCHANGED <<sessions, status, accepted, seeded>>
  BY DEF CreateOtp, AInv, Typed, Request, User
<1>2. PICK w \in Users : w = User(s)
  BY <1>1
<1>3. PICK n \in {0, 1} : n = IF status[w] = "ACTIVE" THEN 1 ELSE 0
  OBVIOUS
<1>x. /\ status[w] = "ACTIVE" => n = 1
      /\ status[w] # "ACTIVE" => n = 0
  BY <1>3
<1>y. late[w] \in Nat /\ late[w] + n \in Nat
  <2>1. late[w] \in Nat
    BY <1>1, Zenon
  <2>2. n \in Nat
    OBVIOUS
  <2> QED
    BY <2>1, <2>2
<1>z. late' = [late EXCEPT ![w] = late[w] + n]
  BY <1>2, <1>3 DEF CreateOtp
<1>4. /\ late' \in [Users -> Nat] /\ late'[w] = late[w] + n
      /\ \A u \in Users : u # w => late'[u] = late[u]
  BY <1>1, <1>y, <1>z
<1>5. req[s].expires # 0 /\ User(s) \notin seeded /\ status[User(s)] # "none"
  <2>1. req[s].at = "create otp"
    BY <1>1 DEF At
  <2> QED
    BY <2>1 DEF AInv, Chosen, At
<1>6. \A u \in Users : status'[u] # "ACTIVE" => late'[u] = 0
  <2> SUFFICES ASSUME NEW u \in Users, status[u] # "ACTIVE"
               PROVE  late'[u] = 0
    BY <1>1
  <2>1. late[u] = 0
    BY DEF AInv, Untouched
  <2>2. CASE u = w
    BY <1>x, <1>4, <2>1, <2>2
  <2>3. CASE u # w
    BY <1>4, <2>1, <2>3
  <2> QED
    BY <2>2, <2>3
<1>7. Bounded'
  <2> SUFFICES ASSUME NEW u \in Users, status[u] = "ACTIVE"
      PROVE  late'[u] + Cardinality(Creating(u)') < Cardinality(Slots)
    BY <1>1 DEF Bounded
  <2>1. /\ late[u] \in Nat
        /\ Cardinality(Creating(u)) \in Nat /\ Cardinality(Creating(u)') \in Nat
        /\ Cardinality(Creating(u)') <= Cardinality(Creating(u))
        /\ late[u] + Cardinality(Creating(u)) < Cardinality(Slots)
    BY <1>1, CreatingEnds
  <2>2. CASE u # w
    <3>1. late'[u] = late[u]
      BY <1>4, <2>2
    <3> QED
      BY <2>1, <3>1, Limits, Room
  <2>3. CASE u = w
    <3>1. late'[u] = late[u] + 1
      BY <1>x, <1>4, <2>3
    <3>2. Cardinality(Creating(u)') = Cardinality(Creating(u)) - 1
      BY <1>1, <1>2, <2>3, CreatingEnds
    <3>3. (late[u] + 1) + Cardinality(Creating(u)') < Cardinality(Slots)
      BY <2>1, <3>2, Limits, Room
    <3> QED
      BY <3>1, <3>3
  <2> QED
    BY <2>2, <2>3
<1> QED
  BY <1>1, <1>4, <1>5, <1>6, <1>7, AddKeeps

\* An attempt is counted by a request that was in flight for that OTP.
LEMMA CountAttemptStep == ASSUME SInv, AInv, NEW s \in Slots, CountAttempt(s) PROVE AInv'
<1> USE DEF AInv
<1>1. PICK o : o = req[s].otp
  OBVIOUS
<1>2. PICK x : x = [otps[o] EXCEPT !.attempts = otps[o].attempts + 1]
  OBVIOUS
<1>3. /\ At(s, "count") /\ otps' = [otps EXCEPT ![o] = x] /\ Finish(s)
      /\ UNCHANGED <<sessions, status, accepted, late, seeded>>
  BY <1>1, <1>2 DEF CountAttempt
<1>4. o \in DOMAIN otps
  BY <1>1, <1>3 DEF Chosen, At
<1>5. otps[o] \in Otp /\ otps[o].attempts \in Nat
  BY <1>4, OtpRows DEF Otp
<1>6. /\ x \in Otp /\ x.user = otps[o].user /\ x.used = otps[o].used
      /\ x.attempts = otps[o].attempts + 1
  BY <1>2, <1>5 DEF Otp
<1>7. /\ otps' \in Seq(Otp) /\ Len(otps') <= MaxOtps /\ DOMAIN otps' = DOMAIN otps
      /\ otps'[o] = x /\ \A p \in DOMAIN otps : p # o => otps'[p] = otps[p]
  BY <1>3, <1>4, <1>6, EditMoves
<1>8. \A p \in DOMAIN otps : otps'[p].user = otps[p].user /\ otps'[p].used = otps[p].used
  BY <1>6, <1>7
<1>9. req' = [req EXCEPT ![s] = Idle]
  BY <1>3 DEF Finish
<1>10. Grows
  BY <1>3, <1>7, <1>8 DEF Grows
<1>11. Typed'
  <2>1. req' \in [Slots -> Request]
    BY <1>9, IdleType, RequestMoves
  <2> QED
    BY <1>3, <1>7, <2>1 DEF Typed
<1>12. Chosen'
  BY <1>3, <1>9, <1>10, IdleType, ChosenKept
<1>13. Entitled'
  BY <1>3, <1>10, EntitledKept
<1>14. Untouched'
  BY <1>3, <1>7, <1>8 DEF Untouched
<1>15. SeededAsIs'
  BY <1>3, <1>7, <1>8 DEF SeededAsIs
<1>16. VerifiedByOtp'
  BY <1>3, <1>7, <1>8 DEF VerifiedByOtp
<1>17. HasOtp'
  BY <1>3, <1>7, <1>8 DEF HasOtp
<1>18. UsedIsAccepted'
  BY <1>3, <1>7, <1>8 DEF UsedIsAccepted
<1>19. Limited'
  <2> SUFFICES ASSUME NEW p \in DOMAIN otps
      PROVE  /\ otps'[p].attempts + Cardinality(Counting(p)') < MaxOtpAttempts + Cardinality(Slots)
             /\ accepted[p] + Cardinality(Activating(p)') <= Cardinality(Slots)
    BY <1>3, <1>7 DEF Limited
  <2>1. /\ Cardinality(Counting(p)) \in Nat /\ Cardinality(Counting(p)') \in Nat
        /\ Cardinality(Counting(p)') <= Cardinality(Counting(p))
        /\ p = o => Cardinality(Counting(p)') = Cardinality(Counting(p)) - 1
    BY <1>1, <1>3, <1>9, IdleType, CrowdsMove
  <2>2. /\ Cardinality(Activating(p)) \in Nat /\ Cardinality(Activating(p)') \in Nat
        /\ Cardinality(Activating(p)') <= Cardinality(Activating(p))
    BY <1>9, IdleType, CrowdsMove
  <2>3. otps[p].attempts \in Nat /\ accepted[p] \in Nat
    BY OtpRows DEF Otp, Typed
  <2>4. /\ otps[p].attempts + Cardinality(Counting(p)) < MaxOtpAttempts + Cardinality(Slots)
        /\ accepted[p] + Cardinality(Activating(p)) <= Cardinality(Slots)
    BY DEF Limited
  <2>5. accepted[p] + Cardinality(Activating(p)') <= Cardinality(Slots)
    BY <2>2, <2>3, <2>4, Limits, Room
  <2>6. CASE p = o
    <3>1. (otps[p].attempts + 1) + Cardinality(Counting(p)') < MaxOtpAttempts + Cardinality(Slots)
      BY <2>1, <2>3, <2>4, <2>6, Limits, Headroom
    <3> QED
      BY <1>6, <1>7, <2>5, <2>6, <3>1
  <2>7. CASE p # o
    <3>1. otps[p].attempts + Cardinality(Counting(p)') < MaxOtpAttempts + Cardinality(Slots)
      BY <2>1, <2>3, <2>4, Limits, Headroom
    <3> QED
      BY <1>7, <2>5, <2>7, <3>1
  <2> QED
    BY <2>6, <2>7
<1>20. Bounded'
  <2> SUFFICES ASSUME NEW u \in Users, status[u] = "ACTIVE"
      PROVE  late[u] + Cardinality(Creating(u)') < Cardinality(Slots)
    BY <1>3 DEF Bounded
  <2> QED
    BY <1>3, CreatingEnds, Limits, Room
<1> QED
  BY <1>11, <1>12, <1>13, <1>14, <1>15, <1>16, <1>17, <1>18, <1>19, <1>20

\* Accepting an OTP makes its user ACTIVE; none of the OTPs made so far was late.
LEMMA ActivateStep == ASSUME SInv, AInv, NEW s \in Slots, Activate(s) PROVE AInv'
<1> USE DEF AInv
<1>1. PICK o : o = req[s].otp
  OBVIOUS
<1>2. PICK v : v = req[s].user
  OBVIOUS
<1>3. PICK x : x = [otps[o] EXCEPT !.used = TRUE]
  OBVIOUS
<1>4. PICK y : y = [req[s] EXCEPT !.at = "issue"]
  OBVIOUS
<1>5. /\ At(s, "activate") /\ otps' = [otps EXCEPT ![o] = x]
      /\ status' = [status EXCEPT ![v] = "ACTIVE"]
      /\ accepted' = [accepted EXCEPT ![o] = accepted[o] + 1]
      /\ req' = [req EXCEPT ![s] = y]
      /\ UNCHANGED <<sessions, late, seeded>>
  BY <1>1, <1>2, <1>3, <1>4 DEF Activate, MarkUsed, MarkActive, User, GoTo
<1>6. o \in DOMAIN otps /\ otps[o].user = v
  BY <1>1, <1>2, <1>5 DEF Chosen, At, User
<1>7. /\ otps[o] \in Otp /\ accepted \in [1 .. MaxOtps -> Nat] /\ o \in 1 .. MaxOtps
      /\ status \in [Users -> Statuses] /\ req[s] \in Request
  BY <1>6, OtpRows DEF Typed
<1>8. x \in Otp /\ x.user = v /\ x.used = TRUE /\ x.attempts = otps[o].attempts
  BY <1>3, <1>6, <1>7 DEF Otp
<1>9. y \in Request /\ y.at = "issue" /\ y.user = v /\ v \in Users
  BY <1>2, <1>4, <1>7 DEF Request, Stages
<1>10. /\ otps' \in Seq(Otp) /\ Len(otps') <= MaxOtps /\ DOMAIN otps' = DOMAIN otps
       /\ otps'[o] = x /\ \A p \in DOMAIN otps : p # o => otps'[p] = otps[p]
  BY <1>5, <1>6, <1>8, EditMoves
<1>11. \A p \in DOMAIN otps : /\ otps'[p].user = otps[p].user
                              /\ otps'[p].attempts = otps[p].attempts
                              /\ otps[p].used => otps'[p].used
                              /\ otps'[p].used => p = o \/ otps[p].used
  BY <1>6, <1>8, <1>10
<1>12. accepted[o] \in Nat /\ accepted[o] + 1 \in Nat /\ accepted[o] + 1 > 0
  <2>1. accepted[o] \in Nat
    BY <1>7, Zenon
  <2> QED
    BY <2>1
<1>13. /\ accepted' \in [1 .. MaxOtps -> Nat] /\ accepted'[o] = accepted[o] + 1
       /\ \A p \in 1 .. MaxOtps : p # o => accepted'[p] = accepted[p]
  BY <1>5, <1>7, <1>12
<1>14. /\ status' \in [Users -> Statuses] /\ status'[v] = "ACTIVE"
       /\ \A u \in Users : u # v => status'[u] = status[u]
  BY <1>5, <1>7, <1>9 DEF Statuses
<1>15. v \notin seeded
  BY <1>6 DEF SeededAsIs
<1>16. Grows
  BY <1>10, <1>11, <1>14 DEF Grows
<1>17. Typed'
  <2>1. req' \in [Slots -> Request]
    BY <1>5, <1>9, RequestMoves
  <2>2. late' \in [Users -> Nat] /\ seeded' \subseteq TestUsers
    BY <1>5 DEF Typed
  <2> QED
    BY <1>10, <1>13, <1>14, <2>1, <2>2 DEF Typed
<1>18. Chosen'
  BY <1>5, <1>9, <1>14, <1>16, ChosenKept
<1>19. Entitled'
  BY <1>5, <1>16, EntitledKept
<1>20. Untouched'
  <2>1. \A u \in Users : status'[u] = "none" => \A p \in DOMAIN otps' : otps'[p].user # u
    BY <1>10, <1>11, <1>14 DEF Untouched
  <2>2. \A u \in Users : status'[u] # "ACTIVE" => late'[u] = 0
    BY <1>5, <1>14 DEF Untouched
  <2>3. \A p \in 1 .. MaxOtps : p \notin DOMAIN otps' => accepted'[p] = 0
    BY <1>6, <1>10, <1>13 DEF Untouched
  <2> QED
    BY <2>1, <2>2, <2>3 DEF Untouched
<1>21. SeededAsIs'
  <2>1. \A u \in seeded : u \in Users
    BY Limits DEF Typed
  <2> QED
    BY <1>5, <1>10, <1>11, <1>14, <1>15, <2>1 DEF SeededAsIs
<1>22. VerifiedByOtp'
  <2> SUFFICES ASSUME NEW u \in Users \ seeded
      PROVE  status'[u] = "ACTIVE" <=> \E p \in DOMAIN otps : otps'[p].user = u /\ otps'[p].used
    BY <1>5, <1>10 DEF VerifiedByOtp
  <2>1. CASE u = v
    BY <1>6, <1>8, <1>10, <1>14, <2>1
  <2>2. CASE u # v
    <3>1. \A p \in DOMAIN otps : otps[p].user = u => p # o
      BY <1>6, <2>2
    <3> QED
      BY <1>11, <1>14, <2>2, <3>1 DEF VerifiedByOtp
  <2> QED
    BY <2>1, <2>2
<1>23. HasOtp'
  <2> SUFFICES ASSUME NEW u \in Users \ seeded, status'[u] # "none"
      PROVE  \E p \in DOMAIN otps : otps'[p].user = u
    BY <1>5, <1>10 DEF HasOtp
  <2>1. CASE u = v
    BY <1>6, <1>8, <1>10, <2>1
  <2>2. CASE u # v
    BY <1>11, <1>14, <2>2 DEF HasOtp
  <2> QED
    BY <2>1, <2>2
<1>24. UsedIsAccepted'
  <2> SUFFICES ASSUME NEW p \in DOMAIN otps
      PROVE  otps'[p].used <=> accepted'[p] > 0
    BY <1>10 DEF UsedIsAccepted
  <2>1. CASE p = o
    BY <1>8, <1>10, <1>12, <1>13, <2>1
  <2>2. CASE p # o
    <3>1. otps'[p] = otps[p] /\ accepted'[p] = accepted[p]
      BY <1>10, <1>13, <2>2, OtpRows
    <3> QED
      BY <3>1 DEF UsedIsAccepted
  <2> QED
    BY <2>1, <2>2
<1>25. Limited'
  <2> SUFFICES ASSUME NEW p \in DOMAIN otps
      PROVE  /\ otps'[p].attempts + Cardinality(Counting(p)') < MaxOtpAttempts + Cardinality(Slots)
             /\ accepted'[p] + Cardinality(Activating(p)') <= Cardinality(Slots)
    BY <1>10 DEF Limited
  <2>1. /\ Cardinality(Counting(p)) \in Nat /\ Cardinality(Counting(p)') \in Nat
        /\ Cardinality(Counting(p)') <= Cardinality(Counting(p))
    BY <1>5, <1>9, CrowdsMove
  <2>2. /\ Cardinality(Activating(p)) \in Nat /\ Cardinality(Activating(p)') \in Nat
        /\ Cardinality(Activating(p)') <= Cardinality(Activating(p))
        /\ p = o => Cardinality(Activating(p)') = Cardinality(Activating(p)) - 1
    BY <1>1, <1>5, <1>9, CrowdsMove
  <2>3. otps[p].attempts \in Nat /\ accepted[p] \in Nat /\ p \in 1 .. MaxOtps
    BY OtpRows DEF Otp, Typed
  <2>4. /\ otps[p].attempts + Cardinality(Counting(p)) < MaxOtpAttempts + Cardinality(Slots)
        /\ accepted[p] + Cardinality(Activating(p)) <= Cardinality(Slots)
    BY DEF Limited
  <2>5. otps[p].attempts + Cardinality(Counting(p)') < MaxOtpAttempts + Cardinality(Slots)
    BY <2>1, <2>3, <2>4, Limits, Headroom
  <2>6. otps'[p].attempts = otps[p].attempts
    BY <1>11
  <2>7. CASE p = o
    <3>1. (accepted[p] + 1) + Cardinality(Activating(p)') <= Cardinality(Slots)
      BY <2>2, <2>3, <2>4, <2>7, Limits, Room
    <3> QED
      BY <1>13, <2>5, <2>6, <2>7, <3>1
  <2>8. CASE p # o
    <3>1. accepted[p] + Cardinality(Activating(p)') <= Cardinality(Slots)
      BY <2>2, <2>3, <2>4, Limits, Room
    <3>2. accepted'[p] = accepted[p]
      BY <1>13, <2>3, <2>8
    <3> QED
      BY <2>5, <2>6, <3>1, <3>2
  <2> QED
    BY <2>7, <2>8
<1>26. Bounded'
  <2> SUFFICES ASSUME NEW u \in Users, status'[u] = "ACTIVE"
      PROVE  late[u] + Cardinality(Creating(u)') < Cardinality(Slots)
    BY <1>5 DEF Bounded
  <2>1. /\ Cardinality(Creating(u)) \in Nat /\ Cardinality(Creating(u)') \in Nat
        /\ Cardinality(Creating(u)') < Cardinality(Slots)
        /\ Cardinality(Creating(u)') <= Cardinality(Creating(u))
    BY <1>5, <1>9, CrowdsMove
  <2>2. late[u] \in Nat
    BY DEF Typed
  <2>3. CASE status[u] = "ACTIVE"
    <3>1. late[u] + Cardinality(Creating(u)) < Cardinality(Slots)
      BY <2>3 DEF Bounded
    <3> QED
      BY <2>1, <2>2, <3>1, Limits, Room
  <2>4. CASE status[u] # "ACTIVE"
    <3>1. late[u] = 0
      BY <2>4 DEF Untouched
    <3> QED
      BY <2>1, <2>2, <3>1, Limits, Room
  <2> QED
    BY <2>3, <2>4
<1> QED
  BY <1>17, <1>18, <1>19, <1>20, <1>21, <1>22, <1>23, <1>24, <1>25, <1>26

\* The seed script makes an account ACTIVE that nobody has registered: it has no
\* OTP, and no resend is under way for it.
LEMMA SeedUserStep == ASSUME SInv, AInv, NEW v \in TestUsers, SeedUser(v) PROVE AInv'
<1> USE DEF AInv
<1>1. /\ v \in Users /\ status[v] = "none" /\ seeded' = seeded \cup {v}
      /\ status' = [status EXCEPT ![v] = "ACTIVE"]
      /\ UNCHANGED <<sessions, otps, req, accepted, late>>
  BY Limits DEF SeedUser, MarkActive
<1>2. /\ status' \in [Users -> Statuses] /\ status'[v] = "ACTIVE"
      /\ \A u \in Users : u # v => status'[u] = status[u]
  BY <1>1 DEF Typed, Statuses
<1>3. \A o \in DOMAIN otps : otps[o].user # v
  BY <1>1 DEF Untouched
<1>4. \A s \in Slots : req[s].user \in Users
  BY DEF Typed, Request
<1>5. Grows
  BY <1>1, <1>2 DEF Grows
<1>6. Typed'
  BY <1>1, <1>2 DEF Typed
<1>7. Chosen'
  <2>1. \A s \in Slots : /\ At(s, "create otp") => status'[User(s)] # "none" /\ User(s) \notin seeded'
                         /\ At(s, "issue") => status'[User(s)] = "ACTIVE"
    BY <1>1, <1>2, <1>4 DEF Chosen, At, User
  <2> QED
    BY <1>1, <2>1 DEF Chosen, At, User
<1>8. Entitled'
  BY <1>1, <1>5, EntitledKept
<1>9. Untouched'
  BY <1>1, <1>2 DEF Untouched
<1>10. SeededAsIs'
  <2>1. \A u \in seeded : u \in Users
    BY Limits DEF Typed
  <2> QED
    BY <1>1, <1>2, <1>3, <2>1 DEF SeededAsIs
<1>11. VerifiedByOtp'
  BY <1>1, <1>2 DEF VerifiedByOtp
<1>12. HasOtp'
  BY <1>1, <1>2 DEF HasOtp
<1>13. UsedIsAccepted'
  BY <1>1 DEF UsedIsAccepted
<1>14. Limited'
  BY <1>1 DEF Limited, Counting, Activating, At
<1>15. Bounded'
  <2>1. ASSUME NEW u \in Users PROVE Creating(u)' = Creating(u)
    BY <1>1 DEF Creating, At, User
  <2>2. Creating(v) = {}
    BY <1>1 DEF Creating, Chosen, At, User
  <2>3. Cardinality({}) = 0
    BY FS_EmptySet
  <2> SUFFICES ASSUME NEW u \in Users, status'[u] = "ACTIVE"
      PROVE  late[u] + Cardinality(Creating(u)) < Cardinality(Slots)
    BY <1>1, <2>1 DEF Bounded
  <2>4. CASE u = v
    <3>1. late[u] = 0
      BY <1>1, <2>4 DEF Untouched
    <3>2. Cardinality(Creating(u)) = 0
      BY <2>2, <2>3, <2>4
    <3> QED
      BY <3>1, <3>2, Limits
  <2>5. CASE u # v
    BY <1>2, <2>5 DEF Bounded
  <2> QED
    BY <2>4, <2>5
<1> QED
  BY <1>6, <1>7, <1>8, <1>9, <1>10, <1>11, <1>12, <1>13, <1>14, <1>15

\* A refresh or a logout presents a token of an ACTIVE user, and what it stores
\* is of the same user.
LEMMA SessionsOnlyStep ==
  ASSUME SInv, AInv, Expire \/ \E c \in Calls : CallStep(c),
         UNCHANGED <<status, otps, req, accepted, late, seeded>>
  PROVE  AInv'
<1> USE DEF AInv
<1>t. call \in [Calls -> Call]
  BY SessionTypes
<1>1. ASSUME NEW c \in Calls, NEW x \in Call, call' = [call EXCEPT ![c] = x],
             x.at # "idle" => status[x.user] = "ACTIVE",
             \A e \in store' \cup held' : status[e.user] = "ACTIVE"
      PROVE  Entitled'
  <2>1. call'[c] = x /\ \A d \in Calls : d # c => call'[d] = call[d]
    BY <1>1, <1>t
  <2> QED
    BY <1>1, <2>1 DEF Entitled
<1>2. \A e \in store \cup held : status[e.user] = "ACTIVE"
  BY DEF Entitled
<1>3. ASSUME Expire PROVE Entitled'
  <2>1. store' \subseteq store /\ held' = held /\ call' = call /\ status' = status
    BY <1>3 DEF Expire
  <2> QED
    BY <1>2, <2>1 DEF Entitled
<1>4. ASSUME NEW c \in Calls, NEW kind \in {"refresh", "logout"}, NEW e \in held,
             Present(c, kind, e)
      PROVE  Entitled'
  <2>1. PICK x : x = [at |-> "get", kind |-> kind, user |-> e.user, jti |-> e.jti]
    OBVIOUS
  <2>2. e \in Session
    BY SessionTypes
  <2>3. x \in Call /\ x.user = e.user
    BY <2>1, <2>2 DEF Call, Session
  <2>4. call' = [call EXCEPT ![c] = x] /\ store' = store /\ held' = held
    BY <1>4, <2>1 DEF Present, tokens
  <2> QED
    BY <1>1, <1>2, <2>3, <2>4
<1>5. ASSUME NEW c \in Calls, Get(c) PROVE Entitled'
  <2>1. call[c].at = "get" /\ store' = store /\ held' = held /\ call[c] \in Call
    BY <1>5, <1>t DEF Get, tokens
  <2>2. CASE call' = [call EXCEPT ![c] = Quiet]
    BY <1>1, <1>2, <2>1, <2>2, QuietType
  <2>3. CASE call' = [call EXCEPT ![c].at = "del"]
    <3>1. PICK x : x = [call[c] EXCEPT !.at = "del"]
      OBVIOUS
    <3>2. x \in Call /\ x.user = call[c].user /\ status[call[c].user] = "ACTIVE"
      BY <2>1, <3>1 DEF Call, Entitled
    <3> QED
      BY <1>1, <1>2, <2>1, <2>3, <3>1, <3>2
  <2> QED
    BY <1>5, <2>2, <2>3 DEF Get
<1>6. ASSUME NEW c \in Calls, Del(c) PROVE Entitled'
  <2>1. /\ call[c].at = "del" /\ held' = held /\ store' \subseteq store /\ call[c] \in Call
        /\ \/ call' = [call EXCEPT ![c] = Quiet]
           \/ call' = [call EXCEPT ![c].at = "set"]
    BY <1>6, <1>t DEF Del
  <2>2. \A e \in store' \cup held' : status[e.user] = "ACTIVE"
    BY <1>2, <2>1
  <2>3. CASE call' = [call EXCEPT ![c] = Quiet]
    BY <1>1, <2>2, <2>3, QuietType
  <2>4. CASE call' = [call EXCEPT ![c].at = "set"]
    <3>1. PICK x : x = [call[c] EXCEPT !.at = "set"]
      OBVIOUS
    <3>2. x \in Call /\ x.user = call[c].user /\ status[call[c].user] = "ACTIVE"
      BY <2>1, <3>1 DEF Call, Entitled
    <3> QED
      BY <1>1, <2>2, <2>4, <3>1, <3>2
  <2> QED
    BY <2>1, <2>3, <2>4
<1>7. ASSUME NEW c \in Calls, SetNew(c) PROVE Entitled'
  <2>1. status[call[c].user] = "ACTIVE" /\ call' = [call EXCEPT ![c] = Quiet]
    BY <1>7 DEF SetNew, Entitled
  <2>2. PICK e : /\ e.user = call[c].user /\ store' = store \cup {e}
                 /\ held' \in {held, held \cup {e}}
    BY <1>7 DEF SetNew, Issue
  <2>3. \A f \in store' \cup held' : status[f.user] = "ACTIVE"
    BY <1>2, <2>1, <2>2
  <2> QED
    BY <1>1, <2>1, <2>3, QuietType
<1>8. ASSUME NEW c \in Calls, CallFails(c) PROVE Entitled'
  BY <1>1, <1>2, <1>8, QuietType DEF CallFails, tokens
<1>9. Entitled'
  BY <1>3, <1>4, <1>5, <1>6, <1>7, <1>8 DEF CallStep
<1>10. Typed'
  BY DEF Typed
<1>11. Chosen'
  BY DEF Chosen, At, User
<1>12. Untouched' /\ SeededAsIs'
  BY DEF Untouched, SeededAsIs
<1>13. VerifiedByOtp' /\ HasOtp' /\ UsedIsAccepted'
  BY DEF VerifiedByOtp, HasOtp, UsedIsAccepted
<1>14. Limited'
  BY DEF Limited, Counting, Activating, At
<1>15. Bounded'
  BY DEF Bounded, Creating, At, User
<1> QED
  BY <1>9, <1>10, <1>11, <1>12, <1>13, <1>14, <1>15

-----------------------------------------------------------------------------
(* The theorems                                                            *)

\* A step of Accounts is a step of Sessions or leaves its variables alone.
LEMMA StepOfSessions == ASSUME AInv, [Next]_vars PROVE [SessionsNext]_sessions
<1>1. \A s \in Slots : User(s) \in Users
  BY DEF AInv, Typed, Request, User
<1>2. ASSUME NEW s \in Slots, Serve(s) PROVE [SessionsNext]_sessions
  <2>1. CASE IssuePair(s)
    BY <1>1, <2>1 DEF IssuePair, SessionsNext
  <2>2. CASE ~IssuePair(s)
    BY <1>2, <2>2 DEF Serve, Prepare, TurnAway, CreateUser, CreateOtp, FindUser, SelectOtp,
       CountAttempt, Activate, Fail
  <2> QED
    BY <2>1, <2>2
<1>3. ASSUME NEW s, NEW kind, NEW u, NEW code, Arrive(s, kind, u, code)
      PROVE  [SessionsNext]_sessions
  BY <1>3 DEF Arrive
<1>4. ASSUME NEW u, SeedUser(u) PROVE [SessionsNext]_sessions
  BY <1>4 DEF SeedUser
<1>5. CASE Expire \/ \E c \in Calls : CallStep(c)
  BY <1>5 DEF SessionsNext
<1>6. CASE UNCHANGED vars
  BY <1>6 DEF vars
<1> QED
  BY <1>2, <1>3, <1>4, <1>5, <1>6 DEF Next

\* Every step keeps the invariant, next to that of the sessions.
LEMMA AccountsStep == SInv /\ AInv /\ [Next]_vars => AInv'
<1> SUFFICES ASSUME SInv, AInv, [Next]_vars PROVE AInv'
  OBVIOUS
<1>1. ASSUME NEW s \in Slots, NEW kind \in Kinds, NEW u \in Users, Arrive(s, kind, u, 0)
      PROVE  AInv'
  <2>1. 0 \in 0 .. MaxOtps
    BY Limits
  <2> QED
    BY <1>1, <2>1, ArriveStep
<1>2. ASSUME NEW s \in Slots, NEW u \in Users, NEW o \in DOMAIN otps, Arrive(s, "verify", u, o)
      PROVE  AInv'
  <2>1. o \in 0 .. MaxOtps /\ "verify" \in Kinds
    BY OtpRows, Limits DEF AInv, Kinds
  <2> QED
    BY <1>2, <2>1, ArriveStep
<1>3. ASSUME NEW s \in Slots, Serve(s) PROVE AInv'
  <2>1. CASE TurnAway(s)
    BY <2>1, EndAlone DEF TurnAway
  <2>2. CASE Fail(s)
    BY <2>2, EndAlone DEF Fail
  <2> QED
    BY <1>3, <2>1, <2>2, PrepareStep, CreateUserStep, CreateOtpStep, FindUserStep,
       SelectOtpStep, CountAttemptStep, ActivateStep, IssuePairStep DEF Serve
<1>4. CASE /\ Expire \/ \E c \in Calls : CallStep(c)
           /\ UNCHANGED <<status, otps, req, accepted, late, seeded>>
  BY <1>4, SessionsOnlyStep
<1>5. CASE UNCHANGED vars
  <2>1. /\ status' = status /\ otps' = otps /\ req' = req /\ accepted' = accepted
        /\ late' = late /\ seeded' = seeded /\ UNCHANGED sessions
    BY <1>5 DEF vars
  <2>2. Grows
    BY <2>1 DEF Grows
  <2>3. Entitled'
    BY <2>1, <2>2, EntitledKept DEF AInv
  <2>4. (Typed /\ Chosen /\ Untouched /\ SeededAsIs)'
    BY <2>1 DEF AInv, Typed, Chosen, Untouched, SeededAsIs, At, User
  <2>5. (VerifiedByOtp /\ HasOtp /\ UsedIsAccepted)'
    BY <2>1 DEF AInv, VerifiedByOtp, HasOtp, UsedIsAccepted
  <2>6. (Limited /\ Bounded)'
    BY <2>1 DEF AInv, Limited, Bounded, Counting, Activating, Creating, At, User
  <2> QED
    BY <2>3, <2>4, <2>5, <2>6 DEF AInv
<1> QED
  BY <1>1, <1>2, <1>3, <1>4, <1>5, SeedUserStep DEF Next

\* Registration, verification, resend, login, the seed script and the sessions
\* together keep both invariants, whatever runs at the same time.
THEOREM AccountsInvariance == Spec => [](SInv /\ AInv)
<1>1. Init => SInv /\ AInv
  BY InitSInv, InitAInv DEF Init
<1>2. SInv /\ AInv /\ [Next]_vars => (SInv /\ AInv)'
  BY StepOfSessions, SessionStep, AccountsStep
<1> QED
  BY <1>1, <1>2, PTL DEF Spec

\* Types of the rows and the requests, next to those of Sessions.
THEOREM TypeCorrect == Spec => []TypeOK
<1>1. SInv /\ AInv => TypeOK
  BY DEF SInv, AInv, Typed, TypeOK, Request
<1> QED
  BY <1>1, AccountsInvariance, PTL

\* MAX_OTP_ATTEMPTS and the used flag are overrun by no more than the requests
\* that had read the row when the limit was reached, however many slots there are.
THEOREM OverrunBounded == Spec => []OverrunIsInFlight
<1>1. AInv => OverrunIsInFlight
  BY Clauses DEF AInv
<1> QED
  BY <1>1, AccountsInvariance, PTL

\* An ACTIVE user gets at most the OTPs of the resends that were under way when
\* the user became ACTIVE.
THEOREM LateOtpsBounded == Spec => []LateOtpIsInFlight
<1>1. AInv => LateOtpIsInFlight
  BY Clauses DEF AInv
<1> QED
  BY <1>1, AccountsInvariance, PTL

\* A user is ACTIVE exactly if one of their OTPs was accepted or the seed script
\* made the account, and only ACTIVE users have sessions.
THEOREM ActiveAreVerified == Spec => []ActiveIsVerified
<1>1. AInv => ActiveIsVerified
  <2> SUFFICES ASSUME AInv PROVE ActiveIsVerified
    OBVIOUS
  <2>1. seeded \subseteq Users
    BY Limits DEF AInv, Typed
  <2> QED
    BY <2>1, Clauses DEF AInv
<1> QED
  BY <1>1, AccountsInvariance, PTL

\* What Accounts does to the sessions is what Sessions allows, so the theorems of
\* Sessions hold here: HeldIsGoodUntilDeleted and SessionsAreConserved.
THEOREM SessionsRefinement == Spec => SessionsSpec
<1>1. Init => SessionsInit
  BY DEF Init
<1>2. AInv /\ [Next]_vars => [SessionsNext]_sessions
  BY StepOfSessions
<1> QED
  BY <1>1, <1>2, AccountsInvariance, PTL DEF Spec, SessionsSpec
=============================================================================
