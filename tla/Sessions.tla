------------------------------ MODULE Sessions ------------------------------
(***************************************************************************)
(* Refresh tokens (TokenService): the refresh:<jti> keys in Redis, and the *)
(* calls that redeem a token (POST /v1/auth/refresh) or give it up (POST   *)
(* /v1/auth/logout).  Each is a GET, a DEL and, for refresh, the SET of a  *)
(* new key, with an await between them, on any replica.  A token that does *)
(* not hash to the stored value is refused at the GET and leaves no trace, *)
(* so a token is its jti here.  Accounts builds on this module.            *)
(***************************************************************************)
EXTENDS Integers, FiniteSets

CONSTANTS
  Users,
  MaxTokens,   \* bound: tokens issued in a behaviour
  Calls,       \* refresh and logout calls running at the same time
  RefreshTTL,  \* JWT_REFRESH_TTL_SECONDS, in clock ticks
  AccessTTL,   \* JWT_ACCESS_TTL_SECONDS, in clock ticks
  Horizon      \* bound: the clock stops here

ASSUME SessionsAssumption ==
  /\ Users # {} /\ IsFiniteSet(Calls)
  /\ MaxTokens \in Nat \ {0} /\ Horizon \in Nat
  /\ RefreshTTL \in Nat \ {0} /\ AccessTTL \in Nat \ {0}

Tokens == 1 .. MaxTokens   \* randomUUID(): numbered as they are made

VARIABLES
  now,
  store,    \* the refresh keys in Redis
  call,     \* what runs in each call
  held,     \* tokens that an answer delivered to a client
  made,     \* how many tokens have been made, delivered or not
  dels,     \* history: how often a DEL was executed for each jti
  grants,   \* history: tokens issued by a login or a verification
  surplus,  \* history: refreshes whose DEL found nothing to delete
  ended     \* history: sessions that expired, were given up, or were lost
            \* by a refresh that failed between its DEL and its SET

tokens == <<store, held, made, grants>>
sessions == <<now, call, tokens, dels, surplus, ended>>

Session == [jti : Tokens, user : Users, until : Nat]
Quiet == [at |-> "idle", kind |-> "refresh", user |-> CHOOSE u \in Users : TRUE,
          jti |-> 1]

SessionsInit ==
  /\ now = 0
  /\ store = {}
  /\ call = [c \in Calls |-> Quiet]
  /\ held = {}
  /\ made = 0
  /\ dels = [j \in Tokens |-> 0]
  /\ grants = 0
  /\ surplus = 0
  /\ ended = 0

-----------------------------------------------------------------------------
Stored(j) == {e \in store : e.jti = j}
deleted == {j \in Tokens : dels[j] > 0}
Recycled == {j \in Tokens : Stored(j) = {}}       \* mutant: a jti comes again
Fresh == {made + 1} \cap Tokens

NoExpiry == now + 10 * RefreshTTL                  \* mutant: SET without EX
Expiry == now + RefreshTTL

\* SET refresh:<jti> is executed; its answer reaches the client or is lost.
Issue(u) ==
  \E j \in Fresh :
    LET e == [jti |-> j, user |-> u, until |-> Expiry] IN
    /\ made' = made + 1
    /\ store' = store \cup {e}
    /\ held' \in {held, held \cup {e}}

\* A login or a verification that went well; Accounts says when that is.
SignIn(u) ==
  /\ Issue(u)
  /\ grants' = grants + 1
  /\ UNCHANGED <<now, call, dels, surplus, ended>>

\* The access token of a pair verifies until its exp, whatever becomes of the
\* refresh token.
AccessVerifies(e) == now < e.until - RefreshTTL + AccessTTL

\* A client sends a token it holds, once or several times.  JwtAuthGuard asks
\* for an access token in front of logout, of any pair.
Present(c, kind, e) ==
  /\ call[c].at = "idle" /\ e \in held
  /\ kind = "logout" => \E pair \in held : AccessVerifies(pair)
  /\ call' = [call EXCEPT ![c] =
                [at |-> "get", kind |-> kind, user |-> e.user, jti |-> e.jti]]
  /\ UNCHANGED <<now, tokens, dels, surplus, ended>>

GetTrusting(c) ==                                  \* mutant: what is not stored passes
  /\ call[c].at = "get"
  /\ call' = [call EXCEPT ![c].at = "del"]
  /\ UNCHANGED <<now, tokens, dels, surplus, ended>>

\* GET: an unknown token ends the call (401 for refresh, 204 for logout).
Get(c) ==
  /\ call[c].at = "get"
  /\ call' = [call EXCEPT ![c] =
                IF Stored(call[c].jti) = {} THEN Quiet ELSE [@ EXCEPT !.at = "del"]]
  /\ UNCHANGED <<now, tokens, dels, surplus, ended>>

DelForgotten(c) ==                                 \* mutant: no DEL in rotate
  /\ call[c].at = "del"
  /\ call' = [call EXCEPT ![c] =
                IF call[c].kind = "refresh" THEN [@ EXCEPT !.at = "set"] ELSE Quiet]
  /\ UNCHANGED <<now, tokens, dels, surplus, ended>>

\* DEL: how many keys it deleted is not looked at.
Del(c) ==
  LET found == Stored(call[c].jti) IN
  /\ call[c].at = "del"
  /\ store' = store \ found
  /\ dels' = [dels EXCEPT ![call[c].jti] = @ + 1]
  /\ \/ /\ call[c].kind = "logout" /\ call' = [call EXCEPT ![c] = Quiet]
        /\ ended' = ended + Cardinality(found) /\ UNCHANGED surplus
     \/ /\ call[c].kind = "refresh" /\ call' = [call EXCEPT ![c].at = "set"]
        /\ surplus' = surplus + 1 - Cardinality(found) /\ UNCHANGED ended
  /\ UNCHANGED <<now, held, made, grants>>

SetNew(c) ==
  /\ call[c].at = "set"
  /\ Issue(call[c].user)
  /\ call' = [call EXCEPT ![c] = Quiet]
  /\ UNCHANGED <<now, dels, grants, surplus, ended>>

\* Redis fails or the replica dies; after the DEL, the session is lost.
CallFails(c) ==
  /\ call[c].at # "idle"
  /\ call' = [call EXCEPT ![c] = Quiet]
  /\ ended' = ended + IF call[c].at = "set" THEN 1 ELSE 0
  /\ UNCHANGED <<now, tokens, dels, surplus>>

\* Redis forgets the keys whose EX has passed.
Expire ==
  /\ now < Horizon
  /\ now' = now + 1
  /\ store' = {e \in store : now' < e.until}
  /\ ended' = ended + Cardinality(store \ store')
  /\ UNCHANGED <<call, held, made, dels, grants, surplus>>

CallStep(c) ==
  \/ \E kind \in {"refresh", "logout"}, e \in held : Present(c, kind, e)
  \/ Get(c) \/ Del(c) \/ SetNew(c) \/ CallFails(c)

SessionsNext ==
  \/ \E u \in Users : SignIn(u)
  \/ \E c \in Calls : CallStep(c)
  \/ Expire

SessionsSpec == SessionsInit /\ [][SessionsNext]_sessions

-----------------------------------------------------------------------------
(* What must hold                                                          *)

\* Types; a key in Redis has its time to live, and no more, before it.
SessionsTypeOK ==
  /\ now \in 0 .. Horizon
  /\ store \subseteq Session /\ held \subseteq Session
  /\ \A e \in store : e.until \in now + 1 .. now + RefreshTTL
  /\ made \in 0 .. MaxTokens /\ dels \in [Tokens -> Nat]
  /\ grants \in Nat /\ surplus \in Nat /\ ended \in Nat
  /\ call \in [Calls -> [at : {"idle", "get", "del", "set"}, user : Users,
                         kind : {"refresh", "logout"}, jti : Tokens]]

\* A token that was delivered can be redeemed until it expires or a DEL for
\* that very token is executed, and never after: no other call, and no SET
\* that comes late, ends or revives a session.
HeldIsGoodUntilDeleted ==
  \A e \in held : now < e.until => (e \in store <=> e.jti \notin deleted)

\* Rotation replaces sessions: it neither multiplies nor loses them.  The live
\* keys, the SETs still to come and the sessions that ended are exactly the
\* logins and verifications that were answered, and the refreshes that lost a
\* race for the same token; a refresh that fails halfway costs its own session.
SessionsAreConserved ==
  Cardinality(store) + Cardinality({c \in Calls : call[c].at = "set"}) + ended
    = grants + surplus

\* rotate does not redeem a token in one step: of parallel refreshes of one token
\* all succeed.  But only calls that were already past their GET when its first
\* DEL was executed; no call that starts later gets anything for it, though the
\* answer to a DEL is not looked at.
RedeemedInFlightOnly == \A j \in Tokens : dels[j] <= Cardinality(Calls)

=============================================================================
