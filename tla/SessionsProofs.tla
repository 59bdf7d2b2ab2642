--------------------------- MODULE SessionsProofs ---------------------------
(***************************************************************************)
(* Theorems of Sessions, for every number of users, tokens and calls, and  *)
(* every time to live.                                                     *)
(***************************************************************************)
EXTENDS Sessions, FiniteSetTheorems, TLAPS

Call == [at : {"idle", "get", "del", "set"}, user : Users,
         kind : {"refresh", "logout"}, jti : Tokens]

\* What the assumption says, in the portions the proofs cite.
LEMMA Terms ==
  /\ IsFiniteSet(Calls) /\ MaxTokens \in Nat /\ MaxTokens # 0 /\ Horizon \in Nat
  /\ RefreshTTL \in Nat /\ RefreshTTL # 0
BY SessionsAssumption

\* A call at rest.
LEMMA QuietType == Quiet \in Call /\ Quiet.at = "idle"
<1>1. (CHOOSE u \in Users : TRUE) \in Users
  BY SessionsAssumption
<1>2. 1 \in Tokens
  BY Terms DEF Tokens
<1> QED
  BY <1>1, <1>2 DEF Quiet, Call

\* Which tokens are deleted is a matter of the counts.
LEMMA Deletions == deleted \subseteq Tokens /\ (dels' = dels => deleted' = deleted)
BY DEF deleted

\* One DEL more.
LEMMA Deleting ==
  ASSUME dels \in [Tokens -> Nat], NEW j \in Tokens, dels' = [dels EXCEPT ![j] = @ + 1]
  PROVE  dels' \in [Tokens -> Nat] /\ deleted' = deleted \cup {j}
<1>1. /\ dels' \in [Tokens -> Nat] /\ dels'[j] = dels[j] + 1 /\ dels[j] \in Nat
      /\ \A k \in Tokens : k # j => dels'[k] = dels[k]
  OBVIOUS
<1>2. dels'[j] > 0
  BY <1>1
<1> QED
  BY <1>1, <1>2 DEF deleted

-----------------------------------------------------------------------------
(* The inductive invariant                                                 *)

\* Every jti in use has been made; a jti yet to be made is nowhere.
Numbered ==
  /\ \A e \in store \cup held : e.jti <= made
  /\ \A j \in deleted : j <= made
  /\ \A c \in Calls : call[c].at # "idle" => call[c].jti <= made

\* Redis has one key for a jti.
OneKey == IsFiniteSet(store) /\ \A e, f \in store : e.jti = f.jti => e = f

Pending == {c \in Calls : call[c].at = "set"}

\* A deleted key is gone.  The calls that still are to execute a DEL for its jti,
\* and those that have done so, are at most those there were at the first DEL.
PastGet(j) == {c \in Calls : call[c].at = "del" /\ call[c].jti = j}
DelsInFlight ==
  /\ \A e \in store : e.jti \notin deleted
  /\ \A j \in deleted : dels[j] + Cardinality(PastGet(j)) <= Cardinality(Calls)

SInv ==
  /\ SessionsTypeOK /\ Numbered /\ OneKey
  /\ HeldIsGoodUntilDeleted /\ SessionsAreConserved

\* What a step is about.
LEMMA SessionTypes ==
  ASSUME SInv
  PROVE  /\ now \in Nat /\ made \in Nat /\ grants \in Nat /\ surplus \in Nat /\ ended \in Nat
         /\ store \subseteq Session /\ held \subseteq Session
         /\ deleted \subseteq Tokens /\ Tokens \subseteq Nat /\ dels \in [Tokens -> Nat]
         /\ call \in [Calls -> Call]
         /\ IsFiniteSet(store) /\ Cardinality(store) \in Nat
         /\ IsFiniteSet(Pending) /\ Cardinality(Pending) \in Nat
         /\ Cardinality(store) + Cardinality(Pending) + ended = grants + surplus
<1>1. IsFiniteSet(store) /\ IsFiniteSet(Pending)
  BY Terms, FS_Subset DEF SInv, OneKey, Pending
<1>2. Cardinality(store) \in Nat /\ Cardinality(Pending) \in Nat
  BY <1>1, FS_CardinalityType
<1> QED
  BY Deletions, <1>1, <1>2, Terms DEF SInv, SessionsTypeOK, Call, Tokens, SessionsAreConserved, Pending

\* No session at first.
LEMMA InitSInv == SessionsInit => SInv
<1> SUFFICES ASSUME SessionsInit PROVE SInv
  OBVIOUS
<1> USE DEF SessionsInit
<1>1. SessionsTypeOK
  <2>1. call \in [Calls -> Call]
    <3>1. call = [c \in Calls |-> Quiet]
      OBVIOUS
    <3> QED
      BY <3>1, QuietType
  <2>2. 0 \in 0 .. Horizon /\ 0 \in 0 .. MaxTokens
    BY Terms
  <2> QED
    BY <2>1, <2>2 DEF SessionsTypeOK, Call
<1>2. Numbered /\ HeldIsGoodUntilDeleted
  <2>1. deleted = {}
    BY DEF deleted
  <2> QED
    BY <2>1, QuietType DEF Numbered, HeldIsGoodUntilDeleted
<1>3. OneKey
  BY FS_EmptySet DEF OneKey
<1>4. SessionsAreConserved
  <2>1. {c \in Calls : call[c].at = "set"} = {}
    BY QuietType
  <2> QED
    BY <2>1, FS_EmptySet DEF SessionsAreConserved
<1> QED
  BY <1>1, <1>2, <1>3, <1>4 DEF SInv

-----------------------------------------------------------------------------
(* One step at a time                                                      *)

\* A call comes to the SET, or leaves it, alone.
LEMMA PendingMoves ==
  ASSUME SInv, NEW c \in Calls, NEW x \in Call, call' = [call EXCEPT ![c] = x]
  PROVE  /\ call' \in [Calls -> Call] /\ call'[c] = x
         /\ \A d \in Calls : d # c => call'[d] = call[d]
         /\ x.at # "set" /\ call[c].at # "set" => Pending' = Pending
         /\ x.at = "set" /\ call[c].at # "set" => Cardinality(Pending') = Cardinality(Pending) + 1
         /\ x.at # "set" /\ call[c].at = "set" => Cardinality(Pending') = Cardinality(Pending) - 1
<1>t. call \in [Calls -> Call] /\ IsFiniteSet(Pending)
  BY SessionTypes
<1>1. /\ call' \in [Calls -> Call] /\ call'[c] = x
      /\ \A d \in Calls : d # c => call'[d] = call[d]
  BY <1>t
<1>2. x.at # "set" /\ call[c].at # "set" => Pending' = Pending
  BY <1>1 DEF Pending
<1>3. ASSUME x.at = "set", call[c].at # "set"
      PROVE  Cardinality(Pending') = Cardinality(Pending) + 1
  <2>1. Pending' = Pending \cup {c} /\ c \notin Pending
    BY <1>1, <1>3 DEF Pending
  <2>2. Cardinality(Pending \cup {c}) = Cardinality(Pending) + 1
    BY <1>t, <2>1, FS_AddElement
  <2> QED
    BY <2>1, <2>2
<1>4. ASSUME x.at # "set", call[c].at = "set"
      PROVE  Cardinality(Pending') = Cardinality(Pending) - 1
  <2>1. Pending' = Pending \ {c} /\ c \in Pending
    BY <1>1, <1>4 DEF Pending
  <2>2. Cardinality(Pending \ {c}) = Cardinality(Pending) - 1
    BY <1>t, <2>1, FS_RemoveElement
  <2> QED
    BY <2>1, <2>2
<1> QED
  BY <1>1, <1>2, <1>3, <1>4

\* A new token: its jti was never used, so it ends nothing and revives nothing.
LEMMA IssueStep ==
  ASSUME SInv, NEW u \in Users, Issue(u), UNCHANGED <<now, dels>>
  PROVE  /\ made' \in 0 .. MaxTokens /\ made' = made + 1
         /\ store' \subseteq Session /\ held' \subseteq Session
         /\ \A e \in store' : e.until \in now + 1 .. now + RefreshTTL
         /\ \A e \in store' \cup held' : e.jti <= made'
         /\ OneKey' /\ HeldIsGoodUntilDeleted'
         /\ Cardinality(store') = Cardinality(store) + 1
<1> USE DEF SInv
<1>1. PICK j \in Fresh :
        LET e == [jti |-> j, user |-> u, until |-> Expiry] IN
        /\ made' = made + 1
        /\ store' = store \cup {e}
        /\ held' \in {held, held \cup {e}}
  BY DEF Issue
<1> DEFINE e == [jti |-> j, user |-> u, until |-> Expiry]
<1>t. /\ made \in Nat /\ now \in Nat /\ store \subseteq Session /\ held \subseteq Session
      /\ IsFiniteSet(store)
  BY SessionTypes
<1>2. j \in Tokens /\ j = made + 1
  BY <1>1 DEF Fresh
<1>3. e \in Session /\ e.jti = made + 1 /\ e.until = now + RefreshTTL
  BY <1>2, <1>t, Terms DEF Session, Expiry
<1>4. \A f \in store \cup held : f.jti <= made /\ f.jti \in Nat
  BY <1>t, Terms DEF Numbered, Session, Tokens
<1>5. e \notin store /\ e \notin held /\ e.jti \notin deleted
  <2>1. \A d \in deleted : d <= made
    BY DEF Numbered
  <2>2. ~(made + 1 <= made)
    BY <1>t
  <2> QED
    BY <1>3, <1>4, <2>1, <2>2
<1>6. store' = store \cup {e} /\ (held' = held \/ held' = held \cup {e}) /\ made' = made + 1
  BY <1>1
<1> HIDE DEF e
<1>7. made' \in 0 .. MaxTokens
  BY <1>2, <1>6, <1>t, Terms DEF Tokens
<1>8. \A f \in store' : f.until \in now + 1 .. now + RefreshTTL
  <2>1. now + RefreshTTL \in now + 1 .. now + RefreshTTL
    BY <1>t, Terms
  <2> QED
    BY <1>3, <1>6, <2>1 DEF SessionsTypeOK
<1>9. \A f \in store' \cup held' : f.jti <= made'
  BY <1>3, <1>4, <1>6, <1>t
<1>10. Cardinality(store') = Cardinality(store) + 1 /\ IsFiniteSet(store')
  BY <1>5, <1>6, <1>t, FS_AddElement
<1>11. \A f \in store : f.jti # e.jti
  BY <1>3, <1>4, <1>t
<1>12. OneKey'
  BY <1>6, <1>10, <1>11 DEF OneKey
<1>13. HeldIsGoodUntilDeleted'
  <2> SUFFICES ASSUME NEW f \in held', now < f.until
               PROVE  f \in store' <=> f.jti \notin deleted
    BY Deletions DEF HeldIsGoodUntilDeleted
  <2>1. CASE f \in held
    BY <1>5, <1>6, <2>1 DEF HeldIsGoodUntilDeleted
  <2>2. CASE f = e
    BY <1>5, <1>6, <2>2
  <2> QED
    BY <1>6, <2>1, <2>2
<1> QED
  BY <1>3, <1>6, <1>7, <1>8, <1>9, <1>10, <1>12, <1>13, <1>t

\* A login or a verification adds the session it is granted.
LEMMA SignInStep == ASSUME SInv, NEW u \in Users, SignIn(u) PROVE SInv'
<1> USE DEF SInv
<1>1. /\ Issue(u) /\ grants' = grants + 1
      /\ UNCHANGED <<now, call, dels, surplus, ended>>
  BY DEF SignIn
<1>t. /\ grants \in Nat /\ surplus \in Nat /\ ended \in Nat /\ made \in Nat
      /\ Cardinality(store) \in Nat /\ Cardinality(Pending) \in Nat
      /\ Cardinality(store) + Cardinality(Pending) + ended = grants + surplus
      /\ call \in [Calls -> Call] /\ Tokens \subseteq Nat /\ deleted \subseteq Tokens
      /\ dels \in [Tokens -> Nat]
  BY SessionTypes
<1>2. /\ made' \in 0 .. MaxTokens /\ made' = made + 1
      /\ store' \subseteq Session /\ held' \subseteq Session
      /\ \A e \in store' : e.until \in now + 1 .. now + RefreshTTL
      /\ \A e \in store' \cup held' : e.jti <= made'
      /\ OneKey' /\ HeldIsGoodUntilDeleted'
      /\ Cardinality(store') = Cardinality(store) + 1
  BY <1>1, IssueStep
<1>3. SessionsTypeOK'
  BY <1>1, <1>2, <1>t DEF SessionsTypeOK
<1>4. Numbered'
  <2>1. \A j \in Tokens : j <= made => j <= made'
    BY <1>2, <1>t
  <2>2. \A c \in Calls : call[c].jti \in Tokens
    BY <1>t DEF Call
  <2> QED
    BY Deletions, <1>1, <1>2, <1>t, <2>1, <2>2 DEF Numbered
<1>5. SessionsAreConserved'
  <2>1. Pending' = Pending
    BY <1>1 DEF Pending
  <2>2. Cardinality(store') + Cardinality(Pending') + ended' = grants' + surplus'
    BY <1>1, <1>2, <1>t, <2>1
  <2> QED
    BY <2>2 DEF SessionsAreConserved, Pending
<1> QED
  BY <1>2, <1>3, <1>4, <1>5

\* The SET at the end of a rotation: the session that was waiting goes on.
LEMMA SetNewStep == ASSUME SInv, NEW c \in Calls, SetNew(c) PROVE SInv'
<1> USE DEF SInv
<1>1. /\ call[c].at = "set" /\ Issue(call[c].user) /\ call' = [call EXCEPT ![c] = Quiet]
      /\ UNCHANGED <<now, dels, grants, surplus, ended>>
  BY DEF SetNew
<1>t. /\ grants \in Nat /\ surplus \in Nat /\ ended \in Nat /\ made \in Nat
      /\ Cardinality(store) \in Nat /\ Cardinality(Pending) \in Nat
      /\ Cardinality(store) + Cardinality(Pending) + ended = grants + surplus
      /\ call \in [Calls -> Call] /\ Tokens \subseteq Nat /\ deleted \subseteq Tokens
      /\ dels \in [Tokens -> Nat]
  BY SessionTypes
<1>u. call[c].user \in Users
  BY <1>t DEF Call
<1>2. /\ made' \in 0 .. MaxTokens /\ made' = made + 1
      /\ store' \subseteq Session /\ held' \subseteq Session
      /\ \A e \in store' : e.until \in now + 1 .. now + RefreshTTL
      /\ \A e \in store' \cup held' : e.jti <= made'
      /\ OneKey' /\ HeldIsGoodUntilDeleted'
      /\ Cardinality(store') = Cardinality(store) + 1
  BY <1>1, <1>u, IssueStep
<1>3. /\ call' \in [Calls -> Call] /\ call'[c] = Quiet
      /\ \A d \in Calls : d # c => call'[d] = call[d]
      /\ Cardinality(Pending') = Cardinality(Pending) - 1
  BY <1>1, QuietType, PendingMoves
<1>4. SessionsTypeOK'
  BY <1>1, <1>2, <1>3, <1>t DEF SessionsTypeOK, Call
<1>5. Numbered'
  <2>0. \A j \in Tokens : j <= made => j <= made'
    BY <1>2, <1>t
  <2>a. \A d \in Calls : call[d].jti \in Tokens
    BY <1>t DEF Call
  <2>1. \A d \in Calls : call'[d].at # "idle" => call'[d].jti <= made'
    BY <1>3, <2>0, <2>a, QuietType DEF Numbered
  <2>2. \A j \in deleted' : j <= made'
    BY Deletions, <1>1, <1>t, <2>0 DEF Numbered
  <2> QED
    BY <1>2, <2>1, <2>2 DEF Numbered
<1>6. SessionsAreConserved'
  <2>1. Cardinality(store') + Cardinality(Pending') + ended' = grants' + surplus'
    BY <1>1, <1>2, <1>3, <1>t
  <2> QED
    BY <2>1 DEF SessionsAreConserved, Pending
<1> QED
  BY <1>2, <1>4, <1>5, <1>6

\* A DEL ends the session of its token and no other, if it still was there.
LEMMA DelStep == ASSUME SInv, NEW c \in Calls, Del(c) PROVE SInv'
<1> USE DEF SInv
<1> DEFINE j == call[c].jti
           found == Stored(j)
<1>t. /\ grants \in Nat /\ surplus \in Nat /\ ended \in Nat /\ made \in Nat
      /\ Cardinality(store) \in Nat /\ Cardinality(Pending) \in Nat
      /\ Cardinality(store) + Cardinality(Pending) + ended = grants + surplus
      /\ call \in [Calls -> Call] /\ deleted \subseteq Tokens /\ IsFiniteSet(store)
      /\ dels \in [Tokens -> Nat]
      /\ store \subseteq Session /\ held \subseteq Session
  BY SessionTypes
<1>0. j \in Tokens
  BY <1>t DEF Call
<1>1. /\ call[c].at = "del" /\ store' = store \ found /\ deleted' = deleted \cup {j}
      /\ dels' \in [Tokens -> Nat]
      /\ UNCHANGED <<now, held, made, grants>>
  BY <1>t, <1>0, Deleting DEF Del
<1>2. j \in Tokens /\ j <= made /\ j \in Nat
  BY <1>1, <1>t, Terms DEF Call, Numbered, Tokens
<1>3. found = {} \/ \E e \in store : found = {e}
  BY DEF OneKey, Stored
<1>4. /\ Cardinality(found) \in {0, 1} /\ IsFiniteSet(store \ found)
      /\ Cardinality(store \ found) = Cardinality(store) - Cardinality(found)
  <2>1. CASE found = {}
    BY <1>t, <2>1, FS_EmptySet
  <2>2. ASSUME NEW e \in store, found = {e}
        PROVE  /\ Cardinality(found) \in {0, 1} /\ IsFiniteSet(store \ found)
               /\ Cardinality(store \ found) = Cardinality(store) - Cardinality(found)
    <3>1. Cardinality({e}) = 1
      BY FS_Singleton
    <3>2. IsFiniteSet(store \ {e}) /\ Cardinality(store \ {e}) = Cardinality(store) - 1
      BY <1>t, FS_RemoveElement
    <3> QED
      BY <2>2, <3>1, <3>2
  <2> QED
    BY <1>3, <2>1, <2>2
<1>5. OneKey'
  BY <1>1, <1>4 DEF OneKey
<1>6. HeldIsGoodUntilDeleted'
  <2> SUFFICES ASSUME NEW e \in held, now < e.until
               PROVE  e \in store' <=> e.jti \notin deleted'
    BY <1>1 DEF HeldIsGoodUntilDeleted
  <2>1. e \in store <=> e.jti \notin deleted
    BY DEF HeldIsGoodUntilDeleted
  <2>2. e \in store' <=> e \in store /\ e.jti # j
    BY <1>1 DEF Stored
  <2> QED
    BY <1>1, <2>1, <2>2
<1>7. \A e \in store' : e \in Session /\ e.until \in now' + 1 .. now' + RefreshTTL
  BY <1>1, <1>t DEF SessionsTypeOK
<1>8. (\A e \in store' \cup held' : e.jti <= made') /\ \A d \in deleted' : d <= made'
  BY <1>1, <1>2 DEF Numbered
<1>9. ASSUME NEW x \in Call, call' = [call EXCEPT ![c] = x], x.at # "idle" => x.jti = j,
             ended' \in Nat, surplus' \in Nat,
             Cardinality(store') + Cardinality(Pending') + ended' = grants' + surplus'
      PROVE  SInv'
  <2>1. /\ call' \in [Calls -> Call] /\ call'[c] = x
        /\ \A d \in Calls : d # c => call'[d] = call[d]
    BY <1>9, PendingMoves
  <2>2. SessionsTypeOK'
    BY <1>1, <1>2, <1>7, <1>9, <1>t, <2>1 DEF SessionsTypeOK, Call
  <2>3. Numbered'
    BY <1>1, <1>2, <1>8, <1>9, <2>1 DEF Numbered
  <2> QED
    BY <1>5, <1>6, <1>9, <2>2, <2>3 DEF SessionsAreConserved, Pending
<1>10. CASE /\ call' = [call EXCEPT ![c] = Quiet]
            /\ ended' = ended + Cardinality(found) /\ UNCHANGED surplus
  <2>1. Pending' = Pending
    BY <1>1, <1>10, QuietType, PendingMoves
  <2>2. ended' \in Nat
    BY <1>4, <1>10, <1>t
  <2>3. Cardinality(store') + Cardinality(Pending') + ended' = grants' + surplus'
    BY <1>1, <1>4, <1>10, <1>t, <2>1
  <2> QED
    BY <1>9, <1>10, <1>t, <2>2, <2>3, QuietType
<1>11. CASE /\ call' = [call EXCEPT ![c].at = "set"]
            /\ surplus' = surplus + 1 - Cardinality(found) /\ UNCHANGED ended
  <2> DEFINE x == [call[c] EXCEPT !.at = "set"]
  <2>1. x \in Call /\ x.at = "set" /\ x.jti = j /\ call' = [call EXCEPT ![c] = x]
    BY <1>11, <1>t DEF Call
  <2> HIDE DEF x
  <2>2. Cardinality(Pending') = Cardinality(Pending) + 1
    BY <1>1, <2>1, PendingMoves
  <2>3. surplus' \in Nat
    BY <1>4, <1>11, <1>t
  <2>4. Cardinality(store') + Cardinality(Pending') + ended' = grants' + surplus'
    BY <1>1, <1>4, <1>11, <1>t, <2>2
  <2> QED
    BY <1>9, <1>11, <1>t, <2>1, <2>3, <2>4
<1> QED
  BY <1>10, <1>11 DEF Del

\* A step of one call that leaves Redis alone.
LEMMA CallStepKeeps ==
  ASSUME SInv, NEW c \in Calls, NEW x \in Call, call' = [call EXCEPT ![c] = x],
         UNCHANGED <<now, tokens, dels, surplus>>, x.at # "set",
         x.at # "idle" => x.jti <= made,
         ended' = ended + IF call[c].at = "set" THEN 1 ELSE 0
  PROVE  SInv'
<1> USE DEF SInv, tokens
<1>t. /\ grants \in Nat /\ surplus \in Nat /\ ended \in Nat
      /\ Cardinality(store) \in Nat /\ Cardinality(Pending) \in Nat
      /\ Cardinality(store) + Cardinality(Pending) + ended = grants + surplus
  BY SessionTypes
<1>1. /\ call' \in [Calls -> Call] /\ call'[c] = x
      /\ \A d \in Calls : d # c => call'[d] = call[d]
      /\ call[c].at # "set" => Pending' = Pending
      /\ call[c].at = "set" => Cardinality(Pending') = Cardinality(Pending) - 1
  BY PendingMoves
<1>2. ended' \in Nat
  BY <1>t
<1>3. Cardinality(store') + Cardinality(Pending') + ended' = grants' + surplus'
  <2>1. CASE call[c].at = "set"
    BY <1>1, <1>t, <2>1
  <2>2. CASE call[c].at # "set"
    BY <1>1, <1>t, <2>2
  <2> QED
    BY <2>1, <2>2
<1>4. SessionsTypeOK'
  BY <1>1, <1>2 DEF SessionsTypeOK, Call
<1>5. Numbered'
  BY Deletions, <1>1 DEF Numbered
<1>6. OneKey' /\ HeldIsGoodUntilDeleted'
  BY Deletions DEF OneKey, HeldIsGoodUntilDeleted
<1> QED
  BY <1>3, <1>4, <1>5, <1>6 DEF SessionsAreConserved, Pending

\* Redis forgets a key, and the session has ended.
LEMMA ExpireStep == ASSUME SInv, Expire PROVE SInv'
<1> USE DEF SInv
<1>t. /\ grants \in Nat /\ surplus \in Nat /\ ended \in Nat /\ now \in Nat
      /\ Cardinality(store) \in Nat /\ Cardinality(Pending) \in Nat
      /\ Cardinality(store) + Cardinality(Pending) + ended = grants + surplus
      /\ call \in [Calls -> Call] /\ IsFiniteSet(store) /\ store \subseteq Session
      /\ held \subseteq Session
  BY SessionTypes
<1>1. /\ now' = now + 1 /\ now < Horizon /\ store' = {e \in store : now' < e.until}
      /\ ended' = ended + Cardinality(store \ store')
      /\ UNCHANGED <<call, held, made, dels, grants, surplus>>
  BY DEF Expire
<1>2. PICK kept : kept = store'
  OBVIOUS
<1>3. kept \subseteq store
  BY <1>1, <1>2
<1>4. /\ IsFiniteSet(kept) /\ Cardinality(kept) \in Nat
      /\ Cardinality(store \ kept) = Cardinality(store) - Cardinality(kept)
      /\ Cardinality(store \ kept) \in Nat
  <2>1. store \cap kept = kept
    BY <1>3
  <2>2. /\ IsFiniteSet(store \ kept)
        /\ Cardinality(store \ kept) = Cardinality(store) - Cardinality(store \cap kept)
    BY <1>t, FS_Difference
  <2>3. IsFiniteSet(kept)
    BY <1>3, <1>t, FS_Subset
  <2>4. Cardinality(kept) \in Nat /\ Cardinality(store \ kept) \in Nat
    BY <2>2, <2>3, FS_CardinalityType
  <2> QED
    BY <2>1, <2>2, <2>3, <2>4
<1>5. Pending' = Pending
  BY <1>1 DEF Pending
<1>6. ended' \in Nat /\ Cardinality(store') + Cardinality(Pending') + ended' = grants' + surplus'
  BY <1>1, <1>2, <1>4, <1>5, <1>t
<1>7. SessionsTypeOK'
  <2>1. now' \in 0 .. Horizon
    BY <1>1, <1>t, Terms
  <2>2. \A e \in store' : e.until \in now' + 1 .. now' + RefreshTTL
    <3> TAKE e \in store'
    <3>1. e \in store /\ now' < e.until /\ e.until \in now + 1 .. now + RefreshTTL
      BY <1>1 DEF SessionsTypeOK
    <3> QED
      BY <1>1, <1>t, <3>1, Terms
  <2> QED
    BY <1>1, <1>2, <1>3, <1>6, <1>t, <2>1, <2>2 DEF SessionsTypeOK
<1>8. Numbered'
  BY Deletions, <1>1 DEF Numbered
<1>9. OneKey'
  BY <1>2, <1>3, <1>4 DEF OneKey
<1>10. HeldIsGoodUntilDeleted'
  <2> SUFFICES ASSUME NEW e \in held, now' < e.until
               PROVE  e \in store' <=> e.jti \notin deleted
    BY Deletions, <1>1 DEF HeldIsGoodUntilDeleted
  <2>1. now < e.until
    <3>1. e.until \in Nat
      BY <1>t DEF Session
    <3> QED
      BY <1>1, <1>t, <3>1
  <2> QED
    BY <1>1, <2>1 DEF HeldIsGoodUntilDeleted
<1> QED
  BY <1>6, <1>7, <1>8, <1>9, <1>10 DEF SessionsAreConserved, Pending

\* Every step of Sessions keeps the invariant.
LEMMA SessionStep == SInv /\ [SessionsNext]_sessions => SInv'
<1> SUFFICES ASSUME SInv, [SessionsNext]_sessions PROVE SInv'
  OBVIOUS
<1>t. /\ call \in [Calls -> Call] /\ held \subseteq Session /\ ended \in Nat
      /\ \A e \in held : e.jti <= made
  BY SessionTypes DEF SInv, Numbered
<1>1. ASSUME NEW c \in Calls, NEW kind \in {"refresh", "logout"}, NEW e \in held,
             Present(c, kind, e)
      PROVE  SInv'
  <2> DEFINE x == [at |-> "get", kind |-> kind, user |-> e.user, jti |-> e.jti]
  <2>1. x \in Call /\ x.at = "get" /\ x.jti <= made
    BY <1>t DEF Call, Session
  <2>2. /\ call' = [call EXCEPT ![c] = x] /\ call[c].at # "set"
        /\ UNCHANGED <<now, tokens, dels, surplus, ended>>
    BY <1>1 DEF Present
  <2> HIDE DEF x
  <2>3. ended' = ended + IF call[c].at = "set" THEN 1 ELSE 0
    BY <1>t, <2>2
  <2>4. x \in Call /\ x.at # "set" /\ (x.at # "idle" => x.jti <= made)
    BY <2>1, <2>2
  <2> QED
    BY <2>1, <2>2, <2>3, <2>4, CallStepKeeps
<1>2. ASSUME NEW c \in Calls, Get(c) PROVE SInv'
  <2> DEFINE x == IF Stored(call[c].jti) = {} THEN Quiet ELSE [call[c] EXCEPT !.at = "del"]
  <2>1. /\ call' = [call EXCEPT ![c] = x] /\ call[c].at = "get"
        /\ UNCHANGED <<now, tokens, dels, surplus, ended>>
    BY <1>2 DEF Get
  <2>2. x \in Call /\ x.at # "set" /\ (x.at # "idle" => x.jti <= made)
    <3>1. call[c].jti <= made
      BY <2>1 DEF SInv, Numbered
    <3> QED
      BY <1>t, <3>1, QuietType DEF Call
  <2> HIDE DEF x
  <2>3. ended' = ended + IF call[c].at = "set" THEN 1 ELSE 0
    BY <1>t, <2>1
  <2>4. x \in Call /\ x.at # "set" /\ (x.at # "idle" => x.jti <= made)
    BY <2>1, <2>2
  <2> QED
    BY <2>1, <2>2, <2>3, <2>4, CallStepKeeps
<1>3. ASSUME NEW c \in Calls, CallFails(c) PROVE SInv'
  BY <1>3, QuietType, CallStepKeeps DEF CallFails
<1>4. CASE UNCHANGED sessions
  BY <1>4, Deletions DEF sessions, tokens, SInv, SessionsTypeOK, Numbered, OneKey, HeldIsGoodUntilDeleted,
     SessionsAreConserved
<1> QED
  BY <1>1, <1>2, <1>3, <1>4, SignInStep, SetNewStep, DelStep, ExpireStep
     DEF SessionsNext, CallStep

-----------------------------------------------------------------------------
(* Who can redeem a token                                                  *)

\* Calls that are past their GET, as a number.
LEMMA PastGetCounts ==
  /\ Cardinality(Calls) \in Nat
  /\ \A S : S \subseteq Calls =>
       IsFiniteSet(S) /\ Cardinality(S) \in Nat /\ Cardinality(S) <= Cardinality(Calls)
  /\ \A S, T : S \subseteq T /\ T \subseteq Calls => Cardinality(S) <= Cardinality(T)
  /\ \A S, c : S \subseteq Calls /\ c \in S => Cardinality(S \ {c}) = Cardinality(S) - 1
<1>1. \A S : S \subseteq Calls =>
        IsFiniteSet(S) /\ Cardinality(S) \in Nat /\ Cardinality(S) <= Cardinality(Calls)
  BY Terms, FS_Subset, FS_CardinalityType
<1> QED
  BY <1>1, Terms, FS_Subset, FS_CardinalityType, FS_RemoveElement

\* Nothing was deleted at first.
LEMMA InitInFlight == SessionsInit => DelsInFlight
<1> SUFFICES ASSUME SessionsInit PROVE DelsInFlight
  OBVIOUS
<1>1. deleted = {} /\ store = {}
  BY DEF SessionsInit, deleted
<1> QED
  BY <1>1 DEF DelsInFlight

\* A key that is written is none that was deleted.
LEMMA IssueInFlight ==
  ASSUME SInv, DelsInFlight, NEW u \in Users, Issue(u), dels' = dels
  PROVE  \A e \in store' : e.jti \notin deleted'
<1>1. PICK j \in Fresh : store' = store \cup {[jti |-> j, user |-> u, until |-> Expiry]}
  BY DEF Issue
<1>2. j = made + 1 /\ made \in Nat
  BY SessionTypes DEF Fresh
<1>3. \A d \in deleted : d <= made
  BY DEF SInv, Numbered
<1>4. j \notin deleted
  BY <1>2, <1>3
<1> QED
  BY <1>1, <1>4, Deletions DEF DelsInFlight

\* A step that lets no call pass its GET for a token that was deleted.
LEMMA FlightKeeps ==
  ASSUME SInv, DelsInFlight, dels' = dels, \A e \in store' : e.jti \notin deleted',
         \A j \in deleted : PastGet(j)' \subseteq PastGet(j)
  PROVE  DelsInFlight'
<1>1. \A j \in deleted : dels[j] + Cardinality(PastGet(j)') <= Cardinality(Calls)
  <2> TAKE j \in deleted
  <2>1. PICK S : S = PastGet(j)'
    OBVIOUS
  <2>2. PastGet(j) \subseteq Calls /\ S \subseteq PastGet(j)
    BY <2>1 DEF PastGet
  <2>3. Cardinality(S) <= Cardinality(PastGet(j)) /\ Cardinality(PastGet(j)) \in Nat
        /\ Cardinality(S) \in Nat
    BY <2>2, PastGetCounts
  <2>4. dels[j] \in Nat /\ dels[j] + Cardinality(PastGet(j)) <= Cardinality(Calls)
    BY SessionTypes, Deletions DEF DelsInFlight
  <2> QED
    BY <2>1, <2>3, <2>4, PastGetCounts
<1> QED
  BY <1>1, Deletions DEF DelsInFlight

\* A call that moves on, other than past its GET.
LEMMA PastGetShrinks ==
  ASSUME SInv, NEW c \in Calls, NEW x \in Call, x.at # "del", call' = [call EXCEPT ![c] = x],
         NEW j
  PROVE  PastGet(j)' \subseteq PastGet(j) \ {c}
<1>1. call'[c] = x /\ \A d \in Calls : d # c => call'[d] = call[d]
  BY PendingMoves
<1> QED
  BY <1>1 DEF PastGet

\* A DEL: the call that executes it is none of those that still are to do so.
LEMMA DelInFlight == ASSUME SInv, DelsInFlight, NEW c \in Calls, Del(c) PROVE DelsInFlight'
<1>t. call \in [Calls -> Call] /\ dels \in [Tokens -> Nat] /\ deleted \subseteq Tokens
  BY SessionTypes
<1>1. PICK k \in Tokens : k = call[c].jti
  BY <1>t DEF Call
<1>2. /\ call[c].at = "del" /\ dels' = [dels EXCEPT ![k] = @ + 1]
      /\ store' = store \ Stored(k)
  BY <1>1 DEF Del
<1>3. /\ deleted' = deleted \cup {k} /\ dels'[k] = dels[k] + 1 /\ dels[k] \in Nat
      /\ \A j \in Tokens : j # k => dels'[j] = dels[j]
  BY <1>t, <1>2, Deleting
<1>4. PICK x \in Call : x.at # "del" /\ call' = [call EXCEPT ![c] = x]
  <2>1. CASE call' = [call EXCEPT ![c] = Quiet]
    BY <2>1, QuietType
  <2>2. CASE call' = [call EXCEPT ![c].at = "set"]
    <3> DEFINE x == [call[c] EXCEPT !.at = "set"]
    <3>1. x \in Call /\ x.at # "del" /\ call' = [call EXCEPT ![c] = x]
      BY <1>t, <2>2 DEF Call
    <3> QED
      BY <3>1
  <2> QED
    BY <2>1, <2>2 DEF Del
<1>5. \A e \in store' : e.jti \notin deleted'
  BY <1>2, <1>3 DEF DelsInFlight, Stored
<1>6. ASSUME NEW j \in deleted' PROVE dels'[j] + Cardinality(PastGet(j)') <= Cardinality(Calls)
  <2>1. PICK S : S = PastGet(j)'
    OBVIOUS
  <2>2. S \subseteq PastGet(j) \ {c} /\ PastGet(j) \subseteq Calls
    BY <1>4, <2>1, PastGetShrinks DEF PastGet
  <2>3. /\ Cardinality(S) \in Nat /\ Cardinality(PastGet(j)) \in Nat
        /\ Cardinality(S) <= Cardinality(PastGet(j)) /\ Cardinality(Calls) \in Nat
    BY <2>2, PastGetCounts
  <2>4. CASE j # k
    <3>1. j \in deleted /\ dels'[j] = dels[j] /\ dels[j] \in Nat
      BY <1>t, <1>3, <2>4
    <3>2. dels[j] + Cardinality(PastGet(j)) <= Cardinality(Calls)
      BY <3>1 DEF DelsInFlight
    <3> QED
      BY <2>1, <2>3, <3>1, <3>2
  <2>5. CASE j = k /\ k \in deleted
    <3>1. c \in PastGet(k)
      BY <1>1, <1>2 DEF PastGet
    <3>2. Cardinality(PastGet(k) \ {c}) = Cardinality(PastGet(k)) - 1
          /\ Cardinality(S) <= Cardinality(PastGet(k) \ {c})
      BY <2>2, <2>5, <3>1, PastGetCounts
    <3>3. dels[k] + Cardinality(PastGet(k)) <= Cardinality(Calls)
      BY <2>5 DEF DelsInFlight
    <3> QED
      BY <1>3, <2>1, <2>3, <2>5, <3>2, <3>3
  <2>6. CASE j = k /\ k \notin deleted
    <3>1. dels[k] = 0
      BY <1>3, <2>6 DEF deleted
    <3>2. S \subseteq Calls \ {c} /\ Calls \ {c} \subseteq Calls
      BY <2>2
    <3>3. Cardinality(Calls \ {c}) = Cardinality(Calls) - 1
          /\ Cardinality(S) <= Cardinality(Calls \ {c})
      BY <3>2, PastGetCounts
    <3> QED
      BY <1>3, <2>1, <2>3, <2>6, <3>1, <3>3
  <2> QED
    BY <2>4, <2>5, <2>6
<1> QED
  BY <1>5, <1>6 DEF DelsInFlight

\* Every step of Sessions.
LEMMA FlightStep == SInv /\ DelsInFlight /\ [SessionsNext]_sessions => DelsInFlight'
<1> SUFFICES ASSUME SInv, DelsInFlight, [SessionsNext]_sessions PROVE DelsInFlight'
  OBVIOUS
<1>t. /\ call \in [Calls -> Call] /\ held \subseteq Session /\ store \subseteq Session
      /\ \A e \in store : e.jti \notin deleted
  BY SessionTypes DEF DelsInFlight
<1>1. ASSUME NEW c \in Calls, NEW x \in Call, x.at # "del", call' = [call EXCEPT ![c] = x],
             dels' = dels, \A e \in store' : e.jti \notin deleted'
      PROVE  DelsInFlight'
  <2>1. \A j \in deleted : PastGet(j)' \subseteq PastGet(j)
    BY <1>1, PastGetShrinks
  <2> QED
    BY <1>1, <2>1, FlightKeeps
<1>2. ASSUME call' = call, dels' = dels, \A e \in store' : e.jti \notin deleted'
      PROVE  DelsInFlight'
  <2>1. \A j \in deleted : PastGet(j)' \subseteq PastGet(j)
    BY <1>2 DEF PastGet
  <2> QED
    BY <1>2, <2>1, FlightKeeps
<1>3. ASSUME NEW u \in Users, SignIn(u) PROVE DelsInFlight'
  BY <1>2, <1>3, IssueInFlight DEF SignIn
<1>4. ASSUME NEW c \in Calls, NEW kind \in {"refresh", "logout"}, NEW e \in held,
             Present(c, kind, e)
      PROVE  DelsInFlight'
  <2> DEFINE x == [at |-> "get", kind |-> kind, user |-> e.user, jti |-> e.jti]
  <2>1. x \in Call /\ x.at # "del"
    BY <1>t DEF Call, Session
  <2>2. call' = [call EXCEPT ![c] = x] /\ dels' = dels /\ store' = store
    BY <1>4 DEF Present, tokens
  <2> HIDE DEF x
  <2> QED
    BY <1>t, <1>1, <2>1, <2>2, Deletions
<1>5. ASSUME NEW c \in Calls, Get(c) PROVE DelsInFlight'
  <2>1. call[c].at = "get" /\ dels' = dels /\ store' = store
    BY <1>5 DEF Get, tokens
  <2>2. CASE Stored(call[c].jti) = {}
    <3>1. call' = [call EXCEPT ![c] = Quiet]
      BY <1>5, <2>2 DEF Get
    <3> QED
      BY <1>t, <1>1, <2>1, <3>1, QuietType, Deletions
  <2>3. CASE Stored(call[c].jti) # {}
    <3>1. call[c].jti \notin deleted
      BY <1>t, <2>3 DEF Stored
    <3> DEFINE x == [call[c] EXCEPT !.at = "del"]
    <3>2. x \in Call /\ x.jti = call[c].jti /\ call' = [call EXCEPT ![c] = x]
      BY <1>t, <1>5, <2>3 DEF Get, Call
    <3> HIDE DEF x
    <3>3. call'[c] = x /\ \A d \in Calls : d # c => call'[d] = call[d]
      BY <1>t, <3>2
    <3>4. \A j \in deleted : PastGet(j)' \subseteq PastGet(j)
      BY <3>1, <3>2, <3>3 DEF PastGet
    <3> QED
      BY <1>t, <2>1, <3>4, Deletions, FlightKeeps
  <2> QED
    BY <2>2, <2>3
<1>6. ASSUME NEW c \in Calls, SetNew(c) PROVE DelsInFlight'
  <2>1. call[c].user \in Users /\ Issue(call[c].user) /\ dels' = dels
        /\ call' = [call EXCEPT ![c] = Quiet]
    BY <1>t, <1>6 DEF SetNew, Call
  <2> QED
    BY <1>1, <2>1, IssueInFlight, QuietType
<1>7. ASSUME NEW c \in Calls, CallFails(c) PROVE DelsInFlight'
  <2>1. call' = [call EXCEPT ![c] = Quiet] /\ dels' = dels /\ store' = store
    BY <1>7 DEF CallFails, tokens
  <2> QED
    BY <1>t, <1>1, <2>1, QuietType, Deletions
<1>8. CASE Expire
  BY <1>t, <1>2, <1>8, Deletions DEF Expire
<1>9. CASE UNCHANGED sessions
  BY <1>t, <1>2, <1>9, Deletions DEF sessions, tokens
<1> QED
  BY <1>3, <1>4, <1>5, <1>6, <1>7, <1>8, <1>9, DelInFlight DEF SessionsNext, CallStep

-----------------------------------------------------------------------------
(* The theorems                                                            *)

\* The invariant is inductive: logins, rotations, logouts, failures and expiry,
\* any number of them at once.
THEOREM SessionsInvariance == SessionsSpec => []SInv
BY InitSInv, SessionStep, PTL DEF SessionsSpec

\* Types; a key in Redis has its time to live, and no more, before it.
THEOREM SessionsTypeCorrect == SessionsSpec => []SessionsTypeOK
<1>1. SInv => SessionsTypeOK
  BY DEF SInv
<1> QED
  BY <1>1, SessionsInvariance, PTL

\* A delivered token is good until it expires or is itself deleted.
THEOREM HeldStaysGood == SessionsSpec => []HeldIsGoodUntilDeleted
<1>1. SInv => HeldIsGoodUntilDeleted
  BY DEF SInv
<1> QED
  BY <1>1, SessionsInvariance, PTL

\* Rotation neither multiplies nor loses sessions.
THEOREM SessionsConserved == SessionsSpec => []SessionsAreConserved
<1>1. SInv => SessionsAreConserved
  BY DEF SInv
<1> QED
  BY <1>1, SessionsInvariance, PTL
\* After the first DEL of a token only the calls that were already past their GET
\* can still redeem it.
THEOREM RedeemedInFlight == SessionsSpec => []RedeemedInFlightOnly
<1>1. SInv /\ DelsInFlight => RedeemedInFlightOnly
  <2> SUFFICES ASSUME SInv, DelsInFlight, NEW j \in Tokens PROVE dels[j] <= Cardinality(Calls)
    BY DEF RedeemedInFlightOnly
  <2>1. dels[j] \in Nat /\ Cardinality(Calls) \in Nat
    BY SessionTypes, PastGetCounts
  <2>2. CASE j \in deleted
    <3>1. PastGet(j) \subseteq Calls
      BY DEF PastGet
    <3>2. Cardinality(PastGet(j)) \in Nat
      BY <3>1, PastGetCounts
    <3> QED
      BY <2>1, <2>2, <3>2 DEF DelsInFlight
  <2>3. CASE j \notin deleted
    BY <2>1, <2>3 DEF deleted
  <2> QED
    BY <2>2, <2>3
<1>2. SInv /\ DelsInFlight /\ [SessionsNext]_sessions => SInv' /\ DelsInFlight'
  BY SessionStep, FlightStep
<1> QED
  BY <1>1, <1>2, InitSInv, InitInFlight, PTL DEF SessionsSpec
=============================================================================
