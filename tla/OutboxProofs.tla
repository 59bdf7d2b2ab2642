---------------------------- MODULE OutboxProofs ----------------------------
(***************************************************************************)
(* Theorems of Outbox, for every number of rows and workers, every batch   *)
(* size and attempt limit, and any number of faults.                       *)
(*                                                                         *)
(* The heart is an account kept for each row: side effects seen so far and *)
(* handlers that are still going to cause one are never more than the      *)
(* failed attempts counted on the row, the faults, and one for whoever     *)
(* holds the row or finished it.                                           *)
(***************************************************************************)
EXTENDS Outbox, SumTheorems

\* What the assumption says, in the portions the proofs cite.
LEMMA Limits ==
  /\ Events \subseteq Nat /\ IsFiniteSet(Events)
  /\ BatchSize \in Nat /\ MaxAttempts \in Nat /\ MaxAttempts # 0 /\ MaxFaults \in Nat
BY OutboxAssumption

\* The minimum of some numbers is one of them, and none is less.
LEMMA MinOf ==
  ASSUME NEW S \in SUBSET Nat, S # {}
  PROVE  Min(S) \in S /\ \A y \in S : Min(S) <= y
<1>1. PICK n \in S : \A m \in S : ~(m < n)
  BY Least
<1>2. \A m \in S : n <= m
  BY <1>1
<1> QED
  BY <1>2 DEF Min

-----------------------------------------------------------------------------
(* The inductive invariant                                                 *)

Progress == [at : Stages, batch : SUBSET Events, processed : SUBSET Events,
             failed : SUBSET Events, claim : BOOLEAN]
Working == {"handle", "send", "flag", "mark", "failed"}

\* A working tick has a row in hand, and the rows it staged are off its batch.
Shape ==
  \A w \in Workers :
    /\ worker[w].at \in {"idle", "down"} => worker[w].batch = {} /\ ~worker[w].claim
    /\ At(w, "commit") => worker[w].batch = {}
    /\ worker[w].at \in Working => worker[w].batch # {}
    /\ worker[w].batch \cap (worker[w].processed \cup worker[w].failed) = {}
    /\ worker[w].processed \cap worker[w].failed = {}

\* A locked row is due, and locked once.
Claims ==
  /\ \A w \in Workers : \A r \in Locked(w) : Due(r)
  /\ \A v, w \in Workers : v # w => Locked(v) \cap Locked(w) = {}

\* Only a pending row waits for its backoff, and only an appended row is handled.
Rows ==
  \A r \in Events :
    /\ row[r].delayed => row[r].status = "PENDING"
    /\ row[r].status = "NONE" => /\ effects[r] = 0
                                 /\ \A w \in Workers : r \notin worker[w].batch

\* The side effect of a row and its flag are there before it is staged.
Done(r) == /\ Kind[r] # "unknown" => effects[r] >= 1
           /\ Kind[r] = "otp.send" => r \in sent
Deeds ==
  \A w \in Workers :
    /\ \A r \in worker[w].processed : Done(r)
    /\ At(w, "mark") => Done(Current(w))
    /\ At(w, "flag") => effects[Current(w)] >= 1

\* Only the otp handler goes on to send.
Senders == \A w \in Workers : At(w, "send") => HasHandler(Current(w))

\* The rows of w whose side effect may still come, and the account.
Ahead(w) == IF worker[w].at \in {"flag", "mark", "failed"}
            THEN worker[w].batch \ {Current(w)} ELSE worker[w].batch
Open(r) == {w \in Workers : r \in Ahead(w)}
Held(r) == Terminal(r) \/ \E w \in Workers : r \in Locked(w)
One(b) == IF b THEN 1 ELSE 0
Account ==
  \A r \in Events :
    /\ IsFiniteSet(Open(r))
    /\ effects[r] + Cardinality(Open(r)) <= row[r].attempts + faults + One(Held(r))

Typed == TypeOK /\ worker \in [Workers -> Progress]
IInv ==
  /\ Typed /\ Shape /\ Claims /\ Rows /\ Deeds /\ Senders
  /\ ProcessedMeansDone /\ DeadLetterIsEarned /\ Account

\* A worker at rest.
LEMMA RestType ==
  /\ Rest \in Progress /\ [Rest EXCEPT !.at = "down"] \in Progress
  /\ Cardinality({}) = 0
BY FS_EmptySet DEF Rest, Progress, Stages

\* No row is appended at first, and no worker holds one.
LEMMA InitIInv == Init => IInv
<1> SUFFICES ASSUME Init PROVE IInv
  OBVIOUS
<1>1. Typed
  <2>0. 0 \in 0 .. MaxAttempts /\ 0 \in 0 .. MaxFaults
    BY Limits
  <2>a. [status |-> "NONE", attempts |-> 0, delayed |-> FALSE] \in Entry
    BY <2>0 DEF Entry
  <2>b. /\ row = [r \in Events |-> [status |-> "NONE", attempts |-> 0, delayed |-> FALSE]]
        /\ sent = {} /\ faults = 0
    BY DEF Init
  <2>1. row \in [Events -> Entry] /\ sent \subseteq Events /\ faults \in 0 .. MaxFaults
    BY <2>0, <2>a, <2>b
  <2>2. worker \in [Workers -> Progress]
    <3>1. worker = [w \in Workers |-> Rest]
      BY DEF Init
    <3> QED
      BY <3>1, RestType
  <2>3. \A w \in Workers : Cardinality(worker[w].batch) <= BatchSize
    <3>1. \A w \in Workers : worker[w].batch = {}
      BY DEF Init, Rest
    <3>2. Cardinality({}) <= BatchSize
      BY RestType, Limits
    <3> QED
      BY <3>1, <3>2
  <2> QED
    BY <2>1, <2>2, <2>3 DEF Typed, TypeOK, Progress, Init
<1>2. Shape /\ Claims /\ Rows /\ Deeds /\ Senders
  BY DEF Init, Senders, Shape, Claims, Rows, Deeds, Rest, At, Working, Locked
<1>3. ProcessedMeansDone /\ DeadLetterIsEarned
  BY Limits DEF Init, ProcessedMeansDone, DeadLetterIsEarned
<1>4. Account
  <2> SUFFICES ASSUME NEW r \in Events
               PROVE  /\ IsFiniteSet(Open(r))
                      /\ effects[r] + Cardinality(Open(r)) <=
                           row[r].attempts + faults + One(Held(r))
    BY DEF Account
  <2>1. Open(r) = {}
    BY DEF Init, Open, Ahead, Rest
  <2>2. effects[r] = 0 /\ row[r].attempts = 0 /\ faults = 0 /\ One(Held(r)) \in {0, 1}
    BY DEF Init, One
  <2> QED
    BY <2>1, <2>2, FS_EmptySet
<1> QED
  BY <1>1, <1>2, <1>3, <1>4 DEF IInv

\* The current row of a working tick is in its batch.
LEMMA CurrentRow ==
  ASSUME Typed, Shape, NEW w \in Workers, worker[w].at \in Working
  PROVE  Current(w) \in worker[w].batch /\ Current(w) \in Events
<1>1. worker[w].batch \in SUBSET Nat /\ worker[w].batch # {}
  BY Limits DEF Typed, Progress, Shape
<1>2. Min(worker[w].batch) \in worker[w].batch
  BY <1>1, MinOf
<1> QED
  BY <1>2 DEF Current, Typed, Progress

-----------------------------------------------------------------------------
(* Types                                                                   *)

Act(w) == Tick(w) \/ LoseClaim(w) \/ Crash(w) \/ Restart(w)

\* The row taken up next.
LEMMA NextRowType ==
  ASSUME Typed, Shape, NEW w \in Workers, worker[w].at \in Working
  PROVE  /\ NextRow(w) \in Progress
         /\ NextRow(w).batch = worker[w].batch \ {Current(w)}
         /\ NextRow(w).at = IF NextRow(w).batch = {} THEN "commit" ELSE "handle"
         /\ NextRow(w).processed = worker[w].processed
         /\ NextRow(w).failed = worker[w].failed
         /\ NextRow(w).claim = worker[w].claim
         /\ Cardinality(NextRow(w).batch) <= BatchSize
<1>1. worker[w] \in Progress
  BY DEF Typed
<1>2. /\ NextRow(w) \in Progress
      /\ NextRow(w).batch = worker[w].batch \ {Current(w)}
      /\ NextRow(w).at = IF NextRow(w).batch = {} THEN "commit" ELSE "handle"
      /\ NextRow(w).processed = worker[w].processed
      /\ NextRow(w).failed = worker[w].failed
      /\ NextRow(w).claim = worker[w].claim
  BY <1>1 DEF NextRow, Progress, Stages
<1>3. IsFiniteSet(worker[w].batch)
  BY <1>1, Limits, FS_Subset DEF Progress
<1>4. /\ Cardinality(worker[w].batch) <= BatchSize /\ Cardinality(worker[w].batch) \in Nat
      /\ Cardinality(worker[w].batch \ {Current(w)}) = Cardinality(worker[w].batch) - 1
  BY <1>3, CurrentRow, FS_CardinalityType, FS_RemoveElement DEF Typed, TypeOK
<1> QED
  BY <1>2, <1>4, Limits

\* What a poll claims: due rows, in no other tick's hands, and not too many.
LEMMA Claimed ==
  ASSUME NEW rows \in LowestDue
  PROVE  /\ rows \subseteq Events /\ Cardinality(rows) <= BatchSize
         /\ \A r \in rows : Due(r) /\ \A w \in Workers : r \notin Locked(w)
<1>1. rows \subseteq Claimable /\ Cardinality(rows) = Min({BatchSize, Cardinality(Claimable)})
  BY DEF LowestDue
<1>2. IsFiniteSet(Claimable)
  BY Limits, FS_Subset DEF Claimable
<1>3. Cardinality(Claimable) \in Nat
  BY <1>2, FS_CardinalityType
<1>4. Min({BatchSize, Cardinality(Claimable)}) <= BatchSize
  BY <1>3, Limits, MinOf
<1> QED
  BY <1>1, <1>4 DEF Claimable

\* One worker moves at a time, and what it does next is well formed.
LEMMA WorkerMove ==
  ASSUME Typed, Shape, NEW w \in Workers, Act(w)
  PROVE  /\ worker' \in [Workers -> Progress]
         /\ \A v \in Workers : v # w => worker'[v] = worker[v]
         /\ Cardinality(worker'[w].batch) <= BatchSize
<1> DEFINE Goal == /\ worker' \in [Workers -> Progress]
                   /\ \A v \in Workers : v # w => worker'[v] = worker[v]
                   /\ Cardinality(worker'[w].batch) <= BatchSize
<1>t. /\ worker \in [Workers -> Progress] /\ worker[w] \in Progress
      /\ Cardinality(worker[w].batch) <= BatchSize
  BY DEF Typed, TypeOK
<1>1. ASSUME NEW x \in Progress, worker' = [worker EXCEPT ![w] = x],
             Cardinality(x.batch) <= BatchSize
      PROVE  Goal
  BY <1>t, <1>1
<1>2. ASSUME NEW stage \in Stages, GoTo(w, stage) PROVE Goal
  <2>1. [worker[w] EXCEPT !.at = stage] \in Progress
    BY <1>t DEF Progress
  <2>2. worker' = [worker EXCEPT ![w] = [worker[w] EXCEPT !.at = stage]]
    BY <1>2, <1>t DEF GoTo
  <2>3. [worker[w] EXCEPT !.at = stage].batch = worker[w].batch
    BY <1>t DEF Progress
  <2> QED
    BY <1>1, <1>t, <2>1, <2>2, <2>3
<1>3. CASE Poll(w)
  <2>1. PICK rows \in LowestDue \ {{}} : worker' = [worker EXCEPT ![w] =
          [Rest EXCEPT !.at = "handle", !.batch = rows, !.claim = TRUE]]
    BY <1>3 DEF Poll
  <2> DEFINE x == [Rest EXCEPT !.at = "handle", !.batch = rows, !.claim = TRUE]
  <2>2. x \in Progress /\ x.batch = rows /\ Cardinality(rows) <= BatchSize
    BY Claimed DEF Rest, Progress, Stages
  <2> HIDE DEF x
  <2> QED
    BY <1>1, <2>1, <2>2 DEF x
<1>4. CASE Handle(w) \/ SendOtp(w) \/ FlagSent(w) \/ HandlerFails(w)
  <2>1. \E stage \in {"mark", "send", "flag", "failed"} : GoTo(w, stage)
    BY <1>4 DEF Handle, SkipUnknown, LogEvent, FindOtp, SendOtp, FlagSent, HandlerFails
  <2> QED
    BY <1>2, <2>1 DEF Stages
<1>5. CASE StageProcessed(w)
  <2> DEFINE x == [NextRow(w) EXCEPT !.processed = @ \cup {Current(w)}]
  <2>1. worker[w].at \in Working
    BY <1>5 DEF StageProcessed, At, Working
  <2>2. NextRow(w) \in Progress /\ Current(w) \in Events
    BY <2>1, NextRowType, CurrentRow
  <2>3. x \in Progress /\ x.batch = NextRow(w).batch
    BY <2>2 DEF Progress
  <2>4. worker' = [worker EXCEPT ![w] = x]
    BY <1>5 DEF StageProcessed
  <2> HIDE DEF x
  <2> QED
    BY <1>1, <2>1, <2>3, <2>4, NextRowType
<1>6. CASE StageFailed(w)
  <2> DEFINE x == [NextRow(w) EXCEPT !.failed = @ \cup {Current(w)}]
  <2>1. worker[w].at \in Working
    BY <1>6 DEF StageFailed, At, Working
  <2>2. NextRow(w) \in Progress /\ Current(w) \in Events
    BY <2>1, NextRowType, CurrentRow
  <2>3. x \in Progress /\ x.batch = NextRow(w).batch
    BY <2>2 DEF Progress
  <2>4. worker' = [worker EXCEPT ![w] = x]
    BY <1>6 DEF StageFailed
  <2> HIDE DEF x
  <2> QED
    BY <1>1, <2>1, <2>3, <2>4, NextRowType
<1>7. CASE Commit(w) \/ Restart(w)
  <2>1. worker' = [worker EXCEPT ![w] = Rest] /\ Rest.batch = {}
    BY <1>7 DEF Commit, Restart, Rest
  <2>2. Cardinality({}) <= BatchSize
    BY RestType, Limits
  <2> QED
    BY <1>1, <2>1, <2>2, RestType
<1>8. CASE Rejected(w) \/ Crash(w)
  <2>1. /\ worker' = [worker EXCEPT ![w] = [Rest EXCEPT !.at = "down"]]
        /\ [Rest EXCEPT !.at = "down"].batch = {}
    BY <1>8 DEF Rejected, Crash, Rest
  <2>2. Cardinality({}) <= BatchSize
    BY RestType, Limits
  <2> QED
    BY <1>1, <2>1, <2>2, RestType
<1>9. CASE LoseClaim(w)
  <2> DEFINE x == [worker[w] EXCEPT !.claim = FALSE]
  <2>1. x \in Progress /\ x.batch = worker[w].batch
    BY <1>t DEF Progress
  <2>2. worker' = [worker EXCEPT ![w] = x]
    BY <1>9, <1>t DEF LoseClaim
  <2> HIDE DEF x
  <2> QED
    BY <1>1, <1>t, <2>1, <2>2
<1> QED
  BY <1>3, <1>4, <1>5, <1>6, <1>7, <1>8, <1>9 DEF Act, Tick

\* A failed attempt of a pending row stays within the limit.
LEMMA FailureType ==
  ASSUME Typed, DeadLetterIsEarned, NEW r \in Events, row[r].status = "PENDING"
  PROVE  /\ AfterFailure(row[r]) \in Entry
         /\ AfterFailure(row[r]).attempts = row[r].attempts + 1
         /\ AfterFailure(row[r]).delayed => AfterFailure(row[r]).status = "PENDING"
         /\ AfterFailure(row[r]).status \in {"PENDING", "DEAD_LETTER"}
         /\ AfterFailure(row[r]).status = "DEAD_LETTER" <=> row[r].attempts + 1 = MaxAttempts
<1>1. row[r] \in Entry /\ row[r].attempts # MaxAttempts
  BY DEF Typed, TypeOK, DeadLetterIsEarned
<1>2. row[r].attempts \in 0 .. MaxAttempts
  BY <1>1 DEF Entry
<1>3. row[r].attempts + 1 \in 0 .. MaxAttempts
  BY <1>1, <1>2, Limits
<1>4. row[r].attempts + 1 >= MaxAttempts <=> row[r].attempts + 1 = MaxAttempts
  BY <1>3, Limits
<1> QED
  BY <1>3, <1>4 DEF AfterFailure, NextAttempts, IsDead, Entry

\* What a tick staged, of the rows it still has locked.
LEMMA StagedRows ==
  ASSUME IInv, NEW w \in Workers, At(w, "commit"), worker[w].claim
  PROVE  /\ Staged(w) \in [Events -> Entry]
         /\ Locked(w) = worker[w].processed \cup worker[w].failed
         /\ \A r \in Events :
              /\ r \in worker[w].processed => /\ row[r].status = "PENDING" /\ ~row[r].delayed
                                              /\ Staged(w)[r].status = "PROCESSED"
                                              /\ Staged(w)[r].attempts = row[r].attempts
                                              /\ ~Staged(w)[r].delayed
              /\ r \in worker[w].failed => /\ row[r].status = "PENDING"
                                           /\ Staged(w)[r] = AfterFailure(row[r])
              /\ r \notin Locked(w) => Staged(w)[r] = row[r]
<1>1. Locked(w) = worker[w].processed \cup worker[w].failed
  BY DEF IInv, Shape, Locked
<1>2. \A r \in Locked(w) : row[r].status = "PENDING" /\ ~row[r].delayed
  BY DEF IInv, Claims, Due
<1>3. worker[w].processed \cap worker[w].failed = {}
  BY DEF IInv, Shape
<1>4. row \in [Events -> Entry]
  BY DEF IInv, Typed, TypeOK
<1>5. \A r \in Events : Staged(w)[r] \in Entry
  <2> TAKE r \in Events
  <2>1. CASE r \in worker[w].processed
    BY <1>4, <2>1 DEF Staged, Entry
  <2>2. CASE r \in worker[w].failed /\ r \notin worker[w].processed
    BY <1>1, <1>2, <2>2, FailureType DEF Staged, IInv
  <2>3. CASE r \notin worker[w].failed /\ r \notin worker[w].processed
    BY <1>4, <2>3 DEF Staged
  <2> QED
    BY <2>1, <2>2, <2>3
<1>6. Staged(w) \in [Events -> Entry]
  BY <1>5 DEF Staged
<1>7. \A r \in Events : r \in worker[w].processed =>
        Staged(w)[r] = [row[r] EXCEPT !.status = "PROCESSED"]
  BY DEF Staged
<1>8. \A r \in Events : r \in worker[w].failed => Staged(w)[r] = AfterFailure(row[r])
  BY <1>3 DEF Staged
<1>9. \A r \in Events : r \notin Locked(w) => Staged(w)[r] = row[r]
  BY <1>1 DEF Staged
<1> QED
  BY <1>1, <1>2, <1>4, <1>6, <1>7, <1>8, <1>9 DEF Entry

\* Every step keeps the types of the rows and of the workers' progress.
LEMMA TypeStep == IInv /\ [Next]_vars => Typed'
<1> SUFFICES ASSUME IInv, [Next]_vars PROVE Typed'
  OBVIOUS
<1>t. /\ row \in [Events -> Entry] /\ sent \subseteq Events /\ effects \in [Events -> Nat]
      /\ faults \in 0 .. MaxFaults /\ Typed /\ Shape
      /\ worker \in [Workers -> Progress]
      /\ \A w \in Workers : Cardinality(worker[w].batch) <= BatchSize
  BY DEF IInv, Typed, TypeOK
<1>1. ASSUME row' \in [Events -> Entry], sent' \subseteq Events, effects' \in [Events -> Nat],
             faults' \in 0 .. MaxFaults, worker' \in [Workers -> Progress],
             \A w \in Workers : Cardinality(worker'[w].batch) <= BatchSize
      PROVE  Typed'
  BY <1>1 DEF Typed, TypeOK, Progress
<1>2. ASSUME NEW r \in Events, AppendRow(r) \/ BackoffOver(r) PROVE Typed'
  <2>1. row' \in [Events -> Entry]
    BY <1>2, <1>t DEF AppendRow, BackoffOver, Entry
  <2> QED
    BY <1>1, <1>2, <1>t, <2>1 DEF AppendRow, BackoffOver
<1>3. ASSUME NEW w \in Workers, Act(w) PROVE Typed'
  <2>1. worker' \in [Workers -> Progress]
    BY <1>3, <1>t, WorkerMove
  <2>2. \A v \in Workers : Cardinality(worker'[v].batch) <= BatchSize
    BY <1>3, <1>t, WorkerMove
  <2>3. row' \in [Events -> Entry]
    <3>1. CASE Commit(w)
      BY <3>1, StagedRows DEF Commit
    <3>2. CASE ~Commit(w)
      BY <1>3, <1>t, <3>2 DEF Act, Tick, Poll, Handle, SendOtp, FlagSent, HandlerFails,
         StageProcessed, StageFailed, Rejected, LoseClaim, Crash, Restart
    <3> QED
      BY <3>1, <3>2
  <2>4. worker[w].at \in Working => Current(w) \in Events
    BY <1>t, CurrentRow
  <2>5. sent' \subseteq Events
    <3>1. CASE FlagSent(w)
      BY <1>t, <2>4, <3>1 DEF FlagSent, At, Working
    <3>2. CASE ~FlagSent(w)
      BY <1>3, <1>t, <3>2 DEF Act, Tick, Poll, Handle, SendOtp, HandlerFails, Commit,
         StageProcessed, StageFailed, Rejected, LoseClaim, Crash, Restart
    <3> QED
      BY <3>1, <3>2
  <2>6. effects' \in [Events -> Nat]
    <3>1. CASE UNCHANGED effects
      BY <1>t, <3>1
    <3>2. CASE effects' = [effects EXCEPT ![Current(w)] = @ + 1]
      <4>1. PICK c : c = Current(w)
        OBVIOUS
      <4>2. effects \in [Events -> Nat] /\ effects' = [effects EXCEPT ![c] = effects[c] + 1]
        BY <1>t, <3>2, <4>1
      <4>3. \A r \in Events : effects'[r] \in Nat
        BY <4>2
      <4> QED
        BY <4>2, <4>3
    <3> QED
      BY <1>3, <3>1, <3>2 DEF Act, Tick, Poll, Handle, SkipUnknown, LogEvent, FindOtp, SendOtp,
         FlagSent, HandlerFails, Commit, StageProcessed, StageFailed, Rejected, LoseClaim, Crash, Restart
  <2>7. faults' \in 0 .. MaxFaults
    <3>1. CASE UNCHANGED faults
      BY <1>t, <3>1
    <3>2. CASE faults < MaxFaults /\ faults' = faults + 1
      BY <1>t, <3>2, Limits
    <3> QED
      BY <1>3, <3>1, <3>2 DEF Act, Tick, Poll, Handle, SendOtp,
         FlagSent, HandlerFails, Commit, StageProcessed, StageFailed, Rejected, LoseClaim, Crash, Restart
  <2> QED
    BY <1>1, <2>1, <2>2, <2>3, <2>5, <2>6, <2>7
<1>4. CASE UNCHANGED vars
  BY <1>1, <1>4, <1>t DEF vars
<1> QED
  BY <1>2, <1>3, <1>4 DEF Next, Act

-----------------------------------------------------------------------------
(* How a worker moves                                                      *)

Moved(w, stage) ==
  /\ worker'[w].at = stage
  /\ worker'[w].batch = worker[w].batch /\ worker'[w].claim = worker[w].claim
  /\ worker'[w].processed = worker[w].processed /\ worker'[w].failed = worker[w].failed

\* A handler's step changes the stage and nothing else.
LEMMA GoToMoves ==
  ASSUME Typed, NEW w \in Workers, NEW stage \in Stages, GoTo(w, stage)
  PROVE  Moved(w, stage)
<1>1. worker \in [Workers -> Progress] /\ worker[w] \in Progress
  BY DEF Typed
<1>2. worker'[w] = [worker[w] EXCEPT !.at = stage]
  BY <1>1 DEF GoTo
<1> QED
  BY <1>1, <1>2 DEF Moved, Progress

\* The steps of a tick that only change its stage.
LEMMA HandlerMoves ==
  ASSUME Typed, NEW w \in Workers,
         Handle(w) \/ SendOtp(w) \/ FlagSent(w) \/ HandlerFails(w)
  PROVE  /\ worker[w].at \in {"handle", "send", "flag"}
         /\ \E stage \in {"mark", "send", "flag", "failed"} : Moved(w, stage)
<1>1. worker[w].at \in {"handle", "send", "flag"}
  BY DEF Handle, SendOtp, FlagSent, HandlerFails, At
<1>2. \E stage \in {"mark", "send", "flag", "failed"} : GoTo(w, stage)
  BY DEF Handle, SkipUnknown, LogEvent, FindOtp, SendOtp, FlagSent, HandlerFails
<1>3. {"mark", "send", "flag", "failed"} \subseteq Stages
  BY DEF Stages
<1> QED
  BY <1>1, <1>2, <1>3, GoToMoves

\* The two stagings take the current row off the batch.
LEMMA StagingMoves ==
  ASSUME Typed, Shape, NEW w \in Workers, StageProcessed(w) \/ StageFailed(w)
  PROVE  /\ worker[w].at \in Working /\ Current(w) \in worker[w].batch
         /\ worker[w].claim /\ worker'[w].claim
         /\ worker'[w].batch = worker[w].batch \ {Current(w)}
         /\ worker'[w].at = IF worker'[w].batch = {} THEN "commit" ELSE "handle"
         /\ \/ /\ At(w, "mark") /\ worker'[w].processed = worker[w].processed \cup {Current(w)}
               /\ worker'[w].failed = worker[w].failed
            \/ /\ At(w, "failed") /\ worker'[w].failed = worker[w].failed \cup {Current(w)}
               /\ worker'[w].processed = worker[w].processed
<1>1. worker[w].at \in Working /\ worker[w].claim
  BY DEF StageProcessed, StageFailed, At, Working
<1>2. NextRow(w) \in Progress /\ worker \in [Workers -> Progress]
  BY <1>1, NextRowType DEF Typed
<1>3. CASE StageProcessed(w)
  <2>1. worker'[w] = [NextRow(w) EXCEPT !.processed = NextRow(w).processed \cup {Current(w)}]
    BY <1>2, <1>3 DEF StageProcessed
  <2>2. /\ worker'[w].processed = NextRow(w).processed \cup {Current(w)}
        /\ worker'[w].failed = NextRow(w).failed /\ worker'[w].claim = NextRow(w).claim
        /\ worker'[w].batch = NextRow(w).batch /\ worker'[w].at = NextRow(w).at
    BY <1>2, <2>1 DEF Progress
  <2> QED
    BY <1>1, <1>3, <2>2, NextRowType, CurrentRow DEF StageProcessed
<1>4. CASE StageFailed(w)
  <2>1. worker'[w] = [NextRow(w) EXCEPT !.failed = NextRow(w).failed \cup {Current(w)}]
    BY <1>2, <1>4 DEF StageFailed
  <2>2. /\ worker'[w].failed = NextRow(w).failed \cup {Current(w)}
        /\ worker'[w].processed = NextRow(w).processed /\ worker'[w].claim = NextRow(w).claim
        /\ worker'[w].batch = NextRow(w).batch /\ worker'[w].at = NextRow(w).at
    BY <1>2, <2>1 DEF Progress
  <2> QED
    BY <1>1, <1>4, <2>2, NextRowType, CurrentRow DEF StageFailed
<1> QED
  BY <1>3, <1>4

\* Poll takes due rows that nobody has locked.
LEMMA PollMoves ==
  ASSUME Typed, NEW w \in Workers, Poll(w)
  PROVE  /\ worker'[w].at = "handle" /\ worker'[w].batch # {} /\ worker'[w].claim
         /\ worker'[w].processed = {} /\ worker'[w].failed = {}
         /\ \A r \in worker'[w].batch :
              r \in Events /\ Due(r) /\ \A v \in Workers : r \notin Locked(v)
<1>1. PICK rows \in LowestDue \ {{}} : worker' = [worker EXCEPT ![w] =
        [Rest EXCEPT !.at = "handle", !.batch = rows, !.claim = TRUE]]
  BY DEF Poll
<1>2. worker'[w] = [Rest EXCEPT !.at = "handle", !.batch = rows, !.claim = TRUE]
  BY <1>1 DEF Typed
<1>3. /\ worker'[w].at = "handle" /\ worker'[w].batch = rows /\ worker'[w].claim
      /\ worker'[w].processed = {} /\ worker'[w].failed = {}
  BY <1>2 DEF Rest
<1> QED
  BY <1>3, Claimed

\* The steps that leave the worker empty-handed.
LEMMA RestMoves ==
  ASSUME Typed, NEW w \in Workers, Commit(w) \/ Restart(w) \/ Rejected(w) \/ Crash(w)
  PROVE  /\ worker'[w].at \in {"idle", "down"} /\ worker'[w].batch = {}
         /\ worker'[w].processed = {} /\ worker'[w].failed = {} /\ ~worker'[w].claim
<1>1. worker'[w] = Rest \/ worker'[w] = [Rest EXCEPT !.at = "down"]
  BY DEF Commit, Restart, Rejected, Crash, Typed
<1> QED
  BY <1>1 DEF Rest

\* A tick whose transaction is lost runs on.
LEMMA LossMoves ==
  ASSUME Typed, NEW w \in Workers, LoseClaim(w)
  PROVE  /\ worker'[w].at = worker[w].at /\ worker'[w].batch = worker[w].batch
         /\ worker'[w].processed = worker[w].processed
         /\ worker'[w].failed = worker[w].failed /\ ~worker'[w].claim
<1>1. worker[w] \in Progress /\ worker'[w] = [worker[w] EXCEPT !.claim = FALSE]
  BY DEF LoseClaim, Typed
<1> QED
  BY <1>1 DEF Progress

\* A tick holds rows exactly while it works, and has each of them in one of three
\* places: still to do, staged as processed, staged as failed.
LEMMA ShapeStep == IInv /\ [Next]_vars => Shape'
<1> SUFFICES ASSUME IInv, [Next]_vars PROVE Shape'
  OBVIOUS
<1>t. Typed /\ Shape
  BY DEF IInv
<1>1. CASE UNCHANGED worker
  BY <1>1, <1>t DEF Shape, At
<1>2. ASSUME NEW w \in Workers, Act(w) PROVE Shape'
  <2>1. \A v \in Workers : v # w => worker'[v] = worker[v]
    BY <1>2, <1>t, WorkerMove
  <2>2. ASSUME /\ worker'[w].at \in {"idle", "down"} => worker'[w].batch = {} /\ ~worker'[w].claim
               /\ worker'[w].at = "commit" => worker'[w].batch = {}
               /\ worker'[w].at \in Working => worker'[w].batch # {}
               /\ worker'[w].batch \cap (worker'[w].processed \cup worker'[w].failed) = {}
               /\ worker'[w].processed \cap worker'[w].failed = {}
        PROVE  Shape'
    BY <1>t, <2>1, <2>2 DEF Shape, At
  <2>3. CASE Handle(w) \/ SendOtp(w) \/ FlagSent(w) \/ HandlerFails(w)
    <3>1. PICK stage \in {"mark", "send", "flag", "failed"} :
            worker[w].at \in Working /\ Moved(w, stage)
      BY <1>t, <2>3, HandlerMoves DEF Working
    <3> QED
      BY <1>t, <2>2, <3>1 DEF Shape, Moved, Working
  <2>4. CASE StageProcessed(w) \/ StageFailed(w)
    BY <1>t, <2>2, <2>4, StagingMoves DEF Shape, Working
  <2>5. CASE Poll(w)
    BY <1>t, <2>2, <2>5, PollMoves
  <2>6. CASE Commit(w) \/ Restart(w) \/ Rejected(w) \/ Crash(w)
    BY <1>t, <2>2, <2>6, RestMoves DEF Working
  <2>7. CASE LoseClaim(w)
    <3>1. worker[w].claim
      BY <2>7 DEF LoseClaim
    <3> QED
      BY <1>t, <2>2, <2>7, <3>1, LossMoves DEF Shape, At
  <2> QED
    BY <1>2, <2>3, <2>4, <2>5, <2>6, <2>7 DEF Act, Tick
<1> QED
  BY <1>1, <1>2 DEF Next, Act, AppendRow, BackoffOver, vars

-----------------------------------------------------------------------------
(* Rows and who holds them                                                 *)

Handles(w) == Handle(w) \/ SendOtp(w) \/ FlagSent(w) \/ HandlerFails(w)
Stagings(w) == StageProcessed(w) \/ StageFailed(w)
Releases(w) == Commit(w) \/ Restart(w) \/ Rejected(w) \/ Crash(w) \/ LoseClaim(w)

\* What a worker does, by what it does to its claim: takes one, works in a handler,
\* stages a row, or gives the claim up.
LEMMA Actions ==
  ASSUME NEW w PROVE Act(w) <=> Poll(w) \/ Handles(w) \/ Stagings(w) \/ Releases(w)
BY DEF Act, Tick, Handles, Stagings, Releases

\* Locks are the business of the worker that moves.
LEMMA LocksOfOthers ==
  ASSUME IInv, NEW w \in Workers, Act(w), NEW v \in Workers, v # w
  PROVE  Locked(v)' = Locked(v) /\ worker'[v] = worker[v]
BY WorkerMove DEF Locked, IInv

\* A handler and a staging leave the rows of their tick locked.
LEMMA LocksKept ==
  ASSUME IInv, NEW w \in Workers, Handles(w) \/ Stagings(w)
  PROVE  Locked(w)' = Locked(w)
<1>t. Typed /\ Shape
  BY DEF IInv
<1>1. CASE Handles(w)
  <2>1. PICK stage \in {"mark", "send", "flag", "failed"} : Moved(w, stage)
    BY <1>t, <1>1, HandlerMoves DEF Handles
  <2> QED
    BY <2>1 DEF Moved, Locked
<1>2. CASE Stagings(w)
  BY <1>t, <1>2, StagingMoves DEF Stagings, Locked
<1> QED
  BY <1>1, <1>2

\* A poll finds its worker without locks and locks its batch.
LEMMA LocksTaken ==
  ASSUME IInv, NEW w \in Workers, Poll(w)
  PROVE  Locked(w) = {} /\ Locked(w)' = worker'[w].batch
<1>1. Locked(w) = {}
  BY DEF IInv, Poll, Shape, Locked, At
<1>2. Locked(w)' = worker'[w].batch
  BY PollMoves DEF IInv, Locked
<1> QED
  BY <1>1, <1>2

\* The end of the transaction, or of the process, unlocks all of them.
LEMMA LocksGone ==
  ASSUME IInv, NEW w \in Workers, Releases(w)
  PROVE  Locked(w)' = {}
BY RestMoves, LossMoves DEF IInv, Locked, Releases

\* No row moves but by a commit, which writes what it has locked.
LEMMA RowMoves ==
  ASSUME IInv, NEW w \in Workers, Act(w)
  PROVE  \/ UNCHANGED row
         \/ /\ Commit(w) /\ row' = Staged(w)
            /\ At(w, "commit") /\ worker[w].claim
            /\ \A r \in Events : r \notin Locked(w) => row'[r] = row[r]
<1>1. CASE Commit(w)
  <2>1. row' = Staged(w) /\ At(w, "commit") /\ worker[w].claim
    BY <1>1 DEF Commit
  <2> QED
    BY <1>1, <2>1, StagedRows
<1>2. CASE ~Commit(w)
  BY <1>2 DEF Act, Tick, Poll, Handle, SendOtp, FlagSent, HandlerFails,
     StageProcessed, StageFailed, Rejected, LoseClaim, Crash, Restart
<1> QED
  BY <1>1, <1>2

\* SKIP LOCKED: no row is locked by two workers, and a locked row is due.
LEMMA ClaimsStep == IInv /\ [Next]_vars => Claims'
<1> SUFFICES ASSUME IInv, [Next]_vars PROVE Claims'
  OBVIOUS
<1>c. Claims
  BY DEF IInv
<1>e. \A v \in Workers : Locked(v) \subseteq Events
  BY DEF IInv, Typed, Progress, Locked
<1>1. ASSUME NEW r \in Events, AppendRow(r) \/ BackoffOver(r) PROVE Claims'
  <2>1. ~Due(r) /\ \A q \in Events : q # r => row'[q] = row[q]
    BY <1>1 DEF AppendRow, BackoffOver, Due, IInv, Typed, TypeOK
  <2>2. \A v \in Workers : Locked(v)' = Locked(v)
    BY <1>1 DEF AppendRow, BackoffOver, Locked
  <2>3. \A v \in Workers : \A q \in Locked(v) : q # r /\ Due(q)'
    BY <1>c, <1>e, <2>1 DEF Claims, Due
  <2> QED
    BY <1>c, <2>2, <2>3 DEF Claims
<1>2. ASSUME NEW w \in Workers, Act(w) PROVE Claims'
  <2>1. \A v \in Workers : v # w => Locked(v)' = Locked(v)
    BY <1>2, LocksOfOthers
  <2>2. \A v \in Workers : v # w => \A r \in Locked(v) : row'[r] = row[r]
    BY <1>2, <1>c, <1>e, RowMoves DEF Claims
  <2>3. \A v \in Workers : v # w => \A r \in Locked(v)' : Due(r)'
    BY <1>c, <2>1, <2>2 DEF Claims, Due
  <2>4. CASE Poll(w)
    <3>1. Locked(w)' = worker'[w].batch
      BY <2>4, LocksTaken
    <3>2. \A r \in worker'[w].batch : Due(r) /\ \A v \in Workers : r \notin Locked(v)
      BY <2>4, PollMoves DEF IInv
    <3>3. UNCHANGED row
      BY <2>4 DEF Poll
    <3>4. \A v \in Workers : \A r \in Locked(v)' : Due(r)'
      BY <2>3, <3>1, <3>2, <3>3 DEF Due
    <3>5. \A u, v \in Workers : u # v => Locked(u)' \cap Locked(v)' = {}
      BY <1>c, <2>1, <3>1, <3>2 DEF Claims
    <3> QED
      BY <3>4, <3>5 DEF Claims
  <2>5. CASE Handles(w) \/ Stagings(w)
    <3>1. Locked(w)' = Locked(w)
      BY <2>5, LocksKept
    <3>2. UNCHANGED row
      BY <2>5 DEF Handles, Stagings, Handle, SendOtp, FlagSent, HandlerFails,
         StageProcessed, StageFailed
    <3>3. \A v \in Workers : Locked(v)' = Locked(v)
      BY <2>1, <3>1
    <3> QED
      BY <1>c, <3>2, <3>3 DEF Claims, Due
  <2>6. CASE Releases(w)
    <3>1. Locked(w)' = {}
      BY <2>6, LocksGone
    <3>2. \A v \in Workers : \A r \in Locked(v)' : Due(r)'
      BY <2>3, <3>1
    <3>3. \A u, v \in Workers : u # v => Locked(u)' \cap Locked(v)' = {}
      BY <1>c, <2>1, <3>1 DEF Claims
    <3> QED
      BY <3>2, <3>3 DEF Claims
  <2> QED
    BY <1>2, <2>4, <2>5, <2>6, Actions
<1>3. CASE UNCHANGED vars
  BY <1>c, <1>3 DEF vars, Claims, Locked, Due
<1> QED
  BY <1>1, <1>2, <1>3 DEF Next, Act

\* Only Commit and the backoff change a row, and they keep it in shape.
LEMMA RowsStep == IInv /\ [Next]_vars => Rows'
<1> SUFFICES ASSUME IInv, [Next]_vars PROVE Rows'
  OBVIOUS
<1>t. Typed /\ Shape /\ Rows /\ row \in [Events -> Entry]
  BY DEF IInv, Typed, TypeOK
<1>1. ASSUME NEW r \in Events, AppendRow(r) \/ BackoffOver(r) PROVE Rows'
  <2>1. \A q \in Events : q # r => row'[q] = row[q]
    BY <1>1, <1>t DEF AppendRow, BackoffOver
  <2>2. row'[r].status # "NONE" /\ (row'[r].delayed => row'[r].status = "PENDING")
    BY <1>1, <1>t DEF AppendRow, BackoffOver, Rows, Entry
  <2>3. UNCHANGED <<worker, effects>>
    BY <1>1 DEF AppendRow, BackoffOver
  <2> QED
    BY <1>t, <2>1, <2>2, <2>3 DEF Rows
<1>2. ASSUME NEW w \in Workers, Act(w) PROVE Rows'
  <2>1. \A v \in Workers : v # w => worker'[v] = worker[v]
    BY <1>2, <1>t, WorkerMove
  <2>2. \A r \in worker'[w].batch : row[r].status # "NONE"
    <3>1. CASE Poll(w)
      BY <1>t, <3>1, PollMoves DEF Due
    <3>2. CASE Handles(w) \/ Stagings(w) \/ Releases(w)
      <4>1. worker'[w].batch \subseteq worker[w].batch
        BY <1>t, <3>2, HandlerMoves, StagingMoves, RestMoves, LossMoves
           DEF Handles, Stagings, Releases, Moved
      <4>2. worker[w].batch \subseteq Events
        BY <1>t DEF Typed, Progress
      <4> QED
        BY <1>t, <4>1, <4>2 DEF Rows
    <3> QED
      BY <1>2, <3>1, <3>2, Actions
  <2>3. \A r \in Events : /\ row'[r].delayed => row'[r].status = "PENDING"
                          /\ row'[r].status = "NONE" => row[r].status = "NONE"
    <3>1. CASE UNCHANGED row
      BY <1>t, <3>1 DEF Rows
    <3>2. CASE row' = Staged(w) /\ At(w, "commit") /\ worker[w].claim
      <4> TAKE r \in Events
      <4>1. CASE r \in worker[w].processed
        BY <3>2, <4>1, StagedRows
      <4>2. CASE r \in worker[w].failed
        <5>1. row[r].status = "PENDING" /\ row'[r] = AfterFailure(row[r])
          BY <3>2, <4>2, StagedRows
        <5> QED
          BY <1>t, <5>1, FailureType DEF IInv
      <4>3. CASE r \notin worker[w].processed /\ r \notin worker[w].failed
        <5>1. row'[r] = row[r]
          BY <3>2, <4>3, StagedRows
        <5> QED
          BY <1>t, <5>1 DEF Rows
      <4> QED
        BY <4>1, <4>2, <4>3
    <3> QED
      BY <1>2, <3>1, <3>2, RowMoves
  <2>4. \A r \in Events : row[r].status = "NONE" => effects'[r] = effects[r]
    <3>1. CASE UNCHANGED effects
      BY <3>1
    <3>2. CASE worker[w].at \in Working /\ effects' = [effects EXCEPT ![Current(w)] = @ + 1]
      <4>1. row[Current(w)].status # "NONE"
        BY <1>t, <3>2, CurrentRow DEF Rows
      <4> QED
        BY <3>2, <4>1
    <3> QED
      BY <1>2, <3>1, <3>2 DEF Act, Tick, Poll, Handle, SkipUnknown, LogEvent, FindOtp, SendOtp, At,
         FlagSent, HandlerFails, Commit, StageProcessed, StageFailed, Rejected, LoseClaim, Crash,
         Restart, Working
  <2> SUFFICES ASSUME NEW r \in Events
               PROVE  /\ row'[r].delayed => row'[r].status = "PENDING"
                      /\ row'[r].status = "NONE" => /\ effects'[r] = 0
                                                   /\ \A v \in Workers : r \notin worker'[v].batch
    BY DEF Rows
  <2> QED
    BY <1>t, <2>1, <2>2, <2>3, <2>4 DEF Rows
<1>3. CASE UNCHANGED vars
  BY <1>t, <1>3 DEF vars, Rows
<1> QED
  BY <1>1, <1>2, <1>3 DEF Next, Act

-----------------------------------------------------------------------------
(* Side effects                                                            *)

\* A side effect is that of the row in hand, at one of two places.
LEMMA EffectMoves ==
  ASSUME IInv, NEW w \in Workers, Act(w)
  PROVE  \/ UNCHANGED effects
         \/ /\ effects' = [effects EXCEPT ![Current(w)] = @ + 1]
            /\ Current(w) \in worker[w].batch /\ Current(w) \in Events
            /\ effects'[Current(w)] = effects[Current(w)] + 1
            /\ \/ At(w, "handle") /\ Moved(w, "mark") /\ HasHandler(Current(w))
               \/ At(w, "send") /\ Moved(w, "flag") /\ UNCHANGED <<row, sent>>
            /\ UNCHANGED <<row, sent, faults>>
            /\ Handles(w)
<1>t. Typed /\ Shape /\ effects \in [Events -> Nat]
  BY DEF IInv, Typed, TypeOK
<1>s. "mark" \in Stages /\ "flag" \in Stages
  BY DEF Stages
<1>1. worker[w].at \in Working => Current(w) \in worker[w].batch /\ Current(w) \in Events
  BY <1>t, CurrentRow
<1>2. CASE At(w, "handle") /\ LogEvent(w) /\ UNCHANGED <<row, sent, faults>> /\ Handles(w)
  <2>1. effects' = [effects EXCEPT ![Current(w)] = @ + 1] /\ Moved(w, "mark")
    BY <1>2, <1>s, <1>t, GoToMoves DEF LogEvent
  <2>2. Current(w) \in worker[w].batch /\ Current(w) \in Events
    BY <1>1, <1>2 DEF At, Working
  <2> QED
    BY <1>2, <1>t, <2>1, <2>2 DEF LogEvent, HasHandler
<1>3. CASE SendOtp(w)
  <2>1. effects' = [effects EXCEPT ![Current(w)] = @ + 1] /\ Moved(w, "flag")
    BY <1>3, <1>s, <1>t, GoToMoves DEF SendOtp
  <2>2. Current(w) \in worker[w].batch /\ Current(w) \in Events
    BY <1>1, <1>3 DEF SendOtp, At, Working
  <2> QED
    BY <1>3, <1>t, <2>1, <2>2 DEF SendOtp, Handles
<1>4. CASE UNCHANGED effects
  BY <1>4
<1> QED
  BY <1>2, <1>3, <1>4 DEF Act, Tick, Poll, Handle, SkipUnknown, FindOtp, FlagSent, HandlerFails,
     Commit, StageProcessed, StageFailed, Rejected, LoseClaim, Crash, Restart, Handles

\* What was done is never undone.
LEMMA DoneStays ==
  ASSUME IInv, [Next]_vars
  PROVE  \A r \in Events : /\ effects'[r] >= effects[r] /\ (r \in sent => r \in sent')
                           /\ Done(r) => Done(r)'
<1>t. effects \in [Events -> Nat]
  BY DEF IInv, Typed, TypeOK
<1>1. \A r \in Events : effects'[r] >= effects[r]
  <2>1. ASSUME NEW w \in Workers, Act(w) PROVE \A r \in Events : effects'[r] >= effects[r]
    BY <2>1, <1>t, EffectMoves
  <2>2. CASE UNCHANGED effects
    BY <1>t, <2>2
  <2> QED
    BY <2>1, <2>2 DEF Next, Act, AppendRow, BackoffOver, vars
<1>2. sent \subseteq sent'
  BY DEF Next, Act, Tick, Poll, Handle, SendOtp, FlagSent, HandlerFails, Commit,
     StageProcessed, StageFailed, Rejected, LoseClaim, Crash, Restart, AppendRow, BackoffOver, vars
<1>3. \A r \in Events : effects[r] >= 1 => effects'[r] >= 1
  <2> TAKE r \in Events
  <2>1. effects[r] \in Nat /\ effects'[r] >= effects[r] /\ effects'[r] \in Nat
    BY <1>1, <1>t, TypeStep DEF Typed, TypeOK
  <2> QED
    BY <2>1
<1> QED
  BY <1>1, <1>2, <1>3 DEF Done

\* A row is staged as processed after its handler has had its effect.
LEMMA DeedsStep == IInv /\ [Next]_vars => Deeds'
<1> SUFFICES ASSUME IInv, [Next]_vars PROVE Deeds'
  OBVIOUS
<1>t. Typed /\ Shape /\ Deeds /\ effects \in [Events -> Nat] /\ ProcessedMeansDone
  BY DEF IInv, Typed, TypeOK
<1>e. \A v \in Workers : worker[v].processed \subseteq Events
  BY <1>t DEF Typed, Progress
<1>c. \A v \in Workers : worker[v].at \in Working =>
        Current(v) \in Events /\ Current(v) \in worker[v].batch
  BY <1>t, CurrentRow
<1>d. \A r \in Events : (Done(r) => Done(r)') /\ (effects[r] >= 1 => effects'[r] >= 1)
  <2> TAKE r \in Events
  <2>1. effects[r] \in Nat /\ effects'[r] >= effects[r] /\ effects'[r] \in Nat
    BY DoneStays, <1>t, TypeStep DEF Typed, TypeOK
  <2> QED
    BY <2>1, DoneStays
<1>1. ASSUME NEW v \in Workers, worker'[v] = worker[v]
      PROVE  /\ \A r \in worker'[v].processed : Done(r)'
             /\ At(v, "mark")' => Done(Current(v))'
             /\ At(v, "flag")' => effects'[Current(v)'] >= 1
  <2>1. Current(v)' = Current(v)
    BY <1>1 DEF Current
  <2>2. \A r \in worker'[v].processed : Done(r)'
    BY <1>1, <1>d, <1>e, <1>t DEF Deeds
  <2>3. At(v, "mark") => Done(Current(v))'
    <3>1. At(v, "mark") => Done(Current(v)) /\ Current(v) \in Events
      BY <1>c, <1>t DEF Deeds, At, Working
    <3>2. PICK c : c = Current(v)
      OBVIOUS
    <3>3. At(v, "mark") => Done(c)'
      BY <1>d, <3>1, <3>2
    <3> QED
      BY <2>1, <3>2, <3>3 DEF Done
  <2>4. At(v, "flag") => effects'[Current(v)] >= 1
    BY <1>c, <1>d, <1>t DEF Deeds, At, Working
  <2> QED
    BY <1>1, <2>1, <2>2, <2>3, <2>4 DEF At
<1>2. CASE UNCHANGED worker
  BY <1>1, <1>2 DEF Deeds
<1>3. ASSUME NEW w \in Workers, Act(w) PROVE Deeds'
  <2>1. \A v \in Workers : v # w => worker'[v] = worker[v]
    BY <1>3, <1>t, WorkerMove
  <2>2. ASSUME /\ \A r \in worker'[w].processed : Done(r)'
               /\ worker'[w].at = "mark" => Done(Current(w))'
               /\ worker'[w].at = "flag" => effects'[Current(w)'] >= 1
        PROVE  Deeds'
    BY <1>1, <2>1, <2>2 DEF Deeds, At
  <2>3. CASE Poll(w)
    BY <1>t, <2>2, <2>3, PollMoves
  <2>4. CASE Commit(w) \/ Restart(w) \/ Rejected(w) \/ Crash(w)
    BY <1>t, <2>2, <2>4, RestMoves
  <2>5. CASE LoseClaim(w)
    <3>1. /\ worker'[w].at = worker[w].at /\ worker'[w].batch = worker[w].batch
          /\ worker'[w].processed = worker[w].processed
      BY <1>t, <2>5, LossMoves
    <3>2. UNCHANGED <<effects, sent>> /\ Current(w)' = Current(w)
      BY <2>5, <3>1 DEF LoseClaim, Current
    <3> QED
      BY <1>t, <2>2, <3>1, <3>2 DEF Deeds, At, Done
  <2>6. CASE Stagings(w)
    <3>1. /\ worker'[w].at \in {"commit", "handle"}
          /\ \/ worker'[w].processed = worker[w].processed
             \/ At(w, "mark") /\ worker'[w].processed = worker[w].processed \cup {Current(w)}
      BY <1>t, <2>6, StagingMoves DEF Stagings
    <3>2. \A r \in worker'[w].processed : r \in Events /\ Done(r)
      BY <1>c, <1>e, <1>t, <3>1 DEF Deeds, At, Working
    <3> QED
      BY <1>d, <2>2, <3>1, <3>2
  <2>7. CASE Handles(w)
    <3>1. PICK stage \in {"mark", "send", "flag", "failed"} :
            worker[w].at \in Working /\ Moved(w, stage)
      BY <1>t, <2>7, HandlerMoves DEF Handles, Working
    <3>2. PICK c \in Events : c = Current(w) /\ c = Current(w)'
      BY <1>c, <3>1 DEF Moved, Current
    <3>3. \A r \in worker'[w].processed : Done(r)'
      BY <1>d, <1>e, <1>t, <3>1 DEF Moved, Deeds
    <3>4. effects[c] \in Nat
      BY <1>t
    <3>s. {"mark", "send", "flag", "failed"} \subseteq Stages
      BY DEF Stages
    <3>5. ASSUME worker'[w].at = "mark" PROVE Done(c)'
      <4>1. CASE At(w, "handle") /\ SkipUnknown(w)
        <5>1. Kind[c] = "unknown"
          BY <3>2, <4>1 DEF SkipUnknown, HasHandler
        <5> QED
          BY <5>1 DEF Done
      <4>2. CASE At(w, "handle") /\ LogEvent(w)
        <5>1. Kind[c] = "log" /\ effects'[c] = effects[c] + 1
          BY <1>t, <3>2, <4>2 DEF LogEvent
        <5> QED
          BY <3>4, <5>1 DEF Done
      <4>3. CASE At(w, "handle") /\ FindOtp(w)
        <5>1. GoTo(w, IF c \in sent THEN "mark" ELSE "send")
          BY <3>2, <4>3 DEF FindOtp
        <5>2. c \in sent
          <6> SUFFICES ASSUME c \notin sent PROVE FALSE
            OBVIOUS
          <6>1. GoTo(w, "send")
            BY <5>1
          <6>2. Moved(w, "send")
            BY <1>t, <3>s, <6>1, GoToMoves
          <6> QED
            BY <3>5, <6>2 DEF Moved
        <5>3. effects[c] >= 1 /\ c \in sent'
          BY <1>t, <5>2, DoneStays DEF ProcessedMeansDone
        <5> QED
          BY <1>d, <5>3 DEF Done
      <4>4. CASE FlagSent(w)
        <5>1. effects[c] >= 1 /\ sent' = sent \cup {c} /\ UNCHANGED effects
          BY <1>t, <3>2, <4>4 DEF FlagSent, Deeds
        <5> QED
          BY <5>1 DEF Done
      <4>5. CASE SendOtp(w) \/ HandlerFails(w)
        <5>1. GoTo(w, "flag") \/ GoTo(w, "failed")
          BY <4>5 DEF SendOtp, HandlerFails
        <5>2. Moved(w, "flag") \/ Moved(w, "failed")
          BY <1>t, <3>s, <5>1, GoToMoves
        <5> QED
          BY <3>5, <5>2 DEF Moved
      <4> QED
        BY <2>7, <4>1, <4>2, <4>3, <4>4, <4>5 DEF Handles, Handle
    <3>6. ASSUME worker'[w].at = "flag" PROVE effects'[c] >= 1
      <4>1. CASE SendOtp(w)
        <5>1. effects'[c] = effects[c] + 1
          BY <1>t, <3>2, <4>1 DEF SendOtp
        <5> QED
          BY <3>4, <5>1
      <4>2. CASE ~SendOtp(w)
        <5>1. GoTo(w, "mark") \/ GoTo(w, "send") \/ GoTo(w, "failed")
          BY <2>7, <4>2 DEF Handles, Handle, SkipUnknown, LogEvent, FindOtp, FlagSent, HandlerFails
        <5>2. Moved(w, "mark") \/ Moved(w, "send") \/ Moved(w, "failed")
          BY <1>t, <3>s, <5>1, GoToMoves
        <5> QED
          BY <3>6, <5>2 DEF Moved
      <4> QED
        BY <4>1, <4>2
    <3>7. worker'[w].at = "mark" => Done(Current(w))'
      BY <3>2, <3>5 DEF Done
    <3> QED
      BY <2>2, <3>2, <3>3, <3>6, <3>7
  <2> QED
    BY <1>3, <2>3, <2>4, <2>5, <2>6, <2>7, Actions DEF Releases
<1> QED
  BY <1>2, <1>3 DEF Next, Act, AppendRow, BackoffOver, vars

\* Only the handler of otp.send goes on to send.
LEMMA SendersStep == IInv /\ [Next]_vars => Senders'
<1> SUFFICES ASSUME IInv, [Next]_vars, NEW v \in Workers, worker'[v].at = "send"
             PROVE  HasHandler(Current(v)')
  BY DEF Senders, At
<1>t. Typed /\ Shape /\ Senders
  BY DEF IInv
<1>1. CASE worker'[v] = worker[v]
  BY <1>1, <1>t DEF Senders, At, Current
<1>2. CASE worker'[v] # worker[v]
  <2>1. Act(v)
    BY <1>2, <1>t, WorkerMove DEF Next, Act, AppendRow, BackoffOver, vars
  <2>2. CASE Handles(v)
    <3>1. PICK stage \in {"mark", "send", "flag", "failed"} : Moved(v, stage)
      BY <1>t, <2>2, HandlerMoves DEF Handles
    <3>2. Current(v)' = Current(v)
      BY <3>1 DEF Moved, Current
    <3>3. CASE At(v, "handle") /\ FindOtp(v)
      BY <3>2, <3>3 DEF FindOtp, HasHandler
    <3>4. CASE ~(At(v, "handle") /\ FindOtp(v))
      <4>1. GoTo(v, "mark") \/ GoTo(v, "flag") \/ GoTo(v, "failed")
        BY <2>2, <3>4 DEF Handles, Handle, SkipUnknown, LogEvent, SendOtp, FlagSent, HandlerFails
      <4>2. {"mark", "flag", "failed"} \subseteq Stages
        BY DEF Stages
      <4>3. Moved(v, "mark") \/ Moved(v, "flag") \/ Moved(v, "failed")
        BY <1>t, <4>1, <4>2, GoToMoves
      <4> QED
        BY <4>3 DEF Moved
    <3> QED
      BY <3>3, <3>4
  <2>3. CASE Poll(v) \/ Stagings(v) \/ Commit(v) \/ Restart(v) \/ Rejected(v) \/ Crash(v)
    BY <1>t, <2>3, PollMoves, StagingMoves, RestMoves DEF Stagings
  <2>4. CASE LoseClaim(v)
    BY <1>t, <2>4, LossMoves DEF Senders, At, Current
  <2> QED
    BY <2>1, <2>2, <2>3, <2>4, Actions DEF Releases
<1> QED
  BY <1>1, <1>2

\* A row gets PROCESSED from a staging that its effect came before.
LEMMA ProcessedStep == IInv /\ [Next]_vars => ProcessedMeansDone'
<1> SUFFICES ASSUME IInv, [Next]_vars PROVE ProcessedMeansDone'
  OBVIOUS
<1>t. /\ Typed /\ Shape /\ Deeds /\ ProcessedMeansDone
      /\ effects \in [Events -> Nat] /\ effects' \in [Events -> Nat]
  BY TypeStep DEF IInv, Typed, TypeOK
<1>1. ASSUME NEW r \in Events, row'[r].status = "PROCESSED" PROVE Done(r)'
  <2>1. CASE row[r].status = "PROCESSED"
    BY <1>t, <2>1, DoneStays DEF ProcessedMeansDone, Done
  <2>2. CASE row[r].status # "PROCESSED"
    <3>1. PICK w \in Workers : Commit(w)
      <4>1. ~UNCHANGED row
        BY <1>1, <2>2
      <4>2. \A q \in Events : AppendRow(q) \/ BackoffOver(q) => row'[r].status # "PROCESSED"
        BY <1>t, <2>2 DEF AppendRow, BackoffOver, Typed, TypeOK, Entry
      <4> QED
        BY <1>1, <4>1, <4>2, RowMoves DEF Next, Act, vars
    <3>2. At(w, "commit") /\ worker[w].claim /\ row' = Staged(w)
      BY <3>1 DEF Commit
    <3>3. r \in worker[w].processed
      <4>1. CASE r \in worker[w].failed
        <5>1. row'[r] = AfterFailure(row[r]) /\ row[r].status = "PENDING"
          BY <3>2, <4>1, StagedRows
        <5> QED
          BY <1>1, <5>1, FailureType DEF IInv
      <4>2. CASE r \notin worker[w].failed /\ r \notin worker[w].processed
        BY <1>1, <2>2, <3>2, <4>2, StagedRows
      <4> QED
        BY <4>1, <4>2
    <3> QED
      BY <1>t, <3>3, DoneStays DEF Deeds
  <2> QED
    BY <2>1, <2>2
<1>2. ASSUME NEW r \in Events, r \in sent' PROVE effects'[r] >= 1
  <2>1. effects[r] \in Nat /\ effects'[r] \in Nat /\ effects'[r] >= effects[r]
    BY <1>t, DoneStays
  <2>2. effects[r] >= 1
    <3>1. CASE r \in sent
      BY <1>t, <3>1 DEF ProcessedMeansDone
    <3>2. CASE r \notin sent
      <4>1. PICK w \in Workers : FlagSent(w)
        BY <1>2, <3>2 DEF Next, Act, Tick, Poll, Handle, SendOtp, HandlerFails, Commit,
           StageProcessed, StageFailed, Rejected, LoseClaim, Crash, Restart, AppendRow,
           BackoffOver, vars
      <4> QED
        BY <1>2, <1>t, <3>2, <4>1 DEF FlagSent, Deeds
    <3> QED
      BY <3>1, <3>2
  <2> QED
    BY <2>1, <2>2
<1> QED
  BY <1>1, <1>2 DEF ProcessedMeansDone, Done

\* A row is dead-lettered by the failure that makes attempts reach the limit.
LEMMA DeadLetterStep == IInv /\ [Next]_vars => DeadLetterIsEarned'
<1> SUFFICES ASSUME IInv, [Next]_vars, NEW r \in Events
             PROVE  row'[r].status = "DEAD_LETTER" <=> row'[r].attempts = MaxAttempts
  BY DEF DeadLetterIsEarned
<1>t. /\ row \in [Events -> Entry] /\ DeadLetterIsEarned
      /\ row[r].status = "DEAD_LETTER" <=> row[r].attempts = MaxAttempts
  BY DEF IInv, Typed, TypeOK, DeadLetterIsEarned
<1>1. CASE UNCHANGED row
  BY <1>1, <1>t
<1>2. ASSUME NEW q \in Events, AppendRow(q) \/ BackoffOver(q)
      PROVE  row'[r].status = "DEAD_LETTER" <=> row'[r].attempts = MaxAttempts
  BY <1>2, <1>t DEF AppendRow, BackoffOver, Entry
<1>3. ASSUME NEW w \in Workers, row' = Staged(w), At(w, "commit"), worker[w].claim
      PROVE  row'[r].status = "DEAD_LETTER" <=> row'[r].attempts = MaxAttempts
  <2>1. CASE r \in worker[w].processed
    BY <1>3, <1>t, <2>1, StagedRows
  <2>2. CASE r \in worker[w].failed
    <3>1. row[r].status = "PENDING" /\ row'[r] = AfterFailure(row[r])
      BY <1>3, <2>2, StagedRows
    <3> QED
      BY <3>1, FailureType DEF IInv
  <2>3. CASE r \notin worker[w].processed /\ r \notin worker[w].failed
    BY <1>3, <1>t, <2>3, StagedRows
  <2> QED
    BY <2>1, <2>2, <2>3
<1> QED
  BY <1>1, <1>2, <1>3, RowMoves DEF Next, Act, vars

-----------------------------------------------------------------------------
(* The account                                                             *)

\* How the handlers still to come for a row change when one worker moves.
LEMMA OpenMoves ==
  ASSUME NEW r, NEW w \in Workers, IsFiniteSet(Open(r)),
         \A v \in Workers : v # w => worker'[v] = worker[v]
  PROVE  /\ IsFiniteSet(Open(r)')
         /\ Cardinality(Open(r)') \in Nat /\ Cardinality(Open(r)) \in Nat
         /\ Cardinality(Open(r)') + One(r \in Ahead(w)) =
              Cardinality(Open(r)) + One(r \in Ahead(w)')
<1>1. \A v \in Workers : v # w => Ahead(v)' = Ahead(v)
  BY DEF Ahead, Current
<1>2. Open(r)' = IF r \in Ahead(w)' THEN Open(r) \cup {w} ELSE Open(r) \ {w}
  BY <1>1 DEF Open
<1>3. w \in Open(r) <=> r \in Ahead(w)
  BY DEF Open
<1>4. /\ IsFiniteSet(Open(r) \cup {w}) /\ IsFiniteSet(Open(r) \ {w})
      /\ Cardinality(Open(r)) \in Nat
      /\ Cardinality(Open(r) \cup {w}) =
           IF w \in Open(r) THEN Cardinality(Open(r)) ELSE Cardinality(Open(r)) + 1
      /\ Cardinality(Open(r) \ {w}) =
           IF w \in Open(r) THEN Cardinality(Open(r)) - 1 ELSE Cardinality(Open(r))
  BY FS_AddElement, FS_RemoveElement, FS_CardinalityType
<1>5. PICK O : O = Open(r)'
  OBVIOUS
<1>6. IsFiniteSet(O) /\ Cardinality(O) \in Nat
  BY <1>2, <1>4, <1>5, FS_CardinalityType
<1>7. CASE r \in Ahead(w)'
  <2>1. O = Open(r) \cup {w}
    BY <1>2, <1>5, <1>7
  <2>2. Cardinality(O) = IF r \in Ahead(w) THEN Cardinality(Open(r)) ELSE Cardinality(Open(r)) + 1
    BY <1>3, <1>4, <2>1
  <2> QED
    BY <1>4, <1>5, <1>6, <1>7, <2>2 DEF One
<1>8. CASE r \notin Ahead(w)'
  <2>1. O = Open(r) \ {w}
    BY <1>2, <1>5, <1>8
  <2>2. Cardinality(O) = IF r \in Ahead(w) THEN Cardinality(Open(r)) - 1 ELSE Cardinality(Open(r))
    BY <1>3, <1>4, <2>1
  <2> QED
    BY <1>4, <1>5, <1>6, <1>8, <2>2 DEF One
<1> QED
  BY <1>7, <1>8

\* A move that pays for what it adds keeps the account of a row.
LEMMA Balance ==
  ASSUME IInv, Typed', NEW w \in Workers, NEW r \in Events,
         \A v \in Workers : v # w => worker'[v] = worker[v],
         effects'[r] + One(r \in Ahead(w)') + row[r].attempts + faults + One(Held(r))
           <= effects[r] + One(r \in Ahead(w)) + row'[r].attempts + faults' + One(Held(r)')
  PROVE  /\ IsFiniteSet(Open(r)')
         /\ effects'[r] + Cardinality(Open(r)') <= row'[r].attempts + faults' + One(Held(r)')
<1>1. /\ IsFiniteSet(Open(r))
      /\ effects[r] + Cardinality(Open(r)) <= row[r].attempts + faults + One(Held(r))
  BY DEF IInv, Account
<1>2. /\ IsFiniteSet(Open(r)')
      /\ Cardinality(Open(r)') \in Nat /\ Cardinality(Open(r)) \in Nat
      /\ Cardinality(Open(r)') + One(r \in Ahead(w)) =
           Cardinality(Open(r)) + One(r \in Ahead(w)')
  BY <1>1, OpenMoves
<1>3. /\ effects[r] \in Nat /\ effects'[r] \in Nat /\ faults \in Nat /\ faults' \in Nat
      /\ row[r].attempts \in Nat /\ row'[r].attempts \in Nat
  BY Limits DEF IInv, Typed, TypeOK, Entry
<1>4. \A b : One(b) \in Nat
  BY DEF One
<1> QED
  BY <1>1, <1>2, <1>3, <1>4

\* A handler's step: a side effect is one that was still to come.
LEMMA HandlerPays ==
  ASSUME IInv, NEW w \in Workers, Handles(w), NEW r \in Events
  PROVE  effects'[r] + One(r \in Ahead(w)') <= effects[r] + One(r \in Ahead(w))
<1>t. Typed /\ Shape /\ effects \in [Events -> Nat]
  BY DEF IInv, Typed, TypeOK
<1>1. PICK stage \in {"mark", "send", "flag", "failed"} :
        worker[w].at \in {"handle", "send", "flag"} /\ Moved(w, stage)
  BY <1>t, HandlerMoves DEF Handles
<1>2. Current(w)' = Current(w) /\ worker'[w].batch = worker[w].batch
  BY <1>1 DEF Moved, Current
<1>3. worker[w].at = "flag" => stage \in {"mark", "failed"}
  <2> SUFFICES ASSUME worker[w].at = "flag" PROVE stage \in {"mark", "failed"}
    OBVIOUS
  <2>1. GoTo(w, "mark") \/ GoTo(w, "failed")
    BY DEF Handles, Handle, SendOtp, FlagSent, HandlerFails, At
  <2>2. Moved(w, "mark") \/ Moved(w, "failed")
    BY <1>t, <2>1, GoToMoves DEF Stages
  <2> QED
    BY <1>1, <2>2 DEF Moved
<1>4. Ahead(w)' \subseteq Ahead(w)
  BY <1>1, <1>2, <1>3 DEF Ahead, Moved
<1>5. CASE UNCHANGED effects
  <2>1. One(r \in Ahead(w)') <= One(r \in Ahead(w))
    BY <1>4 DEF One
  <2>2. effects'[r] = effects[r] /\ effects[r] \in Nat
    BY <1>5, <1>t
  <2>3. One(r \in Ahead(w)') \in {0, 1} /\ One(r \in Ahead(w)) \in {0, 1}
    BY DEF One
  <2> QED
    BY <2>1, <2>2, <2>3
<1>6. CASE /\ effects' = [effects EXCEPT ![Current(w)] = @ + 1]
           /\ Current(w) \in worker[w].batch
           /\ (At(w, "handle") /\ Moved(w, "mark")) \/ (At(w, "send") /\ Moved(w, "flag"))
  <2>1. Ahead(w) = worker[w].batch /\ Ahead(w)' = worker[w].batch \ {Current(w)}
    BY <1>2, <1>6 DEF Ahead, At, Moved
  <2>2. CASE r = Current(w)
    <3>1. effects'[r] = effects[r] + 1 /\ effects[r] \in Nat
      BY <1>6, <1>t, <2>2
    <3>2. r \in Ahead(w) /\ r \notin Ahead(w)'
      BY <1>6, <2>1, <2>2
    <3> QED
      BY <3>1, <3>2 DEF One
  <2>3. CASE r # Current(w)
    <3>1. effects'[r] = effects[r] /\ effects[r] \in Nat
      BY <1>6, <1>t, <2>3
    <3> QED
      BY <1>4, <3>1 DEF One
  <2> QED
    BY <2>2, <2>3
<1>7. Act(w)
  BY Actions
<1>8. \/ UNCHANGED effects
      \/ /\ effects' = [effects EXCEPT ![Current(w)] = @ + 1]
         /\ Current(w) \in worker[w].batch
         /\ (At(w, "handle") /\ Moved(w, "mark")) \/ (At(w, "send") /\ Moved(w, "flag"))
  BY <1>7, EffectMoves
<1> QED
  BY <1>5, <1>6, <1>8

\* Who holds a row after a step of w, given what w itself has locked.
LEMMA HeldMoves ==
  ASSUME IInv, NEW w \in Workers, Act(w), NEW r \in Events
  PROVE  /\ UNCHANGED row /\ (r \in Locked(w)' <=> r \in Locked(w)) => (Held(r)' <=> Held(r))
         /\ row'[r] = row[r] /\ r \notin Locked(w) => (Held(r) => Held(r)')
<1>1. \A v \in Workers : v # w => Locked(v)' = Locked(v)
  BY LocksOfOthers
<1>2. UNCHANGED row /\ (r \in Locked(w)' <=> r \in Locked(w)) => (Held(r)' <=> Held(r))
  <2> SUFFICES ASSUME UNCHANGED row, r \in Locked(w)' <=> r \in Locked(w)
               PROVE  Held(r)' <=> Held(r)
    OBVIOUS
  <2>1. \A v \in Workers : r \in Locked(v)' <=> r \in Locked(v)
    BY <1>1
  <2> QED
    BY <2>1 DEF Held, Terminal
<1>3. row'[r] = row[r] /\ r \notin Locked(w) => (Held(r) => Held(r)')
  BY <1>1 DEF Held, Terminal
<1> QED
  BY <1>2, <1>3

\* Effects a row has had, and those that claims in flight may still have, are
\* covered by counted attempts, faults and the claim that holds it.
LEMMA AccountStep == IInv /\ [Next]_vars => Account'
<1> SUFFICES ASSUME IInv, [Next]_vars PROVE Account'
  OBVIOUS
<1>t. /\ Typed /\ Shape /\ Account /\ Typed' /\ row \in [Events -> Entry]
      /\ effects \in [Events -> Nat] /\ faults \in Nat /\ faults' \in Nat
  BY TypeStep, Limits DEF IInv, Typed, TypeOK
<1>n. \A r \in Events : /\ effects[r] \in Nat /\ effects'[r] \in Nat
                        /\ row[r].attempts \in Nat /\ row'[r].attempts \in Nat
  BY <1>t DEF Typed, TypeOK, Entry
<1>o. One(TRUE) = 1 /\ One(FALSE) = 0 /\ \A b : One(b) \in {0, 1}
  BY DEF One
<1>1. ASSUME NEW q \in Events, AppendRow(q) \/ BackoffOver(q) PROVE Account'
  <2>1. UNCHANGED <<worker, effects, faults>>
    BY <1>1 DEF AppendRow, BackoffOver
  <2>2. \A r \in Events : (Terminal(r)' <=> Terminal(r)) /\ row'[r].attempts = row[r].attempts
    BY <1>1, <1>t DEF AppendRow, BackoffOver, Terminal, Entry
  <2>3. \A r \in Events : Open(r)' = Open(r) /\ (Held(r)' <=> Held(r))
    BY <2>1, <2>2 DEF Open, Ahead, Current, Held, Locked
  <2>4. \A r \in Events : One(Held(r)') = One(Held(r))
    BY <2>3 DEF One
  <2> QED
    BY <1>t, <2>1, <2>2, <2>3, <2>4 DEF Account
<1>2. ASSUME NEW w \in Workers, Act(w) PROVE Account'
  <2>1. \A v \in Workers : v # w => worker'[v] = worker[v]
    BY <1>2, <1>t, WorkerMove
  <2>2. SUFFICES ASSUME NEW r \in Events
        PROVE effects'[r] + One(r \in Ahead(w)') + row[r].attempts + faults + One(Held(r))
                <= effects[r] + One(r \in Ahead(w)) + row'[r].attempts + faults' + One(Held(r)')
    BY <1>t, <2>1, Balance DEF Account
  <2>3. ASSUME UNCHANGED <<effects, row, faults>>, Held(r)' <=> Held(r),
               r \in Ahead(w)' => r \in Ahead(w)
        PROVE  effects'[r] + One(r \in Ahead(w)') + row[r].attempts + faults + One(Held(r))
                <= effects[r] + One(r \in Ahead(w)) + row'[r].attempts + faults' + One(Held(r)')
    BY <1>n, <1>t, <2>3 DEF One
  <2>4. CASE Poll(w)
    <3>1. UNCHANGED <<effects, row, faults>>
      BY <2>4 DEF Poll
    <3>2. CASE r \in worker'[w].batch
      <4>1. Due(r) /\ \A v \in Workers : r \notin Locked(v)
        BY <1>t, <2>4, <3>2, PollMoves
      <4>2. ~Held(r)
        BY <4>1 DEF Held, Due, Terminal
      <4>3. Held(r)'
        BY <2>4, <3>2, LocksTaken DEF Held
      <4> QED
        BY <1>n, <1>t, <3>1, <4>2, <4>3 DEF One
    <3>3. CASE r \notin worker'[w].batch
      <4>1. Held(r)' <=> Held(r)
        BY <1>2, <2>4, <3>1, <3>3, LocksTaken, HeldMoves
      <4>2. r \notin Ahead(w)'
        BY <3>3 DEF Ahead
      <4> QED
        BY <2>3, <3>1, <4>1, <4>2
    <3> QED
      BY <3>2, <3>3
  <2>5. CASE Handles(w)
    <3>1. UNCHANGED <<row, faults>>
      BY <2>5 DEF Handles, Handle, SendOtp, FlagSent, HandlerFails
    <3>2. Held(r)' <=> Held(r)
      BY <1>2, <2>5, <3>1, LocksKept, HeldMoves
    <3>3. One(Held(r)') = One(Held(r))
      BY <3>2 DEF One
    <3>4. effects'[r] + One(r \in Ahead(w)') <= effects[r] + One(r \in Ahead(w))
      BY <2>5, HandlerPays
    <3> QED
      BY <1>n, <1>o, <1>t, <3>1, <3>3, <3>4
  <2>6. CASE Stagings(w)
    <3>1. UNCHANGED <<effects, row, faults>>
      BY <2>6 DEF Stagings, StageProcessed, StageFailed
    <3>2. Held(r)' <=> Held(r)
      BY <1>2, <2>6, <3>1, LocksKept, HeldMoves
    <3>3. Ahead(w)' = Ahead(w)
      BY <1>t, <2>6, StagingMoves DEF Stagings, Ahead, At
    <3> QED
      BY <2>3, <3>1, <3>2, <3>3
  <2>7. CASE LoseClaim(w) \/ Crash(w)
    <3>1. UNCHANGED <<effects, row>> /\ faults' = faults + 1
      BY <2>7 DEF LoseClaim, Crash
    <3>2. Ahead(w)' \subseteq Ahead(w)
      BY <1>t, <2>7, LossMoves, RestMoves DEF Ahead, Current
    <3>3. One(r \in Ahead(w)') <= One(r \in Ahead(w))
      BY <3>2 DEF One
    <3> QED
      BY <1>n, <1>o, <1>t, <3>1, <3>3
  <2>8. CASE Restart(w) \/ Rejected(w)
    <3>1. UNCHANGED <<effects, row, faults>>
      BY <2>8 DEF Restart, Rejected
    <3>2. Locked(w) = {} /\ Locked(w)' = {}
      BY <1>t, <2>8, LocksGone DEF Restart, Rejected, Releases, Locked, Shape, At
    <3>3. Held(r)' <=> Held(r)
      BY <1>2, <3>1, <3>2, HeldMoves
    <3>4. Ahead(w)' = {}
      BY <1>t, <2>8, RestMoves DEF Ahead
    <3> QED
      BY <2>3, <3>1, <3>3, <3>4
  <2>9. CASE Commit(w)
    <3>1. /\ At(w, "commit") /\ worker[w].claim /\ row' = Staged(w)
          /\ UNCHANGED <<effects, faults>>
      BY <2>9 DEF Commit
    <3>2. One(r \in Ahead(w)') = 0
      BY <1>t, <2>9, RestMoves DEF Ahead, One
    <3>3. CASE r \in worker[w].processed
      <4>1. Held(r)' /\ row'[r].attempts = row[r].attempts
        BY <3>1, <3>3, StagedRows DEF Held, Terminal
      <4>2. One(Held(r)') = 1
        BY <4>1 DEF One
      <4>3. One(Held(r)) \in {0, 1} /\ One(r \in Ahead(w)) \in {0, 1}
        BY DEF One
      <4>4. effects'[r] = effects[r] /\ faults' = faults
        BY <3>1
      <4>5. effects[r] \in Nat /\ row[r].attempts \in Nat /\ faults \in Nat
        BY <1>n, <1>t
      <4>6. \A e, n, f \in Nat : \A h, a \in {0, 1} : e + 0 + n + f + h <= e + a + n + f + 1
        OBVIOUS
      <4> QED
        BY <3>2, <4>1, <4>2, <4>3, <4>4, <4>5, <4>6
    <3>4. CASE r \in worker[w].failed
      <4>1. row[r].status = "PENDING" /\ row'[r] = AfterFailure(row[r])
        BY <3>1, <3>4, StagedRows
      <4>2. row'[r].attempts = row[r].attempts + 1
        BY <4>1, FailureType DEF IInv
      <4> QED
        BY <1>n, <1>o, <1>t, <3>1, <3>2, <4>2
    <3>5. CASE r \notin Locked(w)
      <4>1. row'[r] = row[r]
        BY <3>1, <3>5, StagedRows
      <4>2. Held(r) => Held(r)'
        BY <1>2, <3>5, <4>1, HeldMoves
      <4>3. One(Held(r)) <= One(Held(r)')
        BY <4>2 DEF One
      <4> QED
        BY <1>n, <1>o, <1>t, <3>1, <3>2, <4>1, <4>3
    <3> QED
      BY <3>1, <3>3, <3>4, <3>5, StagedRows
  <2> QED
    BY <1>2, <2>4, <2>5, <2>6, <2>7, <2>8, <2>9, Actions DEF Releases
<1>3. CASE UNCHANGED vars
  <2>1. \A r \in Events : Open(r)' = Open(r) /\ (Held(r)' <=> Held(r))
    BY <1>3 DEF vars, Open, Ahead, Current, Held, Locked, Terminal
  <2>2. \A r \in Events : One(Held(r)') = One(Held(r))
    BY <2>1 DEF One
  <2> QED
    BY <1>3, <1>t, <2>1, <2>2 DEF vars, Account
<1> QED
  BY <1>1, <1>2, <1>3 DEF Next, Act

-----------------------------------------------------------------------------
(* The theorems                                                            *)

\* The invariant is inductive: polls, handlers, commits, crashes and lost
\* transactions of any number of workers, in any order.
THEOREM Invariance == Spec => []IInv
<1>1. IInv /\ [Next]_vars => IInv'
  BY TypeStep, ShapeStep, ClaimsStep, RowsStep, DeedsStep, SendersStep, ProcessedStep, DeadLetterStep,
     AccountStep DEF IInv
<1> QED
  BY <1>1, InitIInv, PTL DEF Spec

\* Types: a row never has more attempts than OUTBOX_MAX_ATTEMPTS, a tick never
\* more rows than OUTBOX_BATCH_SIZE.
THEOREM TypeCorrect == Spec => []TypeOK
<1>1. IInv => TypeOK
  BY DEF IInv, Typed
<1> QED
  BY <1>1, Invariance, PTL

\* A side effect is repeated at most once for each counted failure and fault.
THEOREM RepeatsAccounted == Spec => []RepeatsAreEarned
<1>1. IInv => RepeatsAreEarned
  <2> SUFFICES ASSUME IInv, NEW r \in Events
               PROVE  effects[r] <= 1 + row[r].attempts + faults
    BY DEF RepeatsAreEarned
  <2>1. /\ IsFiniteSet(Open(r))
        /\ effects[r] + Cardinality(Open(r)) <= row[r].attempts + faults + One(Held(r))
    BY DEF IInv, Account
  <2>2. Cardinality(Open(r)) \in Nat /\ One(Held(r)) \in {0, 1}
    BY <2>1, FS_CardinalityType DEF One
  <2>3. effects[r] \in Nat /\ row[r].attempts \in Nat /\ faults \in Nat
    BY Limits DEF IInv, Typed, TypeOK, Entry
  <2> QED
    BY <2>1, <2>2, <2>3
<1> QED
  BY <1>1, Invariance, PTL

\* A PROCESSED row had its side effect, and an OTP its flag.
THEOREM ProcessedIsDone == Spec => []ProcessedMeansDone
<1>1. IInv => ProcessedMeansDone
  BY DEF IInv
<1> QED
  BY <1>1, Invariance, PTL

\* A row is dead-lettered exactly at its last allowed failure.
THEOREM DeadLettersEarned == Spec => []DeadLetterIsEarned
<1>1. IInv => DeadLetterIsEarned
  BY DEF IInv
<1> QED
  BY <1>1, Invariance, PTL

\* No tick, however late, writes a row that another has finished: only locked
\* rows are written, and a locked row is pending.
THEOREM FinishedStays == Spec => TerminalIsFinal
<1>1. IInv /\ [Next]_vars => [\A r \in Events : Terminal(r) => row'[r] = row[r]]_vars
  <2> SUFFICES ASSUME IInv, [Next]_vars, NEW r \in Events, Terminal(r)
               PROVE  row'[r] = row[r]
    OBVIOUS
  <2>t. /\ row \in [Events -> Entry] /\ row[r].status \in {"PROCESSED", "DEAD_LETTER"}
        /\ ~row[r].delayed
    BY DEF IInv, Typed, TypeOK, Terminal, Rows, Entry
  <2>1. ASSUME NEW q \in Events, AppendRow(q) \/ BackoffOver(q) PROVE row'[r] = row[r]
    BY <2>1, <2>t DEF AppendRow, BackoffOver
  <2>2. ASSUME NEW w \in Workers, Act(w) PROVE row'[r] = row[r]
    BY <2>2, <2>t, RowMoves DEF IInv, Claims, Due
  <2> QED
    BY <2>1, <2>2 DEF Next, Act, vars
<1> QED
  BY <1>1, Invariance, PTL DEF Spec, TerminalIsFinal

-----------------------------------------------------------------------------
(* Refinement                                                              *)

\* The outbox is at-least-once delivery: whatever a tick commits, loses or
\* repeats is a step of Delivery, for all rows of the batch at once.
THEOREM Refinement == Spec => DeliverySpec
<1>1. Init => Promise!Init
  BY DEF Init, Promise!Init
<1>2. IInv /\ IInv' /\ [Next]_vars => [Promise!Next]_(Promise!vars)
  <2> SUFFICES ASSUME IInv, IInv', [Next]_vars PROVE [Promise!Next]_(Promise!vars)
    OBVIOUS
  <2> DEFINE Still(r) == /\ row'[r].status = row[r].status
                         /\ row'[r].attempts = row[r].attempts
             Appended(r) == /\ row[r].status = "NONE" /\ row'[r].status = "PENDING"
                            /\ row'[r].attempts = row[r].attempts
                            /\ effects'[r] = effects[r]
             Delivered(r) == /\ row[r].status # "NONE" /\ HasHandler(r)
                             /\ effects[r] <= row[r].attempts + faults
                             /\ effects'[r] = effects[r] + 1 /\ Still(r)
             Finished(r) == /\ row[r].status = "PENDING" /\ row'[r].status = "PROCESSED"
                            /\ HasHandler(r) => effects[r] > 0
                            /\ row'[r].attempts = row[r].attempts
                            /\ effects'[r] = effects[r]
             Failed(r) == /\ row[r].status = "PENDING"
                          /\ row'[r].attempts = row[r].attempts + 1
                          /\ row'[r].attempts <= MaxAttempts
                          /\ row'[r].status = IF row'[r].attempts < MaxAttempts
                                              THEN "PENDING" ELSE "DEAD_LETTER"
                          /\ effects'[r] = effects[r]
             Fate(r) == \/ Appended(r) \/ Delivered(r) \/ Finished(r) \/ Failed(r)
                        \/ Still(r) /\ effects'[r] = effects[r]
  <2>t. /\ Typed /\ Shape /\ row \in [Events -> Entry] /\ row' \in [Events -> Entry]
        /\ effects \in [Events -> Nat] /\ faults \in Nat
    BY Limits DEF IInv, Typed, TypeOK
  <2>n. \A r \in Events : /\ row[r].attempts \in Nat /\ row'[r].attempts \in Nat
                          /\ effects[r] \in Nat
    BY <2>t DEF Entry
  <2>1. ASSUME faults' \in {faults, faults + 1}, \A r \in Events : Fate(r)
        PROVE  Promise!Next
    BY <2>1 DEF Promise!Next, Promise!Append, Promise!Deliver, Promise!Process,
       Promise!Fail, Promise!Unmoved
  <2>2. ASSUME NEW q \in Events, AppendRow(q) \/ BackoffOver(q) PROVE Promise!Next
    <3>1. UNCHANGED <<effects, faults>>
      BY <2>2 DEF AppendRow, BackoffOver
    <3>2. \A r \in Events : Appended(r) \/ (Still(r) /\ effects'[r] = effects[r])
      BY <2>2, <2>t, <3>1 DEF AppendRow, BackoffOver, Entry
    <3> QED
      BY <2>1, <3>1, <3>2
  <2>3. ASSUME NEW w \in Workers, Act(w) PROVE Promise!Next
    <3>1. CASE UNCHANGED <<row, effects>>
      <4>1. faults' \in {faults, faults + 1}
        BY <2>3 DEF Act, Tick, Poll, Handle, SendOtp, FlagSent, HandlerFails, Commit,
           StageProcessed, StageFailed, Rejected, LoseClaim, Crash, Restart
      <4> QED
        BY <2>1, <3>1, <4>1
    <3>2. CASE ~UNCHANGED effects
      <4>1. PICK c \in Events : /\ c = Current(w) /\ c \in worker[w].batch
                                /\ effects' = [effects EXCEPT ![c] = @ + 1]
                                /\ UNCHANGED <<row, faults>>
                                /\ At(w, "handle") \/ At(w, "send")
        BY <2>3, <3>2, EffectMoves
      <4>2. HasHandler(c)
        BY <2>3, <3>2, <4>1, EffectMoves DEF IInv, Senders, At
      <4>3. row[c].status # "NONE"
        BY <4>1 DEF IInv, Rows
      <4>4. effects[c] <= row[c].attempts + faults
        <5>1. w \in Open(c)
          BY <4>1 DEF Open, Ahead, At
        <5>2. /\ IsFiniteSet(Open(c))
              /\ effects[c] + Cardinality(Open(c)) <= row[c].attempts + faults + One(Held(c))
          BY DEF IInv, Account
        <5>3. Cardinality(Open(c)) \in Nat /\ Cardinality(Open(c)) # 0
          BY <5>1, <5>2, FS_CardinalityType, FS_EmptySet
        <5>4. One(Held(c)) \in {0, 1}
          BY DEF One
        <5>5. effects[c] \in Nat /\ row[c].attempts \in Nat /\ faults \in Nat
          BY <2>n, <2>t
        <5>6. \A e, k, n, f \in Nat : \A h \in {0, 1} :
                e + k <= n + f + h /\ k # 0 => e <= n + f
          OBVIOUS
        <5> QED
          BY <5>2, <5>3, <5>4, <5>5, <5>6
      <4>5. \A r \in Events : IF r = c THEN Delivered(r) ELSE Still(r) /\ effects'[r] = effects[r]
        BY <2>t, <4>1, <4>2, <4>3, <4>4
      <4> QED
        BY <2>1, <4>1, <4>5
    <3>3. CASE UNCHANGED effects /\ ~UNCHANGED row
      <4>1. At(w, "commit") /\ worker[w].claim /\ row' = Staged(w) /\ Commit(w)
        BY <2>3, <3>3, RowMoves
      <4>2. UNCHANGED faults
        BY <4>1 DEF Commit
      <4>3. ASSUME NEW r \in Events, r \in worker[w].processed PROVE Finished(r)
        <5>1. HasHandler(r) => effects[r] >= 1
          BY <4>3 DEF IInv, Deeds, Done, HasHandler
        <5> QED
          BY <2>n, <3>3, <4>1, <4>3, <5>1, StagedRows
      <4>4. ASSUME NEW r \in Events, r \in worker[w].failed PROVE Failed(r)
        <5>1. row[r].status = "PENDING" /\ row'[r] = AfterFailure(row[r])
          BY <4>1, <4>4, StagedRows
        <5>2. /\ row'[r].attempts = row[r].attempts + 1
              /\ row'[r].status \in {"PENDING", "DEAD_LETTER"}
              /\ row'[r].status = "DEAD_LETTER" <=> row[r].attempts + 1 = MaxAttempts
          BY <5>1, FailureType DEF IInv
        <5>3. row'[r].attempts <= MaxAttempts
          BY <2>t, Limits DEF Entry
        <5> QED
          BY <2>n, <3>3, <5>1, <5>2, <5>3, Limits
      <4>5. ASSUME NEW r \in Events, r \notin worker[w].processed, r \notin worker[w].failed
            PROVE  Still(r)
        BY <4>1, <4>5, StagedRows
      <4> QED
        BY <2>1, <3>3, <4>2, <4>3, <4>4, <4>5
    <3> QED
      BY <3>1, <3>2, <3>3
  <2>4. CASE UNCHANGED vars
    BY <2>4 DEF vars, Promise!vars
  <2> QED
    BY <2>2, <2>3, <2>4 DEF Next, Act
<1> QED
  BY <1>1, <1>2, Invariance, PTL DEF Spec, DeliverySpec, Promise!Spec
=============================================================================
