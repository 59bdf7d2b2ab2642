------------------------------- MODULE Outbox -------------------------------
(***************************************************************************)
(* The outbox table and the workers that poll it (OutboxPoller.tick), with *)
(* the handlers that act on the world outside the claim: otp.send, which   *)
(* keeps a flag on its otp_codes row, and the handlers that only log       *)
(* (purchase.completed, flash_sale.created).                               *)
(*                                                                         *)
(* A tick is one transaction.  It locks a batch, calls the handler of each *)
(* row in turn and stages the new status; nothing of that is visible       *)
(* before the commit, but what a handler did, it did.  When the            *)
(* transaction is lost (Prisma ends it after five seconds, the connection  *)
(* drops) the rows are free again while the tick still runs; its next      *)
(* statement fails, the promise of tick() is rejected with nobody to catch *)
(* it, and the process exits.                                              *)
(***************************************************************************)
EXTENDS Integers, FiniteSets, FiniteSetsExt

CONSTANTS
  Events,       \* ids of outbox rows; any of them may commit first
  Workers,
  Kind,         \* [Events -> {"otp.send", "log", "unknown"}]
  BatchSize,    \* OUTBOX_BATCH_SIZE
  MaxAttempts,  \* OUTBOX_MAX_ATTEMPTS
  MaxFaults     \* bound: lost transactions and crashes in a behaviour

ASSUME OutboxAssumption ==
  /\ Events \subseteq Nat /\ IsFiniteSet(Events)
  /\ Kind \in [Events -> {"otp.send", "log", "unknown"}]
  /\ BatchSize \in Nat \ {0} /\ MaxAttempts \in Nat \ {0} /\ MaxFaults \in Nat

VARIABLES
  row,      \* the committed rows
  sent,     \* otp_codes.sent of the code an otp.send row speaks of
  worker,   \* what each worker does
  faults,   \* faults so far
  effects   \* history: how often the world saw the side effect of a row

vars == <<row, sent, worker, faults, effects>>

Entry == [status : {"NONE", "PENDING", "PROCESSED", "DEAD_LETTER"},
          attempts : 0 .. MaxAttempts, delayed : BOOLEAN]
Stages == {"idle", "handle", "send", "flag", "mark", "failed", "commit", "down"}
Rest == [at |-> "idle", batch |-> {}, processed |-> {}, failed |-> {},
         claim |-> FALSE]

Init ==
  /\ row = [r \in Events |-> [status |-> "NONE", attempts |-> 0, delayed |-> FALSE]]
  /\ sent = {}
  /\ worker = [w \in Workers |-> Rest]
  /\ faults = 0
  /\ effects = [r \in Events |-> 0]

-----------------------------------------------------------------------------
At(w, stage) == worker[w].at = stage
Current(w) == Min(worker[w].batch)               \* the rows come ORDER BY id
GoTo(w, stage) == worker' = [worker EXCEPT ![w].at = stage]

Terminal(r) == row[r].status \in {"PROCESSED", "DEAD_LETTER"}
Locked(w) == IF worker[w].claim
             THEN worker[w].batch \cup worker[w].processed \cup worker[w].failed
             ELSE {}

Due(r) == row[r].status = "PENDING" /\ ~row[r].delayed
DueUnlocked == {r \in Events : Due(r)}           \* mutant: no FOR UPDATE
Claimable == {r \in Events : Due(r) /\ \A w \in Workers : r \notin Locked(w)}

\* The next row of the batch is taken up, or all are done and the tick commits.
NextRow(w) ==
  LET rows == worker[w].batch \ {Current(w)} IN
  [worker[w] EXCEPT !.batch = rows, !.at = IF rows = {} THEN "commit" ELSE "handle"]

-----------------------------------------------------------------------------
\* The transaction of register, purchaseTx or create commits its row.
AppendRow(r) ==
  /\ row[r].status = "NONE"
  /\ row' = [row EXCEPT ![r].status = "PENDING"]
  /\ UNCHANGED <<sent, worker, faults, effects>>

\* ORDER BY id LIMIT ... FOR UPDATE SKIP LOCKED; an empty batch changes nothing.
LowestDue ==
  {rows \in SUBSET Claimable :
     /\ Cardinality(rows) = Min({BatchSize, Cardinality(Claimable)})
     /\ \A r \in rows, q \in Claimable \ rows : r < q}

Poll(w) ==
  /\ At(w, "idle")
  /\ \E rows \in LowestDue \ {{}} :
       worker' = [worker EXCEPT ![w] =
         [Rest EXCEPT !.at = "handle", !.batch = rows, !.claim = TRUE]]
  /\ UNCHANGED <<row, sent, faults, effects>>

\* registry.get(type)
HasHandler(r) == Kind[r] # "unknown"

\* A type without a handler is done at once.
SkipUnknown(w) ==
  /\ ~HasHandler(Current(w))
  /\ GoTo(w, "mark") /\ UNCHANGED effects

\* The log line of a purchase or a sale is its side effect.
LogEvent(w) ==
  /\ Kind[Current(w)] = "log"
  /\ GoTo(w, "mark") /\ effects' = [effects EXCEPT ![Current(w)] = @ + 1]

FindOtp(w) ==
  /\ Kind[Current(w)] = "otp.send"
  /\ GoTo(w, IF Current(w) \in sent THEN "mark" ELSE "send") /\ UNCHANGED effects

\* The handler of the current row is called.
Handle(w) ==
  /\ At(w, "handle")
  /\ SkipUnknown(w) \/ LogEvent(w) \/ FindOtp(w)
  /\ UNCHANGED <<row, sent, faults>>

\* The code goes out, and only then is the flag set: two steps, neither of
\* them part of the claim's transaction.
SendOtp(w) ==
  /\ At(w, "send")
  /\ effects' = [effects EXCEPT ![Current(w)] = @ + 1]
  /\ GoTo(w, "flag")
  /\ UNCHANGED <<row, sent, faults>>

\* The answer to the UPDATE may be lost after it took effect.
FlagSent(w) ==
  /\ At(w, "flag")
  /\ sent' = sent \cup {Current(w)}
  /\ GoTo(w, "mark") \/ GoTo(w, "failed")
  /\ UNCHANGED <<row, faults, effects>>

FailSilently(w) ==                               \* mutant: a swallowed error
  /\ worker[w].at \in {"handle", "send", "flag"} /\ Kind[Current(w)] = "otp.send"
  /\ GoTo(w, "mark")
  /\ UNCHANGED <<row, sent, faults, effects>>

\* A query of the otp handler, or the decryption, throws.
HandlerFails(w) ==
  /\ worker[w].at \in {"handle", "send", "flag"} /\ Kind[Current(w)] = "otp.send"
  /\ GoTo(w, "failed")
  /\ UNCHANGED <<row, sent, faults, effects>>

\* UPDATE outbox inside the claim: PROCESSED, or one failed attempt more.
StageProcessed(w) ==
  /\ At(w, "mark") /\ worker[w].claim
  /\ worker' = [worker EXCEPT ![w] =
       [NextRow(w) EXCEPT !.processed = @ \cup {Current(w)}]]
  /\ UNCHANGED <<row, sent, faults, effects>>

StageFailed(w) ==
  /\ At(w, "failed") /\ worker[w].claim
  /\ worker' = [worker EXCEPT ![w] = [NextRow(w) EXCEPT !.failed = @ \cup {Current(w)}]]
  /\ UNCHANGED <<row, sent, faults, effects>>

\* What a failed attempt makes of a row: backoff, or dead letter.
AttemptsKept(n) == n                             \* mutant: attempts not counted
NextAttempts(n) == n + 1
OverLimit(n) == n > MaxAttempts                  \* mutant: one attempt too many
SoonDead(n) == n + 1 >= MaxAttempts              \* mutant: one attempt too few
IsDead(n) == n >= MaxAttempts
AfterFailure(e) ==
  LET n == NextAttempts(e.attempts) IN
  IF IsDead(n)
  THEN [status |-> "DEAD_LETTER", attempts |-> n, delayed |-> FALSE]
  ELSE [status |-> "PENDING", attempts |-> n, delayed |-> TRUE]

StagedCounted(w) ==                              \* mutant: successes counted too
  [r \in Events |->
     IF r \in worker[w].processed
     THEN [row[r] EXCEPT !.status = "PROCESSED", !.attempts = @ + 1]
     ELSE IF r \in worker[w].failed THEN AfterFailure(row[r]) ELSE row[r]]

Staged(w) ==
  [r \in Events |->
     IF r \in worker[w].processed THEN [row[r] EXCEPT !.status = "PROCESSED"]
     ELSE IF r \in worker[w].failed THEN AfterFailure(row[r]) ELSE row[r]]

CommitStale(w) ==                                \* mutant: writes after the claim
  /\ At(w, "commit")
  /\ row' = Staged(w)
  /\ worker' = [worker EXCEPT ![w] = Rest]
  /\ UNCHANGED <<sent, faults, effects>>

Commit(w) ==
  /\ At(w, "commit") /\ worker[w].claim
  /\ row' = Staged(w)
  /\ worker' = [worker EXCEPT ![w] = Rest]
  /\ UNCHANGED <<sent, faults, effects>>

\* A statement of a transaction that is gone: tick() is rejected unhandled.
Rejected(w) ==
  /\ worker[w].at \in {"mark", "failed", "commit"} /\ ~worker[w].claim
  /\ worker' = [worker EXCEPT ![w] = [Rest EXCEPT !.at = "down"]]
  /\ UNCHANGED <<row, sent, faults, effects>>

\* The clock passes visible_at.
BackoffOver(r) ==
  /\ row[r].delayed
  /\ row' = [row EXCEPT ![r].delayed = FALSE]
  /\ UNCHANGED <<sent, worker, faults, effects>>

\* The claim's transaction is rolled back under a running tick.
LoseClaim(w) ==
  /\ worker[w].claim /\ faults < MaxFaults
  /\ worker' = [worker EXCEPT ![w].claim = FALSE]
  /\ faults' = faults + 1
  /\ UNCHANGED <<row, sent, effects>>

\* The process is killed, or shut down: stop() does not wait for its tick.
Crash(w) ==
  /\ worker[w].at \notin {"idle", "down"} /\ faults < MaxFaults
  /\ worker' = [worker EXCEPT ![w] = [Rest EXCEPT !.at = "down"]]
  /\ faults' = faults + 1
  /\ UNCHANGED <<row, sent, effects>>

Restart(w) ==
  /\ At(w, "down")
  /\ worker' = [worker EXCEPT ![w] = Rest]
  /\ UNCHANGED <<row, sent, faults, effects>>

-----------------------------------------------------------------------------
Tick(w) ==
  \/ Poll(w) \/ Handle(w) \/ SendOtp(w) \/ FlagSent(w) \/ HandlerFails(w)
  \/ StageProcessed(w) \/ StageFailed(w) \/ Commit(w) \/ Rejected(w)

Next ==
  \/ \E r \in Events : AppendRow(r) \/ BackoffOver(r)
  \/ \E w \in Workers : Tick(w) \/ LoseClaim(w) \/ Crash(w) \/ Restart(w)

Spec == Init /\ [][Next]_vars

\* setTimeout fires, time passes, and a dead worker is started again.
FairSpec ==
  /\ Spec
  /\ \A w \in Workers : WF_vars(Tick(w)) /\ WF_vars(Restart(w))
  /\ \A r \in Events : WF_vars(BackoffOver(r))

-----------------------------------------------------------------------------
(* What must hold                                                          *)

\* Types; in particular a row never has more attempts than OUTBOX_MAX_ATTEMPTS.
TypeOK ==
  /\ row \in [Events -> Entry] /\ sent \subseteq Events
  /\ effects \in [Events -> Nat] /\ faults \in 0 .. MaxFaults
  /\ \A w \in Workers :
       /\ worker[w].at \in Stages /\ worker[w].claim \in BOOLEAN
       /\ worker[w].batch \subseteq Events /\ Cardinality(worker[w].batch) <= BatchSize
       /\ worker[w].processed \subseteq Events /\ worker[w].failed \subseteq Events

\* Delivery is at least once, and every repetition is accounted for: a side
\* effect is seen again only after a counted failed attempt of its row, or
\* after a transaction or a process was lost.
RepeatsAreEarned == \A r \in Events : effects[r] <= 1 + row[r].attempts + faults

\* A row that is PROCESSED had its side effect, and an OTP its flag, however
\* often the row was claimed, dropped and claimed again.
ProcessedMeansDone ==
  \A r \in Events :
    /\ row[r].status = "PROCESSED" /\ Kind[r] # "unknown" => effects[r] >= 1
    /\ row[r].status = "PROCESSED" /\ Kind[r] = "otp.send" => r \in sent
    /\ r \in sent => effects[r] >= 1

\* A row is dead-lettered exactly when its last allowed attempt has failed.
DeadLetterIsEarned ==
  \A r \in Events : row[r].status = "DEAD_LETTER" <=> row[r].attempts = MaxAttempts

\* No tick, however late, touches a row that was finished by another.
TerminalIsFinal ==
  [][\A r \in Events : Terminal(r) => row'[r] = row[r]]_vars

\* A committed event is processed or dead-lettered in the end.
EveryEventEnds ==
  \A r \in Events : row[r].status = "PENDING" ~> Terminal(r)

\* All of this at once, and in every step: the outbox implements at-least-once
\* delivery, whatever a tick commits, loses or repeats.
Promise == INSTANCE Delivery WITH
  Handled <- {r \in Events : HasHandler(r)},
  status <- [r \in Events |-> row[r].status],
  attempts <- [r \in Events |-> row[r].attempts],
  losses <- faults
DeliverySpec == Promise!Spec

-----------------------------------------------------------------------------
(* What the repository says and the code does not do (see the README)      *)

\* docs/DESIGN.md 7.1: "each outbox event produces at most one observable side
\* effect".
AtMostOneEffect == \A r \in Events : effects[r] <= 1

=============================================================================
