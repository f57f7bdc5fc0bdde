------------------------- MODULE ModelManagerProofs --------------------------
(***************************************************************************)
(* Proofs about the model manager.  LLMFailover: for any number of         *)
(* providers, requests, retries, thresholds and administrative operations. *)
(* ProviderConfig: for any names, settings, edits, detections and failures *)
(* of loads and writes.                                                    *)
(***************************************************************************)
EXTENDS LLMFailover, ProviderConfig, SequenceTheorems, FiniteSetTheorems, NaturalsInduction, TLAPS

-----------------------------------------------------------------------------
(* The methods of a breaker                                                *)

\* A breaker that is closed has fewer failures in a row than the threshold.
BelowThreshold(b) == b.state = "closed" => b.consecutive < FailureThreshold

\* The window of outcomes stays a sequence of Booleans.
LEMMA RecordType ==
  ASSUME NEW s \in Seq(BOOLEAN), NEW ok \in BOOLEAN
  PROVE  Record(s, ok) \in Seq(BOOLEAN)
<1>1. Append(s, ok) \in Seq(BOOLEAN)
  OBVIOUS
<1>2. CASE Len(s) < Window
  BY <1>1, <1>2 DEF Record
<1>3. CASE ~(Len(s) < Window)
  <2>1. Window >= 1
    BY BreakerAssumption DEF Window
  <2>2. Len(s) >= 1
    BY <1>3, <2>1, BreakerAssumption DEF Window
  <2>3. Tail(s) \in Seq(BOOLEAN)
    BY <2>2
  <2>4. Append(Tail(s), ok) \in Seq(BOOLEAN)
    BY <2>3
  <2> QED BY <1>3, <2>4 DEF Record
<1> QED BY <1>2, <1>3

\* _refresh_state keeps the counters and never closes a breaker.
LEMMA RefreshKeeps ==
  ASSUME NEW b \in Breaker
  PROVE  /\ Refresh(b) \in Breaker
         /\ Refresh(b).recovered = b.recovered
         /\ Refresh(b).consecutive = b.consecutive
         /\ Refresh(b).outcomes = b.outcomes
         /\ Refresh(b).state = "closed" <=> b.state = "closed"
BY DEF Refresh, Breaker, CircuitState

\* _release_in_flight touches the in-flight count only.
LEMMA ReleaseKeeps ==
  ASSUME NEW b \in Breaker
  PROVE  /\ Release(b) \in Breaker
         /\ Release(b).recovered = b.recovered
         /\ Release(b).consecutive = b.consecutive
         /\ Release(b).outcomes = b.outcomes
         /\ Release(b).state = b.state
BY DEF Release, Breaker, CircuitState

\* acquire() keeps the counters and never closes a breaker.
LEMMA AcquireKeeps ==
  ASSUME NEW b \in Breaker
  PROVE  /\ Acquire(b) \in Breaker
         /\ Acquire(b).recovered = b.recovered
         /\ Acquire(b).consecutive = b.consecutive
         /\ Acquire(b).state = "closed" <=> b.state = "closed"
<1> DEFINE c == Refresh(b)
<1>1. /\ c \in Breaker
      /\ c.recovered = b.recovered
      /\ c.consecutive = b.consecutive
      /\ c.state = "closed" <=> b.state = "closed"
  BY RefreshKeeps
<1> HIDE DEF c
<1> DEFINE n == c.inflight + 1
           granted(h) == [c EXCEPT !.probe = h, !.inflight = n]
<1>n. n \in Nat
  BY <1>1 DEF Breaker
<1> HIDE DEF n
<1>2. ASSUME NEW h \in BOOLEAN
      PROVE  /\ granted(h) \in Breaker
             /\ granted(h).recovered = c.recovered
             /\ granted(h).consecutive = c.consecutive
             /\ granted(h).state = c.state
  BY <1>1, <1>n DEF Breaker, CircuitState
<1> HIDE DEF granted
<1>3. Acquire(b) = c \/ Acquire(b) = granted(c.state = "half_open")
  BY DEF Acquire, c, granted, n
<1>4. (c.state = "half_open") \in BOOLEAN
  OBVIOUS
<1> QED BY <1>1, <1>2, <1>3, <1>4

\* record_cancelled() keeps the counters and the state.
LEMMA CancelledKeeps ==
  ASSUME NEW b \in Breaker
  PROVE  /\ RecordCancelled(b) \in Breaker
         /\ RecordCancelled(b).recovered = b.recovered
         /\ RecordCancelled(b).consecutive = b.consecutive
         /\ RecordCancelled(b).state = b.state
BY ReleaseKeeps DEF RecordCancelled, Breaker, CircuitState

\* record_success() closes an isolated breaker only with the success that
\* completes the recovery.
LEMMA SuccessKeeps ==
  ASSUME NEW b \in Breaker
  PROVE  /\ RecordSuccess(b) \in Breaker
         /\ RecordSuccess(b).recovered <= b.recovered + 1
         /\ BelowThreshold(b) => BelowThreshold(RecordSuccess(b))
         /\ b.state # "closed" /\ RecordSuccess(b).state = "closed"
              => b.recovered + 1 >= RecoverySuccesses
<1> DEFINE c == Refresh(Release(b))
           w == Record(c.outcomes, TRUE)
           one == <<TRUE>>
           n == c.recovered + 1
           close == [c EXCEPT !.state = "closed", !.ripe = FALSE, !.probe = FALSE,
                       !.consecutive = 0, !.recovered = 0, !.outcomes = one]
           stay == [c EXCEPT !.ripe = FALSE, !.probe = FALSE, !.consecutive = 0,
                      !.outcomes = w]
           progress == [c EXCEPT !.recovered = n, !.probe = FALSE]
<1>1. RecordSuccess(b) =
        CASE c.state = "open" -> c
          [] c.state = "half_open" /\ n < RecoverySuccesses -> progress
          [] c.state = "half_open" /\ n >= RecoverySuccesses -> close
          [] c.state = "closed" -> stay
  BY DEF RecordSuccess
<1>2. /\ c \in Breaker
      /\ c.recovered = b.recovered
      /\ c.consecutive = b.consecutive
      /\ c.state = "closed" <=> b.state = "closed"
  BY RefreshKeeps, ReleaseKeeps
<1> HIDE DEF c
<1>3. c.outcomes \in Seq(BOOLEAN) /\ b.recovered \in Nat
      /\ c.state \in {"open", "half_open", "closed"}
  BY <1>2 DEF Breaker, CircuitState
<1>4. w \in Seq(BOOLEAN)
  BY <1>3, RecordType
<1>5. one \in Seq(BOOLEAN) /\ n \in Nat /\ n = b.recovered + 1
  BY <1>2, <1>3
<1> HIDE DEF w, one, n
<1>6. /\ stay \in Breaker
      /\ stay.state = c.state /\ stay.consecutive = 0 /\ stay.recovered = c.recovered
  BY <1>2, <1>4 DEF Breaker, CircuitState
<1>7. /\ progress \in Breaker
      /\ progress.state = c.state /\ progress.recovered = n
  BY <1>2, <1>5 DEF Breaker, CircuitState
<1>8. /\ close \in Breaker
      /\ close.state = "closed" /\ close.consecutive = 0 /\ close.recovered = 0
  BY <1>2, <1>5 DEF Breaker, CircuitState
<1> HIDE DEF close, stay, progress
<1>9. CASE c.state = "open"
  <2>1. RecordSuccess(b) = c
    BY <1>1, <1>9
  <2> QED BY <1>2, <1>3, <1>9, <2>1 DEF BelowThreshold
<1>10. CASE c.state = "half_open" /\ n < RecoverySuccesses
  <2>1. ~(n >= RecoverySuccesses)
    BY <1>5, <1>10, BreakerAssumption
  <2>2. RecordSuccess(b) = progress
    BY <1>1, <1>10, <2>1
  <2> QED BY <1>2, <1>3, <1>5, <1>7, <1>10, <2>2 DEF BelowThreshold
<1>11. CASE c.state = "half_open" /\ ~(n < RecoverySuccesses)
  <2>1. n >= RecoverySuccesses
    BY <1>5, <1>11, BreakerAssumption
  <2>2. RecordSuccess(b) = close
    BY <1>1, <1>11, <2>1
  <2> QED BY <1>2, <1>3, <1>5, <1>8, <2>1, <2>2, BreakerAssumption DEF BelowThreshold
<1>12. CASE c.state = "closed"
  <2>1. RecordSuccess(b) = stay
    BY <1>1, <1>12
  <2> QED BY <1>2, <1>3, <1>6, <1>12, <2>1, BreakerAssumption DEF BelowThreshold
<1> QED BY <1>3, <1>9, <1>10, <1>11, <1>12

\* record_failure() starts the recovery over and leaves a breaker closed only
\* below the threshold.
LEMMA FailureKeeps ==
  ASSUME NEW b \in Breaker
  PROVE  /\ RecordFailure(b) \in Breaker
         /\ RecordFailure(b).recovered = 0
         /\ BelowThreshold(RecordFailure(b))
         /\ b.state # "closed" => RecordFailure(b).state # "closed"
<1> DEFINE r == Release(b)
           w == Record(b.outcomes, FALSE)
           n == b.consecutive + 1
           c == [r EXCEPT !.outcomes = w, !.consecutive = n,
                          !.probe = FALSE, !.recovered = 0]
           opened == [c EXCEPT !.state = "open", !.ripe = FALSE]
<1>1. RecordFailure(b) = IF b.state = "half_open" \/ ShouldOpen(c) THEN opened ELSE c
  BY DEF RecordFailure
<1>2. r \in Breaker /\ r.state = b.state
  BY ReleaseKeeps
<1> HIDE DEF r
<1>3. b.outcomes \in Seq(BOOLEAN) /\ n \in Nat
  BY DEF Breaker
<1>4. w \in Seq(BOOLEAN)
  BY <1>3, RecordType
<1> HIDE DEF w, n
<1>6. c \in Breaker /\ c.recovered = 0 /\ c.state = b.state
  BY <1>2, <1>3, <1>4 DEF Breaker, CircuitState
<1>7. ~ShouldOpen(c) => ~(c.consecutive >= FailureThreshold)
  BY DEF ShouldOpen
<1> HIDE DEF c
<1>8. opened \in Breaker /\ opened.recovered = 0 /\ opened.state = "open"
  BY <1>6 DEF Breaker, CircuitState
<1>9. c.consecutive \in Nat
  BY <1>6 DEF Breaker
<1> HIDE DEF opened
<1> QED BY <1>1, <1>6, <1>7, <1>8, <1>9, BreakerAssumption DEF BelowThreshold

\* A breaker just made is well typed and has no progress.
LEMMA NewType == NewBreaker \in Breaker /\ NewBreaker.recovered = 0
                 /\ NewBreaker.state = "closed" /\ BelowThreshold(NewBreaker)
BY BreakerAssumption DEF NewBreaker, Breaker, CircuitState, BelowThreshold

\* A restored breaker is a new one or isolated, with the recorded progress.
LEMMA RestoreKeeps ==
  ASSUME NEW d \in DurableState, NEW ripe \in BOOLEAN
  PROVE  /\ Restore(d, ripe) \in Breaker
         /\ BelowThreshold(Restore(d, ripe))
         /\ Restore(d, ripe).recovered <= d.recovered
<1> DEFINE o == [NewBreaker EXCEPT !.state = "open", !.ripe = d.half \/ ripe,
                                   !.consecutive = d.consecutive,
                                   !.recovered = d.recovered]
<1>1. d.recovered \in Nat /\ d.consecutive \in Nat /\ (d.half \/ ripe) \in BOOLEAN
  BY DEF DurableState
<1>2. o \in Breaker /\ o.recovered = d.recovered /\ o.state = "open"
  BY <1>1, NewType DEF Breaker, CircuitState
<1>3. Restore(d, ripe) = IF ~d.stored THEN NewBreaker ELSE Refresh(o)
  BY DEF Restore
<1> HIDE DEF o
<1>4. /\ Refresh(o) \in Breaker /\ Refresh(o).recovered = d.recovered
      /\ Refresh(o).state # "closed"
  BY <1>2, RefreshKeeps
<1> QED BY <1>1, <1>3, <1>4, NewType DEF BelowThreshold

\* So is the absence of a record.
LEMMA NotStoredType == NotStored \in DurableState /\ NotStored.recovered = 0
BY DEF NotStored, DurableState

\* durable_state() gives a record with the progress of the breaker.
LEMMA DurableType ==
  ASSUME NEW b \in Breaker
  PROVE  Durable(b) \in DurableState
<1> DEFINE c == Refresh(b)
<1>1. c.consecutive \in Nat /\ c.recovered \in Nat /\ (c.state = "half_open") \in BOOLEAN
  BY RefreshKeeps DEF Breaker
<1> HIDE DEF c
<1>2. Durable(b) = IF c.state = "closed" THEN NotStored
                   ELSE [stored |-> TRUE, half |-> c.state = "half_open",
                         consecutive |-> c.consecutive, recovered |-> c.recovered]
  BY DEF Durable, c
<1> QED BY <1>1, <1>2, NotStoredType DEF DurableState

-----------------------------------------------------------------------------
(* The state of a request                                                  *)

\* The inductive invariant of a request x.  An active request is at one of
\* its candidates; one that waits for a retry has a retry left; one that has
\* given output is in the attempt that gave it, or over.
RequestOK(x) ==
  /\ x.pc = "new" => x.pos = 1 /\ x.given = 0
  /\ x.pc \notin {"new", "done"} => x.pos <= Len(x.queue)
  /\ x.pc = "backoff" => x.retry < MaxRetries
  /\ x.given <= 1
  /\ x.given = 1 => \/ x.pc = "done"
                    \/ x.pc \in {"call", "snapshot", "save"} /\ x.emitted

Good(x) == x \in RequestState /\ RequestOK(x)

\* The empty file is a file.
LEMMA FileType == NoFile \in File
BY NotStoredType DEF NoFile, File

\* A request that has not begun.
LEMMA FreshGood == Good(Fresh)
<1>1. MaxRetries \in Nat
  BY FailoverAssumption
<1>2. <<>> \in Seq(Provider)
  OBVIOUS
<1> QED BY <1>1, <1>2, FileType DEF Good, RequestState, RequestOK, Fresh

\* A request that is over keeps nothing but the count of its outputs.
LEMMA EndedGood ==
  ASSUME NEW x, Good(x)
  PROVE  Good(Ended(x))
<1>1. x.given \in Nat /\ x.given <= 1
  BY DEF Good, RequestState, RequestOK
<1>2. /\ Ended(x) \in RequestState
      /\ Ended(x).pc = "done" /\ Ended(x).given = x.given
  BY <1>1, FreshGood DEF Good, RequestState, Ended
<1> QED BY <1>1, <1>2 DEF Good, RequestOK

\* Going on to the next candidate.
LEMMA NextProviderGood ==
  ASSUME NEW x, Good(x), x.given = 0
  PROVE  Good(NextProvider(x))
<1> DEFINE n == x.pos + 1
           y == [x EXCEPT !.pc = "select", !.pos = n, !.probing = FALSE,
                          !.orphan = FALSE, !.fatal = FALSE, !.image = NoFile]
<1>1. x \in RequestState /\ x.pos \in Nat /\ Len(x.queue) \in Nat
  BY DEF Good, RequestState
<1>2. n \in Nat \ {0} /\ (x.pos < Len(x.queue) => n <= Len(x.queue))
  BY <1>1
<1>3. NextProvider(x) = IF x.pos < Len(x.queue) THEN y ELSE Ended(x)
  BY <1>1 DEF NextProvider, RequestState
<1> HIDE DEF n
<1>4. /\ y \in RequestState
      /\ y.pc = "select" /\ y.pos = n /\ y.queue = x.queue /\ y.given = 0
  BY <1>1, <1>2, FileType DEF RequestState
<1> HIDE DEF y
<1>5. x.pos < Len(x.queue) => Good(y)
  BY <1>2, <1>4 DEF Good, RequestOK
<1> QED BY <1>3, <1>5, EndedGood

\* What a request does once its failure has been saved.
LEMMA AfterFailureGood ==
  ASSUME NEW x, Good(x), x.pc = "save"
  PROVE  Good(AfterFailure(x))
<1> DEFINE y == [x EXCEPT !.pc = "backoff", !.image = NoFile]
<1>1. /\ x \in RequestState /\ x.retry \in Nat /\ MaxRetries \in Nat
      /\ x.emitted \in BOOLEAN /\ x.fatal \in BOOLEAN /\ x.late \in BOOLEAN
      /\ x.given \in Nat
  BY FailoverAssumption DEF Good, RequestState
<1>2. CASE x.emitted \/ x.fatal
  <2>1. AfterFailure(x) = Ended(x)
    BY <1>2 DEF AfterFailure
  <2> QED BY <2>1, EndedGood
<1>3. CASE ~(x.emitted \/ x.fatal)
  <2>1. x.given = 0
    BY <1>1, <1>3 DEF Good, RequestOK
  <2>2. CASE x.retry >= MaxRetries
    <3>1. AfterFailure(x) = NextProvider(x)
      BY <1>1, <1>3, <2>2 DEF AfterFailure
    <3> QED BY <2>1, <3>1, NextProviderGood
  <2>3. CASE ~(x.retry >= MaxRetries) /\ x.late
    <3>1. AfterFailure(x) = Ended(x)
      BY <1>1, <1>3, <2>3 DEF AfterFailure
    <3> QED BY <3>1, EndedGood
  <2>4. CASE ~(x.retry >= MaxRetries) /\ ~x.late
    <3>1. AfterFailure(x) = y
      BY <1>1, <1>3, <2>4 DEF AfterFailure
    <3>2. /\ y \in RequestState /\ y.pc = "backoff" /\ y.retry = x.retry
          /\ y.pos = x.pos /\ y.queue = x.queue /\ y.given = x.given
      BY <1>1, FileType DEF RequestState
    <3>3. x.pos <= Len(x.queue) /\ x.retry < MaxRetries
      BY <1>1, <2>4 DEF Good, RequestOK
    <3> HIDE DEF y
    <3>4. Good(y)
      BY <2>1, <3>2, <3>3 DEF Good, RequestOK
    <3> QED BY <3>1, <3>4
  <2> QED BY <2>2, <2>3, <2>4
<1> QED BY <1>2, <1>3

-----------------------------------------------------------------------------
(* The inductive invariant                                                 *)

\* streak counts at least the successes a breaker counts towards recovery.
BreakersOK ==
  \A p \in Provider : BelowThreshold(breaker[p]) /\ breaker[p].recovered <= streak[p]

Inv == TypeOK /\ (\A r \in Request : RequestOK(req[r])) /\ BreakersOK

\* The invariant holds initially.
LEMMA InitInv == Init => Inv
<1> SUFFICES ASSUME Init PROVE Inv
  OBVIOUS
<1>1. MaxAdmin \in Nat
  BY FailoverAssumption
<1>2. NoReset \in [step: {"idle", "forget", "rebuild"}, on: SUBSET Provider, image: File]
  BY FileType DEF NoReset
<1>3. TypeOK
  BY <1>1, <1>2, NewType, FileType, FreshGood DEF Init, TypeOK, Good
<1>4. \A r \in Request : RequestOK(req[r])
  BY FreshGood DEF Init, Good
<1>5. BreakersOK
  BY NewType DEF Init, BreakersOK
<1> QED BY <1>3, <1>4, <1>5 DEF Inv

\* The provider a running request works on.
LEMMA CurType ==
  ASSUME Inv, NEW r \in Request, Running(r)
  PROVE  Cur(r) \in Provider
<1>1. /\ req[r].queue \in Seq(Provider) /\ req[r].pos \in Nat \ {0}
      /\ req[r].pos <= Len(req[r].queue)
  BY DEF Inv, TypeOK, RequestState, RequestOK, Running
<1> QED BY <1>1 DEF Cur

\* The invariant, for one request.
LEMMA RequestGood ==
  ASSUME Inv, NEW r \in Request
  PROVE  Good(req[r])
BY DEF Inv, TypeOK, Good

\* What one request does to its own state.
LEMMA BecomeGood ==
  ASSUME Inv, NEW r \in Request, NEW x, Good(x), Become(r, x)
  PROVE  \A q \in Request : Good(req'[q])
BY RequestGood DEF Inv, TypeOK, Become

\* A request gets its queue of candidates.
LEMMA BeginGood ==
  ASSUME Inv, NEW r \in Request, Begin(r)
  PROVE  \A q \in Request : Good(req'[q])
<1> DEFINE c == Candidates[r][loaded]
           y == [req[r] EXCEPT !.pc = "select", !.queue = c]
<1>1. c \in Seq(Provider)
  BY FailoverAssumption DEF Inv, TypeOK
<1>2. Good(req[r]) /\ req[r].pc = "new"
  BY RequestGood DEF Begin
<1>3. Become(r, IF c = <<>> THEN Ended(req[r]) ELSE y)
  BY DEF Begin
<1> HIDE DEF c
<1>4. /\ y \in RequestState /\ y.pc = "select" /\ y.queue = c
      /\ y.pos = 1 /\ y.given = 0
  BY <1>1, <1>2 DEF Good, RequestState, RequestOK
<1>5. c # <<>> => 1 <= Len(c)
  BY <1>1
<1> HIDE DEF y
<1>6. c # <<>> => Good(y)
  BY <1>4, <1>5 DEF Good, RequestOK
<1> QED BY <1>2, <1>3, <1>6, EndedGood, BecomeGood

\* The deadline passes or the request is cancelled.
LEMMA EnvironmentGood ==
  ASSUME Inv, NEW r \in Request, DeadlinePasses(r) \/ Cancel(r)
  PROVE  \A q \in Request : Good(req'[q])
<1> DEFINE x == req[r]
           y == [x EXCEPT !.late = TRUE]
           z == [x EXCEPT !.cancelled = TRUE]
<1>1. Good(x)
  BY RequestGood
<1>2. Become(r, y) \/ Become(r, z)
  BY DEF DeadlinePasses, Cancel
<1> HIDE DEF x
<1>3. Good(y) /\ Good(z)
  BY <1>1 DEF Good, RequestState, RequestOK
<1> HIDE DEF y, z
<1> QED BY <1>2, <1>3, BecomeGood

\* The request, at the head of the loop over the candidates.
LEMMA SelectGood ==
  ASSUME Inv, NEW r \in Request, Select(r)
  PROVE  \A q \in Request : Good(req'[q])
<1> DEFINE x == req[r]
           h == Acquire(breaker[Cur(r)]).probe
           z == 0
           y == [x EXCEPT !.pc = "attempt", !.retry = z, !.probing = h]
<1>1. Good(x) /\ x.pc = "select"
  BY RequestGood DEF Select
<1>2. Cur(r) \in Provider
  BY <1>1, CurType DEF Running
<1>3. breaker[Cur(r)] \in Breaker
  BY <1>2 DEF Inv, TypeOK
<1>4. h \in BOOLEAN
  BY <1>3, AcquireKeeps DEF Breaker
<1>5. Become(r, Ended(x)) \/ Become(r, y) \/ Become(r, NextProvider(x))
  BY DEF Select
<1> HIDE DEF x, h
<1>6. x.given = 0
  BY <1>1 DEF Good, RequestState, RequestOK
<1>7. z \in 0..MaxRetries
  BY FailoverAssumption
<1> HIDE DEF z
<1>8. /\ y \in RequestState /\ y.pc = "attempt" /\ y.queue = x.queue
      /\ y.pos = x.pos /\ y.given = 0
  BY <1>1, <1>4, <1>6, <1>7 DEF Good, RequestState
<1> HIDE DEF y
<1>9. Good(y)
  BY <1>1, <1>8 DEF Good, RequestOK
<1> QED BY <1>1, <1>5, <1>6, <1>9, EndedGood, NextProviderGood, BecomeGood

\* The request, at the head of the retry loop.
LEMMA AttemptGood ==
  ASSUME Inv, NEW r \in Request, Attempt(r)
  PROVE  \A q \in Request : Good(req'[q])
<1> DEFINE x == req[r]
           y == [x EXCEPT !.pc = "call", !.emitted = FALSE]
<1>1. Good(x) /\ x.pc = "attempt"
  BY RequestGood DEF Attempt
<1>2. Become(r, Ended(x)) \/ Become(r, y)
  BY DEF Attempt
<1> HIDE DEF x
<1>3. /\ y \in RequestState /\ y.pc = "call" /\ y.queue = x.queue
      /\ y.pos = x.pos /\ y.given = x.given
  BY <1>1 DEF Good, RequestState
<1> HIDE DEF y
<1>4. Good(y)
  BY <1>1, <1>3 DEF Good, RequestOK
<1> QED BY <1>1, <1>2, <1>4, EndedGood, BecomeGood

\* The first chunk of an attempt is counted once.
LEMMA ChunkGood ==
  ASSUME Inv, NEW r \in Request, Chunk(r)
  PROVE  \A q \in Request : Good(req'[q])
<1> DEFINE x == req[r]
           n == IF x.emitted THEN x.given ELSE x.given + 1
           y == [x EXCEPT !.emitted = TRUE, !.given = n]
<1>1. Good(x) /\ x.pc = "call"
  BY RequestGood DEF Chunk
<1>2. x \in RequestState /\ x.given \in Nat /\ x.emitted \in BOOLEAN
  BY <1>1 DEF Good, RequestState
<1>3. Become(r, y)
  BY <1>2 DEF Chunk, RequestState
<1> HIDE DEF x
<1>4. n \in Nat /\ n <= 1
  BY <1>1, <1>2 DEF Good, RequestOK
<1> HIDE DEF n
<1>5. /\ y \in RequestState /\ y.pc = x.pc /\ y.queue = x.queue /\ y.emitted = TRUE
      /\ y.pos = x.pos /\ y.given = n
  BY <1>2, <1>4 DEF RequestState
<1> HIDE DEF y
<1>6. Good(y)
  BY <1>1, <1>4, <1>5 DEF Good, RequestOK
<1> QED BY <1>3, <1>6, BecomeGood

\* A request that ends by success, interruption or a dropped stream.
LEMMA OutcomeGood ==
  ASSUME Inv, NEW r \in Request, CloseStream(r) \/ Succeed(r) \/ Interrupt(r)
  PROVE  \A q \in Request : Good(req'[q])
BY RequestGood, EndedGood, BecomeGood DEF CloseStream, Succeed, Interrupt

\* The request, after an error of the provider.
LEMMA FailGood ==
  ASSUME Inv, NEW r \in Request, NEW fatal \in BOOLEAN, Fail(r, fatal)
  PROVE  \A q \in Request : Good(req'[q])
<1> DEFINE x == req[r]
           y == [x EXCEPT !.pc = "snapshot", !.fatal = fatal, !.probing = FALSE]
<1>1. Good(x) /\ x.pc = "call"
  BY RequestGood DEF Fail
<1>2. Become(r, y)
  BY DEF Fail
<1> HIDE DEF x
<1>3. /\ y \in RequestState /\ y.pc = "snapshot" /\ y.queue = x.queue
      /\ y.emitted = x.emitted /\ y.pos = x.pos /\ y.given = x.given
  BY <1>1 DEF Good, RequestState
<1> HIDE DEF y
<1>4. Good(y)
  BY <1>1, <1>3 DEF Good, RequestOK
<1> QED BY <1>2, <1>4, BecomeGood

\* The copy of the breakers a request takes is a file.
LEMMA SnapshotGood ==
  ASSUME Inv, NEW r \in Request, Snapshot(r)
  PROVE  \A q \in Request : Good(req'[q])
<1> DEFINE x == req[r]
           now == [p \in Provider |-> Refresh(breaker[p])]
           i == [p \in Provider |-> IF p \in missing THEN NotStored ELSE Durable(now[p])]
           y == [x EXCEPT !.pc = "save", !.image = i]
<1>1. Good(x) /\ x.pc = "snapshot"
  BY RequestGood DEF Snapshot
<1>2. Become(r, y)
  BY DEF Snapshot
<1>3. \A p \in Provider : now[p] \in Breaker
  BY RefreshKeeps DEF Inv, TypeOK
<1>4. i \in File
  <2> HIDE DEF now
  <2> QED BY <1>3, NotStoredType, DurableType DEF File
<1> HIDE DEF x, i
<1>5. /\ y \in RequestState /\ y.pc = "save" /\ y.queue = x.queue
      /\ y.emitted = x.emitted /\ y.pos = x.pos /\ y.given = x.given
  BY <1>1, <1>4 DEF Good, RequestState
<1> HIDE DEF y
<1>6. Good(y)
  BY <1>1, <1>5 DEF Good, RequestOK
<1> QED BY <1>2, <1>6, BecomeGood

\* The request, after it has written the file.
LEMMA SaveGood ==
  ASSUME Inv, NEW r \in Request, Save(r)
  PROVE  \A q \in Request : Good(req'[q])
BY RequestGood, AfterFailureGood, BecomeGood DEF Save

\* The request, after the wait before a retry.
LEMMA BackoffGood ==
  ASSUME Inv, NEW r \in Request, Backoff(r)
  PROVE  \A q \in Request : Good(req'[q])
<1> DEFINE x == req[r]
           n == x.retry + 1
           y == [x EXCEPT !.pc = "attempt", !.retry = n]
<1>1. Good(x) /\ x.pc = "backoff"
  BY RequestGood DEF Backoff
<1>2. x \in RequestState /\ x.retry \in Nat /\ MaxRetries \in Nat
  BY <1>1, FailoverAssumption DEF Good, RequestState
<1>3. Become(r, Ended(x)) \/ Become(r, y)
  BY <1>2 DEF Backoff, RequestState
<1>4. n \in 0..MaxRetries
  BY <1>1, <1>2 DEF Good, RequestOK
<1> HIDE DEF x, n
<1>5. /\ y \in RequestState /\ y.pc = "attempt" /\ y.queue = x.queue
      /\ y.pos = x.pos /\ y.given = x.given
  BY <1>2, <1>4 DEF RequestState
<1> HIDE DEF y
<1>6. Good(y)
  BY <1>1, <1>5 DEF Good, RequestOK
<1> QED BY <1>1, <1>3, <1>6, EndedGood, BecomeGood

\* A request whose breaker is replaced.
LEMMA OrphanedGood ==
  ASSUME Inv, NEW p \in Provider, req' = Orphaned(p)
  PROVE  \A q \in Request : Good(req'[q])
<1> SUFFICES ASSUME NEW q \in Request PROVE Good(req'[q])
  OBVIOUS
<1> DEFINE x == req[q]
           y == [x EXCEPT !.orphan = TRUE]
<1>1. req'[q] = x \/ req'[q] = y
  BY DEF Orphaned
<1>2. Good(x)
  BY RequestGood
<1> HIDE DEF x
<1>3. Good(y)
  BY <1>2 DEF Good, RequestState, RequestOK
<1> QED BY <1>1, <1>2, <1>3

\* Every step keeps every request good.
LEMMA RequestsGood ==
  ASSUME Inv, [Next]_vars
  PROVE  \A q \in Request : Good(req'[q])
<1>1. CASE req' = req
  BY <1>1, RequestGood
<1>2. ASSUME NEW r \in Request,
             Begin(r) \/ DeadlinePasses(r) \/ Cancel(r) \/ Step(r)
      PROVE  \A q \in Request : Good(req'[q])
  BY <1>2, BeginGood, EnvironmentGood, SelectGood, AttemptGood, ChunkGood,
     OutcomeGood, FailGood, SnapshotGood, SaveGood, BackoffGood DEF Step
<1>3. ASSUME NEW p \in Provider, Unload(p) \/ ResetRebuild(p)
      PROVE  \A q \in Request : Good(req'[q])
  BY <1>3, OrphanedGood DEF Unload, ResetRebuild
<1>4. CASE Restart
  BY <1>4, RequestGood, EndedGood DEF Restart
<1>5. ASSUME (\E p \in Provider : Ripen(p) \/ Load(p) \/ ResetRead(p))
               \/ Status \/ ResetForget \/ RefreshSettings \/ UNCHANGED vars
      PROVE  req' = req
  BY <1>5 DEF Ripen, Load, ResetRead, Status, ResetForget, RefreshSettings, vars
<1> QED BY <1>1, <1>2, <1>3, <1>4, <1>5 DEF Next, Administer

-----------------------------------------------------------------------------
(* What a step does to the breakers                                        *)

BreakerGood(b, n) ==
  b \in Breaker /\ n \in Nat /\ BelowThreshold(b) /\ b.recovered <= n

AllBreakersGood == \A p \in Provider : BreakerGood(breaker'[p], streak'[p])

\* The invariant, for one breaker.
LEMMA NowGood ==
  ASSUME Inv, NEW p \in Provider
  PROVE  BreakerGood(breaker[p], streak[p])
BY DEF Inv, TypeOK, BreakersOK, BreakerGood

\* A step that puts a good breaker in the place of one.
LEMMA ReplaceGood ==
  ASSUME Inv, NEW p \in Provider, NEW b, NEW n, BreakerGood(b, n),
         \/ breaker' = [breaker EXCEPT ![p] = b] /\ streak' = [streak EXCEPT ![p] = n]
         \/ breaker' = breaker /\ streak' = streak
  PROVE  AllBreakersGood
BY NowGood DEF AllBreakersGood, Inv, TypeOK

\* A step of time or of an observer.
LEMMA RefreshGood ==
  ASSUME Inv, NEW p \in Provider
  PROVE  BreakerGood(Refresh(breaker[p]), streak[p])
BY NowGood, RefreshKeeps DEF BreakerGood, BelowThreshold

\* A history left alone is the same value written back.
LEMMA StreakSame ==
  ASSUME Inv, NEW p \in Provider, streak' = streak
  PROVE  streak' = [streak EXCEPT ![p] = streak[p]]
BY DEF Inv, TypeOK

\* The breakers, after acquire().
LEMMA SelectBreakers ==
  ASSUME Inv, NEW r \in Request, Select(r)
  PROVE  AllBreakersGood
<1> DEFINE p == Cur(r)
           b == Acquire(breaker[p])
<1>1. p \in Provider
  BY CurType DEF Select, Running
<1>2. streak' = streak /\ (breaker' = breaker \/ breaker' = [breaker EXCEPT ![p] = b])
  BY DEF Select
<1> HIDE DEF p
<1>3. BreakerGood(b, streak[p])
  BY <1>1, NowGood, AcquireKeeps DEF BreakerGood, BelowThreshold
<1> HIDE DEF b
<1> QED BY <1>1, <1>2, <1>3, ReplaceGood, StreakSame

\* The breakers, after record_cancelled() or no report.
LEMMA CancelledBreakers ==
  ASSUME Inv, NEW r \in Request, Attempt(r) \/ Interrupt(r)
  PROVE  AllBreakersGood
<1> DEFINE p == Cur(r)
           b == RecordCancelled(breaker[p])
<1>1. p \in Provider
  BY CurType DEF Attempt, Interrupt, Running
<1>2. streak' = streak /\ (breaker' = breaker \/ breaker' = [breaker EXCEPT ![p] = b])
  BY DEF Attempt, Interrupt, Report
<1> HIDE DEF p
<1>3. BreakerGood(b, streak[p])
  BY <1>1, NowGood, CancelledKeeps DEF BreakerGood, BelowThreshold
<1> HIDE DEF b
<1> QED BY <1>1, <1>2, <1>3, ReplaceGood, StreakSame

\* The breakers, after record_success().
LEMMA SucceedBreakers ==
  ASSUME Inv, NEW r \in Request, Succeed(r)
  PROVE  AllBreakersGood
<1> DEFINE p == Cur(r)
           b == RecordSuccess(breaker[p])
           n == streak[p] + 1
<1>1. p \in Provider
  BY CurType DEF Succeed, Running
<1>2. BreakerGood(breaker[p], streak[p])
  BY <1>1, NowGood
<1>3. \/ breaker' = breaker /\ streak' = streak
      \/ breaker' = [breaker EXCEPT ![p] = b] /\ streak' = [streak EXCEPT ![p] = n]
  BY <1>1 DEF Succeed, Report, Inv, TypeOK
<1> HIDE DEF p
<1>4. /\ b \in Breaker /\ b.recovered <= breaker[p].recovered + 1
      /\ BelowThreshold(b)
  BY <1>2, SuccessKeeps DEF BreakerGood
<1>5. breaker[p].recovered \in Nat /\ b.recovered \in Nat
  BY <1>2, <1>4 DEF BreakerGood, Breaker
<1> HIDE DEF b
<1>6. BreakerGood(b, n)
  BY <1>2, <1>4, <1>5 DEF BreakerGood
<1> HIDE DEF n
<1> QED BY <1>1, <1>3, <1>6, ReplaceGood

\* The breakers, after record_failure().
LEMMA FailBreakers ==
  ASSUME Inv, NEW r \in Request, NEW fatal \in BOOLEAN, Fail(r, fatal)
  PROVE  AllBreakersGood
<1> DEFINE p == Cur(r)
           b == RecordFailure(breaker[p])
<1>1. p \in Provider
  BY CurType DEF Fail, Running
<1>2. \/ breaker' = breaker /\ streak' = streak
      \/ breaker' = [breaker EXCEPT ![p] = b] /\ streak' = [streak EXCEPT ![p] = 0]
  BY DEF Fail, Report
<1> HIDE DEF p
<1>3. BreakerGood(b, 0)
  BY <1>1, NowGood, FailureKeeps DEF BreakerGood
<1> HIDE DEF b
<1> QED BY <1>1, <1>2, <1>3, ReplaceGood

\* The breakers, after somebody looked at them.
LEMMA NoticeBreakers ==
  ASSUME Inv, Status \/ (\E r \in Request : Snapshot(r))
  PROVE  AllBreakersGood
<1> SUFFICES ASSUME NEW p \in Provider PROVE BreakerGood(breaker'[p], streak'[p])
  BY DEF AllBreakersGood
<1>1. streak' = streak
  BY DEF Status, Snapshot
<1>2. breaker'[p] = breaker[p] \/ breaker'[p] = Refresh(breaker[p])
  BY DEF Status, Snapshot
<1> QED BY <1>1, <1>2, NowGood, RefreshGood

\* The breakers, when the recovery time of one has passed.
LEMMA RipenBreakers ==
  ASSUME Inv, NEW p \in Provider, Ripen(p)
  PROVE  AllBreakersGood
<1> DEFINE x == breaker[p]
           b == [x EXCEPT !.ripe = TRUE]
<1>1. BreakerGood(x, streak[p])
  BY NowGood
<1>2. breaker' = [breaker EXCEPT ![p] = b] /\ streak' = streak
  BY DEF Ripen, Inv, TypeOK
<1> HIDE DEF x
<1>3. BreakerGood(b, streak[p])
  BY <1>1 DEF BreakerGood, BelowThreshold, Breaker, CircuitState
<1> HIDE DEF b
<1> QED BY <1>2, <1>3, ReplaceGood, StreakSame

\* The breakers, after one is dropped.
LEMMA UnloadBreakers ==
  ASSUME Inv, NEW p \in Provider, Unload(p)
  PROVE  AllBreakersGood
<1>1. BreakerGood(NewBreaker, 0)
  BY NewType DEF BreakerGood
<1> QED BY <1>1, ReplaceGood DEF Unload

\* A breaker read from the file.
LEMMA RestoredGood ==
  ASSUME Inv, NEW disk \in Loadable, NEW p \in Provider, NEW ripe \in BOOLEAN
  PROVE  BreakerGood(Restore(disk[p], ripe), disk[p].recovered)
<1>1. disk[p] \in DurableState
  BY FileType DEF Inv, TypeOK, Loadable, File
<1>2. disk[p].recovered \in Nat
  BY <1>1 DEF DurableState
<1> QED BY <1>1, <1>2, RestoreKeeps DEF BreakerGood

\* The breakers, after _initialize_resilience_state.
LEMMA InitializedBreakers ==
  ASSUME Inv, NEW gone, Initialize(gone)
  PROVE  AllBreakersGood
<1> SUFFICES ASSUME NEW p \in Provider PROVE BreakerGood(breaker'[p], streak'[p])
  BY DEF AllBreakersGood
<1>1. PICK disk \in Loadable, ripe \in SUBSET Provider :
        /\ breaker' = Initialized(gone, disk, ripe)
        /\ streak' = InitializedStreak(gone, disk)
  BY DEF Initialize
<1>2. CASE p \in gone
  <2>1. breaker'[p] = Restore(disk[p], p \in ripe) /\ streak'[p] = disk[p].recovered
    BY <1>1, <1>2 DEF Initialized, InitializedStreak
  <2> DEFINE now == p \in ripe
  <2>2. now \in BOOLEAN /\ breaker'[p] = Restore(disk[p], now)
    BY <2>1
  <2> HIDE DEF now
  <2>3. BreakerGood(Restore(disk[p], now), disk[p].recovered)
    BY <2>2, RestoredGood
  <2> QED BY <2>1, <2>2, <2>3
<1>3. CASE p \notin gone
  <2>1. breaker'[p] = breaker[p] /\ streak'[p] = streak[p]
    BY <1>1, <1>3 DEF Initialized, InitializedStreak
  <2> QED BY <2>1, NowGood
<1> QED BY <1>2, <1>3

\* Every step keeps every breaker good.
LEMMA BreakersGood ==
  ASSUME Inv, [Next]_vars
  PROVE  AllBreakersGood
<1>1. CASE breaker' = breaker /\ streak' = streak
  BY <1>1, NowGood DEF AllBreakersGood
<1>2. ASSUME NEW r \in Request, Step(r)
      PROVE  AllBreakersGood \/ (breaker' = breaker /\ streak' = streak)
  BY <1>2, SelectBreakers, CancelledBreakers, SucceedBreakers, FailBreakers,
     NoticeBreakers DEF Step, Chunk, CloseStream, Save, Backoff
<1>3. ASSUME \/ \E p \in Provider : Load(p) \/ ResetRebuild(p)
             \/ RefreshSettings \/ Restart
      PROVE  AllBreakersGood
  BY <1>3, InitializedBreakers DEF Load, ResetRebuild, RefreshSettings, Restart
<1>4. ASSUME (\E r \in Request : Begin(r) \/ DeadlinePasses(r) \/ Cancel(r))
               \/ (\E p \in Provider : ResetRead(p)) \/ ResetForget \/ UNCHANGED vars
      PROVE  breaker' = breaker /\ streak' = streak
  BY <1>4 DEF Begin, DeadlinePasses, Cancel, ResetRead, ResetForget, vars
<1> QED BY <1>1, <1>2, <1>3, <1>4, RipenBreakers, NoticeBreakers, UnloadBreakers
           DEF Next, Administer

-----------------------------------------------------------------------------
(* The rest of the types, and induction                                    *)

\* After a step the variables are functions on the same domains.
LEMMA DomainsKept ==
  ASSUME Inv, [Next]_vars
  PROVE  /\ \E f : breaker' = [p \in Provider |-> f[p]]
         /\ \E f : streak' = [p \in Provider |-> f[p]]
         /\ \E f : req' = [r \in Request |-> f[r]]
<1>1. /\ breaker = [p \in Provider |-> breaker[p]]
      /\ streak = [p \in Provider |-> streak[p]]
      /\ req = [r \in Request |-> req[r]]
  BY DEF Inv, TypeOK
<1>2. breaker' = [p \in Provider |-> breaker'[p]]
  BY <1>1 DEF Next, Step, Administer, vars, Begin, DeadlinePasses, Cancel, Ripen,
     Status, Select, Attempt, Chunk, CloseStream, Succeed, Interrupt, Fail, Snapshot,
     Save, Backoff, Unload, Load, ResetRead, ResetForget, ResetRebuild, Restart,
     RefreshSettings, Initialize, Report, Initialized
<1>3. streak' = [p \in Provider |-> streak'[p]]
  BY <1>1 DEF Next, Step, Administer, vars, Begin, DeadlinePasses, Cancel, Ripen,
     Status, Select, Attempt, Chunk, CloseStream, Succeed, Interrupt, Fail, Snapshot,
     Save, Backoff, Unload, Load, ResetRead, ResetForget, ResetRebuild, Restart,
     RefreshSettings, Initialize, InitializedStreak
<1>4. req' = [r \in Request |-> req'[r]]
  BY <1>1 DEF Next, Step, Administer, vars, Begin, DeadlinePasses, Cancel, Ripen,
     Status, Select, Attempt, Chunk, CloseStream, Succeed, Interrupt, Fail, Snapshot,
     Save, Backoff, Unload, Load, ResetRead, ResetForget, ResetRebuild, Restart,
     RefreshSettings, Become, Orphaned
<1> QED BY <1>2, <1>3, <1>4

\* The other variables keep their types.
LEMMA RestTyped ==
  ASSUME Inv, [Next]_vars
  PROVE  /\ missing' \subseteq Provider /\ loaded' \subseteq Provider
         /\ admin' \in 0..MaxAdmin
         /\ stored' \in File
         /\ reset' \in [step: {"idle", "forget", "rebuild"}, on: SUBSET Provider,
                        image: File]
<1> DEFINE ResetState == [step: {"idle", "forget", "rebuild"}, on: SUBSET Provider,
                          image: File]
<1>1. MaxAdmin \in Nat
  BY FailoverAssumption
<1>2. /\ missing \subseteq Provider /\ loaded \subseteq Provider
      /\ admin \in 0..MaxAdmin
      /\ stored \in File /\ reset \in ResetState
  BY DEF Inv, TypeOK
<1>3. missing' \subseteq Provider /\ loaded' \subseteq Provider
  BY <1>2 DEF Next, Step, Administer, vars, Begin, DeadlinePasses, Cancel, Ripen,
     Status, Select, Attempt, Chunk, CloseStream, Succeed, Interrupt, Fail, Snapshot,
     Save, Backoff, Unload, Load, ResetRead, ResetForget, ResetRebuild, Restart,
       RefreshSettings, Initialize, shared
<1>4. admin' \in 0..MaxAdmin
  <2>1. admin' = admin \/ (admin < MaxAdmin /\ admin' = admin + 1)
    BY DEF Next, Step, Administer, vars, Begin, DeadlinePasses, Cancel, Ripen,
       Status, Select, Attempt, Chunk, CloseStream, Succeed, Interrupt, Fail, Snapshot,
       Save, Backoff, Unload, Load, ResetRead, ResetForget, ResetRebuild, Restart,
       RefreshSettings, Initialize, shared
  <2> QED BY <1>1, <1>2, <2>1
<1>5. stored' \in File
  <2>1. ASSUME NEW r \in Request, Save(r) PROVE stored' \in File
    <3>1. req[r] \in RequestState /\ stored' \in {req[r].image, stored}
      BY <2>1 DEF Save, Write, Inv, TypeOK
    <3> QED BY <1>2, <3>1 DEF RequestState
  <2>2. ResetForget => stored' \in File
    BY <1>2 DEF ResetForget, Write
  <2>3. stored' = stored \/ ResetForget \/ \E r \in Request : Save(r)
    BY DEF Next, Step, Administer, vars, Begin, DeadlinePasses, Cancel, Ripen,
       Status, Select, Attempt, Chunk, CloseStream, Succeed, Interrupt, Fail, Snapshot,
       Backoff, Unload, Load, ResetRead, ResetRebuild, Restart,
       RefreshSettings, Initialize, shared
  <2> QED BY <1>2, <2>1, <2>2, <2>3
<1>6. reset' \in ResetState
  <2>1. ASSUME NEW p \in Provider, ResetRead(p) PROVE reset' \in ResetState
    <3> DEFINE i == IF stored[p].stored THEN [stored EXCEPT ![p] = NotStored] ELSE NoFile
    <3>1. i \in File
      BY <1>2, FileType, NotStoredType DEF File
    <3> HIDE DEF i
    <3>2. /\ reset'.step \in {"forget", "rebuild"}
          /\ reset' = [step |-> reset'.step, on |-> {p}, image |-> i]
      BY <2>1 DEF ResetRead, i
    <3> QED BY <3>1, <3>2
  <2>2. ResetForget => reset' \in ResetState
    BY <1>2, FileType DEF ResetForget
  <2>3. NoReset \in ResetState
    BY FileType DEF NoReset
  <2>4. \/ reset' = reset \/ reset' = NoReset \/ ResetForget
        \/ \E p \in Provider : ResetRead(p)
    BY DEF Next, Step, Administer, vars, Begin, DeadlinePasses, Cancel, Ripen,
       Status, Select, Attempt, Chunk, CloseStream, Succeed, Interrupt, Fail, Snapshot,
       Save, Backoff, Unload, Load, ResetRebuild, Restart,
       RefreshSettings, Initialize, shared
  <2> QED BY <1>2, <2>1, <2>2, <2>3, <2>4
<1> QED BY <1>3, <1>4, <1>5, <1>6

\* The invariant is inductive.
LEMMA NextInv == Inv /\ [Next]_vars => Inv'
<1> SUFFICES ASSUME Inv, [Next]_vars PROVE Inv'
  OBVIOUS
<1>1. /\ breaker' \in [Provider -> Breaker] /\ streak' \in [Provider -> Nat]
      /\ req' \in [Request -> RequestState]
  BY DomainsKept, BreakersGood, RequestsGood DEF AllBreakersGood, BreakerGood, Good
<1>2. TypeOK'
  BY <1>1, RestTyped DEF TypeOK
<1>3. \A r \in Request : RequestOK(req[r])'
  BY RequestsGood DEF Good, RequestOK
<1>4. BreakersOK'
  BY BreakersGood DEF BreakersOK, AllBreakersGood, BreakerGood, BelowThreshold
<1> QED BY <1>2, <1>3, <1>4 DEF Inv

\* The invariant holds always.
LEMMA InvHolds == Spec => []Inv
BY InitInv, NextInv, PTL DEF Spec

-----------------------------------------------------------------------------
(* The theorems                                                            *)

\* Type correctness, for any instance.
THEOREM TypeCorrect == Spec => []TypeOK
<1>1. Inv => TypeOK
  BY DEF Inv
<1> QED BY <1>1, InvHolds, PTL

\* A closed breaker has seen fewer failures in a row than the threshold, for
\* every interleaving of requests, late results and administration.
THEOREM BreakerOpensInTime == Spec => []ClosedBelowThreshold
<1>1. Inv => ClosedBelowThreshold
  BY DEF Inv, BreakersOK, BelowThreshold, ClosedBelowThreshold
<1> QED BY <1>1, InvHolds, PTL

\* The consumer of a stream reads the output of one attempt.
THEOREM OneAttempt == Spec => []OneAttemptEmits
<1>1. Inv => OneAttemptEmits
  BY DEF Inv, RequestOK, OneAttemptEmits
<1> QED BY <1>1, InvHolds, PTL

\* The request's report is what closes an isolated breaker, and only with
\* enough successes since the last failure.
LEMMA TrustStep ==
  ASSUME Inv, [Next]_vars, NEW p \in Provider, breaker[p].state # "closed",
         breaker'[p].state = "closed", UNCHANGED <<admin, reset, loaded, missing>>
  PROVE  streak'[p] >= RecoverySuccesses
<1>1. /\ breaker \in [Provider -> Breaker] /\ streak \in [Provider -> Nat]
      /\ breaker[p].recovered <= streak[p] /\ breaker[p].recovered \in Nat
  BY DEF Inv, TypeOK, BreakersOK, Breaker
<1>2. ASSUME NEW r \in Request, Succeed(r) PROVE streak'[p] >= RecoverySuccesses
  <2> DEFINE q == Cur(r)
  <2>1. q \in Provider
    BY <1>2, CurType DEF Succeed, Running
  <2>2. /\ breaker' = [breaker EXCEPT ![q] = RecordSuccess(breaker[q])]
        /\ streak' = [streak EXCEPT ![q] = @ + 1]
    BY <1>2 DEF Succeed, Report
  <2> HIDE DEF q
  <2>3. p = q
    BY <1>1, <2>1, <2>2
  <2>4. breaker[p].recovered + 1 >= RecoverySuccesses
    BY <1>1, <2>2, <2>3, SuccessKeeps
  <2>5. streak'[p] = streak[p] + 1 /\ streak[p] \in Nat
    BY <1>1, <2>2, <2>3
  <2> QED BY <1>1, <2>4, <2>5, BreakerAssumption
<1>3. ASSUME NEW r \in Request,
             Select(r) \/ Attempt(r) \/ Interrupt(r) \/ (\E f \in BOOLEAN : Fail(r, f))
      PROVE  FALSE
  <2> DEFINE q == Cur(r)
             b == breaker[q]
  <2>1. q \in Provider
    BY <1>3, CurType DEF Select, Attempt, Interrupt, Fail, Running
  <2>2. \/ breaker' = breaker
        \/ \E c \in {Acquire(b), RecordCancelled(b), RecordFailure(b)} :
             breaker' = [breaker EXCEPT ![q] = c]
    BY <1>3 DEF Select, Attempt, Interrupt, Fail, Report
  <2> HIDE DEF q
  <2>3. b.state # "closed" =>
          \A c \in {Acquire(b), RecordCancelled(b), RecordFailure(b)} : c.state # "closed"
    BY <1>1, <2>1, AcquireKeeps, CancelledKeeps, FailureKeeps
  <2> QED BY <1>1, <2>1, <2>2, <2>3
<1>4. ASSUME Status \/ (\E r \in Request : Snapshot(r)) PROVE FALSE
  <2>1. breaker'[p] = breaker[p] \/ breaker'[p] = Refresh(breaker[p])
    BY <1>4 DEF Status, Snapshot
  <2> QED BY <1>1, <2>1, RefreshKeeps
<1>5. ASSUME NEW q \in Provider, Ripen(q) PROVE FALSE
  <2>1. breaker'[p].state = breaker[p].state
    BY <1>1, <1>5 DEF Ripen, Breaker
  <2> QED BY <2>1
<1>6. ASSUME Administer PROVE FALSE
  <2>1. admin \in Nat
    BY FailoverAssumption DEF Inv, TypeOK
  <2>2. admin' # admin + 1
    BY <2>1
  <2>3. reset \in [step: {"idle", "forget", "rebuild"}, on: SUBSET Provider, image: File]
    BY DEF Inv, TypeOK
  <2>4. ASSUME ResetForget PROVE FALSE
    <3>1. reset.step = "forget" /\ reset'.step = "rebuild"
      BY <2>3, <2>4 DEF ResetForget
    <3> QED BY <3>1
  <2>5. ASSUME NEW q \in Provider, ResetRebuild(q) PROVE FALSE
    <3>1. reset.step = "rebuild" /\ reset'.step = "idle"
      BY <2>5 DEF ResetRebuild, NoReset
    <3> QED BY <3>1
  <2>6. ASSUME NEW q \in Provider, Load(q) PROVE FALSE
    BY <2>6 DEF Load
  <2>7. ASSUME NEW q \in Provider, Unload(q) \/ ResetRead(q) PROVE FALSE
    BY <2>2, <2>7 DEF Unload, ResetRead
  <2>8. Restart \/ RefreshSettings => FALSE
    BY <2>2 DEF Restart, RefreshSettings, Initialize
  <2> QED BY <1>6, <2>4, <2>5, <2>6, <2>7, <2>8 DEF Administer
<1>7. ASSUME \/ \E r \in Request : \/ Begin(r) \/ DeadlinePasses(r) \/ Cancel(r)
                                   \/ Chunk(r) \/ CloseStream(r) \/ Save(r) \/ Backoff(r)
             \/ UNCHANGED vars
      PROVE  FALSE
  BY <1>7 DEF Begin, DeadlinePasses, Cancel, Chunk, CloseStream, Save, Backoff, vars
<1> QED BY <1>2, <1>3, <1>4, <1>5, <1>6, <1>7 DEF Next, Step

\* An isolated provider is trusted again only after enough successes in a
\* row, for any number of concurrent requests and late results.
THEOREM TrustEarned == Spec => TrustIsEarned
<1>1. Inv /\ [Next]_vars =>
        [\A p \in Provider :
           breaker[p].state # "closed" /\ breaker'[p].state = "closed"
             => \/ streak'[p] >= RecoverySuccesses
                \/ <<admin, reset, loaded, missing>>' # <<admin, reset, loaded, missing>>]_vars
  BY TrustStep
<1> QED BY <1>1, InvHolds, PTL DEF Spec, TrustIsEarned

-----------------------------------------------------------------------------
(* ProviderConfig: the invariant                                           *)

Managers == [backends : [Name -> Adapter \cup {Nil}], active : SUBSET Adapter,
             made : Nat]
Prints == [name : Name, enable : BOOLEAN, conf : Conf, tune : 0..1, models : {Nil}]
Jobs == [name : Name, adapter : Adapter, print : Prints,
         old : Catalogue \cup {Nil},
         meanwhile : {"nothing", "written", "replaced"}]

\* A detection that runs has its locals.
JobsTyped ==
  /\ job \in [Task -> Jobs \cup {Nil}]
  /\ \A t \in Task : pc[t] # "idle" =>
       /\ job[t] \in Jobs
       /\ pc[t] = "save" => job[t].old \in Catalogue
       /\ pc[t] # "save" => job[t].meanwhile = "nothing"

\* The adapters called k that serve are the one registered as k, made of an
\* enabled entry of the list.
ServedAt(list, m, k) ==
  /\ \A a \in m.active : a.name = k => m.backends[k] = a
  /\ m.backends[k] # Nil => /\ Has(list, k)
                            /\ At(list, k).enable
                            /\ At(list, k).conf = m.backends[k].conf

Served(list, m, S) == \A k \in Name \ S : ServedAt(list, m, k)

\* A detection saves with the lock, and a request holds it all along.
Locking ==
  \A t \in Task : /\ pc[t] = "save" => lock = t
                  /\ (t \in Applier /\ pc[t] # "idle") => lock = t

\* The adapter a detection asked is made of the configuration it noted.
Noted ==
  \A t \in Task : (pc[t] # "idle" /\ job[t].name \notin doubled) =>
                    job[t].adapter.conf = job[t].print.conf

\* What the file holds while t saves and nothing is left unsaved.
Behind(t) ==
  IF job[t].meanwhile = "nothing" THEN file \in {Undone(t), Broken}
  ELSE file \in {config, Broken}

FileKept ==
  ~dirty => /\ (\A t \in Task : pc[t] # "save") => file \in {config, Broken}
            /\ \A t \in Task : pc[t] = "save" => Behind(t)

\* The list and the manager.
ListInv ==
  /\ config \in Seq(Entry) /\ manager \in Managers
  /\ doubled \subseteq Name
  /\ Twice(config) \subseteq doubled
  /\ Served(config, manager, doubled)

\* The files.
FilesTyped ==
  /\ file \in Seq(Entry) \cup {Broken}
  /\ bak \in Seq(Entry) \cup {Broken, Nil}
  /\ badWrites \in 0..MaxBadWrites
  /\ dirty \in BOOLEAN

\* Detections: their locals, the lock, and what they noted.
Detections ==
  /\ lock \in Task \cup {Nil}
  /\ pc \in [Task -> {"idle", "detect", "lock", "save"}]
  /\ JobsTyped
  /\ Locking
  /\ Noted

\* The counters.
Counted ==
  /\ edits \in 0..MaxEdits /\ runs \in 0..MaxRuns
  /\ badLoads \in 0..MaxBadLoads

ConfigInv ==
  /\ ListInv
  /\ FilesTyped
  /\ Detections
  /\ Counted
  /\ FileKept

-----------------------------------------------------------------------------
(* Least and greatest members                                              *)

\* A set of numbers that is not empty has a least member.
LEMMA MinFacts ==
  ASSUME NEW S, S \subseteq Nat, S # {}
  PROVE  Min(S) \in S /\ \A y \in S : Min(S) <= y
<1>1. PICK x \in S : \A y \in S : ~ (<<y, x>> \in OpToRel(<, Nat))
  <2>1. \E x \in S : \A y \in S : ~ (<<y, x>> \in OpToRel(<, Nat))
    BY NatLessThanWellFounded, WFMin
  <2> QED BY <2>1
<1>2. \A y \in S : x <= y
  <2>1. OpToRel(<, Nat) = {ss \in Nat \X Nat : ss[1] < ss[2]}
    BY Zenon DEF OpToRel
  <2>2. \A y \in S : ~ (y < x) /\ y \in Nat /\ x \in Nat
    BY <1>1, <2>1
  <2> QED BY <2>2
<1> QED BY <1>2 DEF Min

\* A set of numbers up to a bound that is not empty has a greatest member.
LEMMA MaxFacts ==
  ASSUME NEW n \in Nat, NEW S, S \subseteq 1..n, S # {}
  PROVE  Max(S) \in S /\ \A y \in S : y <= Max(S)
<1> DEFINE T == {n - x : x \in S}
<1>1. T \subseteq Nat /\ T # {}
  <2>1. \A x \in S : n - x \in Nat
    OBVIOUS
  <2> QED BY <2>1
<1>2. PICK d \in T : \A y \in T : d <= y
  <2> HIDE DEF T
  <2> QED BY <1>1, MinFacts
<1>3. PICK x \in S : d = n - x
  BY <1>2
<1> x \in Nat /\ S \subseteq Nat
  <2>1. \A y \in 1..n : y \in Nat
    OBVIOUS
  <2>2. S \subseteq Nat
    BY <2>1, Zenon
  <2> QED BY <2>2, Zenon
<1>4. \A y \in S : x >= y
  <2> SUFFICES ASSUME NEW y \in S PROVE x >= y
    OBVIOUS
  <2>1. n - y \in T
    OBVIOUS
  <2>2. n - x <= n - y
    BY <1>2, <1>3, <2>1
  <2>3. y \in Nat
    OBVIOUS
  <2> QED BY <2>2, <2>3
<1>5. \A y \in S : Max(S) >= y
  BY <1>4 DEF Max
<1>6. Max(S) \in S
  BY <1>4 DEF Max
<1> QED BY <1>5, <1>6

-----------------------------------------------------------------------------
(* Places in the list                                                      *)

\* The place of a name is the first entry called so.
LEMMA IndexFacts ==
  ASSUME NEW list \in Seq(Entry), NEW n
  PROVE  /\ Has(list, n) <=> \E i \in DOMAIN list : list[i].name = n
         /\ Has(list, n) => /\ Index(list, n) \in DOMAIN list
                            /\ list[Index(list, n)].name = n
                            /\ \A j \in DOMAIN list : list[j].name = n => Index(list, n) <= j
         /\ ~Has(list, n) => Index(list, n) \notin DOMAIN list
<1> DEFINE I == {i \in 1..Len(list) : list[i].name = n}
<1>1. DOMAIN list = 1..Len(list) /\ Len(list) \in Nat
  BY LenProperties
<1>2. Index(list, n) = IF I # {} THEN Min(I) ELSE 0
  BY DEF Index, SelectInSeq
<1>3. I \subseteq Nat
  OBVIOUS
<1>4. I # {} <=> \E i \in DOMAIN list : list[i].name = n
  BY <1>1
<1>5. CASE I # {}
  <2>1. Min(I) \in I /\ \A y \in I : Min(I) <= y
    <3> HIDE DEF I
    <3> QED BY <1>3, <1>5, MinFacts
  <2> QED BY <1>1, <1>2, <1>4, <1>5, <2>1 DEF Has
<1>6. CASE I = {}
  BY <1>1, <1>2, <1>4, <1>6 DEF Has
<1> QED BY <1>5, <1>6

\* An entry of the list.
LEMMA EntryFacts ==
  ASSUME NEW list \in Seq(Entry), NEW i \in DOMAIN list
  PROVE  /\ list[i] \in Entry
         /\ list[i].name \in Name /\ list[i].enable \in BOOLEAN
         /\ list[i].conf \in Conf /\ list[i].tune \in 0..1
         /\ list[i].models \in Catalogue
<1>1. list[i] \in Entry
  OBVIOUS
<1> QED BY <1>1 DEF Entry

\* What a name stands for is an entry called so.
LEMMA AtFacts ==
  ASSUME NEW list \in Seq(Entry), NEW n, Has(list, n)
  PROVE  At(list, n) \in Entry /\ At(list, n).name = n
<1>1. Index(list, n) \in DOMAIN list /\ list[Index(list, n)].name = n
  BY IndexFacts
<1> QED BY <1>1 DEF At

\* The only entry of a name is the one it stands for.
LEMMA OnlyEntry ==
  ASSUME NEW list \in Seq(Entry), NEW i \in DOMAIN list, list[i].name \notin Twice(list)
  PROVE  /\ Has(list, list[i].name)
         /\ Index(list, list[i].name) = i
         /\ At(list, list[i].name) = list[i]
<1> DEFINE k == list[i].name
<1>1. k \in Name
  BY EntryFacts
<1>2. Has(list, k) /\ Index(list, k) \in DOMAIN list /\ list[Index(list, k)].name = k
  BY IndexFacts
<1>3. Index(list, k) = i
  BY <1>1, <1>2 DEF Twice
<1> QED BY <1>2, <1>3 DEF At

\* The name k stands in new for what it stands for in list, as far as an
\* adapter is concerned.
Carries(list, new, k) ==
  Has(list, k) => /\ Has(new, k)
                  /\ At(new, k).enable = At(list, k).enable
                  /\ At(new, k).conf = At(list, k).conf

\* A name carries over when its entries go on in new as they were.
LEMMA CarriesBy ==
  ASSUME NEW list \in Seq(Entry), NEW new \in Seq(Entry), NEW k, k \notin Twice(new),
         \A i \in DOMAIN list : list[i].name = k =>
           \E j \in DOMAIN new : /\ new[j].name = k
                                 /\ new[j].enable = list[i].enable
                                 /\ new[j].conf = list[i].conf
  PROVE  Carries(list, new, k)
<1> SUFFICES ASSUME Has(list, k) PROVE Carries(list, new, k)
  BY DEF Carries
<1>1. Index(list, k) \in DOMAIN list /\ list[Index(list, k)].name = k
  BY IndexFacts
<1>2. PICK j \in DOMAIN new : /\ new[j].name = k
                              /\ new[j].enable = At(list, k).enable
                              /\ new[j].conf = At(list, k).conf
  BY <1>1 DEF At
<1>3. Has(new, k) /\ At(new, k) = new[j]
  BY <1>2, OnlyEntry
<1> QED BY <1>2, <1>3 DEF Carries

\* An entry at the end.
LEMMA AppendFacts ==
  ASSUME NEW list \in Seq(Entry), NEW e \in Entry, ~Has(list, e.name)
  PROVE  /\ Append(list, e) \in Seq(Entry)
         /\ Twice(Append(list, e)) \subseteq Twice(list)
         /\ Has(Append(list, e), e.name) /\ At(Append(list, e), e.name) = e
         /\ \A k : k \notin Twice(list) => Carries(list, Append(list, e), k)
<1> DEFINE new == Append(list, e)
           l == Len(list)
<1>1. /\ l \in Nat /\ DOMAIN list = 1..l
      /\ new \in Seq(Entry) /\ DOMAIN new = 1..(l + 1)
      /\ \A i \in 1..l : new[i] = list[i]
      /\ new[l + 1] = e
  BY AppendProperties, LenProperties
<1>2. \A i \in 1..l : list[i].name # e.name
  BY <1>1, IndexFacts
<1> HIDE DEF new, l
<1>3. Twice(new) \subseteq Twice(list)
  <2> SUFFICES ASSUME NEW n \in Name, NEW i \in DOMAIN new, NEW j \in DOMAIN new,
                      i # j, new[i].name = n, new[j].name = n
               PROVE  n \in Twice(list)
    BY DEF Twice
  <2>1. i \in 1..l /\ j \in 1..l
    BY <1>1, <1>2
  <2> QED BY <1>1, <2>1 DEF Twice
<1>4. Has(new, e.name) /\ At(new, e.name) = e
  <2>1. Index(new, e.name) = l + 1
    <3>1. Has(new, e.name) /\ Index(new, e.name) \in DOMAIN new /\ new[Index(new, e.name)].name = e.name
      <4>1. l + 1 \in DOMAIN new /\ new[l + 1].name = e.name
        BY <1>1
      <4> QED BY <1>1, <4>1, IndexFacts
    <3> QED BY <1>1, <1>2, <3>1
  <2> QED BY <1>1, <2>1 DEF Has, At
<1>5. ASSUME NEW k, k \notin Twice(list) PROVE Carries(list, new, k)
  <2>1. \A i \in DOMAIN list : i \in DOMAIN new /\ new[i] = list[i]
    BY <1>1
  <2>2. k \notin Twice(new)
    BY <1>3, <1>5
  <2> QED BY <1>1, <2>1, <2>2, CarriesBy
<1> QED BY <1>1, <1>3, <1>4, <1>5 DEF new

\* Another entry at a place, of a name that is not in the list or the same.
LEMMA ReplaceFacts ==
  ASSUME NEW list \in Seq(Entry), NEW i \in DOMAIN list, NEW e \in Entry,
         NEW new, new = [list EXCEPT ![i] = e]
  PROVE  /\ new \in Seq(Entry) /\ DOMAIN new = DOMAIN list
         /\ new[i] = e /\ \A j \in DOMAIN list : j # i => new[j] = list[j]
<1> QED BY ExceptSeq, LenProperties

\* Names at the same places stand for the same places.
LEMMA SameNames ==
  ASSUME NEW list \in Seq(Entry), NEW new \in Seq(Entry), DOMAIN new = DOMAIN list,
         \A j \in DOMAIN list : new[j].name = list[j].name
  PROVE  /\ Twice(new) = Twice(list)
         /\ \A k : Index(new, k) = Index(list, k)
<1>2. Twice(new) = Twice(list)
  BY DEF Twice
<1>3. Len(new) = Len(list)
  BY LenProperties
<1>4. ASSUME NEW k PROVE Index(new, k) = Index(list, k)
  <2> DEFINE I == {j \in 1..Len(list) : list[j].name = k}
             J == {j \in 1..Len(new) : new[j].name = k}
  <2>1. I = J
    BY <1>3, LenProperties
  <2>2. Index(list, k) = IF I # {} THEN Min(I) ELSE 0
    BY DEF Index, SelectInSeq
  <2>3. Index(new, k) = IF J # {} THEN Min(J) ELSE 0
    BY DEF Index, SelectInSeq
  <2> HIDE DEF I, J
  <2> QED BY <2>1, <2>2, <2>3
<1> QED BY <1>2, <1>4

\* The entry of the name n is replaced by e.
LEMMA PutFacts ==
  ASSUME NEW list \in Seq(Entry), NEW n, Has(list, n), NEW e \in Entry,
         e.name = n \/ ~Has(list, e.name), NEW new, new = Put(list, n, e)
  PROVE  /\ new \in Seq(Entry)
         /\ Twice(new) \subseteq Twice(list)
         /\ Has(new, e.name) /\ At(new, e.name) = e
         /\ \A k : (k \notin Twice(list) /\ k # n) => Carries(list, new, k)
         /\ (n \notin Twice(list) /\ e.name # n) => ~Has(new, n)
<1> DEFINE i == Index(list, n)
<1>1. i \in DOMAIN list /\ list[i].name = n /\ new = [list EXCEPT ![i] = e]
  BY IndexFacts DEF Put
<1>2. /\ new \in Seq(Entry) /\ DOMAIN new = DOMAIN list
      /\ new[i] = e /\ \A j \in DOMAIN list : j # i => new[j] = list[j]
  BY <1>1, ReplaceFacts
<1> HIDE DEF i
<1>3. e.name # n => \A j \in DOMAIN list : list[j].name # e.name
  BY IndexFacts
<1>4. Twice(new) \subseteq Twice(list)
  <2>1. CASE e.name = n
    BY <2>1, <1>1, <1>2, SameNames
  <2>2. CASE e.name # n
    BY <2>2, <1>2, <1>3 DEF Twice
  <2> QED BY <2>1, <2>2
<1>5. Has(new, e.name) /\ At(new, e.name) = e
  <2>1. Has(new, e.name)
    BY <1>1, <1>2, IndexFacts
  <2>2. CASE e.name = n
    <3>1. \A k : Index(new, k) = Index(list, k)
      <4>1. \A j \in DOMAIN list : new[j].name = list[j].name
        BY <1>1, <1>2, <2>2
      <4> QED BY <1>2, <4>1, SameNames
    <3>2. Index(new, e.name) = i
      BY <2>2, <3>1 DEF i
    <3> QED BY <1>2, <2>1, <3>2 DEF At
  <2>3. CASE e.name # n
    <3>1. Index(new, e.name) \in DOMAIN new /\ new[Index(new, e.name)].name = e.name
      BY <1>2, <2>1, IndexFacts
    <3>2. Index(new, e.name) = i
      BY <1>2, <1>3, <2>3, <3>1
    <3> QED BY <1>2, <2>1, <3>2 DEF At
  <2> QED BY <2>1, <2>2, <2>3
<1>6. ASSUME NEW k, k \notin Twice(list), k # n PROVE Carries(list, new, k)
  <2>1. \A j \in DOMAIN list : list[j].name = k => new[j] = list[j]
    BY <1>1, <1>2, <1>6
  <2>2. k \notin Twice(new)
    BY <1>4, <1>6
  <2> QED BY <1>2, <2>1, <2>2, CarriesBy
<1>7. ASSUME n \notin Twice(list), e.name # n PROVE ~Has(new, n)
  <2>1. n \in Name
    BY <1>1, EntryFacts
  <2>2. \A j \in DOMAIN list : list[j].name = n => j = i
    BY <1>1, <1>7, <2>1 DEF Twice
  <2>3. \A j \in DOMAIN new : new[j].name # n
    BY <1>2, <1>7, <2>2
  <2> QED BY <1>2, <2>3, IndexFacts
<1> QED BY <1>2, <1>4, <1>5, <1>6, <1>7

\* An entry is touched where no adapter is made of it.
LEMMA TouchFacts ==
  ASSUME NEW list \in Seq(Entry), NEW new \in Seq(Entry), DOMAIN new = DOMAIN list,
         \A j \in DOMAIN list : /\ new[j].name = list[j].name
                                /\ new[j].enable = list[j].enable
                                /\ new[j].conf = list[j].conf
  PROVE  /\ Twice(new) = Twice(list)
         /\ \A k : /\ Carries(list, new, k)
                   /\ Carries(new, list, k)
<1>1. Twice(new) = Twice(list) /\ \A k : Index(new, k) = Index(list, k)
  BY SameNames
<1>2. ASSUME NEW k PROVE Carries(list, new, k) /\ Carries(new, list, k)
  <2>1. Has(list, k) => Index(list, k) \in DOMAIN list
    BY IndexFacts
  <2>2. Has(list, k) <=> Has(new, k)
    BY <1>1 DEF Has
  <2> QED BY <1>1, <2>1, <2>2 DEF Carries, At
<1> QED BY <1>1, <1>2

\* An entry is taken out.
LEMMA RemoveFacts ==
  ASSUME NEW list \in Seq(Entry), NEW n, Has(list, n),
         NEW new, new = RemoveAt(list, Index(list, n))
  PROVE  /\ new \in Seq(Entry)
         /\ Twice(new) \subseteq Twice(list)
         /\ \A k : (k \notin Twice(list) /\ k # n) => Carries(list, new, k)
         /\ n \notin Twice(list) => ~Has(new, n)
<1> DEFINE i == Index(list, n)
           l == Len(list)
           a == SubSeq(list, 1, i - 1)
           b == SubSeq(list, i + 1, l)
<1>1. i \in 1..l /\ list[i].name = n /\ l \in Nat /\ DOMAIN list = 1..l
  BY IndexFacts, LenProperties
<1>2. new = a \o b
  BY DEF RemoveAt
<1> HIDE DEF i, l
<1>3. \A j \in 1..l : list[j] \in Entry
  BY ElementOfSeq DEF l
<1>4. /\ a \in Seq(Entry) /\ Len(a) = i - 1
      /\ \A j \in 1..(i - 1) : a[j] = list[j]
  <2>1. \A j \in 1..(i - 1) : list[j] \in Entry
    BY <1>1, <1>3
  <2>2. 1 \in Int /\ i - 1 \in Int
    BY <1>1
  <2>3. /\ SubSeq(list, 1, i - 1) \in Seq(Entry)
        /\ Len(SubSeq(list, 1, i - 1)) = IF 1 <= i - 1 THEN (i - 1) - 1 + 1 ELSE 0
        /\ \A j \in 1..((i - 1) - 1 + 1) : SubSeq(list, 1, i - 1)[j] = list[1 + j - 1]
    BY <2>1, <2>2, SubSeqProperties
  <2> QED BY <2>3, <1>1
<1>5. /\ b \in Seq(Entry) /\ Len(b) = l - i
      /\ \A j \in 1..(l - i) : b[j] = list[i + j]
  <2>1. \A j \in (i + 1)..l : list[j] \in Entry
    BY <1>1, <1>3
  <2>2. i + 1 \in Int /\ l \in Int
    BY <1>1
  <2>3. /\ SubSeq(list, i + 1, l) \in Seq(Entry)
        /\ Len(SubSeq(list, i + 1, l)) = IF i + 1 <= l THEN l - (i + 1) + 1 ELSE 0
        /\ \A j \in 1..(l - (i + 1) + 1) : SubSeq(list, i + 1, l)[j] = list[(i + 1) + j - 1]
    BY <2>1, <2>2, SubSeqProperties
  <2> QED BY <2>3, <1>1
<1> HIDE DEF a, b
<1>6. /\ new \in Seq(Entry) /\ DOMAIN new = 1..(l - 1)
      /\ \A j \in 1..(l - 1) : new[j] = IF j < i THEN list[j] ELSE list[j + 1]
  <2>1. /\ a \o b \in Seq(Entry) /\ Len(a \o b) = Len(a) + Len(b)
        /\ \A j \in 1..(Len(a) + Len(b)) :
             (a \o b)[j] = IF j <= Len(a) THEN a[j] ELSE b[j - Len(a)]
    BY <1>4, <1>5, ConcatProperties
  <2>2. Len(a) + Len(b) = l - 1
    BY <1>1, <1>4, <1>5
  <2>3. ASSUME NEW j \in 1..(l - 1) PROVE (a \o b)[j] = IF j < i THEN list[j] ELSE list[j + 1]
    <3>1. CASE j < i
      BY <1>1, <1>4, <2>1, <2>2, <3>1
    <3>2. CASE ~(j < i)
      <4>1. j - Len(a) \in 1..(l - i) /\ i + (j - Len(a)) = j + 1 /\ ~(j <= Len(a))
        BY <1>1, <1>4, <3>2
      <4>2. (a \o b)[j] = b[j - Len(a)]
        BY <2>1, <2>2, <4>1
      <4>3. b[j - Len(a)] = list[i + (j - Len(a))]
        BY <1>5, <4>1
      <4> QED BY <3>2, <4>1, <4>2, <4>3
    <3> QED BY <3>1, <3>2
  <2>4. DOMAIN (a \o b) = 1..(l - 1)
    BY <2>1, <2>2, LenProperties
  <2> QED BY <1>2, <2>1, <2>3, <2>4
<1>7. \A j \in DOMAIN list : j # i =>
        \E h \in DOMAIN new : new[h] = list[j]
  <2> SUFFICES ASSUME NEW j \in 1..l, j # i PROVE \E h \in 1..(l - 1) : new[h] = list[j]
    BY <1>1, <1>6
  <2>1. CASE j < i
    BY <1>1, <1>6, <2>1
  <2>2. CASE ~(j < i)
    <3>1. j - 1 \in 1..(l - 1) /\ ~(j - 1 < i) /\ (j - 1) + 1 = j
      BY <1>1, <2>2
    <3>2. new[j - 1] = list[(j - 1) + 1]
      BY <1>6, <3>1
    <3> QED BY <3>1, <3>2
  <2> QED BY <2>1, <2>2
<1>8. Twice(new) \subseteq Twice(list)
  <2> SUFFICES ASSUME NEW m \in Name, NEW h \in 1..(l - 1), NEW j \in 1..(l - 1),
                      h # j, new[h].name = m, new[j].name = m
               PROVE  m \in Twice(list)
    BY <1>6 DEF Twice
  <2> DEFINE G(x) == IF x < i THEN x ELSE x + 1
  <2>1. G(h) \in 1..l /\ G(j) \in 1..l /\ G(h) # G(j)
    BY <1>1
  <2>2. new[h] = list[G(h)] /\ new[j] = list[G(j)]
    BY <1>6
  <2> HIDE DEF G
  <2> QED BY <1>1, <2>1, <2>2 DEF Twice
<1>9. ASSUME NEW k, k \notin Twice(list), k # n PROVE Carries(list, new, k)
  <2>1. k \notin Twice(new)
    BY <1>8, <1>9
  <2>2. \A j \in DOMAIN list : list[j].name = k => \E h \in DOMAIN new : new[h] = list[j]
    BY <1>1, <1>7, <1>9
  <2> QED BY <1>6, <2>1, <2>2, CarriesBy
<1>10. ASSUME n \notin Twice(list) PROVE ~Has(new, n)
  <2>1. n \in Name
    BY <1>1, <1>3 DEF Entry
  <2>2. \A j \in 1..l : list[j].name = n => j = i
    BY <1>1, <1>10, <2>1 DEF Twice
  <2>3. ASSUME NEW h \in 1..(l - 1) PROVE new[h].name # n
    <3>1. CASE h < i
      <4>1. h \in 1..l /\ h # i
        BY <1>1, <3>1
      <4> QED BY <1>6, <2>2, <3>1, <4>1
    <3>2. CASE ~(h < i)
      <4>1. h + 1 \in 1..l /\ h + 1 # i
        BY <1>1, <3>2
      <4> QED BY <1>6, <2>2, <3>2, <4>1
    <3> QED BY <3>1, <3>2
  <2> QED BY <1>6, <2>3, IndexFacts
<1> QED BY <1>6, <1>8, <1>9, <1>10

-----------------------------------------------------------------------------
(* What loading and unloading leave                                        *)

\* No adapter is called k, and none is registered as k.
Out(m, k) == m.backends[k] = Nil /\ \A a \in m.active : a.name # k

\* x has of the name k what m has, or less of it in service.
Kept(m, x, k) ==
  /\ x.backends[k] = m.backends[k]
  /\ \A a \in x.active : a.name = k => a \in m.active

\* The parts of the manager, and what an adapter in service is.
LEMMA ManagerFacts ==
  ASSUME NEW m \in Managers
  PROVE  /\ m.backends \in [Name -> Adapter \cup {Nil}]
         /\ m.active \subseteq Adapter /\ m.made \in Nat
         /\ \A k \in Name : m.backends[k] # Nil => m.backends[k] \in Adapter
         /\ \A a \in m.active : a # Nil /\ a.name \in Name
BY ProviderAssumption DEF Managers, Adapter

\* A name without adapters is served as configured, by nobody.
LEMMA OutServed ==
  ASSUME NEW m, NEW k, Out(m, k), NEW list
  PROVE  ServedAt(list, m, k)
BY DEF Out, ServedAt

\* A name that is served as configured and not registered has no adapter left.
LEMMA ServedOut ==
  ASSUME NEW m \in Managers, NEW k, NEW list, ServedAt(list, m, k), m.backends[k] = Nil
  PROVE  Out(m, k)
BY ManagerFacts DEF Out, ServedAt

\* What is served as configured is so by less of the same.
LEMMA KeptServed ==
  ASSUME NEW m, NEW x, NEW k, NEW list, ServedAt(list, m, k), Kept(m, x, k)
  PROVE  ServedAt(list, x, k)
BY DEF Kept, ServedAt

\* Keeping what there is of a name composes over two changes.
LEMMA KeptTwice ==
  ASSUME NEW m, NEW x, NEW y, NEW k, Kept(m, x, k), Kept(x, y, k)
  PROVE  Kept(m, y, k)
BY DEF Kept

\* A list that carries the name over serves it with the same manager.
LEMMA CarriesServed ==
  ASSUME NEW m, NEW k, NEW list, NEW new, ServedAt(list, m, k), Carries(list, new, k)
  PROVE  ServedAt(new, m, k)
BY DEF Carries, ServedAt

\* unload_backend
LEMMA UnloadFacts ==
  ASSUME NEW m \in Managers, NEW n \in Name, NEW x, x = UnloadBackend(m, n)
  PROVE  /\ x \in Managers
         /\ x.backends[n] = Nil
         /\ \A k \in Name : k # n => Kept(m, x, k)
         /\ \A list : ServedAt(list, m, n) => Out(x, n)
<1>1. /\ x.backends = [m.backends EXCEPT ![n] = Nil]
      /\ x.active = m.active \ {m.backends[n]}
      /\ x.made = m.made
      /\ x = [backends |-> x.backends, active |-> x.active, made |-> x.made]
  BY DEF UnloadBackend
<1>2. /\ m.backends \in [Name -> Adapter \cup {Nil}]
      /\ m.active \subseteq Adapter /\ m.made \in Nat
  BY ManagerFacts
<1>3. x \in Managers
  <2>1. x.backends \in [Name -> Adapter \cup {Nil}]
    BY <1>1, <1>2
  <2>2. x.active \subseteq Adapter /\ x.made \in Nat
    BY <1>1, <1>2
  <2> QED BY <1>1, <2>1, <2>2 DEF Managers
<1>4. x.backends[n] = Nil /\ \A k \in Name : k # n => x.backends[k] = m.backends[k]
  BY <1>1, <1>2
<1> QED BY <1>1, <1>3, <1>4 DEF Kept, Out, ServedAt

\* load_backend, once its checks are passed
LEMMA LoadFacts ==
  ASSUME NEW list \in Seq(Entry), NEW m \in Managers, NEW n \in Name, Has(list, n),
         NEW x, x = LoadBackend(list, m, n)
  PROVE  /\ x \in Managers
         /\ x.backends[n] # Nil
         /\ \A k \in Name : k # n => Kept(m, x, k)
         /\ (At(list, n).enable /\ Out(m, n)) => ServedAt(list, x, n)
<1> DEFINE a == [id |-> m.made + 1, name |-> n, conf |-> At(list, n).conf]
<1>1. /\ m.backends \in [Name -> Adapter \cup {Nil}]
      /\ m.active \subseteq Adapter /\ m.made \in Nat
  BY ManagerFacts
<1>2. At(list, n).conf \in Conf
  BY AtFacts DEF Entry
<1>3. a \in Adapter /\ a.name = n /\ a.conf = At(list, n).conf
  BY <1>1, <1>2 DEF Adapter
<1>4. /\ x.backends = [m.backends EXCEPT ![n] = a]
      /\ x.active = m.active \cup {a}
      /\ x.made = m.made + 1
      /\ x = [backends |-> x.backends, active |-> x.active, made |-> x.made]
  BY DEF LoadBackend
<1> HIDE DEF a
<1>5. a # Nil
  BY <1>3, ProviderAssumption
<1>6. x \in Managers
  <2>1. x.backends \in [Name -> Adapter \cup {Nil}]
    BY <1>1, <1>3, <1>4
  <2>2. x.active \subseteq Adapter /\ x.made \in Nat
    BY <1>1, <1>3, <1>4
  <2> QED BY <1>4, <2>1, <2>2 DEF Managers
<1>7. x.backends[n] = a /\ \A k \in Name : k # n => x.backends[k] = m.backends[k]
  BY <1>1, <1>4
<1>8. \A k \in Name : k # n => Kept(m, x, k)
  BY <1>3, <1>4, <1>7 DEF Kept
<1>9. ASSUME At(list, n).enable, Out(m, n) PROVE ServedAt(list, x, n)
  BY <1>3, <1>4, <1>7, <1>9 DEF Out, ServedAt
<1> QED BY <1>5, <1>6, <1>7, <1>8, <1>9

\* load_backend
LEMMA LoadsFacts ==
  ASSUME NEW list \in Seq(Entry), NEW m \in Managers, NEW n \in Name,
         NEW r \in Loads(list, m, n)
  PROVE  /\ r.m \in Managers /\ r.ok \in BOOLEAN /\ r.bad \in 0..1
         /\ \A k \in Name : k # n => Kept(m, r.m, k)
         /\ Out(m, n) => ServedAt(list, r.m, n)
         /\ r.ok => Loaded(r.m, n)
         /\ ~r.ok => r.m = m
         /\ (Has(list, n) /\ At(list, n).enable) => r.ok \/ r.bad = 1
<1>1. \A k : Kept(m, m, k)
  BY DEF Kept
<1>2. CASE Has(list, n) /\ At(list, n).enable
  <2> DEFINE x == LoadBackend(list, m, n)
  <2>1. \/ r.m = x /\ r.ok = TRUE /\ r.bad = 0
        \/ r.m = m /\ r.ok = FALSE /\ r.bad = 1
    BY <1>2 DEF Loads, Outcome
  <2>2. /\ x \in Managers
        /\ x.backends[n] # Nil
        /\ \A k \in Name : k # n => Kept(m, x, k)
        /\ Out(m, n) => ServedAt(list, x, n)
    BY <1>2, LoadFacts
  <2> HIDE DEF x
  <2>3. CASE r.m = x /\ r.ok = TRUE /\ r.bad = 0
    <3>1. r.ok /\ r.ok \in BOOLEAN /\ r.bad \in 0..1
      <4>1. r.ok /\ r.ok \in BOOLEAN
        BY <2>3, Zenon
      <4>2. r.bad \in 0..1
        BY <2>3
      <4> QED BY <4>1, <4>2
    <3> QED BY <2>2, <2>3, <3>1 DEF Loaded
  <2>4. CASE r.m = m /\ r.ok = FALSE /\ r.bad = 1
    <3>1. ~r.ok /\ r.ok \in BOOLEAN /\ r.bad \in 0..1 /\ r.bad = 1
      <4>1. ~r.ok /\ r.ok \in BOOLEAN
        BY <2>4, Zenon
      <4>2. r.bad \in 0..1 /\ r.bad = 1
        BY <2>4
      <4> QED BY <4>1, <4>2
    <3> QED BY <1>1, <2>4, <3>1, OutServed
  <2> QED BY <2>1, <2>3, <2>4
<1>3. CASE ~(Has(list, n) /\ At(list, n).enable)
  <2>1. r.m = m /\ r.ok = FALSE /\ r.bad = 0
    BY <1>3 DEF Loads, Outcome
  <2>2. ~r.ok /\ r.ok \in BOOLEAN /\ r.bad \in 0..1
    <3>1. ~r.ok /\ r.ok \in BOOLEAN
      BY <2>1, Zenon
    <3>2. r.bad \in 0..1
      BY <2>1
    <3> QED BY <3>1, <3>2
  <2> QED BY <1>1, <1>3, <2>1, <2>2, OutServed
<1> QED BY <1>2, <1>3

\* reload_backend
LEMMA ReloadsFacts ==
  ASSUME NEW list \in Seq(Entry), NEW m \in Managers, NEW n \in Name,
         NEW r \in Reloads(list, m, n)
  PROVE  /\ r.m \in Managers /\ r.ok \in BOOLEAN /\ r.bad \in 0..1
         /\ \A k \in Name : k # n => Kept(m, r.m, k)
         /\ r.ok => Loaded(r.m, n)
         /\ ServedAt(list, m, n) =>
              /\ ServedAt(list, r.m, n)
              /\ Loaded(m, n) => Loaded(r.m, n) \/ r.bad = 1
<1>1. CASE Has(list, n) /\ Loaded(m, n)
  <2> DEFINE x == UnloadBackend(m, n)
  <2>1. r \in Loads(list, x, n)
    BY <1>1 DEF Reloads
  <2>2. /\ x \in Managers
        /\ \A k \in Name : k # n => Kept(m, x, k)
        /\ \A l : ServedAt(l, m, n) => Out(x, n)
    BY UnloadFacts
  <2> HIDE DEF x
  <2>3. /\ r.m \in Managers /\ r.ok \in BOOLEAN /\ r.bad \in 0..1
        /\ \A k \in Name : k # n => Kept(x, r.m, k)
        /\ Out(x, n) => ServedAt(list, r.m, n)
        /\ r.ok => Loaded(r.m, n)
        /\ (Has(list, n) /\ At(list, n).enable) => r.ok \/ r.bad = 1
    BY <2>1, <2>2, LoadsFacts
  <2>4. \A k \in Name : k # n => Kept(m, r.m, k)
    BY <2>2, <2>3, KeptTwice
  <2>5. ServedAt(list, m, n) => ServedAt(list, r.m, n)
    BY <2>2, <2>3
  <2>6. ServedAt(list, m, n) => At(list, n).enable
    BY <1>1 DEF ServedAt, Loaded
  <2> QED BY <1>1, <2>3, <2>4, <2>5, <2>6
<1>2. CASE ~(Has(list, n) /\ Loaded(m, n))
  <2>1. r.m = m /\ r.ok = FALSE /\ r.bad = 0
    BY <1>2 DEF Reloads, Outcome
  <2>2. \A k : Kept(m, m, k)
    BY DEF Kept
  <2>3. ServedAt(list, m, n) => ~Loaded(m, n)
    BY <1>2 DEF ServedAt, Loaded
  <2>4. ~r.ok /\ r.ok \in BOOLEAN /\ r.bad \in 0..1
    <3>1. ~r.ok /\ r.ok \in BOOLEAN
      BY <2>1, Zenon
    <3>2. r.bad \in 0..1
      BY <2>1
    <3> QED BY <3>1, <3>2
  <2> QED BY <2>1, <2>2, <2>3, <2>4
<1> QED BY <1>1, <1>2

\* The second attempt after a reload that failed.
LEMMA RecoversFacts ==
  ASSUME NEW list \in Seq(Entry), NEW m \in Managers, NEW n \in Name,
         NEW r \in Recovers(list, m, n)
  PROVE  /\ r.m \in Managers /\ r.ok \in BOOLEAN /\ r.bad \in 0..1
         /\ \A k \in Name : k # n => Kept(m, r.m, k)
         /\ ServedAt(list, m, n) =>
              /\ ServedAt(list, r.m, n)
              /\ Loaded(m, n) => Loaded(r.m, n) \/ r.bad = 1
<1> DEFINE x == IF Has(list, n) /\ Loaded(m, n) THEN UnloadBackend(m, n) ELSE m
<1>1. r \in Loads(list, x, n)
  BY DEF Recovers
<1>2. /\ x \in Managers
      /\ \A k \in Name : k # n => Kept(m, x, k)
      /\ ServedAt(list, m, n) => Out(x, n)
  <2>1. CASE Has(list, n) /\ Loaded(m, n)
    <3>1. x = UnloadBackend(m, n)
      BY <2>1
    <3> HIDE DEF x
    <3> QED BY <3>1, UnloadFacts
  <2>2. CASE ~(Has(list, n) /\ Loaded(m, n))
    <3>1. x = m
      BY <2>2
    <3>2. ServedAt(list, m, n) => m.backends[n] = Nil
      BY <2>2 DEF ServedAt, Loaded
    <3>3. \A k : Kept(m, m, k)
      BY DEF Kept
    <3> HIDE DEF x
    <3> QED BY <3>1, <3>2, <3>3, ServedOut
  <2> QED BY <2>1, <2>2
<1> HIDE DEF x
<1>3. /\ r.m \in Managers /\ r.ok \in BOOLEAN /\ r.bad \in 0..1
      /\ \A k \in Name : k # n => Kept(x, r.m, k)
      /\ Out(x, n) => ServedAt(list, r.m, n)
      /\ r.ok => Loaded(r.m, n)
      /\ (Has(list, n) /\ At(list, n).enable) => r.ok \/ r.bad = 1
  BY <1>1, <1>2, LoadsFacts
<1>4. \A k \in Name : k # n => Kept(m, r.m, k)
  BY <1>2, <1>3, KeptTwice
<1>5. (ServedAt(list, m, n) /\ Loaded(m, n)) => Has(list, n) /\ At(list, n).enable
  BY DEF ServedAt, Loaded
<1> QED BY <1>2, <1>3, <1>4, <1>5

\* load_config
LEMMA LoadAllFacts ==
  ASSUME NEW list \in Seq(Entry), NEW m \in Managers, NEW bad,
         NEW x, x = LoadAll(list, m, bad)
  PROVE  /\ x \in Managers
         /\ \A k \in Name : (k \notin Twice(list) /\ Out(m, k)) => ServedAt(list, x, k)
         /\ \A k \in Name :
              (Has(list, k) /\ At(list, k).enable /\ Index(list, k) \notin bad)
                => Loaded(x, k)
<1> DEFINE good == {i \in DOMAIN list : /\ list[i].enable
                                        /\ At(list, list[i].name).enable
                                        /\ i \notin bad}
           Of(n) == {i \in good : list[i].name = n}
           Loading(i) == [id |-> m.made + Cardinality({j \in good : j <= i}),
                          name |-> list[i].name, conf |-> At(list, list[i].name).conf]
<1>1. /\ x.backends = [n \in Name |-> IF Of(n) = {} THEN m.backends[n]
                                      ELSE Loading(Max(Of(n)))]
      /\ x.active = m.active \cup {Loading(i) : i \in good}
      /\ x.made = m.made + Cardinality(good)
      /\ x = [backends |-> x.backends, active |-> x.active, made |-> x.made]
  BY DEF LoadAll
<1>2. /\ m.backends \in [Name -> Adapter \cup {Nil}]
      /\ m.active \subseteq Adapter /\ m.made \in Nat
  BY ManagerFacts
<1>3. DOMAIN list = 1..Len(list) /\ Len(list) \in Nat
  BY LenProperties
<1>4. \A S \in SUBSET good : Cardinality(S) \in Nat
  <2>1. IsFiniteSet(1..Len(list))
    BY <1>3, FS_Interval
  <2> QED BY <1>3, <2>1, FS_Subset, FS_CardinalityType
<1>5. ASSUME NEW i \in good
      PROVE  /\ Loading(i) \in Adapter /\ Loading(i).name = list[i].name
             /\ Loading(i).conf = At(list, list[i].name).conf
             /\ At(list, list[i].name).enable /\ Has(list, list[i].name)
  <2>1. list[i].name \in Name
    BY EntryFacts
  <2>2. Has(list, list[i].name)
    BY IndexFacts
  <2>3. At(list, list[i].name).conf \in Conf
    BY <2>2, AtFacts DEF Entry
  <2>4. Cardinality({j \in good : j <= i}) \in Nat
    BY <1>4
  <2>5. m.made + Cardinality({j \in good : j <= i}) \in Nat
    BY <1>2, <2>4
  <2> QED BY <2>1, <2>2, <2>3, <2>5 DEF Adapter
<1>6. \A n : Of(n) # {} => Max(Of(n)) \in Of(n)
  <2> SUFFICES ASSUME NEW n, Of(n) # {} PROVE Max(Of(n)) \in Of(n)
    OBVIOUS
  <2>1. Of(n) \subseteq 1..Len(list)
    BY <1>3
  <2> HIDE DEF Of
  <2> QED BY <1>3, <2>1, MaxFacts
<1>7. Cardinality(good) \in Nat
  BY <1>4
<1>8. \A n : \A i \in Of(n) : i \in good /\ list[i].name = n
  OBVIOUS
<1> HIDE DEF good, Loading
<1>9. x \in Managers
  <2>1. ASSUME NEW n \in Name
        PROVE  (IF Of(n) = {} THEN m.backends[n] ELSE Loading(Max(Of(n)))) \in Adapter \cup {Nil}
    <3> HIDE DEF Of
    <3> QED BY <1>2, <1>5, <1>6, <1>8
  <2>2. x.backends \in [Name -> Adapter \cup {Nil}]
    <3> HIDE DEF Of
    <3> QED BY <1>1, <2>1
  <2>3. x.active \subseteq Adapter /\ x.made \in Nat
    BY <1>1, <1>2, <1>5, <1>7
  <2> QED BY <1>1, <2>2, <2>3 DEF Managers
<1>10. ASSUME NEW k \in Name, k \notin Twice(list), Out(m, k) PROVE ServedAt(list, x, k)
  <2>1. CASE Of(k) = {}
    <3>1. x.backends[k] = Nil
      BY <1>1, <1>10, <2>1 DEF Out
    <3>2. \A i \in good : Loading(i).name # k
      BY <1>5, <2>1
    <3> QED BY <1>1, <1>10, <3>1, <3>2 DEF Out, ServedAt
  <2>2. CASE Of(k) # {}
    <3> DEFINE i == Max(Of(k))
    <3>1. i \in good /\ list[i].name = k /\ x.backends[k] = Loading(i)
      <4> HIDE DEF Of
      <4> QED BY <1>1, <1>6, <1>8, <2>2
    <3> HIDE DEF i
    <3>2. \A j \in good : list[j].name = k => j = i
      BY <1>10, <3>1 DEF Twice, good
    <3>3. \A a \in x.active : a.name = k => a = Loading(i)
      BY <1>1, <1>5, <1>10, <3>2 DEF Out
    <3> QED BY <1>5, <3>1, <3>3 DEF ServedAt
  <2> QED BY <2>1, <2>2
<1>11. ASSUME NEW k \in Name, Has(list, k), At(list, k).enable, Index(list, k) \notin bad
       PROVE  Loaded(x, k)
  <2>1. Index(list, k) \in DOMAIN list /\ list[Index(list, k)].name = k
    BY <1>11, IndexFacts
  <2>2. Index(list, k) \in Of(k)
    BY <1>11, <2>1 DEF good, At
  <2>3. Max(Of(k)) \in good /\ x.backends[k] = Loading(Max(Of(k)))
    <3> HIDE DEF Of
    <3> QED BY <1>1, <1>6, <1>8, <2>2
  <2>4. x.backends[k] \in Adapter
    BY <1>5, <2>3
  <2> QED BY <2>4, ProviderAssumption DEF Loaded
<1> QED BY <1>9, <1>10, <1>11

\* restore_backends unloads everything that is in the list.
LEMMA UnloadAllFacts ==
  ASSUME manager \in Managers
  PROVE  /\ UnloadAll \in Managers
         /\ \A k \in Name : ServedAt(config, manager, k) => Out(UnloadAll, k)
<1> DEFINE gone == {n \in Name : Has(config, n)}
           x == UnloadAll
<1>1. /\ x.backends = [n \in Name |-> IF n \in gone THEN Nil ELSE manager.backends[n]]
      /\ x.active = manager.active \ {manager.backends[n] : n \in gone}
      /\ x.made = manager.made
      /\ x = [backends |-> x.backends, active |-> x.active, made |-> x.made]
  BY DEF UnloadAll
<1>2. /\ manager.backends \in [Name -> Adapter \cup {Nil}]
      /\ manager.active \subseteq Adapter /\ manager.made \in Nat
      /\ \A a \in manager.active : a # Nil /\ a.name \in Name
  BY ManagerFacts
<1> HIDE DEF x
<1>3. x \in Managers
  <2>1. x.backends \in [Name -> Adapter \cup {Nil}]
    BY <1>1, <1>2
  <2>2. x.active \subseteq Adapter /\ x.made \in Nat
    BY <1>1, <1>2
  <2> QED BY <1>1, <2>1, <2>2 DEF Managers
<1>4. ASSUME NEW k \in Name, ServedAt(config, manager, k) PROVE Out(x, k)
  <2>1. manager.backends[k] # Nil => k \in gone
    BY <1>4 DEF ServedAt
  <2>2. x.backends[k] = Nil
    BY <1>1, <2>1
  <2>3. ASSUME NEW a \in x.active, a.name = k PROVE FALSE
    <3>1. a \in manager.active /\ manager.backends[k] = a /\ a # Nil
      BY <1>1, <1>2, <1>4, <2>3 DEF ServedAt
    <3>2. k \in gone
      BY <2>1, <3>1
    <3> QED BY <1>1, <2>3, <3>1, <3>2
  <2> QED BY <2>2, <2>3 DEF Out
<1> QED BY <1>3, <1>4 DEF x

\* The entry of the name n is replaced by any other.
LEMMA PutAnyFacts ==
  ASSUME NEW list \in Seq(Entry), NEW n, Has(list, n), NEW e \in Entry,
         NEW new, new = Put(list, n, e)
  PROVE  /\ new \in Seq(Entry)
         /\ Twice(new) \subseteq Twice(list) \cup {e.name}
         /\ \A k : (k \notin Twice(list) /\ k # n /\ k # e.name) => Carries(list, new, k)
         /\ (n \notin Twice(list) /\ e.name # n) => ~Has(new, n)
<1> DEFINE i == Index(list, n)
<1>1. i \in DOMAIN list /\ list[i].name = n /\ new = [list EXCEPT ![i] = e]
  BY IndexFacts DEF Put
<1>2. /\ new \in Seq(Entry) /\ DOMAIN new = DOMAIN list
      /\ new[i] = e /\ \A j \in DOMAIN list : j # i => new[j] = list[j]
  BY <1>1, ReplaceFacts
<1> HIDE DEF i
<1>3. Twice(new) \subseteq Twice(list) \cup {e.name}
  BY <1>2 DEF Twice
<1>4. ASSUME NEW k, k \notin Twice(list), k # n, k # e.name PROVE Carries(list, new, k)
  <2>1. \A j \in DOMAIN list : list[j].name = k => new[j] = list[j]
    BY <1>1, <1>2, <1>4
  <2>2. k \notin Twice(new)
    BY <1>3, <1>4
  <2> QED BY <1>2, <2>1, <2>2, CarriesBy
<1>5. ASSUME n \notin Twice(list), e.name # n PROVE ~Has(new, n)
  <2>1. n \in Name
    BY <1>1, EntryFacts
  <2>2. \A j \in DOMAIN list : list[j].name = n => j = i
    BY <1>1, <1>5, <2>1 DEF Twice
  <2>3. \A j \in DOMAIN new : new[j].name # n
    BY <1>2, <1>5, <2>2
  <2> QED BY <1>2, <2>3, IndexFacts
<1> QED BY <1>2, <1>3, <1>4, <1>5

\* Other models in an entry, or no such entry.
LEMMA WithFacts ==
  ASSUME NEW list \in Seq(Entry), NEW n, NEW models \in Catalogue,
         NEW new, new = With(list, n, models)
  PROVE  /\ new \in Seq(Entry)
         /\ Twice(new) = Twice(list)
         /\ \A k : /\ Carries(list, new, k)
                   /\ Carries(new, list, k)
         /\ DOMAIN new = DOMAIN list
         /\ \A i \in DOMAIN list : \/ new[i] = list[i]
                                   \/ /\ Has(list, n) /\ i = Index(list, n)
                                      /\ new[i].models = models
                                      /\ new[i].conf = list[i].conf
                                      /\ new[i].name = n
         /\ \A k : Has(new, k) <=> Has(list, k)
<1> DEFINE i == Index(list, n)
           e == [At(list, n) EXCEPT !.models = models]
<1>1. new = [list EXCEPT ![i] = e]
  BY Zenon DEF With, Put
<1>2. CASE Has(list, n)
  <2>1. i \in DOMAIN list /\ At(list, n) = list[i] /\ list[i] \in Entry /\ list[i].name = n
    BY <1>2, IndexFacts, EntryFacts DEF At
  <2>2. /\ e \in Entry /\ e.name = list[i].name /\ e.enable = list[i].enable
        /\ e.conf = list[i].conf /\ e.models = models
    BY <2>1 DEF Entry
  <2> HIDE DEF i, e
  <2>3. /\ new \in Seq(Entry) /\ DOMAIN new = DOMAIN list
        /\ new[i] = e /\ \A j \in DOMAIN list : j # i => new[j] = list[j]
    BY <1>1, <2>1, <2>2, ReplaceFacts
  <2>4. /\ Twice(new) = Twice(list)
        /\ \A k : /\ Carries(list, new, k)
                  /\ Carries(new, list, k)
    <3>1. \A j \in DOMAIN list : /\ new[j].name = list[j].name
                                 /\ new[j].enable = list[j].enable
                                 /\ new[j].conf = list[j].conf
      BY <2>1, <2>2, <2>3
    <3> QED BY <2>3, <3>1, TouchFacts
  <2>5. \A k : Has(new, k) <=> Has(list, k)
    BY <2>4 DEF Carries
  <2> QED BY <1>2, <2>1, <2>2, <2>3, <2>4, <2>5 DEF i
<1>3. CASE ~Has(list, n)
  <2>1. i \notin DOMAIN list
    BY <1>3, IndexFacts
  <2> HIDE DEF i, e
  <2>2. new = list
    <3>1. DOMAIN list = 1..Len(list) /\ list \in [1..Len(list) -> Entry]
      BY LenProperties
    <3>2. [list EXCEPT ![i] = e] = list
      BY <2>1, <3>1
    <3> QED BY <1>1, <3>2
  <2>3. \A k : Carries(list, list, k)
    BY DEF Carries
  <2> QED BY <2>2, <2>3
<1> QED BY <1>2, <1>3

\* What With stored is taken back.
LEMMA WithBack ==
  ASSUME NEW list \in Seq(Entry), NEW n, NEW models \in Catalogue, Has(list, n)
  PROVE  With(With(list, n, models), n, At(list, n).models) = list
<1> DEFINE new == With(list, n, models)
           i == Index(list, n)
           e == [At(list, n) EXCEPT !.models = models]
           f == [At(new, n) EXCEPT !.models = At(list, n).models]
           last == [new EXCEPT ![i] = f]
<1>1. i \in DOMAIN list /\ At(list, n) = list[i] /\ list[i] \in Entry /\ list[i].name = n
  BY IndexFacts, EntryFacts DEF At
<1>2. new = [list EXCEPT ![i] = e]
  BY Zenon DEF With, Put
<1>3. e \in Entry /\ e.name = n
  BY <1>1 DEF Entry
<1> HIDE DEF e
<1>4. /\ new \in Seq(Entry) /\ DOMAIN new = DOMAIN list
      /\ new[i] = e /\ \A j \in DOMAIN list : j # i => new[j] = list[j]
  <2> HIDE DEF new, i
  <2> QED BY <1>1, <1>2, <1>3, ReplaceFacts
<1>5. Index(new, n) = i
  <2>1. \A j \in DOMAIN list : new[j].name = list[j].name
    BY <1>1, <1>3, <1>4
  <2> QED BY <1>4, <2>1, SameNames
<1>6. At(new, n) = e
  <2> HIDE DEF new, i
  <2> QED BY <1>4, <1>5 DEF At
<1>7. f = list[i]
  BY <1>1, <1>6 DEF e, Entry
<1>8. With(new, n, At(list, n).models) = last
  BY <1>5, Zenon DEF With, Put
<1> HIDE DEF new, i, f
<1>9. DOMAIN last = DOMAIN list /\ \A j \in DOMAIN list : last[j] = list[j]
  BY <1>1, <1>4, <1>7
<1>10. last \in Seq(Entry)
  BY <1>1, <1>4, <1>7, ReplaceFacts
<1>11. last = list
  <2> HIDE DEF last
  <2>1. Len(last) = Len(list)
    BY <1>9, <1>10, LenProperties
  <2>2. \A j \in 1..Len(last) : last[j] = list[j]
    BY <1>9, <1>10, LenProperties
  <2> QED BY <1>10, <2>1, <2>2, SeqEqual
<1> QED BY <1>8, <1>11 DEF new

\* A name without adapters gets none by keeping what there is.
LEMMA KeptOut ==
  ASSUME NEW m, NEW x, NEW k, Kept(m, x, k), Out(m, k)
  PROVE  Out(x, k)
BY DEF Kept, Out

\* A load that is only tried under a condition.
LEMMA MaybeLoads ==
  ASSUME NEW list \in Seq(Entry), NEW m \in Managers, NEW n \in Name, NEW c \in BOOLEAN,
         NEW r \in IF c THEN Loads(list, m, n) ELSE {Outcome(m, TRUE, 0)}
  PROVE  /\ r.m \in Managers /\ r.ok \in BOOLEAN /\ r.bad \in 0..1
         /\ \A k \in Name : k # n => Kept(m, r.m, k)
         /\ Out(m, n) => ServedAt(list, r.m, n)
         /\ (c /\ r.ok) => Loaded(r.m, n)
         /\ (c /\ Has(list, n) /\ At(list, n).enable) => r.ok \/ r.bad = 1
<1>1. CASE c
  <2>1. r \in Loads(list, m, n)
    BY <1>1
  <2> QED BY <2>1, LoadsFacts
<1>2. CASE ~c
  <2>1. r.m = m /\ r.ok = TRUE /\ r.bad = 0
    BY <1>2 DEF Outcome
  <2>2. r.ok \in BOOLEAN
    BY <2>1, Zenon
  <2>3. \A k : Kept(m, m, k)
    BY DEF Kept
  <2>4. r.bad \in 0..1 /\ r.m = m
    BY <2>1
  <2>5. Out(m, n) => ServedAt(list, m, n)
    BY OutServed
  <2> QED BY <1>2, <2>2, <2>3, <2>4, <2>5
<1> QED BY <1>1, <1>2

-----------------------------------------------------------------------------
(* The list and the manager, step by step                                  *)

\* A name goes on being served, or a load failed, or the list is not saved.
Stays(k) ==
  (/\ Loaded(manager, k) /\ Has(config, k) /\ Has(config', k)
   /\ Fingerprint(At(config', k)) = Fingerprint(At(config, k)))
  => Loaded(manager', k) \/ badLoads' > badLoads \/ dirty'

\* StaysLoaded, name by name.
LEMMA StaysBy ==
  ASSUME \A k \in Name \ (doubled \cup doubled') : Stays(k)
  PROVE  StaysStep
BY DEF Stays, StaysStep

\* What the invariant says of a name that stands for one configuration.
LEMMA ServedNow ==
  ASSUME ListInv, NEW k \in Name, k \notin doubled
  PROVE  /\ ServedAt(config, manager, k) /\ k \notin Twice(config)
         /\ Loaded(manager, k) => Has(config, k) /\ At(config, k).enable
         /\ ~Loaded(manager, k) => Out(manager, k)
<1>1. ServedAt(config, manager, k) /\ k \notin Twice(config)
  BY DEF ListInv, Served
<1>2. manager \in Managers
  BY DEF ListInv
<1>3. ~Loaded(manager, k) => Out(manager, k)
  BY <1>1, <1>2, ServedOut DEF Loaded
<1>4. Loaded(manager, k) => Has(config, k) /\ At(config, k).enable
  BY <1>1 DEF ServedAt, Loaded
<1> QED BY <1>1, <1>3, <1>4

\* A name that keeps its adapter stays in service.
LEMMA KeptStays ==
  ASSUME NEW k, Kept(manager, manager', k)
  PROVE  Stays(k)
BY DEF Kept, Stays, Loaded

\* Nothing happens to the manager, and the list is touched at most.
LEMMA TouchStep ==
  ASSUME ListInv, manager' = manager, doubled' = doubled,
         config' \in Seq(Entry), Twice(config') = Twice(config),
         \A k : Carries(config, config', k)
  PROVE  ListInv' /\ StaysStep
<1>1. ASSUME NEW k \in Name, k \notin doubled
      PROVE  ServedAt(config', manager', k)
  BY <1>1, ServedNow, CarriesServed
<1>2. ListInv'
  BY <1>1 DEF ListInv, Served
<1>3. \A k : Stays(k)
  BY DEF Stays
<1> QED BY <1>2, <1>3, StaysBy

\* Neither the list nor the manager changes.
LEMMA SameStep ==
  ASSUME ListInv, manager' = manager, doubled' = doubled, config' = config
  PROVE  ListInv' /\ StaysStep
<1>1. ListInv'
  BY DEF ListInv, Served
<1>2. \A k : Stays(k)
  BY DEF Stays
<1> QED BY <1>1, <1>2, StaysBy

\* create_backend: the name is new, so at most it is loaded.
LEMMA CreateList ==
  ASSUME ListInv, NEW e \in Entry, CreateBackend(e)
  PROVE  ListInv' /\ StaysStep
<1> DEFINE new == Append(config, e)
<1>1. /\ ~Has(config, e.name) /\ config' = new /\ doubled' = doubled
      /\ config \in Seq(Entry) /\ manager \in Managers /\ Twice(config) \subseteq doubled
      /\ e.name \in Name /\ e.enable \in BOOLEAN
  BY DEF CreateBackend, ListInv, Entry
<1>2. /\ new \in Seq(Entry)
      /\ Twice(new) \subseteq Twice(config)
      /\ \A k : k \notin Twice(config) => Carries(config, new, k)
  BY <1>1, AppendFacts
<1> HIDE DEF new
<1>3. PICK r \in IF e.enable THEN Loads(new, manager, e.name) ELSE {Outcome(manager, TRUE, 0)} :
        manager' = r.m
  BY <1>1 DEF CreateBackend
<1>4. /\ r.m \in Managers
      /\ \A k \in Name : k # e.name => Kept(manager, r.m, k)
      /\ Out(manager, e.name) => ServedAt(new, r.m, e.name)
  BY <1>1, <1>2, <1>3, MaybeLoads
<1>5. ASSUME NEW k \in Name, k \notin doubled PROVE ServedAt(new, r.m, k)
  <2>1. CASE k = e.name
    BY <1>1, <1>4, <1>5, <2>1, ServedNow
  <2>2. CASE k # e.name
    BY <1>2, <1>4, <1>5, <2>2, ServedNow, KeptServed, CarriesServed
  <2> QED BY <2>1, <2>2
<1>6. ListInv'
  BY <1>1, <1>2, <1>3, <1>4, <1>5 DEF ListInv, Served
<1>7. ASSUME NEW k \in Name PROVE Stays(k)
  <2>1. CASE k = e.name
    BY <1>1, <2>1 DEF Stays
  <2>2. CASE k # e.name
    BY <1>3, <1>4, <2>2, KeptStays
  <2> QED BY <2>1, <2>2
<1> QED BY <1>6, <1>7, StaysBy

\* delete_backend: the entry goes, and its adapter with it.
LEMMA DeleteList ==
  ASSUME ListInv, NEW n \in Name, DeleteBackend(n)
  PROVE  ListInv' /\ StaysStep
<1> DEFINE new == RemoveAt(config, Index(config, n))
<1>1. /\ Has(config, n) /\ config' = new /\ doubled' = doubled
      /\ config \in Seq(Entry) /\ manager \in Managers /\ Twice(config) \subseteq doubled
      /\ manager' = IF At(config, n).enable THEN UnloadBackend(manager, n) ELSE manager
  BY DEF DeleteBackend, ListInv
<1>2. /\ new \in Seq(Entry)
      /\ Twice(new) \subseteq Twice(config)
      /\ \A k : (k \notin Twice(config) /\ k # n) => Carries(config, new, k)
      /\ n \notin Twice(config) => ~Has(new, n)
  BY <1>1, RemoveFacts
<1> HIDE DEF new
<1>3. /\ manager' \in Managers
      /\ \A k \in Name : k # n => Kept(manager, manager', k)
      /\ n \notin doubled => Out(manager', n)
  <2>1. CASE At(config, n).enable
    <3>1. manager' = UnloadBackend(manager, n)
      BY <1>1, <2>1
    <3>2. /\ UnloadBackend(manager, n) \in Managers
          /\ \A k \in Name : k # n => Kept(manager, UnloadBackend(manager, n), k)
          /\ \A list : ServedAt(list, manager, n) => Out(UnloadBackend(manager, n), n)
      BY <1>1, UnloadFacts
    <3>3. n \notin doubled => ServedAt(config, manager, n)
      BY ServedNow
    <3> QED BY <3>1, <3>2, <3>3
  <2>2. CASE ~At(config, n).enable
    <3>1. manager' = manager
      BY <1>1, <2>2
    <3>2. n \notin doubled => Out(manager, n)
      BY <2>2, ServedNow
    <3>3. \A k : Kept(manager, manager, k)
      BY DEF Kept
    <3> QED BY <1>1, <3>1, <3>2, <3>3
  <2> QED BY <2>1, <2>2
<1>4. ASSUME NEW k \in Name, k \notin doubled PROVE ServedAt(new, manager', k)
  <2>1. CASE k = n
    BY <1>3, <1>4, <2>1, OutServed
  <2>2. CASE k # n
    <3>1. ServedAt(config, manager', k)
      BY <1>3, <1>4, <2>2, ServedNow, KeptServed
    <3>2. Carries(config, new, k)
      BY <1>1, <1>2, <1>4, <2>2
    <3> QED BY <3>1, <3>2, CarriesServed
  <2> QED BY <2>1, <2>2
<1>5. ListInv'
  BY <1>1, <1>2, <1>3, <1>4 DEF ListInv, Served
<1>6. ASSUME NEW k \in Name, k \notin doubled PROVE Stays(k)
  <2>1. CASE k = n
    BY <1>1, <1>2, <1>6, <2>1 DEF Stays
  <2>2. CASE k # n
    BY <1>3, <2>2, KeptStays
  <2> QED BY <2>1, <2>2
<1> QED BY <1>5, <1>6, StaysBy

\* An entry is tuned.
LEMMA TunedFacts ==
  ASSUME config \in Seq(Entry), NEW i \in DOMAIN config
  PROVE  /\ Tuned(i) \in Seq(Entry)
         /\ Twice(Tuned(i)) = Twice(config)
         /\ \A k : Carries(config, Tuned(i), k)
<1> DEFINE e == [config[i] EXCEPT !.tune = 1 - config[i].tune]
<1>1. config[i] \in Entry /\ config[i].tune \in 0..1
  BY EntryFacts
<1>2. 1 - config[i].tune \in 0..1
  BY <1>1
<1>3. /\ e \in Entry /\ e.name = config[i].name
      /\ e.enable = config[i].enable /\ e.conf = config[i].conf
  <2> QED BY <1>1, <1>2 DEF Entry
<1>4. Tuned(i) = [config EXCEPT ![i] = e]
  BY Zenon DEF Tuned
<1> HIDE DEF e
<1>5. /\ Tuned(i) \in Seq(Entry) /\ DOMAIN Tuned(i) = DOMAIN config
      /\ Tuned(i)[i] = e /\ \A j \in DOMAIN config : j # i => Tuned(i)[j] = config[j]
  BY <1>3, <1>4, ReplaceFacts
<1>6. \A j \in DOMAIN config : /\ Tuned(i)[j].name = config[j].name
                              /\ Tuned(i)[j].enable = config[j].enable
                              /\ Tuned(i)[j].conf = config[j].conf
  BY <1>3, <1>5
<1> QED BY <1>5, <1>6, TouchFacts

\* update_auto_detect_schedule touches no field an adapter is made of.
LEMMA ScheduleList ==
  ASSUME ListInv, NEW n \in Name, UpdateSchedule(n)
  PROVE  ListInv' /\ StaysStep
<1>1. /\ config \in Seq(Entry) /\ Has(config, n)
      /\ config' = Tuned(Index(config, n)) /\ manager' = manager /\ doubled' = doubled
  BY DEF UpdateSchedule, ListInv
<1>2. Index(config, n) \in DOMAIN config
  BY <1>1, IndexFacts
<1> QED BY <1>1, <1>2, TunedFacts, TouchStep

\* The last entry of a name.
LEMMA LastFacts ==
  ASSUME NEW list \in Seq(Entry), NEW n, Has(list, n)
  PROVE  LastIndex(list, n) \in DOMAIN list
<1> DEFINE I == {i \in 1..Len(list) : list[i].name = n}
<1>1. DOMAIN list = 1..Len(list) /\ Len(list) \in Nat
  BY LenProperties
<1>2. I # {} /\ I \subseteq 1..Len(list)
  BY <1>1, IndexFacts
<1>3. LastIndex(list, n) = IF I # {} THEN Max(I) ELSE 0
  BY DEF LastIndex, SelectLastInSeq
<1>4. Max(I) \in 1..Len(list)
  <2> HIDE DEF I
  <2> QED BY <1>1, <1>2, MaxFacts
<1> HIDE DEF I
<1> QED BY <1>1, <1>2, <1>3, <1>4

\* reorder_failover_queue, likewise.
LEMMA ReorderList ==
  ASSUME ListInv, NEW n \in Name, ReorderQueue(n)
  PROVE  ListInv' /\ StaysStep
<1> DEFINE i == LastIndex(config, n)
<1>1. /\ config \in Seq(Entry) /\ Has(config, n)
      /\ config' = Tuned(i) \/ config' = config
      /\ manager' = manager /\ doubled' = doubled
  <2>1. config' = Tuned(i) \/ config' = config
    BY Zenon DEF ReorderQueue
  <2> HIDE DEF i
  <2> QED BY <2>1 DEF ReorderQueue, ListInv
<1>2. i \in DOMAIN config
  BY <1>1, LastFacts
<1> HIDE DEF i
<1>3. CASE config' = config
  BY <1>1, <1>3, SameStep
<1>4. CASE config' = Tuned(i)
  BY <1>1, <1>2, <1>4, TunedFacts, TouchStep
<1> QED BY <1>1, <1>3, <1>4

\* A save of other settings leaves the list alone.
LEMMA OtherList ==
  ASSUME ListInv, OtherSave
  PROVE  ListInv' /\ StaysStep
BY SameStep DEF OtherSave

\* What update_backend leaves of the old adapter before it loads the new one.
LEMMA UpdateUnloads ==
  ASSUME ListInv, NEW n \in Name,
         NEW x, x = IF At(config, n).enable /\ Loaded(manager, n)
                    THEN UnloadBackend(manager, n) ELSE manager
  PROVE  /\ x \in Managers
         /\ \A k \in Name : k # n => Kept(manager, x, k)
         /\ n \notin doubled => Out(x, n)
<1>1. manager \in Managers
  BY DEF ListInv
<1>2. CASE At(config, n).enable /\ Loaded(manager, n)
  <2>1. x = UnloadBackend(manager, n)
    BY <1>2
  <2>2. n \notin doubled => ServedAt(config, manager, n)
    BY ServedNow
  <2> QED BY <1>1, <2>1, <2>2, UnloadFacts
<1>3. CASE ~(At(config, n).enable /\ Loaded(manager, n))
  <2>1. x = manager
    BY <1>3
  <2>2. n \notin doubled => Out(manager, n)
    BY <1>3, ServedNow
  <2>3. \A k : Kept(manager, manager, k)
    BY DEF Kept
  <2> QED BY <1>1, <2>1, <2>2, <2>3
<1> QED BY <1>2, <1>3

\* The except block of update_backend.
LEMMA RolledBackFacts ==
  ASSUME ListInv, NEW n \in Name, Has(config, n), NEW e \in Entry, NEW x \in Managers,
         NEW b \in RolledBack(n, e, x)
  PROVE  /\ b.m \in Managers /\ b.bad \in 0..1
         /\ \A k \in Name : (k # n /\ k # e.name) => Kept(x, b.m, k)
         /\ \A list : (ServedAt(list, x, e.name) /\ e.name # n) => Out(b.m, e.name)
         /\ (IF e.name = n THEN \E list : ServedAt(list, x, n) ELSE Out(x, n)) =>
              /\ ServedAt(config, b.m, n)
              /\ (At(config, n).enable /\ Loaded(manager, n)) => Loaded(b.m, n) \/ b.bad = 1
<1> DEFINE y == IF Loaded(x, e.name) THEN UnloadBackend(x, e.name) ELSE x
           c == At(config, n).enable /\ Loaded(manager, n) /\ ~Loaded(y, n)
<1>1. b \in IF c THEN Loads(config, y, n) ELSE {Outcome(y, TRUE, 0)}
  BY DEF RolledBack
<1>2. e.name \in Name /\ config \in Seq(Entry)
  BY DEF ListInv, Entry
<1>3. /\ y \in Managers
      /\ \A k \in Name : k # e.name => Kept(x, y, k)
      /\ \A list : ServedAt(list, x, e.name) => Out(y, e.name)
  <2>1. CASE Loaded(x, e.name)
    <3>1. y = UnloadBackend(x, e.name)
      BY <2>1
    <3> HIDE DEF y
    <3> QED BY <1>2, <3>1, UnloadFacts
  <2>2. CASE ~Loaded(x, e.name)
    <3>1. y = x
      BY <2>2
    <3>2. \A k : Kept(x, x, k)
      BY DEF Kept
    <3> HIDE DEF y
    <3> QED BY <2>2, <3>1, <3>2, ServedOut DEF Loaded
  <2> QED BY <2>1, <2>2
<1> HIDE DEF y
<1>4. c \in BOOLEAN
  BY DEF c
<1>5. /\ b.m \in Managers /\ b.ok \in BOOLEAN /\ b.bad \in 0..1
      /\ \A k \in Name : k # n => Kept(y, b.m, k)
      /\ Out(y, n) => ServedAt(config, b.m, n)
      /\ (c /\ b.ok) => Loaded(b.m, n)
      /\ (c /\ Has(config, n) /\ At(config, n).enable) => b.ok \/ b.bad = 1
  <2> HIDE DEF c
  <2> QED BY <1>1, <1>2, <1>3, <1>4, MaybeLoads
<1>6. \A k \in Name : (k # n /\ k # e.name) => Kept(x, b.m, k)
  BY <1>3, <1>5, KeptTwice
<1>7. \A list : (ServedAt(list, x, e.name) /\ e.name # n) => Out(b.m, e.name)
  BY <1>2, <1>3, <1>5, KeptOut
<1>8. ASSUME IF e.name = n THEN \E list : ServedAt(list, x, n) ELSE Out(x, n)
      PROVE  Out(y, n)
  <2>1. CASE e.name = n
    BY <1>3, <1>8, <2>1
  <2>2. CASE e.name # n
    BY <1>3, <1>8, <2>2, KeptOut
  <2> QED BY <2>1, <2>2
<1>9. ASSUME Out(y, n), At(config, n).enable, Loaded(manager, n)
      PROVE  Loaded(b.m, n) \/ b.bad = 1
  <2>1. c
    BY <1>9 DEF Out, Loaded
  <2> HIDE DEF c
  <2> QED BY <1>5, <1>9, <2>1
<1> QED BY <1>5, <1>6, <1>7, <1>8, <1>9

\* The name of an update that succeeds.
LEMMA UpdateList ==
  ASSUME ListInv, badLoads \in Nat, NEW n \in Name, NEW sent \in Entry,
         NEW kept \in BOOLEAN, UpdateBackend(n, sent, kept)
  PROVE  ListInv' /\ StaysStep
<1> DEFINE old == At(config, n)
           e == IF kept THEN [sent EXCEPT !.models = old.models] ELSE sent
           new == Put(config, n, e)
           x == IF old.enable /\ Loaded(manager, n) THEN UnloadBackend(manager, n) ELSE manager
<1>1. /\ Has(config, n)
      /\ config \in Seq(Entry) /\ manager \in Managers /\ Twice(config) \subseteq doubled
      /\ doubled \subseteq Name
  BY DEF UpdateBackend, ListInv
<1>2. e \in Entry /\ e.name \in Name /\ e.enable \in BOOLEAN
  <2>1. old \in Entry
    BY <1>1, AtFacts
  <2>2. sent \in Entry /\ [sent EXCEPT !.models = old.models] \in Entry
    BY <2>1 DEF Entry
  <2>3. e \in Entry
    BY <2>2
  <2> HIDE DEF e
  <2> QED BY <2>3 DEF Entry
<1>3. doubled' = IF e.name # n /\ Has(config, e.name) THEN doubled \cup {e.name} ELSE doubled
  BY Zenon DEF UpdateBackend
<1>4. PICK r \in IF e.enable THEN Loads(new, x, e.name) ELSE {Outcome(x, TRUE, 0)} :
        \/ /\ r.ok
           /\ config' = new
           /\ manager' = r.m
        \/ /\ config' = config
           /\ \E b \in RolledBack(n, e, r.m) : manager' = b.m /\ FailsLoads(r.bad + b.bad)
  BY Zenon DEF UpdateBackend
<1>5. /\ x \in Managers
      /\ \A k \in Name : k # n => Kept(manager, x, k)
      /\ n \notin doubled => Out(x, n)
  <2>1. x = IF At(config, n).enable /\ Loaded(manager, n)
            THEN UnloadBackend(manager, n) ELSE manager
    BY Zenon
  <2> HIDE DEF x
  <2> QED BY <2>1, UpdateUnloads
<1> HIDE DEF e, x
<1>6. /\ new \in Seq(Entry)
      /\ Twice(new) \subseteq Twice(config) \cup {e.name}
      /\ \A k : (k \notin Twice(config) /\ k # n /\ k # e.name) => Carries(config, new, k)
      /\ (n \notin Twice(config) /\ e.name # n) => ~Has(new, n)
  BY <1>1, <1>2, PutAnyFacts
<1>7. e.name \notin doubled' =>
        /\ e.name = n \/ ~Has(config, e.name)
        /\ Twice(new) \subseteq Twice(config)
        /\ At(new, e.name) = e
  BY <1>1, <1>2, <1>3, PutFacts
<1> HIDE DEF new
<1>8. /\ r.m \in Managers /\ r.bad \in 0..1
      /\ \A k \in Name : k # e.name => Kept(x, r.m, k)
      /\ Out(x, e.name) => ServedAt(new, r.m, e.name)
      /\ (e.enable /\ r.ok) => Loaded(r.m, e.name)
  BY <1>2, <1>4, <1>5, <1>6, MaybeLoads
<1>9. doubled \subseteq doubled' /\ doubled' \subseteq Name /\ Twice(new) \subseteq doubled'
  BY <1>1, <1>2, <1>3, <1>6, <1>7
<1>10. e.name \notin doubled' => Out(x, e.name)
  <2>1. CASE e.name = n
    BY <1>5, <1>9, <2>1
  <2>2. CASE e.name # n /\ e.name \notin doubled'
    <3>1. Out(manager, e.name)
      BY <1>2, <1>7, <1>9, <2>2, ServedNow
    <3> QED BY <1>2, <1>5, <2>2, <3>1, KeptOut
  <2> QED BY <2>1, <2>2
<1>11. (n \notin doubled /\ n # e.name) => Out(r.m, n)
  BY <1>5, <1>8, KeptOut
<1>12. \A k \in Name : (k # n /\ k # e.name) => Kept(manager, r.m, k)
  BY <1>5, <1>8, KeptTwice
<1>13. CASE r.ok /\ config' = new /\ manager' = r.m
  <2>1. ASSUME NEW k \in Name, k \notin doubled' PROVE ServedAt(new, r.m, k)
    <3>1. CASE k = e.name
      BY <1>8, <1>10, <2>1, <3>1
    <3>2. CASE k = n /\ k # e.name
      BY <1>9, <1>11, <2>1, <3>2, OutServed
    <3>3. CASE k # n /\ k # e.name
      <4>1. ServedAt(config, r.m, k)
        BY <1>9, <1>12, <2>1, <3>3, ServedNow, KeptServed
      <4>2. Carries(config, new, k)
        BY <1>1, <1>6, <1>9, <2>1, <3>3
      <4> QED BY <4>1, <4>2, CarriesServed
    <3> QED BY <3>1, <3>2, <3>3
  <2>2. ListInv'
    BY <1>6, <1>8, <1>9, <1>13, <2>1 DEF ListInv, Served
  <2>3. ASSUME NEW k \in Name, k \notin doubled, k \notin doubled' PROVE Stays(k)
    <3>1. CASE k = e.name /\ k = n
      <4>1. CASE e.enable
        BY <1>8, <1>13, <3>1, <4>1 DEF Stays
      <4>2. CASE ~e.enable
        <5> SUFFICES ASSUME Loaded(manager, n), Fingerprint(At(config', n)) = Fingerprint(At(config, n))
                     PROVE  FALSE
          BY <3>1 DEF Stays
        <5>1. At(config, n).enable /\ At(config, n) \in Entry
          BY <1>1, <2>3, <3>1, ServedNow, AtFacts
        <5>2. Fingerprint(e) = Fingerprint(At(config, n))
          BY <1>7, <1>13, <2>3, <3>1
        <5>3. Fingerprint(e).enable = e.enable /\ Fingerprint(At(config, n)).enable = At(config, n).enable
          BY <1>2, <5>1 DEF Fingerprint, Entry
        <5> QED BY <4>2, <5>1, <5>2, <5>3
      <4> QED BY <4>1, <4>2
    <3>2. CASE k = e.name /\ k # n
      BY <1>7, <2>3, <3>2 DEF Stays
    <3>3. CASE k = n /\ k # e.name
      BY <1>1, <1>6, <1>13, <2>3, <3>3 DEF Stays
    <3>4. CASE k # n /\ k # e.name
      BY <1>12, <1>13, <3>4, KeptStays
    <3> QED BY <3>1, <3>2, <3>3, <3>4
  <2> QED BY <2>2, <2>3, StaysBy
<1>14. ASSUME config' = config,
              NEW b \in RolledBack(n, e, r.m), manager' = b.m, FailsLoads(r.bad + b.bad)
       PROVE  ListInv' /\ StaysStep
  <2>1. /\ b.m \in Managers /\ b.bad \in 0..1
        /\ \A k \in Name : (k # n /\ k # e.name) => Kept(r.m, b.m, k)
        /\ \A list : (ServedAt(list, r.m, e.name) /\ e.name # n) => Out(b.m, e.name)
        /\ (IF e.name = n THEN \E list : ServedAt(list, r.m, n) ELSE Out(r.m, n)) =>
             /\ ServedAt(config, b.m, n)
             /\ (At(config, n).enable /\ Loaded(manager, n)) => Loaded(b.m, n) \/ b.bad = 1
    BY <1>1, <1>2, <1>8, <1>14, RolledBackFacts
  <2>2. (n \notin doubled /\ n \notin doubled') =>
          /\ ServedAt(config, b.m, n)
          /\ (At(config, n).enable /\ Loaded(manager, n)) => Loaded(b.m, n) \/ b.bad = 1
    <3>1. CASE e.name = n
      BY <1>8, <1>10, <2>1, <3>1
    <3>2. CASE e.name # n
      BY <1>11, <2>1, <3>2
    <3> QED BY <3>1, <3>2
  <2>3. ASSUME NEW k \in Name, k \notin doubled' PROVE ServedAt(config, b.m, k)
    <3>1. CASE k = n
      BY <1>9, <2>2, <2>3, <3>1
    <3>2. CASE k # n /\ k = e.name
      BY <1>8, <1>10, <2>1, <2>3, <3>2, OutServed
    <3>3. CASE k # n /\ k # e.name
      BY <1>9, <1>12, <2>1, <2>3, <3>3, ServedNow, KeptTwice, KeptServed
    <3> QED BY <3>1, <3>2, <3>3
  <2>4. ListInv'
    BY <1>1, <1>9, <1>14, <2>1, <2>3 DEF ListInv, Served
  <2>5. ASSUME NEW k \in Name, k \notin doubled, k \notin doubled' PROVE Stays(k)
    <3>1. CASE k = n
      <4>1. Loaded(manager, n) => At(config, n).enable
        BY <2>5, <3>1, ServedNow
      <4>2. b.bad = 1 => badLoads' > badLoads
        BY <1>8, <1>14, <2>1 DEF FailsLoads
      <4> QED BY <1>14, <2>2, <2>5, <3>1, <4>1, <4>2 DEF Stays
    <3>2. CASE k # n /\ k = e.name
      BY <1>7, <2>5, <3>2 DEF Stays
    <3>3. CASE k # n /\ k # e.name
      <4>1. Kept(manager, b.m, k)
        BY <1>12, <2>1, <3>3, KeptTwice
      <4> QED BY <1>14, <4>1, KeptStays
    <3> QED BY <3>1, <3>2, <3>3
  <2> QED BY <2>4, <2>5, StaysBy
<1> QED BY <1>4, <1>13, <1>14

\* import_backends: over a provider that is loaded the name becomes doubled.
LEMMA ImportList ==
  ASSUME ListInv, NEW e \in Entry, ImportBackend(e)
  PROVE  ListInv' /\ StaysStep
<1>1. /\ config \in Seq(Entry) /\ manager \in Managers /\ Twice(config) \subseteq doubled
      /\ doubled \subseteq Name /\ e.name \in Name /\ e.enable \in BOOLEAN
      /\ doubled' = IF Loaded(manager, e.name) THEN doubled \cup {e.name} ELSE doubled
  BY DEF ImportBackend, ListInv, Entry
<1>2. /\ config' \in Seq(Entry)
      /\ Twice(config') \subseteq Twice(config)
      /\ \A k : (k \notin Twice(config) /\ k # e.name) => Carries(config, config', k)
  <2>1. CASE Has(config, e.name)
    <3>1. config' = Put(config, e.name, e)
      BY <2>1 DEF ImportBackend
    <3> QED BY <1>1, <2>1, <3>1, PutFacts
  <2>2. CASE ~Has(config, e.name)
    <3>1. config' = Append(config, e)
      BY <2>2 DEF ImportBackend
    <3> QED BY <1>1, <2>2, <3>1, AppendFacts
  <2> QED BY <2>1, <2>2
<1>3. PICK c \in BOOLEAN : \E r \in IF c THEN Loads(config', manager, e.name)
                                    ELSE {Outcome(manager, TRUE, 0)} : manager' = r.m
  <2>1. PICK done \in BOOLEAN :
          \E r \in IF done /\ e.enable THEN Loads(config', manager, e.name)
                   ELSE {Outcome(manager, TRUE, 0)} : manager' = r.m
    BY DEF ImportBackend
  <2>2. (done /\ e.enable) \in BOOLEAN
    OBVIOUS
  <2> QED BY <2>1, <2>2, Zenon
<1>4. PICK r \in IF c THEN Loads(config', manager, e.name) ELSE {Outcome(manager, TRUE, 0)} :
        manager' = r.m
  BY <1>3
<1>5. /\ r.m \in Managers
      /\ \A k \in Name : k # e.name => Kept(manager, r.m, k)
      /\ Out(manager, e.name) => ServedAt(config', r.m, e.name)
  BY <1>1, <1>2, <1>4, MaybeLoads
<1>6. ASSUME NEW k \in Name, k \notin doubled' PROVE ServedAt(config', r.m, k)
  <2>1. k \notin doubled
    BY <1>1, <1>6
  <2>2. CASE k = e.name
    BY <1>1, <1>5, <1>6, <2>1, <2>2, ServedNow
  <2>3. CASE k # e.name
    <3>1. ServedAt(config, r.m, k)
      BY <1>5, <2>1, <2>3, ServedNow, KeptServed
    <3>2. Carries(config, config', k)
      BY <1>1, <1>2, <2>1, <2>3
    <3> QED BY <3>1, <3>2, CarriesServed
  <2> QED BY <2>2, <2>3
<1>7. ListInv'
  BY <1>1, <1>2, <1>4, <1>5, <1>6 DEF ListInv, Served
<1>8. ASSUME NEW k \in Name, k \notin doubled' PROVE Stays(k)
  <2>1. CASE k = e.name
    BY <1>1, <1>8, <2>1 DEF Stays
  <2>2. CASE k # e.name
    BY <1>4, <1>5, <2>2, KeptStays
  <2> QED BY <2>1, <2>2
<1> QED BY <1>7, <1>8, StaysBy

\* The list is exchanged for another one, and all of it is loaded.
LEMMA ExchangeList ==
  ASSUME ListInv, badLoads \in Nat, NEW list \in Seq(Entry), NEW m \in Managers,
         NEW bad \in SUBSET {i \in DOMAIN list : list[i].enable},
         config' = list, manager' = LoadAll(list, m, bad),
         badLoads' = badLoads + Cardinality(bad),
         doubled' \subseteq Name, Twice(list) \subseteq doubled',
         \A k \in Name : k \notin doubled' => Out(m, k)
  PROVE  ListInv' /\ StaysStep
<1>1. /\ manager' \in Managers
      /\ \A k \in Name : (k \notin Twice(list) /\ Out(m, k)) => ServedAt(list, manager', k)
      /\ \A k \in Name :
           (Has(list, k) /\ At(list, k).enable /\ Index(list, k) \notin bad)
             => Loaded(manager', k)
  BY LoadAllFacts
<1>2. ListInv'
  BY <1>1 DEF ListInv, Served
<1>3. bad # {} => badLoads' > badLoads
  <2>1. IsFiniteSet(1..Len(list)) /\ bad \subseteq 1..Len(list)
    <3>1. Len(list) \in Nat /\ DOMAIN list = 1..Len(list)
      BY LenProperties
    <3>2. IsFiniteSet(1..Len(list))
      BY <3>1, FS_Interval
    <3> QED BY <3>1, <3>2
  <2>2. IsFiniteSet(bad)
    BY <2>1, FS_Subset
  <2>3. bad # {} => Cardinality(bad) # 0
    BY <2>2, FS_EmptySet
  <2>4. Cardinality(bad) \in Nat
    BY <2>2, FS_CardinalityType
  <2> QED BY <2>3, <2>4
<1>4. ASSUME NEW k \in Name, k \notin doubled, k \notin doubled' PROVE Stays(k)
  <2> SUFFICES ASSUME Loaded(manager, k), Has(config, k), Has(list, k),
                      Fingerprint(At(list, k)) = Fingerprint(At(config, k)), bad = {}
               PROVE  Loaded(manager', k)
    BY <1>3 DEF Stays
  <2>1. At(config, k).enable /\ At(config, k) \in Entry /\ At(list, k) \in Entry
    BY <1>4, ServedNow, AtFacts DEF ListInv
  <2>2. /\ Fingerprint(At(config, k)).enable = At(config, k).enable
        /\ Fingerprint(At(list, k)).enable = At(list, k).enable
    BY <2>1 DEF Fingerprint, Entry
  <2>3. At(list, k).enable
    BY <2>1, <2>2
  <2> QED BY <1>1, <2>3
<1> QED BY <1>2, <1>4, StaysBy

\* restore_backends: all is unloaded, then the list is exchanged and loaded.
LEMMA RestoreList ==
  ASSUME ListInv, badLoads \in Nat, bak \in Seq(Entry) \cup {Broken, Nil}, RestoreBackends
  PROVE  ListInv' /\ StaysStep
<1>1. /\ bak \in Seq(Entry) /\ config' = bak /\ manager \in Managers
      /\ doubled' = doubled \cup Twice(bak) /\ doubled \subseteq Name
  BY DEF RestoreBackends, ListInv
<1>2. doubled' \subseteq Name /\ Twice(bak) \subseteq doubled' /\ doubled \subseteq doubled'
  BY <1>1 DEF Twice
<1>3. UnloadAll \in Managers /\ \A k \in Name : k \notin doubled' => Out(UnloadAll, k)
  BY <1>1, <1>2, UnloadAllFacts, ServedNow
<1>4. ASSUME NEW bad \in SUBSET {i \in DOMAIN bak : bak[i].enable},
             manager' = LoadAll(bak, UnloadAll, bad), badLoads' = badLoads + Cardinality(bad)
      PROVE  ListInv' /\ StaysStep
  BY <1>1, <1>2, <1>3, <1>4, ExchangeList
<1>5. ASSUME manager' = UnloadAll, dirty'
      PROVE  ListInv' /\ StaysStep
  <2>1. ListInv'
    BY <1>1, <1>2, <1>3, <1>5, OutServed DEF ListInv, Served
  <2>2. StaysStep
    BY <1>5 DEF StaysStep
  <2> QED BY <2>1, <2>2
<1>6. PICK done \in BOOLEAN :
        /\ Unsaved(done)
        /\ IF done
           THEN \E bad \in SUBSET {i \in DOMAIN bak : bak[i].enable} :
                  manager' = LoadAll(bak, UnloadAll, bad) /\ FailsLoads(Cardinality(bad))
           ELSE manager' = UnloadAll /\ UNCHANGED badLoads
  BY DEF RestoreBackends
<1>7. CASE done
  BY <1>4, <1>6, <1>7 DEF FailsLoads
<1>8. CASE ~done
  BY <1>5, <1>6, <1>8 DEF Unsaved
<1> QED BY <1>7, <1>8

\* A manager that has just been made.
LEMMA EmptyFacts ==
  /\ Empty \in Managers
  /\ \A k \in Name : Out(Empty, k)
BY DEF Empty, Managers, Out

\* A start loads the list of the file.
LEMMA RestartList ==
  ASSUME ListInv, badLoads \in Nat, file \in Seq(Entry) \cup {Broken}, RestartProcess
  PROVE  ListInv' /\ StaysStep
<1>1. file \in Seq(Entry) /\ config' = file /\ doubled' = Twice(file)
  BY DEF RestartProcess
<1>2. doubled' \subseteq Name
  BY <1>1 DEF Twice
<1>3. PICK bad \in SUBSET {i \in DOMAIN file : file[i].enable} :
        manager' = LoadAll(file, Empty, bad) /\ badLoads' = badLoads + Cardinality(bad)
  BY DEF RestartProcess, FailsLoads
<1> QED BY <1>1, <1>2, <1>3, EmptyFacts, ExchangeList

-----------------------------------------------------------------------------
(* Detections, as far as the list and the manager are concerned            *)

\* A provider is reloaded after its models changed, in list or back in config.
LEMMA TouchedServed ==
  ASSUME ListInv, NEW n \in Name, NEW new \in Seq(Entry), NEW m \in Managers,
         Twice(new) = Twice(config), \A k : Carries(config, new, k),
         config' = new, manager' = m, doubled' = doubled,
         \A k \in Name : k # n => Kept(manager, m, k),
         n \notin doubled => ServedAt(new, m, n),
         n \notin doubled => (Loaded(manager, n) => Loaded(m, n) \/ badLoads' > badLoads)
  PROVE  ListInv' /\ StaysStep
<1>1. ASSUME NEW k \in Name, k \notin doubled PROVE ServedAt(new, m, k)
  <2>1. CASE k = n
    BY <1>1, <2>1
  <2>2. CASE k # n
    BY <1>1, <2>2, ServedNow, KeptServed, CarriesServed
  <2> QED BY <2>1, <2>2
<1>2. ListInv'
  BY <1>1 DEF ListInv, Served
<1>3. ASSUME NEW k \in Name, k \notin doubled PROVE Stays(k)
  <2>1. CASE k = n
    BY <1>3, <2>1 DEF Stays
  <2>2. CASE k # n
    BY <2>2, KeptStays
  <2> QED BY <2>1, <2>2
<1> QED BY <1>2, <1>3, StaysBy

\* A reload with other models, and what follows when it fails.
LEMMA TouchedReload ==
  ASSUME ListInv, NEW n \in Name, NEW new \in Seq(Entry),
         \A k : Carries(config, new, k) /\ Carries(new, config, k),
         NEW r \in Reloads(new, manager, n)
  PROVE  /\ r.m \in Managers /\ r.ok \in BOOLEAN /\ r.bad \in 0..1
         /\ \A k \in Name : k # n => Kept(manager, r.m, k)
         /\ r.ok => Loaded(r.m, n)
         /\ n \notin doubled => /\ ServedAt(new, r.m, n)
                                /\ ServedAt(config, r.m, n)
                                /\ Loaded(manager, n) => Loaded(r.m, n) \/ r.bad = 1
<1>1. manager \in Managers
  BY DEF ListInv
<1>2. n \notin doubled => ServedAt(new, manager, n)
  BY ServedNow, CarriesServed
<1>3. /\ r.m \in Managers /\ r.ok \in BOOLEAN /\ r.bad \in 0..1
      /\ \A k \in Name : k # n => Kept(manager, r.m, k)
      /\ r.ok => Loaded(r.m, n)
      /\ ServedAt(new, manager, n) =>
           /\ ServedAt(new, r.m, n)
           /\ Loaded(manager, n) => Loaded(r.m, n) \/ r.bad = 1
  BY <1>1, ReloadsFacts
<1>4. ServedAt(new, r.m, n) => ServedAt(config, r.m, n)
  BY CarriesServed
<1> QED BY <1>2, <1>3, <1>4

\* What t stores.
LEMMA FoundFacts ==
  ASSUME config \in Seq(Entry), NEW t, job[t] \in Jobs
  PROVE  /\ Found(t) \in Seq(Entry)
         /\ Twice(Found(t)) = Twice(config)
         /\ \A k : Carries(config, Found(t), k) /\ Carries(Found(t), config, k)
         /\ job[t].name \in Name /\ job[t].adapter.conf \in Catalogue
<1>1. job[t].adapter.conf \in Catalogue /\ job[t].name \in Name
  BY DEF Jobs, Adapter, Catalogue
<1>2. Found(t) = With(config, job[t].name, job[t].adapter.conf)
  BY DEF Found
<1> QED BY <1>1, <1>2, WithFacts

\* The scheduler stores the models and reloads, or recovers the adapter.
LEMMA EnterList ==
  ASSUME ListInv, badLoads \in Nat, NEW t \in Task, job[t] \in Jobs, Enter(t)
  PROVE  ListInv' /\ StaysStep
<1> DEFINE n == job[t].name
           new == Found(t)
<1>1. /\ new \in Seq(Entry)
      /\ Twice(new) = Twice(config)
      /\ \A k : Carries(config, new, k) /\ Carries(new, config, k)
      /\ n \in Name /\ config \in Seq(Entry) /\ manager \in Managers
  BY FoundFacts DEF ListInv
<1>2. doubled' = doubled
  BY DEF Enter
<1>3. PICK r \in Reloads(new, manager, n) :
        \/ /\ r.ok
           /\ config' = new
           /\ manager' = r.m
           /\ FailsLoads(r.bad)
        \/ /\ ~r.ok
           /\ \E b \in Recovers(config, r.m, n) :
                manager' = b.m /\ FailsLoads(r.bad + b.bad)
           /\ config' = config
  BY Zenon DEF Enter
<1> HIDE DEF n, new
<1>4. /\ r.m \in Managers /\ r.ok \in BOOLEAN /\ r.bad \in 0..1
      /\ \A k \in Name : k # n => Kept(manager, r.m, k)
      /\ r.ok => Loaded(r.m, n)
      /\ n \notin doubled => /\ ServedAt(new, r.m, n)
                             /\ ServedAt(config, r.m, n)
                             /\ Loaded(manager, n) => Loaded(r.m, n) \/ r.bad = 1
  BY <1>1, <1>3, TouchedReload
<1>5. CASE /\ r.ok
           /\ config' = new
           /\ manager' = r.m
           /\ FailsLoads(r.bad)
  <2>1. r.bad = 1 => badLoads' > badLoads
    BY <1>4, <1>5 DEF FailsLoads
  <2> QED BY <1>1, <1>2, <1>4, <1>5, <2>1, TouchedServed
<1>6. ASSUME NEW b \in Recovers(config, r.m, n), manager' = b.m,
             FailsLoads(r.bad + b.bad), config' = config
      PROVE  ListInv' /\ StaysStep
  <2>1. /\ b.m \in Managers /\ b.bad \in 0..1
        /\ \A k \in Name : k # n => Kept(r.m, b.m, k)
        /\ ServedAt(config, r.m, n) =>
             /\ ServedAt(config, b.m, n)
             /\ Loaded(r.m, n) => Loaded(b.m, n) \/ b.bad = 1
    BY <1>1, <1>4, RecoversFacts
  <2>2. \A k \in Name : k # n => Kept(manager, b.m, k)
    BY <1>4, <2>1, KeptTwice
  <2>3. (r.bad = 1 \/ b.bad = 1) => badLoads' > badLoads
    BY <1>4, <1>6, <2>1 DEF FailsLoads
  <2>4. \A k : Carries(config, config, k)
    BY DEF Carries
  <2> QED BY <1>1, <1>2, <1>4, <1>6, <2>1, <2>2, <2>3, <2>4, TouchedServed
<1> QED BY <1>3, <1>5, <1>6

\* The list after t has put the models from before back.
LEMMA UndoneFacts ==
  ASSUME config \in Seq(Entry), NEW t, job[t] \in Jobs, job[t].old \in Catalogue
  PROVE  /\ Undone(t) \in Seq(Entry)
         /\ Twice(Undone(t)) = Twice(config)
         /\ \A k : Carries(config, Undone(t), k) /\ Carries(Undone(t), config, k)
<1>1. CASE job[t].meanwhile = "replaced"
  BY <1>1 DEF Undone, Carries
<1>2. CASE job[t].meanwhile # "replaced"
  <2>1. Undone(t) = With(config, job[t].name, job[t].old)
    BY <1>2 DEF Undone
  <2> QED BY <2>1, WithFacts
<1> QED BY <1>1, <1>2

\* After a failed write the scheduler puts the models back and reloads.
LEMMA SavedList ==
  ASSUME ListInv, badLoads \in Nat, NEW t \in Task, job[t] \in Jobs,
         job[t].old \in Catalogue, Saved(t)
  PROVE  ListInv' /\ StaysStep
<1> DEFINE n == job[t].name
           new == Undone(t)
<1>1. /\ new \in Seq(Entry)
      /\ Twice(new) = Twice(config)
      /\ \A k : Carries(config, new, k) /\ Carries(new, config, k)
      /\ n \in Name /\ config \in Seq(Entry) /\ manager \in Managers
  BY UndoneFacts DEF ListInv, Jobs
<1>2. doubled' = doubled
  BY DEF Saved
<1>3. \/ config' = config /\ manager' = manager
      \/ /\ config' = new
         /\ \E r \in Reloads(new, manager, n) :
              \/ r.ok /\ manager' = r.m /\ FailsLoads(r.bad)
              \/ /\ ~r.ok
                 /\ \E b \in Recovers(new, r.m, n) :
                      manager' = b.m /\ FailsLoads(r.bad + b.bad)
  BY Zenon DEF Saved
<1> HIDE DEF n, new
<1>4. CASE config' = config /\ manager' = manager
  BY <1>2, <1>4, SameStep
<1>5. ASSUME config' = new, NEW r \in Reloads(new, manager, n),
             \/ r.ok /\ manager' = r.m /\ FailsLoads(r.bad)
             \/ /\ ~r.ok
                /\ \E b \in Recovers(new, r.m, n) :
                     manager' = b.m /\ FailsLoads(r.bad + b.bad)
      PROVE  ListInv' /\ StaysStep
  <2>1. /\ r.m \in Managers /\ r.bad \in 0..1
        /\ \A k \in Name : k # n => Kept(manager, r.m, k)
        /\ n \notin doubled => /\ ServedAt(new, r.m, n)
                               /\ Loaded(manager, n) => Loaded(r.m, n) \/ r.bad = 1
    BY <1>1, <1>5, TouchedReload
  <2>2. CASE manager' = r.m /\ FailsLoads(r.bad)
    <3>1. r.bad = 1 => badLoads' > badLoads
      BY <2>1, <2>2 DEF FailsLoads
    <3> QED BY <1>1, <1>2, <1>5, <2>1, <2>2, <3>1, TouchedServed
  <2>3. ASSUME NEW b \in Recovers(new, r.m, n), manager' = b.m, FailsLoads(r.bad + b.bad)
        PROVE  ListInv' /\ StaysStep
    <3>1. /\ b.m \in Managers /\ b.bad \in 0..1
          /\ \A k \in Name : k # n => Kept(r.m, b.m, k)
          /\ ServedAt(new, r.m, n) =>
               /\ ServedAt(new, b.m, n)
               /\ Loaded(r.m, n) => Loaded(b.m, n) \/ b.bad = 1
      BY <1>1, <2>1, RecoversFacts
    <3>2. \A k \in Name : k # n => Kept(manager, b.m, k)
      BY <2>1, <3>1, KeptTwice
    <3>3. (r.bad = 1 \/ b.bad = 1) => badLoads' > badLoads
      BY <2>1, <2>3, <3>1 DEF FailsLoads
    <3> QED BY <1>1, <1>2, <1>5, <2>1, <2>3, <3>1, <3>2, <3>3, TouchedServed
  <2> QED BY <1>5, <2>2, <2>3
<1> QED BY <1>3, <1>4, <1>5

\* The request that applies detected models, with its reload and roll-back.
LEMMA ApplyList ==
  ASSUME ListInv, badLoads \in Nat, NEW t \in Task, job[t] \in Jobs, Apply(t)
  PROVE  ListInv' /\ StaysStep
<1> DEFINE n == job[t].name
           new == Found(t)
<1>1. /\ new \in Seq(Entry)
      /\ Twice(new) = Twice(config)
      /\ \A k : Carries(config, new, k) /\ Carries(new, config, k)
      /\ n \in Name /\ config \in Seq(Entry) /\ manager \in Managers
  BY FoundFacts DEF ListInv
<1>2. doubled' = doubled
  BY DEF Apply
<1>3. PICK r \in Reloads(new, manager, n) :
        \/ /\ config' = config \/ config' = new
           /\ manager' = r.m
           /\ FailsLoads(r.bad)
        \/ /\ config' = config
           /\ \E b \in Reloads(config, r.m, n) :
                manager' = b.m /\ FailsLoads(r.bad + b.bad)
  BY Zenon DEF Apply
<1> HIDE DEF n, new
<1>4. /\ r.m \in Managers /\ r.bad \in 0..1
      /\ \A k \in Name : k # n => Kept(manager, r.m, k)
      /\ n \notin doubled => /\ ServedAt(new, r.m, n)
                             /\ ServedAt(config, r.m, n)
                             /\ Loaded(manager, n) => Loaded(r.m, n) \/ r.bad = 1
  BY <1>1, <1>3, TouchedReload
<1>5. \A k : Carries(config, config, k)
  BY DEF Carries
<1>6. CASE (config' = config \/ config' = new) /\ manager' = r.m /\ FailsLoads(r.bad)
  <2>1. r.bad = 1 => badLoads' > badLoads
    BY <1>4, <1>6 DEF FailsLoads
  <2>2. CASE config' = config
    BY <1>1, <1>2, <1>4, <1>5, <1>6, <2>1, <2>2, TouchedServed
  <2>3. CASE config' = new
    BY <1>1, <1>2, <1>4, <1>6, <2>1, <2>3, TouchedServed
  <2> QED BY <1>6, <2>2, <2>3
<1>7. ASSUME config' = config, NEW b \in Reloads(config, r.m, n), manager' = b.m,
             FailsLoads(r.bad + b.bad)
      PROVE  ListInv' /\ StaysStep
  <2>1. /\ b.m \in Managers /\ b.bad \in 0..1
        /\ \A k \in Name : k # n => Kept(r.m, b.m, k)
        /\ ServedAt(config, r.m, n) =>
             /\ ServedAt(config, b.m, n)
             /\ Loaded(r.m, n) => Loaded(b.m, n) \/ b.bad = 1
    BY <1>1, <1>4, <1>7, ReloadsFacts
  <2>2. \A k \in Name : k # n => Kept(manager, b.m, k)
    BY <1>4, <2>1, KeptTwice
  <2>3. (r.bad = 1 \/ b.bad = 1) => badLoads' > badLoads
    BY <1>4, <1>7, <2>1 DEF FailsLoads
  <2> QED BY <1>1, <1>2, <1>4, <1>5, <1>7, <2>1, <2>2, <2>3, TouchedServed
<1> QED BY <1>3, <1>6, <1>7

-----------------------------------------------------------------------------
(* Counters, files and detections                                          *)

\* A write leaves the list, the file as it was, or a broken file.
LEMMA SaveTyped ==
  ASSUME FilesTyped, NEW list, NEW done \in BOOLEAN, SaveWithBackup(list, done),
         done => list \in Seq(Entry)
  PROVE  /\ file' \in Seq(Entry) \cup {Broken}
         /\ bak' \in Seq(Entry) \cup {Broken, Nil}
         /\ badWrites' \in 0..MaxBadWrites
         /\ done => file' = list
         /\ ~done => file' \in {file, Broken}
<1>1. MaxBadWrites \in Nat
  BY ProviderAssumption
<1> QED BY <1>1 DEF SaveWithBackup, SaveConfig, FailsWrite, FilesTyped

\* Loads that fail are counted up to their bound.
LEMMA LoadsBad ==
  ASSUME badLoads \in 0..MaxBadLoads, NEW k \in Nat, FailsLoads(k)
  PROVE  badLoads' \in 0..MaxBadLoads
<1>1. MaxBadLoads \in Nat
  BY ProviderAssumption
<1> QED BY <1>1 DEF FailsLoads

\* Every way to load says how many loads failed.
LEMMA OutcomeBad ==
  /\ \A list, m, n : \A r \in Loads(list, m, n) : r.bad \in Nat
  /\ \A list, m, n : \A r \in Reloads(list, m, n) : r.bad \in Nat
  /\ \A list, m, n : \A r \in Recovers(list, m, n) : r.bad \in Nat
  /\ \A n, e, x : \A r \in RolledBack(n, e, x) : r.bad \in Nat
  /\ \A m : \A r \in {Outcome(m, TRUE, 0)} : r.bad \in Nat
<1>1. \A m, ok : Outcome(m, ok, 0).bad \in Nat /\ Outcome(m, ok, 1).bad \in Nat
  BY DEF Outcome
<1>2. \A list, m, n : \A r \in Loads(list, m, n) : r.bad \in Nat
  BY <1>1 DEF Loads
<1>3. \A list, m, n : \A r \in Reloads(list, m, n) : r.bad \in Nat
  BY <1>1, <1>2 DEF Reloads
<1>4. \A list, m, n : \A r \in Recovers(list, m, n) : r.bad \in Nat
  BY <1>2 DEF Recovers
<1>5. \A n, e, x : \A r \in RolledBack(n, e, x) : r.bad \in Nat
  BY <1>1, <1>2 DEF RolledBack
<1> QED BY <1>1, <1>2, <1>3, <1>4, <1>5

\* An entry a request sends.
LEMMA SentEntry ==
  ASSUME NEW e \in Sent
  PROVE  e \in Entry
BY DEF Sent

\* The number of loads that failed.
LEMMA BadLoadsStep ==
  ASSUME badLoads \in 0..MaxBadLoads, file \in Seq(Entry) \cup {Broken},
         bak \in Seq(Entry) \cup {Broken, Nil}, ConfigNext
  PROVE  badLoads' \in 0..MaxBadLoads
<1>1. ASSUME NEW e \in Sent, CreateBackend(e) PROVE badLoads' \in 0..MaxBadLoads
  <2>1. PICK r \in IF e.enable THEN Loads(config', manager, e.name)
                   ELSE {Outcome(manager, TRUE, 0)} : FailsLoads(r.bad)
    BY <1>1 DEF CreateBackend
  <2>2. r.bad \in Nat
    BY <2>1, OutcomeBad
  <2> QED BY <2>1, <2>2, LoadsBad
<1>2. ASSUME NEW e \in Sent, ImportBackend(e) PROVE badLoads' \in 0..MaxBadLoads
  <2>1. PICK done \in BOOLEAN :
          \E r \in IF done /\ e.enable THEN Loads(config', manager, e.name)
                   ELSE {Outcome(manager, TRUE, 0)} : FailsLoads(r.bad)
    BY <1>2 DEF ImportBackend
  <2>2. PICK r \in IF done /\ e.enable THEN Loads(config', manager, e.name)
                   ELSE {Outcome(manager, TRUE, 0)} : FailsLoads(r.bad)
    BY <2>1
  <2>3. r.bad \in Nat
    BY <2>2, OutcomeBad
  <2> QED BY <2>2, <2>3, LoadsBad
<1>3. ASSUME NEW n \in Name, NEW sent \in Sent, NEW kept \in BOOLEAN, UpdateBackend(n, sent, kept)
      PROVE  badLoads' \in 0..MaxBadLoads
  <2> DEFINE old == At(config, n)
             e == IF kept THEN [sent EXCEPT !.models = old.models] ELSE sent
             new == Put(config, n, e)
             x == IF old.enable /\ Loaded(manager, n) THEN UnloadBackend(manager, n) ELSE manager
  <2>1. PICK r \in IF e.enable THEN Loads(new, x, e.name) ELSE {Outcome(x, TRUE, 0)} :
          \/ FailsLoads(r.bad)
          \/ \E b \in RolledBack(n, e, r.m) : FailsLoads(r.bad + b.bad)
    BY <1>3, Zenon DEF UpdateBackend
  <2> HIDE DEF e, new, x
  <2>2. r.bad \in Nat
    BY <2>1, OutcomeBad
  <2>3. \A b \in RolledBack(n, e, r.m) : r.bad + b.bad \in Nat
    BY <2>2, OutcomeBad
  <2> QED BY <2>1, <2>2, <2>3, LoadsBad
<1>4. ASSUME NEW list \in Seq(Entry), NEW bad \in SUBSET {i \in DOMAIN list : list[i].enable},
             FailsLoads(Cardinality(bad))
      PROVE  badLoads' \in 0..MaxBadLoads
  <2>1. Len(list) \in Nat /\ DOMAIN list = 1..Len(list)
    BY LenProperties
  <2>2. IsFiniteSet(1..Len(list))
    BY <2>1, FS_Interval
  <2>3. Cardinality(bad) \in Nat
    BY <2>1, <2>2, FS_Subset, FS_CardinalityType
  <2> QED BY <1>4, <2>3, LoadsBad
<1>5. CASE RestoreBackends
  <2>1. bak \in Seq(Entry)
    BY <1>5 DEF RestoreBackends
  <2>2. \/ \E bad \in SUBSET {i \in DOMAIN bak : bak[i].enable} : FailsLoads(Cardinality(bad))
        \/ badLoads' = badLoads
    BY <1>5 DEF RestoreBackends
  <2> QED BY <1>4, <2>1, <2>2
<1>6. CASE RestartProcess
  <2>1. file \in Seq(Entry)
    BY <1>6 DEF RestartProcess
  <2>2. \E bad \in SUBSET {i \in DOMAIN file : file[i].enable} : FailsLoads(Cardinality(bad))
    BY <1>6 DEF RestartProcess
  <2> QED BY <1>4, <2>1, <2>2
<1>7. ASSUME NEW t \in Task, Enter(t) PROVE badLoads' \in 0..MaxBadLoads
  <2>1. PICK r \in Reloads(Found(t), manager, job[t].name) :
          \/ FailsLoads(r.bad)
          \/ \E b \in Recovers(config, r.m, job[t].name) : FailsLoads(r.bad + b.bad)
    BY <1>7, Zenon DEF Enter
  <2>2. r.bad \in Nat
    BY <2>1, OutcomeBad
  <2>3. \A b \in Recovers(config, r.m, job[t].name) : r.bad + b.bad \in Nat
    BY <2>2, OutcomeBad
  <2> QED BY <2>1, <2>2, <2>3, LoadsBad
<1>8. ASSUME NEW t \in Task, Saved(t) PROVE badLoads' \in 0..MaxBadLoads
  <2>1. \/ badLoads' = badLoads
        \/ \E r \in Reloads(Undone(t), manager, job[t].name) :
             \/ FailsLoads(r.bad)
             \/ \E b \in Recovers(Undone(t), r.m, job[t].name) : FailsLoads(r.bad + b.bad)
    BY <1>8, Zenon DEF Saved
  <2>2. ASSUME NEW r \in Reloads(Undone(t), manager, job[t].name),
               \/ FailsLoads(r.bad)
               \/ \E b \in Recovers(Undone(t), r.m, job[t].name) : FailsLoads(r.bad + b.bad)
        PROVE  badLoads' \in 0..MaxBadLoads
    <3>1. r.bad \in Nat
      BY <2>2, OutcomeBad
    <3>2. \A b \in Recovers(Undone(t), r.m, job[t].name) : r.bad + b.bad \in Nat
      BY <3>1, OutcomeBad
    <3> QED BY <2>2, <3>1, <3>2, LoadsBad
  <2> QED BY <2>1, <2>2
<1>9. ASSUME NEW t \in Task, Apply(t) PROVE badLoads' \in 0..MaxBadLoads
  <2>1. PICK r \in Reloads(Found(t), manager, job[t].name) :
          \/ FailsLoads(r.bad)
          \/ \E b \in Reloads(config, r.m, job[t].name) : FailsLoads(r.bad + b.bad)
    BY <1>9, Zenon DEF Apply
  <2>2. r.bad \in Nat
    BY <2>1, OutcomeBad
  <2>3. \A b \in Reloads(config, r.m, job[t].name) : r.bad + b.bad \in Nat
    BY <2>2, OutcomeBad
  <2> QED BY <2>1, <2>2, <2>3, LoadsBad
<1>10. ASSUME NEW n \in Name, DeleteBackend(n) \/ UpdateSchedule(n) \/ ReorderQueue(n)
       PROVE  badLoads' = badLoads
  BY <1>10 DEF DeleteBackend, UpdateSchedule, ReorderQueue
<1>11. CASE OtherSave
  BY <1>11 DEF OtherSave
<1>12. ASSUME NEW t \in Task, NEW n \in Name, Ask(t, n) PROVE badLoads' = badLoads
  BY <1>12 DEF Ask
<1>13. ASSUME NEW t \in Task, NoAnswer(t) \/ Answered(t) \/ Discards(t)
       PROVE  badLoads' = badLoads
  BY <1>13 DEF NoAnswer, Answered, Discards, bounds
<1> QED BY <1>1, <1>2, <1>3, <1>5, <1>6, <1>7, <1>8, <1>9, <1>10, <1>11, <1>12, <1>13
        DEF ConfigNext

\* An edit leaves the detections and the lock alone.
LEMMA DetectionsSame ==
  ASSUME Detections, UNCHANGED <<lock, pc, job>>, doubled \subseteq doubled'
  PROVE  Detections'
BY DEF Detections, JobsTyped, Locking, Noted, Jobs, Prints, Adapter

\* A request that does not ask for the lock marks the detections that save.
LEMMA MarkedStep ==
  ASSUME Detections, UNCHANGED <<lock, pc>>, doubled \subseteq doubled',
         NEW replaced, NEW done \in BOOLEAN, Meanwhile(replaced, done)
  PROVE  /\ Detections'
         /\ \A t \in Task : pc[t] = "save" =>
              /\ job'[t].name = job[t].name /\ job'[t].old = job[t].old
              /\ job'[t].meanwhile =
                   IF job[t].name \in replaced THEN "replaced"
                   ELSE IF done /\ job[t].meanwhile = "nothing" THEN "written"
                   ELSE job[t].meanwhile
<1>1. ASSUME NEW t \in Task
      PROVE  job'[t] = IF pc[t] # "save" THEN job[t]
                       ELSE IF job[t].name \in replaced THEN [job[t] EXCEPT !.meanwhile = "replaced"]
                       ELSE IF done /\ job[t].meanwhile = "nothing"
                            THEN [job[t] EXCEPT !.meanwhile = "written"]
                       ELSE job[t]
  BY Zenon DEF Meanwhile
<1>2. ASSUME NEW t \in Task, pc[t] = "save"
      PROVE  /\ job[t] \in Jobs /\ job[t].old \in Catalogue
             /\ job'[t] \in Jobs
             /\ job'[t].name = job[t].name /\ job'[t].old = job[t].old
             /\ job'[t].adapter = job[t].adapter /\ job'[t].print = job[t].print
             /\ job'[t].meanwhile =
                   IF job[t].name \in replaced THEN "replaced"
                   ELSE IF done /\ job[t].meanwhile = "nothing" THEN "written"
                   ELSE job[t].meanwhile
  <2>1. job[t] \in Jobs /\ job[t].old \in Catalogue
    BY <1>2 DEF Detections, JobsTyped
  <2>2. \A w \in {"replaced", "written"} :
          /\ [job[t] EXCEPT !.meanwhile = w] \in Jobs
          /\ [job[t] EXCEPT !.meanwhile = w].name = job[t].name
          /\ [job[t] EXCEPT !.meanwhile = w].old = job[t].old
          /\ [job[t] EXCEPT !.meanwhile = w].adapter = job[t].adapter
          /\ [job[t] EXCEPT !.meanwhile = w].print = job[t].print
          /\ [job[t] EXCEPT !.meanwhile = w].meanwhile = w
    BY <2>1 DEF Jobs
  <2>3. CASE job[t].name \in replaced
    <3>1. job'[t] = [job[t] EXCEPT !.meanwhile = "replaced"]
      BY <1>1, <1>2, <2>3
    <3> QED BY <2>1, <2>2, <2>3, <3>1
  <2>4. CASE job[t].name \notin replaced /\ done /\ job[t].meanwhile = "nothing"
    <3>1. job'[t] = [job[t] EXCEPT !.meanwhile = "written"]
      BY <1>1, <1>2, <2>4
    <3> QED BY <2>1, <2>2, <2>4, <3>1
  <2>5. CASE job[t].name \notin replaced /\ ~(done /\ job[t].meanwhile = "nothing")
    <3>1. job'[t] = job[t]
      BY <1>1, <1>2, <2>5
    <3> QED BY <2>1, <2>5, <3>1
  <2> QED BY <2>3, <2>4, <2>5
<1>3. ASSUME NEW t \in Task, pc[t] # "save" PROVE job'[t] = job[t]
  BY <1>1, <1>3
<1>4. job' \in [Task -> Jobs \cup {Nil}]
  <2>1. DOMAIN job' = Task /\ job' = [t \in Task |-> job'[t]]
    BY Zenon DEF Meanwhile
  <2>2. \A t \in Task : job'[t] \in Jobs \cup {Nil}
    BY <1>2, <1>3 DEF Detections, JobsTyped
  <2> QED BY <2>1, <2>2
<1>5. JobsTyped'
  BY <1>2, <1>3, <1>4 DEF Detections, JobsTyped
<1>6. Locking'
  BY DEF Detections, Locking
<1>7. Noted'
  <2> SUFFICES ASSUME NEW t \in Task, pc[t] # "idle", job'[t].name \notin doubled'
               PROVE  job'[t].adapter.conf = job'[t].print.conf
    BY DEF Noted
  <2>1. /\ job'[t].name = job[t].name /\ job'[t].adapter = job[t].adapter
        /\ job'[t].print = job[t].print
    BY <1>2, <1>3
  <2> QED BY <2>1 DEF Detections, Noted
<1> QED BY <1>2, <1>5, <1>6, <1>7 DEF Detections

\* A detection ends and gives back the lock it holds; the others go on.
LEMMA EndsStep ==
  ASSUME Detections, NEW t \in Task, pc[t] # "idle", Ends(t), doubled' = doubled
  PROVE  Detections' /\ pc'[t] = "idle" /\ \A u \in Task : u # t => pc'[u] = pc[u] /\ job'[u] = job[u]
<1>1. /\ pc' = [pc EXCEPT ![t] = "idle"] /\ job' = [job EXCEPT ![t] = Nil]
      /\ lock' = IF lock = t THEN Nil ELSE lock
  BY DEF Ends
<1>2. /\ pc \in [Task -> {"idle", "detect", "lock", "save"}]
      /\ job \in [Task -> Jobs \cup {Nil}] /\ lock \in Task \cup {Nil}
  BY DEF Detections, JobsTyped
<1>3. /\ pc'[t] = "idle" /\ \A u \in Task : u # t => pc'[u] = pc[u] /\ job'[u] = job[u]
      /\ pc' \in [Task -> {"idle", "detect", "lock", "save"}]
      /\ job' \in [Task -> Jobs \cup {Nil}] /\ lock' \in Task \cup {Nil}
  BY <1>1, <1>2
<1>4. JobsTyped'
  BY <1>3 DEF Detections, JobsTyped
<1>5. Locking'
  BY <1>1, <1>3 DEF Detections, Locking
<1>6. Noted'
  BY <1>3 DEF Detections, Noted
<1> QED BY <1>3, <1>4, <1>5, <1>6 DEF Detections

\* A detection notes the adapter and the fingerprint of one configuration.
LEMMA AskStep ==
  ASSUME ListInv, Detections, NEW t \in Task, NEW n \in Name, Ask(t, n)
  PROVE  Detections' /\ \A u \in Task : u # t => pc'[u] = pc[u] /\ job'[u] = job[u]
<1> DEFINE j == [name |-> n, adapter |-> manager.backends[n],
                 print |-> Fingerprint(At(config, n)), old |-> Nil, meanwhile |-> "nothing"]
<1>1. /\ pc[t] = "idle" /\ Has(config, n) /\ Loaded(manager, n)
      /\ \/ t \in Scheduler /\ lock' = lock
         \/ t \in Applier /\ lock = Nil /\ lock' = t
      /\ pc' = [pc EXCEPT ![t] = "detect"] /\ doubled' = doubled
      /\ config \in Seq(Entry) /\ manager \in Managers
  BY DEF Ask, ListInv
<1>2. job' = [job EXCEPT ![t] = j]
  BY Zenon DEF Ask
<1>3. /\ manager.backends[n] \in Adapter /\ At(config, n) \in Entry
      /\ n \notin doubled => manager.backends[n].conf = At(config, n).conf
  <2>1. manager.backends[n] \in Adapter
    BY <1>1, ManagerFacts DEF Loaded
  <2>2. n \notin doubled => manager.backends[n].conf = At(config, n).conf
    BY <1>1, ServedNow DEF ServedAt, Loaded
  <2> QED BY <1>1, <2>1, <2>2, AtFacts
<1>4. Fingerprint(At(config, n)) \in Prints /\ Fingerprint(At(config, n)).conf = At(config, n).conf
  BY <1>3 DEF Fingerprint, Entry, Prints
<1>5. /\ j \in Jobs /\ j.meanwhile = "nothing" /\ j.name = n
      /\ n \notin doubled => j.adapter.conf = j.print.conf
  BY <1>3, <1>4 DEF Jobs
<1> HIDE DEF j
<1>6. /\ pc \in [Task -> {"idle", "detect", "lock", "save"}]
      /\ job \in [Task -> Jobs \cup {Nil}] /\ lock \in Task \cup {Nil}
  BY DEF Detections, JobsTyped
<1>7. /\ pc'[t] = "detect" /\ job'[t] = j
      /\ \A u \in Task : u # t => pc'[u] = pc[u] /\ job'[u] = job[u]
      /\ pc' \in [Task -> {"idle", "detect", "lock", "save"}]
      /\ job' \in [Task -> Jobs \cup {Nil}] /\ lock' \in Task \cup {Nil}
  BY <1>1, <1>2, <1>5, <1>6
<1>8. JobsTyped'
  BY <1>5, <1>7 DEF Detections, JobsTyped
<1>9. Locking'
  <2> SUFFICES ASSUME NEW u \in Task
               PROVE  /\ pc'[u] = "save" => lock' = u
                      /\ (u \in Applier /\ pc'[u] # "idle") => lock' = u
    BY DEF Locking
  <2>1. Scheduler \cap Applier = {} /\ Nil \notin Task
    BY ProviderAssumption
  <2>2. CASE u = t
    BY <1>1, <1>7, <2>1, <2>2
  <2>3. CASE u # t
    <3>1. pc'[u] = pc[u]
      BY <1>7, <2>3
    <3>2. /\ pc[u] = "save" => lock = u
          /\ (u \in Applier /\ pc[u] # "idle") => lock = u
      BY DEF Detections, Locking
    <3> QED BY <1>1, <2>1, <3>1, <3>2
  <2> QED BY <2>2, <2>3
<1>10. Noted'
  BY <1>1, <1>5, <1>7 DEF Detections, Noted
<1> QED BY <1>7, <1>8, <1>9, <1>10 DEF Detections

\* The scheduler waits for the lock with its answer.
LEMMA AnsweredStep ==
  ASSUME Detections, NEW t \in Task, Answered(t)
  PROVE  Detections' /\ \A u \in Task : (pc'[u] = "save" <=> pc[u] = "save") /\ job'[u] = job[u]
<1>1. /\ t \in Scheduler /\ pc[t] = "detect" /\ pc' = [pc EXCEPT ![t] = "lock"]
      /\ UNCHANGED <<lock, job, doubled>>
  BY DEF Answered
<1>2. /\ pc' \in [Task -> {"idle", "detect", "lock", "save"}] /\ pc'[t] = "lock"
      /\ \A u \in Task : u # t => pc'[u] = pc[u]
  BY <1>1 DEF Detections
<1>3. JobsTyped'
  BY <1>1, <1>2 DEF Detections, JobsTyped
<1>4. Locking'
  BY <1>1, <1>2, ProviderAssumption DEF Detections, Locking
<1>5. Noted'
  BY <1>1, <1>2 DEF Detections, Noted
<1> QED BY <1>1, <1>2, <1>3, <1>4, <1>5 DEF Detections

\* The scheduler has changed the list and starts to save.
LEMMA EntersStep ==
  ASSUME Detections, NEW t \in Task, pc[t] = "lock", lock = Nil, lock' = t,
         pc' = [pc EXCEPT ![t] = "save"], NEW models \in Catalogue,
         job' = [job EXCEPT ![t] = [@ EXCEPT !.old = models]], doubled' = doubled
  PROVE  /\ Detections'
         /\ pc'[t] = "save" /\ job'[t].old = models /\ job'[t].name = job[t].name
         /\ job'[t].meanwhile = "nothing"
         /\ \A u \in Task : u # t => pc'[u] # "save"
<1> DEFINE j == [job[t] EXCEPT !.old = models]
<1>1. job' = [job EXCEPT ![t] = j]
  BY Zenon
<1>2. /\ pc \in [Task -> {"idle", "detect", "lock", "save"}]
      /\ job \in [Task -> Jobs \cup {Nil}] /\ job[t] \in Jobs
      /\ job[t].meanwhile = "nothing"
  BY DEF Detections, JobsTyped
<1>3. /\ j \in Jobs /\ j.old = models /\ j.name = job[t].name
      /\ j.meanwhile = "nothing" /\ j.adapter = job[t].adapter /\ j.print = job[t].print
  BY <1>2 DEF Jobs
<1> HIDE DEF j
<1>4. /\ pc'[t] = "save" /\ job'[t] = j
      /\ \A u \in Task : u # t => pc'[u] = pc[u] /\ job'[u] = job[u]
      /\ pc' \in [Task -> {"idle", "detect", "lock", "save"}]
      /\ job' \in [Task -> Jobs \cup {Nil}]
  BY <1>1, <1>2, <1>3
<1>5. Nil \notin Task
  BY ProviderAssumption
<1>6. \A u \in Task : u # t => pc'[u] # "save"
  BY <1>4, <1>5 DEF Detections, Locking
<1>7. JobsTyped'
  BY <1>3, <1>4, <1>6 DEF Detections, JobsTyped
<1>8. Locking'
  BY <1>4, <1>5, <1>6 DEF Detections, Locking
<1>9. Noted'
  BY <1>3, <1>4 DEF Detections, Noted
<1> QED BY <1>3, <1>4, <1>6, <1>7, <1>8, <1>9 DEF Detections

\* No detection survives a restart.
LEMMA RestartDetections ==
  ASSUME RestartProcess
  PROVE  Detections' /\ \A t \in Task : pc'[t] # "save"
<1>1. lock' = Nil /\ pc' = [t \in Task |-> "idle"] /\ job' = [t \in Task |-> Nil]
  BY DEF RestartProcess
<1>2. \A t \in Task : pc'[t] = "idle"
  BY <1>1
<1>3. JobsTyped' /\ Locking' /\ Noted'
  BY <1>1, <1>2 DEF JobsTyped, Locking, Noted
<1> QED BY <1>1, <1>2, <1>3 DEF Detections

-----------------------------------------------------------------------------
(* The file                                                                *)

\* Nobody saves afterwards.
LEMMA QuietStep ==
  ASSUME \A t \in Task : pc'[t] # "save", ~dirty' => file' \in {config', Broken}
  PROVE  FileKept'
BY DEF FileKept

\* Nobody saves, so the file is the list.
LEMMA QuietNow ==
  ASSUME Detections, FileKept, lock = Nil \/ \E t \in Task : lock = t /\ pc[t] # "save"
  PROVE  /\ \A t \in Task : pc[t] # "save"
         /\ ~dirty => file \in {config, Broken}
<1>1. Nil \notin Task
  BY ProviderAssumption
<1>2. \A t \in Task : pc[t] # "save"
  BY <1>1 DEF Detections, Locking
<1> QED BY <1>2 DEF FileKept

\* A detection of which the list and the file see nothing.
LEMMA UnseenStep ==
  ASSUME ConfigInv, UNCHANGED <<config, file, bak, badWrites, dirty>>,
         \A u \in Task : /\ pc'[u] = "save" <=> pc[u] = "save"
                         /\ pc[u] = "save" => job'[u] = job[u]
  PROVE  FilesTyped' /\ FileKept'
<1>1. FilesTyped'
  BY DEF ConfigInv, FilesTyped
<1>2. ASSUME NEW u \in Task, pc[u] = "save" PROVE Behind(u)' <=> Behind(u)
  BY <1>2 DEF Behind, Undone
<1>3. FileKept'
  BY <1>2 DEF ConfigInv, FileKept
<1> QED BY <1>1, <1>3

\* A write with a copy, of the list there is then or one that is not stored.
LEMMA WriteStep ==
  ASSUME ConfigInv, ListInv', NEW list, NEW done \in BOOLEAN, SaveWithBackup(list, done),
         done => list = config', dirty' \in BOOLEAN
  PROVE  /\ FilesTyped'
         /\ done => file' = config'
         /\ ~done => file' \in {file, Broken}
<1>1. FilesTyped /\ (done => list \in Seq(Entry))
  BY DEF ConfigInv, ListInv
<1>2. /\ file' \in Seq(Entry) \cup {Broken}
      /\ bak' \in Seq(Entry) \cup {Broken, Nil}
      /\ badWrites' \in 0..MaxBadWrites
      /\ done => file' = list
      /\ ~done => file' \in {file, Broken}
  BY <1>1, SaveTyped
<1> QED BY <1>2 DEF FilesTyped

\* A request with the lock changes the list and writes it.
LEMMA SerializedWrite ==
  ASSUME ConfigInv, ListInv', lock = Nil, pc' = pc, NEW list, NEW done \in BOOLEAN,
         SaveWithBackup(list, done), done => list = config',
         \/ dirty' = ~done
         \/ done /\ dirty' = FALSE
         \/ ~done /\ config' = config /\ dirty' = dirty
  PROVE  FilesTyped' /\ FileKept'
<1>1. /\ \A t \in Task : pc[t] # "save"
      /\ ~dirty => file \in {config, Broken}
      /\ dirty \in BOOLEAN
  BY QuietNow DEF ConfigInv, FilesTyped
<1>2. dirty' \in BOOLEAN
  BY <1>1
<1>3. /\ FilesTyped'
      /\ done => file' = config'
      /\ ~done => file' \in {file, Broken}
  BY <1>2, WriteStep
<1>4. ~dirty' => file' \in {config', Broken}
  BY <1>1, <1>3
<1> QED BY <1>1, <1>3, <1>4, QuietStep

\* create_backend writes the list, or leaves it unsaved and says so.
LEMMA CreateFile ==
  ASSUME ConfigInv, ListInv', NEW e, CreateBackend(e)
  PROVE  FilesTyped' /\ FileKept'
<1>1. lock = Nil /\ pc' = pc
  BY DEF CreateBackend, Serialized
<1>2. \/ \E done \in BOOLEAN : SaveWithBackup(config', done) /\ dirty' = ~done
      \/ dirty' = TRUE /\ UNCHANGED <<file, bak, badWrites>>
  BY DEF CreateBackend, Unsaved, fileVars
<1>3. ASSUME NEW done \in BOOLEAN, SaveWithBackup(config', done), dirty' = ~done
      PROVE  FilesTyped' /\ FileKept'
  BY <1>1, <1>3, SerializedWrite
<1>4. CASE dirty' = TRUE /\ UNCHANGED <<file, bak, badWrites>>
  <2>1. dirty' \in BOOLEAN /\ dirty'
    BY <1>4, Zenon
  <2>2. FilesTyped'
    BY <1>4, <2>1 DEF ConfigInv, FilesTyped
  <2> QED BY <2>1, <2>2 DEF FileKept
<1> QED BY <1>2, <1>3, <1>4

\* update_backend writes the new list or puts the old one back.
LEMMA UpdateFile ==
  ASSUME ConfigInv, ListInv', NEW n, NEW sent, NEW kept, UpdateBackend(n, sent, kept)
  PROVE  FilesTyped' /\ FileKept'
<1> DEFINE old == At(config, n)
           e == IF kept THEN [sent EXCEPT !.models = old.models] ELSE sent
           new == Put(config, n, e)
<1>1. lock = Nil /\ pc' = pc
  BY DEF UpdateBackend, Serialized
<1>2. \/ config' = new /\ SaveWithBackup(new, TRUE) /\ dirty' = FALSE
      \/ /\ config' = config /\ dirty' = dirty
         /\ SaveWithBackup(new, FALSE) \/ UNCHANGED <<fileVars, badWrites>>
  BY Zenon DEF UpdateBackend
<1> HIDE DEF new
<1>3. CASE config' = new /\ SaveWithBackup(new, TRUE) /\ dirty' = FALSE
  BY <1>1, <1>3, SerializedWrite
<1>4. CASE config' = config /\ dirty' = dirty /\ SaveWithBackup(new, FALSE)
  BY <1>1, <1>4, SerializedWrite
<1>5. CASE config' = config /\ dirty' = dirty /\ UNCHANGED <<fileVars, badWrites>>
  <2>1. \A t \in Task : pc[t] # "save"
    BY <1>1, QuietNow DEF ConfigInv
  <2> QED BY <1>1, <1>5, <2>1, UnseenStep DEF fileVars
<1> QED BY <1>2, <1>3, <1>4, <1>5

\* delete_backend, update_auto_detect_schedule and reorder_failover_queue.
LEMMA EditFile ==
  ASSUME ConfigInv, ListInv', NEW n,
         DeleteBackend(n) \/ UpdateSchedule(n) \/ ReorderQueue(n)
  PROVE  FilesTyped' /\ FileKept'
<1>1. lock = Nil /\ pc' = pc
  BY DEF DeleteBackend, UpdateSchedule, ReorderQueue, Serialized
<1>2. CASE DeleteBackend(n) \/ UpdateSchedule(n)
  <2>1. PICK done \in BOOLEAN : SaveWithBackup(config', done) /\ dirty' = ~done
    BY <1>2 DEF DeleteBackend, UpdateSchedule, Unsaved
  <2> QED BY <1>1, <2>1, SerializedWrite
<1>3. CASE ReorderQueue(n)
  <2> DEFINE new == Tuned(LastIndex(config, n))
  <2>1. \/ SaveWithBackup(new, TRUE) /\ config' = new /\ dirty' = FALSE
        \/ SaveWithBackup(new, FALSE) /\ config' = config /\ dirty' = dirty
    BY <1>3, Zenon DEF ReorderQueue
  <2> HIDE DEF new
  <2> QED BY <1>1, <2>1, SerializedWrite
<1> QED BY <1>2, <1>3

\* A request without the lock writes, and marks the detections that save.
LEMMA UnlockedFile ==
  ASSUME ConfigInv, ListInv', FilesTyped', pc' = pc,
         NEW replaced, NEW done \in BOOLEAN, Meanwhile(replaced, done),
         UNCHANGED <<lock, pc>>, doubled \subseteq doubled',
         done => file' = config',
         ~done => (dirty' \/ (dirty' = dirty /\ config' = config /\ replaced = {}
                              /\ file' \in {file, Broken}))
  PROVE  FileKept'
<1>1. Detections /\ dirty \in BOOLEAN /\ dirty' \in BOOLEAN
  BY DEF ConfigInv, FilesTyped
<1>2. \A t \in Task : pc[t] = "save" =>
        /\ job'[t].name = job[t].name /\ job'[t].old = job[t].old
        /\ job'[t].meanwhile =
             IF job[t].name \in replaced THEN "replaced"
             ELSE IF done /\ job[t].meanwhile = "nothing" THEN "written"
             ELSE job[t].meanwhile
  BY <1>1, MarkedStep
<1>3. CASE done
  <2>1. \A t \in Task : pc[t] = "save" => Behind(t)'
    <3> SUFFICES ASSUME NEW t \in Task, pc[t] = "save" PROVE Behind(t)'
      OBVIOUS
    <3>1. job'[t].meanwhile # "nothing"
      BY <1>2, <1>3
    <3> QED BY <1>3, <3>1 DEF Behind
  <2> QED BY <1>3, <2>1 DEF FileKept
<1>4. CASE ~done
  <2> SUFFICES ASSUME ~dirty' PROVE FileKept'
    BY DEF FileKept
  <2>1. /\ dirty' = dirty /\ config' = config /\ replaced = {}
        /\ file' \in {file, Broken} /\ ~dirty
    BY <1>1, <1>4
  <2>2. ASSUME NEW t \in Task, pc[t] = "save" PROVE Behind(t)'
    <3>1. job'[t].meanwhile = job[t].meanwhile /\ Undone(t)' = Undone(t)
      BY <1>2, <1>4, <2>1, <2>2 DEF Undone
    <3>2. Behind(t)
      BY <2>1, <2>2 DEF ConfigInv, FileKept
    <3> QED BY <2>1, <3>1, <3>2 DEF Behind
  <2> QED BY <2>1, <2>2 DEF ConfigInv, FileKept
<1> QED BY <1>3, <1>4

\* import_backends may run while a detection saves.
LEMMA ImportFile ==
  ASSUME ConfigInv, ListInv', NEW e, ImportBackend(e)
  PROVE  FilesTyped' /\ FileKept' /\ Detections'
<1>1. PICK done \in BOOLEAN :
        /\ SaveWithBackup(config', done) /\ dirty' = ~done /\ Meanwhile({e.name}, done)
  BY DEF ImportBackend, Unsaved
<1>2. UNCHANGED <<lock, pc>> /\ doubled \subseteq doubled'
  BY DEF ImportBackend
<1>3. dirty' \in BOOLEAN
  BY <1>1
<1>4. FilesTyped' /\ (done => file' = config')
  BY <1>1, <1>3, WriteStep
<1>5. FileKept'
  BY <1>1, <1>2, <1>4, UnlockedFile
<1>6. Detections'
  BY <1>1, <1>2, MarkedStep DEF ConfigInv
<1> QED BY <1>4, <1>5, <1>6

\* restore_backends, likewise.
LEMMA RestoreFile ==
  ASSUME ConfigInv, ListInv', RestoreBackends
  PROVE  FilesTyped' /\ FileKept' /\ Detections'
<1>1. PICK done \in BOOLEAN :
        /\ SaveConfig(bak, done) /\ dirty' = ~done /\ Meanwhile(Name, done)
  BY DEF RestoreBackends, Unsaved
<1>2. UNCHANGED <<lock, pc, bak>> /\ doubled \subseteq doubled' /\ config' = bak
  BY DEF RestoreBackends
<1>3. dirty' \in BOOLEAN
  BY <1>1
<1>4. config' \in Seq(Entry) /\ MaxBadWrites \in Nat
  BY ProviderAssumption DEF ListInv
<1>5. FilesTyped' /\ (done => file' = config')
  BY <1>1, <1>2, <1>3, <1>4 DEF SaveConfig, FailsWrite, ConfigInv, FilesTyped
<1>6. FileKept'
  BY <1>1, <1>2, <1>5, UnlockedFile
<1>7. Detections'
  BY <1>1, <1>2, MarkedStep DEF ConfigInv
<1> QED BY <1>5, <1>6, <1>7

\* A save of other settings may write what a detection has not saved yet.
LEMMA OtherFile ==
  ASSUME ConfigInv, ListInv', OtherSave
  PROVE  FilesTyped' /\ FileKept' /\ Detections'
<1>1. PICK done \in BOOLEAN :
        /\ SaveWithBackup(config, done) /\ dirty' = (dirty /\ ~done) /\ Meanwhile({}, done)
  BY DEF OtherSave
<1>2. UNCHANGED <<lock, pc, config>> /\ doubled' = doubled
  BY DEF OtherSave
<1>3. dirty \in BOOLEAN
  BY DEF ConfigInv, FilesTyped
<1>4. dirty' \in BOOLEAN /\ (~done => dirty' = dirty)
  BY <1>1, <1>3
<1>5. FilesTyped' /\ (done => file' = config') /\ (~done => file' \in {file, Broken})
  BY <1>1, <1>2, <1>4, WriteStep
<1>6. FileKept'
  BY <1>1, <1>2, <1>4, <1>5, UnlockedFile
<1>7. Detections'
  BY <1>1, <1>2, MarkedStep DEF ConfigInv
<1> QED BY <1>5, <1>6, <1>7

\* A start reads the list from the file.
LEMMA RestartFile ==
  ASSUME ConfigInv, RestartProcess
  PROVE  FilesTyped' /\ FileKept'
<1>1. config' = file /\ UNCHANGED <<file, bak, badWrites>> /\ dirty' = FALSE
  BY DEF RestartProcess, fileVars
<1>2. FilesTyped'
  BY <1>1 DEF ConfigInv, FilesTyped
<1> QED BY <1>1, <1>2, RestartDetections, QuietStep

\* A question to a provider changes neither list nor file.
LEMMA AskFile ==
  ASSUME ConfigInv, NEW t \in Task, NEW n \in Name, Ask(t, n)
  PROVE  FilesTyped' /\ FileKept' /\ Detections'
<1>1. /\ pc[t] = "idle" /\ pc' = [pc EXCEPT ![t] = "detect"]
      /\ UNCHANGED <<config, file, bak, badWrites, dirty>>
  BY DEF Ask, fileVars
<1>2. Detections' /\ \A u \in Task : u # t => pc'[u] = pc[u] /\ job'[u] = job[u]
  BY AskStep DEF ConfigInv
<1>3. pc'[t] = "detect"
  BY <1>1 DEF ConfigInv, Detections
<1> QED BY <1>1, <1>2, <1>3, UnseenStep

\* A detection that stores nothing changes neither list nor file.
LEMMA EndFile ==
  ASSUME ConfigInv, NEW t \in Task, NoAnswer(t) \/ Discards(t) \/ Answered(t)
  PROVE  FilesTyped' /\ FileKept' /\ Detections'
<1>1. UNCHANGED <<config, file, bak, badWrites, dirty>> /\ doubled' = doubled
  BY DEF NoAnswer, Discards, Answered, fileVars, bounds
<1>2. CASE NoAnswer(t) \/ Discards(t)
  <2>1. pc[t] # "idle" /\ pc[t] # "save" /\ Ends(t)
    BY <1>2 DEF NoAnswer, Discards
  <2>2. /\ Detections' /\ pc'[t] = "idle"
        /\ \A u \in Task : u # t => pc'[u] = pc[u] /\ job'[u] = job[u]
    BY <1>1, <2>1, EndsStep DEF ConfigInv
  <2> QED BY <1>1, <2>1, <2>2, UnseenStep
<1>3. CASE Answered(t)
  <2>1. /\ Detections'
        /\ \A u \in Task : (pc'[u] = "save" <=> pc[u] = "save") /\ job'[u] = job[u]
    BY <1>3, AnsweredStep DEF ConfigInv
  <2> QED BY <1>1, <2>1, UnseenStep
<1> QED BY <1>2, <1>3

\* The scheduler changes the list before the file: until the write has ended
\* the file holds what Undone would give back.
LEMMA EnterFile ==
  ASSUME ConfigInv, NEW t \in Task, Enter(t)
  PROVE  FilesTyped' /\ FileKept' /\ Detections'
<1> DEFINE n == job[t].name
           models == At(config, n).models
<1>1. /\ pc[t] = "lock" /\ lock = Nil /\ News(t) /\ doubled' = doubled
      /\ UNCHANGED <<file, bak, badWrites, dirty>>
  BY DEF Enter, fileVars
<1>2. /\ \A u \in Task : pc[u] # "save"
      /\ ~dirty => file \in {config, Broken}
      /\ config \in Seq(Entry) /\ Detections /\ FilesTyped
  BY <1>1, QuietNow DEF ConfigInv, ListInv
<1>3. FilesTyped'
  BY <1>1, <1>2 DEF FilesTyped
<1>4. \/ /\ config' = Found(t)
         /\ lock' = t
         /\ pc' = [pc EXCEPT ![t] = "save"]
         /\ job' = [job EXCEPT ![t] = [@ EXCEPT !.old = models]]
      \/ Ends(t) /\ config' = config
  BY Zenon DEF Enter
<1>5. Has(config, n)
  BY <1>1 DEF News, Current
<1>6. models \in Catalogue
  BY <1>2, <1>5, AtFacts DEF Entry
<1>7. CASE Ends(t) /\ config' = config
  <2>1. /\ Detections' /\ pc'[t] = "idle"
        /\ \A u \in Task : u # t => pc'[u] = pc[u] /\ job'[u] = job[u]
    BY <1>1, <1>2, <1>7, EndsStep
  <2> QED BY <1>1, <1>2, <1>7, <2>1, UnseenStep
<1>8. CASE /\ config' = Found(t)
           /\ lock' = t
           /\ pc' = [pc EXCEPT ![t] = "save"]
           /\ job' = [job EXCEPT ![t] = [@ EXCEPT !.old = models]]
  <2>1. /\ Detections'
        /\ pc'[t] = "save" /\ job'[t].old = models /\ job'[t].name = n
        /\ job'[t].meanwhile = "nothing"
        /\ \A u \in Task : u # t => pc'[u] # "save"
    <3> HIDE DEF models
    <3> QED BY <1>1, <1>2, <1>6, <1>8, EntersStep
  <2>2. job[t] \in Jobs
    BY <1>1, <1>2 DEF Detections, JobsTyped
  <2>3. Undone(t)' = With(config', n, models)
    BY <2>1 DEF Undone
  <2>4. With(config', n, models) = config
    <3>1. job[t].adapter.conf \in Catalogue
      BY <1>2, <2>2, FoundFacts
    <3>2. config' = With(config, n, job[t].adapter.conf)
      BY <1>8 DEF Found
    <3> HIDE DEF n
    <3> QED BY <1>2, <1>5, <3>1, <3>2, WithBack
  <2>5. ~dirty' => Behind(t)'
    BY <1>1, <1>2, <2>1, <2>3, <2>4 DEF Behind
  <2>6. FileKept'
    BY <2>1, <2>5 DEF FileKept
  <2> QED BY <1>3, <2>1, <2>6
<1> QED BY <1>4, <1>7, <1>8

\* The write ended, or the list is the one of the file again.
LEMMA SavedFile ==
  ASSUME ConfigInv, ListInv', NEW t \in Task, Saved(t)
  PROVE  FilesTyped' /\ FileKept' /\ Detections'
<1>1. pc[t] = "save" /\ Ends(t) /\ doubled' = doubled
  BY DEF Saved
<1>2. Detections /\ dirty \in BOOLEAN /\ FileKept
  BY DEF ConfigInv, FilesTyped
<1>3. /\ Detections' /\ pc'[t] = "idle"
      /\ \A u \in Task : u # t => pc'[u] = pc[u] /\ job'[u] = job[u]
  BY <1>1, <1>2, EndsStep
<1>4. \A u \in Task : pc'[u] # "save"
  BY <1>1, <1>2, <1>3 DEF Detections, Locking
<1>5. \/ SaveWithBackup(config, TRUE) /\ dirty' = FALSE /\ config' = config
      \/ /\ SaveWithBackup(config, FALSE) /\ config' = Undone(t)
         /\ dirty' = (dirty \/ job[t].meanwhile = "written")
  BY Zenon DEF Saved
<1>6. CASE SaveWithBackup(config, TRUE) /\ dirty' = FALSE /\ config' = config
  <2>1. dirty' \in BOOLEAN
    BY <1>6
  <2>2. FilesTyped' /\ file' = config'
    BY <1>6, <2>1, WriteStep
  <2> QED BY <1>3, <1>4, <2>2, QuietStep
<1>7. CASE /\ SaveWithBackup(config, FALSE) /\ config' = Undone(t)
           /\ dirty' = (dirty \/ job[t].meanwhile = "written")
  <2>1. dirty' \in BOOLEAN
    BY <1>2, <1>7
  <2>2. FilesTyped' /\ file' \in {file, Broken}
    BY <1>7, <2>1, WriteStep
  <2>3. ASSUME ~dirty' PROVE file' \in {config', Broken}
    <3>1. ~dirty /\ job[t].meanwhile # "written"
      BY <1>2, <1>7, <2>3
    <3>2. job[t].meanwhile \in {"nothing", "replaced"}
      BY <1>1, <1>2, <3>1 DEF Detections, JobsTyped, Jobs
    <3>3. Behind(t)
      BY <1>1, <1>2, <3>1 DEF FileKept
    <3>4. file \in {Undone(t), Broken}
      BY <3>2, <3>3 DEF Behind, Undone
    <3> QED BY <1>7, <2>2, <3>4
  <2> QED BY <1>3, <1>4, <2>2, <2>3, QuietStep
<1> QED BY <1>5, <1>6, <1>7

\* apply_auto_detect_models changes the list once the file is written.
LEMMA ApplyFile ==
  ASSUME ConfigInv, ListInv', NEW t \in Task, Apply(t)
  PROVE  FilesTyped' /\ FileKept' /\ Detections'
<1>1. pc[t] = "detect" /\ t \in Applier /\ Ends(t) /\ doubled' = doubled
  BY DEF Apply
<1>2. Detections /\ dirty \in BOOLEAN /\ FileKept /\ FilesTyped
  BY DEF ConfigInv, FilesTyped
<1>3. /\ \A u \in Task : pc[u] # "save"
      /\ ~dirty => file \in {config, Broken}
  <2>1. lock = t
    BY <1>1, <1>2 DEF Detections, Locking
  <2> QED BY <1>1, <1>2, <2>1, QuietNow
<1>4. /\ Detections' /\ pc'[t] = "idle"
      /\ \A u \in Task : u # t => pc'[u] = pc[u] /\ job'[u] = job[u]
  BY <1>1, <1>2, EndsStep
<1>5. \A u \in Task : pc'[u] # "save"
  BY <1>3, <1>4
<1>6. \/ UNCHANGED <<config, fileVars, badWrites, dirty>>
      \/ SaveWithBackup(Found(t), TRUE) /\ config' = Found(t) /\ dirty' = FALSE
      \/ SaveWithBackup(Found(t), FALSE) /\ config' = config /\ dirty' = dirty
  BY Zenon DEF Apply
<1>7. CASE UNCHANGED <<config, fileVars, badWrites, dirty>>
  BY <1>3, <1>4, <1>5, <1>7, UnseenStep DEF fileVars
<1>8. CASE SaveWithBackup(Found(t), TRUE) /\ config' = Found(t) /\ dirty' = FALSE
  <2>1. dirty' \in BOOLEAN
    BY <1>8
  <2>2. FilesTyped' /\ file' = config'
    BY <1>8, <2>1, WriteStep
  <2> QED BY <1>4, <1>5, <2>2, QuietStep
<1>9. CASE SaveWithBackup(Found(t), FALSE) /\ config' = config /\ dirty' = dirty
  <2>1. dirty' \in BOOLEAN
    BY <1>2, <1>9
  <2>2. FilesTyped' /\ file' \in {file, Broken}
    BY <1>9, <2>1, WriteStep
  <2> QED BY <1>3, <1>4, <1>5, <1>9, <2>2, QuietStep
<1> QED BY <1>6, <1>7, <1>8, <1>9

-----------------------------------------------------------------------------
(* The invariant                                                           *)

\* The numbers of edits and of detections.
LEMMA CountsStep ==
  ASSUME Counted, ConfigNext
  PROVE  edits' \in 0..MaxEdits /\ runs' \in 0..MaxRuns
<1>1. MaxEdits \in Nat /\ MaxRuns \in Nat
  BY ProviderAssumption
<1> DEFINE Edited == edits < MaxEdits /\ edits' = edits + 1 /\ runs' = runs
          Started == runs < MaxRuns /\ runs' = runs + 1 /\ edits' = edits
          Neither == edits' = edits /\ runs' = runs
<1>2. ASSUME NEW e \in Sent, CreateBackend(e) \/ ImportBackend(e) PROVE Edited
  BY <1>2, Zenon DEF CreateBackend, ImportBackend, Serialized, Edit
<1>3. ASSUME NEW n \in Name, NEW e \in Sent, NEW kept \in BOOLEAN, UpdateBackend(n, e, kept)
      PROVE  Edited
  BY <1>3, Zenon DEF UpdateBackend, Serialized, Edit
<1>4. ASSUME NEW n \in Name, DeleteBackend(n) \/ UpdateSchedule(n) \/ ReorderQueue(n)
      PROVE  Edited
  BY <1>4, Zenon DEF DeleteBackend, UpdateSchedule, ReorderQueue, Serialized, Edit
<1>5. ASSUME RestoreBackends \/ OtherSave \/ RestartProcess PROVE Edited
  BY <1>5, Zenon DEF RestoreBackends, OtherSave, RestartProcess, Edit
<1>6. ASSUME NEW t \in Task, NEW n \in Name, Ask(t, n) PROVE Started
  BY <1>6 DEF Ask
<1>7. ASSUME NEW t \in Task, NoAnswer(t) \/ Answered(t) \/ Discards(t) PROVE Neither
  BY <1>7 DEF NoAnswer, Answered, Discards, bounds
<1>8. ASSUME NEW t \in Task, Enter(t) \/ Saved(t) \/ Apply(t) PROVE Neither
  BY <1>8 DEF Enter, Saved, Apply
<1>9. Edited \/ Started \/ Neither
  <2> HIDE DEF Edited, Started, Neither
  <2> QED BY <1>2, <1>3, <1>4, <1>5, <1>6, <1>7, <1>8 DEF ConfigNext
<1> QED BY <1>1, <1>9 DEF Counted

\* A detection that runs has locals of their types.
LEMMA JobNow ==
  ASSUME ConfigInv, NEW t \in Task, pc[t] # "idle"
  PROVE  job[t] \in Jobs /\ (pc[t] = "save" => job[t].old \in Catalogue)
BY DEF ConfigInv, Detections, JobsTyped

\* The list, the manager and what goes on serving, for every step.
LEMMA ListStep ==
  ASSUME ConfigInv, [ConfigNext]_configVars
  PROVE  ListInv' /\ StaysStep
<1>1. ListInv /\ badLoads \in Nat /\ file \in Seq(Entry) \cup {Broken}
      /\ bak \in Seq(Entry) \cup {Broken, Nil}
  BY DEF ConfigInv, Counted, FilesTyped
<1>2. ASSUME NEW e \in Sent, CreateBackend(e) \/ ImportBackend(e) PROVE ListInv' /\ StaysStep
  BY <1>1, <1>2, SentEntry, CreateList, ImportList
<1>3. ASSUME NEW n \in Name, NEW e \in Sent, NEW kept \in BOOLEAN, UpdateBackend(n, e, kept)
      PROVE  ListInv' /\ StaysStep
  BY <1>1, <1>3, SentEntry, UpdateList
<1>4. ASSUME NEW n \in Name, DeleteBackend(n) \/ UpdateSchedule(n) \/ ReorderQueue(n)
      PROVE  ListInv' /\ StaysStep
  BY <1>1, <1>4, DeleteList, ScheduleList, ReorderList
<1>5. CASE RestoreBackends \/ OtherSave \/ RestartProcess
  BY <1>1, <1>5, RestoreList, OtherList, RestartList
<1>6. ASSUME NEW t \in Task, NEW n \in Name, Ask(t, n) PROVE ListInv' /\ StaysStep
  BY <1>1, <1>6, SameStep DEF Ask
<1>7. ASSUME NEW t \in Task, NoAnswer(t) \/ Answered(t) \/ Discards(t)
      PROVE  ListInv' /\ StaysStep
  BY <1>1, <1>7, SameStep DEF NoAnswer, Answered, Discards
<1>8. ASSUME NEW t \in Task, Enter(t) \/ Saved(t) \/ Apply(t) PROVE ListInv' /\ StaysStep
  <2>1. pc[t] # "idle" /\ (Saved(t) => pc[t] = "save")
    BY <1>8 DEF Enter, Saved, Apply
  <2> QED BY <1>1, <1>8, <2>1, JobNow, EnterList, SavedList, ApplyList
<1>9. CASE UNCHANGED configVars
  BY <1>1, <1>9, SameStep DEF configVars
<1> QED BY <1>2, <1>3, <1>4, <1>5, <1>6, <1>7, <1>8, <1>9 DEF ConfigNext

\* The files and the detections, for every step.
LEMMA FileStep ==
  ASSUME ConfigInv, [ConfigNext]_configVars, ListInv'
  PROVE  FilesTyped' /\ FileKept' /\ Detections'
<1>1. ASSUME UNCHANGED <<lock, pc, job>>, doubled \subseteq doubled' PROVE Detections'
  BY <1>1, DetectionsSame DEF ConfigInv
<1>2. ASSUME NEW e \in Sent, CreateBackend(e) PROVE FilesTyped' /\ FileKept' /\ Detections'
  <2>1. UNCHANGED <<lock, pc, job>> /\ doubled' = doubled
    BY <1>2 DEF CreateBackend, Serialized
  <2> QED BY <1>1, <1>2, <2>1, CreateFile
<1>3. ASSUME NEW e \in Sent, ImportBackend(e) PROVE FilesTyped' /\ FileKept' /\ Detections'
  BY <1>3, ImportFile
<1>4. ASSUME NEW n \in Name, NEW e \in Sent, NEW kept \in BOOLEAN, UpdateBackend(n, e, kept)
      PROVE  FilesTyped' /\ FileKept' /\ Detections'
  <2>1. UNCHANGED <<lock, pc, job>>
    BY <1>4 DEF UpdateBackend, Serialized
  <2>2. doubled \subseteq doubled'
    <3>1. doubled' = doubled \/ \E k : doubled' = doubled \cup {k}
      BY <1>4, Zenon DEF UpdateBackend
    <3> QED BY <3>1
  <2> QED BY <1>1, <1>4, <2>1, <2>2, UpdateFile
<1>5. ASSUME NEW n \in Name, DeleteBackend(n) \/ UpdateSchedule(n) \/ ReorderQueue(n)
      PROVE  FilesTyped' /\ FileKept' /\ Detections'
  <2>1. UNCHANGED <<lock, pc, job>> /\ doubled' = doubled
    BY <1>5 DEF DeleteBackend, UpdateSchedule, ReorderQueue, Serialized
  <2> QED BY <1>1, <1>5, <2>1, EditFile
<1>6. CASE RestoreBackends \/ OtherSave \/ RestartProcess
  BY <1>6, RestoreFile, OtherFile, RestartFile, RestartDetections
<1>7. ASSUME NEW t \in Task, NEW n \in Name, Ask(t, n)
      PROVE  FilesTyped' /\ FileKept' /\ Detections'
  BY <1>7, AskFile
<1>8. ASSUME NEW t \in Task, NoAnswer(t) \/ Answered(t) \/ Discards(t)
      PROVE  FilesTyped' /\ FileKept' /\ Detections'
  BY <1>8, EndFile
<1>9. ASSUME NEW t \in Task, Enter(t) \/ Saved(t) \/ Apply(t)
      PROVE  FilesTyped' /\ FileKept' /\ Detections'
  BY <1>9, EnterFile, SavedFile, ApplyFile
<1>10. CASE UNCHANGED configVars
  <2>1. UNCHANGED <<config, file, bak, badWrites, dirty, lock, pc, job>> /\ doubled' = doubled
    BY <1>10 DEF configVars, fileVars, bounds
  <2> QED BY <1>1, <2>1, UnseenStep
<1> QED BY <1>2, <1>3, <1>4, <1>5, <1>6, <1>7, <1>8, <1>9, <1>10 DEF ConfigNext

\* Every step preserves the invariant.
LEMMA ConfigInvStep == ConfigInv /\ [ConfigNext]_configVars => ConfigInv'
<1> SUFFICES ASSUME ConfigInv, [ConfigNext]_configVars PROVE ConfigInv'
  OBVIOUS
<1>1. ListInv'
  BY ListStep
<1>2. FilesTyped' /\ FileKept' /\ Detections'
  BY <1>1, FileStep
<1>3. Counted'
  <2>1. CASE ConfigNext
    <3>1. /\ badLoads \in 0..MaxBadLoads /\ file \in Seq(Entry) \cup {Broken}
          /\ bak \in Seq(Entry) \cup {Broken, Nil} /\ Counted
      BY DEF ConfigInv, Counted, FilesTyped
    <3> QED BY <2>1, <3>1, BadLoadsStep, CountsStep DEF Counted
  <2>2. CASE UNCHANGED configVars
    BY <2>2 DEF configVars, bounds, ConfigInv, Counted
  <2> QED BY <2>1, <2>2
<1> QED BY <1>1, <1>2, <1>3 DEF ConfigInv

\* It holds at the first start.
LEMMA ConfigInvInit == ConfigInit => ConfigInv
<1> SUFFICES ASSUME ConfigInit PROVE ConfigInv
  OBVIOUS
<1>1. /\ file \in Seq(Entry) /\ config = file /\ doubled = {}
      /\ manager = LoadAll(config, Empty, {}) /\ Twice(config) = {}
  BY ProviderAssumption DEF ConfigInit, Twice
<1>2. ListInv
  BY <1>1, EmptyFacts, LoadAllFacts DEF ListInv, Served
<1>3. FilesTyped /\ Counted
  <2>1. {MaxEdits, MaxRuns, MaxBadLoads, MaxBadWrites} \subseteq Nat
    BY ProviderAssumption
  <2>2. bak = Nil /\ edits = 0 /\ runs = 0 /\ badLoads = 0 /\ badWrites = 0
    BY DEF ConfigInit
  <2>3. dirty \in BOOLEAN
    BY Zenon DEF ConfigInit
  <2>4. FilesTyped
    BY <1>1, <2>1, <2>2, <2>3 DEF FilesTyped
  <2>5. Counted
    BY <2>1, <2>2 DEF Counted
  <2> QED BY <2>4, <2>5
<1>4. /\ lock = Nil /\ pc = [t \in Task |-> "idle"] /\ job = [t \in Task |-> Nil]
      /\ \A t \in Task : pc[t] = "idle"
  BY DEF ConfigInit
<1>5. Detections
  BY <1>4 DEF Detections, JobsTyped, Locking, Noted
<1>6. FileKept
  BY <1>1, <1>4 DEF FileKept
<1> QED BY <1>2, <1>3, <1>5, <1>6 DEF ConfigInv

\* It always holds.
LEMMA ConfigInvariant == ConfigSpec => []ConfigInv
BY ConfigInvInit, ConfigInvStep, PTL DEF ConfigSpec

-----------------------------------------------------------------------------
(* What the invariant gives                                                *)

\* What a detection stores is the catalogue of the provider its entry
\* describes: the answer is stored where the fingerprint has not changed.
LEMMA FoundFresh ==
  ASSUME ConfigInv, NEW t \in Task, pc[t] # "idle", News(t), config' = Found(t)
  PROVE  FreshStep
<1>1. /\ config \in Seq(Entry) /\ job[t] \in Jobs
      /\ job[t].name \notin doubled => job[t].adapter.conf = job[t].print.conf
  BY DEF ConfigInv, ListInv, Detections, JobsTyped, Noted
<1> DEFINE n == job[t].name
<1>2. /\ Has(config, n) /\ Fingerprint(At(config, n)) = job[t].print
      /\ config' = With(config, n, job[t].adapter.conf)
  BY DEF News, Current, Found
<1>3. job[t].adapter.conf \in Catalogue
  BY <1>1 DEF Jobs, Adapter, Catalogue
<1>4. \A i \in DOMAIN config : \/ config'[i] = config[i]
                               \/ /\ i = Index(config, n)
                                  /\ config'[i].models = job[t].adapter.conf
                                  /\ config'[i].conf = config[i].conf
                                  /\ config'[i].name = n
  BY <1>1, <1>2, <1>3, WithFacts
<1>5. At(config, n) \in Entry /\ At(config, n) = config[Index(config, n)]
  BY <1>1, <1>2, IndexFacts, EntryFacts DEF At
<1>6. At(config, n).conf = job[t].print.conf
  BY <1>2, <1>5 DEF Fingerprint, Entry
<1> QED BY <1>1, <1>4, <1>5, <1>6 DEF FreshStep

\* What is put back after a write that failed is what was there before.
LEMMA UndoneFresh ==
  ASSUME ConfigInv, NEW t \in Task, pc[t] = "save", config' \in {config, Undone(t)}
  PROVE  FreshStep
<1>1. config \in Seq(Entry) /\ job[t].old \in Catalogue
  BY DEF ConfigInv, ListInv, Detections, JobsTyped
<1>2. CASE config' = config
  BY <1>2 DEF FreshStep
<1>3. CASE config' = With(config, job[t].name, job[t].old)
  <2>1. \A i \in DOMAIN config : config'[i] = config[i] \/ config'[i].models = job[t].old
    BY <1>1, <1>3, WithFacts
  <2> QED BY <2>1 DEF FreshStep
<1> QED BY <1>2, <1>3 DEF Undone

\* Catalogues for every step: the edits are counted, and only Enter, Apply and
\* Saved change the list without one.
LEMMA FreshConfig == ConfigInv /\ [ConfigNext]_configVars => [FreshStep]_configVars
<1> SUFFICES ASSUME ConfigInv, ConfigNext PROVE FreshStep
  OBVIOUS
<1>0. edits \in Nat
  BY DEF ConfigInv, Counted
<1>1. ASSUME Edit PROVE FreshStep
  BY <1>0, <1>1 DEF Edit, FreshStep
<1>2. ASSUME config' = config PROVE FreshStep
  BY <1>2 DEF FreshStep
<1>3. ASSUME NEW e \in Sent, CreateBackend(e) \/ ImportBackend(e) PROVE FreshStep
  BY <1>1, <1>3 DEF CreateBackend, ImportBackend, Serialized
<1>4. ASSUME NEW n \in Name, NEW e \in Sent, NEW kept \in BOOLEAN, UpdateBackend(n, e, kept)
      PROVE  FreshStep
  BY <1>1, <1>4 DEF UpdateBackend, Serialized
<1>5. ASSUME NEW n \in Name, DeleteBackend(n) \/ UpdateSchedule(n) \/ ReorderQueue(n)
      PROVE  FreshStep
  BY <1>1, <1>5 DEF DeleteBackend, UpdateSchedule, ReorderQueue, Serialized
<1>6. ASSUME RestoreBackends \/ OtherSave \/ RestartProcess PROVE FreshStep
  BY <1>1, <1>6 DEF RestoreBackends, OtherSave, RestartProcess
<1>7. ASSUME NEW t \in Task, NEW n \in Name, Ask(t, n) PROVE FreshStep
  BY <1>2, <1>7 DEF Ask
<1>8. ASSUME NEW t \in Task, NoAnswer(t) \/ Answered(t) \/ Discards(t) PROVE FreshStep
  BY <1>2, <1>8 DEF NoAnswer, Answered, Discards
<1>9. ASSUME NEW t \in Task, Enter(t) \/ Apply(t) PROVE FreshStep
  <2>1. pc[t] # "idle" /\ News(t)
    BY <1>9, Zenon DEF Enter, Apply
  <2>2. config' = Found(t) \/ config' = config
    BY <1>9, Zenon DEF Enter, Apply
  <2> QED BY <1>2, <2>1, <2>2, FoundFresh
<1>10. ASSUME NEW t \in Task, Saved(t) PROVE FreshStep
  <2>1. pc[t] = "save" /\ config' \in {config, Undone(t)}
    BY <1>10, Zenon DEF Saved
  <2> QED BY <2>1, UndoneFresh
<1> QED BY <1>3, <1>4, <1>5, <1>6, <1>7, <1>8, <1>9, <1>10 DEF ConfigNext

-----------------------------------------------------------------------------
(* The theorems about ProviderConfig                                       *)

\* The list, its file and copy, the manager, the lock, the detections and the
\* counters keep their types.
THEOREM ConfigTypeCorrect == ConfigSpec => []ConfigTypeOK
<1>1. ConfigInv => ConfigTypeOK
  BY DEF ConfigInv, ConfigTypeOK, ListInv, Managers, FilesTyped, Detections, Counted
<1> QED BY <1>1, ConfigInvariant, PTL

\* The adapters LLMManager serves with are the ones registered under their
\* names, each made of an enabled configuration that is in the list, whatever
\* edits, imports, restores, restarts and detections do in whatever order, and
\* whichever of their loads and writes fail.
THEOREM ServesWhatIsConfigured == ConfigSpec => []Registered
<1>1. ConfigInv => Registered
  <2> SUFFICES ASSUME ConfigInv PROVE Registered
    OBVIOUS
  <2>1. manager \in Managers /\ \A k \in Name \ doubled : ServedAt(config, manager, k)
    BY DEF ConfigInv, ListInv, Served
  <2>2. \A a \in manager.active : a.name \in doubled \/ manager.backends[a.name] = a
    BY <2>1, ManagerFacts DEF ServedAt
  <2>3. ASSUME NEW n \in Name \ doubled, Loaded(manager, n)
        PROVE  /\ Has(config, n) /\ At(config, n).enable
               /\ At(config, n).conf = manager.backends[n].conf
    BY <2>1, <2>3, Zenon DEF ServedAt, Loaded
  <2> QED BY <2>2, <2>3 DEF Registered
<1> QED BY <1>1, ConfigInvariant, PTL

\* While no detection is writing, and apart from the requests that say they
\* could not save, config.yaml holds the list in memory or was cut off: failed
\* updates, reorderings and detections are undone.
THEOREM FileFollowsMemory == ConfigSpec => []MemoryIsFile
<1>1. ConfigInv => MemoryIsFile
  BY DEF ConfigInv, FileKept, MemoryIsFile
<1> QED BY <1>1, ConfigInvariant, PTL

\* A detection never stores the models of a provider under the entry of
\* another: the comparison of adapters and fingerprints under the lock is
\* enough, however long the provider's answer took.
THEOREM CataloguesAreFresh == ConfigSpec => FreshCatalogue
BY ConfigInvariant, FreshConfig, PTL DEF ConfigSpec, FreshCatalogue

\* No step takes a provider out of service whose entry stays as it is, unless
\* a load fails or a restore cannot be saved.
THEOREM ProvidersStayLoaded == ConfigSpec => StaysLoaded
<1>1. ConfigInv /\ [ConfigNext]_configVars => [StaysStep]_configVars
  BY ListStep
<1> QED BY <1>1, ConfigInvariant, PTL DEF ConfigSpec, StaysLoaded
=============================================================================
