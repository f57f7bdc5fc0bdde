---------------------------- MODULE LLMFailover -----------------------------
(***************************************************************************)
(* llm/llm_manager.py: model requests, plain (_execute_chat) and streamed  *)
(* (_execute_stream_iterator), tried on a queue of providers, each guarded *)
(* by a circuit breaker whose isolation outlives the process               *)
(* (llm/circuit_store.py), while providers are edited and reset.           *)
(*                                                                         *)
(* Requests run in threads of their own, administration on the event loop. *)
(* A step goes from one access to shared state (a breaker, the table of    *)
(* breakers, the file) or one wait to the next.                            *)
(***************************************************************************)
EXTENDS CircuitBreaker

CONSTANTS
  Provider,
  Request,
  Streamed,        \* the requests that are streams
  Cancellable,     \* the requests given a cancellation_event
  Candidates,      \* get_provider_candidates: the queue of each request, by
                   \* the providers that are loaded, in order of priority
  MaxRetries,      \* max_retries of a provider
  WritesFail,      \* whether writing circuit-state.json may fail
  MaxAdmin         \* bound: restarts, resets and unloads

ASSUME FailoverAssumption ==
  /\ Streamed \subseteq Request
  /\ Cancellable \subseteq Request
  /\ Candidates \in [Request -> [SUBSET Provider -> Seq(Provider)]]
  /\ MaxRetries \in Nat
  /\ WritesFail \in BOOLEAN
  /\ MaxAdmin \in Nat

VARIABLES
  breaker,   \* _resilience_breakers
  missing,   \* the providers without an entry in _resilience_breakers
  loaded,    \* active_backends: the providers offered to new requests
  stored,    \* circuit-state.json
  req,       \* the local state of each request
  reset,     \* the local state of reset_provider_circuit
  streak,    \* history: successes reported to a breaker since its last failure
  admin      \* administrative operations so far

vars == <<breaker, missing, loaded, stored, req, reset, streak, admin>>

File == [Provider -> DurableState]
NoFile == [p \in Provider |-> NotStored]

\* given is a history: how many attempts handed output to the consumer.
RequestState ==
  [pc: {"new", "select", "attempt", "call", "snapshot", "save", "backoff", "done"},
   queue: Seq(Provider), pos: Nat \ {0}, retry: 0..MaxRetries,
   late: BOOLEAN, cancelled: BOOLEAN, fatal: BOOLEAN, image: File,
   orphan: BOOLEAN, emitted: BOOLEAN, probing: BOOLEAN, given: Nat]

Fresh ==
  [pc |-> "new", queue |-> <<>>, pos |-> 1, retry |-> 0, late |-> FALSE,
   cancelled |-> FALSE, fatal |-> FALSE, image |-> NoFile, orphan |-> FALSE,
   emitted |-> FALSE, probing |-> FALSE, given |-> 0]

NoReset == [step |-> "idle", on |-> {}, image |-> NoFile]

TypeOK ==
  /\ breaker \in [Provider -> Breaker]
  /\ missing \subseteq Provider
  /\ loaded \subseteq Provider
  /\ stored \in File
  /\ req \in [Request -> RequestState]
  /\ reset \in [step: {"idle", "forget", "rebuild"}, on: SUBSET Provider, image: File]
  /\ streak \in [Provider -> Nat]
  /\ admin \in 0..MaxAdmin

Init ==
  /\ breaker = [p \in Provider |-> NewBreaker]
  /\ missing = {}
  /\ loaded = Provider
  /\ stored = NoFile
  /\ req = [r \in Request |-> Fresh]
  /\ reset = NoReset
  /\ streak = [p \in Provider |-> 0]
  /\ admin = 0

-----------------------------------------------------------------------------
Cur(r) == req[r].queue[req[r].pos]
Running(r) == req[r].pc \notin {"new", "done"}

\* Between acquire() and the last report a request makes about a provider.
Busy(r) == req[r].pc \in {"attempt", "call", "snapshot", "save", "backoff"}

Ended(x) == [Fresh EXCEPT !.pc = "done", !.given = x.given]

\* The next candidate; the request fails when there is none.
NextProvider(x) ==
  IF x.pos < Len(x.queue)
  THEN [x EXCEPT !.pc = "select", !.pos = @ + 1, !.probing = FALSE,
                 !.orphan = FALSE, !.fatal = FALSE, !.image = NoFile]
  ELSE Ended(x)

Become(r, x) == req' = [req EXCEPT ![r] = x]

\* A request reports to the breaker object that admitted it, even when the
\* table meanwhile holds another one.
Report(r, b) ==
  breaker' = IF req[r].orphan THEN breaker ELSE [breaker EXCEPT ![Cur(r)] = b]

\* _atomic_write replaces the file or leaves it alone; the callers of save()
\* and forget() log an error and go on.
Write(image) == stored' = image \/ (WritesFail /\ stored' = stored)

shared == <<missing, loaded, stored, reset, admin>>

-----------------------------------------------------------------------------
(* The environment of a request                                            *)

Begin(r) ==
  LET queue == Candidates[r][loaded] IN
  /\ req[r].pc = "new"
  /\ Become(r, IF queue = <<>> THEN Ended(req[r])
               ELSE [req[r] EXCEPT !.pc = "select", !.queue = queue])
  /\ UNCHANGED <<breaker, streak, shared>>

\* The deadline is read at these places only; passing before is the same.
DeadlinePasses(r) ==
  /\ req[r].pc \in {"attempt", "call", "save"}
  /\ ~req[r].late
  /\ Become(r, [req[r] EXCEPT !.late = TRUE])
  /\ UNCHANGED <<breaker, streak, shared>>

\* So is the cancellation event.
Cancel(r) ==
  /\ r \in Cancellable
  /\ req[r].pc \in {"select", "attempt", "call", "backoff"}
  /\ ~req[r].cancelled
  /\ Become(r, [req[r] EXCEPT !.cancelled = TRUE])
  /\ UNCHANGED <<breaker, streak, shared>>

Ripen(p) ==
  /\ breaker[p].state = "open"
  /\ ~breaker[p].ripe
  /\ breaker' = [breaker EXCEPT ![p].ripe = TRUE]
  /\ UNCHANGED <<req, streak, shared>>

\* get_resilience_status: a look at the breakers notices the time.
Status ==
  /\ breaker' = [p \in Provider |->
                  IF p \in loaded THEN Refresh(breaker[p]) ELSE breaker[p]]
  /\ UNCHANGED <<req, streak, shared>>

-----------------------------------------------------------------------------
(* One request                                                             *)

\* The head of the loop over the candidates: breaker.acquire(), on a breaker
\* made on the spot when the table has none.
Select(r) ==
  LET b == breaker[Cur(r)] IN
  /\ req[r].pc = "select"
  /\ IF req[r].cancelled
     THEN Become(r, Ended(req[r])) /\ UNCHANGED <<breaker, missing>>
     ELSE /\ breaker' = [breaker EXCEPT ![Cur(r)] = Acquire(b)]
          /\ missing' = missing \ {Cur(r)}
          /\ Become(r, IF Grants(b)
                       THEN [req[r] EXCEPT !.pc = "attempt", !.retry = 0,
                                           !.probing = Acquire(b).probe]
                       ELSE NextProvider(req[r]))
  /\ UNCHANGED <<loaded, stored, reset, streak, admin>>

\* The head of the retry loop.  A request whose deadline has passed leaves
\* without reporting to the breaker.
Attempt(r) ==
  /\ req[r].pc = "attempt"
  /\ \/ /\ req[r].late
        /\ Become(r, Ended(req[r]))
        /\ UNCHANGED breaker
     \/ /\ ~req[r].late /\ req[r].cancelled
        /\ Report(r, RecordCancelled(breaker[Cur(r)]))
        /\ Become(r, Ended(req[r]))
     \/ /\ ~req[r].late /\ ~req[r].cancelled
        /\ Become(r, [req[r] EXCEPT !.pc = "call", !.emitted = FALSE])
        /\ UNCHANGED breaker
  /\ UNCHANGED <<streak, shared>>

\* A chunk of a stream is yielded to the consumer.
Chunk(r) ==
  /\ req[r].pc = "call"
  /\ r \in Streamed
  /\ ~req[r].late /\ ~req[r].cancelled
  /\ Become(r, [req[r] EXCEPT !.emitted = TRUE,
                              !.given = IF req[r].emitted THEN @ ELSE @ + 1])
  /\ UNCHANGED <<breaker, streak, shared>>

\* The consumer drops the stream at a yield: GeneratorExit passes both
\* except clauses, so nothing is reported.
CloseStream(r) ==
  /\ req[r].pc = "call"
  /\ req[r].emitted
  /\ Become(r, Ended(req[r]))
  /\ UNCHANGED <<breaker, streak, shared>>

Succeed(r) ==
  /\ req[r].pc = "call"
  /\ ~req[r].late /\ ~req[r].cancelled
  /\ Report(r, RecordSuccess(breaker[Cur(r)]))
  /\ streak' = IF req[r].orphan THEN streak ELSE [streak EXCEPT ![Cur(r)] = @ + 1]
  /\ Become(r, Ended(req[r]))
  /\ UNCHANGED shared

\* The wait for the provider notices the cancellation event.
Interrupt(r) ==
  /\ req[r].pc = "call"
  /\ req[r].cancelled
  /\ Report(r, RecordCancelled(breaker[Cur(r)]))
  /\ Become(r, Ended(req[r]))
  /\ UNCHANGED <<streak, shared>>

\* Mutant: a wait without the deadline.
Fail_WaitsForAnswer(r, fatal) ==
  /\ req[r].pc = "call"
  /\ ~req[r].cancelled /\ ~req[r].late
  /\ Report(r, RecordFailure(breaker[Cur(r)]))
  /\ streak' = IF req[r].orphan THEN streak ELSE [streak EXCEPT ![Cur(r)] = 0]
  /\ Become(r, [req[r] EXCEPT !.pc = "snapshot", !.fatal = fatal,
                              !.probing = FALSE])
  /\ UNCHANGED shared

\* An error of the provider or a timeout, which is retryable.
Fail(r, fatal) ==
  /\ req[r].pc = "call"
  /\ ~req[r].cancelled
  /\ fatal => ~req[r].late
  /\ Report(r, RecordFailure(breaker[Cur(r)]))
  /\ streak' = IF req[r].orphan THEN streak ELSE [streak EXCEPT ![Cur(r)] = 0]
  /\ Become(r, [req[r] EXCEPT !.pc = "snapshot", !.fatal = fatal,
                              !.probing = FALSE])
  /\ UNCHANGED shared

\* _persist_circuit_state: the breakers in the table, which durable_state()
\* refreshes, are copied outside the lock that protects the file.
Snapshot(r) ==
  LET now == [p \in Provider |-> Refresh(breaker[p])] IN
  /\ req[r].pc = "snapshot"
  /\ breaker' = now
  /\ Become(r, [req[r] EXCEPT !.pc = "save",
                  !.image = [p \in Provider |->
                     IF p \in missing THEN NotStored ELSE Durable(now[p])]])
  /\ UNCHANGED <<streak, shared>>

\* Mutant: a stream that has already produced output is tried again.
AfterFailure_Retried(x) ==
  CASE x.fatal -> Ended(x)
    [] ~x.fatal /\ x.retry >= MaxRetries -> NextProvider(x)
    [] ~x.fatal /\ x.retry < MaxRetries /\ x.late -> Ended(x)
    [] ~x.fatal /\ x.retry < MaxRetries /\ ~x.late ->
         [x EXCEPT !.pc = "backoff", !.image = NoFile]

\* Mutant: one retry more than max_retries.
AfterFailure_OneTooMany(x) ==
  CASE x.emitted \/ x.fatal -> Ended(x)
    [] ~(x.emitted \/ x.fatal) /\ x.retry > MaxRetries -> NextProvider(x)
    [] ~(x.emitted \/ x.fatal) /\ x.retry <= MaxRetries /\ x.late -> Ended(x)
    [] ~(x.emitted \/ x.fatal) /\ x.retry <= MaxRetries /\ ~x.late ->
         [x EXCEPT !.pc = "backoff", !.image = NoFile]

AfterFailure(x) ==
  CASE x.emitted \/ x.fatal -> Ended(x)
    [] ~(x.emitted \/ x.fatal) /\ x.retry >= MaxRetries -> NextProvider(x)
    [] ~(x.emitted \/ x.fatal) /\ x.retry < MaxRetries /\ x.late -> Ended(x)
    [] ~(x.emitted \/ x.fatal) /\ x.retry < MaxRetries /\ ~x.late ->
         [x EXCEPT !.pc = "backoff", !.image = NoFile]

\* The copy is written, and the failure is acted on.
Save(r) ==
  /\ req[r].pc = "save"
  /\ Write(req[r].image)
  /\ Become(r, AfterFailure(req[r]))
  /\ UNCHANGED <<breaker, missing, loaded, reset, streak, admin>>

\* _wait_for_backoff: a cancelled request leaves, others try again without
\* asking the breaker.
Backoff(r) ==
  /\ req[r].pc = "backoff"
  /\ Become(r, IF req[r].cancelled THEN Ended(req[r])
               ELSE [req[r] EXCEPT !.pc = "attempt", !.retry = @ + 1])
  /\ UNCHANGED <<breaker, streak, shared>>

-----------------------------------------------------------------------------
(* Administration                                                          *)

\* The requests that still hold the breaker object p had.
Orphaned(p) ==
  [r \in Request |->
    IF Busy(r) /\ Cur(r) = p THEN [req[r] EXCEPT !.orphan = TRUE] ELSE req[r]]

\* load(): a file that is a day old, or cannot be read, counts as empty.
Loadable == {stored, NoFile}

\* _initialize_resilience_state: a provider without a breaker gets one, with
\* the isolation the file records; ripe are those whose recovery time is over.
Initialized(gone, file, ripe) ==
  [p \in Provider |->
    IF p \in gone THEN Restore(file[p], p \in ripe) ELSE breaker[p]]

InitializedStreak(gone, file) ==
  [p \in Provider |-> IF p \in gone THEN file[p].recovered ELSE streak[p]]

Initialize(gone) ==
  /\ \E file \in Loadable, ripe \in SUBSET Provider :
       /\ breaker' = Initialized(gone, file, ripe)
       /\ streak' = InitializedStreak(gone, file)
  /\ missing' = {}

Unload(p) ==
  /\ admin < MaxAdmin
  /\ p \in loaded
  /\ admin' = admin + 1
  /\ loaded' = loaded \ {p}
  /\ missing' = missing \cup {p}
  /\ breaker' = [breaker EXCEPT ![p] = NewBreaker]
  /\ req' = Orphaned(p)
  /\ streak' = [streak EXCEPT ![p] = 0]
  /\ UNCHANGED <<stored, reset>>

Load(p) ==
  /\ p \notin loaded
  /\ loaded' = loaded \cup {p}
  /\ Initialize(missing)
  /\ UNCHANGED <<stored, req, reset, admin>>

\* refresh_resilience_settings, after a provider that is not loaded was
\* edited: breakers in the table stay as they are, the others are made.
RefreshSettings ==
  /\ missing # {}
  /\ Initialize(missing)
  /\ UNCHANGED <<loaded, stored, req, reset, admin>>

\* reset_provider_circuit: forget() reads the file under its lock ...
ResetRead(p) ==
  /\ admin < MaxAdmin
  /\ reset.step = "idle"
  /\ admin' = admin + 1
  /\ reset' = [step |-> IF stored[p].stored THEN "forget" ELSE "rebuild", on |-> {p},
               image |-> IF stored[p].stored
                         THEN [stored EXCEPT ![p] = NotStored] ELSE NoFile]
  /\ UNCHANGED <<breaker, missing, loaded, stored, req, streak>>

\* ... and writes it back without the record, under the lock again;
ResetForget ==
  /\ reset.step = "forget"
  /\ Write(reset.image)
  /\ reset' = [reset EXCEPT !.step = "rebuild", !.image = NoFile]
  /\ UNCHANGED <<breaker, missing, loaded, req, streak, admin>>

\* then the breaker is dropped and made again, from the file.
ResetRebuild(p) ==
  /\ reset.step = "rebuild"
  /\ reset.on = {p}
  /\ Initialize(missing \cup {p})
  /\ req' = Orphaned(p)
  /\ reset' = NoReset
  /\ UNCHANGED <<loaded, stored, admin>>

\* The process ends and starts again.
Restart ==
  /\ admin < MaxAdmin
  /\ admin' = admin + 1
  /\ Initialize(Provider)
  /\ loaded' = Provider
  /\ req' = [r \in Request |-> IF Running(r) THEN Ended(req[r]) ELSE req[r]]
  /\ reset' = NoReset
  /\ UNCHANGED stored

-----------------------------------------------------------------------------
Step(r) ==
  \/ Select(r) \/ Attempt(r) \/ Chunk(r) \/ CloseStream(r) \/ Succeed(r)
  \/ Interrupt(r) \/ (\E fatal \in BOOLEAN : Fail(r, fatal))
  \/ Snapshot(r) \/ Save(r) \/ Backoff(r)

Administer ==
  \/ \E p \in Provider : Unload(p) \/ Load(p) \/ ResetRead(p) \/ ResetRebuild(p)
  \/ ResetForget \/ RefreshSettings \/ Restart

Next ==
  \/ \E r \in Request : Begin(r) \/ DeadlinePasses(r) \/ Cancel(r) \/ Step(r)
  \/ \E p \in Provider : Ripen(p)
  \/ Status
  \/ Administer

Spec == Init /\ [][Next]_vars

\* Threads run and the clock advances; the wait for a provider ends by its
\* answer, its error, the deadline or the cancellation; the consumer of a
\* stream reads on or closes it.
Fairness ==
  /\ \A r \in Request :
       /\ WF_vars(DeadlinePasses(r))
       /\ WF_vars(Select(r) \/ Attempt(r) \/ Snapshot(r) \/ Save(r) \/ Backoff(r))
       /\ WF_vars(Succeed(r) \/ Interrupt(r) \/ CloseStream(r) \/ Fail(r, FALSE))
  /\ \A p \in Provider : WF_vars(Ripen(p))

FairSpec == Spec /\ Fairness

-----------------------------------------------------------------------------
(* Properties                                                              *)

\* The text a consumer reads comes from one attempt: neither a retry nor a
\* fail-over of _execute_stream_iterator follows output already handed out.
OneAttemptEmits == \A r \in Request : req[r].given <= 1

\* A closed breaker has seen fewer failures in a row than failure_threshold,
\* whatever late results, resets, edits and restarts it went through.
ClosedBelowThreshold ==
  \A p \in Provider :
    breaker[p].state = "closed" => breaker[p].consecutive < FailureThreshold

\* Without an administrative step, an isolated provider is trusted again only
\* after recovery_success_threshold successes with no failure among them,
\* those from before a restart included.
TrustIsEarned ==
  [][\A p \in Provider :
       breaker[p].state # "closed" /\ breaker'[p].state = "closed"
         => \/ streak'[p] >= RecoverySuccesses
            \/ <<admin, reset, loaded, missing>>' # <<admin, reset, loaded, missing>>]_vars

\* Every request ends: no thread waits for a provider, a breaker or another
\* request for ever.
EveryRequestEnds == \A r \in Request : Running(r) ~> ~Running(r)

\* Half-open is a step of the recovery: the permit for a probe does not stay
\* taken for ever.
ProbeReturns ==
  \A p \in Provider :
    []<>(~(breaker[p].state = "half_open" /\ breaker[p].probe))
=============================================================================
