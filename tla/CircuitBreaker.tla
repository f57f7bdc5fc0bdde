--------------------------- MODULE CircuitBreaker ---------------------------
(***************************************************************************)
(* llm/resilience.py, class CircuitBreaker: the value of one breaker and   *)
(* the effect of each of its methods.  Every method runs under the         *)
(* breaker's own lock, so each is one step; LLMFailover applies them.      *)
(*                                                                         *)
(* Time is reduced to one bit: ripe says that recovery_timeout_seconds     *)
(* have passed since the breaker was opened.                               *)
(***************************************************************************)
EXTENDS Naturals, Sequences, FiniteSets

CONSTANTS
  FailureThreshold,    \* failure_threshold
  ErrorPercent,        \* error_rate_threshold, in percent
  MinRequests,         \* min_requests
  HistorySize,         \* history_size
  RecoverySuccesses    \* recovery_success_threshold

ASSUME BreakerAssumption ==
  /\ FailureThreshold \in Nat \ {0}
  /\ ErrorPercent \in 0..100
  /\ MinRequests \in Nat \ {0}
  /\ HistorySize \in Nat \ {0}
  /\ RecoverySuccesses \in Nat \ {0}

CircuitState == {"closed", "open", "half_open"}

Breaker ==
  [state: CircuitState, ripe: BOOLEAN, probe: BOOLEAN, consecutive: Nat,
   recovered: Nat, outcomes: Seq(BOOLEAN), inflight: Nat]

NewBreaker ==
  [state |-> "closed", ripe |-> FALSE, probe |-> FALSE, consecutive |-> 0,
   recovered |-> 0, outcomes |-> <<>>, inflight |-> 0]

\* The sample window never gets shorter than min_requests, or the error-rate
\* rule could not apply.
Window == IF HistorySize >= MinRequests THEN HistorySize ELSE MinRequests

\* deque(maxlen=Window).append
Record(outcomes, ok) ==
  IF Len(outcomes) < Window THEN Append(outcomes, ok)
  ELSE Append(Tail(outcomes), ok)

\* open becomes half-open by the passing of time, noticed by the next call.
Refresh(b) ==
  IF b.state = "open" /\ b.ripe
  THEN [b EXCEPT !.state = "half_open", !.probe = FALSE]
  ELSE b

ShouldOpen(b) ==
  \/ b.consecutive >= FailureThreshold
  \/ /\ Len(b.outcomes) >= MinRequests
     /\ 100 * Cardinality({i \in DOMAIN b.outcomes : ~b.outcomes[i]})
          >= ErrorPercent * Len(b.outcomes)

Release(b) == [b EXCEPT !.inflight = IF @ > 0 THEN @ - 1 ELSE 0]

\* acquire(): whether a call is let through, and the breaker afterwards.
Grants(b) ==
  LET c == Refresh(b) IN c.state # "open" /\ ~(c.state = "half_open" /\ c.probe)

Acquire(b) ==
  LET c == Refresh(b) IN
  IF ~Grants(b) THEN c
  ELSE [c EXCEPT !.probe = (c.state = "half_open"), !.inflight = c.inflight + 1]

\* Mutant: one success is enough to close a half-open breaker.
RecordSuccess_ClosesAtOnce(b) ==
  LET c == Refresh(Release(b)) IN
  IF c.state = "open" THEN c
  ELSE [c EXCEPT !.state = "closed", !.ripe = FALSE, !.probe = FALSE,
                 !.consecutive = 0, !.recovered = 0,
                 !.outcomes = Record(c.outcomes, TRUE)]

\* Mutant: closing the breaker does not clear the count of failures.
RecordSuccess_KeepsFailures(b) ==
  LET c == Refresh(Release(b)) IN
  CASE c.state = "open" -> c
    [] c.state = "half_open" /\ c.recovered + 1 < RecoverySuccesses ->
         [c EXCEPT !.recovered = c.recovered + 1, !.probe = FALSE]
    [] c.state = "half_open" /\ c.recovered + 1 >= RecoverySuccesses ->
         [c EXCEPT !.state = "closed", !.ripe = FALSE, !.probe = FALSE,
                   !.recovered = 0, !.outcomes = <<TRUE>>]
    [] c.state = "closed" ->
         [c EXCEPT !.ripe = FALSE, !.probe = FALSE,
                   !.outcomes = Record(c.outcomes, TRUE)]

RecordSuccess(b) ==
  LET c == Refresh(Release(b)) IN
  CASE c.state = "open" -> c
    [] c.state = "half_open" /\ c.recovered + 1 < RecoverySuccesses ->
         [c EXCEPT !.recovered = c.recovered + 1, !.probe = FALSE]
    [] c.state = "half_open" /\ c.recovered + 1 >= RecoverySuccesses ->
         [c EXCEPT !.state = "closed", !.ripe = FALSE, !.probe = FALSE,
                   !.consecutive = 0, !.recovered = 0, !.outcomes = <<TRUE>>]
    [] c.state = "closed" ->
         [c EXCEPT !.ripe = FALSE, !.probe = FALSE, !.consecutive = 0,
                   !.outcomes = Record(c.outcomes, TRUE)]

\* record_failure() reads the state without refreshing it; opening an open
\* breaker again restarts its timer.
RecordFailure(b) ==
  LET c == [Release(b) EXCEPT !.outcomes = Record(b.outcomes, FALSE),
                              !.consecutive = b.consecutive + 1,
                              !.probe = FALSE, !.recovered = 0]
  IN IF b.state = "half_open" \/ ShouldOpen(c)
     THEN [c EXCEPT !.state = "open", !.ripe = FALSE]
     ELSE c

\* record_cancelled() clears the probe mark, whoever holds the probe.
RecordCancelled(b) == [Release(b) EXCEPT !.probe = FALSE]

\* durable_state(): nothing for a closed breaker; the window of outcomes is
\* left behind.
DurableState == [stored: BOOLEAN, half: BOOLEAN, consecutive: Nat, recovered: Nat]

NotStored ==
  [stored |-> FALSE, half |-> FALSE, consecutive |-> 0, recovered |-> 0]

Durable(b) ==
  LET c == Refresh(b) IN
  IF c.state = "closed" THEN NotStored
  ELSE [stored |-> TRUE, half |-> c.state = "half_open",
        consecutive |-> c.consecutive, recovered |-> c.recovered]

\* restore_durable_state() on a new breaker: open, or half-open when the
\* recovery time has passed meanwhile.
Restore(d, ripe) ==
  IF ~d.stored THEN NewBreaker
  ELSE Refresh([NewBreaker EXCEPT !.state = "open", !.ripe = d.half \/ ripe,
                                  !.consecutive = d.consecutive,
                                  !.recovered = d.recovered])
=============================================================================
