---------------------------- MODULE OneBotOutbox ----------------------------
(***************************************************************************)
(* The durable delivery queue of the OneBot (QQ) adapter,                  *)
(* plugins/im_onebot_adapter/outbox.py: the table of delivery rows, the    *)
(* coroutines that deliver them under a per-recipient lock, and start-up   *)
(* recovery.                                                               *)
(*                                                                         *)
(* A worker is one call of deliver().  Python runs it without interruption *)
(* between two awaits, so an action goes from one await to the next: the   *)
(* contended lock ("wait"), the back-off sleep ("sleep") and the upstream  *)
(* action ("send").  A service is one OneBotOutboxService object, which    *)
(* owns its lock table; every service works on the same database table.    *)
(***************************************************************************)
EXTENDS Naturals

CONSTANTS
  Delivery,      \* delivery_id values: one page of a reply each
  Recipient,     \* recipient_key values
  RecipientOf,   \* the recipient each delivery is addressed to
  Service,       \* OneBotOutboxService objects sharing the database
  Worker,        \* concurrent calls of deliver()
  LockState,     \* _RecipientLockState objects
  Nil,           \* Python's None
  MaxAttempts,   \* max_attempts
  MaxFaults,     \* bound: crashes, adapter restarts, cancellations, lost commits
  StoreMayFail   \* bound: the deliveries the commit of whose outcome may raise

ASSUME OutboxAssumption ==
  /\ RecipientOf \in [Delivery -> Recipient]
  /\ MaxAttempts \in Nat \ {0}
  /\ MaxFaults \in Nat
  /\ StoreMayFail \subseteq Delivery
  /\ Nil \notin Delivery \cup LockState \cup Service

VARIABLES
  status, seqno, attempts,         \* columns of onebot_outbox_deliveries
  running,                         \* services whose adapter has been started
  pc, svc, target, cur, att, lock, \* locals of each deliver() call
  locks,                           \* _recipient_locks of each service
  requests, performed,             \* upstream: attempts pending / carried out
  lost,                            \* history: rows whose outcome was not stored
  faults

rowVars == <<status, seqno, attempts>>
workerVars == <<pc, svc, target, cur, att, lock, locks>>
upstreamVars == <<requests, performed>>
vars == <<rowVars, running, workerVars, upstreamVars, lost, faults>>

TERMINAL_STATUSES == {"accepted", "ambiguous", "dead_letter"}
PENDING_STATUSES == {"queued", "retry_wait"}
Status == TERMINAL_STATUSES \cup PENDING_STATUSES \cup {"absent", "sending"}
LockKey == Service \X Recipient

TypeOK ==
  /\ status \in [Delivery -> Status]
  /\ seqno \in [Delivery -> Nat]
  /\ attempts \in [Delivery -> Nat]
  /\ running \subseteq Service
  /\ pc \in [Worker -> {"idle", "wait", "sleep", "send"}]
  /\ svc \in [Worker -> Service \cup {Nil}]
  /\ target \in [Worker -> Delivery \cup {Nil}]
  /\ cur \in [Worker -> Delivery \cup {Nil}]
  /\ att \in [Worker -> Nat]
  /\ lock \in [Worker -> LockState \cup {Nil}]
  /\ locks \in [LockKey -> LockState \cup {Nil}]
  /\ requests \subseteq Delivery \X Nat
  /\ performed \subseteq Delivery \X Nat
  /\ lost \subseteq Delivery
  /\ faults \in Nat
  /\ \A w \in Worker :
       /\ pc[w] # "idle" => svc[w] \in Service /\ target[w] \in Delivery
       /\ pc[w] \in {"sleep", "send"} => cur[w] \in Delivery

Init ==
  /\ status = [d \in Delivery |-> "absent"]
  /\ seqno = [d \in Delivery |-> 0]
  /\ attempts = [d \in Delivery |-> 0]
  /\ running = {}
  /\ pc = [w \in Worker |-> "idle"]
  /\ svc = [w \in Worker |-> Nil]
  /\ target = [w \in Worker |-> Nil]
  /\ cur = [w \in Worker |-> Nil]
  /\ att = [w \in Worker |-> 0]
  /\ lock = [w \in Worker |-> Nil]
  /\ locks = [k \in LockKey |-> Nil]
  /\ requests = {}
  /\ performed = {}
  /\ lost = {}
  /\ faults = 0

-----------------------------------------------------------------------------
(* What _deliver_recipient_through reads; st is the status column.         *)

SameRecipient(d, e) == RecipientOf[d] = RecipientOf[e]

\* Row d was enqueued before row e (a row that is not stored has seqno 0).
Before(d, e) == SameRecipient(d, e) /\ 0 < seqno[d] /\ seqno[d] < seqno[e]

\* Mutant: the check for a quarantined or dead predecessor is left out.
Blocked_Ignored(st, t) == FALSE

\* The earliest predecessor that is not accepted is quarantined or dead.
Blocked(st, t) ==
  \E b \in Delivery :
    /\ Before(b, t)
    /\ st[b] \in {"ambiguous", "dead_letter"}
    /\ \A e \in Delivery : Before(e, b) => st[e] = "accepted"

Eligible(st, t) ==
  {d \in Delivery : /\ SameRecipient(d, t)
                    /\ seqno[d] <= seqno[t]
                    /\ st[d] \in PENDING_STATUSES}

IsNext(st, t, d) ==
  d \in Eligible(st, t) /\ \A e \in Eligible(st, t) : seqno[d] <= seqno[e]

Finished(st, t) ==
  st[t] \in TERMINAL_STATUSES \/ Blocked(st, t) \/ Eligible(st, t) = {}

-----------------------------------------------------------------------------
(* The per-recipient lock.  The users counter of a lock state is the       *)
(* number of workers that refer to it.                                     *)

Users(l) == {w \in Worker : lock[w] = l}

Holds(w) == pc[w] \in {"sleep", "send"}

ResetWorker(w) ==
  /\ pc' = [pc EXCEPT ![w] = "idle"]
  /\ svc' = [svc EXCEPT ![w] = Nil]
  /\ target' = [target EXCEPT ![w] = Nil]
  /\ cur' = [cur EXCEPT ![w] = Nil]
  /\ att' = [att EXCEPT ![w] = 0]
  /\ lock' = [lock EXCEPT ![w] = Nil]

\* Mutant: the lock state is dropped although others still wait for it.
Exit_DropsSharedLock(w) ==
  /\ ResetWorker(w)
  /\ locks' = [locks EXCEPT ![<<svc[w], RecipientOf[target[w]]>>] = Nil]

\* deliver() returns or raises: the lock is released, users is decremented,
\* and the last user drops the lock state from the table.
Exit(w) ==
  /\ ResetWorker(w)
  /\ locks' = IF Users(lock[w]) = {w}
              THEN [locks EXCEPT ![<<svc[w], RecipientOf[target[w]]>>] = Nil]
              ELSE locks

\* Mutant: the row is marked before it is remembered as the one in flight.
BeginSend_RowForgotten(w, d, st) ==
  /\ status' = [st EXCEPT ![d] = "sending"]
  /\ attempts' = [attempts EXCEPT ![d] = @ + 1]
  /\ att' = [att EXCEPT ![w] = attempts[d] + 1]
  /\ requests' = requests \cup {<<d, attempts[d] + 1>>}
  /\ pc' = [pc EXCEPT ![w] = "send"]
  /\ UNCHANGED <<svc, target, cur, lock, locks>>

\* _deliver_one moves row d to "sending" and calls the sender.
BeginSend(w, d, st) ==
  /\ status' = [st EXCEPT ![d] = "sending"]
  /\ attempts' = [attempts EXCEPT ![d] = @ + 1]
  /\ att' = [att EXCEPT ![w] = attempts[d] + 1]
  /\ requests' = requests \cup {<<d, attempts[d] + 1>>}
  /\ pc' = [pc EXCEPT ![w] = "send"]
  /\ cur' = [cur EXCEPT ![w] = d]
  /\ UNCHANGED <<svc, target, lock, locks>>

\* _deliver_one finds row d in retry_wait and sleeps until next_attempt_at.
BeginSleep(w, d, st) ==
  /\ status' = st
  /\ pc' = [pc EXCEPT ![w] = "sleep"]
  /\ cur' = [cur EXCEPT ![w] = d]
  /\ UNCHANGED <<attempts, requests, svc, target, att, lock, locks>>

\* One turn of the loop of _deliver_recipient_through up to its next await,
\* from the status column st.
Through(w, st) ==
  \/ /\ Finished(st, target[w])
     /\ status' = st
     /\ Exit(w)
     /\ UNCHANGED <<attempts, requests>>
  \/ /\ ~Finished(st, target[w])
     /\ \E d \in Delivery :
          /\ IsNext(st, target[w], d)
          /\ \/ BeginSend(w, d, st)
             \/ st[d] = "retry_wait" /\ BeginSleep(w, d, st)

-----------------------------------------------------------------------------
(* Operations of the service                                               *)

\* enqueue: a known delivery_id is returned as it is; a new one gets the
\* recipient's next sequence number.
Enqueue(d) ==
  /\ running # {}
  /\ status[d] = "absent"
  /\ \E m \in {0} \cup {seqno[e] : e \in Delivery} :
       /\ \A e \in Delivery : SameRecipient(d, e) => seqno[e] <= m
       /\ m = 0 \/ \E e \in Delivery : SameRecipient(d, e) /\ seqno[e] = m
       /\ seqno' = [seqno EXCEPT ![d] = m + 1]
  /\ status' = [status EXCEPT ![d] = "queued"]
  /\ UNCHANGED <<attempts, running, lost, workerVars, upstreamVars, faults>>

\* deliver: called by the sending handler for each page and by
\* resume_pending for every pending row.
Deliver(w, s, d) ==
  LET key == <<s, RecipientOf[d]>> IN
  /\ s \in running
  /\ pc[w] = "idle"
  /\ status[d] \notin TERMINAL_STATUSES \cup {"absent"}
  /\ \E l \in LockState :
       /\ IF locks[key] # Nil THEN l = locks[key]
          ELSE Users(l) = {} /\ \A k \in LockKey : locks[k] # l
       /\ locks' = [locks EXCEPT ![key] = l]
       /\ lock' = [lock EXCEPT ![w] = l]
  /\ pc' = [pc EXCEPT ![w] = "wait"]
  /\ svc' = [svc EXCEPT ![w] = s]
  /\ target' = [target EXCEPT ![w] = d]
  /\ UNCHANGED <<cur, att, rowVars, running, lost, upstreamVars, faults>>

Acquire(w) ==
  /\ pc[w] = "wait"
  /\ \A v \in Users(lock[w]) : ~Holds(v)
  /\ Through(w, status)
  /\ UNCHANGED <<seqno, running, lost, performed, faults>>

\* The back-off sleep ends.  The row is read again and refused only when its
\* status is terminal.
Wake(w) ==
  /\ pc[w] = "sleep"
  /\ \/ /\ status[cur[w]] \notin TERMINAL_STATUSES
        /\ BeginSend(w, cur[w], status)
     \/ /\ status[cur[w]] = "accepted"
        /\ Through(w, status)
     \/ /\ status[cur[w]] \in {"ambiguous", "dead_letter"}
        /\ Exit(w)
        /\ UNCHANGED <<status, attempts, requests>>
  /\ UNCHANGED <<seqno, running, lost, performed, faults>>

\* The sender returned: _mark_accepted, then the next row up to the target.
Accepted(w) ==
  /\ pc[w] = "send"
  /\ <<cur[w], att[w]>> \in performed
  /\ Through(w, [status EXCEPT ![cur[w]] = "accepted"])
  /\ UNCHANGED <<seqno, running, lost, performed, faults>>

\* A timeout, a network error or retcode 1200: _mark_ambiguous.
Unknown(w) ==
  /\ pc[w] = "send"
  /\ status' = [status EXCEPT ![cur[w]] = "ambiguous"]
  /\ Exit(w)
  /\ UNCHANGED <<seqno, attempts, running, lost, upstreamVars, faults>>

\* An explicit refusal before the action started (OneBotRetryableError,
\* ApiNotAvailable, retcode 429 or 503): _mark_retry_wait and another turn of
\* _deliver_one, or _mark_dead_letter once the attempts are used up.
Refused(w) ==
  /\ pc[w] = "send"
  /\ <<cur[w], att[w]>> \in requests
  /\ requests' = requests \ {<<cur[w], att[w]>>}
  /\ IF att[w] >= MaxAttempts
     THEN /\ status' = [status EXCEPT ![cur[w]] = "dead_letter"]
          /\ Exit(w)
     ELSE /\ status' = [status EXCEPT ![cur[w]] = "retry_wait"]
          /\ pc' = [pc EXCEPT ![w] = "sleep"]
          /\ UNCHANGED <<svc, target, cur, att, lock, locks>>
  /\ UNCHANGED <<seqno, attempts, running, lost, performed, faults>>

\* Any other exception of the sender: _mark_dead_letter.
Failed(w) ==
  /\ pc[w] = "send"
  /\ status' = [status EXCEPT ![cur[w]] = "dead_letter"]
  /\ Exit(w)
  /\ UNCHANGED <<seqno, attempts, running, lost, upstreamVars, faults>>

\* asyncio.CancelledError at any of the three awaits (stop() cancels the
\* resume task, a caller may be cancelled): only a send in flight is marked.
Cancelled(w) ==
  /\ faults < MaxFaults
  /\ pc[w] # "idle"
  /\ IF pc[w] = "send"
     THEN status' = [status EXCEPT ![cur[w]] = "ambiguous"]
     ELSE UNCHANGED status
  /\ Exit(w)
  /\ faults' = faults + 1
  /\ UNCHANGED <<seqno, attempts, running, lost, upstreamVars>>

\* The commit of a _mark_ method raises: the exception leaves deliver() and
\* the row stays "sending".
StoreFails(w) ==
  /\ faults < MaxFaults
  /\ pc[w] = "send"
  /\ cur[w] \in StoreMayFail
  /\ Exit(w)
  /\ lost' = lost \cup {cur[w]}
  /\ faults' = faults + 1
  /\ UNCHANGED <<rowVars, running, upstreamVars>>

\* Mutants of start-up recovery: rows in flight are sent again, or left.
Recovered_Requeued(st) ==
  [d \in Delivery |-> IF st[d] = "sending" THEN "queued" ELSE st[d]]

Recovered_Skipped(st) == st

\* recover_on_startup: a row in flight may have reached the upstream.
Recovered(st) ==
  [d \in Delivery |-> IF st[d] = "sending" THEN "ambiguous" ELSE st[d]]

\* The adapter's start(): recover_on_startup quarantines every row that is
\* "sending", whichever service is sending it.  The process starts a first
\* adapter, another one, or restarts one whose handlers are still running.
Start(s) ==
  /\ \/ s \notin running /\ UNCHANGED faults
     \/ s \in running /\ faults < MaxFaults /\ faults' = faults + 1
  /\ running' = running \cup {s}
  /\ status' = Recovered(status)
  /\ UNCHANGED <<seqno, attempts, workerVars, upstreamVars, lost>>

\* The process dies: the table survives, coroutines and locks do not.
Crash ==
  /\ faults < MaxFaults
  /\ running # {}
  /\ faults' = faults + 1
  /\ running' = {}
  /\ pc' = [w \in Worker |-> "idle"]
  /\ svc' = [w \in Worker |-> Nil]
  /\ target' = [w \in Worker |-> Nil]
  /\ cur' = [w \in Worker |-> Nil]
  /\ att' = [w \in Worker |-> 0]
  /\ lock' = [w \in Worker |-> Nil]
  /\ locks' = [k \in LockKey |-> Nil]
  /\ UNCHANGED <<rowVars, upstreamVars, lost>>

\* The upstream carries an action out, possibly long after the caller
\* stopped waiting for it.
Perform ==
  \E r \in requests :
    /\ requests' = requests \ {r}
    /\ performed' = performed \cup {r}
    /\ UNCHANGED <<rowVars, running, lost, workerVars, faults>>

SendResult(w) ==
  Accepted(w) \/ Unknown(w) \/ Refused(w) \/ Failed(w)

Next ==
  \/ \E d \in Delivery : Enqueue(d)
  \/ \E w \in Worker, s \in Service, d \in Delivery : Deliver(w, s, d)
  \/ \E w \in Worker : \/ Acquire(w) \/ Wake(w) \/ SendResult(w)
                      \/ Cancelled(w) \/ StoreFails(w)
  \/ \E s \in Service : Start(s)
  \/ Crash
  \/ Perform

Spec == Init /\ [][Next]_vars

-----------------------------------------------------------------------------
(* Fairness: the event loop runs every coroutine whose await is over; the  *)
(* asyncio lock serves its waiters in order; call_action is bounded by     *)
(* wait_for; heartbeats keep calling resume_pending; the container is      *)
(* restarted.                                                              *)
Fairness ==
  /\ \A w \in Worker : /\ SF_vars(Acquire(w))
                        /\ WF_vars(Wake(w))
                        /\ WF_vars(SendResult(w))
  /\ \A d \in Delivery :
       SF_vars(\E w \in Worker, s \in Service : Deliver(w, s, d))
  /\ WF_vars(\E s \in Service : s \notin running /\ Start(s))

FairSpec == Spec /\ Fairness

-----------------------------------------------------------------------------
(* Properties                                                              *)

\* At most one coroutine at a time is between taking a recipient's lock and
\* releasing it, although lock states are created and dropped on the fly.
OneActivePerRecipient ==
  \A v, w \in Worker :
    /\ Holds(v) /\ Holds(w)
    /\ SameRecipient(target[v], target[w])
    /\ svc[v] = svc[w]
    => v = w

\* "Messages are not sent twice": whatever is refused, lost, timed out,
\* cancelled or interrupted by a restart, the upstream carries out at most
\* one attempt of a delivery.
NoDuplicateSend ==
  \A p, q \in performed : p[1] = q[1] => p = q

\* A row of the same recipient up to d whose outcome was not stored.
BehindLost(d) == \E x \in lost : SameRecipient(x, d) /\ 0 < seqno[x] /\ seqno[x] <= seqno[d]

\* A page never overtakes an earlier page of the same recipient: what the
\* upstream carries out next comes after everything it has carried out for
\* that recipient, even when an old request is carried out late.  The only
\* pages that may be overtaken are one whose outcome could not be stored, which
\* stays "sending" and stops nobody, and those behind it.
InOrderStep ==
  \A p \in performed' \ performed :
    \A q \in performed :
      SameRecipient(p[1], q[1]) => Before(q[1], p[1]) \/ BehindLost(p[1])

InOrder == [][InOrderStep]_vars

\* Every row that was accepted by the store ends in a terminal status or
\* behind a quarantined or dead predecessor; it is never forgotten in
\* "queued", "sending" or "retry_wait".  Only the commit of its own outcome
\* failing leaves a row "sending" until the next start.
EventuallySettled ==
  \A d \in Delivery \ StoreMayFail :
    status[d] # "absent" ~>
      (status[d] \in TERMINAL_STATUSES \/ Blocked(status, d))
=============================================================================
