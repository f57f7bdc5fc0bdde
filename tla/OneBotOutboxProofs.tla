------------------------- MODULE OneBotOutboxProofs -------------------------
(***************************************************************************)
(* Proofs about OneBotOutbox, for any number of deliveries, recipients,    *)
(* workers, attempts and faults.  The locks exclude each other's workers   *)
(* for any number of services; no delivery is carried out twice when one   *)
(* service owns the table; and then deliveries are carried out in the      *)
(* order they were enqueued, up to the first whose outcome was not stored. *)
(***************************************************************************)
EXTENDS OneBotOutbox, TLAPS

(* The lock table: a busy worker refers to the lock state that the table   *)
(* of its service holds for its recipient, and a lock state has at most    *)
(* one holder.                                                             *)
LockInv ==
  /\ \A w \in Worker :
       IF pc[w] = "idle" THEN lock[w] = Nil
       ELSE /\ lock[w] # Nil
            /\ locks[<<svc[w], RecipientOf[target[w]]>>] = lock[w]
  /\ \A v, w \in Worker : Holds(v) /\ Holds(w) /\ lock[v] = lock[w] => v = w

(* What worker w between two awaits knows about its row, given the status  *)
(* column st.                                                              *)
WorkerOK(st, w) ==
  /\ Holds(w) => SameRecipient(cur[w], target[w])
  /\ pc[w] = "sleep" => st[cur[w]] = "retry_wait"
  /\ pc[w] = "send" => /\ st[cur[w]] \in {"sending", "ambiguous"}
                       /\ att[w] = attempts[cur[w]]

(* What the upstream has or had is the last attempt of a row that is not   *)
(* waiting to be sent, and is not pending once the row is accepted.        *)
UpstreamOK(st) ==
  /\ \A p \in requests \cup performed :
       /\ p[2] = attempts[p[1]]
       /\ st[p[1]] \notin PENDING_STATUSES \cup {"absent"}
  /\ \A p \in requests : p \notin performed /\ st[p[1]] # "accepted"

(* Rows have distinct positions and have been attempted once they leave    *)
(* the queue.                                                              *)
RowOK(st) ==
  /\ \A d \in Delivery : st[d] = "absent" <=> seqno[d] = 0
  /\ \A d, e \in Delivery :
       SameRecipient(d, e) /\ seqno[d] = seqno[e] /\ seqno[d] # 0 => d = e
  /\ \A d \in Delivery : attempts[d] = 0 <=> st[d] \in {"absent", "queued"}

(* A row is attempted only after all its predecessors were accepted, up to *)
(* the first whose outcome was not stored.                                 *)
PrefixOK(st) ==
  \A d, e \in Delivery :
    attempts[e] # 0 /\ Before(d, e) => st[d] = "accepted" \/ BehindLost(d)

RowInv == UpstreamOK(status) /\ RowOK(status)
WorkerInv == \A w \in Worker : WorkerOK(status, w)

(* A row in flight has a worker while the process runs, unless its outcome *)
(* was not stored; this is what keeps later rows from overtaking it.       *)
OrderInv ==
  /\ PrefixOK(status)
  /\ \A d \in Delivery :
       status[d] = "sending" /\ running # {} /\ d \notin lost =>
         \E w \in Worker : pc[w] = "send" /\ cur[w] = d
  /\ \A w \in Worker : pc[w] # "idle" => running # {}

SafeInv == TypeOK /\ LockInv /\ WorkerInv /\ RowInv

\* Two OneBotOutboxService objects never share the table.
SingleService == \A s, t \in Service : s = t

-----------------------------------------------------------------------------
(* Type correctness                                                        *)

(* Exit and Through keep the types of what they assign.                    *)
LEMMA ExitType ==
  ASSUME TypeOK, NEW w \in Worker, Exit(w)
  PROVE  /\ pc' \in [Worker -> {"idle", "wait", "sleep", "send"}]
         /\ svc' \in [Worker -> Service \cup {Nil}]
         /\ target' \in [Worker -> Delivery \cup {Nil}]
         /\ cur' \in [Worker -> Delivery \cup {Nil}]
         /\ att' \in [Worker -> Nat]
         /\ lock' \in [Worker -> LockState \cup {Nil}]
         /\ locks' \in [LockKey -> LockState \cup {Nil}]
         /\ \A v \in Worker :
              /\ pc'[v] # "idle" => svc'[v] \in Service /\ target'[v] \in Delivery
              /\ pc'[v] \in {"sleep", "send"} => cur'[v] \in Delivery
  BY DEF TypeOK, Exit, ResetWorker

LEMMA BeginSendType ==
  ASSUME TypeOK, NEW w \in Worker, pc[w] # "idle", NEW d \in Delivery,
         NEW st \in [Delivery -> Status], BeginSend(w, d, st),
         UNCHANGED <<seqno, running, lost, performed, faults>>
  PROVE  TypeOK'
  BY DEF TypeOK, BeginSend, Status, TERMINAL_STATUSES, PENDING_STATUSES

LEMMA ThroughType ==
  ASSUME TypeOK, NEW w \in Worker, pc[w] # "idle",
         NEW st \in [Delivery -> Status], Through(w, st),
         UNCHANGED <<seqno, running, lost, performed, faults>>
  PROVE  TypeOK'
<1>1. CASE /\ status' = st /\ Exit(w)
           /\ UNCHANGED <<attempts, requests>>
  BY <1>1, ExitType DEF TypeOK
<1>2. ASSUME NEW d \in Delivery, BeginSend(w, d, st)
      PROVE  TypeOK'
  BY <1>2, BeginSendType
<1>3. ASSUME NEW d \in Delivery, BeginSleep(w, d, st)
      PROVE  TypeOK'
  BY <1>3 DEF TypeOK, BeginSleep
<1> QED BY <1>1, <1>2, <1>3 DEF Through

LEMMA TypeStep == TypeOK /\ [Next]_vars => TypeOK'
<1> SUFFICES ASSUME TypeOK, [Next]_vars PROVE TypeOK'
  OBVIOUS
<1>1. ASSUME NEW d \in Delivery, Enqueue(d) PROVE TypeOK'
  BY <1>1 DEF TypeOK, Enqueue, Status, PENDING_STATUSES, workerVars, upstreamVars
<1>2. ASSUME NEW w \in Worker, NEW s \in Service, NEW d \in Delivery, Deliver(w, s, d)
      PROVE  TypeOK'
  <2>1. PICK l \in LockState :
          /\ locks' = [locks EXCEPT ![<<s, RecipientOf[d]>>] = l]
          /\ lock' = [lock EXCEPT ![w] = l]
    BY <1>2 DEF Deliver
  <2>2. /\ lock' \in [Worker -> LockState \cup {Nil}]
        /\ locks' \in [LockKey -> LockState \cup {Nil}]
    BY <2>1 DEF TypeOK
  <2> QED BY <1>2, <2>2 DEF TypeOK, Deliver, rowVars, upstreamVars
<1>3. ASSUME NEW w \in Worker, Acquire(w) PROVE TypeOK'
  <2>1. status \in [Delivery -> Status]
    BY DEF TypeOK
  <2> QED BY <1>3, <2>1, ThroughType DEF Acquire
<1>4. ASSUME NEW w \in Worker, Wake(w) PROVE TypeOK'
  <2>1. status \in [Delivery -> Status]
    BY DEF TypeOK
  <2>2. CASE BeginSend(w, cur[w], status)
    BY <1>4, <2>2 DEF Wake, BeginSend, TypeOK, Status, TERMINAL_STATUSES, PENDING_STATUSES
  <2>3. CASE Through(w, status)
    BY <1>4, <2>1, <2>3, ThroughType DEF Wake
  <2>4. CASE Exit(w) /\ UNCHANGED <<status, attempts, requests>>
    BY <1>4, <2>4, ExitType DEF Wake, TypeOK
  <2> QED BY <1>4, <2>2, <2>3, <2>4 DEF Wake
<1>5. ASSUME NEW w \in Worker, Accepted(w) PROVE TypeOK'
  <2>1. [status EXCEPT ![cur[w]] = "accepted"] \in [Delivery -> Status]
    BY DEF TypeOK, Status, TERMINAL_STATUSES
  <2> QED BY <1>5, <2>1, ThroughType DEF Accepted
<1>6. ASSUME NEW w \in Worker, Unknown(w) PROVE TypeOK'
  BY <1>6, ExitType DEF Unknown, TypeOK, Status, TERMINAL_STATUSES, upstreamVars
<1>7. ASSUME NEW w \in Worker, Refused(w) PROVE TypeOK'
  <2>1. CASE Exit(w)
    <3>1. status' \in [Delivery -> Status]
      BY <1>7 DEF Refused, TypeOK, Status, TERMINAL_STATUSES, PENDING_STATUSES
    <3> QED BY <1>7, <2>1, <3>1, ExitType DEF Refused, TypeOK
  <2>2. CASE /\ pc' = [pc EXCEPT ![w] = "sleep"]
             /\ UNCHANGED <<svc, target, cur, att, lock, locks>>
    <3>1. status' \in [Delivery -> Status]
      BY <1>7 DEF Refused, TypeOK, Status, TERMINAL_STATUSES, PENDING_STATUSES
    <3> QED BY <1>7, <2>2, <3>1 DEF Refused, TypeOK
  <2> QED BY <1>7, <2>1, <2>2 DEF Refused
<1>8. ASSUME NEW w \in Worker, Failed(w) PROVE TypeOK'
  BY <1>8, ExitType DEF Failed, TypeOK, Status, TERMINAL_STATUSES, upstreamVars
<1>9. ASSUME NEW w \in Worker, Cancelled(w) PROVE TypeOK'
  BY <1>9, ExitType DEF Cancelled, TypeOK, Status, TERMINAL_STATUSES, upstreamVars
<1>10. ASSUME NEW w \in Worker, StoreFails(w) PROVE TypeOK'
  BY <1>10, ExitType DEF StoreFails, TypeOK, rowVars, upstreamVars
<1>11. ASSUME NEW s \in Service, Start(s) PROVE TypeOK'
  BY <1>11 DEF Start, Recovered, TypeOK, Status, TERMINAL_STATUSES, workerVars, upstreamVars
<1>12. CASE Crash
  BY <1>12 DEF Crash, TypeOK, rowVars, upstreamVars, LockKey
<1>13. CASE Perform
  BY <1>13 DEF Perform, TypeOK, rowVars, workerVars
<1>14. CASE UNCHANGED vars
  BY <1>14 DEF vars, TypeOK, rowVars, workerVars, upstreamVars
<1> QED BY <1>1, <1>2, <1>3, <1>4, <1>5, <1>6, <1>7, <1>8, <1>9, <1>10,
           <1>11, <1>12, <1>13, <1>14 DEF Next, SendResult

(* Every row, worker, lock and request keeps its type.                     *)
THEOREM TypeCorrect == Spec => []TypeOK
<1>1. Init => TypeOK
  BY DEF Init, TypeOK, Status, LockKey
<1>2. TypeOK /\ [Next]_vars => TypeOK'
  BY TypeStep
<1> QED BY <1>1, <1>2, PTL DEF Spec

-----------------------------------------------------------------------------
(* Mutual exclusion                                                        *)

(* Leaving deliver() drops a lock state only when nobody else refers to it.*)
LEMMA ExitLock ==
  ASSUME TypeOK, LockInv, NEW w \in Worker, pc[w] # "idle", Exit(w)
  PROVE  LockInv'
<1> DEFINE key == <<svc[w], RecipientOf[target[w]]>>
<1>1. \A v \in Worker : v # w => /\ pc'[v] = pc[v] /\ svc'[v] = svc[v]
                                /\ target'[v] = target[v] /\ lock'[v] = lock[v]
  BY DEF TypeOK, Exit, ResetWorker
<1>2. pc'[w] = "idle" /\ lock'[w] = Nil
  BY DEF TypeOK, Exit, ResetWorker
<1>3. ASSUME NEW v \in Worker, v # w, pc[v] # "idle"
      PROVE  locks'[<<svc[v], RecipientOf[target[v]]>>] = lock[v]
  <2>1. locks[<<svc[v], RecipientOf[target[v]]>>] = lock[v]
    BY <1>3 DEF LockInv
  <2>2. CASE <<svc[v], RecipientOf[target[v]]>> = key
    <3>1. v \in Users(lock[w])
      BY <1>3, <2>1, <2>2 DEF LockInv, Users
    <3> QED BY <1>3, <2>1, <3>1 DEF Exit, ResetWorker
  <2>3. CASE <<svc[v], RecipientOf[target[v]]>> # key
    BY <2>1, <2>3, <1>3 DEF Exit, ResetWorker, TypeOK, LockKey
  <2> QED BY <2>2, <2>3
<1> QED BY <1>1, <1>2, <1>3 DEF LockInv, Holds

(* Taking the lock when no user of it holds it.                            *)
LEMMA HoldLock ==
  ASSUME TypeOK, LockInv, NEW w \in Worker, pc[w] # "idle",
         \A v \in Users(lock[w]) : ~Holds(v) \/ v = w,
         NEW next \in {"sleep", "send"}, pc' = [pc EXCEPT ![w] = next],
         UNCHANGED <<svc, target, lock, locks>>
  PROVE  LockInv'
<1>1. pc' \in [Worker -> {"idle", "wait", "sleep", "send"}] /\ pc'[w] = next
      /\ \A v \in Worker : v # w => pc'[v] = pc[v]
  BY DEF TypeOK
<1>2. \A v \in Worker :
        IF pc'[v] = "idle" THEN lock'[v] = Nil
        ELSE /\ lock'[v] # Nil
             /\ locks'[<<svc'[v], RecipientOf[target'[v]]>>] = lock'[v]
  BY <1>1 DEF LockInv
<1>3. \A u, v \in Worker :
        Holds(u)' /\ Holds(v)' /\ lock'[u] = lock'[v] => u = v
  <2> TAKE u, v \in Worker
  <2> HAVE Holds(u)' /\ Holds(v)' /\ lock'[u] = lock'[v]
  <2>1. (u # w => Holds(u)) /\ (v # w => Holds(v))
    BY <1>1 DEF Holds
  <2> QED BY <2>1, <1>1 DEF LockInv, Users
<1> QED BY <1>2, <1>3 DEF LockInv

LEMMA ThroughLock ==
  ASSUME TypeOK, LockInv, NEW w \in Worker, pc[w] # "idle", NEW st,
         \A v \in Users(lock[w]) : ~Holds(v) \/ v = w, Through(w, st)
  PROVE  LockInv'
<1>1. CASE Exit(w)
  BY <1>1, ExitLock
<1>2. ASSUME NEW d \in Delivery, BeginSend(w, d, st) PROVE LockInv'
  BY <1>2, HoldLock DEF BeginSend
<1>3. ASSUME NEW d \in Delivery, BeginSleep(w, d, st) PROVE LockInv'
  BY <1>3, HoldLock DEF BeginSleep
<1> QED BY <1>1, <1>2, <1>3 DEF Through

LEMMA DeliverLock ==
  ASSUME TypeOK, LockInv, NEW w \in Worker, NEW s \in Service,
         NEW d \in Delivery, Deliver(w, s, d)
  PROVE  LockInv'
<1> DEFINE key == <<s, RecipientOf[d]>>
<1>0. key \in LockKey
  BY OutboxAssumption DEF LockKey
<1>1. PICK l \in LockState :
        /\ locks[key] # Nil => l = locks[key]
        /\ locks[key] = Nil => Users(l) = {}
        /\ locks' = [locks EXCEPT ![key] = l]
        /\ lock' = [lock EXCEPT ![w] = l]
  BY DEF Deliver
<1>2. l # Nil
  BY OutboxAssumption
<1>3. /\ pc'[w] = "wait" /\ svc'[w] = s /\ target'[w] = d /\ lock'[w] = l
      /\ \A v \in Worker : v # w => /\ pc'[v] = pc[v] /\ svc'[v] = svc[v]
                                    /\ target'[v] = target[v] /\ lock'[v] = lock[v]
  BY <1>1 DEF TypeOK, Deliver
<1>4. ASSUME NEW v \in Worker, v # w, pc[v] # "idle"
      PROVE  locks'[<<svc[v], RecipientOf[target[v]]>>] = lock[v]
  <2>1. locks[<<svc[v], RecipientOf[target[v]]>>] = lock[v] /\ lock[v] # Nil
    BY <1>4 DEF LockInv
  <2>2. CASE <<svc[v], RecipientOf[target[v]]>> = key
    BY <1>0, <1>1, <2>1, <2>2 DEF TypeOK
  <2>3. CASE <<svc[v], RecipientOf[target[v]]>> # key
    BY <1>1, <1>4, <2>1, <2>3, OutboxAssumption DEF TypeOK, LockKey
  <2> QED BY <2>2, <2>3
<1>5. locks'[key] = l
  BY <1>0, <1>1 DEF TypeOK
<1>6. \A v \in Worker :
        IF pc'[v] = "idle" THEN lock'[v] = Nil
        ELSE /\ lock'[v] # Nil
             /\ locks'[<<svc'[v], RecipientOf[target'[v]]>>] = lock'[v]
  BY <1>2, <1>3, <1>4, <1>5 DEF LockInv
<1>7. \A u, v \in Worker :
        Holds(u)' /\ Holds(v)' /\ lock'[u] = lock'[v] => u = v
  BY <1>3 DEF LockInv, Holds
<1> QED BY <1>6, <1>7 DEF LockInv

LEMMA LockStep == TypeOK /\ LockInv /\ [Next]_vars => LockInv'
<1> SUFFICES ASSUME TypeOK, LockInv, [Next]_vars PROVE LockInv'
  OBVIOUS
<1> DEFINE LockVars == <<pc, svc, target, lock, locks>>
<1>0. UNCHANGED LockVars => LockInv'
  BY DEF LockInv, Holds
<1>1. ASSUME NEW d \in Delivery, Enqueue(d) PROVE LockInv'
  BY <1>0, <1>1 DEF Enqueue, workerVars
<1>2. ASSUME NEW w \in Worker, NEW s \in Service, NEW d \in Delivery, Deliver(w, s, d)
      PROVE  LockInv'
  BY <1>2, DeliverLock
<1>3. ASSUME NEW w \in Worker, Acquire(w) PROVE LockInv'
  BY <1>3, ThroughLock DEF Acquire
<1>a. ASSUME NEW w \in Worker, Holds(w)
      PROVE  \A v \in Users(lock[w]) : ~Holds(v) \/ v = w
  BY <1>a DEF LockInv, Users
<1>4. ASSUME NEW w \in Worker, Wake(w) PROVE LockInv'
  <2>1. Holds(w) /\ pc[w] # "idle"
    BY <1>4 DEF Wake, Holds
  <2>2. \/ BeginSend(w, cur[w], status) \/ Exit(w) \/ Through(w, status)
    BY <1>4 DEF Wake
  <2>3. CASE BeginSend(w, cur[w], status)
    BY <1>a, <2>1, <2>3, HoldLock DEF BeginSend
  <2> QED BY <1>a, <2>1, <2>2, <2>3, ExitLock, ThroughLock
<1>5. ASSUME NEW w \in Worker, Accepted(w) PROVE LockInv'
  <2>1. Holds(w) /\ pc[w] # "idle"
    BY <1>5 DEF Accepted, Holds
  <2> QED BY <1>5, <1>a, <2>1, ThroughLock DEF Accepted
<1>6. ASSUME NEW w \in Worker, Unknown(w) \/ Failed(w) \/ Cancelled(w) \/ StoreFails(w)
      PROVE  LockInv'
  BY <1>6, ExitLock DEF Unknown, Failed, Cancelled, StoreFails
<1>7. ASSUME NEW w \in Worker, Refused(w) PROVE LockInv'
  <2>1. Holds(w) /\ pc[w] # "idle"
    BY <1>7 DEF Refused, Holds
  <2>2. \/ Exit(w)
        \/ pc' = [pc EXCEPT ![w] = "sleep"] /\ UNCHANGED <<svc, target, lock, locks>>
    BY <1>7 DEF Refused
  <2> QED BY <1>a, <2>1, <2>2, ExitLock, HoldLock
<1>8. ASSUME NEW s \in Service, Start(s) PROVE LockInv'
  BY <1>0, <1>8 DEF Start, Recovered, workerVars
<1>9. CASE Crash
  BY <1>9 DEF Crash, LockInv, Holds
<1>10. CASE Perform \/ UNCHANGED vars
  BY <1>0, <1>10 DEF Perform, vars, workerVars
<1> QED BY <1>1, <1>2, <1>3, <1>4, <1>5, <1>6, <1>7, <1>8, <1>9, <1>10
        DEF Next, SendResult

LEMMA LockExcludes == LockInv => OneActivePerRecipient
<1> SUFFICES ASSUME LockInv, NEW v \in Worker, NEW w \in Worker,
                    Holds(v), Holds(w), svc[v] = svc[w],
                    SameRecipient(target[v], target[w])
             PROVE  v = w
  BY DEF OneActivePerRecipient
<1>1. pc[v] # "idle" /\ pc[w] # "idle"
  BY DEF Holds
<1>2. lock[v] = locks[<<svc[v], RecipientOf[target[v]]>>]
  BY <1>1 DEF LockInv
<1>3. lock[w] = locks[<<svc[v], RecipientOf[target[v]]>>]
  BY <1>1 DEF LockInv, SameRecipient
<1> QED BY <1>2, <1>3 DEF LockInv

(* Two deliver() calls of one service never work on the same recipient at  *)
(* the same time, for any number of services and calls.                    *)
THEOREM MutualExclusion == Spec => []OneActivePerRecipient
<1>1. Init => LockInv
  BY DEF Init, LockInv, Holds
<1> QED BY <1>1, LockExcludes, TypeCorrect, LockStep, PTL DEF Spec

-----------------------------------------------------------------------------
(* No delivery is carried out twice                                        *)

(* Nobody else is working on the recipient of worker w.                    *)
Alone(w) ==
  \A v \in Worker : Holds(v) /\ SameRecipient(target[v], target[w]) => v = w

(* The state a turn of the loop starts from, with status column st: all is *)
(* well but for worker w itself.                                           *)
TurnOK(st, w) ==
  /\ TypeOK /\ st \in [Delivery -> Status]
  /\ pc[w] # "idle" /\ Alone(w)
  /\ \A v \in Worker : v # w => WorkerOK(st, v)
  /\ UpstreamOK(st) /\ RowOK(st)

LEMMA AloneWhenHolding ==
  ASSUME SingleService, TypeOK, LockInv, NEW w \in Worker, Holds(w)
  PROVE  Alone(w)
<1> SUFFICES ASSUME NEW v \in Worker, Holds(v), SameRecipient(target[v], target[w])
             PROVE  v = w
  BY DEF Alone
<1>1. svc[v] = svc[w]
  BY DEF SingleService, TypeOK, Holds
<1> QED BY <1>1, LockExcludes DEF OneActivePerRecipient

LEMMA AloneWhenFree ==
  ASSUME SingleService, TypeOK, LockInv, NEW w \in Worker, pc[w] # "idle",
         \A v \in Users(lock[w]) : ~Holds(v)
  PROVE  Alone(w)
<1> SUFFICES ASSUME NEW v \in Worker, Holds(v), SameRecipient(target[v], target[w])
             PROVE  FALSE
  BY DEF Alone
<1>1. pc[v] # "idle" /\ svc[v] = svc[w]
  BY DEF SingleService, TypeOK, Holds
<1>2. lock[v] = locks[<<svc[w], RecipientOf[target[w]]>>]
  BY <1>1 DEF LockInv, SameRecipient
<1>3. lock[w] = locks[<<svc[w], RecipientOf[target[w]]>>]
  BY DEF LockInv
<1> QED BY <1>2, <1>3 DEF Users

LEMMA ExitRows ==
  ASSUME NEW w \in Worker, TypeOK, Exit(w), UNCHANGED attempts,
         NEW st, status' = st, \A v \in Worker : v # w => WorkerOK(st, v)
  PROVE  WorkerInv'
<1>1. \A v \in Worker : v # w => /\ pc'[v] = pc[v] /\ cur'[v] = cur[v]
                                /\ target'[v] = target[v] /\ att'[v] = att[v]
  BY DEF TypeOK, Exit, ResetWorker
<1>2. pc'[w] = "idle"
  BY DEF TypeOK, Exit, ResetWorker
<1> QED BY <1>1, <1>2 DEF WorkerInv, WorkerOK, Holds

LEMMA BeginSendRows ==
  ASSUME NEW w \in Worker, NEW d \in Delivery, NEW st, TurnOK(st, w),
         SameRecipient(d, target[w]), st[d] \in PENDING_STATUSES,
         BeginSend(w, d, st), UNCHANGED <<seqno, performed>>
  PROVE  WorkerInv' /\ RowInv'
<1>1. /\ status' \in [Delivery -> Status] /\ status'[d] = "sending"
      /\ \A e \in Delivery : e # d => status'[e] = st[e] /\ attempts'[e] = attempts[e]
      /\ attempts'[d] = attempts[d] + 1 /\ attempts[d] \in Nat
  BY DEF BeginSend, TurnOK, TypeOK, Status
<1>2. WorkerInv'
  <2> SUFFICES ASSUME NEW v \in Worker PROVE WorkerOK(status, v)'
    BY DEF WorkerInv
  <2>1. CASE v = w
    BY <1>1, <2>1 DEF BeginSend, TurnOK, TypeOK, WorkerOK, Holds
  <2>2. CASE v # w
    <3>1. /\ pc'[v] = pc[v] /\ cur'[v] = cur[v] /\ target'[v] = target[v]
          /\ att'[v] = att[v] /\ WorkerOK(st, v)
      BY <2>2 DEF BeginSend, TurnOK, TypeOK
    <3>2. Holds(v) => cur[v] # d /\ cur[v] \in Delivery
      BY <2>2, <3>1 DEF TurnOK, Alone, WorkerOK, SameRecipient, TypeOK, Holds
    <3> QED BY <1>1, <3>1, <3>2 DEF WorkerOK, Holds
  <2> QED BY <2>1, <2>2
<1>3. \A p \in requests \cup performed : p[1] # d /\ p[1] \in Delivery
  BY DEF TurnOK, UpstreamOK, TypeOK
<1>4. UpstreamOK(status)'
  <2>1. \A p \in requests' \cup performed' :
          p \in requests \cup performed \/ p = <<d, attempts'[d]>>
    BY <1>1 DEF BeginSend
  <2>2. \A p \in requests \cup performed : p # <<d, attempts'[d]>>
    BY <1>3
  <2> QED BY <1>1, <1>3, <2>1, <2>2 DEF TurnOK, UpstreamOK, BeginSend, PENDING_STATUSES
<1>5. RowOK(status)'
  BY <1>1 DEF TurnOK, RowOK, PENDING_STATUSES, SameRecipient
<1> QED BY <1>2, <1>4, <1>5 DEF RowInv

LEMMA ThroughRows ==
  ASSUME NEW w \in Worker, NEW st, TurnOK(st, w), Through(w, st),
         UNCHANGED <<seqno, performed>>
  PROVE  WorkerInv' /\ RowInv'
<1>1. CASE status' = st /\ Exit(w) /\ UNCHANGED <<attempts, requests>>
  BY <1>1, ExitRows DEF TurnOK, RowInv, UpstreamOK, RowOK, SameRecipient
<1>2. ASSUME NEW d \in Delivery, IsNext(st, target[w], d), BeginSend(w, d, st)
      PROVE  WorkerInv' /\ RowInv'
  BY <1>2, BeginSendRows DEF IsNext, Eligible
<1>3. ASSUME NEW d \in Delivery, IsNext(st, target[w], d), st[d] = "retry_wait",
             BeginSleep(w, d, st)
      PROVE  WorkerInv' /\ RowInv'
  <2>1. RowInv'
    BY <1>3 DEF BeginSleep, TurnOK, RowInv, UpstreamOK, RowOK, SameRecipient
  <2>2. WorkerInv'
    BY <1>3 DEF BeginSleep, TurnOK, TypeOK, WorkerInv, WorkerOK, Holds, IsNext,
                Eligible, SameRecipient
  <2> QED BY <2>1, <2>2
<1> QED BY <1>1, <1>2, <1>3 DEF Through

(* A worker ends its send: row d takes a status outside the queue.         *)
LEMMA SettleRows ==
  ASSUME SingleService, SafeInv, NEW w \in Worker, pc[w] = "send",
         NEW new \in {"ambiguous", "dead_letter"},
         status' = [status EXCEPT ![cur[w]] = new], Exit(w),
         requests' \subseteq requests, UNCHANGED <<seqno, attempts, performed>>
  PROVE  WorkerInv' /\ RowInv'
<1>1. Holds(w) /\ cur[w] \in Delivery /\ Alone(w)
  BY AloneWhenHolding DEF Holds, SafeInv, TypeOK
<1>2. /\ status'[cur[w]] = new /\ status[cur[w]] \in {"sending", "ambiguous"}
      /\ \A e \in Delivery : e # cur[w] => status'[e] = status[e]
  BY <1>1 DEF SafeInv, TypeOK, WorkerInv, WorkerOK
<1>3. ASSUME NEW v \in Worker, v # w PROVE WorkerOK(status', v)
  <2>1. Holds(v) => cur[v] # cur[w] /\ cur[v] \in Delivery
    BY <1>1, <1>3 DEF Alone, SafeInv, TypeOK, WorkerInv, WorkerOK, SameRecipient, Holds
  <2> QED BY <1>2, <2>1 DEF SafeInv, WorkerInv, WorkerOK, Holds
<1>4. WorkerInv'
  BY <1>3, ExitRows DEF SafeInv
<1>5. UpstreamOK(status)'
  <2>1. \A p \in requests \cup performed : p[1] \in Delivery
    BY DEF SafeInv, TypeOK
  <2> QED BY <1>2, <2>1 DEF SafeInv, RowInv, UpstreamOK, PENDING_STATUSES
<1>6. RowOK(status)'
  BY <1>1, <1>2 DEF SafeInv, RowInv, RowOK, SameRecipient
<1> QED BY <1>4, <1>5, <1>6 DEF RowInv

(* An explicit refusal puts the row back in the queue; the refused attempt *)
(* was the only one the upstream knew of.                                  *)
LEMMA RefuseRows ==
  ASSUME SingleService, SafeInv, NEW w \in Worker, pc[w] = "send",
         <<cur[w], att[w]>> \in requests,
         requests' = requests \ {<<cur[w], att[w]>>},
         status' = [status EXCEPT ![cur[w]] = "retry_wait"],
         pc' = [pc EXCEPT ![w] = "sleep"],
         UNCHANGED <<seqno, attempts, performed, target, cur, att>>
  PROVE  WorkerInv' /\ RowInv'
<1>1. Holds(w) /\ cur[w] \in Delivery /\ Alone(w) /\ att[w] = attempts[cur[w]]
  BY AloneWhenHolding DEF Holds, SafeInv, TypeOK, WorkerInv, WorkerOK
<1>2. /\ status'[cur[w]] = "retry_wait" /\ status[cur[w]] \in {"sending", "ambiguous"}
      /\ \A e \in Delivery : e # cur[w] => status'[e] = status[e]
      /\ pc'[w] = "sleep" /\ \A v \in Worker : v # w => pc'[v] = pc[v]
  BY <1>1 DEF SafeInv, TypeOK, WorkerInv, WorkerOK
<1>3. ASSUME NEW v \in Worker PROVE WorkerOK(status, v)'
  <2>1. CASE v = w
    BY <1>1, <1>2, <2>1 DEF SafeInv, WorkerInv, WorkerOK, Holds, SameRecipient
  <2>2. CASE v # w
    <3>1. Holds(v) => cur[v] # cur[w] /\ cur[v] \in Delivery
      BY <1>1, <2>2 DEF Alone, SafeInv, TypeOK, WorkerInv, WorkerOK, SameRecipient, Holds
    <3> QED BY <1>2, <2>2, <3>1 DEF SafeInv, WorkerInv, WorkerOK, Holds, SameRecipient
  <2> QED BY <2>1, <2>2
<1>4. \A p \in requests' \cup performed' : p[1] # cur[w] /\ p[1] \in Delivery
  <2> SUFFICES ASSUME NEW p \in requests' \cup performed'
               PROVE  p[1] # cur[w] /\ p[1] \in Delivery
    OBVIOUS
  <2>1. p \in requests \cup performed /\ p = <<p[1], p[2]>> /\ p[1] \in Delivery
    BY DEF SafeInv, TypeOK
  <2>2. p[1] = cur[w] => p = <<cur[w], att[w]>>
    BY <1>1, <2>1 DEF SafeInv, RowInv, UpstreamOK
  <2>3. <<cur[w], att[w]>> \notin requests' \cup performed'
    BY DEF SafeInv, RowInv, UpstreamOK
  <2> QED BY <2>1, <2>2, <2>3
<1>5. UpstreamOK(status)'
  BY <1>2, <1>4 DEF SafeInv, RowInv, UpstreamOK
<1>6. RowOK(status)'
  BY <1>1, <1>2 DEF SafeInv, RowInv, RowOK, SameRecipient
<1> QED BY <1>3, <1>5, <1>6 DEF RowInv, WorkerInv

(* Once the upstream has carried an attempt out, accepting its row leaves  *)
(* all well for the next turn of the loop.                                 *)
LEMMA AcceptTurn ==
  ASSUME SingleService, SafeInv, NEW w \in Worker, pc[w] = "send",
         <<cur[w], att[w]>> \in performed
  PROVE  TurnOK([status EXCEPT ![cur[w]] = "accepted"], w)
<1> DEFINE st == [status EXCEPT ![cur[w]] = "accepted"]
<1>1. Holds(w) /\ cur[w] \in Delivery /\ Alone(w) /\ att[w] = attempts[cur[w]]
  BY AloneWhenHolding DEF Holds, SafeInv, TypeOK, WorkerInv, WorkerOK
<1>2. /\ st \in [Delivery -> Status]
      /\ st[cur[w]] = "accepted" /\ status[cur[w]] \in {"sending", "ambiguous"}
      /\ \A e \in Delivery : e # cur[w] => st[e] = status[e]
  BY <1>1 DEF SafeInv, TypeOK, Status, TERMINAL_STATUSES, WorkerInv, WorkerOK
<1> HIDE DEF st
<1>3. ASSUME NEW v \in Worker, v # w PROVE WorkerOK(st, v)
  <2>1. Holds(v) => cur[v] # cur[w] /\ cur[v] \in Delivery
    BY <1>1, <1>3 DEF Alone, SafeInv, TypeOK, WorkerInv, WorkerOK, SameRecipient, Holds
  <2> QED BY <1>2, <2>1 DEF SafeInv, WorkerInv, WorkerOK, Holds
<1>4. \A p \in requests : p[1] # cur[w] /\ p[1] \in Delivery
  <2> SUFFICES ASSUME NEW p \in requests PROVE p[1] # cur[w] /\ p[1] \in Delivery
    OBVIOUS
  <2>1. p = <<p[1], p[2]>> /\ p[1] \in Delivery
    BY DEF SafeInv, TypeOK
  <2>2. p[1] = cur[w] => p = <<cur[w], att[w]>>
    BY <1>1, <2>1 DEF SafeInv, RowInv, UpstreamOK
  <2> QED BY <2>1, <2>2 DEF SafeInv, RowInv, UpstreamOK
<1>5. UpstreamOK(st)
  <2>1. \A p \in performed : p[1] \in Delivery
    BY DEF SafeInv, TypeOK
  <2> QED BY <1>2, <1>4, <2>1 DEF SafeInv, RowInv, UpstreamOK, PENDING_STATUSES
<1>6. RowOK(st)
  BY <1>1, <1>2 DEF SafeInv, RowInv, RowOK, SameRecipient
<1>7. TurnOK(st, w)
  BY <1>1, <1>2, <1>3, <1>5, <1>6 DEF TurnOK, SafeInv, Holds
<1> QED BY <1>7 DEF st

LEMMA EnqueueRows ==
  ASSUME SafeInv, NEW d \in Delivery, Enqueue(d)
  PROVE  WorkerInv' /\ RowInv'
<1>1. PICK m \in {0} \cup {seqno[e] : e \in Delivery} :
        /\ \A e \in Delivery : SameRecipient(d, e) => seqno[e] <= m
        /\ seqno' = [seqno EXCEPT ![d] = m + 1]
  BY DEF Enqueue
<1>m. m \in Nat
  BY DEF SafeInv, TypeOK
<1>2. /\ status'[d] = "queued" /\ status[d] = "absent" /\ attempts[d] = 0
      /\ seqno'[d] = m + 1 /\ attempts' = attempts
      /\ \A e \in Delivery : e # d => status'[e] = status[e] /\ seqno'[e] = seqno[e]
      /\ \A e \in Delivery : seqno[e] \in Nat
  BY <1>1, <1>m DEF Enqueue, SafeInv, TypeOK, RowInv, RowOK
<1>3. WorkerInv'
  <2> SUFFICES ASSUME NEW v \in Worker PROVE WorkerOK(status, v)'
    BY DEF WorkerInv
  <2>1. UNCHANGED <<pc, cur, target, att, attempts>>
    BY DEF Enqueue, workerVars
  <2>2. Holds(v) => cur[v] # d /\ cur[v] \in Delivery
    BY <1>2 DEF SafeInv, WorkerInv, WorkerOK, TypeOK, Holds
  <2> QED BY <1>2, <2>1, <2>2 DEF SafeInv, WorkerInv, WorkerOK, Holds, SameRecipient
<1>4. UpstreamOK(status)'
  <2>1. \A p \in requests \cup performed : p[1] \in Delivery /\ p[1] # d
    BY <1>2 DEF SafeInv, TypeOK, RowInv, UpstreamOK
  <2> QED BY <1>2, <2>1 DEF SafeInv, RowInv, UpstreamOK, Enqueue, upstreamVars
<1>5. RowOK(status)'
  BY <1>1, <1>m, <1>2 DEF SafeInv, RowInv, RowOK, SameRecipient
<1> QED BY <1>3, <1>4, <1>5 DEF RowInv

LEMMA RowsStep ==
  ASSUME SingleService, SafeInv, [Next]_vars
  PROVE  WorkerInv' /\ RowInv'
<1>0. TypeOK /\ LockInv /\ WorkerInv /\ RowInv
  BY DEF SafeInv
<1>1. ASSUME NEW d \in Delivery, Enqueue(d) PROVE WorkerInv' /\ RowInv'
  BY <1>1, EnqueueRows
<1>2. ASSUME NEW w \in Worker, NEW s \in Service, NEW d \in Delivery, Deliver(w, s, d)
      PROVE  WorkerInv' /\ RowInv'
  <2>1. RowInv'
    BY <1>0, <1>2 DEF Deliver, RowInv, UpstreamOK, RowOK, rowVars, upstreamVars
  <2>2. /\ pc'[w] = "wait" /\ UNCHANGED <<cur, att, status, attempts>>
        /\ \A v \in Worker : v # w => pc'[v] = pc[v] /\ target'[v] = target[v]
    BY <1>0, <1>2 DEF Deliver, TypeOK, rowVars
  <2>3. WorkerInv'
    BY <1>0, <2>2 DEF WorkerInv, WorkerOK, Holds, SameRecipient
  <2> QED BY <2>1, <2>3
<1>a. ASSUME NEW w \in Worker, pc[w] # "idle", Alone(w) PROVE TurnOK(status, w)
  BY <1>0, <1>a DEF TurnOK, TypeOK, WorkerInv, RowInv
<1>3. ASSUME NEW w \in Worker, Acquire(w) PROVE WorkerInv' /\ RowInv'
  <2>1. TurnOK(status, w)
    BY <1>0, <1>3, <1>a, AloneWhenFree DEF Acquire
  <2> QED BY <1>3, <2>1, ThroughRows DEF Acquire
<1>4. ASSUME NEW w \in Worker, Wake(w) PROVE WorkerInv' /\ RowInv'
  <2>1. Holds(w) /\ pc[w] # "idle" /\ cur[w] \in Delivery
    BY <1>0, <1>4 DEF Wake, Holds, TypeOK
  <2>2. status[cur[w]] = "retry_wait" /\ SameRecipient(cur[w], target[w])
    BY <1>0, <1>4, <2>1 DEF Wake, WorkerInv, WorkerOK
  <2>3. BeginSend(w, cur[w], status) /\ UNCHANGED <<seqno, performed>>
    BY <1>4, <2>2 DEF Wake
  <2>4. TurnOK(status, w)
    BY <1>0, <1>a, <2>1, AloneWhenHolding
  <2>5. status[cur[w]] \in PENDING_STATUSES
    BY <2>2 DEF PENDING_STATUSES
  <2> QED BY <2>1, <2>2, <2>3, <2>4, <2>5, BeginSendRows
<1>5. ASSUME NEW w \in Worker, Accepted(w) PROVE WorkerInv' /\ RowInv'
  BY <1>5, AcceptTurn, ThroughRows DEF Accepted
<1>6. ASSUME NEW w \in Worker, Unknown(w) \/ Failed(w) PROVE WorkerInv' /\ RowInv'
  BY <1>6, SettleRows DEF Unknown, Failed, upstreamVars
<1>7. ASSUME NEW w \in Worker, Refused(w) PROVE WorkerInv' /\ RowInv'
  <2>1. CASE att[w] >= MaxAttempts
    BY <1>7, <2>1, SettleRows DEF Refused
  <2>2. CASE ~(att[w] >= MaxAttempts)
    BY <1>7, <2>2, RefuseRows DEF Refused
  <2> QED BY <2>1, <2>2
<1>8. ASSUME NEW w \in Worker, Exit(w), UNCHANGED <<status, seqno, attempts, upstreamVars>>
      PROVE  WorkerInv' /\ RowInv'
  <2>1. WorkerInv'
    BY <1>0, <1>8, ExitRows DEF WorkerInv
  <2> QED BY <1>0, <1>8, <2>1 DEF RowInv, UpstreamOK, RowOK, upstreamVars
<1>9. ASSUME NEW w \in Worker, Cancelled(w) PROVE WorkerInv' /\ RowInv'
  <2>1. CASE pc[w] = "send"
    BY <1>9, <2>1, SettleRows DEF Cancelled, upstreamVars
  <2>2. CASE pc[w] # "send"
    BY <1>8, <1>9, <2>2 DEF Cancelled
  <2> QED BY <2>1, <2>2
<1>10. ASSUME NEW w \in Worker, StoreFails(w) PROVE WorkerInv' /\ RowInv'
  BY <1>8, <1>10 DEF StoreFails, rowVars
<1>11. ASSUME NEW s \in Service, Start(s) PROVE WorkerInv' /\ RowInv'
  <2>1. /\ \A d \in Delivery :
             \/ status'[d] = status[d] /\ status[d] # "sending"
             \/ status[d] = "sending" /\ status'[d] = "ambiguous"
        /\ UNCHANGED <<seqno, attempts, pc, target, cur, att, requests, performed>>
    BY <1>0, <1>11 DEF Start, Recovered, TypeOK, workerVars, upstreamVars
  <2>2. WorkerInv'
    <3> SUFFICES ASSUME NEW v \in Worker PROVE WorkerOK(status, v)'
      BY DEF WorkerInv
    <3>1. Holds(v) => cur[v] \in Delivery
      BY <1>0 DEF TypeOK, Holds
    <3> QED BY <1>0, <2>1, <3>1 DEF WorkerInv, WorkerOK, Holds, SameRecipient
  <2>3. \A p \in requests \cup performed : p[1] \in Delivery
    BY <1>0 DEF TypeOK
  <2>4. UpstreamOK(status)'
    BY <1>0, <2>1, <2>3 DEF RowInv, UpstreamOK, PENDING_STATUSES
  <2>5. RowOK(status)'
    BY <1>0, <2>1 DEF RowInv, RowOK, SameRecipient
  <2> QED BY <2>2, <2>4, <2>5 DEF RowInv
<1>12. CASE Crash
  BY <1>0, <1>12 DEF Crash, WorkerInv, WorkerOK, Holds, RowInv, UpstreamOK, RowOK,
                     rowVars, upstreamVars
<1>13. CASE Perform
  <2>1. PICK r \in requests :
          /\ requests' = requests \ {r} /\ performed' = performed \cup {r}
          /\ UNCHANGED <<status, seqno, attempts, pc, target, cur, att>>
    BY <1>13 DEF Perform, rowVars, workerVars
  <2>2. WorkerInv'
    BY <1>0, <2>1 DEF WorkerInv, WorkerOK, Holds, SameRecipient
  <2>3. UpstreamOK(status)'
    BY <1>0, <2>1 DEF RowInv, UpstreamOK
  <2>4. RowOK(status)'
    BY <1>0, <2>1 DEF RowInv, RowOK, SameRecipient
  <2> QED BY <2>2, <2>3, <2>4 DEF RowInv
<1>14. CASE UNCHANGED vars
  BY <1>0, <1>14 DEF vars, rowVars, workerVars, upstreamVars, WorkerInv, WorkerOK,
                     Holds, RowInv, UpstreamOK, RowOK
<1> QED BY <1>1, <1>2, <1>3, <1>4, <1>5, <1>6, <1>7, <1>9, <1>10, <1>11,
           <1>12, <1>13, <1>14 DEF Next, SendResult

LEMMA SafeInvariant ==
  ASSUME SingleService PROVE Spec => []SafeInv
<1>1. Init => SafeInv
  <2>1. Init => TypeOK
    BY DEF Init, TypeOK, Status, LockKey
  <2>2. Init => LockInv /\ WorkerInv
    BY DEF Init, LockInv, WorkerInv, WorkerOK, Holds
  <2>3. Init => RowInv
    BY DEF Init, RowInv, UpstreamOK, RowOK
  <2> QED BY <2>1, <2>2, <2>3 DEF SafeInv
<1>2. SafeInv /\ [Next]_vars => SafeInv'
  BY TypeStep, LockStep, RowsStep DEF SafeInv
<1> QED BY <1>1, <1>2, PTL DEF Spec

(* When one service owns the table, the upstream carries out at most one   *)
(* attempt of a delivery, through any pattern of refusals, timeouts,       *)
(* cancellations, lost commits, crashes and adapter restarts.              *)
THEOREM NoDuplicates == ASSUME SingleService PROVE Spec => []NoDuplicateSend
<1>1. SafeInv => NoDuplicateSend
  <2> SUFFICES ASSUME SafeInv, NEW p \in performed, NEW q \in performed, p[1] = q[1]
               PROVE  p = q
    BY DEF NoDuplicateSend
  <2>1. p = <<p[1], p[2]>> /\ q = <<q[1], q[2]>>
    BY DEF SafeInv, TypeOK
  <2>2. p[2] = attempts[p[1]] /\ q[2] = attempts[q[1]]
    BY DEF SafeInv, RowInv, UpstreamOK
  <2> QED BY <2>1, <2>2
<1> QED BY <1>1, SafeInvariant, PTL

-----------------------------------------------------------------------------
(* Deliveries are carried out in order                                     *)

(* What is behind a row is behind what that row is behind.                 *)
LEMMA LostBehind ==
  ASSUME lost \subseteq Delivery, seqno \in [Delivery -> Nat],
         NEW f \in Delivery, NEW e \in Delivery, Before(f, e), BehindLost(f)
  PROVE  BehindLost(e)
<1>1. PICK x \in lost : SameRecipient(x, f) /\ 0 < seqno[x] /\ seqno[x] <= seqno[f]
  BY DEF BehindLost
<1>2. SameRecipient(x, e) /\ seqno[x] <= seqno[e]
  BY <1>1 DEF Before, SameRecipient
<1> QED BY <1>1, <1>2 DEF BehindLost

(* What a turn of the loop finds: rows in flight whose outcome is not lost *)
(* belong to other workers, so no predecessor of the row it picks can be   *)
(* in flight, waiting, quarantined or dead, unless it is behind a lost one.*)
LEMMA ThroughPrefix ==
  ASSUME NEW w \in Worker, NEW st, TurnOK(st, w), PrefixOK(st),
         \A d \in Delivery : st[d] = "sending" /\ d \notin lost =>
           \E v \in Worker \ {w} : pc[v] = "send" /\ cur[v] = d,
         NEW d \in Delivery, IsNext(st, target[w], d), ~Finished(st, target[w])
  PROVE  \A e \in Delivery : Before(e, d) => st[e] = "accepted" \/ BehindLost(e)
<1> SUFFICES ASSUME NEW e \in Delivery, Before(e, d), st[e] # "accepted", ~BehindLost(e)
             PROVE  FALSE
  OBVIOUS
<1>0. /\ target[w] \in Delivery /\ SameRecipient(d, target[w])
      /\ seqno \in [Delivery -> Nat] /\ st \in [Delivery -> Status]
      /\ seqno[d] <= seqno[target[w]] /\ lost \subseteq Delivery
  BY DEF TurnOK, TypeOK, IsNext, Eligible
<1>1. SameRecipient(e, target[w]) /\ seqno[e] < seqno[d] /\ Before(e, target[w])
  BY <1>0 DEF Before, SameRecipient
<1>2. st[e] \notin PENDING_STATUSES
  BY <1>0, <1>1 DEF IsNext, Eligible
<1>3. st[e] # "absent"
  BY <1>0 DEF TurnOK, RowOK, Before
<1>4. st[e] # "sending"
  <2> SUFFICES ASSUME st[e] = "sending" PROVE FALSE
    OBVIOUS
  <2>0. e \notin lost
    BY <1>0 DEF BehindLost, Before, SameRecipient
  <2>1. PICK v \in Worker \ {w} : pc[v] = "send" /\ cur[v] = e
    BY <2>0
  <2>2. Holds(v) /\ WorkerOK(st, v)
    BY <2>1 DEF TurnOK, Holds
  <2>3. SameRecipient(target[v], target[w])
    BY <1>1, <2>1, <2>2 DEF WorkerOK, SameRecipient
  <2> QED BY <2>1, <2>2, <2>3 DEF TurnOK, Alone
<1>5. st[e] \in {"ambiguous", "dead_letter"}
  BY <1>0, <1>2, <1>3, <1>4 DEF Status, TERMINAL_STATUSES, PENDING_STATUSES
<1>6. attempts[e] # 0
  BY <1>5 DEF TurnOK, RowOK
<1>7. ASSUME NEW f \in Delivery, Before(f, e) PROVE st[f] = "accepted"
  <2>1. BehindLost(f) => BehindLost(e)
    BY <1>0, <1>7, LostBehind
  <2> QED BY <1>6, <1>7, <2>1 DEF PrefixOK
<1>8. Blocked(st, target[w])
  BY <1>1, <1>5, <1>7 DEF Blocked
<1> QED BY <1>8 DEF Finished

LEMMA BeginSendOrder ==
  ASSUME NEW w \in Worker, NEW d \in Delivery, NEW st, TurnOK(st, w), PrefixOK(st),
         running # {}, UNCHANGED <<seqno, running, lost>>,
         st[d] \in PENDING_STATUSES,
         \A e \in Delivery : st[e] = "sending" /\ e \notin lost =>
           \E v \in Worker \ {w} : pc[v] = "send" /\ cur[v] = e,
         \A e \in Delivery : Before(e, d) => st[e] = "accepted" \/ BehindLost(e),
         BeginSend(w, d, st)
  PROVE  OrderInv'
<1>1. /\ status'[d] = "sending" /\ attempts'[d] # 0
      /\ \A e \in Delivery : e # d => status'[e] = st[e] /\ attempts'[e] = attempts[e]
  BY DEF BeginSend, TurnOK, TypeOK
<1>2. /\ pc'[w] = "send" /\ cur'[w] = d
      /\ \A v \in Worker : v # w => pc'[v] = pc[v] /\ cur'[v] = cur[v]
  BY DEF BeginSend, TurnOK, TypeOK
<1>3. PrefixOK(status)'
  <2> SUFFICES ASSUME NEW e \in Delivery, NEW f \in Delivery,
                      attempts'[f] # 0, Before(e, f)
               PROVE  status'[e] = "accepted" \/ BehindLost(e)
    BY DEF PrefixOK, Before, SameRecipient, BehindLost
  <2>1. st[e] = "accepted" \/ BehindLost(e)
    BY <1>1 DEF PrefixOK
  <2>2. CASE st[e] = "accepted"
    <3>1. e # d
      BY <2>2 DEF PENDING_STATUSES
    <3> QED BY <1>1, <2>2, <3>1
  <2> QED BY <2>1, <2>2
<1>4. ASSUME NEW e \in Delivery, status'[e] = "sending", e \notin lost
      PROVE  \E v \in Worker : pc'[v] = "send" /\ cur'[v] = e
  BY <1>1, <1>2, <1>4
<1> QED BY <1>3, <1>4 DEF OrderInv

LEMMA ThroughOrder ==
  ASSUME NEW w \in Worker, NEW st, TurnOK(st, w), PrefixOK(st), running # {},
         \A e \in Delivery : st[e] = "sending" /\ e \notin lost =>
           \E v \in Worker \ {w} : pc[v] = "send" /\ cur[v] = e,
         Through(w, st), UNCHANGED <<seqno, running, lost>>
  PROVE  OrderInv'
<1>1. CASE status' = st /\ Exit(w) /\ UNCHANGED attempts
  <2>1. \A v \in Worker : v # w => pc'[v] = pc[v] /\ cur'[v] = cur[v]
    BY <1>1 DEF Exit, ResetWorker, TurnOK, TypeOK
  <2> QED BY <1>1, <2>1 DEF OrderInv, PrefixOK, Before, SameRecipient, BehindLost
<1>2. ASSUME NEW d \in Delivery, IsNext(st, target[w], d), ~Finished(st, target[w]),
             BeginSend(w, d, st)
      PROVE  OrderInv'
  <2>1. \A e \in Delivery : Before(e, d) => st[e] = "accepted" \/ BehindLost(e)
    BY <1>2, ThroughPrefix
  <2>2. st[d] \in PENDING_STATUSES
    BY <1>2 DEF IsNext, Eligible
  <2> QED BY <1>2, <2>1, <2>2, BeginSendOrder
<1>3. ASSUME NEW d \in Delivery, BeginSleep(w, d, st) PROVE OrderInv'
  <2>1. \A v \in Worker : v # w => pc'[v] = pc[v] /\ cur'[v] = cur[v]
    BY <1>3 DEF BeginSleep, TurnOK, TypeOK
  <2> QED BY <1>3, <2>1 DEF BeginSleep, OrderInv, PrefixOK, Before, SameRecipient, BehindLost
<1> QED BY <1>1, <1>2, <1>3 DEF Through

(* A worker ends its send without its row being accepted.                  *)
LEMMA SettleOrder ==
  ASSUME SafeInv, OrderInv, NEW w \in Worker, pc[w] = "send",
         NEW new \in {"ambiguous", "dead_letter", "retry_wait"},
         status' = [status EXCEPT ![cur[w]] = new],
         \A v \in Worker : v # w => pc'[v] = pc[v] /\ cur'[v] = cur[v],
         UNCHANGED <<seqno, attempts, running, lost>>
  PROVE  OrderInv'
<1>1. /\ cur[w] \in Delivery /\ status'[cur[w]] = new
      /\ status[cur[w]] \in {"sending", "ambiguous"}
      /\ \A e \in Delivery : e # cur[w] => status'[e] = status[e]
  BY DEF SafeInv, TypeOK, WorkerInv, WorkerOK
<1>2. PrefixOK(status)'
  BY <1>1 DEF OrderInv, PrefixOK, Before, SameRecipient, BehindLost
<1>3. ASSUME NEW d \in Delivery, status'[d] = "sending", running # {}, d \notin lost
      PROVE  \E v \in Worker : pc'[v] = "send" /\ cur'[v] = d
  <2>1. d # cur[w] /\ status[d] = "sending"
    BY <1>1, <1>3
  <2>2. PICK v \in Worker : pc[v] = "send" /\ cur[v] = d
    BY <1>3, <2>1 DEF OrderInv
  <2> QED BY <2>1, <2>2
<1>4. running # {}
  BY DEF OrderInv
<1> QED BY <1>2, <1>3, <1>4 DEF OrderInv

LEMMA OrderStep ==
  ASSUME SingleService, SafeInv, OrderInv, [Next]_vars
  PROVE  OrderInv'
<1>0. TypeOK /\ LockInv /\ WorkerInv /\ RowInv
  BY DEF SafeInv
<1>1. ASSUME NEW d \in Delivery, Enqueue(d) PROVE OrderInv'
  <2>1. PICK m \in {0} \cup {seqno[e] : e \in Delivery} :
          /\ \A e \in Delivery : SameRecipient(d, e) => seqno[e] <= m
          /\ seqno' = [seqno EXCEPT ![d] = m + 1]
    BY <1>1 DEF Enqueue
  <2>2. /\ m \in Nat /\ seqno'[d] = m + 1 /\ seqno \in [Delivery -> Nat]
        /\ \A e \in Delivery : e # d => seqno'[e] = seqno[e] /\ status'[e] = status[e]
        /\ status'[d] = "queued" /\ attempts[d] = 0
        /\ UNCHANGED <<attempts, running, pc, cur, lost>>
    BY <1>0, <1>1, <2>1 DEF Enqueue, TypeOK, RowInv, RowOK, workerVars
  <2>3. PrefixOK(status)'
    <3> SUFFICES ASSUME NEW e \in Delivery, NEW f \in Delivery,
                        attempts[f] # 0, Before(e, f)'
                 PROVE  status'[e] = "accepted" \/ BehindLost(e)'
      BY <2>2 DEF PrefixOK
    <3>1. f # d /\ e # d
      BY <2>1, <2>2 DEF Before, SameRecipient
    <3>2. status'[e] = "accepted" \/ BehindLost(e)
      BY <2>2, <3>1 DEF OrderInv, PrefixOK, Before, SameRecipient
    <3>3. ASSUME BehindLost(e) PROVE BehindLost(e)'
      <4>1. PICK x \in lost : SameRecipient(x, e) /\ 0 < seqno[x] /\ seqno[x] <= seqno[e]
        BY <3>3 DEF BehindLost
      <4>2. x \in Delivery /\ x # d
        BY <1>0, <1>1, <4>1 DEF TypeOK, RowInv, RowOK, Enqueue
      <4> QED BY <2>2, <3>1, <4>1, <4>2 DEF BehindLost, SameRecipient
    <3> QED BY <3>2, <3>3
  <2> QED BY <2>2, <2>3 DEF OrderInv
<1>2. ASSUME NEW w \in Worker, NEW s \in Service, NEW d \in Delivery, Deliver(w, s, d)
      PROVE  OrderInv'
  <2>1. /\ pc[w] = "idle" /\ running # {} /\ UNCHANGED <<status, seqno, attempts, running, lost, cur>>
        /\ \A v \in Worker : v # w => pc'[v] = pc[v]
    BY <1>0, <1>2 DEF Deliver, TypeOK, rowVars
  <2> QED BY <2>1 DEF OrderInv, PrefixOK, Before, SameRecipient, BehindLost
<1>a. ASSUME NEW w \in Worker, pc[w] # "idle", Alone(w), pc[w] # "send"
      PROVE  /\ TurnOK(status, w) /\ PrefixOK(status) /\ running # {}
             /\ \A e \in Delivery : status[e] = "sending" /\ e \notin lost =>
                  \E v \in Worker \ {w} : pc[v] = "send" /\ cur[v] = e
  BY <1>0, <1>a DEF TurnOK, TypeOK, WorkerInv, RowInv, OrderInv
<1>3. ASSUME NEW w \in Worker, Acquire(w) PROVE OrderInv'
  <2>1. pc[w] = "wait" /\ Alone(w)
    BY <1>0, <1>3, AloneWhenFree DEF Acquire
  <2> QED BY <1>3, <1>a, <2>1, ThroughOrder DEF Acquire
<1>4. ASSUME NEW w \in Worker, Wake(w) PROVE OrderInv'
  <2>1. Holds(w) /\ pc[w] = "sleep" /\ cur[w] \in Delivery
    BY <1>0, <1>4 DEF Wake, Holds, TypeOK
  <2>2. status[cur[w]] = "retry_wait"
    BY <1>0, <1>4, <2>1 DEF Wake, WorkerInv, WorkerOK
  <2>3. BeginSend(w, cur[w], status) /\ UNCHANGED <<seqno, running, lost>>
    BY <1>4, <2>2 DEF Wake
  <2>4. Alone(w)
    BY <1>0, <2>1, AloneWhenHolding
  <2>5. attempts[cur[w]] # 0
    BY <1>0, <2>1, <2>2 DEF RowInv, RowOK
  <2>6. \A e \in Delivery : Before(e, cur[w]) => status[e] = "accepted" \/ BehindLost(e)
    BY <2>1, <2>5 DEF OrderInv, PrefixOK
  <2>7. status[cur[w]] \in PENDING_STATUSES
    BY <2>2 DEF PENDING_STATUSES
  <2> QED BY <1>a, <2>1, <2>3, <2>4, <2>6, <2>7, BeginSendOrder
<1>5. ASSUME NEW w \in Worker, Accepted(w) PROVE OrderInv'
  <2> DEFINE st == [status EXCEPT ![cur[w]] = "accepted"]
  <2>1. TurnOK(st, w) /\ Through(w, st) /\ UNCHANGED <<seqno, running, lost>>
    BY <1>5, AcceptTurn DEF Accepted
  <2>2. /\ cur[w] \in Delivery /\ pc[w] = "send"
        /\ \A e \in Delivery : e # cur[w] => st[e] = status[e]
        /\ st[cur[w]] = "accepted"
    BY <1>0, <1>5 DEF Accepted, TypeOK
  <2> HIDE DEF st
  <2>3. running # {}
    BY <2>2 DEF OrderInv
  <2>4. PrefixOK(st)
    BY <2>2 DEF OrderInv, PrefixOK
  <2>5. \A e \in Delivery : st[e] = "sending" /\ e \notin lost =>
          \E v \in Worker \ {w} : pc[v] = "send" /\ cur[v] = e
    BY <2>2, <2>3 DEF OrderInv
  <2> QED BY <2>1, <2>3, <2>4, <2>5, ThroughOrder
<1>6. ASSUME NEW w \in Worker, Exit(w)
      PROVE  \A v \in Worker : v # w => pc'[v] = pc[v] /\ cur'[v] = cur[v]
  BY <1>0, <1>6 DEF Exit, ResetWorker, TypeOK
<1>7. ASSUME NEW w \in Worker, Unknown(w) \/ Failed(w) PROVE OrderInv'
  BY <1>6, <1>7, SettleOrder DEF Unknown, Failed
<1>8. ASSUME NEW w \in Worker, Refused(w) PROVE OrderInv'
  <2>1. CASE att[w] >= MaxAttempts
    BY <1>6, <1>8, <2>1, SettleOrder DEF Refused
  <2>2. CASE ~(att[w] >= MaxAttempts)
    <3>1. \A v \in Worker : v # w => pc'[v] = pc[v] /\ cur'[v] = cur[v]
      BY <1>0, <1>8, <2>2 DEF Refused, TypeOK
    <3> QED BY <1>8, <2>2, <3>1, SettleOrder DEF Refused
  <2> QED BY <2>1, <2>2
<1>9. ASSUME NEW w \in Worker, Cancelled(w) PROVE OrderInv'
  <2>1. CASE pc[w] = "send"
    BY <1>6, <1>9, <2>1, SettleOrder DEF Cancelled
  <2>2. CASE pc[w] # "send"
    <3>1. /\ pc'[w] = "idle" /\ UNCHANGED <<status, seqno, attempts, running, lost>>
          /\ \A v \in Worker : v # w => pc'[v] = pc[v] /\ cur'[v] = cur[v]
      BY <1>0, <1>6, <1>9, <2>2 DEF Cancelled, Exit, ResetWorker, TypeOK
    <3> QED BY <2>2, <3>1 DEF OrderInv, PrefixOK, Before, SameRecipient, BehindLost
  <2> QED BY <2>1, <2>2
<1>10. ASSUME NEW w \in Worker, StoreFails(w) PROVE OrderInv'
  <2>1. /\ pc[w] = "send" /\ cur[w] \in Delivery /\ lost' = lost \cup {cur[w]}
        /\ UNCHANGED <<status, seqno, attempts, running>> /\ pc'[w] = "idle"
        /\ \A v \in Worker : v # w => pc'[v] = pc[v] /\ cur'[v] = cur[v]
    BY <1>0, <1>6, <1>10 DEF StoreFails, Exit, ResetWorker, TypeOK, rowVars
  <2>2. \A d : BehindLost(d) => BehindLost(d)'
    BY <2>1 DEF BehindLost, SameRecipient
  <2>3. PrefixOK(status)'
    BY <2>1, <2>2 DEF OrderInv, PrefixOK, Before, SameRecipient
  <2> QED BY <2>1, <2>3 DEF OrderInv
<1>11. ASSUME NEW s \in Service, Start(s) PROVE OrderInv'
  <2>1. /\ \A d \in Delivery :
             \/ status'[d] = status[d] /\ status[d] # "sending"
             \/ status[d] = "sending" /\ status'[d] = "ambiguous"
        /\ running' # {} /\ UNCHANGED <<seqno, attempts, pc, cur, lost>>
    BY <1>0, <1>11 DEF Start, Recovered, TypeOK, workerVars
  <2> QED BY <2>1 DEF OrderInv, PrefixOK, Before, SameRecipient, BehindLost
<1>12. CASE Crash
  BY <1>12 DEF Crash, OrderInv, PrefixOK, Before, SameRecipient, BehindLost, rowVars
<1>13. CASE Perform \/ UNCHANGED vars
  BY <1>13 DEF Perform, vars, rowVars, workerVars, OrderInv, PrefixOK, Before, SameRecipient,
               BehindLost
<1> QED BY <1>1, <1>2, <1>3, <1>4, <1>5, <1>7, <1>8, <1>9, <1>10, <1>11,
           <1>12, <1>13 DEF Next, SendResult

(* What the upstream carries out next for a recipient was enqueued after   *)
(* everything it has carried out for it, through refusals, timeouts,       *)
(* cancellations, crashes and restarts, and through lost commits of any    *)
(* row except for the rows whose outcome was lost and those behind them.   *)
THEOREM InOrderDelivery == ASSUME SingleService PROVE Spec => InOrder
<1>1. Init => OrderInv
  BY DEF Init, OrderInv, PrefixOK
<1>2. SafeInv /\ OrderInv /\ [Next]_vars => OrderInv'
  BY OrderStep
<1>3. SafeInv /\ OrderInv /\ [Next]_vars => [InOrderStep]_vars
  <2> SUFFICES ASSUME SafeInv, OrderInv, [Next]_vars,
                      NEW p \in performed' \ performed, NEW q \in performed,
                      SameRecipient(p[1], q[1])
               PROVE  Before(q[1], p[1]) \/ BehindLost(p[1])
    BY DEF InOrderStep
  <2>1. Perform
    BY DEF Next, SendResult, Enqueue, Deliver, Acquire, Wake, Accepted, Unknown, Refused,
           Failed, Cancelled, StoreFails, Start, Crash, vars, upstreamVars
  <2>2. p \in requests
    BY <2>1 DEF Perform
  <2>3. /\ p = <<p[1], p[2]>> /\ p[1] \in Delivery /\ q = <<q[1], q[2]>> /\ q[1] \in Delivery
        /\ seqno \in [Delivery -> Nat]
    BY <2>2 DEF SafeInv, TypeOK
  <2>4. /\ p[2] = attempts[p[1]] /\ q[2] = attempts[q[1]] /\ status[p[1]] # "accepted"
        /\ status[p[1]] \notin {"absent", "queued"} /\ status[q[1]] \notin {"absent", "queued"}
    BY <2>2 DEF SafeInv, RowInv, UpstreamOK, PENDING_STATUSES
  <2>5. p[1] # q[1]
    BY <2>3, <2>4
  <2>6. seqno[p[1]] # 0 /\ seqno[q[1]] # 0 /\ seqno[p[1]] # seqno[q[1]] /\ attempts[q[1]] # 0
    BY <2>3, <2>4, <2>5 DEF SafeInv, RowInv, RowOK
  <2>7. ~Before(p[1], q[1]) \/ BehindLost(p[1])
    BY <2>3, <2>4, <2>6 DEF OrderInv, PrefixOK
  <2> QED BY <2>3, <2>6, <2>7 DEF Before, SameRecipient
<1> QED BY <1>1, <1>2, <1>3, SafeInvariant, PTL DEF Spec, InOrder
=============================================================================
