------------------------ MODULE InboundReceiptsProofs -----------------------
(***************************************************************************)
(* Proofs about InboundReceipts, for any events, adapters, channels,       *)
(* handlers and bounds.                                                    *)
(***************************************************************************)
EXTENDS InboundReceipts, FiniteSetTheorems, TLAPS

\* The steps of a handler that has an event.
OwnStep(h) ==
  \/ Converted(h) \/ Unreadable(h)
  \/ Reply(h) \/ Send(h) \/ Accepted(h) \/ NotAccepted(h)
  \/ Finish(h) \/ Fail(h) \/ Noticed(h) \/ Apologised(h) \/ Cancelled(h)
  \/ OutcomeLost(h) \/ ReplayLost(h) \/ ReportLost(h) \/ CompletionLost(h)

\* What complete() and retry() write is a status; they take the event out of
\* "processing", leave the others alone and never undo "completed".
LEMMA Written ==
  ASSUME TypeOK, NEW e \in Event, Complete(e) \/ Retry(e)
  PROVE  /\ status' \in [Event -> Status]
         /\ e \in Keyed => status'[e] # "processing"
         /\ \A f \in Event \ {e} : status'[f] = status[f]
         /\ \A f \in Event : status[f] = "completed" => status'[f] = "completed"
BY DEF TypeOK, Complete, Retry, Reopened, Status

\* complete() leaves the row as it is or completes it.
LEMMA CompleteOnly ==
  ASSUME TypeOK, NEW e \in Event, Complete(e)
  PROVE  /\ status'[e] \in {status[e], "completed"}
         /\ e \in Keyed => status'[e] = "completed"
BY DEF TypeOK, Complete

\* A handler in any of its waits has an event.
LEMMA EventOf ==
  ASSUME TypeOK, NEW h \in Handler, pc[h] # "idle"
  PROVE  ev[h] \in Event
BY DEF TypeOK

\* The part of the types that is about the handlers.
HandlerTypes ==
  /\ pc \in [Handler -> Waits]
  /\ ev \in [Handler -> Event \cup {Nil}]
  /\ \A h \in Handler : pc[h] = "idle" <=> ev[h] = Nil
  /\ replaying \subseteq Handler

\* A handler that ends has no event left, one that goes on keeps its event.
LEMMA LeaveType ==
  ASSUME TypeOK, NEW h \in Handler, Leave(h)
  PROVE  HandlerTypes'
BY DEF TypeOK, Leave, HandlerTypes, Waits

LEMMA GoesType ==
  ASSUME TypeOK, NEW h \in Handler, NEW w \in Waits \ {"idle"}, pc[h] # "idle",
         Goes(h, w)
  PROVE  HandlerTypes'
BY DEF TypeOK, Goes, HandlerTypes

\* Counting the replies keeps them natural numbers.
LEMMA ReceivedType ==
  ASSUME TypeOK, NEW S, Received(S) \/ MayReceive(S)
  PROVE  replies' \in [Event -> Nat]
BY DEF TypeOK, Received, MayReceive

\* A handler that claims an event.
LEMMA ClaimType ==
  ASSUME TypeOK, NEW h \in Handler, NEW e \in Event, Claim(h, e),
         replaying' \subseteq Handler
  PROVE  HandlerTypes' /\ status' \in [Event -> Status] /\ known' \subseteq Event
BY ReceiptsAssumption DEF TypeOK, Claim, HandlerTypes, Waits, Status

-----------------------------------------------------------------------------
(* Type correctness                                                        *)

\* The steps of a handler keep the types.
LEMMA OwnType ==
  ASSUME TypeOK, NEW h \in Handler, OwnStep(h)
  PROVE  TypeOK'
<1> USE ReceiptsAssumption
<1>1. pc[h] # "idle"
  BY DEF OwnStep, Converted, Unreadable, Reply, Send, Accepted, NotAccepted, Finish,
     Fail, Noticed, Apologised, Cancelled, OutcomeLost, ReplayLost, ReportLost, CompletionLost, Working
<1>2. ev[h] \in Event
  BY <1>1, EventOf
<1>3. /\ Complete(ev[h]) => status' \in [Event -> Status]
      /\ Retry(ev[h]) => status' \in [Event -> Status]
  BY <1>2, Written
<1>4. /\ Leave(h) => HandlerTypes'
      /\ \A w \in Waits \ {"idle"} : Goes(h, w) => HandlerTypes'
  BY <1>1, LeaveType, GoesType
<1>5. /\ Received({ev[h]}) => replies' \in [Event -> Nat]
      /\ MayReceive({ev[h]}) => replies' \in [Event -> Nat]
  BY ReceivedType
<1>6. /\ HandlerTypes'
      /\ status' \in [Event -> Status]
      /\ replies' \in [Event -> Nat]
      /\ row' \in [Event -> RowStatus]
      /\ known' \subseteq Event /\ failed' \subseteq Event /\ lost' \subseteq Event
      /\ losses' \in 0..MaxLost
      /\ UNCHANGED <<kind, started, due, delivered, outlived, crashes, stops>>
  <2>1. CASE Converted(h)
    BY <2>1, <1>2, <1>3, <1>4, <1>5 DEF TypeOK, Converted, table, history, bounds,
       Waits, RowStatus
  <2>2. CASE Unreadable(h)
    BY <2>2, <1>2, <1>3, <1>4, <1>5 DEF TypeOK, Unreadable, table, history, bounds,
       Waits, RowStatus
  <2>3. CASE Reply(h)
    BY <2>3, <1>2, <1>3, <1>4, <1>5 DEF TypeOK, Reply, table, history, bounds,
       Waits, RowStatus
  <2>4. CASE Send(h)
    BY <2>4, <1>2, <1>3, <1>4, <1>5 DEF TypeOK, Send, table, history, bounds,
       Waits, RowStatus
  <2>5. CASE Accepted(h)
    BY <2>5, <1>2, <1>3, <1>4, <1>5 DEF TypeOK, Accepted, table, history, bounds,
       Waits, RowStatus
  <2>6. CASE NotAccepted(h)
    BY <2>6, <1>2, <1>3, <1>4, <1>5 DEF TypeOK, NotAccepted, table, history, bounds,
       Waits, RowStatus
  <2>7. CASE Finish(h)
    BY <2>7, <1>2, <1>3, <1>4, <1>5 DEF TypeOK, Finish, table, history, bounds,
       Waits, RowStatus
  <2>8. CASE Fail(h)
    BY <2>8, <1>2, <1>3, <1>4, <1>5 DEF TypeOK, Fail, table, history, bounds,
       Waits, RowStatus
  <2>9. CASE Noticed(h)
    BY <2>9, <1>2, <1>3, <1>4, <1>5 DEF TypeOK, Noticed, table, history, bounds,
       Waits, RowStatus
  <2>10. CASE Apologised(h)
    BY <2>10, <1>2, <1>3, <1>4, <1>5 DEF TypeOK, Apologised, table, history, bounds,
       Waits, RowStatus
  <2>11. CASE Cancelled(h)
    BY <2>11, <1>2, <1>3, <1>4, <1>5 DEF TypeOK, Cancelled, table, history, bounds,
       Waits, RowStatus
  <2>12. CASE OutcomeLost(h)
    BY <2>12, <1>2, <1>3, <1>4, <1>5 DEF TypeOK, OutcomeLost, Raises, table, history,
       bounds,
       Waits, RowStatus
  <2>13. CASE ReplayLost(h)
    BY <2>13, <1>2, <1>3, <1>4, <1>5 DEF TypeOK, ReplayLost, Raises, table, history, bounds,
       Waits, RowStatus
  <2>14. CASE ReportLost(h)
    BY <2>14, <1>2, <1>3, <1>4, <1>5 DEF TypeOK, ReportLost, Raises, table, history, bounds,
       Waits, RowStatus
  <2>15. CASE CompletionLost(h)
    <3>1. HandlerTypes' /\ replies' \in [Event -> Nat]
      BY <2>15, <1>4, <1>5 DEF CompletionLost
    <3>2. losses' \in 0..MaxLost /\ UNCHANGED <<crashes, stops>>
      BY <2>15 DEF CompletionLost, Raises, TypeOK
    <3>3. row' \in [Event -> RowStatus] /\ lost' \subseteq Event
      BY <2>15, <1>2 DEF CompletionLost, TypeOK, RowStatus
    <3> QED BY <2>15, <3>1, <3>2, <3>3 DEF CompletionLost, TypeOK
  <2> QED
    BY <2>1, <2>2, <2>3, <2>4, <2>5, <2>6, <2>7, <2>8, <2>9, <2>10, <2>11, <2>12, <2>13,
       <2>14, <2>15 DEF OwnStep
<1> QED BY <1>6 DEF TypeOK, HandlerTypes

\* Every step preserves the types.
LEMMA TypeStep == TypeOK /\ [Next]_vars => TypeOK'
<1> SUFFICES ASSUME TypeOK, [Next]_vars PROVE TypeOK'
  OBVIOUS
<1> USE ReceiptsAssumption
<1>1. ASSUME NEW h \in Handler, NEW e \in Event, Receive(h, e) PROVE TypeOK'
  <2>1. HandlerTypes' /\ status' \in [Event -> Status] /\ known' \subseteq Event
    <3>1. CASE Taken(e)
      BY <1>1, <3>1, ClaimType DEF Receive, TypeOK
    <3>2. CASE ~Taken(e)
      BY <1>1, <3>2 DEF Receive, TypeOK, HandlerTypes
    <3> QED BY <3>1, <3>2
  <2>2. delivered' \in [Event -> Nat]
    BY <1>1 DEF Receive, TypeOK
  <2> QED BY <1>1, <2>1, <2>2 DEF TypeOK, Receive, HandlerTypes, history, bounds
<1>2. ASSUME NEW h \in Handler, NEW e \in Event, Replay(h, e) PROVE TypeOK'
  <2>1. HandlerTypes' /\ status' \in [Event -> Status] /\ known' \subseteq Event
    <3>1. CASE Claimable(e)
      <4>1. Claim(h, e) /\ replaying' \subseteq Handler
        BY <1>2, <3>1 DEF Replay, TypeOK
      <4> QED BY <4>1, ClaimType
    <3>2. CASE ~Claimable(e)
      BY <1>2, <3>2 DEF Replay, TypeOK, HandlerTypes, handlerVars
    <3> QED BY <3>1, <3>2
  <2> QED BY <1>2, <2>1 DEF TypeOK, Replay, HandlerTypes, history, bounds
<1>3. ASSUME NEW h \in Handler, OwnStep(h) PROVE TypeOK'
  BY <1>3, OwnType
<1>4. ASSUME NEW e \in Event, Forget(e) PROVE TypeOK'
  BY <1>4 DEF TypeOK, Forget, table, handlerVars, history, bounds
<1>5. ASSUME NEW i \in Instance, Start(i) PROVE TypeOK'
  <2>1. status' \in [Event -> Status]
    BY <1>5 DEF TypeOK, Start, Recovered, Status
  <2>2. row' \in [Event -> RowStatus]
    BY <1>5 DEF TypeOK, Start, RowStatus
  <2>3. started' \subseteq Instance /\ due' \subseteq Event
    BY <1>5 DEF TypeOK, Start, Replayable
  <2>4. lost' \subseteq Event /\ outlived' \subseteq Event
    BY <1>5 DEF TypeOK, Start
  <2> QED BY <1>5, <2>1, <2>2, <2>3, <2>4 DEF TypeOK, Start, handlerVars, bounds
<1>6. ASSUME NEW i \in Instance, Stop(i) PROVE TypeOK'
  <2>1. status' \in [Event -> Status]
    BY <1>6 DEF TypeOK, Stop, Reopened, Status
  <2>2. row' \in [Event -> RowStatus]
    BY <1>6 DEF TypeOK, Stop, RowStatus
  <2>3. HandlerTypes'
    BY <1>6 DEF TypeOK, Stop, HandlerTypes, Waits
  <2>4. replies' \in [Event -> Nat]
    BY <1>6, ReceivedType DEF Stop
  <2>5. failed' \subseteq Event
    BY <1>6 DEF TypeOK, Stop, Ended, HandlersOf
  <2>6. stops' \in 0..MaxStops
    BY <1>6 DEF TypeOK, Stop
  <2> QED BY <1>6, <2>1, <2>2, <2>3, <2>4, <2>5, <2>6 DEF TypeOK, Stop, HandlerTypes
<1>7. CASE Crash
  <2>1. replies' \in [Event -> Nat]
    BY <1>7, ReceivedType DEF Crash
  <2> QED BY <1>7, <2>1 DEF TypeOK, Crash, table, Waits
<1>8. CASE UNCHANGED vars
  BY <1>8 DEF TypeOK, vars, table, handlerVars, history, bounds
<1> QED
  BY <1>1, <1>2, <1>3, <1>4, <1>5, <1>6, <1>7, <1>8 DEF Next, Handles, OwnStep

\* Type correctness: handlers hold an event exactly while they run, and every
\* row of the receipts and of the outbox has one of its statuses.
THEOREM TypeCorrect == Spec => []TypeOK
<1>1. Init => TypeOK
  BY ReceiptsAssumption DEF Init, TypeOK, Status, RowStatus, Waits
<1> QED BY <1>1, TypeStep, PTL DEF Spec

-----------------------------------------------------------------------------
(* What the steps do to the receipts                                       *)

\* The steps of a handler touch its own row only, never undo "completed",
\* and while the handler goes on they open no row.
LEMMA OwnWrites ==
  ASSUME TypeOK, NEW h \in Handler, OwnStep(h)
  PROVE  /\ ev[h] \in Event
         /\ \A k \in Handler \ {h} : pc'[k] = pc[k] /\ ev'[k] = ev[k]
         /\ Working(h)' => Working(h) /\ ev'[h] = ev[h]
         /\ \A f \in Event \ {ev[h]} : status'[f] = status[f]
         /\ Working(h)' => status'[ev[h]] \in {status[ev[h]], "completed"}
         /\ status[ev[h]] = "completed" => status'[ev[h]] = "completed"
         /\ UNCHANGED <<kind, started, outlived>>
         /\ lost \subseteq lost'
<1> USE ReceiptsAssumption
<1>1. pc[h] # "idle"
  BY DEF OwnStep, Converted, Unreadable, Reply, Send, Accepted, NotAccepted, Finish,
     Fail, Noticed, Apologised, Cancelled, OutcomeLost, ReplayLost, ReportLost, CompletionLost, Working
<1>2. ev[h] \in Event
  BY <1>1, EventOf
<1>3. /\ Complete(ev[h]) => /\ \A f \in Event \ {ev[h]} : status'[f] = status[f]
                            /\ status'[ev[h]] \in {status[ev[h]], "completed"}
      /\ Retry(ev[h]) => /\ \A f \in Event \ {ev[h]} : status'[f] = status[f]
                         /\ status[ev[h]] = "completed" => status'[ev[h]] = "completed"
  BY <1>2, Written, CompleteOnly
<1>4. Leave(h) => /\ \A k \in Handler \ {h} : pc'[k] = pc[k] /\ ev'[k] = ev[k]
                  /\ ~Working(h)'
  BY DEF TypeOK, Leave, Working
<1>5. ASSUME NEW w \in Waits, Goes(h, w)
      PROVE  /\ \A k \in Handler \ {h} : pc'[k] = pc[k] /\ ev'[k] = ev[k]
             /\ ev'[h] = ev[h] /\ pc'[h] = w
  BY <1>5 DEF TypeOK, Goes
<1>6. CASE Converted(h)
  BY <1>6, <1>2, <1>3, <1>4, <1>5 DEF Converted, Working, Waits, table, history
<1>7. CASE Unreadable(h)
  BY <1>7, <1>2, <1>3, <1>4, <1>5 DEF Unreadable, Working, Waits, table, history
<1>8. CASE Reply(h)
  BY <1>8, <1>2, <1>3, <1>4, <1>5 DEF Reply, Working, Waits, table, history
<1>9. CASE Send(h)
  BY <1>9, <1>2, <1>3, <1>4, <1>5 DEF Send, Working, Waits, table, history
<1>10. CASE Accepted(h)
  BY <1>10, <1>2, <1>3, <1>4, <1>5 DEF Accepted, Working, Waits, table, history
<1>11. CASE NotAccepted(h)
  BY <1>11, <1>2, <1>3, <1>4, <1>5 DEF NotAccepted, Working, Waits, table, history
<1>12. CASE Finish(h)
  BY <1>12, <1>2, <1>3, <1>4, <1>5 DEF Finish, Working, Waits, table, history
<1>13. CASE Fail(h)
  BY <1>13, <1>2, <1>3, <1>4, <1>5 DEF Fail, Working, Waits, table, history
<1>14. CASE Noticed(h)
  BY <1>14, <1>2, <1>3, <1>4, <1>5 DEF Noticed, Working, Waits, table, history
<1>15. CASE Apologised(h)
  BY <1>15, <1>2, <1>3, <1>4, <1>5 DEF Apologised, Working, Waits, table, history
<1>16. CASE Cancelled(h)
  BY <1>16, <1>2, <1>3, <1>4, <1>5 DEF Cancelled, Working, Waits, table, history
<1>17. CASE OutcomeLost(h)
  BY <1>17, <1>2, <1>3, <1>4, <1>5 DEF OutcomeLost, Working, Waits, table, history
<1>18. CASE ReplayLost(h)
  BY <1>18, <1>2, <1>3, <1>4, <1>5 DEF ReplayLost, Working, Waits, table, history
<1>19. CASE ReportLost(h)
  BY <1>19, <1>2, <1>3, <1>4, <1>5 DEF ReportLost, Working, Waits, table, history
<1>20. CASE CompletionLost(h)
  BY <1>20, <1>2, <1>3, <1>4, <1>5 DEF CompletionLost, Working, Waits, table, history
<1> QED
  BY <1>6, <1>7, <1>8, <1>9, <1>10, <1>11, <1>12, <1>13, <1>14, <1>15, <1>16, <1>17,
     <1>18, <1>19, <1>20 DEF OwnStep

\* No step takes an event out of "completed".
LEMMA CompletedStep ==
  TypeOK /\ [Next]_vars
  => [\A e \in Keyed : status[e] = "completed" => status'[e] = "completed"]_vars
<1> SUFFICES ASSUME TypeOK, Next, NEW e \in Keyed, status[e] = "completed"
             PROVE  status'[e] = "completed"
  OBVIOUS
<1> USE ReceiptsAssumption
<1>1. ASSUME NEW h \in Handler, NEW f \in Event, Receive(h, f)
      PROVE  status'[e] = "completed"
  BY <1>1 DEF Receive, Taken, Claim, Claimable, TypeOK
<1>2. ASSUME NEW h \in Handler, NEW f \in Event, Replay(h, f)
      PROVE  status'[e] = "completed"
  BY <1>2 DEF Replay, Claim, Claimable, TypeOK
<1>3. ASSUME NEW h \in Handler, OwnStep(h) PROVE status'[e] = "completed"
  BY <1>3, OwnWrites
<1>4. ASSUME NEW f \in Event, Forget(f) PROVE status'[e] = "completed"
  BY <1>4 DEF Forget, table
<1>5. ASSUME NEW i \in Instance, Start(i) PROVE status'[e] = "completed"
  BY <1>5 DEF Start, Recovered
<1>6. ASSUME NEW i \in Instance, Stop(i) PROVE status'[e] = "completed"
  BY <1>6 DEF Stop, Reopened
<1>7. CASE Crash
  BY <1>7 DEF Crash, table
<1> QED BY <1>1, <1>2, <1>3, <1>4, <1>5, <1>6, <1>7 DEF Next, Handles, OwnStep

\* A completed event is never offered to a handler again: not by the late
\* failure of another handler, not by a restart or a replay.
THEOREM CompletedStays == Spec => CompletedIsFinal
BY CompletedStep, TypeCorrect, PTL DEF Spec, CompletedIsFinal

-----------------------------------------------------------------------------
(* A row in "processing" belongs to a handler                              *)

\* WeCom leaves the row alone when the dispatch raises after its reply
\* (report_failure): the reply had completed it already.
RepliedDone ==
  \A h \in Handler :
    pc[h] = "replied" /\ ev[h] \in Keyed /\ Wecom(ev[h]) => status[ev[h]] = "completed"

\* Every step preserves that.
LEMMA RepliedStep ==
  TypeOK /\ RepliedDone /\ [Next]_vars => RepliedDone'
<1> SUFFICES ASSUME TypeOK, RepliedDone, [Next]_vars PROVE RepliedDone'
  OBVIOUS
<1> USE ReceiptsAssumption
<1>0. \A e \in Keyed : status[e] = "completed" => status'[e] = "completed"
  BY CompletedStep DEF vars, table
<1>1. ASSUME kind' = kind,
             \A k \in Handler : pc'[k] = "replied" => pc[k] = "replied" /\ ev'[k] = ev[k]
      PROVE  RepliedDone'
  BY <1>0, <1>1 DEF RepliedDone, Wecom
<1>2. ASSUME NEW h \in Handler, NEW e \in Event, Receive(h, e) \/ Replay(h, e)
      PROVE  RepliedDone'
  <2>1. \A k \in Handler : pc'[k] = "replied" => pc[k] = "replied" /\ ev'[k] = ev[k]
    BY <1>2 DEF Receive, Replay, Claim, TypeOK, handlerVars
  <2>2. kind' = kind
    BY <1>2 DEF Receive, Replay
  <2> QED BY <1>1, <2>1, <2>2
<1>3. ASSUME NEW h \in Handler, OwnStep(h) PROVE RepliedDone'
  <2>1. /\ ev[h] \in Event /\ kind' = kind
        /\ \A k \in Handler \ {h} : pc'[k] = pc[k] /\ ev'[k] = ev[k]
        /\ Working(h)' => ev'[h] = ev[h]
    BY <1>3, OwnWrites
  <2>2. CASE Reply(h)
    <3>1. ~Wecom(ev[h])
      BY <2>2 DEF Reply
    <3> QED BY <1>0, <2>1, <3>1 DEF RepliedDone, Wecom, Working
  <2>3. CASE (Send(h) \/ Accepted(h)) /\ pc'[h] = "replied"
    <3>1. Complete(ev[h])
      BY <2>3 DEF Send, Accepted, Goes, TypeOK
    <3>2. ev[h] \in Keyed => status'[ev[h]] = "completed"
      BY <2>1, <3>1, CompleteOnly
    <3> QED BY <1>0, <2>1, <2>3, <3>2 DEF RepliedDone, Wecom, Working
  <2>4. CASE pc'[h] # "replied"
    BY <1>1, <2>1, <2>4
  <2>5. Reply(h) \/ Send(h) \/ Accepted(h) \/ pc'[h] # "replied"
    BY <1>3 DEF OwnStep, Converted, Unreadable, NotAccepted, Finish, Fail, Noticed,
       Apologised, Cancelled, OutcomeLost, ReplayLost, ReportLost, CompletionLost,
       Leave, Goes, TypeOK
  <2> QED BY <2>2, <2>3, <2>4, <2>5
<1>4. ASSUME NEW e \in Event, Forget(e) PROVE RepliedDone'
  BY <1>1, <1>4 DEF Forget, handlerVars
<1>5. ASSUME NEW i \in Instance, Start(i) PROVE RepliedDone'
  BY <1>1, <1>5 DEF Start, handlerVars
<1>6. ASSUME NEW i \in Instance, Stop(i) PROVE RepliedDone'
  BY <1>1, <1>6 DEF Stop
<1>7. CASE Crash
  BY <1>1, <1>7 DEF Crash
<1>8. CASE UNCHANGED vars
  BY <1>1, <1>8 DEF vars, handlerVars
<1> QED
  BY <1>2, <1>3, <1>4, <1>5, <1>6, <1>7, <1>8 DEF Next, Handles, OwnStep

\* A handler that stops working has given up its row, or the table has
\* refused to store that.
LEMMA GivenUp ==
  ASSUME TypeOK, RepliedDone, NEW h \in Handler, OwnStep(h), Working(h), ~Working(h)',
         ev[h] \in Keyed
  PROVE  status'[ev[h]] # "processing" \/ ev[h] \in lost'
<1> USE ReceiptsAssumption
<1>1. CASE Complete(ev[h]) \/ Retry(ev[h])
  BY <1>1, Written
<1>2. CASE Fail(h) /\ Wecom(ev[h])
  <2>1. pc[h] = "replied" /\ status' = status
    BY <1>2 DEF Fail, Goes, Working, TypeOK
  <2> QED BY <1>2, <2>1 DEF RepliedDone
<1>3. CASE OutcomeLost(h) \/ CompletionLost(h)
  BY <1>3 DEF OutcomeLost, CompletionLost
<1>4. ~(Converted(h) \/ Reply(h) \/ NotAccepted(h) \/ ReportLost(h) \/ Noticed(h)
        \/ Send(h) \/ Accepted(h))
  BY DEF Converted, Reply, NotAccepted, ReportLost, Noticed, Send, Accepted, Goes,
     Working, TypeOK
<1>5. Unreadable(h) \/ Cancelled(h) \/ Finish(h) \/ Apologised(h) \/ ReplayLost(h)
      \/ (Fail(h) /\ ~Wecom(ev[h]))
      => Complete(ev[h]) \/ Retry(ev[h])
  BY DEF Unreadable, Cancelled, Finish, Apologised, ReplayLost, Fail
<1> QED BY <1>1, <1>2, <1>3, <1>4, <1>5 DEF OwnStep

\* Every step keeps a handler on each row in "processing".
LEMMA AbandonedStep ==
  TypeOK /\ RepliedDone /\ NotAbandoned /\ [Next]_vars => NotAbandoned'
<1> SUFFICES ASSUME TypeOK, RepliedDone, NotAbandoned, [Next]_vars,
                    NEW e \in Keyed \ lost',
                    status'[e] = "processing", InstanceOf[e] \in started'
             PROVE  AtWork(e)' # {}
  BY DEF NotAbandoned
<1> USE ReceiptsAssumption
<1>old. e \notin lost /\ status[e] = "processing" /\ InstanceOf[e] \in started
        => \E h \in Handler : Working(h) /\ ev[h] = e
  BY DEF NotAbandoned, AtWork
<1> SUFFICES \E h \in Handler : Working(h)' /\ ev'[h] = e
  BY DEF AtWork
<1>1. ASSUME NEW h \in Handler, NEW f \in Event, pc[h] = "idle", Claim(h, f),
             started' = started, lost' = lost
      PROVE  \E k \in Handler : Working(k)' /\ ev'[k] = e
  <2>1. CASE f = e
    BY <1>1, <2>1 DEF Claim, TypeOK, Working
  <2>2. CASE f # e
    <3>1. PICK k \in Handler : Working(k) /\ ev[k] = e
      BY <1>1, <1>old, <2>2 DEF Claim, TypeOK
    <3>2. k # h
      BY <1>1, <3>1 DEF Working
    <3> QED BY <1>1, <3>1, <3>2 DEF Claim, TypeOK, Working
  <2> QED BY <2>1, <2>2
<1>2. ASSUME UNCHANGED <<status, pc, ev, started, lost>>
      PROVE  \E k \in Handler : Working(k)' /\ ev'[k] = e
  BY <1>2, <1>old DEF Working
<1>3. ASSUME NEW h \in Handler, NEW f \in Event, Receive(h, f)
      PROVE  \E k \in Handler : Working(k)' /\ ev'[k] = e
  BY <1>1, <1>2, <1>3 DEF Receive, history
<1>4. ASSUME NEW h \in Handler, NEW f \in Event, Replay(h, f)
      PROVE  \E k \in Handler : Working(k)' /\ ev'[k] = e
  BY <1>1, <1>2, <1>4 DEF Replay, history, handlerVars
<1>5. ASSUME NEW h \in Handler, OwnStep(h)
      PROVE  \E k \in Handler : Working(k)' /\ ev'[k] = e
  <2>1. /\ ev[h] \in Event /\ started' = started /\ lost \subseteq lost'
        /\ \A k \in Handler \ {h} : pc'[k] = pc[k] /\ ev'[k] = ev[k]
        /\ Working(h)' => ev'[h] = ev[h]
        /\ \A f \in Event \ {ev[h]} : status'[f] = status[f]
        /\ Working(h)' => status'[ev[h]] \in {status[ev[h]], "completed"}
    BY <1>5, OwnWrites
  <2>2. CASE ev[h] = e /\ Working(h)'
    BY <2>1, <2>2
  <2>3. CASE ev[h] = e /\ ~Working(h)'
    <3>1. ~Working(h)
      BY <1>5, <2>3, GivenUp
    <3>2. Noticed(h)
      BY <1>5, <3>1 DEF OwnStep, Converted, Unreadable, Reply, Send, Accepted,
         NotAccepted, Finish, Fail, Noticed, Apologised, Cancelled, OutcomeLost,
         ReplayLost, ReportLost, CompletionLost, Working
    <3>3. status' = status
      BY <3>2 DEF Noticed, table
    <3>4. PICK k \in Handler : Working(k) /\ ev[k] = e
      BY <1>old, <2>1, <3>3
    <3>5. k # h
      BY <3>1, <3>4
    <3> QED BY <2>1, <3>4, <3>5 DEF Working
  <2>4. CASE ev[h] # e
    <3>1. PICK k \in Handler : Working(k) /\ ev[k] = e
      BY <1>old, <2>1, <2>4
    <3> QED BY <2>1, <2>4, <3>1 DEF Working
  <2> QED BY <2>2, <2>3, <2>4
<1>6. ASSUME NEW f \in Event, Forget(f)
      PROVE  \E k \in Handler : Working(k)' /\ ev'[k] = e
  BY <1>2, <1>6 DEF Forget, table, handlerVars, history
<1>7. ASSUME NEW i \in Instance, Start(i)
      PROVE  \E k \in Handler : Working(k)' /\ ev'[k] = e
  <2>1. ~SameTable(e, i) /\ status[e] = "processing"
    BY <1>7 DEF Start, Recovered
  <2>2. e \notin lost /\ InstanceOf[e] \in started
    BY <1>7, <2>1 DEF Start, SameTable
  <2> QED BY <1>7, <1>old, <2>1, <2>2 DEF Start, handlerVars, Working
<1>8. ASSUME NEW i \in Instance, Stop(i)
      PROVE  \E k \in Handler : Working(k)' /\ ev'[k] = e
  <2>1. /\ InstanceOf[e] # i /\ InstanceOf[e] \in started
        /\ status[e] = "processing" /\ e \notin lost
    BY <1>8 DEF Stop, Reopened
  <2>2. PICK k \in Handler : Working(k) /\ ev[k] = e
    BY <1>old, <2>1
  <2>3. k \notin Ended(i)
    BY <2>1, <2>2 DEF Ended, HandlersOf
  <2> QED BY <1>8, <2>2, <2>3 DEF Stop, Working
<1>9. CASE Crash
  BY <1>9 DEF Crash
<1>10. CASE UNCHANGED vars
  BY <1>2, <1>10 DEF vars, table, handlerVars, history
<1> QED
  BY <1>3, <1>4, <1>5, <1>6, <1>7, <1>8, <1>9, <1>10 DEF Next, Handles, OwnStep

\* No row of a started adapter whose outcome could be stored stays in
\* "processing" without a handler, however often handlers fail or are
\* cancelled, adapters are stopped and the process dies: recover_on_startup
\* and the calls of retry() leave no gap between them.
THEOREM NeverAbandoned == Spec => []NotAbandoned
<1>1. Init => NotAbandoned /\ RepliedDone
  BY ReceiptsAssumption DEF Init, NotAbandoned, RepliedDone
<1> QED BY <1>1, AbandonedStep, RepliedStep, TypeCorrect, PTL DEF Spec

-----------------------------------------------------------------------------
(* One handler per event                                                   *)

\* The strengthening: a handler at work on an event that has a key owns the
\* row, which is in "processing" or already completed by its reply, so that
\* claim() gives it to nobody else; unless a start opened it.
Owned ==
  \A h \in Handler : Working(h) /\ ev[h] \in Keyed \ outlived =>
    /\ status[ev[h]] \in {"processing", "completed"}
    /\ \A k \in Handler : Working(k) /\ ev[k] = ev[h] => k = h

\* Every step preserves the ownership.
LEMMA OwnedStep ==
  TypeOK /\ Owned /\ [Next]_vars => Owned'
<1> SUFFICES ASSUME TypeOK, Owned, [Next]_vars PROVE Owned'
  OBVIOUS
<1> USE ReceiptsAssumption
<1>1. ASSUME NEW h \in Handler, NEW e \in Event, Claim(h, e), outlived' = outlived,
             e \in Keyed => Claimable(e)
      PROVE  Owned'
  <2>1. e \in Keyed \ outlived => \A k \in Handler : Working(k) => ev[k] # e
    BY <1>1 DEF Owned, Claimable
  <2>2. /\ Working(h)' /\ ev'[h] = e
        /\ \A k \in Handler \ {h} : (Working(k)' <=> Working(k)) /\ ev'[k] = ev[k]
        /\ e \in Keyed => status'[e] = "processing"
        /\ \A f \in Event \ {e} : status'[f] = status[f]
    BY <1>1 DEF Claim, Working, TypeOK
  <2> QED BY <1>1, <2>1, <2>2 DEF Owned
<1>2. ASSUME UNCHANGED <<status, pc, ev, outlived>> PROVE Owned'
  BY <1>2 DEF Owned, Working
<1>3. ASSUME NEW h \in Handler, NEW e \in Event, Receive(h, e) PROVE Owned'
  BY <1>1, <1>2, <1>3 DEF Receive, Taken, history
<1>4. ASSUME NEW h \in Handler, NEW e \in Event, Replay(h, e) PROVE Owned'
  BY <1>1, <1>2, <1>4 DEF Replay, history, handlerVars
<1>5. ASSUME NEW h \in Handler, OwnStep(h) PROVE Owned'
  <2>1. /\ ev[h] \in Event /\ outlived' = outlived
        /\ \A k \in Handler \ {h} : pc'[k] = pc[k] /\ ev'[k] = ev[k]
        /\ Working(h)' => Working(h) /\ ev'[h] = ev[h]
        /\ \A f \in Event \ {ev[h]} : status'[f] = status[f]
        /\ Working(h)' => status'[ev[h]] \in {status[ev[h]], "completed"}
    BY <1>5, OwnWrites
  <2>2. \A k \in Handler : Working(k)' => Working(k) /\ ev'[k] = ev[k]
    BY <2>1 DEF Working
  <2>3. CASE Working(h)
    <3>1. ASSUME NEW k \in Handler, Working(k)', ev[k] \in Keyed \ outlived
          PROVE  status'[ev[k]] \in {"processing", "completed"}
      <4>1. CASE k = h
        BY <2>1, <2>3, <3>1, <4>1 DEF Owned
      <4>2. CASE k # h
        BY <2>1, <2>2, <2>3, <3>1, <4>2 DEF Owned
      <4> QED BY <4>1, <4>2
    <3> QED BY <2>1, <2>2, <3>1 DEF Owned
  <2>4. CASE ~Working(h)
    <3>1. Noticed(h)
      BY <1>5, <2>4 DEF OwnStep, Converted, Unreadable, Reply, Send, Accepted,
         NotAccepted, Finish, Fail, Noticed, Apologised, Cancelled, OutcomeLost,
         ReplayLost, ReportLost, CompletionLost, Working
    <3>2. status' = status
      BY <3>1 DEF Noticed, table
    <3> QED BY <2>1, <2>2, <3>2 DEF Owned
  <2> QED BY <2>3, <2>4
<1>6. ASSUME NEW e \in Event, Forget(e) PROVE Owned'
  BY <1>2, <1>6 DEF Forget, table, handlerVars, history
<1>7. ASSUME NEW i \in Instance, Start(i) PROVE Owned'
  <2>1. UNCHANGED <<pc, ev>> /\ outlived \subseteq outlived'
    BY <1>7 DEF Start, handlerVars
  <2>2. ASSUME NEW h \in Handler, Working(h), ev[h] \in Keyed \ outlived'
        PROVE  status'[ev[h]] = status[ev[h]]
    <3>1. AtWork(ev[h]) # {}
      BY <2>2 DEF AtWork
    <3> QED BY <1>7, <2>2, <3>1 DEF Start
  <2> QED BY <2>1, <2>2 DEF Owned, Working
<1>8. ASSUME NEW i \in Instance, Stop(i) PROVE Owned'
  <2>1. /\ outlived' = outlived
        /\ \A k \in Handler : Working(k)' => k \notin Ended(i) /\ Working(k) /\ ev'[k] = ev[k]
    BY <1>8 DEF Stop, Working
  <2>2. ASSUME NEW h \in Handler, Working(h), h \notin Ended(i), ev[h] \in Keyed \ outlived
        PROVE  status'[ev[h]] = status[ev[h]]
    <3>1. \A k \in Ended(i) : k \in Handler /\ (Working(k) => ev[k] # ev[h])
      BY <2>2 DEF Owned, Ended, HandlersOf
    <3>2. ev[h] \notin {ev[k] : k \in {x \in Ended(i) : pc[x] \in {"dispatch", "send", "replied"}}}
      BY <3>1 DEF Working
    <3> QED BY <1>8, <2>2, <3>2 DEF Stop, Reopened
  <2> QED BY <2>1, <2>2 DEF Owned
<1>9. CASE Crash
  BY <1>9 DEF Owned, Crash, Working
<1>10. CASE UNCHANGED vars
  BY <1>2, <1>10 DEF vars, table, handlerVars, history
<1> QED
  BY <1>3, <1>4, <1>5, <1>6, <1>7, <1>8, <1>9, <1>10 DEF Next, Handles, OwnStep

\* Owned rows are worked on by one handler.
LEMMA OwnedAlone == TypeOK /\ Owned => OneHandler
<1> SUFFICES ASSUME TypeOK, Owned, NEW e \in Keyed \ outlived
             PROVE  Cardinality(AtWork(e)) <= 1
  BY DEF OneHandler
<1>1. CASE AtWork(e) = {}
  BY <1>1, FS_EmptySet
<1>2. CASE AtWork(e) # {}
  <2>1. PICK h \in Handler : Working(h) /\ ev[h] = e
    BY <1>2 DEF AtWork
  <2>2. AtWork(e) = {h}
    BY <2>1 DEF AtWork, Owned
  <2>3. Cardinality(AtWork(e)) = 1
    BY <2>2, FS_Singleton
  <2> QED BY <2>3
<1> QED BY <1>1, <1>2

\* Two handlers never process one event at a time, unless a start opened the
\* row under its handler, whatever the upstream repeats or Telegram's task
\* replays and however often the process dies: claim() and the recovery
\* together give a row to one handler.
THEOREM OneHandlerPerEvent == Spec => []OneHandler
<1>1. Init => Owned
  BY DEF Init, Owned, Working
<1> QED BY <1>1, OwnedStep, OwnedAlone, TypeCorrect, PTL DEF Spec

-----------------------------------------------------------------------------
(* One reply per event                                                     *)

\* Only WeCom waits for a conversion or a send, and only Telegram replays.
Channels ==
  /\ \A h \in Handler : pc[h] \in {"convert", "send"} => ev[h] \in Event /\ Wecom(ev[h])
  /\ \A e \in due : Telegram(e)

\* The channels that reply at once: a reply is followed by "completed", and
\* until then the handler that has sent it holds the row.
Regular(e) == ~Wecom(e) /\ crashes + losses = 0 /\ e \notin failed \cup outlived
RepliedOnce(e) ==
  /\ replies[e] <= 1
  /\ replies[e] # 0 => \/ status[e] = "completed"
                       \/ \E h \in Handler : pc[h] = "replied" /\ ev[h] = e
  /\ \A h \in Handler : pc[h] = "dispatch" /\ ev[h] = e => replies[e] = 0

\* WeCom: the row of the outbox tells that the reply may have arrived, but
\* not between a crash and the start that opens the row.
SentOnce(e) ==
  /\ replies[e] <= 1
  /\ row[e] = "none" => replies[e] = 0
  /\ \A h \in Handler : pc[h] = "send" /\ ev[h] = e =>
       /\ replies[e] = 0 /\ row[e] # "none"
       /\ \A k \in Handler : pc[k] = "send" /\ ev[k] = e => k = h
  /\ Unsent(e) /\ replies[e] # 0 =>
       InstanceOf[e] \notin started /\ \A h \in Handler : ev[h] # e

Answered ==
  /\ \A e \in Keyed : Regular(e) => RepliedOnce(e)
  /\ \A e \in Keyed : Wecom(e) /\ losses = 0 => SentOnce(e)


\* The steps of a handler concern the replies to its own event only.
LEMMA OwnHistory ==
  ASSUME TypeOK, NEW h \in Handler, OwnStep(h)
  PROVE  /\ ev'[h] \in {ev[h], Nil}
         /\ \A f \in Event \ {ev[h]} : replies'[f] = replies[f] /\ row'[f] = row[f]
         /\ failed \subseteq failed' /\ crashes' = crashes /\ due' = due
         /\ losses' = losses \/ losses' = losses + 1
         /\ losses' = losses => ~(OutcomeLost(h) \/ ReplayLost(h) \/ ReportLost(h)
                                  \/ CompletionLost(h))
<1>1. ev[h] \in Event
  BY OwnWrites
<1>2. Received({ev[h]}) \/ MayReceive({ev[h]}) =>
        \A f \in Event \ {ev[h]} : replies'[f] = replies[f]
  BY DEF Received, MayReceive, TypeOK
<1>3. Leave(h) => ev'[h] = Nil
  BY DEF Leave, TypeOK
<1>4. (\E w : Goes(h, w)) => ev'[h] = ev[h]
  BY DEF Goes
<1>5. losses \in Nat
  BY ReceiptsAssumption DEF TypeOK
<1>6. CASE Converted(h) \/ Unreadable(h) \/ Reply(h)
  BY <1>1, <1>2, <1>3, <1>4, <1>5, <1>6
  DEF Converted, Unreadable, Reply, table, history, bounds, TypeOK,
      OutcomeLost, ReplayLost, ReportLost, CompletionLost, Raises
<1>7. CASE Send(h) \/ Accepted(h) \/ NotAccepted(h)
  BY <1>1, <1>2, <1>3, <1>4, <1>5, <1>7
  DEF Send, Accepted, NotAccepted, history, bounds, TypeOK,
      OutcomeLost, ReplayLost, ReportLost, CompletionLost, Raises
<1>8. CASE Finish(h) \/ Fail(h) \/ Noticed(h) \/ Apologised(h) \/ Cancelled(h)
  BY <1>1, <1>2, <1>3, <1>4, <1>5, <1>8
  DEF Finish, Fail, Noticed, Apologised, Cancelled, table, history, bounds, TypeOK,
      OutcomeLost, ReplayLost, ReportLost, CompletionLost, Raises
<1>9. CASE OutcomeLost(h) \/ ReplayLost(h) \/ ReportLost(h) \/ CompletionLost(h)
  BY <1>1, <1>2, <1>3, <1>4, <1>5, <1>9
  DEF OutcomeLost, ReplayLost, ReportLost, CompletionLost, Raises, table, TypeOK
<1> QED BY <1>6, <1>7, <1>8, <1>9 DEF OwnStep

\* Where the replies to the event of a handler that goes on come from.
LEMMA ChannelsStep ==
  TypeOK /\ Channels /\ [Next]_vars => Channels'
<1> SUFFICES ASSUME TypeOK, Channels, [Next]_vars PROVE Channels'
  OBVIOUS
<1> USE ReceiptsAssumption
<1>1. ASSUME kind' = kind, due' \subseteq due,
             \A k \in Handler : pc'[k] \in {"convert", "send"} =>
                                  pc[k] = pc'[k] /\ ev'[k] = ev[k]
      PROVE  Channels'
  BY <1>1 DEF Channels, Wecom, Telegram
<1>2. ASSUME NEW h \in Handler, NEW e \in Event, Claim(h, e), kind' = kind, due' \subseteq due
      PROVE  Channels'
  BY <1>2 DEF Channels, Claim, Wecom, Telegram, TypeOK
<1>3. ASSUME NEW h \in Handler, NEW e \in Event, Receive(h, e) PROVE Channels'
  BY <1>1, <1>2, <1>3 DEF Receive
<1>4. ASSUME NEW h \in Handler, NEW e \in Event, Replay(h, e) PROVE Channels'
  BY <1>1, <1>2, <1>4 DEF Replay, handlerVars
<1>5. ASSUME NEW h \in Handler, OwnStep(h) PROVE Channels'
  <2>1. /\ ev[h] \in Event /\ kind' = kind /\ due' = due
        /\ \A k \in Handler \ {h} : pc'[k] = pc[k] /\ ev'[k] = ev[k]
    BY <1>5, OwnWrites, OwnHistory
  <2>2. CASE pc'[h] \notin {"convert", "send"}
    BY <1>1, <2>1, <2>2
  <2>3. CASE pc'[h] \in {"convert", "send"}
    <3>1. Send(h)
      BY <1>5, <2>3 DEF OwnStep, Converted, Unreadable, Reply, Accepted, NotAccepted,
         Finish, Fail, Noticed, Apologised, Cancelled, OutcomeLost, ReplayLost,
         ReportLost, CompletionLost, Leave, Goes, TypeOK
    <3>2. Wecom(ev[h]) /\ ev'[h] = ev[h]
      BY <3>1 DEF Send, Goes
    <3> QED BY <2>1, <3>2 DEF Channels, Wecom, Telegram
  <2> QED BY <2>2, <2>3
<1>6. ASSUME NEW e \in Event, Forget(e) PROVE Channels'
  BY <1>1, <1>6 DEF Forget, handlerVars
<1>7. ASSUME NEW i \in Instance, Start(i) PROVE Channels'
  BY <1>7 DEF Start, Replayable, handlerVars, Channels, Wecom, Telegram
<1>8. ASSUME NEW i \in Instance, Stop(i) PROVE Channels'
  <2>1. \A k \in Handler : pc'[k] \in {"convert", "send"} => pc[k] = pc'[k] /\ ev'[k] = ev[k]
    BY <1>8 DEF Stop
  <2>2. kind' = kind /\ due' \subseteq due
    BY <1>8 DEF Stop
  <2> QED BY <1>1, <2>1, <2>2
<1>9. CASE Crash
  BY <1>1, <1>9 DEF Crash
<1>10. CASE UNCHANGED vars
  BY <1>1, <1>10 DEF vars, handlerVars
<1> QED
  BY <1>3, <1>4, <1>5, <1>6, <1>7, <1>8, <1>9, <1>10 DEF Next, Handles, OwnStep

\* The events of the channels that reply at once keep their count.
LEMMA RegularStep ==
  ASSUME TypeOK, Owned, Channels, Answered, Next, NEW e \in Keyed, Regular(e)'
  PROVE  RepliedOnce(e)'
<1> USE ReceiptsAssumption
<1>0. e \in Event /\ crashes \in Nat /\ losses \in Nat
  BY DEF TypeOK
<1>1. ASSUME RepliedOnce(e), replies'[e] = replies[e],
             status[e] = "completed" => status'[e] = "completed",
             \A h \in Handler : pc[h] = "replied" /\ ev[h] = e =>
                                  pc'[h] = "replied" /\ ev'[h] = e,
             \A h \in Handler : pc'[h] = "dispatch" /\ ev'[h] = e =>
                                  pc[h] = "dispatch" /\ ev[h] = e
      PROVE  RepliedOnce(e)'
  BY <1>1 DEF RepliedOnce
<1>2. ASSUME kind' = kind, crashes' = crashes, losses' = losses \/ losses' = losses + 1,
             failed \subseteq failed', outlived \subseteq outlived'
      PROVE  Regular(e) /\ RepliedOnce(e) /\ losses' = losses
  <2>1. Regular(e) /\ losses' = losses
    BY <1>0, <1>2 DEF Regular, Wecom
  <2> QED BY <2>1 DEF Answered
\* The row of a replied event is taken.
<1>3. ASSUME Regular(e), RepliedOnce(e), Claimable(e)
      PROVE  replies[e] = 0
  <2>1. ASSUME NEW h \in Handler, pc[h] = "replied", ev[h] = e
        PROVE  status[e] \in {"processing", "completed"}
    BY <1>3, <2>1 DEF Owned, Regular, Working
  <2> QED BY <1>3, <2>1 DEF RepliedOnce, Claimable
<1>4. ASSUME NEW h \in Handler, NEW f \in Event, Claim(h, f), pc[h] = "idle",
             f \in Keyed => Claimable(f), Regular(e), RepliedOnce(e), replies' = replies
      PROVE  RepliedOnce(e)'
  <2>1. CASE f = e
    <3>1. replies[e] = 0
      BY <1>3, <1>4, <2>1
    <3> QED BY <1>0, <1>4, <3>1 DEF RepliedOnce
  <2>2. CASE f # e
    BY <1>0, <1>1, <1>4, <2>2 DEF Claim, TypeOK
  <2> QED BY <2>1, <2>2
<1>5. ASSUME NEW h \in Handler, NEW f \in Event, Receive(h, f) PROVE RepliedOnce(e)'
  <2>1. Regular(e) /\ RepliedOnce(e)
    BY <1>2, <1>5 DEF Receive, history, bounds
  <2>2. CASE Taken(f)
    BY <1>4, <1>5, <2>1, <2>2 DEF Receive, Taken, history
  <2>3. CASE ~Taken(f)
    BY <1>1, <1>5, <2>1, <2>3 DEF Receive, history
  <2> QED BY <2>2, <2>3
<1>6. ASSUME NEW h \in Handler, NEW f \in Event, Replay(h, f) PROVE RepliedOnce(e)'
  <2>1. Regular(e) /\ RepliedOnce(e)
    BY <1>2, <1>6 DEF Replay, history, bounds
  <2>2. CASE Claimable(f)
    BY <1>4, <1>6, <2>1, <2>2 DEF Replay, history
  <2>3. CASE ~Claimable(f)
    BY <1>1, <1>6, <2>1, <2>3 DEF Replay, history, handlerVars
  <2> QED BY <2>2, <2>3
<1>7. ASSUME NEW h \in Handler, OwnStep(h) PROVE RepliedOnce(e)'
  <2>1. /\ ev[h] \in Event /\ kind' = kind /\ outlived' = outlived
        /\ \A k \in Handler \ {h} : pc'[k] = pc[k] /\ ev'[k] = ev[k]
        /\ \A f \in Event \ {ev[h]} : status'[f] = status[f]
        /\ status[ev[h]] = "completed" => status'[ev[h]] = "completed"
    BY <1>7, OwnWrites
  <2>2. /\ ev'[h] \in {ev[h], Nil}
        /\ \A f \in Event \ {ev[h]} : replies'[f] = replies[f]
        /\ failed \subseteq failed' /\ crashes' = crashes
        /\ losses' = losses \/ losses' = losses + 1
    BY <1>7, OwnHistory
  <2>3. Regular(e) /\ RepliedOnce(e) /\ losses' = losses
    BY <1>2, <2>1, <2>2
  <2>4. CASE ev[h] # e
    <3>1. ev'[h] # e
      BY <1>0, <2>2, <2>4
    <3>2. /\ replies'[e] = replies[e]
          /\ status[e] = "completed" => status'[e] = "completed"
      BY <1>0, <2>1, <2>2, <2>4
    <3>3. \A k \in Handler : (ev[k] = e \/ ev'[k] = e) => pc'[k] = pc[k] /\ ev'[k] = ev[k]
      BY <2>1, <2>4, <3>1
    <3> QED BY <1>1, <2>3, <3>2, <3>3
  <2>5. CASE ev[h] = e
    <3>1. ~Wecom(e) /\ e \notin failed' /\ e \notin outlived
      BY <2>3, <2>1 DEF Regular
    <3>2. pc[h] \notin {"convert", "send"}
      BY <2>5, <3>1 DEF Channels
    <3>3. ~(OutcomeLost(h) \/ ReplayLost(h) \/ ReportLost(h) \/ CompletionLost(h))
      BY <1>7, <2>3, OwnHistory
    <3>4. ~Unreadable(h) /\ ~Fail(h) /\ ~Cancelled(h) /\ ~NotAccepted(h)
      BY <2>5, <3>1 DEF Unreadable, Fail, Cancelled, NotAccepted
    <3>5. ~Converted(h) /\ ~Send(h) /\ ~Accepted(h)
      BY <2>5, <3>1, <3>2 DEF Converted, Send, Accepted
    <3>6. CASE Reply(h)
      <4>1. pc[h] = "dispatch" /\ pc'[h] = "replied" /\ ev'[h] = e
        BY <2>5, <3>6 DEF Reply, Goes, TypeOK
      <4>2. replies[e] = 0 /\ replies'[e] = 1
        BY <1>0, <2>3, <2>5, <3>6, <4>1 DEF Reply, Received, RepliedOnce
      <4>3. \A k \in Handler : Working(k) /\ ev[k] = e => k = h
        BY <2>3, <2>5, <4>1 DEF Owned, Regular, Working
      <4>4. \A k \in Handler : ~(pc'[k] = "dispatch" /\ ev'[k] = e)
        BY <2>1, <4>1, <4>3 DEF Working
      <4> QED BY <4>1, <4>2, <4>4 DEF RepliedOnce
    <3>7. CASE Finish(h) \/ Apologised(h)
      <4>1. status'[e] = "completed" /\ replies' = replies
        BY <1>0, <2>5, <3>7, CompleteOnly DEF Finish, Apologised, history
      <4>2. ev'[h] # e
        BY <1>0, <3>7 DEF Finish, Apologised, Leave, TypeOK
      <4> QED BY <2>1, <2>3, <4>1, <4>2 DEF RepliedOnce
    <3>8. CASE Noticed(h)
      <4>1. ev'[h] # e /\ pc[h] = "notice" /\ status' = status /\ replies' = replies
        BY <1>0, <3>8 DEF Noticed, Leave, TypeOK, table, history
      <4> QED BY <1>1, <2>1, <2>3, <4>1
    <3> QED BY <1>7, <3>3, <3>4, <3>5, <3>6, <3>7, <3>8 DEF OwnStep
  <2> QED BY <2>4, <2>5
<1>8. ASSUME NEW f \in Event, Forget(f) PROVE RepliedOnce(e)'
  <2>1. Regular(e) /\ RepliedOnce(e)
    BY <1>2, <1>8 DEF Forget, history, bounds
  <2> QED BY <1>1, <1>8, <2>1 DEF Forget, table, handlerVars, history
<1>9. ASSUME NEW i \in Instance, Start(i) PROVE RepliedOnce(e)'
  <2>1. Regular(e) /\ RepliedOnce(e)
    BY <1>2, <1>9 DEF Start, bounds
  <2>2. status[e] = "completed" => status'[e] = "completed"
    BY <1>0, <1>9 DEF Start, Recovered
  <2> QED BY <1>1, <1>9, <2>1, <2>2 DEF Start, handlerVars
<1>10. ASSUME NEW i \in Instance, Stop(i) PROVE RepliedOnce(e)'
  <2>1. Regular(e) /\ RepliedOnce(e)
    BY <1>2, <1>10 DEF Stop
  <2>2. \A h \in Ended(i) : h \in Handler /\ ev[h] # e
    BY <1>10 DEF Stop, Ended, HandlersOf, Regular
  <2>3. status[e] = "completed" => status'[e] = "completed"
    BY <1>0, <1>10 DEF Stop, Reopened
  <2>4. e \notin Sending(Ended(i))
    BY <2>2 DEF Sending
  <2>5. replies'[e] = replies[e]
    BY <1>0, <1>10, <2>4 DEF Stop, MayReceive, Received
  <2>6. /\ \A h \in Handler : ev[h] = e => pc'[h] = pc[h] /\ ev'[h] = e
        /\ \A h \in Handler : ev'[h] = e => pc'[h] = pc[h] /\ ev[h] = e
    BY <1>0, <1>10, <2>2 DEF Stop
  <2> QED BY <1>1, <2>1, <2>3, <2>5, <2>6
<1>11. CASE Crash
  BY <1>0, <1>11 DEF Crash, Regular
<1> QED
  BY <1>5, <1>6, <1>7, <1>8, <1>9, <1>10, <1>11 DEF Next, Handles, OwnStep

\* WeCom's events keep their count, through crashes too.
LEMMA WecomStep ==
  ASSUME TypeOK, Channels, Answered, Next, NEW e \in Keyed, Wecom(e)', losses' = 0
  PROVE  SentOnce(e)'
<1> USE ReceiptsAssumption
<1>0. e \in Event /\ losses \in Nat /\ e # Nil /\ InstanceOf[e] \in Instance
      /\ replies[e] \in Nat
  BY DEF TypeOK
<1>1. ASSUME SentOnce(e), replies'[e] = replies[e], row'[e] = row[e],
             \A h \in Handler : pc'[h] = "send" /\ ev'[h] = e => pc[h] = "send" /\ ev[h] = e,
             \/ ~(Unsent(e) /\ replies[e] # 0)
             \/ /\ InstanceOf[e] \in started' => InstanceOf[e] \in started
                /\ \A h \in Handler : ev'[h] = e => ev[h] = e
      PROVE  SentOnce(e)'
  BY <1>1 DEF SentOnce, Unsent
<1>2. ASSUME kind' = kind, losses' = losses \/ losses' = losses + 1
      PROVE  Wecom(e) /\ SentOnce(e) /\ losses' = losses
  <2>1. Wecom(e) /\ losses = 0 /\ losses' = losses
    BY <1>0, <1>2 DEF Wecom
  <2> QED BY <2>1 DEF Answered
<1>3. ASSUME NEW h \in Handler, NEW f \in Event, Claim(h, f), pc[h] = "idle",
             SentOnce(e), UNCHANGED <<replies, row, started>>,
             f = e => InstanceOf[e] \in started
      PROVE  SentOnce(e)'
  <2>1. \A k \in Handler : pc'[k] = "send" /\ ev'[k] = e => pc[k] = "send" /\ ev[k] = e
    BY <1>3 DEF Claim, TypeOK
  <2>2. CASE f = e
    <3>1. ~(Unsent(e) /\ replies[e] # 0)
      BY <1>3, <2>2 DEF SentOnce
    <3> QED BY <1>1, <1>3, <2>1, <3>1
  <2>3. CASE f # e
    <3>1. \A k \in Handler : ev'[k] = e => ev[k] = e
      BY <1>3, <2>3 DEF Claim, TypeOK
    <3> QED BY <1>1, <1>3, <2>1, <3>1
  <2> QED BY <2>2, <2>3
<1>4. ASSUME NEW h \in Handler, NEW f \in Event, Receive(h, f) PROVE SentOnce(e)'
  <2>1. SentOnce(e) /\ UNCHANGED <<replies, row, started>>
    BY <1>2, <1>4 DEF Receive, history, bounds
  <2>2. CASE Taken(f)
    BY <1>3, <1>4, <2>1, <2>2 DEF Receive
  <2>3. CASE ~Taken(f)
    BY <1>1, <1>4, <2>1, <2>3 DEF Receive
  <2> QED BY <2>2, <2>3
<1>5. ASSUME NEW h \in Handler, NEW f \in Event, Replay(h, f) PROVE SentOnce(e)'
  <2>1. Wecom(e) /\ SentOnce(e) /\ UNCHANGED <<replies, row, started>>
    BY <1>2, <1>5 DEF Replay, history, bounds
  <2>2. f # e
    BY <1>5, <2>1 DEF Replay, Channels, Wecom, Telegram
  <2>3. CASE Claimable(f)
    BY <1>3, <1>5, <2>1, <2>2, <2>3 DEF Replay
  <2>4. CASE ~Claimable(f)
    BY <1>1, <1>5, <2>1, <2>4 DEF Replay, handlerVars
  <2> QED BY <2>3, <2>4
<1>6. ASSUME NEW h \in Handler, OwnStep(h) PROVE SentOnce(e)'
  <2>1. /\ ev[h] \in Event /\ kind' = kind /\ started' = started
        /\ \A k \in Handler \ {h} : pc'[k] = pc[k] /\ ev'[k] = ev[k]
    BY <1>6, OwnWrites
  <2>2. /\ ev'[h] \in {ev[h], Nil}
        /\ \A f \in Event \ {ev[h]} : replies'[f] = replies[f] /\ row'[f] = row[f]
        /\ losses' = losses \/ losses' = losses + 1
    BY <1>6, OwnHistory
  <2>3. Wecom(e) /\ SentOnce(e) /\ losses' = losses
    BY <1>2, <2>1, <2>2
  <2>4. CASE ev[h] # e
    <3>1. ev'[h] # e
      BY <1>0, <2>2, <2>4
    <3>2. replies'[e] = replies[e] /\ row'[e] = row[e]
      BY <1>0, <2>2, <2>4
    <3>3. \A k \in Handler : ev'[k] = e => pc'[k] = pc[k] /\ ev[k] = e
      BY <2>1, <3>1
    <3> QED BY <1>1, <2>1, <2>3, <3>2, <3>3
  <2>5. CASE ev[h] = e
    <3>1. ~(OutcomeLost(h) \/ ReplayLost(h) \/ ReportLost(h) \/ CompletionLost(h))
      BY <1>6, <2>3, OwnHistory
    <3>2. ~Reply(h) /\ ~Cancelled(h)
      BY <2>3, <2>5 DEF Reply, Cancelled
    <3>3. ~(Unsent(e) /\ replies[e] # 0)
      BY <2>3, <2>5 DEF SentOnce
    <3>4. ASSUME replies' = replies, row'[e] = row[e], pc'[h] # "send"
          PROVE  SentOnce(e)'
      <4>1. \A k \in Handler : pc'[k] = "send" /\ ev'[k] = e => pc[k] = "send" /\ ev[k] = e
        BY <2>1, <3>4
      <4> QED BY <1>1, <2>3, <3>3, <3>4, <4>1
    <3>5. CASE Converted(h) \/ Unreadable(h) \/ Finish(h) \/ Fail(h) \/ Noticed(h) \/ Apologised(h)
      <4>1. replies' = replies /\ row' = row
        BY <3>5 DEF Converted, Unreadable, Finish, Fail, Noticed, Apologised, table, history
      <4>2. pc'[h] # "send"
        BY <3>5 DEF Converted, Unreadable, Finish, Fail, Noticed, Apologised, Goes, Leave, TypeOK
      <4> QED BY <3>4, <4>1, <4>2
    <3>6. CASE Send(h)
      <4>1. replies' = replies /\ \A k \in Handler : ~(pc[k] = "send" /\ ev[k] = e)
        BY <2>5, <3>6 DEF Send, history
      <4>2. CASE pc'[h] # "send"
        <5>1. row' = row
          BY <3>6, <4>2 DEF Send, Goes, TypeOK
        <5> QED BY <3>4, <4>1, <4>2, <5>1
      <4>3. CASE pc'[h] = "send"
        <5>1. Unsent(e) /\ row'[e] = "sending"
          BY <1>0, <2>5, <3>6, <4>3 DEF Send, Goes, TypeOK
        <5>2. replies'[e] = 0
          BY <3>3, <4>1, <5>1
        <5>3. \A k \in Handler : pc'[k] = "send" /\ ev'[k] = e => k = h
          BY <2>1, <4>1
        <5> QED BY <5>1, <5>2, <5>3 DEF SentOnce
      <4> QED BY <4>2, <4>3
    <3>7. CASE Accepted(h) \/ NotAccepted(h)
      <4>1. pc[h] = "send" /\ pc'[h] # "send"
        BY <3>7 DEF Accepted, NotAccepted, Goes, TypeOK
      <4>2. replies[e] = 0 /\ \A k \in Handler : pc[k] = "send" /\ ev[k] = e => k = h
        BY <2>3, <2>5, <4>1 DEF SentOnce
      <4>3. replies'[e] <= 1
        BY <1>0, <2>5, <3>7, <4>2 DEF Accepted, NotAccepted, Received, MayReceive
      <4>4. row'[e] \in {"accepted", "ambiguous", "dead_letter"}
        BY <1>0, <2>5, <3>7 DEF Accepted, NotAccepted, TypeOK
      <4>5. \A k \in Handler : ~(pc'[k] = "send" /\ ev'[k] = e)
        BY <2>1, <4>1, <4>2
      <4> QED BY <4>3, <4>4, <4>5 DEF SentOnce, Unsent
    <3> QED BY <1>6, <3>1, <3>2, <3>5, <3>6, <3>7 DEF OwnStep
  <2> QED BY <2>4, <2>5
<1>7. ASSUME NEW f \in Event, Forget(f) PROVE SentOnce(e)'
  <2>1. SentOnce(e)
    BY <1>2, <1>7 DEF Forget, bounds
  <2> QED BY <1>1, <1>7, <2>1 DEF Forget, table, handlerVars, history
<1>8. ASSUME NEW i \in Instance, Start(i) PROVE SentOnce(e)'
  <2>1. SentOnce(e) /\ replies' = replies /\ UNCHANGED <<pc, ev>>
    BY <1>2, <1>8 DEF Start, bounds, handlerVars
  <2>2. row'[e] = IF SameTable(e, i) /\ row[e] = "sending" THEN "ambiguous" ELSE row[e]
    BY <1>0, <1>8 DEF Start
  <2>3. InstanceOf[e] \in started' => InstanceOf[e] \in started \/ SameTable(e, i)
    BY <1>8 DEF Start, SameTable
  <2>4. replies[e] <= 1 /\ (row[e] = "none" => replies[e] = 0)
    BY <2>1 DEF SentOnce
  <2>5. \A h \in Handler : pc[h] = "send" /\ ev[h] = e =>
          /\ replies[e] = 0 /\ row[e] # "none"
          /\ \A k \in Handler : pc[k] = "send" /\ ev[k] = e => k = h
    BY <2>1 DEF SentOnce
  <2>6. ASSUME row'[e] \in {"none", "sending"}, replies[e] # 0
        PROVE  InstanceOf[e] \notin started' /\ \A h \in Handler : ev[h] # e
    <3>1. row[e] = "sending" /\ ~SameTable(e, i)
      BY <2>2, <2>4, <2>6
    <3> QED BY <2>1, <2>3, <2>6, <3>1 DEF SentOnce, Unsent
  <2>7. row'[e] = "none" <=> row[e] = "none"
    BY <2>2
  <2> QED BY <2>1, <2>4, <2>5, <2>6, <2>7 DEF SentOnce, Unsent
<1>9. ASSUME NEW i \in Instance, Stop(i) PROVE SentOnce(e)'
  <2>1. SentOnce(e)
    BY <1>2, <1>9 DEF Stop
  <2>2. \A h \in Handler :
          /\ h \in Ended(i) => pc'[h] = "idle" /\ ev'[h] = Nil
          /\ h \notin Ended(i) => pc'[h] = pc[h] /\ ev'[h] = ev[h]
    BY <1>9 DEF Stop
  <2>3. CASE e \in Sending(Ended(i))
    <3>1. PICK h \in Ended(i) : pc[h] = "send" /\ ev[h] = e
      BY <2>3 DEF Sending
    <3>2. h \in Handler
      BY <3>1 DEF Ended, HandlersOf
    <3>3. replies[e] = 0 /\ \A k \in Handler : pc[k] = "send" /\ ev[k] = e => k = h
      BY <2>1, <3>1, <3>2 DEF SentOnce
    <3>4. replies'[e] <= 1
      BY <1>0, <1>9, <3>3 DEF Stop, MayReceive, Received
    <3>5. row'[e] = "ambiguous"
      BY <1>0, <1>9, <2>3 DEF Stop
    <3>6. \A k \in Handler : ~(pc'[k] = "send" /\ ev'[k] = e)
      BY <1>0, <2>2, <3>1, <3>2, <3>3
    <3> QED BY <3>4, <3>5, <3>6 DEF SentOnce, Unsent
  <2>4. CASE e \notin Sending(Ended(i))
    <3>1. replies'[e] = replies[e]
      BY <1>0, <1>9, <2>4 DEF Stop, MayReceive, Received
    <3>2. row'[e] = row[e]
      BY <1>0, <1>9, <2>4 DEF Stop
    <3>3. started' \subseteq started
      BY <1>9 DEF Stop
    <3>4. \A h \in Handler : ev'[h] = e => pc'[h] = pc[h] /\ ev[h] = e
      BY <1>0, <2>2
    <3> QED BY <1>1, <2>1, <3>1, <3>2, <3>3, <3>4
  <2> QED BY <2>3, <2>4
<1>10. CASE Crash
  <2>1. SentOnce(e)
    BY <1>2, <1>10 DEF Crash
  <2>2. started' = {} /\ row' = row /\ \A h \in Handler : pc'[h] = "idle" /\ ev'[h] = Nil
    BY <1>10 DEF Crash, table
  <2>3. CASE e \in Sending(Handler)
    <3>1. PICK h \in Handler : pc[h] = "send" /\ ev[h] = e
      BY <2>3 DEF Sending
    <3>2. replies[e] = 0 /\ row[e] # "none"
      BY <2>1, <3>1 DEF SentOnce
    <3>3. replies'[e] <= 1
      BY <1>0, <1>10, <3>2 DEF Crash, MayReceive, Received
    <3> QED BY <1>0, <2>2, <3>2, <3>3 DEF SentOnce
  <2>4. CASE e \notin Sending(Handler)
    <3>1. replies'[e] = replies[e]
      BY <1>0, <1>10, <2>4 DEF Crash, MayReceive, Received
    <3> QED BY <1>0, <1>1, <2>1, <2>2, <3>1
  <2> QED BY <2>3, <2>4
<1> QED
  BY <1>4, <1>5, <1>6, <1>7, <1>8, <1>9, <1>10 DEF Next, Handles, OwnStep

\* Every step preserves both, while the rows have one owner.
LEMMA AnsweredStep ==
  TypeOK /\ Owned /\ Channels /\ Answered /\ [Next]_vars => Answered'
<1> SUFFICES ASSUME TypeOK, Owned, Channels, Answered, [Next]_vars PROVE Answered'
  OBVIOUS
<1>1. CASE Next
  <2>1. ASSUME NEW e \in Keyed, Regular(e)' PROVE RepliedOnce(e)'
    BY <1>1, <2>1, RegularStep
  <2>2. ASSUME NEW e \in Keyed, Wecom(e)', losses' = 0 PROVE SentOnce(e)'
    BY <1>1, <2>2, WecomStep
  <2> QED BY <2>1, <2>2 DEF Answered
<1>2. CASE UNCHANGED vars
  BY <1>2 DEF vars, table, handlerVars, history, bounds, Answered, Regular, RepliedOnce,
     SentOnce, Wecom, Unsent
<1> QED BY <1>1, <1>2

\* Counted replies are single replies.
LEMMA AnsweredSuffices == TypeOK /\ Answered => AnsweredOnce
<1> SUFFICES ASSUME TypeOK, Answered, NEW e \in Keyed,
                    ~(Wecom(e) /\ losses > 0),
                    ~(~Wecom(e) /\ (crashes + losses > 0 \/ e \in failed \cup outlived))
             PROVE  replies[e] <= 1
  BY DEF AnsweredOnce
<1>1. crashes \in Nat /\ losses \in Nat
  BY ReceiptsAssumption DEF TypeOK
<1>2. CASE Wecom(e)
  BY <1>1, <1>2 DEF Answered, SentOnce
<1>3. CASE ~Wecom(e)
  BY <1>1, <1>3 DEF Answered, Regular, RepliedOnce
<1> QED BY <1>2, <1>3

\* An event whose processing did not fail is answered once, however often the
\* upstream delivers it: claim() lets no second handler reply, and WeCom's
\* outbox knows the reply again even when the process died before the event
\* was completed or its handler failed, as long as its outcomes are stored.
THEOREM OneReplyPerEvent == Spec => []AnsweredOnce
<1>1. Init => Owned /\ Channels /\ Answered
  BY ReceiptsAssumption DEF Init, Owned, Working, Channels, Answered, RepliedOnce, SentOnce
<1> QED
  BY <1>1, TypeCorrect, OwnedStep, ChannelsStep, AnsweredStep, AnsweredSuffices, PTL DEF Spec

=============================================================================
