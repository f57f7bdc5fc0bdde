--------------------------- MODULE InboundReceipts --------------------------
(***************************************************************************)
(* The receipts of inbound events and the handlers that use them: events   *)
(* that the upstream may deliver again are claimed in a table before they  *)
(* are processed.  OneBot and QQBot share im/inbound_receipts.py;          *)
(* Telegram keeps the update in its row and replays it after a start;      *)
(* WeCom sends the reply under an identity made of the event's, through    *)
(* its outbox.                                                             *)
(*                                                                         *)
(* A handler is a coroutine; it is interrupted only while it waits for     *)
(* the conversion or the dispatch of the message, for the reply or for the *)
(* failure notice to be sent.  The methods of the receipt services do not  *)
(* wait, so each belongs to the step that calls it.  WeCom accounts are    *)
(* ones that may send (no passive replies).                                *)
(***************************************************************************)
EXTENDS Naturals, FiniteSets

CONSTANTS
  Event,          \* messages that are not the bot's own
  Keyed,          \* the ones that have an identity
  Instance,       \* configured adapters: (channel, adapter_instance)
  InstanceOf,     \* the adapter an event arrives at
  Kinds,          \* the channels the adapters may belong to
  Handler,        \* running calls of _handle_message
  Nil,
  MaxDeliveries,  \* bound: deliveries of an event by the upstream
  MaxCrashes,     \* bound: deaths of the process
  MaxLost,        \* bound: commits of an outcome that fail
  MaxStops        \* bound: stops of an adapter while the process lives

ASSUME ReceiptsAssumption ==
  /\ Keyed \subseteq Event
  /\ InstanceOf \in [Event -> Instance]
  /\ Kinds \subseteq [Instance -> {"onebot", "telegram", "wecom"}]
  /\ Nil \notin Event
  /\ MaxDeliveries \in [Event -> Nat]
  /\ MaxCrashes \in Nat
  /\ MaxLost \in Nat
  /\ MaxStops \in Nat

VARIABLES
  kind,        \* the channel of each adapter; QQBot is like OneBot
  status,      \* status of the receipt, "absent" when there is no row
  row,         \* status of the reply in the outbox of WeCom
  pc,          \* what a handler waits for
  ev,          \* the event it processes
  replaying,   \* handlers that are the recovery task of Telegram
  started,     \* adapters that are started
  known,       \* events in reply_tasks of WeCom
  due,         \* updates the recovery task has still to replay
  delivered,   \* deliveries of each event so far
  replies,     \* history: replies the user received for each event
  failed,      \* history: events whose processing failed or was cancelled
  lost,        \* history: events whose outcome was not stored
  outlived,    \* history: events whose row was opened under their handler
  crashes, losses, stops

table == <<status, row>>
handlerVars == <<pc, ev, replaying>>
history == <<replies, failed, lost, outlived>>
bounds == <<crashes, losses, stops>>
vars == <<kind, table, handlerVars, started, known, due, delivered, history, bounds>>

Status == {"absent", "processing", "retryable", "completed"}
RowStatus == {"none", "sending", "accepted", "ambiguous", "dead_letter"}
Waits == {"idle", "convert", "dispatch", "send", "replied", "notice", "apology"}

TypeOK ==
  /\ kind \in Kinds
  /\ status \in [Event -> Status]
  /\ row \in [Event -> RowStatus]
  /\ pc \in [Handler -> Waits]
  /\ ev \in [Handler -> Event \cup {Nil}]
  /\ \A h \in Handler : pc[h] = "idle" <=> ev[h] = Nil
  /\ replaying \subseteq Handler
  /\ started \subseteq Instance
  /\ known \subseteq Event /\ due \subseteq Event
  /\ delivered \in [Event -> Nat]
  /\ replies \in [Event -> Nat]
  /\ failed \subseteq Event /\ lost \subseteq Event /\ outlived \subseteq Event
  /\ crashes \in 0..MaxCrashes
  /\ losses \in 0..MaxLost
  /\ stops \in 0..MaxStops

Init ==
  /\ kind \in Kinds
  /\ status = [e \in Event |-> "absent"]
  /\ row = [e \in Event |-> "none"]
  /\ pc = [h \in Handler |-> "idle"]
  /\ ev = [h \in Handler |-> Nil]
  /\ replaying = {}
  /\ started = {} /\ known = {} /\ due = {}
  /\ delivered = [e \in Event |-> 0]
  /\ replies = [e \in Event |-> 0]
  /\ failed = {} /\ lost = {} /\ outlived = {}
  /\ crashes = 0 /\ losses = 0 /\ stops = 0

-----------------------------------------------------------------------------
Telegram(e) == kind[InstanceOf[e]] = "telegram"
Wecom(e) == kind[InstanceOf[e]] = "wecom"

Working(h) == pc[h] \in {"convert", "dispatch", "send", "replied", "apology"}
AtWork(e) == {h \in Handler : Working(h) /\ ev[h] = e}
HandlersOf(i) == {h \in Handler : ev[h] \in Event /\ InstanceOf[ev[h]] = i}

\* Mutant: claim() refuses completed events only.
Claimable_Processing(e) == status[e] # "completed"

\* claim(): the first caller wins, others are told to drop the event.
Claimable(e) == status[e] \in {"absent", "retryable"}

\* complete()
Complete(e) == status' = IF e \in Keyed THEN [status EXCEPT ![e] = "completed"] ELSE status

\* Mutant: retry() forgets that another handler may have completed the event.
Reopened_Completed(S) ==
  [e \in Event |-> IF e \in S \cap Keyed THEN "retryable" ELSE status[e]]

\* Mutant: the branch for CancelledError or an error does not call retry().
Reopened_Forgotten(S) == status

\* retry() of the events S: never reopens an event that was completed.
Reopened(S) ==
  [e \in Event |-> IF e \in S \cap Keyed /\ status[e] # "completed"
                   THEN "retryable" ELSE status[e]]

Retry(e) == status' = Reopened({e})

Leave(h) ==
  /\ pc' = [pc EXCEPT ![h] = "idle"]
  /\ ev' = [ev EXCEPT ![h] = Nil]
  /\ replaying' = replaying \ {h}

Goes(h, where) ==
  /\ pc' = [pc EXCEPT ![h] = where]
  /\ UNCHANGED <<kind, ev, replaying>>

\* The user has received the replies to the events S, or may have.
Received(S) == replies' = [e \in Event |-> IF e \in S THEN replies[e] + 1 ELSE replies[e]]
MayReceive(S) == \E T \in SUBSET S : Received(T)

-----------------------------------------------------------------------------
(* A handler                                                               *)

\* An event without an identity is processed without a receipt, but not by
\* WeCom; WeCom also drops what it has received in the last five minutes.
Taken(e) ==
  IF e \in Keyed THEN e \notin known /\ Claimable(e) ELSE ~Wecom(e)

Claim(h, e) ==
  /\ status' = IF e \in Keyed THEN [status EXCEPT ![e] = "processing"] ELSE status
  /\ pc' = [pc EXCEPT ![h] = IF Wecom(e) THEN "convert" ELSE "dispatch"]
  /\ ev' = [ev EXCEPT ![h] = e]
  /\ known' = IF Wecom(e) THEN known \cup {e} ELSE known

\* The upstream delivers e.  The library fetches one Telegram update after
\* the other.
Receive(h, e) ==
  /\ InstanceOf[e] \in started
  /\ pc[h] = "idle"
  /\ Telegram(e) => HandlersOf(InstanceOf[e]) \subseteq replaying
  /\ delivered[e] < MaxDeliveries[e]
  /\ delivered' = [delivered EXCEPT ![e] = @ + 1]
  /\ IF Taken(e) THEN Claim(h, e) ELSE UNCHANGED <<status, pc, ev, known>>
  /\ UNCHANGED <<kind, row, replaying, started, due, history, bounds>>

\* The recovery task of Telegram takes the next update it found: it claims
\* it like one that was delivered.
Replay(h, e) ==
  /\ e \in due
  /\ pc[h] = "idle"
  /\ HandlersOf(InstanceOf[e]) \cap replaying = {}
  /\ due' = due \ {e}
  /\ IF Claimable(e) THEN Claim(h, e) /\ replaying' = replaying \cup {h}
     ELSE UNCHANGED <<status, handlerVars, known>>
  /\ UNCHANGED <<kind, row, started, delivered, history, bounds>>

\* WeCom: the media are downloaded, or the message cannot be read.
Converted(h) ==
  /\ pc[h] = "convert"
  /\ Goes(h, "dispatch")
  /\ UNCHANGED <<kind, table, started, known, due, delivered, history, bounds>>

Unreadable(h) ==
  /\ pc[h] = "convert"
  /\ Retry(ev[h])
  /\ known' = known \ {ev[h]}
  /\ failed' = failed \cup {ev[h]}
  /\ Leave(h)
  /\ UNCHANGED <<kind, row, started, due, delivered, replies, lost, outlived, bounds>>

\* The timer of reply_tasks.
Forget(e) ==
  /\ e \in known
  /\ known' = known \ {e}
  /\ UNCHANGED <<kind, table, handlerVars, started, due, delivered, history, bounds>>

\* The dispatched workflow sends its reply and goes on.
Reply(h) ==
  /\ pc[h] = "dispatch" /\ ~Wecom(ev[h])
  /\ Goes(h, "replied")
  /\ Received({ev[h]})
  /\ UNCHANGED <<kind, table, started, known, due, delivered, failed, lost, outlived, bounds>>

\* Mutant: the reply has an identity of its own.
Unsent_Always(e) == TRUE

\* enqueue() finds a row of that identity, and deliver() sends it unless it
\* is settled.
Unsent(e) == row[e] \in {"none", "sending"}

\* WeCom: send_message, with the lock of the recipient.  An accepted reply
\* completes the event, a reply that will not be accepted makes the
\* dispatch raise (Fail).
Send(h) ==
  LET e == ev[h] IN
  /\ pc[h] = "dispatch" /\ Wecom(e)
  /\ \A k \in Handler : ~(pc[k] = "send" /\ ev[k] = e)
  /\ \/ /\ Unsent(e)
        /\ row' = [row EXCEPT ![e] = "sending"]
        /\ Goes(h, "send")
        /\ UNCHANGED status
     \/ /\ row[e] = "accepted" /\ ~Unsent(e)
        /\ Complete(e)
        /\ Goes(h, "replied")
        /\ UNCHANGED row
  /\ UNCHANGED <<kind, started, known, due, delivered, history, bounds>>

Accepted(h) ==
  /\ pc[h] = "send"
  /\ row' = [row EXCEPT ![ev[h]] = "accepted"]
  /\ Received({ev[h]})
  /\ Complete(ev[h])
  /\ Goes(h, "replied")
  /\ UNCHANGED <<kind, started, known, due, delivered, failed, lost, outlived, bounds>>

\* A timeout leaves the outcome open; the error makes the dispatch raise.
NotAccepted(h) ==
  /\ pc[h] = "send"
  /\ \/ row' = [row EXCEPT ![ev[h]] = "ambiguous"] /\ MayReceive({ev[h]})
     \/ row' = [row EXCEPT ![ev[h]] = "dead_letter"] /\ UNCHANGED replies
  /\ failed' = failed \cup {ev[h]}
  /\ Goes(h, "apology")
  /\ UNCHANGED <<kind, status, started, known, due, delivered, lost, outlived, bounds>>

\* The dispatch returns, with or without a reply.
Finish(h) ==
  /\ pc[h] \in {"dispatch", "replied"}
  /\ Complete(ev[h])
  /\ Leave(h)
  /\ UNCHANGED <<kind, row, started, known, due, delivered, history, bounds>>

\* The dispatch raises: the user is told.  WeCom has nothing to say when it
\* has replied, and keeps the row until it has said it.
Fail(h) ==
  /\ pc[h] \in {"dispatch", "replied"}
  /\ failed' = failed \cup {ev[h]}
  /\ \/ ~Wecom(ev[h]) /\ Retry(ev[h]) /\ Goes(h, "notice")
     \/ Wecom(ev[h]) /\ pc[h] = "dispatch" /\ Goes(h, "apology") /\ UNCHANGED status
     \/ Wecom(ev[h]) /\ pc[h] = "replied" /\ Leave(h) /\ UNCHANGED status
  /\ UNCHANGED <<kind, row, started, known, due, delivered, replies, lost, outlived, bounds>>

\* The notice is sent, or sending it fails too.
Noticed(h) ==
  /\ pc[h] = "notice"
  /\ Leave(h)
  /\ UNCHANGED <<kind, table, started, known, due, delivered, history, bounds>>

\* The same in WeCom, which then regards the event as answered.
Apologised(h) ==
  /\ pc[h] = "apology"
  /\ Complete(ev[h])
  /\ Leave(h)
  /\ UNCHANGED <<kind, row, started, known, due, delivered, history, bounds>>

\* WeCom cancels its tasks in stop() only.
Cancelled(h) ==
  /\ pc[h] \in {"dispatch", "replied"} /\ ~Wecom(ev[h])
  /\ Retry(ev[h])
  /\ failed' = failed \cup {ev[h]}
  /\ Leave(h)
  /\ UNCHANGED <<kind, row, started, known, due, delivered, replies, lost, outlived, bounds>>

-----------------------------------------------------------------------------
(* Commits that raise                                                      *)

Raises == losses < MaxLost /\ losses' = losses + 1 /\ UNCHANGED <<crashes, stops>>

\* complete() or retry() raises and the handler with it; the table keeps the
\* row as it is.
OutcomeLost(h) ==
  /\ Raises
  /\ Working(h) /\ h \notin replaying
  /\ pc[h] # "send" /\ (Wecom(ev[h]) => pc[h] # "dispatch")
  /\ lost' = lost \cup {ev[h]}
  /\ known' = IF pc[h] = "convert" THEN known \ {ev[h]} ELSE known
  /\ Leave(h)
  /\ UNCHANGED <<kind, table, started, due, delivered, replies, failed, outlived>>

\* The recovery task of Telegram calls retry() then.
ReplayLost(h) ==
  /\ Raises
  /\ Working(h) /\ h \in replaying
  /\ Retry(ev[h])
  /\ failed' = failed \cup {ev[h]}
  /\ Leave(h)
  /\ UNCHANGED <<kind, row, started, known, due, delivered, replies, lost, outlived>>

\* WeCom apologises, and will try to complete the event once more.
ReportLost(h) ==
  /\ Raises
  /\ \/ pc[h] = "dispatch" /\ Wecom(ev[h]) /\ UNCHANGED replies
     \/ pc[h] = "send" /\ MayReceive({ev[h]})
  /\ failed' = failed \cup {ev[h]}
  /\ Goes(h, "apology")
  /\ UNCHANGED <<kind, table, started, known, due, delivered, lost, outlived>>

\* WeCom has replied and says nothing.
CompletionLost(h) ==
  /\ Raises
  /\ pc[h] = "send"
  /\ row' = [row EXCEPT ![ev[h]] = "accepted"]
  /\ Received({ev[h]})
  /\ lost' = lost \cup {ev[h]}
  /\ Leave(h)
  /\ UNCHANGED <<kind, status, started, known, due, delivered, failed, outlived>>

-----------------------------------------------------------------------------
(* The adapter and the process                                             *)

\* The receipts of WeCom do not say which adapter they belong to.
SameTable(e, i) == InstanceOf[e] = i \/ (Wecom(e) /\ kind[i] = "wecom")

\* Mutant: recover_on_startup is not called.
Recovered_Skipped(i) == status

\* recover_on_startup(), recover_inbound()
Recovered(i) ==
  [e \in Event |-> IF SameTable(e, i) /\ status[e] = "processing"
                   THEN "retryable" ELSE status[e]]

\* Mutant: pending_inbound is read before the recovery.
Replayable_Early(i) ==
  {e \in Event : kind[i] = "telegram" /\ InstanceOf[e] = i /\ status[e] = "retryable"}

\* pending_inbound()
Replayable(i) ==
  {e \in Event : kind[i] = "telegram" /\ InstanceOf[e] = i /\ Recovered(i)[e] = "retryable"}

\* start() may raise after the recovery: the path of the webhook is taken.
Start(i) ==
  /\ i \notin started
  /\ status' = Recovered(i)
  /\ row' = [e \in Event |-> IF SameTable(e, i) /\ row[e] = "sending"
                             THEN "ambiguous" ELSE row[e]]
  /\ \/ started' = started /\ due' = due
     \/ started' = started \cup {i} /\ due' = due \cup Replayable(i)
  /\ lost' = {e \in lost : ~SameTable(e, i)}
  /\ outlived' = outlived \cup {e \in Event : status'[e] # status[e] /\ AtWork(e) # {}}
  /\ UNCHANGED <<kind, handlerVars, known, delivered, replies, failed, bounds>>

\* OneBot and QQBot close the connections and the handlers run on.  Telegram
\* cancels the recovery task, and the library waits for its handlers; WeCom
\* cancels the dispatches, in the middle of an apology too.
Ended(i) ==
  {h \in HandlersOf(i) :
     \/ kind[i] = "telegram" /\ h \in replaying
     \/ kind[i] = "wecom" /\ pc[h] # "convert"}

Sending(H) == {ev[h] : h \in {k \in H : pc[k] = "send"}}

Stop(i) ==
  /\ stops < MaxStops
  /\ i \in started
  /\ kind[i] = "telegram" => HandlersOf(i) \subseteq replaying
  /\ stops' = stops + 1
  /\ started' = started \ {i}
  /\ due' = {e \in due : InstanceOf[e] # i}
  /\ status' = Reopened({ev[h] : h \in {k \in Ended(i) :
                           pc[k] \in {"dispatch", "send", "replied"}}})
  /\ row' = [e \in Event |-> IF e \in Sending(Ended(i)) THEN "ambiguous" ELSE row[e]]
  /\ MayReceive(Sending(Ended(i)))
  /\ failed' = failed \cup {ev[h] : h \in Ended(i)}
  /\ pc' = [h \in Handler |-> IF h \in Ended(i) THEN "idle" ELSE pc[h]]
  /\ ev' = [h \in Handler |-> IF h \in Ended(i) THEN Nil ELSE ev[h]]
  /\ replaying' = replaying \ Ended(i)
  /\ UNCHANGED <<kind, known, delivered, lost, outlived, crashes, losses>>

Crash ==
  /\ crashes < MaxCrashes
  /\ crashes' = crashes + 1
  /\ started' = {} /\ known' = {} /\ due' = {}
  /\ outlived' = {}
  /\ MayReceive(Sending(Handler))
  /\ pc' = [h \in Handler |-> "idle"]
  /\ ev' = [h \in Handler |-> Nil]
  /\ replaying' = {}
  /\ UNCHANGED <<kind, table, delivered, failed, lost, losses, stops>>

-----------------------------------------------------------------------------
Handles(h) ==
  \/ \E e \in Event : Receive(h, e) \/ Replay(h, e)
  \/ Converted(h) \/ Unreadable(h)
  \/ Reply(h) \/ Send(h) \/ Accepted(h) \/ NotAccepted(h)
  \/ Finish(h) \/ Fail(h) \/ Noticed(h) \/ Apologised(h) \/ Cancelled(h)
  \/ OutcomeLost(h) \/ ReplayLost(h) \/ ReportLost(h) \/ CompletionLost(h)

Next ==
  \/ \E h \in Handler : Handles(h)
  \/ \E e \in Event : Forget(e)
  \/ \E i \in Instance : Start(i) \/ Stop(i)
  \/ Crash

Spec == Init /\ [][Next]_vars

\* The loop runs every handler, whose conversion, send and dispatch end one
\* way or the other, and the recovery task; the process is started again
\* after a crash.
Fairness ==
  /\ \A h \in Handler :
       /\ WF_vars(Finish(h) \/ Fail(h) \/ Cancelled(h))
       /\ WF_vars(Converted(h) \/ Unreadable(h))
       /\ WF_vars(Accepted(h) \/ NotAccepted(h))
       /\ WF_vars(Noticed(h) \/ Apologised(h))
  /\ WF_vars(\E h \in Handler, e \in Event : Replay(h, e))
  /\ \A i \in Instance : WF_vars(Start(i))

FairSpec == Spec /\ Fairness

-----------------------------------------------------------------------------
(* Properties                                                              *)

\* Two handlers never process the same event at the same time, whatever the
\* upstream delivers again, whatever is replayed and wherever the process
\* died.  The exception are events whose row a start has opened under a
\* handler that goes on: after stop(), or by another WeCom adapter.
OneHandler == \A e \in Keyed \ outlived : Cardinality(AtWork(e)) <= 1

\* No event is blocked by a row nobody works on: while its adapter is
\* started, a row in "processing" has a handler, unless the table refused to
\* store the outcome.
NotAbandoned ==
  \A e \in Keyed \ lost :
    status[e] = "processing" /\ InstanceOf[e] \in started => AtWork(e) # {}

\* A completed event stays completed: no late failure of another handler and
\* no restart makes the upstream's next delivery be processed again.
CompletedIsFinal ==
  [][\A e \in Keyed : status[e] = "completed" => status'[e] = "completed"]_vars

\* An event does not stay blocked: it is completed or may be claimed again,
\* unless the table refused to store the outcome.
EventuallyUnblocked ==
  \A e \in Keyed :
    status[e] = "processing" ~> (status[e] # "processing" \/ e \in lost)

\* An update that Telegram has handed over is processed to an end although
\* Telegram does not deliver it again: after a crash it is replayed, until it
\* is completed or its processing fails (_recover_persisted_work).
Replayed ==
  \A e \in Keyed :
    Telegram(e) /\ status[e] = "processing"
      ~> (status[e] = "completed" \/ e \in failed \cup lost)

\* An event whose processing did not fail has one reply, however often the
\* upstream delivers it (claim), unless the process died or the table refused
\* the outcome after the reply, or its row was opened under its handler.
\* With WeCom it has one in these cases too, for the outbox knows the reply
\* again, as long as its rows are stored.
AnsweredOnce ==
  \A e \in Keyed :
    \/ replies[e] <= 1
    \/ Wecom(e) /\ losses > 0
    \/ ~Wecom(e) /\ (crashes + losses > 0 \/ e \in failed \cup outlived)
=============================================================================
