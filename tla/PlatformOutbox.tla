--------------------------- MODULE PlatformOutbox ---------------------------
(***************************************************************************)
(* The outboxes of the Telegram, QQBot and WeCom adapters, which differ    *)
(* from the one of OneBot and from each other: Telegram retries when it is *)
(* told to, QQBot uploads media in a phase of its own before it sends, and *)
(* WeCom does neither and keeps no order.                                  *)
(*                                                                         *)
(* One service and the rows of one recipient, numbered by their sequence;  *)
(* the kind of outbox is chosen in Init.  A task is a call of              *)
(* send_message, which delivers the pages of its message one by one, or a  *)
(* deliver() of one row.  The lock of the recipient is one variable: that  *)
(* its table of locks provides it is shown for OneBotOutbox.               *)
(***************************************************************************)
EXTENDS Integers, FiniteSets

CONSTANTS
  Task, NoTask,
  Kind,         \* a subset of {"telegram", "qqbot", "wecom"}
  MaxRows,      \* bound: rows enqueued
  MaxAttempts,  \* max_attempts
  MaxFaults,    \* bound: outcomes the database does not store
  MaxCrashes    \* bound: crashes

ASSUME PlatformAssumption ==
  /\ NoTask \notin Task
  /\ Kind \subseteq {"telegram", "qqbot", "wecom"}
  /\ MaxRows \in Nat
  /\ MaxAttempts \in Nat \ {0}
  /\ MaxFaults \in Nat /\ MaxCrashes \in Nat

VARIABLES
  kind,       \* the platform
  media,      \* rows with a file to upload
  status,     \* of each row
  uploaded,   \* rows whose media_response_json is stored
  attempts,   \* attempt_count
  uploads,    \* upload_attempt_count, up to MaxAttempts
  used,       \* rows enqueued
  task,       \* the coroutines
  lock,       \* who holds the lock of the recipient
  due,        \* rows that resume_pending has still to deliver
  up,         \* the adapter is started
  performed,  \* history: how often the chat received a row
  lost,       \* history: rows whose outcome was not stored
  left,       \* history: rows given up without an outcome since the start
  faults, crashes

vars == <<kind, media, status, uploaded, attempts, uploads, used, task, lock, due,
          up, performed, lost, left, faults, crashes>>

Row == 1..MaxRows
Terminal == {"accepted", "ambiguous", "dead_letter"}
Status == Terminal \cup {"none", "queued", "retry_wait", "uploading", "uploaded", "sending"}

\* Two of the outboxes go through the earlier rows first.
Ordered == kind # "wecom"

\* PENDING_STATUSES
Pending == CASE kind = "telegram" -> {"queued", "retry_wait"}
             [] kind = "qqbot" -> {"queued", "retry_wait", "uploaded"}
             [] kind = "wecom" -> {"queued"}

\* A task has the pages row..last still to deliver and works on page at.
Idle == [pc |-> "idle", row |-> 0, last |-> 0, at |-> 0]
TaskState == [pc : {"idle", "deliver", "again", "upload", "send"},
              row : 0..MaxRows, last : 0..MaxRows, at : 0..MaxRows]

TypeOK ==
  /\ kind \in Kind
  /\ media \subseteq Row
  /\ status \in [Row -> Status]
  /\ uploaded \subseteq media
  /\ attempts \in [Row -> Nat]
  /\ uploads \in [Row -> 0..MaxAttempts]
  /\ used \in 0..MaxRows
  /\ task \in [Task -> TaskState]
  /\ lock \in Task \cup {NoTask}
  /\ due \subseteq Row
  /\ up \in BOOLEAN
  /\ performed \in [Row -> Nat]
  /\ lost \subseteq Row
  /\ left \subseteq Row
  /\ faults \in 0..MaxFaults
  /\ crashes \in 0..MaxCrashes

Init ==
  /\ kind \in Kind
  /\ media \in IF kind = "qqbot" THEN SUBSET Row ELSE {{}}
  /\ status = [r \in Row |-> "none"]
  /\ uploaded = {}
  /\ attempts = [r \in Row |-> 0]
  /\ uploads = [r \in Row |-> 0]
  /\ used = 0
  /\ task = [t \in Task |-> Idle]
  /\ lock = NoTask
  /\ due = {}
  /\ up = TRUE
  /\ performed = [r \in Row |-> 0]
  /\ lost = {}
  /\ left = {}
  /\ faults = 0
  /\ crashes = 0

-----------------------------------------------------------------------------
\* send_message: all pages are stored before the first is delivered.
Send(t, n) ==
  /\ up
  /\ task[t].pc = "idle"
  /\ used + n <= MaxRows
  /\ used' = used + n
  /\ status' = [r \in Row |-> IF r \in used + 1..used + n THEN "queued" ELSE status[r]]
  /\ task' = [task EXCEPT ![t] = [pc |-> "deliver", row |-> used + 1, last |-> used + n, at |-> 0]]
  /\ UNCHANGED <<kind, media, uploaded, attempts, uploads, lock, due, up, performed, lost,
                 left, faults, crashes>>

\* A deliver() of resume_pending, or of a message that is sent once more.
Deliver(t, r) ==
  /\ up
  /\ task[t].pc = "idle"
  /\ r \in 1..used
  /\ due' = due \ {r}
  /\ task' = [task EXCEPT ![t] = [pc |-> "deliver", row |-> r, last |-> r, at |-> 0]]
  /\ UNCHANGED <<kind, media, status, uploaded, attempts, uploads, used, lock, up, performed,
                 lost, left, faults, crashes>>

\* deliver() returns: the next page, if this one was accepted.
Leave(t, accepted) ==
  /\ lock' = NoTask
  /\ task' = [task EXCEPT ![t] =
       IF accepted /\ @.row < @.last
       THEN [pc |-> "deliver", row |-> @.row + 1, last |-> @.last, at |-> 0]
       ELSE Idle]

\* _deliver_one takes a row: it is uploaded first, or sent.
Begin(t, r) ==
  /\ lock' = t
  /\ IF r \in media \ uploaded
     THEN /\ status' = [status EXCEPT ![r] = "uploading"]
          /\ uploads' = [uploads EXCEPT ![r] = IF @ < MaxAttempts THEN @ + 1 ELSE @]
          /\ task' = [task EXCEPT ![t] =
               [pc |-> "upload", row |-> @.row, last |-> @.last, at |-> r]]
          /\ UNCHANGED attempts
     ELSE /\ status' = [status EXCEPT ![r] = "sending"]
          /\ attempts' = [attempts EXCEPT ![r] = @ + 1]
          /\ task' = [task EXCEPT ![t] =
               [pc |-> "send", row |-> @.row, last |-> @.last, at |-> r]]
          /\ UNCHANGED uploads

\* The first member of a set of rows, if it has one.
First(S) == {r \in S : \A s \in S : r <= s}

\* Mutant of Blocked: the rows before are not looked at.
Blocked_Never(r) == FALSE

\* The row to work on for a target: the target, or the first pending row up
\* to it, unless the first row that is not accepted will never be.
Blocked(r) ==
  /\ Ordered
  /\ \E s \in First({u \in 1..r - 1 : status[u] # "accepted"}) : status[s] \in Terminal
NextRows(r) ==
  IF Ordered THEN {s \in 1..r : status[s] \in Pending} ELSE {r}

\* With the lock: _deliver_recipient_through goes round once.
Work(t) ==
  LET r == task[t].row IN
  /\ task[t].pc = "deliver"
  /\ lock \in {NoTask, t}
  /\ \/ /\ status[r] \in Terminal \/ Blocked(r) \/ NextRows(r) = {}
        /\ Leave(t, status[r] = "accepted")
        /\ UNCHANGED <<status, attempts, uploads>>
     \/ /\ status[r] \notin Terminal /\ ~Blocked(r)
        /\ \E s \in First(NextRows(r)) : Begin(t, s)
  /\ UNCHANGED <<kind, media, uploaded, used, due, up, performed, lost, left, faults, crashes>>

\* The back-off is over, or the upload done: _deliver_one goes round again.
Again(t) ==
  /\ task[t].pc = "again"
  /\ Begin(t, task[t].at)
  /\ UNCHANGED <<kind, media, uploaded, used, due, up, performed, lost, left, faults, crashes>>

-----------------------------------------------------------------------------
(* Outcomes                                                                *)

\* An outcome is stored, or the write raises: the row keeps its status and
\* deliver() raises.
Lost(t) ==
  /\ faults < MaxFaults
  /\ faults' = faults + 1
  /\ lost' = lost \cup {task[t].at}
  /\ Leave(t, FALSE)
  /\ UNCHANGED status
Ends(t, s) ==
  \/ /\ status' = [status EXCEPT ![task[t].at] = s]
     /\ Leave(t, FALSE)
     /\ UNCHANGED <<lost, faults>>
  \/ Lost(t)
Stored(t, s, pc) ==
  /\ status' = [status EXCEPT ![task[t].at] = s]
  /\ task' = [task EXCEPT ![t].pc = pc]
  /\ UNCHANGED <<lock, lost, faults>>
GoesOn(t, s, pc) == Stored(t, s, pc) \/ Lost(t)

\* The upstream asks to try again later.
Retry(t, count) ==
  IF count[task[t].at] >= MaxAttempts THEN Ends(t, "dead_letter")
                                      ELSE GoesOn(t, "retry_wait", "again")

Received(t) == performed' = [performed EXCEPT ![task[t].at] = @ + 1]

SendReturns(t) ==
  /\ task[t].pc = "send"
  /\ \/ GoesOn(t, "accepted", "deliver") /\ Received(t)
     \/ Ends(t, "ambiguous") /\ (Received(t) \/ UNCHANGED performed)
     \/ Ends(t, "dead_letter") /\ UNCHANGED performed
     \/ kind # "wecom" /\ Retry(t, attempts) /\ UNCHANGED performed
  /\ UNCHANGED <<kind, media, uploaded, attempts, uploads, used, due, up, left, crashes>>

\* Mutant of UploadReturns: an unknown outcome is tried again at once.
UploadReturns_AtOnce(t) ==
  LET r == task[t].at IN
  /\ task[t].pc = "upload"
  /\ \/ Stored(t, "uploaded", "again") /\ uploaded' = uploaded \cup {r}
     \/ Stored(t, "queued", "again") /\ UNCHANGED uploaded
  /\ UNCHANGED <<kind, media, attempts, uploads, used, due, up, performed, left, crashes>>

\* When the upload cannot be stored, the handler that follows marks the row
\* as dead.  An upload of unknown outcome puts the row back, for somebody
\* else to deliver.
UploadReturns(t) ==
  LET r == task[t].at IN
  /\ task[t].pc = "upload"
  /\ \/ /\ Stored(t, "uploaded", "again")
        /\ uploaded' = uploaded \cup {r}
        /\ UNCHANGED left
     \/ Ends(t, "queued") /\ left' = left \cup {r} /\ UNCHANGED uploaded
     \/ (Ends(t, "dead_letter") \/ Retry(t, uploads)) /\ UNCHANGED <<uploaded, left>>
  /\ UNCHANGED <<kind, media, attempts, uploads, used, due, up, performed, crashes>>

\* A cancelled send is ambiguous, a cancelled upload is put back, and what
\* waits for the lock or for its back-off stays as it is.
Cancel(t) ==
  LET s == task[t] IN
  /\ s.pc # "idle"
  /\ task' = [task EXCEPT ![t] = Idle]
  /\ lock' = IF lock = t THEN NoTask ELSE lock
  /\ status' = CASE s.pc = "send" -> [status EXCEPT ![s.at] = "ambiguous"]
                 [] s.pc = "upload" -> [status EXCEPT ![s.at] = "queued"]
                 [] OTHER -> status
  /\ left' = left \cup s.row..s.last \cup ({s.at} \ {0})
  /\ \/ UNCHANGED performed
     \/ s.pc = "send" /\ Received(t)
  /\ UNCHANGED <<kind, media, uploaded, attempts, uploads, used, due, up, lost, faults, crashes>>

-----------------------------------------------------------------------------
\* The process dies; what was handed to the upstream may still be received.
Crash ==
  /\ up
  /\ crashes < MaxCrashes
  /\ crashes' = crashes + 1
  /\ up' = FALSE
  /\ task' = [t \in Task |-> Idle]
  /\ lock' = NoTask
  /\ due' = {}
  /\ \E S \in SUBSET {task[t].at : t \in {x \in Task : task[x].pc = "send"}} :
       performed' = [r \in Row |-> IF r \in S THEN performed[r] + 1 ELSE performed[r]]
  /\ UNCHANGED <<kind, media, status, uploaded, attempts, uploads, used, lost, left, faults>>

\* Mutant of Recovered: a send that was interrupted is sent again.
Recovered_Requeued(r) ==
  IF status[r] \in {"sending", "uploading"} THEN "queued" ELSE status[r]

\* recover_on_startup, then resume_pending.
Recovered(r) ==
  CASE status[r] = "sending" -> "ambiguous"
    [] status[r] = "uploading" -> "queued"
    [] OTHER -> status[r]
\* Mutant of Start: what is pending is not resumed.
Start_NotResumed ==
  /\ ~up
  /\ up' = TRUE
  /\ status' = [r \in Row |-> Recovered(r)]
  /\ due' = {}
  /\ left' = {}
  /\ UNCHANGED <<kind, media, uploaded, attempts, uploads, used, task, lock, performed,
                 lost, faults, crashes>>

Start ==
  /\ ~up
  /\ up' = TRUE
  /\ status' = [r \in Row |-> Recovered(r)]
  /\ due' = {r \in Row : Recovered(r) \in Pending}
  /\ left' = {}
  /\ UNCHANGED <<kind, media, uploaded, attempts, uploads, used, task, lock, performed,
                 lost, faults, crashes>>

-----------------------------------------------------------------------------
Proceed(t) == Work(t) \/ Again(t) \/ SendReturns(t) \/ UploadReturns(t)

Next ==
  \/ \E t \in Task : Proceed(t) \/ Cancel(t)
  \/ \E t \in Task, n \in 1..MaxRows : Send(t, n)
  \/ \E t \in Task, r \in Row : Deliver(t, r)
  \/ Crash \/ Start

Spec == Init /\ [][Next]_vars

\* Calls of the platform, sleeps and the waiting for the lock, which is
\* first come first served, come to an end.
FairSpec == Spec /\ \A t \in Task : SF_vars(Proceed(t))

-----------------------------------------------------------------------------
(* Properties                                                              *)

\* A chat receives a page at most once, whatever is retried, sent again or
\* recovered; with WeCom, a page whose outcome was not stored may be sent
\* once more by a second deliver(), which does not ask for the status.
NoDuplicateSend ==
  \A r \in Row : performed[r] <= 1 \/ (kind = "wecom" /\ r \in lost)

\* A chat receives a page only when it has received all earlier ones, but
\* for pages at or behind one whose outcome was not stored: such a page keeps
\* its status, and _deliver_recipient_through, which looks at the first page
\* that is not accepted and no further, then passes dead ones behind it.
NoHoles ==
  Ordered => \A r \in Row : performed[r] > 0 =>
               \A s \in 1..r - 1 : performed[s] > 0 \/ \E u \in 1..s : u \in lost

\* When nobody is at work, every page is settled, or has a page before it
\* that will not be accepted, or somebody gave up on it or a page before it.
NothingStranded ==
  (up /\ due = {} /\ \A t \in Task : task[t].pc = "idle") =>
    \A r \in 1..used :
      \/ status[r] \in Terminal
      \/ \E s \in 1..r : s \in left \cup lost
      \/ \E s \in 1..r - 1 : status[s] \in Terminal \ {"accepted"}

\* Every call of deliver() comes to an end: retries are limited, and an
\* upload of unknown outcome is not tried again by the same call.
DeliverEnds == \A t \in Task : task[t].pc # "idle" ~> task[t].pc = "idle"
=============================================================================
