------------------------ MODULE PlatformOutboxProofs ------------------------
(***************************************************************************)
(* Proofs about PlatformOutbox, for any number of tasks and rows, any mix  *)
(* of platforms, and any bounds on attempts, faults and crashes.           *)
(***************************************************************************)
EXTENDS PlatformOutbox, FiniteSetTheorems, WellFoundedInduction, TLAPS

\* The waits of a task that works on a row, and holds the lock for it.
Working == {"again", "upload", "send"}

\* What a row may be while a task works on it.
Phase(t) ==
  LET s == status[task[t].at] IN
  /\ task[t].pc = "send" => s = "sending"
  /\ task[t].pc = "upload" => s = "uploading"
  /\ task[t].pc = "again" => s \in {"retry_wait", "uploaded"}

\* One task works at a time, on a row that is not behind its target; without
\* the adapter nobody works.
LockInv ==
  /\ \A t \in Task : task[t].pc \in Working =>
       lock = t /\ task[t].at \in 1..task[t].row /\ Phase(t)
  /\ \A t \in Task : task[t].pc = "idle" => lock # t /\ task[t] = Idle
  /\ \A t \in Task : task[t].pc # "idle" =>
       task[t].row \in 1..used /\ task[t].last \in task[t].row..used
  /\ ~up => \A t \in Task : task[t].pc = "idle"

\* Rows are used in order; a platform knows only some of the statuses; a row
\* that is being worked on, and no lost one, has its task.
RowInv ==
  /\ \A r \in Row : status[r] = "none" <=> r > used
  /\ kind # "qqbot" => media = {}
  /\ \A r \in Row : status[r] \in {"uploading", "uploaded"} => r \in media
  /\ kind = "wecom" => \A r \in Row : status[r] # "retry_wait"
  /\ up => \A r \in Row \ lost : status[r] \in {"sending", "uploading"} =>
             \E t \in Task : task[t].at = r /\ task[t].pc \in {"send", "upload"}

\* A row that may still be sent was not received.
Unsent == {"none", "queued", "retry_wait", "uploading", "uploaded", "dead_letter"}
SentInv ==
  \A r \in Row : ~(kind = "wecom" /\ r \in lost) =>
    /\ performed[r] \in {0, 1}
    /\ status[r] \in Unsent => performed[r] = 0
    /\ \A t \in Task : task[t].pc = "send" /\ task[t].at = r => performed[r] = 0

\* What is received, or worked on, has nothing open before it.
Passed(s) == status[s] = "accepted" \/ \E u \in 1..s : u \in lost
Reached(r) ==
  performed[r] > 0 \/ \E t \in Task : task[t].pc \in Working /\ task[t].at = r
OrderInv ==
  /\ \A r \in Row : status[r] = "accepted" => performed[r] > 0
  /\ Ordered => \A r \in Row : Reached(r) => \A s \in 1..r - 1 : Passed(s)

\* Every row of a started adapter is settled, will stay, or has a task.
Settled(r) ==
  \/ status[r] \in Terminal
  \/ \E s \in 1..r : s \in left \cup lost
  \/ \E s \in 1..r - 1 : status[s] \in Terminal \ {"accepted"}
Covered(r) ==
  \/ Settled(r)
  \/ r \in due
  \/ \E t \in Task : task[t].pc # "idle" /\ r \in task[t].row..task[t].last
CoverInv == up => \A r \in 1..used : Covered(r)

-----------------------------------------------------------------------------
(* What the parts of the actions do                                        *)

\* The types of what the tasks and the lock are.
TaskTypes == task' \in [Task -> TaskState] /\ lock' \in Task \cup {NoTask}

\* A task whose deliver() returns goes on with its next page or is done.
LEMMA LeaveEffect ==
  ASSUME TypeOK, NEW t \in Task, NEW a \in BOOLEAN, Leave(t, a)
  PROVE  /\ TaskTypes
         /\ lock' = NoTask
         /\ \A u \in Task \ {t} : task'[u] = task[u]
         /\ task'[t] = IF a /\ task[t].row < task[t].last
                       THEN [pc |-> "deliver", row |-> task[t].row + 1,
                             last |-> task[t].last, at |-> 0]
                       ELSE Idle
<1> USE PlatformAssumption
<1>1. task[t] \in TaskState
  BY DEF TypeOK
<1>2. task'[t] = IF a /\ task[t].row < task[t].last
                 THEN [pc |-> "deliver", row |-> task[t].row + 1,
                       last |-> task[t].last, at |-> 0]
                 ELSE Idle
  BY <1>1 DEF TypeOK, Leave, TaskState
<1>3. task'[t] \in TaskState
  BY <1>1, <1>2 DEF TaskState, Idle
<1>4. task' \in [Task -> TaskState]
  BY <1>3 DEF TypeOK, Leave
<1> QED BY <1>2, <1>4 DEF Leave, TaskTypes, TypeOK

\* A task that begins with a row has the lock and uploads or sends it.
LEMMA BeginEffect ==
  ASSUME TypeOK, NEW t \in Task, NEW r \in Row, Begin(t, r)
  PROVE  /\ TaskTypes
         /\ status' \in [Row -> Status]
         /\ attempts' \in [Row -> Nat]
         /\ uploads' \in [Row -> 0..MaxAttempts]
         /\ lock' = t
         /\ \A u \in Task \ {t} : task'[u] = task[u]
         /\ task'[t] = [pc |-> task'[t].pc, row |-> task[t].row,
                        last |-> task[t].last, at |-> r]
         /\ \A s \in Row \ {r} : status'[s] = status[s]
         /\ \/ task'[t].pc = "upload" /\ status'[r] = "uploading" /\ r \in media
            \/ task'[t].pc = "send" /\ status'[r] = "sending"
<1> USE PlatformAssumption
<1>1. task[t] \in TaskState
  BY DEF TypeOK
<1>2. CASE r \in media \ uploaded
  <2>1. task'[t] = [pc |-> "upload", row |-> task[t].row, last |-> task[t].last, at |-> r]
    BY <1>2 DEF TypeOK, Begin
  <2>2. task'[t] \in TaskState /\ task'[t].pc = "upload"
    BY <1>1, <2>1 DEF TaskState, Row
  <2>3. TaskTypes
    BY <1>2, <2>2 DEF TypeOK, Begin, TaskTypes
  <2> QED BY <1>2, <2>1, <2>2, <2>3 DEF TypeOK, Begin, Status
<1>3. CASE r \notin media \ uploaded
  <2>1. task'[t] = [pc |-> "send", row |-> task[t].row, last |-> task[t].last, at |-> r]
    BY <1>3 DEF TypeOK, Begin
  <2>2. task'[t] \in TaskState /\ task'[t].pc = "send"
    BY <1>1, <2>1 DEF TaskState, Row
  <2>3. TaskTypes
    BY <1>3, <2>2 DEF TypeOK, Begin, TaskTypes
  <2> QED BY <1>3, <2>1, <2>2, <2>3 DEF TypeOK, Begin, Status
<1> QED BY <1>2, <1>3

\* What the end of a call to the platform may do to the row it is about.
Accepts(t) ==
  LET a == task[t].at IN
  /\ task[t].pc = "send"
  /\ status'[a] = "accepted" /\ performed'[a] = performed[a] + 1
  /\ task'[t] = [task[t] EXCEPT !.pc = "deliver"]
  /\ lock' = lock /\ lost' = lost
TriesAgain(t) ==
  LET a == task[t].at IN
  /\ status'[a] \in {"retry_wait", "uploaded"}
  /\ task[t].pc = "send" => kind # "wecom" /\ status'[a] = "retry_wait"
  /\ performed'[a] = performed[a]
  /\ task'[t] = [task[t] EXCEPT !.pc = "again"]
  /\ lock' = lock /\ lost' = lost
GivesUp(t) ==
  LET a == task[t].at IN
  /\ status'[a] \in {"ambiguous", "dead_letter", "queued"}
  /\ status'[a] = "queued" => a \in left'
  /\ \/ performed'[a] = performed[a]
     \/ status'[a] = "ambiguous" /\ performed'[a] = performed[a] + 1 /\ task[t].pc = "send"
  /\ task'[t] = Idle
  /\ lock' = NoTask /\ lost' = lost
Loses(t) ==
  LET a == task[t].at IN
  /\ status'[a] = status[a]
  /\ \/ performed'[a] = performed[a]
     \/ performed'[a] = performed[a] + 1 /\ task[t].pc = "send"
  /\ task'[t] = Idle
  /\ lock' = NoTask /\ lost' = lost \cup {a}
Outcome(t) ==
  LET a == task[t].at IN
  /\ task[t].pc \in {"send", "upload"}
  /\ UNCHANGED <<kind, media, attempts, uploads, used, due, up, crashes>>
  /\ left \subseteq left' /\ left' \subseteq left \cup {a}
  /\ \A s \in Row \ {a} : status'[s] = status[s] /\ performed'[s] = performed[s]
  /\ \A u \in Task \ {t} : task'[u] = task[u]
  /\ Accepts(t) \/ TriesAgain(t) \/ GivesUp(t) \/ Loses(t)

\* What is stored for a row that a task works on.
LEMMA StoredEffect ==
  ASSUME TypeOK, NEW t \in Task, NEW s \in Status, NEW pc \in {"deliver", "again"},
         task[t].at \in Row, Stored(t, s, pc)
  PROVE  /\ TaskTypes
         /\ status' \in [Row -> Status]
         /\ status'[task[t].at] = s
         /\ \A r \in Row \ {task[t].at} : status'[r] = status[r]
         /\ \A u \in Task \ {t} : task'[u] = task[u]
         /\ task'[t] = [task[t] EXCEPT !.pc = pc]
<1>1. task[t] \in TaskState
  BY DEF TypeOK
<1>2. task'[t] = [task[t] EXCEPT !.pc = pc]
  BY DEF TypeOK, Stored
<1>3. task'[t] \in TaskState
  BY <1>1, <1>2 DEF TaskState
<1>4. TaskTypes
  BY <1>3 DEF TypeOK, Stored, TaskTypes
<1> QED BY <1>2, <1>4 DEF TypeOK, Stored

\* A write that raises leaves the row and ends the call.
LEMMA LostEffect ==
  ASSUME TypeOK, NEW t \in Task, task[t].at \in Row, Lost(t)
  PROVE  /\ TaskTypes
         /\ faults' \in 0..MaxFaults /\ lost' \subseteq Row
         /\ status' = status /\ lost' = lost \cup {task[t].at}
         /\ \A u \in Task \ {t} : task'[u] = task[u]
         /\ lock' = NoTask /\ task'[t] = Idle
<1> USE PlatformAssumption
<1>1. Leave(t, FALSE)
  BY DEF Lost
<1>2. /\ TaskTypes /\ lock' = NoTask /\ task'[t] = Idle
      /\ \A u \in Task \ {t} : task'[u] = task[u]
  BY <1>1, LeaveEffect
<1> QED BY <1>2 DEF Lost, TypeOK

\* An outcome that ends the call is stored or lost.
LEMMA EndsEffect ==
  ASSUME TypeOK, NEW t \in Task, NEW s \in Status, task[t].at \in Row, Ends(t, s)
  PROVE  /\ TaskTypes
         /\ faults' \in 0..MaxFaults /\ lost' \subseteq Row
         /\ status' \in [Row -> Status]
         /\ \A r \in Row \ {task[t].at} : status'[r] = status[r]
         /\ \A u \in Task \ {t} : task'[u] = task[u]
         /\ lock' = NoTask /\ task'[t] = Idle
         /\ \/ status'[task[t].at] = s /\ lost' = lost
            \/ status'[task[t].at] = status[task[t].at] /\ lost' = lost \cup {task[t].at}
<1>1. CASE Lost(t)
  BY <1>1, LostEffect DEF TypeOK
<1>2. CASE ~Lost(t)
  <2>1. Leave(t, FALSE) /\ status' = [status EXCEPT ![task[t].at] = s]
        /\ UNCHANGED <<lost, faults>>
    BY <1>2 DEF Ends
  <2>2. /\ TaskTypes /\ lock' = NoTask /\ task'[t] = Idle
        /\ \A u \in Task \ {t} : task'[u] = task[u]
    BY <2>1, LeaveEffect
  <2> QED BY <2>1, <2>2 DEF TypeOK
<1> QED BY <1>1, <1>2

\* An outcome that does not end it is stored or lost.
LEMMA GoesOnEffect ==
  ASSUME TypeOK, NEW t \in Task, NEW s \in Status, NEW pc \in {"deliver", "again"},
         task[t].at \in Row, GoesOn(t, s, pc)
  PROVE  /\ TaskTypes
         /\ faults' \in 0..MaxFaults /\ lost' \subseteq Row
         /\ status' \in [Row -> Status]
         /\ \A r \in Row \ {task[t].at} : status'[r] = status[r]
         /\ \A u \in Task \ {t} : task'[u] = task[u]
         /\ \/ /\ status'[task[t].at] = s /\ lost' = lost /\ lock' = lock
               /\ task'[t] = [task[t] EXCEPT !.pc = pc]
            \/ /\ status'[task[t].at] = status[task[t].at]
               /\ lost' = lost \cup {task[t].at}
               /\ lock' = NoTask /\ task'[t] = Idle
<1>1. CASE Lost(t)
  BY <1>1, LostEffect DEF TypeOK
<1>2. CASE ~Lost(t)
  <2>1. Stored(t, s, pc)
    BY <1>2 DEF GoesOn
  <2> QED BY <2>1, StoredEffect DEF Stored, TypeOK
<1> QED BY <1>1, <1>2

\* The types of what an outcome writes.
OutcomeTypes ==
  /\ TaskTypes
  /\ status' \in [Row -> Status]
  /\ uploaded' \subseteq media
  /\ performed' \in [Row -> Nat]
  /\ lost' \subseteq Row /\ left' \subseteq Row
  /\ faults' \in 0..MaxFaults

\* A message that is received is counted for its row.
LEMMA ReceivedEffect ==
  ASSUME TypeOK, NEW t \in Task, task[t].at \in Row, Received(t)
  PROVE  /\ performed' \in [Row -> Nat]
         /\ performed'[task[t].at] = performed[task[t].at] + 1
         /\ \A s \in Row \ {task[t].at} : performed'[s] = performed[s]
BY DEF TypeOK, Received

\* An answer of the platform to a message.
LEMMA SendOutcome ==
  ASSUME TypeOK, NEW t \in Task, task[t].at \in Row, SendReturns(t)
  PROVE  Outcome(t) /\ OutcomeTypes
<1> DEFINE a == task[t].at
<1>1. /\ {"accepted", "ambiguous", "dead_letter", "retry_wait"} \subseteq Status
  BY DEF Status, Terminal
<1>2. /\ Received(t) => /\ performed' \in [Row -> Nat]
                        /\ performed'[a] = performed[a] + 1
                        /\ \A s \in Row \ {a} : performed'[s] = performed[s]
      /\ performed' = performed => performed' \in [Row -> Nat]
  BY ReceivedEffect DEF TypeOK
<1>3. /\ task[t].pc = "send" /\ uploaded' \subseteq media /\ left' \subseteq Row
      /\ UNCHANGED <<kind, media, attempts, uploads, used, due, up, left, crashes>>
  BY DEF SendReturns, TypeOK
<1>4. CASE GoesOn(t, "accepted", "deliver") /\ Received(t)
  BY <1>1, <1>2, <1>3, <1>4, GoesOnEffect
     DEF Outcome, OutcomeTypes, Accepts, Loses
<1>5. CASE Ends(t, "ambiguous") /\ (Received(t) \/ UNCHANGED performed)
  <2>1. OutcomeTypes
    BY <1>1, <1>2, <1>3, <1>5, EndsEffect DEF OutcomeTypes
  <2>2. GivesUp(t) \/ Loses(t)
    BY <1>1, <1>2, <1>3, <1>5, EndsEffect DEF GivesUp, Loses
  <2> QED BY <1>1, <1>2, <1>3, <1>5, <2>1, <2>2, EndsEffect DEF Outcome
<1>6. CASE Ends(t, "dead_letter") /\ UNCHANGED performed
  <2>1. OutcomeTypes
    BY <1>1, <1>2, <1>3, <1>6, EndsEffect DEF OutcomeTypes
  <2>2. GivesUp(t) \/ Loses(t)
    BY <1>1, <1>2, <1>3, <1>6, EndsEffect DEF GivesUp, Loses
  <2> QED BY <1>1, <1>2, <1>3, <1>6, <2>1, <2>2, EndsEffect DEF Outcome
<1>7. CASE kind # "wecom" /\ GoesOn(t, "retry_wait", "again") /\ UNCHANGED performed
  <2>1. OutcomeTypes
    BY <1>1, <1>2, <1>3, <1>7, GoesOnEffect DEF OutcomeTypes
  <2>2. TriesAgain(t) \/ Loses(t)
    BY <1>1, <1>2, <1>3, <1>7, GoesOnEffect DEF TriesAgain, Loses
  <2> QED BY <1>1, <1>2, <1>3, <1>7, <2>1, <2>2, GoesOnEffect DEF Outcome
<1> QED BY <1>4, <1>5, <1>6, <1>7 DEF SendReturns, Retry

\* An answer to an upload.
LEMMA UploadOutcome ==
  ASSUME TypeOK, NEW t \in Task, task[t].at \in media, UploadReturns(t)
  PROVE  Outcome(t) /\ OutcomeTypes
<1> DEFINE a == task[t].at
<1>1. /\ {"uploaded", "queued", "dead_letter", "retry_wait"} \subseteq Status
      /\ a \in Row
  BY DEF Status, Terminal, TypeOK
<1>2. /\ task[t].pc = "upload" /\ uploaded' \subseteq media /\ left' \subseteq Row
      /\ left \subseteq left' /\ left' \subseteq left \cup {a}
      /\ performed' = performed /\ performed' \in [Row -> Nat]
      /\ UNCHANGED <<kind, media, attempts, uploads, used, due, up, crashes>>
  BY <1>1 DEF UploadReturns, TypeOK
<1>3. CASE Stored(t, "uploaded", "again")
  <2>1. UNCHANGED <<lock, lost, faults>>
    BY <1>3 DEF Stored
  <2> QED BY <1>1, <1>2, <1>3, <2>1, StoredEffect
          DEF Outcome, OutcomeTypes, TriesAgain, TypeOK
<1>4. CASE Ends(t, "queued") /\ left' = left \cup {a}
  <2>1. OutcomeTypes
    BY <1>1, <1>2, <1>4, EndsEffect DEF OutcomeTypes
  <2>2. GivesUp(t) \/ Loses(t)
    BY <1>1, <1>2, <1>4, EndsEffect DEF GivesUp, Loses
  <2> QED BY <1>1, <1>2, <1>4, <2>1, <2>2, EndsEffect DEF Outcome
<1>5. CASE Ends(t, "dead_letter")
  <2>1. OutcomeTypes
    BY <1>1, <1>2, <1>5, EndsEffect DEF OutcomeTypes
  <2>2. GivesUp(t) \/ Loses(t)
    BY <1>1, <1>2, <1>5, EndsEffect DEF GivesUp, Loses
  <2> QED BY <1>1, <1>2, <1>5, <2>1, <2>2, EndsEffect DEF Outcome
<1>6. CASE GoesOn(t, "retry_wait", "again")
  <2>1. OutcomeTypes
    BY <1>1, <1>2, <1>6, GoesOnEffect DEF OutcomeTypes
  <2>2. TriesAgain(t) \/ Loses(t)
    BY <1>1, <1>2, <1>6, GoesOnEffect DEF TriesAgain, Loses
  <2> QED BY <1>1, <1>2, <1>6, <2>1, <2>2, GoesOnEffect DEF Outcome
<1> QED BY <1>3, <1>4, <1>5, <1>6 DEF UploadReturns, Retry

-----------------------------------------------------------------------------
(* Type correctness                                                        *)

\* The invariants that hold together: which statuses and phases are possible
\* decides which outcomes are.
Base == TypeOK /\ LockInv /\ RowInv

\* A task that works on a row works on one that is used; a row in upload has
\* a file.
LEMMA WorkedRow ==
  ASSUME Base, NEW t \in Task, task[t].pc \in Working
  PROVE  task[t].at \in 1..used /\ task[t].at \in Row /\ lock = t
BY PlatformAssumption DEF Base, LockInv, TypeOK, TaskState, Row

\* A free lock, or one that is held by a task between two pages, means that
\* nobody works on a row; what is open then, and not lost, is pending.
LEMMA NobodyWorks ==
  ASSUME Base, NEW t \in Task, task[t].pc = "deliver", lock \in {NoTask, t}
  PROVE  /\ up
         /\ task[t].row \in Row /\ task[t].row \in 1..used
         /\ \A u \in Task : task[u].pc \notin Working
         /\ \A r \in Row \ lost : status[r] \notin {"sending", "uploading"}
<1> USE PlatformAssumption
<1>1. \A u \in Task : task[u].pc \notin Working
  BY DEF Base, LockInv, Working
<1>2. up /\ task[t].row \in 1..used /\ task[t].row \in Row
  BY DEF Base, LockInv, TypeOK, Row
<1> QED BY <1>1, <1>2 DEF Base, RowInv, Working

\* The kinds of steps that a task with the lock makes: it leaves, or it
\* begins with the first pending row, or with its target where no order is kept.
Frame == UNCHANGED <<kind, media, uploaded, used, due, up, performed, lost, left,
                     faults, crashes>>
Leaves(t) ==
  LET r == task[t].row IN
  /\ status[r] \in Terminal \/ Blocked(r) \/ NextRows(r) = {}
  /\ Leave(t, status[r] = "accepted")
  /\ UNCHANGED <<status, attempts, uploads>>
Begins(t, s) ==
  LET r == task[t].row IN
  /\ s \in 1..r /\ s \in First(NextRows(r))
  /\ status[s] \notin Terminal \cup {"none"}
  /\ ~Blocked(r)
  /\ Begin(t, s)

LEMMA WorkCases ==
  ASSUME Base, NEW t \in Task, Work(t)
  PROVE  /\ Frame
         /\ Leaves(t) \/ \E s \in Row : Begins(t, s)
<1> USE PlatformAssumption
<1> DEFINE r == task[t].row
<1>1. /\ task[t].pc = "deliver" /\ lock \in {NoTask, t} /\ Frame
      /\ \/ Leaves(t)
         \/ /\ status[r] \notin Terminal /\ ~Blocked(r)
            /\ \E s \in First(NextRows(r)) : Begin(t, s)
  BY DEF Work, Frame, Leaves
<1>2. r \in Row /\ r \in 1..used
  BY <1>1, NobodyWorks
<1>3. ASSUME status[r] \notin Terminal, ~Blocked(r),
             NEW s \in First(NextRows(r)), Begin(t, s)
      PROVE  s \in Row /\ Begins(t, s)
  <2>1. s \in NextRows(r)
    BY <1>3 DEF First
  <2>2. status[r] # "none" /\ kind \in {"telegram", "qqbot", "wecom"}
    BY <1>2 DEF Base, RowInv, TypeOK, Row
  <2>3. s \in 1..r /\ s \in Row /\ status[s] \notin Terminal \cup {"none"}
    BY <2>1, <2>2, <1>2, <1>3 DEF NextRows, Pending, Row, Terminal
  <2> QED BY <2>3, <1>3 DEF Begins
<1> QED BY <1>1, <1>3

\* The steps of a task that works keep the types.
LEMMA TypeStep ==
  ASSUME Base, [Next]_vars
  PROVE  TypeOK'
<1> USE PlatformAssumption
<1>1. TypeOK
  BY DEF Base
<1>2. ASSUME NEW t \in Task, Work(t) PROVE TypeOK'
  <2>1. CASE Leaves(t)
    <3>1. TaskTypes
      BY <1>1, <2>1, LeaveEffect DEF Leaves
    <3> QED BY <1>1, <1>2, <2>1, <3>1, WorkCases DEF Leaves, TypeOK, TaskTypes, Frame
  <2>2. ASSUME NEW s \in Row, Begins(t, s) PROVE TypeOK'
    <3>1. Begin(t, s)
      BY <2>2 DEF Begins
    <3>2. /\ TaskTypes /\ status' \in [Row -> Status]
          /\ attempts' \in [Row -> Nat] /\ uploads' \in [Row -> 0..MaxAttempts]
      BY <1>1, <3>1, BeginEffect
    <3> QED BY <1>1, <1>2, <3>2, WorkCases DEF TypeOK, TaskTypes, Frame
  <2> QED BY <1>2, <2>1, <2>2, WorkCases
<1>3. ASSUME NEW t \in Task, Again(t) PROVE TypeOK'
  <2>1. Begin(t, task[t].at) /\ task[t].at \in Row /\ Frame
    BY <1>3, WorkedRow DEF Again, Working, Frame
  <2> QED BY <1>1, <2>1, BeginEffect DEF TypeOK, TaskTypes, Frame
<1>4. ASSUME NEW t \in Task, SendReturns(t) PROVE TypeOK'
  <2>1. task[t].at \in Row
    BY <1>4, WorkedRow DEF SendReturns, Working
  <2>2. Outcome(t) /\ OutcomeTypes
    BY <1>1, <1>4, <2>1, SendOutcome
  <2> QED BY <1>1, <2>2 DEF Outcome, OutcomeTypes, TypeOK, TaskTypes
<1>5. ASSUME NEW t \in Task, UploadReturns(t) PROVE TypeOK'
  <2>1. task[t].at \in media
    BY <1>5, WorkedRow DEF UploadReturns, Base, LockInv, RowInv, Phase, Working
  <2>2. Outcome(t) /\ OutcomeTypes
    BY <1>1, <1>5, <2>1, UploadOutcome
  <2> QED BY <1>1, <2>2 DEF Outcome, OutcomeTypes, TypeOK, TaskTypes
<1>6. ASSUME NEW t \in Task, Cancel(t) PROVE TypeOK'
  <2>1. /\ task' \in [Task -> TaskState] /\ lock' \in Task \cup {NoTask}
        /\ UNCHANGED <<kind, media, uploaded, attempts, uploads, used, due, up, lost,
                       faults, crashes>>
    BY <1>1, <1>6 DEF Cancel, TypeOK, TaskState, Idle
  <2>2. /\ task[t].pc \in {"idle", "deliver", "again", "upload", "send"}
        /\ task[t].row \in 1..MaxRows /\ task[t].last \in 1..MaxRows
        /\ task[t].at \in 0..MaxRows
    BY <1>1, <1>6 DEF Cancel, Base, LockInv, TypeOK, TaskState
  <2>3. left' \subseteq Row
    <3>1. left' = left \cup task[t].row..task[t].last \cup ({task[t].at} \ {0})
      BY <1>6 DEF Cancel
    <3>2. \A r \in task[t].row..task[t].last : r \in Row
      BY <2>2 DEF Row
    <3>3. task[t].at = 0 \/ task[t].at \in Row
      BY <2>2 DEF Row
    <3> QED BY <1>1, <3>1, <3>2, <3>3 DEF TypeOK
  <2>4. status' \in [Row -> Status]
    BY <1>1, <1>6 DEF Cancel, TypeOK, Status, Terminal
  <2>5. performed' \in [Row -> Nat]
    BY <1>1, <1>6, WorkedRow, ReceivedEffect DEF Cancel, TypeOK, Working
  <2> QED BY <1>1, <2>1, <2>3, <2>4, <2>5 DEF TypeOK
<1>7. ASSUME NEW t \in Task, NEW n \in 1..MaxRows, Send(t, n) PROVE TypeOK'
  <2>1. [pc |-> "deliver", row |-> used + 1, last |-> used + n, at |-> 0] \in TaskState
    BY <1>1, <1>7 DEF Send, TypeOK, TaskState
  <2>2. task' \in [Task -> TaskState]
    BY <1>1, <1>7, <2>1 DEF Send, TypeOK
  <2>3. status' \in [Row -> Status] /\ used' \in 0..MaxRows
    BY <1>1, <1>7 DEF Send, TypeOK, Status
  <2> QED BY <1>1, <1>7, <2>2, <2>3 DEF Send, TypeOK
<1>8. ASSUME NEW t \in Task, NEW r \in Row, Deliver(t, r) PROVE TypeOK'
  <2>1. [pc |-> "deliver", row |-> r, last |-> r, at |-> 0] \in TaskState
    BY DEF Row, TaskState
  <2> QED BY <1>1, <1>8, <2>1 DEF Deliver, TypeOK
<1>9. CASE Crash
  <2>1. Idle \in TaskState
    BY DEF Idle, TaskState
  <2>2. performed' \in [Row -> Nat]
    BY <1>1, <1>9 DEF Crash, TypeOK
  <2>3. task' \in [Task -> TaskState] /\ crashes' \in 0..MaxCrashes
    BY <1>1, <1>9, <2>1 DEF Crash, TypeOK
  <2>4. /\ lock' = NoTask /\ up' = FALSE /\ due' = {}
        /\ UNCHANGED <<kind, media, status, uploaded, attempts, uploads, used, lost, left,
                       faults>>
    BY <1>9 DEF Crash
  <2> QED BY <1>1, <2>2, <2>3, <2>4 DEF TypeOK
<1>10. CASE Start
  <2>1. \A r \in Row : Recovered(r) \in Status
    BY <1>1 DEF Recovered, TypeOK, Status, Terminal
  <2> QED BY <1>1, <1>10, <2>1 DEF Start, TypeOK
<1>11. CASE UNCHANGED vars
  BY <1>1, <1>11 DEF vars, TypeOK
<1> QED BY <1>2, <1>3, <1>4, <1>5, <1>6, <1>7, <1>8, <1>9, <1>10, <1>11
        DEF Next, Proceed

-----------------------------------------------------------------------------
(* The lock, the phases and the rows                                       *)

\* The steps of Next, with what they do to the rows; the invariants that
\* follow are shown for each of them.
LEMMA Outcomes ==
  ASSUME Base, NEW t \in Task, SendReturns(t) \/ UploadReturns(t)
  PROVE  /\ Outcome(t) /\ OutcomeTypes
         /\ task[t].at \in Row /\ task[t].at \in 1..used /\ lock = t
         /\ task[t].pc \in {"send", "upload"} /\ Phase(t) /\ up
<1>1. task[t].pc \in {"send", "upload"}
  BY DEF SendReturns, UploadReturns
<1>2. task[t].at \in Row /\ task[t].at \in 1..used /\ lock = t /\ Phase(t) /\ up
  BY <1>1, WorkedRow DEF Working, Base, LockInv, TypeOK
<1>3. UploadReturns(t) => task[t].at \in media
  BY <1>2 DEF UploadReturns, Base, RowInv, Phase
<1> QED BY <1>1, <1>2, <1>3, SendOutcome, UploadOutcome DEF Base

LEMMA Agains ==
  ASSUME Base, NEW t \in Task, Again(t)
  PROVE  /\ Begin(t, task[t].at) /\ Frame /\ task[t].pc = "again"
         /\ task[t].at \in Row /\ task[t].at \in 1..used /\ lock = t
         /\ task[t].at \in 1..task[t].row
         /\ status[task[t].at] \in {"retry_wait", "uploaded"} /\ up
BY WorkedRow DEF Again, Frame, Working, Base, LockInv, TypeOK, Phase

\* A task that has the lock begins with a row.
LEMMA BeginLock ==
  ASSUME Base, NEW t \in Task, NEW s \in Row, Begin(t, s), Frame, s \in 1..task[t].row,
         task[t].pc # "idle", \A u \in Task \ {t} : task[u].pc \notin Working
  PROVE  LockInv'
<1> USE PlatformAssumption
<1>1. /\ lock' = t
      /\ \A u \in Task \ {t} : task'[u] = task[u]
      /\ task'[t].row = task[t].row /\ task'[t].last = task[t].last /\ task'[t].at = s
      /\ \/ task'[t].pc = "upload" /\ status'[s] = "uploading"
         \/ task'[t].pc = "send" /\ status'[s] = "sending"
  <2>1. task'[t] = [pc |-> task'[t].pc, row |-> task[t].row, last |-> task[t].last, at |-> s]
    BY BeginEffect DEF Base
  <2>2. /\ task'[t].row = task[t].row /\ task'[t].last = task[t].last
        /\ task'[t].at = s
    BY <2>1
  <2> QED BY <2>2, BeginEffect DEF Base
<1>2. up /\ up' = up /\ used' = used
  BY DEF Base, LockInv, TypeOK, Frame
<1>3. \A u \in Task : task'[u].pc \in Working => u = t
  BY <1>1
<1>4. /\ \A u \in Task : task'[u].pc \in Working =>
           lock' = u /\ task'[u].at \in 1..task'[u].row /\ Phase(u)'
      /\ \A u \in Task : task'[u].pc = "idle" => lock' # u /\ task'[u] = Idle
  BY <1>1, <1>3 DEF Phase, Base, LockInv, TypeOK
<1>5. \A u \in Task : task'[u].pc # "idle" =>
           task'[u].row \in 1..used' /\ task'[u].last \in task'[u].row..used'
  BY <1>1, <1>2 DEF Base, LockInv
<1> QED BY <1>2, <1>4, <1>5 DEF LockInv

LEMMA LockStep ==
  ASSUME Base, [Next]_vars
  PROVE  LockInv'
<1> USE PlatformAssumption
<1>1. TypeOK /\ LockInv
  BY DEF Base
<1>2. ASSUME NEW t \in Task, Work(t) PROVE LockInv'
  <2>0. /\ task[t].pc = "deliver" /\ lock \in {NoTask, t}
        /\ \A u \in Task : task[u].pc \notin Working
    BY <1>2, NobodyWorks DEF Work
  <2>1. CASE Leaves(t)
    <3>1. /\ lock' = NoTask
          /\ \A u \in Task \ {t} : task'[u] = task[u]
          /\ \/ task[t].row < task[t].last /\
                task'[t] = [pc |-> "deliver", row |-> task[t].row + 1,
                            last |-> task[t].last, at |-> 0]
             \/ task'[t] = Idle
      BY <1>1, <2>1, LeaveEffect DEF Leaves
    <3>2. UNCHANGED <<status, used, up>> /\ up
      BY <1>1, <1>2, <2>0, <2>1, WorkCases DEF Leaves, Frame, LockInv, TypeOK
    <3> QED BY <1>1, <2>0, <3>1, <3>2 DEF LockInv, TypeOK, Idle, Working
  <2>2. ASSUME NEW s \in Row, Begins(t, s) PROVE LockInv'
    BY <1>2, <2>0, <2>2, BeginLock, WorkCases DEF Begins
  <2> QED BY <1>2, <2>1, <2>2, WorkCases
<1>3. ASSUME NEW t \in Task, Again(t) PROVE LockInv'
  <2>1. \A u \in Task \ {t} : task[u].pc \notin Working
    BY <1>1, <1>3, Agains DEF LockInv
  <2> QED BY <1>3, <2>1, Agains, BeginLock
<1>4. ASSUME NEW t \in Task, SendReturns(t) \/ UploadReturns(t) PROVE LockInv'
  <2>1. /\ Outcome(t) /\ OutcomeTypes
        /\ task[t].at \in Row /\ task[t].at \in 1..used /\ lock = t /\ up
        /\ task[t].pc \in {"send", "upload"}
    BY <1>4, Outcomes
  <2>2. \A u \in Task \ {t} : task[u].pc \notin Working /\ task'[u] = task[u]
    BY <1>1, <2>1 DEF LockInv, Outcome
  <2>3. used' = used /\ up' = up /\ task[t] \in TaskState
    BY <1>1, <2>1 DEF Outcome, TypeOK
  <2>4. CASE Accepts(t)
    BY <1>1, <2>1, <2>2, <2>3, <2>4 DEF Accepts, LockInv, TaskState, Working
  <2>5. CASE TriesAgain(t)
    <3>1. /\ task'[t].pc = "again" /\ task'[t].at = task[t].at
          /\ task'[t].row = task[t].row /\ task'[t].last = task[t].last
          /\ status'[task[t].at] \in {"retry_wait", "uploaded"} /\ lock' = t
      BY <2>1, <2>3, <2>5 DEF TriesAgain, TaskState
    <3>2. \A u \in Task : task'[u].pc \in Working => u = t
      BY <2>2
    <3> QED BY <1>1, <2>1, <2>2, <2>3, <3>1, <3>2 DEF LockInv, Phase, Working
  <2>6. CASE GivesUp(t) \/ Loses(t)
    BY <1>1, <2>1, <2>2, <2>3, <2>6 DEF GivesUp, Loses, LockInv, Idle, Working
  <2> QED BY <2>1, <2>4, <2>5, <2>6 DEF Outcome
<1>5. ASSUME NEW t \in Task, Cancel(t) PROVE LockInv'
  <2>1. /\ task' = [task EXCEPT ![t] = Idle]
        /\ task'[t] = Idle /\ \A u \in Task \ {t} : task'[u] = task[u]
        /\ lock' = IF lock = t THEN NoTask ELSE lock
        /\ used' = used /\ up' = up
    BY <1>1, <1>5 DEF Cancel, TypeOK
  <2>2. \A u \in Task \ {t} : task[u].pc \in Working =>
           status'[task[u].at] = status[task[u].at]
    BY <1>1, <1>5 DEF Cancel, LockInv, Working
  <2> QED BY <1>1, <2>1, <2>2 DEF LockInv, Phase, Idle, Working
<1>6. ASSUME NEW t \in Task, NEW n \in 1..MaxRows, Send(t, n) PROVE LockInv'
  <2>1. /\ task'[t] = [pc |-> "deliver", row |-> used + 1, last |-> used + n, at |-> 0]
        /\ \A u \in Task \ {t} : task'[u] = task[u]
        /\ used' = used + n /\ used \in Nat /\ UNCHANGED <<lock, up>> /\ up
        /\ task[t].pc = "idle" /\ lock # t
    BY <1>1, <1>6 DEF Send, TypeOK, LockInv
  <2>2. \A u \in Task : task[u].pc \in Working =>
           status'[task[u].at] = status[task[u].at]
    BY <1>1, <1>6, WorkedRow DEF Send, TypeOK, LockInv
  <2>3. \A u \in Task : task'[u].pc \in Working => u # t
    BY <2>1 DEF Working
  <2> QED BY <1>1, <2>1, <2>2, <2>3 DEF LockInv, Phase
<1>7. ASSUME NEW t \in Task, NEW r \in Row, Deliver(t, r) PROVE LockInv'
  <2>1. /\ task'[t] = [pc |-> "deliver", row |-> r, last |-> r, at |-> 0]
        /\ \A u \in Task \ {t} : task'[u] = task[u]
        /\ UNCHANGED <<used, lock, up, status>> /\ up /\ r \in 1..used
        /\ task[t].pc = "idle" /\ lock # t
    BY <1>1, <1>7 DEF Deliver, TypeOK, LockInv
  <2> QED BY <1>1, <2>1 DEF LockInv, Phase, Working
<1>8. CASE Crash
  BY <1>1, <1>8 DEF Crash, LockInv, Idle, Working, TypeOK
<1>9. CASE Start
  BY <1>1, <1>9 DEF Start, LockInv, Working, TypeOK
<1>10. CASE UNCHANGED vars
  BY <1>1, <1>10 DEF vars, LockInv, Phase
<1> QED BY <1>2, <1>3, <1>4, <1>5, <1>6, <1>7, <1>8, <1>9, <1>10 DEF Next, Proceed

\* A row that is begun has its task, and only a row with a file is uploaded.
LEMMA BeginRow ==
  ASSUME Base, NEW t \in Task, NEW s \in Row, Begin(t, s), Frame,
         status[s] # "none", \A u \in Task \ {t} : task[u].pc \notin Working,
         task[t].pc \in Working => task[t].at = s
  PROVE  RowInv'
<1>1. /\ task'[t].at = s /\ task'[t].pc \in {"upload", "send"}
      /\ \A r \in Row \ {s} : status'[r] = status[r]
      /\ \/ status'[s] = "uploading" /\ s \in media
         \/ status'[s] = "sending"
  <2>1. task'[t] = [pc |-> task'[t].pc, row |-> task[t].row, last |-> task[t].last, at |-> s]
    BY BeginEffect DEF Base
  <2>2. task'[t].at = s
    BY <2>1
  <2> QED BY <2>2, BeginEffect DEF Base
<1>2. UNCHANGED <<kind, media, used, up, lost>>
  BY DEF Frame
<1>3. up' => \A r \in Row \ lost' : status'[r] \in {"sending", "uploading"} => r = s
  BY <1>1, <1>2 DEF Base, RowInv, Working
<1>4. s \in Row /\ ~(s > used)
  BY DEF Base, RowInv
<1> QED BY <1>1, <1>2, <1>3, <1>4 DEF Base, RowInv

LEMMA RowStep ==
  ASSUME Base, [Next]_vars
  PROVE  RowInv'
<1> USE PlatformAssumption
<1>1. TypeOK /\ LockInv /\ RowInv
  BY DEF Base
<1>2. ASSUME NEW t \in Task, Work(t) PROVE RowInv'
  <2>0. /\ task[t].pc = "deliver" /\ lock \in {NoTask, t}
        /\ \A u \in Task : task[u].pc \notin Working
        /\ \A r \in Row \ lost : status[r] \notin {"sending", "uploading"}
    BY <1>2, NobodyWorks DEF Work
  <2>1. CASE Leaves(t)
    BY <1>1, <1>2, <2>0, <2>1, WorkCases DEF Leaves, Frame, RowInv
  <2>2. ASSUME NEW s \in Row, Begins(t, s) PROVE RowInv'
    BY <1>2, <2>0, <2>2, BeginRow, WorkCases DEF Begins
  <2> QED BY <1>2, <2>1, <2>2, WorkCases
<1>3. ASSUME NEW t \in Task, Again(t) PROVE RowInv'
  <2>1. \A u \in Task \ {t} : task[u].pc \notin Working
    BY <1>1, <1>3, Agains DEF LockInv
  <2> QED BY <1>3, <2>1, Agains, BeginRow
<1>4. ASSUME NEW t \in Task, SendReturns(t) \/ UploadReturns(t) PROVE RowInv'
  <2> DEFINE a == task[t].at
  <2>1. /\ Outcome(t) /\ OutcomeTypes
        /\ a \in Row /\ a \in 1..used /\ lock = t /\ up
        /\ task[t].pc \in {"send", "upload"} /\ Phase(t)
    BY <1>4, Outcomes
  <2>2. /\ UNCHANGED <<kind, media, used, up>>
        /\ \A s \in Row \ {a} : status'[s] = status[s]
        /\ \A u \in Task \ {t} : task'[u] = task[u]
        /\ lost \subseteq lost'
        /\ status'[a] # "none" /\ status[a] # "none"
        /\ status'[a] \in {"uploading", "sending"} => a \in lost'
    BY <1>1, <2>1 DEF Outcome, Accepts, TriesAgain, GivesUp, Loses, Phase
  <2>3. /\ status'[a] \in {"uploading", "uploaded"} => a \in media
        /\ status'[a] = "retry_wait" => kind # "wecom"
    <3>1. CASE task[t].pc = "send"
      BY <1>1, <2>1, <3>1 DEF Outcome, Accepts, TriesAgain, GivesUp, Loses, Phase
    <3>2. CASE task[t].pc = "upload"
      BY <1>1, <2>1, <3>2 DEF RowInv, Phase
    <3> QED BY <2>1, <3>1, <3>2
  <2>4. up' => \A r \in Row \ lost' : status'[r] \in {"sending", "uploading"} =>
               \E u \in Task : task'[u].at = r /\ task'[u].pc \in {"send", "upload"}
    <3> SUFFICES ASSUME NEW r \in Row \ lost', status'[r] \in {"sending", "uploading"}
                 PROVE  \E u \in Task : task'[u].at = r /\ task'[u].pc \in {"send", "upload"}
      OBVIOUS
    <3>1. r # a /\ r \in Row \ lost /\ status'[r] = status[r]
      BY <2>2
    <3>2. PICK u \in Task : task[u].at = r /\ task[u].pc \in {"send", "upload"}
      BY <1>1, <2>1, <3>1 DEF RowInv
    <3> QED BY <2>2, <3>1, <3>2
  <2> QED BY <1>1, <2>1, <2>2, <2>3, <2>4 DEF RowInv
<1>5. ASSUME NEW t \in Task, Cancel(t) PROVE RowInv'
  <2> DEFINE a == task[t].at
  <2>1. /\ UNCHANGED <<kind, media, used, up, lost>>
        /\ task[t].pc # "idle" /\ up
        /\ \A u \in Task \ {t} : task'[u] = task[u]
    BY <1>1, <1>5 DEF Cancel, TypeOK, LockInv
  <2>2. CASE task[t].pc \in {"send", "upload"}
    <3>1. a \in Row /\ a \in 1..used /\ Phase(t)
      BY <1>1, <2>2, WorkedRow DEF Working, LockInv
    <3>2. /\ \A s \in Row \ {a} : status'[s] = status[s]
          /\ status'[a] \in {"ambiguous", "queued"} /\ status[a] # "none"
      BY <1>1, <1>5, <2>2, <3>1 DEF Cancel, TypeOK, Phase
    <3>3. \A r \in Row \ lost' : status'[r] \in {"sending", "uploading"} =>
             \E u \in Task : task'[u].at = r /\ task'[u].pc \in {"send", "upload"}
      <4> SUFFICES ASSUME NEW r \in Row \ lost, status'[r] \in {"sending", "uploading"}
                   PROVE  \E u \in Task : task'[u].at = r /\ task'[u].pc \in {"send", "upload"}
        BY <2>1
      <4>1. r # a /\ status'[r] = status[r]
        BY <3>2
      <4>2. PICK u \in Task : task[u].at = r /\ task[u].pc \in {"send", "upload"}
        BY <1>1, <2>1, <4>1 DEF RowInv
      <4> QED BY <2>1, <4>1, <4>2
    <3> QED BY <1>1, <2>1, <3>1, <3>2, <3>3 DEF RowInv
  <2>3. CASE task[t].pc \notin {"send", "upload"}
    <3>1. status' = status
      BY <1>5, <2>3 DEF Cancel
    <3> QED BY <1>1, <2>1, <2>3, <3>1 DEF RowInv
  <2> QED BY <2>2, <2>3
<1>6. ASSUME NEW t \in Task, NEW n \in 1..MaxRows, Send(t, n) PROVE RowInv'
  <2>1. /\ UNCHANGED <<kind, media, up, lost>>
        /\ \A u \in Task \ {t} : task'[u] = task[u]
        /\ task[t].pc = "idle"
        /\ used' = used + n /\ used \in Nat
        /\ \A r \in Row : status'[r] = IF r \in used + 1..used + n THEN "queued" ELSE status[r]
    BY <1>1, <1>6 DEF Send, TypeOK
  <2>2. \A r \in Row : status'[r] = "none" <=> r > used'
    BY <1>1, <2>1 DEF RowInv, Row
  <2> QED BY <1>1, <2>1, <2>2 DEF RowInv
<1>7. ASSUME NEW t \in Task, NEW r \in Row, Deliver(t, r) PROVE RowInv'
  <2>1. /\ UNCHANGED <<kind, media, status, used, up, lost>>
        /\ \A u \in Task \ {t} : task'[u] = task[u]
        /\ task[t].pc = "idle"
    BY <1>1, <1>7 DEF Deliver, TypeOK
  <2> QED BY <1>1, <2>1 DEF RowInv
<1>8. CASE Crash
  BY <1>1, <1>8 DEF Crash, RowInv
<1>9. CASE Start
  <2>1. \A r \in Row : status'[r] = Recovered(r)
    BY <1>9 DEF Start
  <2>2. \A r \in Row : /\ Recovered(r) \notin {"sending", "uploading"}
                       /\ Recovered(r) = "none" <=> status[r] = "none"
                       /\ Recovered(r) \in {"uploaded", "retry_wait"} => status[r] = Recovered(r)
    BY DEF Recovered
  <2> QED BY <1>1, <1>9, <2>1, <2>2 DEF Start, RowInv
<1>10. CASE UNCHANGED vars
  BY <1>1, <1>10 DEF vars, RowInv
<1> QED BY <1>2, <1>3, <1>4, <1>5, <1>6, <1>7, <1>8, <1>9, <1>10 DEF Next, Proceed

LEMMA BaseInit == Init => Base
<1> USE PlatformAssumption
<1> SUFFICES ASSUME Init PROVE Base
  OBVIOUS
<1>1. Idle \in TaskState
  BY DEF Idle, TaskState
<1>2. TypeOK
  BY <1>1 DEF Init, TypeOK, Status, Row
<1>3. LockInv
  BY DEF Init, LockInv, Idle, Working
<1>4. RowInv
  BY DEF Init, RowInv, Row
<1> QED BY <1>2, <1>3, <1>4 DEF Base

LEMMA BaseStep == Base /\ [Next]_vars => Base'
BY TypeStep, LockStep, RowStep DEF Base

\* Type correctness of the queue, its rows and its tasks, whatever the
\* platform and the number of messages.
THEOREM TypeCorrect == Spec => []TypeOK
<1>1. Base => TypeOK
  BY DEF Base
<1> QED BY <1>1, BaseInit, BaseStep, PTL DEF Spec

-----------------------------------------------------------------------------
(* No page is received twice                                               *)

\* A row that is begun was not sent before.
LEMMA BeginSent ==
  ASSUME Base, SentInv, NEW t \in Task, NEW s \in Row, Begin(t, s), Frame,
         ~(kind = "wecom" /\ s \in lost) => status[s] \in Unsent,
         \A u \in Task \ {t} : task[u].pc \notin Working
  PROVE  SentInv'
<1>1. /\ \A u \in Task \ {t} : task'[u] = task[u]
      /\ task'[t].at = s
      /\ \A r \in Row \ {s} : status'[r] = status[r]
      /\ status'[s] \in {"uploading", "sending"}
  <2>1. task'[t] = [pc |-> task'[t].pc, row |-> task[t].row, last |-> task[t].last, at |-> s]
    BY BeginEffect DEF Base
  <2>2. task'[t].at = s
    BY <2>1
  <2> QED BY <2>2, BeginEffect DEF Base
<1>2. UNCHANGED <<kind, lost, performed>>
  BY DEF Frame
<1>3. \A u \in Task : task'[u].pc = "send" => task'[u].at = s
  BY <1>1 DEF Working
<1> QED BY <1>1, <1>2, <1>3 DEF SentInv

LEMMA SentStep ==
  ASSUME Base, SentInv, [Next]_vars
  PROVE  SentInv'
<1> USE PlatformAssumption
<1>1. TypeOK /\ LockInv /\ RowInv
  BY DEF Base
<1>2. ASSUME NEW t \in Task, Work(t) PROVE SentInv'
  <2>0. /\ task[t].row \in Row
        /\ \A u \in Task : task[u].pc \notin Working
        /\ \A r \in Row \ lost : status[r] \notin {"sending", "uploading"}
    BY <1>2, NobodyWorks DEF Work
  <2>1. CASE Leaves(t)
    <3>1. /\ \A u \in Task \ {t} : task'[u] = task[u]
          /\ \/ task'[t] = [pc |-> "deliver", row |-> task[t].row + 1,
                            last |-> task[t].last, at |-> 0]
             \/ task'[t] = Idle
      BY <1>1, <2>1, LeaveEffect DEF Leaves
    <3>2. task'[t].pc # "send"
      BY <3>1 DEF Idle
    <3> QED BY <3>2, <1>2, <2>1, <3>1, WorkCases DEF Leaves, Frame, SentInv
  <2>2. ASSUME NEW s \in Row, Begins(t, s) PROVE SentInv'
    <3>1. status[s] \in Status /\ kind \in {"telegram", "qqbot", "wecom"}
      BY <1>1 DEF TypeOK
    <3>2. kind # "wecom" => status[s] \in {"queued", "retry_wait", "uploaded"}
      BY <2>2, <3>1 DEF Begins, First, NextRows, Ordered, Pending
    <3>3. kind = "wecom" /\ s \notin lost => status[s] \in Unsent
      BY <2>0, <2>2, <3>1 DEF Begins, Status, Terminal, Unsent
    <3>4. ~(kind = "wecom" /\ s \in lost) => status[s] \in Unsent
      BY <3>2, <3>3 DEF Unsent
    <3> QED BY <1>2, <2>0, <2>2, <3>4, BeginSent, WorkCases DEF Begins
  <2> QED BY <1>2, <2>1, <2>2, WorkCases
<1>3. ASSUME NEW t \in Task, Again(t) PROVE SentInv'
  <2>1. \A u \in Task \ {t} : task[u].pc \notin Working
    BY <1>1, <1>3, Agains DEF LockInv
  <2> QED BY <1>3, <2>1, Agains, BeginSent DEF Unsent
<1>4. ASSUME NEW t \in Task, SendReturns(t) \/ UploadReturns(t) PROVE SentInv'
  <2> DEFINE a == task[t].at
  <2>1. /\ Outcome(t) /\ OutcomeTypes
        /\ a \in Row /\ lock = t
        /\ task[t].pc \in {"send", "upload"} /\ Phase(t)
    BY <1>4, Outcomes
  <2>2. /\ kind' = kind /\ lost \subseteq lost'
        /\ \A s \in Row \ {a} : status'[s] = status[s] /\ performed'[s] = performed[s]
    BY <2>1 DEF Outcome, Accepts, TriesAgain, GivesUp, Loses
  <2>3. \A u \in Task : task'[u].pc # "send"
    <3>1. \A u \in Task \ {t} : task'[u] = task[u] /\ task[u].pc # "send"
      BY <1>1, <2>1 DEF Outcome, LockInv, Working
    <3>2. task[t] \in TaskState
      BY <1>1 DEF TypeOK
    <3>3. task'[t].pc # "send"
      BY <2>1, <3>2 DEF Outcome, Accepts, TriesAgain, GivesUp, Loses, Idle, TaskState
    <3> QED BY <3>1, <3>3
  <2>4. ~(kind = "wecom" /\ a \in lost') =>
          performed'[a] \in {0, 1} /\ (status'[a] \in Unsent => performed'[a] = 0)
    <3> SUFFICES ASSUME ~(kind = "wecom" /\ a \in lost')
                 PROVE  /\ performed'[a] \in {0, 1}
                        /\ status'[a] \in Unsent => performed'[a] = 0
      OBVIOUS
    <3>1. performed[a] = 0
      BY <2>1, <2>2 DEF SentInv, Phase, Unsent
    <3>2. CASE task[t].pc = "send"
      BY <2>1, <3>1, <3>2 DEF Outcome, Accepts, TriesAgain, GivesUp, Loses, Phase, Unsent
    <3>3. CASE task[t].pc = "upload"
      BY <2>1, <3>1, <3>3 DEF Outcome, Accepts, TriesAgain, GivesUp, Loses, Phase, Unsent
    <3> QED BY <2>1, <3>2, <3>3
  <2> QED BY <2>1, <2>2, <2>3, <2>4 DEF SentInv
<1>5. ASSUME NEW t \in Task, Cancel(t) PROVE SentInv'
  <2> DEFINE a == task[t].at
  <2>1. /\ UNCHANGED <<kind, lost>>
        /\ \A u \in Task \ {t} : task'[u] = task[u]
        /\ task'[t].pc = "idle"
    BY <1>1, <1>5 DEF Cancel, TypeOK, Idle
  <2>2. CASE task[t].pc \in {"send", "upload"}
    <3>1. a \in Row /\ Phase(t)
      BY <1>1, <2>2, WorkedRow DEF Working, LockInv
    <3>2. /\ \A s \in Row \ {a} : status'[s] = status[s] /\ performed'[s] = performed[s]
          /\ \/ status'[a] = "ambiguous" /\ performed'[a] \in {performed[a], performed[a] + 1}
                /\ task[t].pc = "send"
             \/ status'[a] = "queued" /\ performed'[a] = performed[a]
                /\ task[t].pc = "upload"
      BY <1>1, <1>5, <2>2, <3>1 DEF Cancel, TypeOK, Received
    <3>3. ~(kind = "wecom" /\ a \in lost) => performed[a] = 0
      BY <2>2, <3>1 DEF SentInv, Phase, Unsent
    <3>4. \A u \in Task : task'[u].pc # "send"
      BY <1>1, <2>1, <2>2 DEF LockInv, Working
    <3>5. ~(kind = "wecom" /\ a \in lost) =>
            /\ performed'[a] \in {0, 1}
            /\ status'[a] \in Unsent => performed'[a] = 0
      BY <3>2, <3>3 DEF Unsent
    <3> QED BY <2>1, <3>2, <3>4, <3>5 DEF SentInv
  <2>3. CASE task[t].pc \notin {"send", "upload"}
    <3>1. status' = status /\ performed' = performed
      BY <1>5, <2>3 DEF Cancel
    <3> QED BY <2>1, <3>1 DEF SentInv
  <2> QED BY <2>2, <2>3
<1>6. ASSUME NEW t \in Task, NEW n \in 1..MaxRows, Send(t, n) PROVE SentInv'
  <2>1. /\ UNCHANGED <<kind, lost, performed>>
        /\ \A u \in Task \ {t} : task'[u] = task[u]
        /\ task'[t].pc = "deliver" /\ used \in Nat
        /\ \A r \in Row : status'[r] = IF r \in used + 1..used + n THEN "queued" ELSE status[r]
    BY <1>1, <1>6 DEF Send, TypeOK
  <2>2. \A r \in used + 1..used + n : r \in Row => status[r] = "none"
    BY <1>1, <2>1 DEF RowInv
  <2> QED BY <2>1, <2>2 DEF SentInv, Unsent
<1>7. ASSUME NEW t \in Task, NEW r \in Row, Deliver(t, r) PROVE SentInv'
  <2>1. /\ UNCHANGED <<kind, lost, performed, status>>
        /\ \A u \in Task \ {t} : task'[u] = task[u]
        /\ task'[t].pc = "deliver"
    BY <1>1, <1>7 DEF Deliver, TypeOK
  <2> QED BY <2>1 DEF SentInv
<1>8. CASE Crash
  <2>1. PICK S \in SUBSET {task[t].at : t \in {x \in Task : task[x].pc = "send"}} :
          performed' = [r \in Row |-> IF r \in S THEN performed[r] + 1 ELSE performed[r]]
    BY <1>8 DEF Crash
  <2>2. /\ UNCHANGED <<kind, lost, status>>
        /\ \A u \in Task : task'[u].pc # "send"
    BY <1>8 DEF Crash, Idle
  <2>3. \A r \in S : /\ \E u \in Task : task[u].pc = "send" /\ task[u].at = r
                     /\ status[r] = "sending"
    BY <1>1, <2>1 DEF LockInv, Phase, Working
  <2>4. ASSUME NEW r \in Row, ~(kind = "wecom" /\ r \in lost)
        PROVE  performed'[r] \in {0, 1} /\ (status'[r] \in Unsent => performed'[r] = 0)
    <3>1. CASE r \in S
      BY <2>1, <2>2, <2>3, <2>4, <3>1 DEF SentInv, Unsent
    <3>2. CASE r \notin S
      BY <2>1, <2>2, <2>4, <3>2 DEF SentInv
    <3> QED BY <3>1, <3>2
  <2> QED BY <2>2, <2>4 DEF SentInv
<1>9. CASE Start
  <2>1. /\ UNCHANGED <<kind, lost, performed, task>>
        /\ \A r \in Row : status'[r] = Recovered(r)
    BY <1>9 DEF Start
  <2>2. \A r \in Row : Recovered(r) \in Unsent => status[r] \in Unsent
    BY DEF Recovered, Unsent
  <2> QED BY <2>1, <2>2 DEF SentInv
<1>10. CASE UNCHANGED vars
  BY <1>10 DEF vars, SentInv
<1> QED BY <1>2, <1>3, <1>4, <1>5, <1>6, <1>7, <1>8, <1>9, <1>10 DEF Next, Proceed

\* A chat receives a page at most once, whatever is retried, uploaded,
\* cancelled or recovered, on any of the three platforms; a page whose outcome
\* WeCom's table does not hold is the only exception.
THEOREM NoDuplicates == Spec => []NoDuplicateSend
<1>1. Init => SentInv
  BY DEF Init, SentInv, Unsent, Idle
<1>2. Base /\ SentInv => NoDuplicateSend
  BY DEF Base, TypeOK, SentInv, NoDuplicateSend
<1>3. Base /\ SentInv /\ [Next]_vars => Base' /\ SentInv'
  BY BaseStep, SentStep
<1> QED BY <1>1, <1>2, <1>3, BaseInit, PTL DEF Spec

-----------------------------------------------------------------------------
(* Final statuses                                                          *)

\* A settled row stays as it is, whatever happens; what was lost and what was
\* stored is not forgotten.
LEMMA FinalStep ==
  ASSUME Base, [Next]_vars
  PROVE  /\ \A r \in Row : status[r] \in Terminal => status'[r] = status[r]
         /\ lost \subseteq lost' /\ kind' = kind
<1> USE PlatformAssumption
<1> DEFINE Keeps == /\ \A r \in Row : status[r] \in Terminal => status'[r] = status[r]
                    /\ lost \subseteq lost' /\ kind' = kind
<1>1. TypeOK /\ LockInv /\ RowInv
  BY DEF Base
<1>2. ASSUME NEW t \in Task, Work(t) PROVE Keeps
  <2>1. CASE Leaves(t)
    BY <1>2, <2>1, WorkCases DEF Leaves, Frame
  <2>2. ASSUME NEW s \in Row, Begins(t, s) PROVE Keeps
    <3>1. Begin(t, s) /\ status[s] \notin Terminal /\ Frame
      BY <1>2, <2>2, WorkCases DEF Begins
    <3>2. \A r \in Row \ {s} : status'[r] = status[r]
      BY <1>1, <3>1, BeginEffect
    <3> QED BY <3>1, <3>2 DEF Frame
  <2> QED BY <1>2, <2>1, <2>2, WorkCases
<1>3. ASSUME NEW t \in Task, Again(t) PROVE Keeps
  <2>1. /\ Begin(t, task[t].at) /\ task[t].at \in Row /\ Frame
        /\ status[task[t].at] \notin Terminal
    BY <1>3, Agains DEF Terminal
  <2>2. \A s \in Row : Begin(t, s) => \A r \in Row \ {s} : status'[r] = status[r]
    BY <1>1, BeginEffect
  <2> QED BY <2>1, <2>2 DEF Frame
<1>4. ASSUME NEW t \in Task, SendReturns(t) \/ UploadReturns(t) PROVE Keeps
  <2>1. Outcome(t) /\ Phase(t) /\ task[t].pc \in {"send", "upload"}
    BY <1>4, Outcomes
  <2>2. status[task[t].at] \notin Terminal
    BY <2>1 DEF Phase, Terminal
  <2>3. lost \subseteq lost'
    BY <2>1 DEF Outcome, Accepts, TriesAgain, GivesUp, Loses
  <2> QED BY <2>1, <2>2, <2>3 DEF Outcome
<1>5. ASSUME NEW t \in Task, Cancel(t) PROVE Keeps
  <2>1. task[t].pc \in {"send", "upload"} => status[task[t].at] \notin Terminal
    BY <1>1 DEF LockInv, Phase, Working, Terminal
  <2> QED BY <1>1, <1>5, <2>1 DEF Cancel, TypeOK
<1>6. ASSUME NEW t \in Task, NEW n \in 1..MaxRows, Send(t, n) PROVE Keeps
  <2>1. /\ UNCHANGED <<kind, lost>> /\ used \in Nat
        /\ \A r \in Row : status'[r] = IF r \in used + 1..used + n THEN "queued" ELSE status[r]
    BY <1>1, <1>6 DEF Send, TypeOK
  <2>2. \A r \in used + 1..used + n : r \in Row => status[r] = "none"
    BY <1>1, <2>1 DEF RowInv
  <2> QED BY <2>1, <2>2 DEF Terminal
<1>7. ASSUME NEW t \in Task, NEW r \in Row, Deliver(t, r) PROVE Keeps
  BY <1>7 DEF Deliver
<1>8. CASE Crash
  BY <1>8 DEF Crash
<1>9. CASE Start
  <2>1. \A r \in Row : status[r] \in Terminal => Recovered(r) = status[r]
    BY DEF Recovered, Terminal
  <2> QED BY <1>9, <2>1 DEF Start
<1>10. CASE UNCHANGED vars
  BY <1>10 DEF vars
<1> QED BY <1>2, <1>3, <1>4, <1>5, <1>6, <1>7, <1>8, <1>9, <1>10 DEF Next, Proceed

\* An outcome that was stored is never replaced by another: not by a second
\* deliver(), a late answer, a cancellation or the recovery on start-up.
THEOREM OutcomesAreFinal ==
  Spec => [][\A r \in Row : status[r] \in Terminal => status'[r] = status[r]]_vars
<1>1. Base /\ [Next]_vars =>
        [\A r \in Row : status[r] \in Terminal => status'[r] = status[r]]_vars
  BY FinalStep
<1> QED BY <1>1, BaseInit, BaseStep, PTL DEF Spec

-----------------------------------------------------------------------------
(* No page overtakes another                                               *)

\* A set of numbers up to a bound that is not empty has a least member.
LEMMA LeastMember ==
  ASSUME NEW n \in Nat, NEW S, S \subseteq 1..n, S # {}
  PROVE  First(S) # {}
<1> DEFINE B == {1..k : k \in S}
<1>1. B \subseteq FiniteSubsetsOf(1..n) /\ B # {}
  <2>1. \A k \in S : IsFiniteSet(1..k)
    BY FS_Interval
  <2>2. \A k \in S : 1..k \subseteq 1..n
    OBVIOUS
  <2> QED BY <2>1, <2>2 DEF FiniteSubsetsOf
<1>2. \E b \in B : \A c \in B : ~ (<<c, b>> \in StrictSubsetOrdering(1..n))
  <2> HIDE DEF B
  <2> QED BY <1>1, FS_StrictSubsetOrderingWellFounded, WFMin
<1>3. PICK x \in S : \A y \in S : ~ (<<1..y, 1..x>> \in StrictSubsetOrdering(1..n))
  BY <1>2
<1>4. ASSUME NEW y \in S, ~(x <= y) PROVE FALSE
  <2>1. 1..y \subseteq 1..x /\ x \in 1..x /\ x \notin 1..y
    BY <1>4
  <2>2. 1..x \subseteq 1..n
    OBVIOUS
  <2> QED BY <2>1, <2>2, <1>3 DEF StrictSubsetOrdering
<1> QED BY <1>4 DEF First

\* What was passed stays so.
LEMMA PassedStays ==
  ASSUME Base, [Next]_vars, NEW s \in Row, Passed(s)
  PROVE  Passed(s)'
BY FinalStep DEF Passed, Terminal

\* The first pending row of an order that is not blocked has nothing open
\* before it but rows whose outcome was lost, and what is behind them.
LEMMA BegunInOrder ==
  ASSUME Base, NEW t \in Task, task[t].pc = "deliver", lock \in {NoTask, t}, Ordered,
         NEW r \in Row, Begins(t, r), NEW s \in 1..r - 1
  PROVE  Passed(s)
<1> USE PlatformAssumption
<1> DEFINE n == task[t].row
           open == {u \in 1..n - 1 : status[u] # "accepted"}
<1>1. n \in Row /\ n \in 1..used /\ r \in 1..n /\ s \in 1..n - 1 /\ n \in Nat /\ used \in Nat
      /\ used <= MaxRows
  <2>1. n \in Row /\ n \in 1..used /\ used \in 0..MaxRows /\ r \in 1..n
    BY NobodyWorks DEF Begins, Base, TypeOK
  <2> QED BY <2>1 DEF Row
<1>2. SUFFICES ASSUME status[s] # "accepted", \A u \in 1..s : u \notin lost
               PROVE  FALSE
  BY DEF Passed
<1>3. open \subseteq 1..n /\ s \in open
  BY <1>1, <1>2
<1>4. PICK u \in First(open) : TRUE
  BY <1>1, <1>3, LeastMember
<1>5. u \in open /\ u <= s /\ u \in 1..s /\ u \in 1..r - 1
  BY <1>1, <1>3, <1>4 DEF First
<1>6. u \in Row /\ u \notin lost /\ status[u] \notin {"none", "accepted"}
  BY <1>1, <1>2, <1>5 DEF Base, RowInv, Row
<1>7. status[u] \notin Terminal
  <2>1. ~Blocked(n) /\ u \in First(open)
    BY <1>4 DEF Begins
  <2> QED BY <2>1 DEF Blocked
<1>8. status[u] \notin {"sending", "uploading"}
  BY <1>6, NobodyWorks
<1>9. status[u] \notin Pending
  BY <1>1, <1>5 DEF Begins, First, NextRows
<1>10. status[u] \in {"queued", "retry_wait", "uploaded"}
  BY <1>6, <1>7, <1>8 DEF Base, TypeOK, Status, Terminal
<1>11. status[u] = "uploaded" => kind = "qqbot"
  BY <1>6 DEF Base, RowInv
<1>12. kind \in {"telegram", "qqbot"}
  BY DEF Base, TypeOK, Ordered
<1> QED BY <1>9, <1>10, <1>11, <1>12 DEF Pending

\* A row is newly worked on, or received, only when Work has begun it.
LEMMA NewlyReached ==
  ASSUME Base, [Next]_vars, NEW r \in Row, Reached(r)', ~Reached(r)
  PROVE  \E t \in Task : Work(t) /\ Begins(t, r)
<1> USE PlatformAssumption
<1>1. TypeOK /\ LockInv /\ RowInv
  BY DEF Base
<1>2. ASSUME NEW t \in Task, Work(t)
      PROVE  \E u \in Task : Work(u) /\ Begins(u, r)
  <2>0. \A u \in Task : task[u].pc \notin Working
    BY <1>2, NobodyWorks DEF Work
  <2>1. CASE Leaves(t)
    <3>1. /\ \A u \in Task \ {t} : task'[u] = task[u]
          /\ \/ task'[t] = [pc |-> "deliver", row |-> task[t].row + 1,
                            last |-> task[t].last, at |-> 0]
             \/ task'[t] = Idle
      BY <1>1, <2>1, LeaveEffect DEF Leaves
    <3>2. task'[t].pc \notin Working /\ performed' = performed
      BY <1>2, <3>1, WorkCases DEF Idle, Working, Frame
    <3> QED BY <2>0, <3>1, <3>2 DEF Reached
  <2>2. ASSUME NEW s \in Row, Begins(t, s)
        PROVE  \E u \in Task : Work(u) /\ Begins(u, r)
    <3>1. Begin(t, s) /\ performed' = performed
      BY <1>2, <2>2, WorkCases DEF Begins, Frame
    <3>2. /\ \A u \in Task \ {t} : task'[u] = task[u]
          /\ task'[t] = [pc |-> task'[t].pc, row |-> task[t].row,
                         last |-> task[t].last, at |-> s]
      BY <1>1, <3>1, BeginEffect
    <3>3. task'[t].at = s
      BY <3>2
    <3>4. r = s
      BY <2>0, <3>1, <3>2, <3>3 DEF Reached
    <3> QED BY <1>2, <2>2, <3>4
  <2> QED BY <1>2, <2>1, <2>2, WorkCases
<1>3. ASSUME NEW t \in Task, Again(t) PROVE FALSE
  <2>1. /\ Begin(t, task[t].at) /\ task[t].at \in Row /\ performed' = performed
        /\ task[t].pc = "again"
    BY <1>3, Agains DEF Frame
  <2>2. \A s \in Row : Begin(t, s) =>
          /\ \A u \in Task \ {t} : task'[u] = task[u]
          /\ task'[t] = [pc |-> task'[t].pc, row |-> task[t].row,
                         last |-> task[t].last, at |-> s]
    BY <1>1, BeginEffect
  <2>3. \A u \in Task \ {t} : task'[u] = task[u]
    BY <2>1, <2>2
  <2>4. task'[t] = [pc |-> task'[t].pc, row |-> task[t].row,
                    last |-> task[t].last, at |-> task[t].at]
    BY <2>1, <2>2
  <2>5. task'[t].at = task[t].at
    BY <2>4
  <2> QED BY <2>1, <2>3, <2>5 DEF Reached, Working
<1>4. ASSUME NEW t \in Task, SendReturns(t) \/ UploadReturns(t) PROVE FALSE
  <2>1. Outcome(t) /\ task[t].pc \in {"send", "upload"} /\ task[t].at \in Row
    BY <1>4, Outcomes
  <2>2. r # task[t].at
    BY <2>1 DEF Reached, Working
  <2>3. task[t] \in TaskState
    BY <1>1 DEF TypeOK
  <2>4. task'[t].pc \in Working => task'[t].at = task[t].at
    BY <2>1, <2>3 DEF Outcome, Accepts, TriesAgain, GivesUp, Loses, Idle, Working, TaskState
  <2> QED BY <2>1, <2>2, <2>4 DEF Outcome, Reached
<1>5. ASSUME NEW t \in Task, Cancel(t) PROVE FALSE
  <2>1. /\ \A u \in Task \ {t} : task'[u] = task[u]
        /\ task'[t].pc \notin Working
    BY <1>1, <1>5 DEF Cancel, TypeOK, Idle, Working
  <2>2. CASE performed' = performed
    BY <2>1, <2>2 DEF Reached
  <2>3. CASE task[t].pc = "send" /\ Received(t)
    <3>1. r # task[t].at
      BY <2>3 DEF Reached, Working
    <3>2. performed'[r] = performed[r]
      BY <1>1, <2>3, <3>1 DEF Received, TypeOK
    <3> QED BY <2>1, <3>2 DEF Reached
  <2> QED BY <1>5, <2>2, <2>3 DEF Cancel
<1>6. ASSUME NEW t \in Task, NEW n \in 1..MaxRows, Send(t, n) PROVE FALSE
  <2>1. /\ \A u \in Task \ {t} : task'[u] = task[u]
        /\ task'[t].pc = "deliver" /\ performed' = performed
    BY <1>1, <1>6 DEF Send, TypeOK
  <2> QED BY <2>1 DEF Reached, Working
<1>7. ASSUME NEW t \in Task, NEW s \in Row, Deliver(t, s) PROVE FALSE
  <2>1. /\ \A u \in Task \ {t} : task'[u] = task[u]
        /\ task'[t].pc = "deliver" /\ performed' = performed
    BY <1>1, <1>7 DEF Deliver, TypeOK
  <2> QED BY <2>1 DEF Reached, Working
<1>8. CASE Crash
  <2>1. PICK S \in SUBSET {task[t].at : t \in {x \in Task : task[x].pc = "send"}} :
          performed' = [s \in Row |-> IF s \in S THEN performed[s] + 1 ELSE performed[s]]
    BY <1>8 DEF Crash
  <2>2. \A u \in Task : task'[u].pc \notin Working
    BY <1>8 DEF Crash, Idle, Working
  <2>3. r \notin S
    BY <2>1 DEF Reached, Working
  <2> QED BY <2>1, <2>2, <2>3 DEF Reached
<1>9. CASE Start
  BY <1>9 DEF Start, Reached
<1>10. CASE UNCHANGED vars
  BY <1>10 DEF vars, Reached
<1> QED BY <1>2, <1>3, <1>4, <1>5, <1>6, <1>7, <1>8, <1>9, <1>10 DEF Next, Proceed

\* A row that becomes accepted was received.
LEMMA AcceptedStep ==
  ASSUME Base, [Next]_vars, NEW r \in Row, status'[r] = "accepted"
  PROVE  /\ status[r] = "accepted" \/ performed'[r] > 0
         /\ performed[r] > 0 => performed'[r] > 0
<1> USE PlatformAssumption
<1> DEFINE Goal == /\ status[r] = "accepted" \/ performed'[r] > 0
                   /\ performed[r] > 0 => performed'[r] > 0
<1>1. TypeOK /\ performed[r] \in Nat
  BY DEF Base, TypeOK
<1>2. ASSUME NEW t \in Task, Work(t) PROVE Goal
  <2>1. CASE Leaves(t)
    BY <1>2, <2>1, WorkCases DEF Leaves, Frame
  <2>2. ASSUME NEW s \in Row, Begins(t, s) PROVE Goal
    <3>1. Begin(t, s) /\ Frame
      BY <1>2, <2>2, WorkCases DEF Begins
    <3>2. /\ \A u \in Row \ {s} : status'[u] = status[u]
          /\ status'[s] \in {"uploading", "sending"}
      BY <1>1, <3>1, BeginEffect
    <3> QED BY <3>1, <3>2 DEF Frame
  <2> QED BY <1>2, <2>1, <2>2, WorkCases
<1>3. ASSUME NEW t \in Task, Again(t) PROVE Goal
  <2>1. Begin(t, task[t].at) /\ task[t].at \in Row /\ Frame
    BY <1>3, Agains
  <2>2. \A s \in Row : Begin(t, s) =>
           /\ \A u \in Row \ {s} : status'[u] = status[u]
           /\ status'[s] \in {"uploading", "sending"}
    BY <1>1, BeginEffect
  <2> QED BY <2>1, <2>2 DEF Frame
<1>4. ASSUME NEW t \in Task, SendReturns(t) \/ UploadReturns(t) PROVE Goal
  <2>1. Outcome(t) /\ Phase(t) /\ task[t].pc \in {"send", "upload"}
    BY <1>4, Outcomes
  <2>2. CASE task[t].at = r
    <3>1. Accepts(t)
      BY <2>1, <2>2 DEF Outcome, TriesAgain, GivesUp, Loses, Phase
    <3> QED BY <1>1, <2>2, <3>1 DEF Accepts
  <2>3. CASE task[t].at # r
    BY <2>1, <2>3 DEF Outcome
  <2> QED BY <2>2, <2>3
<1>5. ASSUME NEW t \in Task, Cancel(t) PROVE Goal
  <2>1. task[t].pc \in {"send", "upload"} => task[t].at \in Row
    BY WorkedRow DEF Working
  <2> QED BY <1>1, <1>5, <2>1 DEF Cancel, TypeOK, Received
<1>6. ASSUME NEW t \in Task, NEW n \in 1..MaxRows, Send(t, n) PROVE Goal
  BY <1>6 DEF Send
<1>7. ASSUME NEW t \in Task, NEW s \in Row, Deliver(t, s) PROVE Goal
  BY <1>7 DEF Deliver
<1>8. CASE Crash
  BY <1>1, <1>8 DEF Crash
<1>9. CASE Start
  BY <1>9 DEF Start, Recovered
<1>10. CASE UNCHANGED vars
  BY <1>10 DEF vars
<1> QED BY <1>2, <1>3, <1>4, <1>5, <1>6, <1>7, <1>8, <1>9, <1>10 DEF Next, Proceed

LEMMA OrderStep ==
  ASSUME Base, OrderInv, [Next]_vars
  PROVE  OrderInv'
<1> USE PlatformAssumption
<1>1. \A r \in Row : status'[r] = "accepted" => performed'[r] > 0
  BY AcceptedStep DEF OrderInv
<1>2. ASSUME Ordered', NEW r \in Row, Reached(r)', NEW s \in 1..r - 1
      PROVE  Passed(s)'
  <2>1. s \in Row /\ Ordered
    BY <1>2, FinalStep DEF Row, Ordered
  <2>2. CASE Reached(r)
    BY <1>2, <2>1, <2>2, PassedStays DEF OrderInv
  <2>3. CASE ~Reached(r)
    <3>1. PICK t \in Task : Work(t) /\ Begins(t, r)
      BY <1>2, <2>3, NewlyReached
    <3>2. task[t].pc = "deliver" /\ lock \in {NoTask, t}
      BY <3>1 DEF Work
    <3>3. Passed(s)
      BY <2>1, <3>1, <3>2, BegunInOrder
    <3> QED BY <2>1, <3>3, PassedStays
  <2> QED BY <2>2, <2>3
<1> QED BY <1>1, <1>2 DEF OrderInv

\* Where an order is kept, a chat receives a page only when all before it
\* were received, but for pages at or behind one whose outcome was lost:
\* whatever tasks deliver what rows, and whatever fails in between.
THEOREM InOrder == Spec => []NoHoles
<1> USE PlatformAssumption
<1>1. Init => OrderInv
  BY DEF Init, OrderInv, Reached, Row, Idle, Working
<1>2. Base /\ OrderInv => NoHoles
  <2> SUFFICES ASSUME Base, OrderInv, Ordered, NEW r \in Row, performed[r] > 0,
                      NEW s \in 1..r - 1
               PROVE  performed[s] > 0 \/ \E u \in 1..s : u \in lost
    BY DEF NoHoles
  <2>1. Passed(s) /\ s \in Row
    BY DEF OrderInv, Reached, Row
  <2> QED BY <2>1 DEF OrderInv, Passed
<1>3. Base /\ OrderInv /\ [Next]_vars => Base' /\ OrderInv'
  BY BaseStep, OrderStep
<1> QED BY <1>1, <1>2, <1>3, BaseInit, PTL DEF Spec

-----------------------------------------------------------------------------
(* Nothing is forgotten                                                    *)

\* While the adapter runs, what was given up is remembered.
LEMMA LeftStep ==
  ASSUME Base, [Next]_vars, up
  PROVE  left \subseteq left'
<1>1. ASSUME NEW t \in Task, Work(t) \/ Again(t) PROVE left \subseteq left'
  BY <1>1 DEF Work, Again
<1>2. ASSUME NEW t \in Task, SendReturns(t) \/ UploadReturns(t) PROVE left \subseteq left'
  BY <1>2, Outcomes DEF Outcome
<1>3. ASSUME NEW t \in Task, Cancel(t) PROVE left \subseteq left'
  BY <1>3 DEF Cancel
<1>4. ASSUME NEW t \in Task, NEW n \in 1..MaxRows, Send(t, n) PROVE left \subseteq left'
  BY <1>4 DEF Send
<1>5. ASSUME NEW t \in Task, NEW s \in Row, Deliver(t, s) PROVE left \subseteq left'
  BY <1>5 DEF Deliver
<1>6. CASE Crash \/ Start
  BY <1>6 DEF Crash, Start
<1>7. CASE UNCHANGED vars
  BY <1>7 DEF vars
<1> QED BY <1>1, <1>2, <1>3, <1>4, <1>5, <1>6, <1>7 DEF Next, Proceed

LEMMA SettledStays ==
  ASSUME Base, [Next]_vars, up, NEW r \in Row, Settled(r)
  PROVE  Settled(r)'
<1> USE PlatformAssumption
<1>1. \A s \in 1..r : s \in Row
  BY DEF Row
<1>2. left \subseteq left' /\ lost \subseteq lost'
  BY LeftStep, FinalStep
<1>3. \A s \in Row : status[s] \in Terminal => status'[s] = status[s]
  BY FinalStep
<1>4. 1..r - 1 \subseteq 1..r
  BY DEF Row
<1> QED BY <1>1, <1>2, <1>3, <1>4 DEF Settled

\* A task that leaves its pages leaves them settled.
LEMMA LeftSettled ==
  ASSUME Base, NEW t \in Task, task[t].pc = "deliver", lock \in {NoTask, t}, Leaves(t),
         NEW r \in task[t].row..task[t].last
  PROVE  \/ Settled(r)
         \/ status[task[t].row] = "accepted" /\ r > task[t].row
<1> USE PlatformAssumption
<1> DEFINE n == task[t].row
<1>1. /\ n \in Row /\ n \in 1..used /\ n \in Nat /\ r \in Nat /\ n <= r
      /\ n \in 1..r
  <2>1. n \in Row /\ n \in 1..used /\ task[t].last \in n..used /\ used \in Nat
    BY NobodyWorks DEF Base, LockInv, TypeOK
  <2> QED BY <2>1
<1>2. CASE status[n] \in Terminal
  BY <1>1, <1>2 DEF Settled
<1>3. CASE Blocked(n)
  <2>1. PICK s \in 1..n - 1 : status[s] \in Terminal \ {"accepted"}
    BY <1>3 DEF Blocked, First
  <2>2. s \in 1..r - 1
    BY <1>1
  <2> QED BY <2>1, <2>2 DEF Settled
<1>4. CASE NextRows(n) = {} /\ status[n] \notin Terminal
  <2>1. Ordered /\ status[n] \notin Pending
    BY <1>1, <1>4 DEF NextRows
  <2>2. kind \in {"telegram", "qqbot"} /\ status[n] # "none"
    BY <1>1, <2>1 DEF Base, TypeOK, RowInv, Ordered
  <2>3. status[n] = "uploaded" => kind = "qqbot"
    BY <1>1, <2>2 DEF Base, RowInv
  <2>4. status[n] \in {"sending", "uploading"}
    BY <1>1, <1>4, <2>1, <2>2, <2>3 DEF Base, TypeOK, Status, Terminal, Pending
  <2>5. n \in lost
    BY <1>1, <2>4, NobodyWorks
  <2> QED BY <1>1, <2>5 DEF Settled
<1> QED BY <1>2, <1>3, <1>4 DEF Leaves

\* The rows that one task does not answer for stay covered.
LEMMA OthersCover ==
  ASSUME Base, CoverInv, [Next]_vars, up, NEW t \in Task,
         \A u \in Task \ {t} : task'[u] = task[u], due \subseteq due', NEW r \in 1..used
  PROVE  \/ Covered(r)'
         \/ task[t].pc # "idle" /\ r \in task[t].row..task[t].last
<1>1. r \in Row
  BY PlatformAssumption DEF Base, TypeOK, Row
<1>2. CASE Settled(r)
  BY <1>1, <1>2, SettledStays DEF Covered
<1>3. CASE r \in due
  BY <1>3 DEF Covered
<1>4. ASSUME NEW u \in Task, task[u].pc # "idle", r \in task[u].row..task[u].last, u # t
      PROVE  Covered(r)'
  <2>1. task'[u] = task[u]
    BY <1>4
  <2> QED BY <1>4, <2>1 DEF Covered
<1> QED BY <1>2, <1>3, <1>4 DEF CoverInv, Covered

\* A task that goes on with its pages covers them.
LEMMA StillCovers ==
  ASSUME NEW t \in Task, NEW r, task'[t].pc # "idle", r \in task'[t].row..task'[t].last
  PROVE  Covered(r)'
BY DEF Covered

\* A row at or behind one that an outcome has ended is settled.
LEMMA EndedSettles ==
  ASSUME Base, NEW t \in Task, SendReturns(t) \/ UploadReturns(t),
         GivesUp(t) \/ Loses(t), NEW r \in task[t].row..task[t].last
  PROVE  Settled(r)'
<1> DEFINE a == task[t].at
<1>1. /\ Outcome(t) /\ lock = t /\ task[t].pc \in {"send", "upload"}
      /\ a \in 1..used
  BY Outcomes
<1>2. a \in 1..task[t].row /\ task[t].row \in 1..used /\ used \in Nat
      /\ task[t].last \in Nat
  BY <1>1 DEF Base, LockInv, TypeOK, Working
<1>3. a \in 1..r /\ r \in Nat
  BY <1>2
<1>4. CASE a \in left' \cup lost'
  BY <1>3, <1>4 DEF Settled
<1>5. CASE status'[a] \in {"ambiguous", "dead_letter"}
  <2>1. status'[a] \in Terminal \ {"accepted"}
    BY <1>5 DEF Terminal
  <2>2. a = r \/ a \in 1..r - 1
    BY <1>3
  <2> QED BY <2>1, <2>2 DEF Settled
<1> QED BY <1>4, <1>5 DEF GivesUp, Loses

LEMMA CoverStep ==
  ASSUME Base, CoverInv, [Next]_vars
  PROVE  CoverInv'
<1> USE PlatformAssumption
<1>1. TypeOK /\ LockInv /\ RowInv
  BY DEF Base
<1>2. ASSUME NEW t \in Task, Work(t), NEW r \in 1..used PROVE Covered(r)'
  <2>0. task[t].pc = "deliver" /\ lock \in {NoTask, t} /\ up /\ task[t] \in TaskState
    BY <1>1, <1>2, NobodyWorks DEF Work, TypeOK
  <2>1. CASE Leaves(t)
    <3>1. /\ \A u \in Task \ {t} : task'[u] = task[u]
          /\ task'[t] = IF status[task[t].row] = "accepted" /\ task[t].row < task[t].last
                        THEN [pc |-> "deliver", row |-> task[t].row + 1,
                              last |-> task[t].last, at |-> 0]
                        ELSE Idle
      BY <1>1, <2>1, LeaveEffect DEF Leaves
    <3>2. due' = due
      BY <1>2, WorkCases DEF Frame
    <3>3. Covered(r)' \/ r \in task[t].row..task[t].last
      BY <1>2, <2>0, <3>1, <3>2, OthersCover DEF Next, Proceed
    <3>4. CASE r \in task[t].row..task[t].last
      <4>1. CASE Settled(r)
        <5>1. r \in Row
          BY <1>1, <1>2 DEF TypeOK, Row
        <5> QED BY <1>2, <2>0, <4>1, <5>1, SettledStays DEF Covered, Next, Proceed
      <4>2. CASE status[task[t].row] = "accepted" /\ r > task[t].row
        <5>1. task[t].row < task[t].last /\ r \in task[t].row + 1..task[t].last
          BY <2>0, <3>4, <4>2 DEF TaskState
        <5>2. task'[t] = [pc |-> "deliver", row |-> task[t].row + 1,
                          last |-> task[t].last, at |-> 0]
          BY <3>1, <4>2, <5>1
        <5>3. task'[t].pc # "idle" /\ r \in task'[t].row..task'[t].last
          BY <5>1, <5>2
        <5> QED BY <5>3, StillCovers
      <4> QED BY <2>0, <2>1, <3>4, <4>1, <4>2, LeftSettled
    <3> QED BY <3>3, <3>4
  <2>2. ASSUME NEW s \in Row, Begins(t, s) PROVE Covered(r)'
    <3>1. Begin(t, s) /\ due' = due
      BY <1>2, <2>2, WorkCases DEF Begins, Frame
    <3>2. /\ \A u \in Task \ {t} : task'[u] = task[u]
          /\ task'[t] = [pc |-> task'[t].pc, row |-> task[t].row,
                         last |-> task[t].last, at |-> s]
          /\ task'[t].pc \in {"upload", "send"}
      BY <1>1, <3>1, BeginEffect
    <3>3. /\ task'[t].row = task[t].row /\ task'[t].last = task[t].last
          /\ task'[t].pc # "idle"
      BY <3>2
    <3>4. Covered(r)' \/ r \in task[t].row..task[t].last
      BY <1>2, <2>0, <3>1, <3>2, OthersCover DEF Next, Proceed
    <3> QED BY <3>3, <3>4, StillCovers
  <2> QED BY <1>2, <2>1, <2>2, WorkCases
<1>3. ASSUME NEW t \in Task, Again(t), NEW r \in 1..used PROVE Covered(r)'
  <2>1. /\ Begin(t, task[t].at) /\ task[t].at \in Row /\ due' = due /\ up
    BY <1>3, Agains DEF Frame
  <2>2. \A s \in Row : Begin(t, s) =>
          /\ \A u \in Task \ {t} : task'[u] = task[u]
          /\ task'[t] = [pc |-> task'[t].pc, row |-> task[t].row,
                         last |-> task[t].last, at |-> s]
          /\ task'[t].pc \in {"upload", "send"}
    BY <1>1, BeginEffect
  <2>3. /\ \A u \in Task \ {t} : task'[u] = task[u]
        /\ task'[t] = [pc |-> task'[t].pc, row |-> task[t].row,
                       last |-> task[t].last, at |-> task[t].at]
        /\ task'[t].pc \in {"upload", "send"}
    BY <2>1, <2>2
  <2>4. /\ task'[t].row = task[t].row /\ task'[t].last = task[t].last
        /\ task'[t].pc # "idle"
    BY <2>3
  <2>5. Covered(r)' \/ r \in task[t].row..task[t].last
    BY <1>3, <2>1, <2>3, OthersCover DEF Next, Proceed
  <2> QED BY <2>4, <2>5, StillCovers
<1>4. ASSUME NEW t \in Task, SendReturns(t) \/ UploadReturns(t), NEW r \in 1..used
      PROVE  Covered(r)'
  <2>1. /\ Outcome(t) /\ up /\ due' = due /\ task[t] \in TaskState
        /\ \A u \in Task \ {t} : task'[u] = task[u]
    BY <1>1, <1>4, Outcomes DEF Outcome, TypeOK
  <2>2. Covered(r)' \/ r \in task[t].row..task[t].last
    BY <1>4, <2>1, OthersCover DEF Next, Proceed
  <2>3. CASE r \in task[t].row..task[t].last /\ (Accepts(t) \/ TriesAgain(t))
    <3>1. /\ task'[t].pc # "idle"
          /\ task'[t].row = task[t].row /\ task'[t].last = task[t].last
      BY <2>1, <2>3 DEF Accepts, TriesAgain, TaskState
    <3> QED BY <2>3, <3>1, StillCovers
  <2>4. CASE r \in task[t].row..task[t].last /\ (GivesUp(t) \/ Loses(t))
    BY <1>4, <2>4, EndedSettles DEF Covered
  <2> QED BY <2>1, <2>2, <2>3, <2>4 DEF Outcome
<1>5. ASSUME NEW t \in Task, Cancel(t), NEW r \in 1..used PROVE Covered(r)'
  <2>1. /\ up /\ due' = due /\ \A u \in Task \ {t} : task'[u] = task[u]
        /\ left' = left \cup task[t].row..task[t].last \cup ({task[t].at} \ {0})
    BY <1>1, <1>5 DEF Cancel, TypeOK, LockInv
  <2>2. Covered(r)' \/ r \in task[t].row..task[t].last
    BY <1>5, <2>1, OthersCover DEF Next
  <2>3. r \in 1..r
    BY <1>1 DEF TypeOK
  <2> QED BY <2>1, <2>2, <2>3 DEF Covered, Settled
<1>6. ASSUME NEW t \in Task, NEW n \in 1..MaxRows, Send(t, n), NEW r \in 1..used'
      PROVE  Covered(r)'
  <2>1. /\ up /\ due' = due /\ \A u \in Task \ {t} : task'[u] = task[u]
        /\ task[t].pc = "idle" /\ used' = used + n /\ used \in Nat
        /\ task'[t] = [pc |-> "deliver", row |-> used + 1, last |-> used + n, at |-> 0]
    BY <1>1, <1>6 DEF Send, TypeOK
  <2>2. CASE r \in 1..used
    BY <1>6, <2>1, <2>2, OthersCover DEF Next
  <2>3. CASE r \notin 1..used
    <3>1. task'[t].pc # "idle" /\ r \in task'[t].row..task'[t].last
      BY <1>6, <2>1, <2>3
    <3> QED BY <3>1, StillCovers
  <2> QED BY <2>2, <2>3
<1>7. ASSUME NEW t \in Task, NEW s \in Row, Deliver(t, s), NEW r \in 1..used
      PROVE  Covered(r)'
  <2>1. /\ up /\ due' = due \ {s} /\ \A u \in Task \ {t} : task'[u] = task[u]
        /\ task[t].pc = "idle" /\ UNCHANGED <<status, left, lost>>
        /\ task'[t] = [pc |-> "deliver", row |-> s, last |-> s, at |-> 0]
    BY <1>1, <1>7 DEF Deliver, TypeOK
  <2>2. task'[t].pc # "idle" /\ task'[t].row = s /\ task'[t].last = s
    BY <2>1
  <2>3. CASE r = s
    <3>1. r \in task'[t].row..task'[t].last
      BY <2>2, <2>3 DEF Row
    <3> QED BY <2>2, <3>1, StillCovers
  <2>4. CASE r # s
    <3>1. Covered(r)
      BY <1>7, <2>1 DEF CoverInv
    <3>2. \A u \in Task : task[u].pc # "idle" => task'[u] = task[u]
      BY <2>1
    <3> QED BY <2>1, <2>4, <3>1, <3>2 DEF Covered, Settled
  <2> QED BY <2>3, <2>4
<1>8. CASE Crash
  BY <1>8 DEF Crash, CoverInv
<1>9. CASE Start
  <2>1. /\ used' = used /\ due' = {r \in Row : Recovered(r) \in Pending}
        /\ \A r \in Row : status'[r] = Recovered(r)
    BY <1>9 DEF Start
  <2>2. ASSUME NEW r \in 1..used PROVE status'[r] \in Terminal \/ r \in due'
    <3>1. r \in Row /\ status[r] # "none" /\ status[r] \in Status
      BY <1>1 DEF TypeOK, RowInv, Row
    <3>2. /\ status[r] = "uploading" => kind = "qqbot"
          /\ status[r] = "uploaded" => kind = "qqbot"
          /\ status[r] = "retry_wait" => kind # "wecom"
          /\ kind \in {"telegram", "qqbot", "wecom"}
      BY <1>1, <3>1 DEF TypeOK, RowInv
    <3>3. Recovered(r) \in Terminal \cup Pending
      BY <3>1, <3>2 DEF Recovered, Pending, Status, Terminal
    <3> QED BY <2>1, <3>1, <3>3
  <2> QED BY <2>1, <2>2 DEF CoverInv, Covered, Settled
<1>10. CASE UNCHANGED vars
  BY <1>10 DEF vars, CoverInv, Covered, Settled
<1>11. /\ \A t \in Task : Proceed(t) \/ Cancel(t) => used' = used
       /\ \A t \in Task, r \in Row : Deliver(t, r) => used' = used
  BY DEF Proceed, Work, Again, SendReturns, UploadReturns, Cancel, Deliver
<1>12. CASE \E t \in Task : Proceed(t) \/ Cancel(t)
  BY <1>2, <1>3, <1>4, <1>5, <1>11, <1>12 DEF Proceed, CoverInv
<1> QED BY <1>6, <1>7, <1>8, <1>9, <1>10, <1>11, <1>12 DEF Next, CoverInv

\* When nobody is at work and nothing is left to resume, no page waits: it is
\* settled, or behind one that will not be accepted, or it or one before it
\* was given up or lost; nothing pending is forgotten by a restart.
THEOREM NothingForgotten == Spec => []NothingStranded
<1>1. Init => CoverInv
  BY DEF Init, CoverInv
<1>2. Base /\ CoverInv => NothingStranded
  BY DEF CoverInv, Covered, Settled, NothingStranded
<1>3. Base /\ CoverInv /\ [Next]_vars => Base' /\ CoverInv'
  BY BaseStep, CoverStep
<1> QED BY <1>1, <1>2, <1>3, BaseInit, PTL DEF Spec

=============================================================================
