------------------------- MODULE AgentRuntimeProofs -------------------------
(***************************************************************************)
(* Proofs about AgentRuntime, for any coroutines, agents and principals    *)
(* and any bounds on rounds, calls, delegation, turns and confirmations.   *)
(***************************************************************************)
EXTENDS AgentRuntime, FiniteSetTheorems, TLAPS

Busy(p) == act[p].pc # "free"

\* A coroutine that a delegation waits for is the only one, and is stopped
\* together with it.
TreeInv ==
  \A p \in Proc :
    /\ ~Busy(p) => act[p].parent = NoProc
    /\ act[p].parent # NoProc =>
         /\ act[act[p].parent].pc = "waits"
         /\ act[act[p].parent].root = act[p].root
         /\ \A q \in Proc : act[q].parent = act[p].parent => q = p

\* What a coroutine at work, and a record, say of their turn.  Whoever works
\* for a confirmation has claimed its record, and only records that have been
\* claimed were found executing by a further confirmation.
PlaceOf(p) ==
  Busy(p) =>
    /\ act[p].turn \in 1..turns
    /\ act[p].pc \in {"calls", "ask", "waits"} => act[p].iter < MaxToolIterations
    /\ act[p].pc \in {"hook", "settle"} =>
         /\ act[p].conf \in Confirmation
         /\ conf[act[p].conf].status \notin {"none", "awaiting"}
         /\ conf[act[p].conf].turn = act[p].turn
PlaceInv ==
  /\ \A p \in Proc : PlaceOf(p)
  /\ \A c \in Confirmation : conf[c].status # "none" =>
       conf[c].turn \in 1..turns /\ conf[c].iter < MaxToolIterations
  /\ \A c \in Confirmation : again[c] > 0 => conf[c].status \notin {"none", "awaiting"}

\* A turn whose confirmations have not come again has one holder: the
\* coroutine that works on it, or the record that waits to be confirmed.
HolderInv ==
  /\ \A p, q \in Proc : Busy(p) /\ Busy(q) /\ act[p].turn = act[q].turn =>
       p = q \/ Repeated(act[p].turn)
  /\ \A c \in Confirmation : conf[c].status = "awaiting" /\ ~Repeated(conf[c].turn) =>
       /\ \A p \in Proc : Busy(p) => act[p].turn # conf[c].turn
       /\ \A d \in Confirmation :
            conf[d].status = "awaiting" /\ conf[d].turn = conf[c].turn => d = c

Base == TypeOK /\ TreeInv /\ PlaceInv /\ HolderInv

\* The coroutines whose hook has not agreed yet, and how often the record they
\* work for has been claimed.
Hooks(c) == {p \in Proc : act[p].pc = "hook" /\ act[p].conf = c}
Claimings(c) == IF conf[c].status \in {"none", "awaiting"} THEN 0 ELSE 1 + again[c]

\* Every claim carries the call out once at most, and the only one that has
\* claimed a record finds it executing.
PerformInv ==
  /\ \A c \in Confirmation :
       IsFiniteSet(Hooks(c)) /\ performed[c] + Cardinality(Hooks(c)) <= Claimings(c)
  /\ \A p \in Proc : act[p].pc \in {"hook", "settle"} /\ again[act[p].conf] = 0 =>
       /\ conf[act[p].conf].status = "executing"
       /\ \A q \in Proc : act[q].pc \in {"hook", "settle"} /\ act[q].conf = act[p].conf => q = p
  /\ ConfirmedOnce

\* What the holder of a turn knows of its requests.
RoundAt(p) ==
  /\ act[p].pc = "model" => calls[act[p].turn] <= act[p].iter
  /\ act[p].pc \in {"calls", "ask", "waits"} => calls[act[p].turn] <= act[p].iter + 1
  /\ act[p].pc \in {"hook", "settle"} =>
       calls[act[p].turn] <= conf[act[p].conf].iter + 1
RoundOf(p) == Busy(p) /\ ~Repeated(act[p].turn) => RoundAt(p)
RoundInv ==
  /\ \A p \in Proc : RoundOf(p)
  /\ \A c \in Confirmation : conf[c].status = "awaiting" /\ ~Repeated(conf[c].turn) =>
       calls[conf[c].turn] <= conf[c].iter + 1
  /\ \A t \in Turn : t > turns => calls[t] = 0
  /\ ModelCallsBounded

\* The answer of a turn that is held has not been shown, unless an attempt
\* to finish its incremental reply has had its effect.
ShownAt(p) ==
  shown[act[p].turn] <= IF act[p].pc = "deliver" /\ act[p].turn \in unsure THEN 1 ELSE 0
ShownOf(p) == Busy(p) /\ ~Repeated(act[p].turn) => ShownAt(p)
ShownInv ==
  /\ \A p \in Proc : ShownOf(p)
  /\ \A c \in Confirmation : conf[c].status = "awaiting" /\ ~Repeated(conf[c].turn) =>
       shown[conf[c].turn] = 0
  /\ \A t \in Turn : t > turns => shown[t] = 0
  /\ ShownOnce

\* Turns that have begun, each with those it has seen.
Closed(S) == \A t \in S : t <= turns /\ saw[t] \subseteq S
SeenInv ==
  /\ \A a \in Agent : Closed(history[a])
  /\ \A p \in Proc : Busy(p) => Closed(act[p].seen) /\ saw[act[p].turn] \subseteq act[p].seen
  /\ \A c \in Confirmation : conf[c].status # "none" =>
       Closed(conf[c].seen) /\ saw[conf[c].turn] \subseteq conf[c].seen

-----------------------------------------------------------------------------
(* Steps of coroutines                                                     *)

\* A coroutine goes on with the same turn.
Keeps(p) ==
  /\ act'[p].turn = act[p].turn /\ act'[p].seen = act[p].seen
  /\ act'[p].conf = act[p].conf
  /\ act'[p].parent = act[p].parent /\ act'[p].root = act[p].root
Goes(p, from, to) ==
  /\ act[p].pc = from /\ act'[p].pc = to /\ act'[p].iter = act[p].iter
  /\ Keeps(p)
Alone(p) == \A q \in Proc : q # p => act'[q] = act[q]

\* The wait for a tool call is over.
Resumes(p) ==
  /\ Keeps(p)
  /\ \/ act'[p].pc = "calls" /\ act'[p].iter = act[p].iter
     \/ act'[p].pc = "model" /\ act'[p].iter = act[p].iter + 1

\* A coroutine returns, and its parent goes on.
Ends(p) ==
  /\ act'[p].pc = "free" /\ act'[p].parent = NoProc
  /\ \A q \in Proc : q # p =>
       act'[q] = act[q] \/ (q = act[p].parent /\ act[q].pc = "waits" /\ Resumes(q))

\* Whoever works after a step works on what it worked on.
Carries ==
  \A q \in Proc : act'[q].pc # "free" =>
    act[q].pc # "free" /\ act'[q].turn = act[q].turn /\ act'[q].seen = act[q].seen

LEMMA FreeAct == Free \in Act /\ Free.pc = "free" /\ Free.parent = NoProc
<1>1. (CHOOSE a \in Agent : TRUE) \in Agent
  BY RuntimeAssumption
<1>2. /\ 0 \in 0..MaxTurns /\ 0 \in 0..MaxToolIterations /\ 0 \in 0..MaxCalls
      /\ 0 \in 0..TeammateDepth /\ 0 \in 0..MaxConfirmations /\ 0 \in 0..MaxEdits
      /\ Owner \in Principal /\ {} \in SUBSET Turn
  BY RuntimeAssumption
<1> QED BY <1>1, <1>2 DEF Free, Act, Pc

LEMMA NoRecordRecord == NoRecord \in Record /\ NoRecord.status = "none"
<1>1. (CHOOSE a \in Agent : TRUE) \in Agent
  BY RuntimeAssumption
<1>2. /\ 0 \in 0..MaxTurns /\ 0 \in 0..MaxToolIterations /\ 0 \in 0..MaxEdits
      /\ {} \in SUBSET Turn
  BY RuntimeAssumption
<1> QED BY <1>1, <1>2 DEF NoRecord, Record, Status

LEMMA AfterCallEffect ==
  ASSUME NEW a \in Act, a.iter < MaxToolIterations, NEW b, b = AfterCall(a)
  PROVE  /\ b \in Act
         /\ b.turn = a.turn /\ b.seen = a.seen /\ b.conf = a.conf
         /\ b.parent = a.parent /\ b.root = a.root
         /\ \/ b.pc = "calls" /\ b.iter = a.iter
            \/ b.pc = "model" /\ b.iter = a.iter + 1
<1>1. /\ 0 \in 0..MaxCalls
      /\ a.left > 1 => a.left - 1 \in 0..MaxCalls
      /\ a.iter + 1 \in 0..MaxToolIterations /\ a.iter \in 0..MaxToolIterations
      /\ "calls" \in Pc /\ "model" \in Pc
  BY RuntimeAssumption DEF Act, Pc
<1>2. CASE a.left > 1
  <2>1. b = [a EXCEPT !.left = a.left - 1, !.pc = "calls"]
    BY <1>2, Zenon DEF AfterCall
  <2>2. a.left - 1 \in 0..MaxCalls
    BY <1>1, <1>2
  <2>3. b \in Act
    BY <1>1, <2>1, <2>2, Zenon DEF Act
  <2>4. /\ b.turn = a.turn /\ b.seen = a.seen /\ b.conf = a.conf
        /\ b.parent = a.parent /\ b.root = a.root /\ b.pc = "calls" /\ b.iter = a.iter
    BY <2>1, Zenon DEF Act
  <2> QED BY <2>3, <2>4
<1>3. CASE ~(a.left > 1)
  <2>1. b = [a EXCEPT !.left = 0, !.pc = "model", !.iter = a.iter + 1]
    BY <1>3, Zenon DEF AfterCall
  <2>3. b \in Act
    BY <1>1, <2>1, Zenon DEF Act
  <2>4. /\ b.turn = a.turn /\ b.seen = a.seen /\ b.conf = a.conf
        /\ b.parent = a.parent /\ b.root = a.root
        /\ b.pc = "model" /\ b.iter = a.iter + 1
    BY <2>1, Zenon DEF Act
  <2> QED BY <2>3, <2>4
<1> QED BY <1>2, <1>3


\* The return of a coroutine that is at work.
LEMMA ReturnedEffect ==
  ASSUME TypeOK, TreeInv, PlaceInv, NEW p \in Proc, Busy(p), act' = Returned(p)
  PROVE  act' \in [Proc -> Act] /\ Ends(p)
<1>1. act'[p] = Free
  BY DEF Returned
<1>2. ASSUME NEW q \in Proc, q # p
      PROVE  /\ act'[q] \in Act
             /\ act'[q] = act[q] \/ (q = act[p].parent /\ act[q].pc = "waits" /\ Resumes(q))
  <2>1. CASE q = act[p].parent
    <3>1. act'[q] = AfterCall(act[q])
      BY <1>2, <2>1 DEF Returned
    <3>2. act[q] \in Act
      BY DEF TypeOK
    <3>3. act[q].pc = "waits"
      BY <2>1, RuntimeAssumption DEF TreeInv
    <3>4. act[q].iter < MaxToolIterations
      BY <3>3 DEF PlaceInv, PlaceOf, Busy
    <3> DEFINE r == AfterCall(act[q])
    <3>5. /\ r \in Act
          /\ r.turn = act[q].turn /\ r.seen = act[q].seen /\ r.conf = act[q].conf
          /\ r.parent = act[q].parent /\ r.root = act[q].root
          /\ \/ r.pc = "calls" /\ r.iter = act[q].iter
             \/ r.pc = "model" /\ r.iter = act[q].iter + 1
      BY <3>2, <3>4, AfterCallEffect
    <3>6. act'[q] = r
      BY <3>1
    <3> HIDE DEF r
    <3> QED BY <2>1, <3>3, <3>5, <3>6 DEF Resumes, Keeps
  <2>2. CASE q # act[p].parent
    <3>1. act'[q] = act[q]
      BY <1>2, <2>2 DEF Returned
    <3> QED BY <3>1 DEF TypeOK
  <2> QED BY <2>1, <2>2
<1>3. act' = [q \in Proc |-> act'[q]]
  BY DEF Returned
<1>4. \A q \in Proc : act'[q] \in Act
  BY <1>1, <1>2, FreeAct
<1> QED BY <1>1, <1>2, <1>3, <1>4, FreeAct DEF Ends

\* A coroutine goes to another place.
LEMMA PlaceEffect ==
  ASSUME act \in [Proc -> Act], NEW p \in Proc, NEW to \in Pc,
         act' = [act EXCEPT ![p].pc = to]
  PROVE  /\ act' \in [Proc -> Act]
         /\ act'[p].pc = to /\ act'[p].iter = act[p].iter /\ Keeps(p)
         /\ Alone(p)
<1>1. act[p] \in Act
  OBVIOUS
<1> DEFINE r == [act[p] EXCEPT !.pc = to]
<1>2. r \in Act
  BY <1>1, Zenon DEF Act
<1>3. /\ r.pc = to /\ r.iter = act[p].iter
      /\ r.turn = act[p].turn /\ r.seen = act[p].seen /\ r.conf = act[p].conf
      /\ r.parent = act[p].parent /\ r.root = act[p].root
  BY <1>1, Zenon DEF Act
<1>4. act' = [act EXCEPT ![p] = r]
  BY Zenon
<1> HIDE DEF r
<1> QED BY <1>2, <1>3, <1>4 DEF Keeps, Alone

\* A coroutine becomes another record.
LEMMA ActEffect ==
  ASSUME act \in [Proc -> Act], NEW p \in Proc, NEW r \in Act,
         act' = [act EXCEPT ![p] = r]
  PROVE  act' \in [Proc -> Act] /\ act'[p] = r /\ Alone(p)
BY DEF Alone

LEMMA RequestsEffect ==
  ASSUME TypeOK, NEW p \in Proc, NEW n \in 1..MaxCalls, Requests(p, n)
  PROVE  act' \in [Proc -> Act] /\ Goes(p, "model", "calls") /\ Alone(p)
<1>1. act[p] \in Act /\ act \in [Proc -> Act]
  BY DEF TypeOK
<1>2. n \in 0..MaxCalls /\ "calls" \in Pc
  BY RuntimeAssumption DEF Pc
<1> DEFINE r == [act[p] EXCEPT !.pc = "calls", !.left = n]
<1>3. r \in Act
  BY <1>1, <1>2, Zenon DEF Act
<1>4. /\ r.pc = "calls" /\ r.iter = act[p].iter
      /\ r.turn = act[p].turn /\ r.seen = act[p].seen /\ r.conf = act[p].conf
      /\ r.parent = act[p].parent /\ r.root = act[p].root
  BY <1>1, Zenon DEF Act
<1>5. act' = [act EXCEPT ![p] = r]
  BY <1>1, Zenon DEF Requests
<1>6. act[p].pc = "model"
  BY DEF Requests
<1> HIDE DEF r
<1> QED BY <1>1, <1>3, <1>4, <1>5, <1>6, ActEffect DEF Keeps, Goes

\* A call that is over without a wait.
LEMMA LocalEffect ==
  ASSUME TypeOK, PlaceInv, NEW p \in Proc, act[p].pc \in {"calls", "ask"},
         act' = [act EXCEPT ![p] = AfterCall(act[p])]
  PROVE  act' \in [Proc -> Act] /\ Resumes(p) /\ Alone(p)
<1>1. act[p] \in Act /\ act \in [Proc -> Act]
  BY DEF TypeOK
<1>2. act[p].iter < MaxToolIterations
  BY DEF PlaceInv, PlaceOf, Busy
<1> DEFINE r == AfterCall(act[p])
<1>3. /\ r \in Act
      /\ r.turn = act[p].turn /\ r.seen = act[p].seen /\ r.conf = act[p].conf
      /\ r.parent = act[p].parent /\ r.root = act[p].root
      /\ \/ r.pc = "calls" /\ r.iter = act[p].iter
         \/ r.pc = "model" /\ r.iter = act[p].iter + 1
  BY <1>1, <1>2, AfterCallEffect
<1>4. act' = [act EXCEPT ![p] = r]
  OBVIOUS
<1> HIDE DEF r
<1> QED BY <1>1, <1>3, <1>4, ActEffect DEF Resumes, Keeps


LEMMA SettledEffect ==
  ASSUME TypeOK, PlaceInv, NEW p \in Proc, act[p].pc = "settle",
         act' = [act EXCEPT ![p].pc = "model", ![p].iter = conf[act[p].conf].iter + 1]
  PROVE  /\ act' \in [Proc -> Act] /\ Keeps(p) /\ Alone(p)
         /\ act'[p].pc = "model" /\ act'[p].iter = conf[act[p].conf].iter + 1
<1>1. act[p] \in Act /\ act \in [Proc -> Act]
  BY DEF TypeOK
<1> DEFINE i == conf[act[p].conf].iter + 1
           r == [act[p] EXCEPT !.pc = "model", !.iter = i]
<1>2. i \in 0..MaxToolIterations /\ "model" \in Pc
  <2>1. /\ act[p].conf \in Confirmation
        /\ conf[act[p].conf].iter < MaxToolIterations
    BY DEF PlaceInv, PlaceOf, Busy
  <2>2. conf[act[p].conf] \in Record
    BY <2>1 DEF TypeOK
  <2> QED BY <2>1, <2>2, RuntimeAssumption DEF Record, Pc
<1>3. act' = [act EXCEPT ![p] = r]
  BY <1>1, Zenon
<1>4. i = conf[act[p].conf].iter + 1
  OBVIOUS
<1> HIDE DEF i
<1>5. r \in Act
  BY <1>1, <1>2, Zenon DEF Act
<1>6. /\ r.pc = "model" /\ r.iter = i
      /\ r.turn = act[p].turn /\ r.seen = act[p].seen /\ r.conf = act[p].conf
      /\ r.parent = act[p].parent /\ r.root = act[p].root
  BY <1>1, Zenon DEF Act
<1> HIDE DEF r
<1> QED BY <1>1, <1>3, <1>4, <1>5, <1>6, ActEffect DEF Keeps

LEMMA StopEffect ==
  ASSUME TypeOK, NEW p \in Proc, Stop(p)
  PROVE  /\ act' \in [Proc -> Act]
         /\ \A q \in Proc : IF act[q].pc # "free" /\ act[q].root = p
                            THEN act'[q].pc = "free" /\ act'[q].parent = NoProc
                            ELSE act'[q] = act[q]
<1>1. act' = [q \in Proc |-> IF act[q].pc # "free" /\ act[q].root = p THEN Free ELSE act[q]]
  BY DEF Stop
<1>2. ASSUME NEW q \in Proc
      PROVE  /\ act'[q] \in Act
             /\ IF act[q].pc # "free" /\ act[q].root = p
                THEN act'[q].pc = "free" /\ act'[q].parent = NoProc ELSE act'[q] = act[q]
  <2>1. act[q] \in Act
    BY DEF TypeOK
  <2>2. act'[q] = IF act[q].pc # "free" /\ act[q].root = p THEN Free ELSE act[q]
    BY <1>1
  <2> QED BY <2>1, <2>2, FreeAct
<1>3. act' = [q \in Proc |-> act'[q]]
  BY <1>1
<1>4. \A q \in Proc : act'[q] \in Act
  BY <1>2
<1>5. act' \in [Proc -> Act]
  BY <1>3, <1>4
<1> QED BY <1>2, <1>5

LEMMA CompletesEffect ==
  ASSUME TypeOK, TreeInv, PlaceInv, NEW p \in Proc,
         NEW live \in {"none", "shown", "lost", "failed"}, Completes(p, live)
  PROVE  /\ act' \in [Proc -> Act] /\ act[p].pc = "finish"
         /\ Ends(p) \/ (Alone(p) /\ Goes(p, "finish", "deliver") /\ live # "shown")
<1>1. act[p].pc = "finish" /\ Busy(p)
  BY DEF Completes, Busy
<1>2. act' = Returned(p) \/ (act' = [act EXCEPT ![p].pc = "deliver"] /\ live # "shown")
  <2>1. /\ \/ act' = IF act[p].parent # NoProc \/ live = "shown" THEN Returned(p)
                     ELSE [act EXCEPT ![p].pc = "deliver"]
           \/ act' = Returned(p)
    BY Zenon DEF Completes
  <2> QED BY <2>1, Zenon
<1>3. CASE act' = Returned(p)
  BY <1>1, <1>3, ReturnedEffect
<1>4. CASE act' = [act EXCEPT ![p].pc = "deliver"] /\ live # "shown"
  <2>1. act \in [Proc -> Act] /\ "deliver" \in Pc
    BY DEF TypeOK, Pc
  <2>2. /\ act' \in [Proc -> Act]
        /\ act'[p].pc = "deliver" /\ act'[p].iter = act[p].iter /\ Keeps(p)
        /\ Alone(p)
    BY <1>4, <2>1, PlaceEffect, Zenon
  <2> QED BY <1>1, <1>4, <2>2 DEF Goes
<1> QED BY <1>2, <1>3, <1>4


\* A coroutine that begins a turn, and the one that waits for it.
Begins(p, seen, parent) ==
  /\ act[p].pc = "free" /\ act'[p].pc = "model" /\ act'[p].iter = 0
  /\ act'[p].turn = turns + 1 /\ act'[p].seen = seen
  /\ act'[p].parent = parent
  /\ parent # NoProc =>
       /\ act[parent].pc = "calls" /\ act'[parent].pc = "waits" /\ Keeps(parent)
       /\ act'[parent].iter = act[parent].iter
       /\ act'[p].root = act[parent].root
  /\ \A q \in Proc : q # p /\ q # parent => act'[q] = act[q]

LEMMA BeginEffect ==
  ASSUME TypeOK, NEW p \in Proc, NEW a \in Agent, NEW by \in Principal,
         NEW seen \in SUBSET Turn, NEW depth \in 0..TeammateDepth,
         NEW parent \in Proc \cup {NoProc},
         parent # NoProc => act[parent].pc = "calls",
         Begin(p, a, by, seen, depth, parent)
  PROVE  act' \in [Proc -> Act] /\ Begins(p, seen, parent)
<1> DEFINE root == IF parent = NoProc THEN p ELSE act[parent].root
           new == [Free EXCEPT !.pc = "model", !.turn = turns + 1, !.agent = a, !.by = by,
                                !.seen = seen, !.depth = depth, !.parent = parent,
                                !.root = root, !.policy = policy]
           wait == [act[parent] EXCEPT !.pc = "waits"]
<1>1. act' = [q \in Proc |-> IF q = p THEN new
                             ELSE IF q = parent THEN [act[q] EXCEPT !.pc = "waits"] ELSE act[q]]
  BY Zenon DEF Begin
<1>2. act[p].pc = "free" /\ turns < MaxTurns /\ policy # Gone
  BY DEF Begin
<1>3. p # parent
  BY <1>2, RuntimeAssumption
<1>4. /\ root \in Proc \cup {NoProc}
      /\ parent # NoProc => root = act[parent].root
  <2>1. parent # NoProc => parent \in Proc /\ act[parent] \in Act
    BY DEF TypeOK
  <2> QED BY <2>1 DEF Act
<1>5. /\ turns + 1 \in 0..MaxTurns /\ policy \in 0..MaxEdits
      /\ "model" \in Pc /\ "waits" \in Pc
  BY <1>2, RuntimeAssumption DEF TypeOK, Pc
<1> HIDE DEF root
<1>6. new \in Act
  BY <1>4, <1>5, FreeAct, Zenon DEF Act
<1>7. /\ new.pc = "model" /\ new.turn = turns + 1 /\ new.seen = seen
      /\ new.parent = parent /\ new.root = root
  BY FreeAct, Zenon DEF Act
<1>8. new.iter = 0
  <2>1. new.iter = Free.iter
    BY FreeAct, Zenon DEF Act
  <2> QED BY <2>1 DEF Free
<1>9. act'[p] = new
  BY <1>1, Zenon
<1>10. \A q \in Proc : q # p /\ q # parent => act'[q] = act[q]
  BY <1>1, Zenon
<1> HIDE DEF new
<1>11. ASSUME parent # NoProc
       PROVE  /\ act'[parent] \in Act /\ act'[parent].pc = "waits" /\ Keeps(parent)
              /\ act'[parent].iter = act[parent].iter
  <2>1. parent \in Proc /\ act[parent] \in Act
    BY <1>11 DEF TypeOK
  <2>2. act'[parent] = wait
    BY <1>1, <1>3, <2>1, Zenon
  <2>3. wait \in Act
    BY <1>5, <2>1, Zenon DEF Act
  <2>4. /\ wait.pc = "waits" /\ wait.iter = act[parent].iter
        /\ wait.turn = act[parent].turn /\ wait.seen = act[parent].seen
        /\ wait.conf = act[parent].conf /\ wait.parent = act[parent].parent
        /\ wait.root = act[parent].root
    BY <2>1, Zenon DEF Act
  <2> HIDE DEF wait
  <2> QED BY <2>2, <2>3, <2>4 DEF Keeps
<1>12. act' \in [Proc -> Act]
  <2>1. \A q \in Proc : act'[q] \in Act
    <3> SUFFICES ASSUME NEW q \in Proc PROVE act'[q] \in Act
      OBVIOUS
    <3>1. CASE q = p
      BY <1>6, <1>9, <3>1
    <3>2. CASE q = parent /\ q # p
      BY <1>11, <3>2, RuntimeAssumption
    <3>3. CASE q # p /\ q # parent
      <4>1. act'[q] = act[q]
        BY <1>10, <3>3
      <4> QED BY <4>1 DEF TypeOK
    <3> QED BY <3>1, <3>2, <3>3
  <2>2. act' = [q \in Proc |-> act'[q]]
    BY <1>1, Zenon
  <2> QED BY <2>1, <2>2
<1>13. ASSUME parent # NoProc PROVE act'[p].root = act[parent].root
  BY <1>4, <1>7, <1>9, <1>13
<1> QED BY <1>2, <1>7, <1>8, <1>9, <1>10, <1>11, <1>12, <1>13 DEF Begins

\* A coroutine that has claimed a record.
Claims(p, c) ==
  /\ act[p].pc = "free" /\ act'[p].pc = "hook"
  /\ act'[p].turn = conf[c].turn /\ act'[p].seen = conf[c].seen
  /\ act'[p].conf = c /\ act'[p].parent = NoProc
  /\ Alone(p)

LEMMA ConfirmEffect ==
  ASSUME TypeOK, NEW p \in Proc, NEW c \in Confirmation, NEW by \in Principal,
         NEW stale \in BOOLEAN, Confirm(p, c, by, stale)
  PROVE  /\ act' \in [Proc -> Act] /\ conf' \in [Confirmation -> Record]
         /\ conf[c].status \in {"awaiting", "executing"} /\ act[p].pc = "free"
         /\ conf'[c].turn = conf[c].turn /\ conf'[c].iter = conf[c].iter
         /\ conf'[c].seen = conf[c].seen
         /\ \A d \in Confirmation : d # c => conf'[d] = conf[d]
         /\ \/ act' = act /\ conf'[c].status \in {"expired", "failed"}
            \/ Claims(p, c) /\ conf'[c].status = "executing"
         /\ again' \in [Confirmation -> 0..MaxRepeats]
         /\ conf[c].status = "awaiting" => again' = again
         /\ conf[c].status = "executing" => again'[c] = again[c] + 1
         /\ \A d \in Confirmation : d # c => again'[d] = again[d]
<1> DEFINE status == Claimed(c, by, stale)
<1>1. /\ conf' = [conf EXCEPT ![c].status = status]
      /\ act[p].pc = "free" /\ conf[c].status \in {"awaiting", "executing"}
  BY DEF Confirm
<1>9. /\ again' \in [Confirmation -> 0..MaxRepeats]
      /\ conf[c].status = "awaiting" => again' = again
      /\ conf[c].status = "executing" => again'[c] = again[c] + 1
      /\ \A d \in Confirmation : d # c => again'[d] = again[d]
  BY RuntimeAssumption DEF Confirm, TypeOK
<1>2. status \in {"expired", "failed", "executing"}
  BY DEF Claimed
<1>3. status = "executing" => policy # Gone
  BY DEF Claimed
<1>4. act' = IF status # "executing" THEN act
             ELSE [act EXCEPT ![p] = [Free EXCEPT !.pc = "hook", !.turn = conf[c].turn,
                    !.agent = conf[c].agent, !.by = by, !.seen = conf[c].seen,
                    !.depth = TeammateDepth, !.root = p, !.conf = c, !.policy = policy]]
  BY Zenon DEF Confirm
<1> HIDE DEF status
<1>5. /\ act \in [Proc -> Act] /\ conf \in [Confirmation -> Record] /\ conf[c] \in Record
      /\ policy \in {Gone} \cup 0..MaxEdits
  BY DEF TypeOK
<1>6. /\ conf' \in [Confirmation -> Record]
      /\ conf'[c].turn = conf[c].turn /\ conf'[c].iter = conf[c].iter
      /\ conf'[c].seen = conf[c].seen /\ conf'[c].status = status
      /\ \A d \in Confirmation : d # c => conf'[d] = conf[d]
  <2> DEFINE r == [conf[c] EXCEPT !.status = status]
  <2>1. status \in Status
    BY <1>2 DEF Status
  <2>2. r \in Record
    BY <1>5, <2>1, Zenon DEF Record
  <2>3. r.turn = conf[c].turn /\ r.iter = conf[c].iter /\ r.seen = conf[c].seen /\ r.status = status
    BY <1>5, Zenon DEF Record
  <2>4. conf' = [conf EXCEPT ![c] = r]
    BY <1>1, Zenon
  <2> HIDE DEF r
  <2> QED BY <1>5, <2>2, <2>3, <2>4
<1>7. CASE status # "executing"
  <2>1. act' = act
    BY <1>4, <1>7, Zenon
  <2> QED BY <1>1, <1>2, <1>5, <1>6, <1>7, <1>9, <2>1
<1>8. CASE status = "executing"
  <2> DEFINE r == [Free EXCEPT !.pc = "hook", !.turn = conf[c].turn,
                    !.agent = conf[c].agent, !.by = by, !.seen = conf[c].seen,
                    !.depth = TeammateDepth, !.root = p, !.conf = c, !.policy = policy]
  <2>1. act' = [act EXCEPT ![p] = r]
    BY <1>4, <1>8, Zenon
  <2>2. /\ conf[c].turn \in 0..MaxTurns /\ conf[c].agent \in Agent /\ conf[c].seen \in SUBSET Turn
        /\ TeammateDepth \in 0..TeammateDepth /\ c \in 0..MaxConfirmations
        /\ policy \in 0..MaxEdits /\ "hook" \in Pc /\ p \in Proc \cup {NoProc}
    BY <1>3, <1>5, <1>8, RuntimeAssumption DEF Record, Confirmation, Pc
  <2>3. r \in Act
    BY <2>2, FreeAct, Zenon DEF Act
  <2>4. /\ r.pc = "hook" /\ r.turn = conf[c].turn /\ r.seen = conf[c].seen /\ r.conf = c
        /\ r.parent = Free.parent
    BY FreeAct, Zenon DEF Act
  <2> HIDE DEF r
  <2>5. act' \in [Proc -> Act] /\ act'[p] = r /\ Alone(p)
    BY <1>5, <2>1, <2>3, ActEffect
  <2>6. Claims(p, c)
    BY <1>1, <2>4, <2>5, FreeAct DEF Claims
  <2> QED BY <1>1, <1>6, <1>8, <1>9, <2>5, <2>6
<1> QED BY <1>7, <1>8


-----------------------------------------------------------------------------
(* Records                                                                 *)

\* complete_pending, of a record that has been claimed.
LEMMA CompleteEffect ==
  ASSUME conf \in [Confirmation -> Record], NEW c \in Confirmation,
         NEW status \in {"succeeded", "failed"}, Complete(c, status)
  PROVE  /\ conf' \in [Confirmation -> Record]
         /\ conf'[c].turn = conf[c].turn /\ conf'[c].iter = conf[c].iter
         /\ conf'[c].seen = conf[c].seen
         /\ conf[c].status = "executing" => conf'[c].status = status
         /\ conf[c].status # "executing" => conf'[c] = conf[c]
         /\ \A d \in Confirmation : d # c => conf'[d] = conf[d]
<1> DEFINE new == IF conf[c].status = "executing" THEN status ELSE conf[c].status
<1>1. conf' = [conf EXCEPT ![c].status = new]
  BY Zenon DEF Complete
<1>2. new \in Status /\ conf[c] \in Record
  BY DEF Status, Record
<1>3. /\ conf[c].status = "executing" => new = status
      /\ conf[c].status # "executing" => new = conf[c].status
  OBVIOUS
<1> HIDE DEF new
<1> DEFINE r == [conf[c] EXCEPT !.status = new]
<1>4. r \in Record
  BY <1>2, Zenon DEF Record
<1>5. r.turn = conf[c].turn /\ r.iter = conf[c].iter /\ r.seen = conf[c].seen /\ r.status = new
  BY <1>2, Zenon DEF Record
<1>6. new = conf[c].status => r = conf[c]
  BY <1>2 DEF Record
<1>7. conf' = [conf EXCEPT ![c] = r]
  BY <1>1, Zenon
<1> HIDE DEF r
<1> QED BY <1>3, <1>4, <1>5, <1>6, <1>7

\* The record of a call that waits to be confirmed.
Stores(p, c) ==
  /\ conf[c].status = "none" /\ conf'[c].status = "awaiting"
  /\ conf'[c].turn = act[p].turn /\ conf'[c].seen = act[p].seen
  /\ conf'[c].iter = act[p].iter
  /\ \A d \in Confirmation : d # c => conf'[d] = conf[d]

LEMMA AsksEffect ==
  ASSUME TypeOK, TreeInv, PlaceInv, NEW p \in Proc, Asks(p)
  PROVE  /\ act' \in [Proc -> Act] /\ Ends(p) /\ act[p].pc = "ask"
         /\ conf' \in [Confirmation -> Record]
         /\ conf' = conf \/ \E c \in Confirmation : Stores(p, c)
<1>1. act[p].pc = "ask" /\ act' = Returned(p) /\ Busy(p)
  BY DEF Asks, Busy
<1>2. act' \in [Proc -> Act] /\ Ends(p)
  BY <1>1, ReturnedEffect
<1>3. PICK c \in Confirmation :
        /\ conf[c].status = "none"
        /\ \/ conf' = [conf EXCEPT ![c] =
                  [status |-> "awaiting", turn |-> act[p].turn, agent |-> act[p].agent,
                   seen |-> act[p].seen, iter |-> act[p].iter, policy |-> act[p].policy]]
           \/ conf' = conf
  BY Zenon DEF Asks
<1>4. CASE conf' = conf
  BY <1>1, <1>2, <1>4 DEF TypeOK
<1>5. CASE conf' = [conf EXCEPT ![c] =
                  [status |-> "awaiting", turn |-> act[p].turn, agent |-> act[p].agent,
                   seen |-> act[p].seen, iter |-> act[p].iter, policy |-> act[p].policy]]
  <2> DEFINE r == [status |-> "awaiting", turn |-> act[p].turn, agent |-> act[p].agent,
                   seen |-> act[p].seen, iter |-> act[p].iter, policy |-> act[p].policy]
  <2>1. act[p] \in Act /\ conf \in [Confirmation -> Record]
    BY DEF TypeOK
  <2>2. r \in Record
    BY <2>1 DEF Act, Record, Status
  <2>3. conf' = [conf EXCEPT ![c] = r]
    BY <1>5
  <2>4. /\ conf' \in [Confirmation -> Record] /\ conf'[c] = r
        /\ \A d \in Confirmation : d # c => conf'[d] = conf[d]
    BY <2>1, <2>2, <2>3
  <2>5. Stores(p, c)
    BY <1>3, <2>4 DEF Stores
  <2> QED BY <1>1, <1>2, <2>4, <2>5
<1> QED BY <1>3, <1>4, <1>5

-----------------------------------------------------------------------------
(* Who waits for whom, and who holds a turn                                *)

\* A coroutine at work takes a step of its own.
Moves(p) ==
  /\ act[p].pc \notin {"free", "waits"} /\ act'[p].pc \notin {"free", "waits"}
  /\ Keeps(p) /\ Alone(p)

LEMMA MovesTree ==
  ASSUME TypeOK, TreeInv, NEW p \in Proc, Moves(p)
  PROVE  TreeInv' /\ Carries
<1>1. \A q \in Proc : act'[q].parent = act[q].parent /\ act'[q].root = act[q].root
  BY DEF Moves, Keeps, Alone
<1>2. \A q \in Proc : q # p => act'[q] = act[q]
  BY DEF Moves, Alone
<1>3. ASSUME NEW q \in Proc
      PROVE  /\ act'[q].pc = "free" => act'[q].parent = NoProc
             /\ act'[q].parent # NoProc =>
                  /\ act'[act'[q].parent].pc = "waits"
                  /\ act'[act'[q].parent].root = act'[q].root
                  /\ \A s \in Proc : act'[s].parent = act'[q].parent => s = q
  <2>1. act'[q].pc = "free" => act[q].pc = "free"
    BY <1>2 DEF Moves
  <2>2. act'[q].pc = "free" => act'[q].parent = NoProc
    BY <1>1, <2>1 DEF TreeInv, Busy
  <2>3. ASSUME act'[q].parent # NoProc
        PROVE  /\ act'[act'[q].parent].pc = "waits"
               /\ act'[act'[q].parent].root = act'[q].root
               /\ \A s \in Proc : act'[s].parent = act'[q].parent => s = q
    <3>1. act[q].parent # NoProc /\ act[q] \in Act
      BY <1>1, <2>3 DEF TypeOK
    <3>2. act[q].parent \in Proc
      BY <3>1 DEF Act
    <3>3. /\ act[act[q].parent].pc = "waits"
          /\ act[act[q].parent].root = act[q].root
          /\ \A s \in Proc : act[s].parent = act[q].parent => s = q
      BY <3>1 DEF TreeInv
    <3>4. act[q].parent # p
      BY <3>3 DEF Moves
    <3> QED BY <1>1, <1>2, <3>2, <3>3, <3>4
  <2> QED BY <2>2, <2>3
<1>4. TreeInv'
  BY <1>3 DEF TreeInv, Busy
<1>5. Carries
  BY <1>2 DEF Carries, Moves, Keeps
<1> QED BY <1>4, <1>5

LEMMA EndsTree ==
  ASSUME TypeOK, TreeInv, NEW p \in Proc, act[p].pc \notin {"free", "waits"}, Ends(p)
  PROVE  TreeInv' /\ Carries
<1>1. ASSUME NEW q \in Proc, q # p
      PROVE  /\ act'[q].parent = act[q].parent /\ act'[q].root = act[q].root
             /\ act'[q].pc = "free" <=> act[q].pc = "free"
             /\ act'[q].turn = act[q].turn /\ act'[q].seen = act[q].seen
             /\ q # act[p].parent => act'[q] = act[q]
  BY <1>1 DEF Ends, Resumes, Keeps
<1>2. act'[p].pc = "free" /\ act'[p].parent = NoProc
  BY DEF Ends
<1>3. ASSUME NEW q \in Proc
      PROVE  /\ act'[q].pc = "free" => act'[q].parent = NoProc
             /\ act'[q].parent # NoProc =>
                  /\ act'[act'[q].parent].pc = "waits"
                  /\ act'[act'[q].parent].root = act'[q].root
                  /\ \A s \in Proc : act'[s].parent = act'[q].parent => s = q
  <2>1. act'[q].pc = "free" => act'[q].parent = NoProc
    BY <1>1, <1>2 DEF TreeInv, Busy
  <2>2. ASSUME act'[q].parent # NoProc
        PROVE  /\ act'[act'[q].parent].pc = "waits"
               /\ act'[act'[q].parent].root = act'[q].root
               /\ \A s \in Proc : act'[s].parent = act'[q].parent => s = q
    <3>1. q # p /\ act[q].parent # NoProc /\ act'[q].parent = act[q].parent /\ act[q] \in Act
      BY <1>1, <1>2, <2>2 DEF TypeOK
    <3>2. act[q].parent \in Proc
      BY <3>1 DEF Act
    <3>3. /\ act[act[q].parent].pc = "waits"
          /\ act[act[q].parent].root = act[q].root
          /\ \A s \in Proc : act[s].parent = act[q].parent => s = q
      BY <3>1 DEF TreeInv
    <3>4. act[q].parent # p /\ act[q].parent # act[p].parent
      BY <3>1, <3>3
    <3>5. act'[act[q].parent] = act[act[q].parent]
      BY <1>1, <3>2, <3>4
    <3>6. ASSUME NEW s \in Proc, act'[s].parent = act'[q].parent PROVE s = q
      BY <1>1, <1>2, <2>2, <3>1, <3>3, <3>6
    <3> QED BY <1>1, <3>1, <3>3, <3>5, <3>6
  <2> QED BY <2>1, <2>2
<1>4. TreeInv'
  BY <1>3 DEF TreeInv, Busy
<1>5. Carries
  BY <1>1, <1>2 DEF Carries
<1> QED BY <1>4, <1>5


\* The turns of coroutines at work and of records are turns.
LEMMA HeldTurns ==
  ASSUME Base
  PROVE  /\ \A q \in Proc : act[q].pc # "free" => act[q].turn \in Turn
         /\ \A c \in Confirmation : conf[c].status # "none" => conf[c].turn \in Turn
BY RuntimeAssumption DEF Base, PlaceInv, PlaceOf, Busy, TypeOK, Turn

\* A turn that a confirmation came again for stays one.
RepeatedNext(t) == \E c \in Confirmation : conf'[c].turn = t /\ again'[c] > 0
Grows == \A t \in Turn : Repeated(t) => RepeatedNext(t)

LEMMA RepeatedKept ==
  ASSUME \A c \in Confirmation : again[c] > 0 =>
           conf'[c].turn = conf[c].turn /\ again'[c] > 0
  PROVE  Grows
BY DEF Grows, Repeated, RepeatedNext

LEMMA CarriesHolder ==
  ASSUME Base, Carries, Grows,
         \A c \in Confirmation : conf'[c].status = "awaiting" =>
           conf[c].status = "awaiting" /\ conf'[c].turn = conf[c].turn
  PROVE  HolderInv'
<1>1. /\ \A q \in Proc : act[q].pc # "free" => act[q].turn \in Turn
      /\ \A c \in Confirmation : conf[c].status = "awaiting" => conf[c].turn \in Turn
  BY HeldTurns
<1>2. ASSUME NEW p \in Proc, NEW q \in Proc, act'[p].pc # "free", act'[q].pc # "free",
             act'[p].turn = act'[q].turn
      PROVE  p = q \/ RepeatedNext(act'[p].turn)
  <2>1. p = q \/ Repeated(act[p].turn)
    BY <1>2 DEF Carries, Base, HolderInv, Busy
  <2>2. act'[p].turn = act[p].turn /\ act[p].turn \in Turn
    BY <1>1, <1>2 DEF Carries
  <2> QED BY <2>1, <2>2 DEF Grows
<1>3. ASSUME NEW c \in Confirmation, conf'[c].status = "awaiting", ~RepeatedNext(conf'[c].turn)
      PROVE  /\ \A p \in Proc : act'[p].pc # "free" => act'[p].turn # conf'[c].turn
             /\ \A d \in Confirmation :
                  conf'[d].status = "awaiting" /\ conf'[d].turn = conf'[c].turn => d = c
  <2>1. conf[c].status = "awaiting" /\ conf'[c].turn = conf[c].turn /\ conf[c].turn \in Turn
    BY <1>1, <1>3
  <2>2. ~Repeated(conf[c].turn)
    BY <1>3, <2>1 DEF Grows
  <2> QED BY <2>1, <2>2 DEF Carries, Base, HolderInv, Busy
<1> QED BY <1>2, <1>3 DEF HolderInv, Busy, Repeated, RepeatedNext

\* A step of one coroutine, and of those that wait for it, which ends what it
\* does to the record it works for.
LEMMA Quiet ==
  ASSUME Base, NEW p \in Proc, act[p].pc \notin {"free", "waits"},
         Moves(p) \/ Ends(p), turns' = turns, again' = again, PlaceOf(p)',
         \A c \in Confirmation :
           /\ conf'[c].turn = conf[c].turn /\ conf'[c].iter = conf[c].iter
           /\ conf'[c].status = "none" <=> conf[c].status = "none"
           /\ conf'[c].status = "awaiting" => conf[c].status = "awaiting"
           /\ conf'[c].status # conf[c].status =>
                act[p].pc \in {"hook", "settle"} /\ c = act[p].conf
  PROVE  TreeInv' /\ PlaceInv' /\ HolderInv' /\ Carries
<1>1. TreeInv' /\ Carries
  BY MovesTree, EndsTree DEF Base
<1>2. HolderInv'
  <2>1. Grows
    BY RepeatedKept
  <2> QED BY <1>1, <2>1, CarriesHolder
<1>3. ASSUME NEW q \in Proc, q # p PROVE PlaceOf(q)'
  <2>1. act'[q] = act[q] \/ (act[q].pc = "waits" /\ Resumes(q))
    BY <1>3 DEF Moves, Ends, Alone
  <2>2. PlaceOf(q) /\ PlaceOf(p)
    BY DEF Base, PlaceInv
  <2>3. CASE act'[q] = act[q]
    BY <2>2, <2>3 DEF PlaceOf, Busy
  <2>4. CASE act[q].pc = "waits" /\ Resumes(q)
    <3>1. act'[q].turn = act[q].turn /\ act'[q].pc \in {"calls", "model"}
      BY <2>4 DEF Resumes, Keeps
    <3>2. act'[q].pc = "calls" => act'[q].iter = act[q].iter
      BY <2>4 DEF Resumes
    <3> QED BY <2>2, <2>4, <3>1, <3>2 DEF PlaceOf, Busy
  <2> QED BY <2>1, <2>3, <2>4
<1>4. ASSUME NEW c \in Confirmation, conf'[c].status # "none"
      PROVE  conf'[c].turn \in 1..turns' /\ conf'[c].iter < MaxToolIterations
  BY <1>4 DEF Base, PlaceInv
<1>5. PlaceInv'
  BY <1>3, <1>4 DEF PlaceInv, Base
<1> QED BY <1>1, <1>2, <1>5

LEMMA StopStep ==
  ASSUME Base, NEW p \in Proc, Stop(p)
  PROVE  TreeInv' /\ PlaceInv' /\ HolderInv' /\ Carries
<1>1. \A q \in Proc : IF act[q].pc # "free" /\ act[q].root = p
                      THEN act'[q].pc = "free" /\ act'[q].parent = NoProc
                      ELSE act'[q] = act[q]
  BY StopEffect DEF Base
<1>2. conf' = conf /\ turns' = turns /\ again' = again
  BY DEF Stop
<1>3. \A q \in Proc : act'[q] = act[q] \/ (act'[q].pc = "free" /\ act'[q].parent = NoProc)
  BY <1>1
<1>4. Carries
  BY <1>3 DEF Carries
<1>5. HolderInv'
  BY <1>2, <1>4, RepeatedKept, CarriesHolder
<1>6. PlaceInv'
  <2>1. \A q \in Proc : PlaceOf(q)'
    BY <1>2, <1>3 DEF Base, PlaceInv, PlaceOf, Busy
  <2> QED BY <1>2, <2>1 DEF Base, PlaceInv
<1>7. ASSUME NEW q \in Proc
      PROVE  /\ act'[q].pc = "free" => act'[q].parent = NoProc
             /\ act'[q].parent # NoProc =>
                  /\ act'[act'[q].parent].pc = "waits"
                  /\ act'[act'[q].parent].root = act'[q].root
                  /\ \A s \in Proc : act'[s].parent = act'[q].parent => s = q
  <2>1. act'[q].pc = "free" => act'[q].parent = NoProc
    BY <1>3 DEF Base, TreeInv, Busy
  <2>2. ASSUME act'[q].parent # NoProc
        PROVE  /\ act'[act'[q].parent].pc = "waits"
               /\ act'[act'[q].parent].root = act'[q].root
               /\ \A s \in Proc : act'[s].parent = act'[q].parent => s = q
    <3>1. act'[q] = act[q] /\ act[q].parent # NoProc /\ act[q] \in Act
      BY <1>3, <2>2 DEF Base, TypeOK
    <3>2. act[q].parent \in Proc
      BY <3>1 DEF Act
    <3>3. /\ act[act[q].parent].pc = "waits"
          /\ act[act[q].parent].root = act[q].root
          /\ \A s \in Proc : act[s].parent = act[q].parent => s = q
      BY <3>1 DEF Base, TreeInv
    <3>4. act[q].pc # "free"
      BY <3>1 DEF Base, TreeInv, Busy
    <3>5. act[q].root # p
      BY <1>1, <2>2, <3>4
    <3>6. act'[act[q].parent] = act[act[q].parent]
      BY <1>1, <3>2, <3>3, <3>5
    <3>7. ASSUME NEW s \in Proc, act'[s].parent = act'[q].parent PROVE s = q
      BY <1>3, <2>2, <3>1, <3>3, <3>7
    <3> QED BY <3>1, <3>3, <3>6, <3>7
  <2> QED BY <2>1, <2>2
<1>8. TreeInv'
  BY <1>7 DEF TreeInv, Busy
<1> QED BY <1>4, <1>5, <1>6, <1>8


LEMMA BeginStep ==
  ASSUME Base, NEW p \in Proc, NEW seen, NEW parent \in Proc \cup {NoProc},
         Begins(p, seen, parent), turns' = turns + 1, conf' = conf, again' = again
  PROVE  TreeInv' /\ PlaceInv' /\ HolderInv'
<1>1. /\ act[p].pc = "free" /\ act'[p].pc = "model"
      /\ act'[p].turn = turns + 1 /\ act'[p].parent = parent
      /\ turns \in Nat /\ p # parent
  BY RuntimeAssumption DEF Begins, Base, TypeOK
<1>2. ASSUME NEW q \in Proc, q # p
      PROVE  /\ act'[q].parent = act[q].parent /\ act'[q].root = act[q].root
             /\ act'[q].turn = act[q].turn
             /\ act'[q].pc = "free" <=> act[q].pc = "free"
             /\ q # parent => act'[q] = act[q]
  BY <1>2, RuntimeAssumption DEF Begins, Keeps
<1>3. ASSUME parent # NoProc
      PROVE  /\ act[parent].pc = "calls" /\ act'[parent].pc = "waits"
             /\ act'[p].root = act[parent].root /\ parent \in Proc
             /\ act'[parent].iter = act[parent].iter
  BY <1>3 DEF Begins
<1>4. ASSUME NEW q \in Proc
      PROVE  /\ act'[q].pc = "free" => act'[q].parent = NoProc
             /\ act'[q].parent # NoProc =>
                  /\ act'[act'[q].parent].pc = "waits"
                  /\ act'[act'[q].parent].root = act'[q].root
                  /\ \A s \in Proc : act'[s].parent = act'[q].parent => s = q
  <2>1. CASE q = p
    <3>1. ASSUME parent # NoProc, NEW s \in Proc, act'[s].parent = parent PROVE s = p
      <4>1. CASE s # p
        <5>1. act[s].parent = parent
          BY <1>2, <3>1, <4>1
        <5>2. act[parent].pc = "waits"
          BY <3>1, <5>1 DEF Base, TreeInv
        <5> QED BY <1>3, <3>1, <5>2
      <4> QED BY <4>1
    <3> QED BY <1>1, <1>2, <1>3, <2>1, <3>1
  <2>2. CASE q # p
    <3>1. act'[q].pc = "free" => act'[q].parent = NoProc
      BY <1>2, <2>2 DEF Base, TreeInv, Busy
    <3>2. ASSUME act'[q].parent # NoProc
          PROVE  /\ act'[act'[q].parent].pc = "waits"
                 /\ act'[act'[q].parent].root = act'[q].root
                 /\ \A s \in Proc : act'[s].parent = act'[q].parent => s = q
      <4>1. act'[q].parent = act[q].parent /\ act[q].parent # NoProc /\ act[q] \in Act
        BY <1>2, <2>2, <3>2 DEF Base, TypeOK
      <4>2. act[q].parent \in Proc
        BY <4>1 DEF Act
      <4>3. /\ act[act[q].parent].pc = "waits"
            /\ act[act[q].parent].root = act[q].root
            /\ \A s \in Proc : act[s].parent = act[q].parent => s = q
        BY <4>1 DEF Base, TreeInv
      <4>4. act[q].parent # p /\ act[q].parent # parent
        BY <1>1, <1>3, <4>1, <4>3
      <4>5. act'[act[q].parent] = act[act[q].parent]
        BY <1>2, <4>2, <4>4
      <4>6. ASSUME NEW s \in Proc, act'[s].parent = act'[q].parent PROVE s = q
        BY <1>1, <1>2, <4>1, <4>3, <4>4, <4>6
      <4> QED BY <1>2, <2>2, <4>1, <4>3, <4>5, <4>6
    <3> QED BY <3>1, <3>2
  <2> QED BY <2>1, <2>2
<1>5. TreeInv'
  BY <1>4 DEF TreeInv, Busy
<1>6. ASSUME NEW q \in Proc PROVE PlaceOf(q)'
  <2>1. CASE q = p
    BY <1>1, <2>1 DEF PlaceOf, Busy
  <2>2. CASE q = parent
    <3>1. PlaceOf(q)
      BY DEF Base, PlaceInv
    <3> QED BY <1>1, <1>2, <1>3, <2>2, <3>1, RuntimeAssumption DEF PlaceOf, Busy
  <2>3. CASE q # p /\ q # parent
    <3>1. PlaceOf(q) /\ act'[q] = act[q]
      BY <1>2, <2>3 DEF Base, PlaceInv
    <3> QED BY <1>1, <3>1 DEF PlaceOf, Busy
  <2> QED BY <2>1, <2>2, <2>3
<1>7. PlaceInv'
  <2>1. \A c \in Confirmation : conf'[c].status # "none" =>
          conf'[c].turn \in 1..turns' /\ conf'[c].iter < MaxToolIterations
    BY <1>1 DEF Base, PlaceInv
  <2> QED BY <1>6, <2>1 DEF PlaceInv, Base
<1>8. HolderInv'
  <2>0. \A t : RepeatedNext(t) <=> Repeated(t)
    BY DEF Repeated, RepeatedNext
  <2>1. \A q \in Proc : act[q].pc # "free" => act[q].turn \in 1..turns
    BY DEF Base, PlaceInv, PlaceOf, Busy
  <2>2. \A c \in Confirmation : conf[c].status = "awaiting" => conf[c].turn \in 1..turns
    BY DEF Base, PlaceInv
  <2>3. turns + 1 \notin 1..turns
    BY <1>1
  <2>4. \A q, s \in Proc : act'[q].pc # "free" /\ act'[s].pc # "free" /\ act'[q].turn = act'[s].turn
                             => q = s \/ Repeated(act'[q].turn)
    BY <1>1, <1>2, <2>1, <2>3 DEF Base, HolderInv, Busy
  <2>5. \A c \in Confirmation : conf'[c].status = "awaiting" /\ ~Repeated(conf'[c].turn) =>
          /\ \A q \in Proc : act'[q].pc # "free" => act'[q].turn # conf'[c].turn
          /\ \A d \in Confirmation :
               conf'[d].status = "awaiting" /\ conf'[d].turn = conf'[c].turn => d = c
    BY <1>1, <1>2, <2>2, <2>3 DEF Base, HolderInv, Busy
  <2> QED BY <2>0, <2>4, <2>5 DEF HolderInv, Busy, Repeated, RepeatedNext
<1> QED BY <1>5, <1>7, <1>8

\* A confirmation that comes again is counted for its turn.
LEMMA ConfirmAgain ==
  ASSUME TypeOK, NEW p \in Proc, NEW c \in Confirmation, NEW by \in Principal,
         NEW stale \in BOOLEAN, Confirm(p, c, by, stale)
  PROVE  Grows /\ (conf[c].status = "executing" => RepeatedNext(conf[c].turn))
<1>1. /\ conf[c].status \in {"awaiting", "executing"} /\ conf'[c].turn = conf[c].turn
      /\ \A d \in Confirmation : d # c => conf'[d] = conf[d] /\ again'[d] = again[d]
      /\ conf[c].status = "awaiting" => again' = again
      /\ conf[c].status = "executing" => again'[c] = again[c] + 1
  BY ConfirmEffect
<1>2. \A d \in Confirmation : again[d] \in Nat
  BY RuntimeAssumption DEF TypeOK
<1>3. \A d \in Confirmation : again[d] > 0 => conf'[d].turn = conf[d].turn /\ again'[d] > 0
  BY <1>1, <1>2
<1>4. conf[c].status = "executing" => again'[c] > 0
  BY <1>1, <1>2
<1> QED BY <1>1, <1>3, <1>4, RepeatedKept DEF RepeatedNext

LEMMA ConfirmStep ==
  ASSUME Base, NEW p \in Proc, NEW c \in Confirmation, NEW by \in Principal,
         NEW stale \in BOOLEAN, Confirm(p, c, by, stale)
  PROVE  TreeInv' /\ PlaceInv' /\ HolderInv'
<1>1. /\ conf[c].status \in {"awaiting", "executing"} /\ act[p].pc = "free"
      /\ conf'[c].turn = conf[c].turn /\ conf'[c].iter = conf[c].iter
      /\ \A d \in Confirmation : d # c => conf'[d] = conf[d]
      /\ \/ act' = act /\ conf'[c].status \in {"expired", "failed"}
         \/ Claims(p, c) /\ conf'[c].status = "executing"
      /\ turns' = turns
  BY ConfirmEffect DEF Base, Confirm
<1>2. conf'[c].status \in {"expired", "failed", "executing"}
  BY <1>1
<1>3. \A d \in Confirmation : conf'[d].status = "awaiting" =>
        d # c /\ conf[d].status = "awaiting" /\ conf'[d].turn = conf[d].turn
  BY <1>1, <1>2
<1>8. /\ conf[c].status = "awaiting" => again' = again
      /\ conf[c].status = "executing" => again'[c] = again[c] + 1
      /\ \A d \in Confirmation : d # c => again'[d] = again[d]
      /\ \A d \in Confirmation : again[d] \in 0..MaxRepeats /\ again'[d] \in 0..MaxRepeats
  BY ConfirmEffect DEF Base, TypeOK
<1>4. /\ \A d \in Confirmation : conf'[d].status # "none" =>
           conf'[d].turn \in 1..turns' /\ conf'[d].iter < MaxToolIterations
      /\ \A d \in Confirmation : again'[d] > 0 => conf'[d].status \notin {"none", "awaiting"}
  BY <1>1, <1>2, <1>8 DEF Base, PlaceInv
<1>5. \A q \in Proc : PlaceOf(q)
  BY DEF Base, PlaceInv
<1>9. Grows
  BY ConfirmAgain DEF Base
<1>10. conf[c].status = "executing" => RepeatedNext(conf[c].turn)
  BY ConfirmAgain DEF Base
<1>6. CASE act' = act
  <2>1. Carries
    BY <1>6 DEF Carries
  <2>2. HolderInv'
    BY <1>3, <1>9, <2>1, CarriesHolder
  <2>3. TreeInv'
    BY <1>6 DEF Base, TreeInv, Busy
  <2>4. \A q \in Proc : PlaceOf(q)'
    BY <1>1, <1>2, <1>5, <1>6 DEF PlaceOf, Busy
  <2> QED BY <1>4, <2>2, <2>3, <2>4 DEF PlaceInv
<1>7. CASE Claims(p, c) /\ conf'[c].status = "executing"
  <2>1. /\ act'[p].pc = "hook" /\ act'[p].turn = conf[c].turn /\ act'[p].conf = c
        /\ act'[p].parent = NoProc /\ \A q \in Proc : q # p => act'[q] = act[q]
    BY <1>7 DEF Claims, Alone
  <2>2. \A q \in Proc : PlaceOf(q)'
    <3> SUFFICES ASSUME NEW q \in Proc PROVE PlaceOf(q)'
      OBVIOUS
    <3>1. CASE q = p
      <4>1. conf[c].turn \in 1..turns
        BY <1>1 DEF Base, PlaceInv
      <4> QED BY <1>1, <1>7, <2>1, <3>1, <4>1 DEF PlaceOf, Busy
    <3>2. CASE q # p
      <4>1. act'[q] = act[q]
        BY <2>1, <3>2
      <4> QED BY <1>1, <1>2, <1>5, <4>1 DEF PlaceOf, Busy
    <3> QED BY <3>1, <3>2
  <2>3. \A q \in Proc : act[q].parent # p
    <3> SUFFICES ASSUME NEW q \in Proc, act[q].parent = p PROVE FALSE
      OBVIOUS
    <3>1. act[p].pc = "waits"
      BY RuntimeAssumption DEF Base, TreeInv
    <3> QED BY <1>1, <3>1
  <2>4. TreeInv'
    <3>1. ASSUME NEW q \in Proc
          PROVE  /\ act'[q].pc = "free" => act'[q].parent = NoProc
                 /\ act'[q].parent # NoProc =>
                      /\ act'[act'[q].parent].pc = "waits"
                      /\ act'[act'[q].parent].root = act'[q].root
                      /\ \A s \in Proc : act'[s].parent = act'[q].parent => s = q
      <4>1. CASE q = p
        BY <2>1, <4>1
      <4>2. CASE q # p
        <5>1. act'[q] = act[q] /\ act[q] \in Act
          BY <2>1, <4>2 DEF Base, TypeOK
        <5>2. CASE act[q].parent = NoProc
          BY <5>1, <5>2
        <5>3. CASE act[q].parent # NoProc
          <6>1. act[q].parent \in Proc /\ act[q].parent # p
            BY <2>3, <5>1, <5>3 DEF Act
          <6>2. act'[act[q].parent] = act[act[q].parent]
            BY <2>1, <6>1
          <6>3. \A s \in Proc : act'[s].parent = act[q].parent => s = q
            BY <2>1, <5>3 DEF Base, TreeInv
          <6> QED BY <5>1, <5>3, <6>2, <6>3 DEF Base, TreeInv, Busy
        <5> QED BY <5>2, <5>3
      <4> QED BY <4>1, <4>2
    <3> QED BY <3>1 DEF TreeInv, Busy
  <2>5. HolderInv'
    <3>0. /\ \A q \in Proc : act[q].pc # "free" => act[q].turn \in Turn
          /\ \A d \in Confirmation : conf[d].status # "none" => conf[d].turn \in Turn
      BY HeldTurns
    <3>1. \A q \in Proc : q # p /\ act'[q].pc # "free" =>
            /\ act'[q] = act[q]
            /\ act[q].turn # conf[c].turn \/ RepeatedNext(conf[c].turn)
      BY <1>1, <1>9, <1>10, <2>1, <3>0 DEF Base, HolderInv, Busy, Grows
    <3>2. ASSUME NEW q \in Proc, NEW s \in Proc, act'[q].pc # "free", act'[s].pc # "free",
                 act'[q].turn = act'[s].turn
          PROVE  q = s \/ RepeatedNext(act'[q].turn)
      <4>1. CASE q = p \/ s = p
        BY <2>1, <3>1, <3>2, <4>1
      <4>2. CASE q # p /\ s # p
        BY <1>9, <3>0, <3>1, <3>2, <4>2 DEF Base, HolderInv, Busy, Grows
      <4> QED BY <4>1, <4>2
    <3>3. ASSUME NEW d \in Confirmation, conf'[d].status = "awaiting",
                 ~RepeatedNext(conf'[d].turn)
          PROVE  /\ \A q \in Proc : act'[q].pc # "free" => act'[q].turn # conf'[d].turn
                 /\ \A e \in Confirmation :
                      conf'[e].status = "awaiting" /\ conf'[e].turn = conf'[d].turn => e = d
      <4>1. /\ d # c /\ conf[d].status = "awaiting" /\ conf'[d].turn = conf[d].turn
            /\ conf[d].turn \in Turn
        BY <1>3, <3>0, <3>3
      <4>2. ~Repeated(conf[d].turn)
        BY <1>9, <3>3, <4>1 DEF Grows
      <4>3. conf[d].turn # conf[c].turn
        <5>1. CASE conf[c].status = "awaiting"
          BY <4>1, <4>2, <5>1 DEF Base, HolderInv
        <5>2. CASE conf[c].status = "executing"
          BY <1>10, <3>3, <4>1, <5>2
        <5> QED BY <1>1, <5>1, <5>2
      <4> QED BY <1>1, <1>3, <2>1, <3>1, <4>1, <4>2, <4>3 DEF Base, HolderInv, Busy
    <3> QED BY <3>2, <3>3 DEF HolderInv, Busy, Repeated, RepeatedNext
  <2> QED BY <1>4, <2>2, <2>4, <2>5 DEF PlaceInv
<1> QED BY <1>1, <1>6, <1>7


LEMMA AsksStep ==
  ASSUME Base, NEW p \in Proc, Asks(p)
  PROVE  TreeInv' /\ PlaceInv' /\ HolderInv' /\ Carries
<1>1. /\ Ends(p) /\ act[p].pc = "ask" /\ turns' = turns /\ again' = again
      /\ conf' = conf \/ \E c \in Confirmation : Stores(p, c)
  BY AsksEffect DEF Base, Asks
<1>2. PlaceOf(p)'
  BY <1>1 DEF Ends, PlaceOf, Busy
<1>3. CASE conf' = conf
  BY <1>1, <1>2, <1>3, Quiet
<1>4. CASE \E c \in Confirmation : Stores(p, c)
  <2>1. PICK c \in Confirmation : Stores(p, c)
    BY <1>4
  <2>2. /\ conf[c].status = "none" /\ conf'[c].status = "awaiting"
        /\ conf'[c].turn = act[p].turn /\ conf'[c].iter = act[p].iter
        /\ \A d \in Confirmation : d # c => conf'[d] = conf[d]
    BY <2>1 DEF Stores
  <2>3. TreeInv' /\ Carries
    BY <1>1, EndsTree DEF Base
  <2>4. act[p].turn \in 1..turns /\ act[p].iter < MaxToolIterations
    BY <1>1 DEF Base, PlaceInv, PlaceOf, Busy
  <2>5. \A d \in Confirmation : conf'[d].status # "none" =>
          conf'[d].turn \in 1..turns' /\ conf'[d].iter < MaxToolIterations
    BY <1>1, <2>2, <2>4 DEF Base, PlaceInv
  <2>6. ASSUME NEW q \in Proc, q # p PROVE PlaceOf(q)'
    <3>1. PlaceOf(q)
      BY DEF Base, PlaceInv
    <3>2. act'[q] = act[q] \/ (act[q].pc = "waits" /\ Resumes(q))
      BY <1>1, <2>6 DEF Ends
    <3>3. CASE act'[q] = act[q]
      <4>1. act[q].pc \in {"hook", "settle"} => act[q].conf # c
        BY <2>2, <3>1 DEF PlaceOf, Busy
      <4> QED BY <1>1, <2>2, <3>1, <3>3, <4>1 DEF PlaceOf, Busy
    <3>4. CASE act[q].pc = "waits" /\ Resumes(q)
      <4>1. /\ act'[q].turn = act[q].turn /\ act'[q].pc \in {"calls", "model"}
            /\ act'[q].pc = "calls" => act'[q].iter = act[q].iter
        BY <3>4 DEF Resumes, Keeps
      <4> QED BY <1>1, <3>1, <3>4, <4>1 DEF PlaceOf, Busy
    <3> QED BY <3>2, <3>3, <3>4
  <2>14. \A d \in Confirmation : again[d] > 0 => d # c
    BY <2>2 DEF Base, PlaceInv
  <2>7. PlaceInv'
    <3>1. \A d \in Confirmation : again'[d] > 0 => conf'[d].status \notin {"none", "awaiting"}
      BY <1>1, <2>2, <2>14 DEF Base, PlaceInv
    <3> QED BY <1>2, <2>5, <2>6, <3>1 DEF PlaceInv
  <2>15. Grows
    BY <1>1, <2>2, <2>14, RepeatedKept
  <2>16. /\ \A q \in Proc : act[q].pc # "free" => act[q].turn \in Turn
         /\ \A d \in Confirmation : conf[d].status # "none" => conf[d].turn \in Turn
    BY HeldTurns
  <2>8. act'[p].pc = "free"
    BY <1>1 DEF Ends
  <2>9. \A q \in Proc : act'[q].pc # "free" =>
          /\ act[q].pc # "free" /\ act'[q].turn = act[q].turn
          /\ act[q].turn # act[p].turn \/ Repeated(act[p].turn)
    BY <1>1, <2>3, <2>8 DEF Carries, Base, HolderInv, Busy
  <2>10. \A d \in Confirmation :
           conf[d].status = "awaiting" /\ ~Repeated(conf[d].turn) => conf[d].turn # act[p].turn
    BY <1>1 DEF Base, HolderInv, Busy
  <2>11. ASSUME NEW q \in Proc, NEW s \in Proc, act'[q].pc # "free", act'[s].pc # "free",
                act'[q].turn = act'[s].turn
         PROVE  q = s \/ RepeatedNext(act'[q].turn)
    BY <2>9, <2>11, <2>15, <2>16 DEF Base, HolderInv, Busy, Grows
  <2>12. ASSUME NEW d \in Confirmation, conf'[d].status = "awaiting", ~RepeatedNext(conf'[d].turn)
         PROVE  /\ \A q \in Proc : act'[q].pc # "free" => act'[q].turn # conf'[d].turn
                /\ \A e \in Confirmation :
                     conf'[e].status = "awaiting" /\ conf'[e].turn = conf'[d].turn => e = d
    <3>1. CASE d = c
      <4>1. conf'[d].turn = act[p].turn /\ ~Repeated(act[p].turn)
        BY <1>1, <2>2, <2>12, <2>15, <2>16, <3>1 DEF Grows
      <4> QED BY <2>2, <2>9, <2>10, <3>1, <4>1
    <3>2. CASE d # c
      <4>1. conf'[d] = conf[d] /\ conf[d].status = "awaiting" /\ ~Repeated(conf[d].turn)
        BY <2>2, <2>12, <2>15, <2>16, <3>2 DEF Grows
      <4> QED BY <2>2, <2>9, <2>10, <4>1 DEF Base, HolderInv, Busy
    <3> QED BY <3>1, <3>2
  <2>13. HolderInv'
    BY <2>11, <2>12 DEF HolderInv, Busy, Repeated, RepeatedNext
  <2> QED BY <2>3, <2>7, <2>13
<1> QED BY <1>1, <1>3, <1>4

-----------------------------------------------------------------------------
(* Type correctness, and what a step does to who holds a turn              *)

LEMMA BaseInit == Init => Base
<1> SUFFICES ASSUME Init PROVE Base
  OBVIOUS
<1>1. /\ act = [p \in Proc |-> Free] /\ conf = [c \in Confirmation |-> NoRecord]
  BY DEF Init
<1>2. /\ \A p \in Proc : act[p] = Free /\ act[p].pc = "free" /\ act[p].parent = NoProc
      /\ \A c \in Confirmation : conf[c].status = "none"
  BY <1>1, FreeAct, NoRecordRecord
<1>3. TypeOK
  <2>1. act \in [Proc -> Act] /\ conf \in [Confirmation -> Record]
    BY <1>1, FreeAct, NoRecordRecord
  <2>2. /\ history \in [Agent -> SUBSET Turn] /\ policy \in {Gone} \cup 0..MaxEdits
        /\ turns \in 0..MaxTurns /\ calls \in [Turn -> Nat] /\ performed \in [Confirmation -> Nat]
        /\ again \in [Confirmation -> 0..MaxRepeats]
        /\ shown \in [Turn -> Nat] /\ unsure \subseteq Turn /\ saw \in [Turn -> SUBSET Turn]
        /\ faults \in 0..MaxFaults
    BY RuntimeAssumption DEF Init
  <2> QED BY <2>1, <2>2 DEF TypeOK
<1>4. TreeInv /\ PlaceInv /\ HolderInv
  <2>1. \A c \in Confirmation : ~(again[c] > 0)
    BY DEF Init
  <2> QED BY <1>2, <2>1 DEF TreeInv, PlaceInv, PlaceOf, HolderInv, Busy
<1> QED BY <1>3, <1>4 DEF Base

\* What the model's other variables may become.
RestType ==
  /\ history' \in [Agent -> SUBSET Turn]
  /\ policy' \in {Gone} \cup 0..MaxEdits
  /\ turns' \in 0..MaxTurns
  /\ calls' \in [Turn -> Nat]
  /\ performed' \in [Confirmation -> Nat]
  /\ again' = again
  /\ shown' \in [Turn -> Nat]
  /\ unsure' \subseteq Turn
  /\ saw' \in [Turn -> SUBSET Turn]
  /\ faults' \in 0..MaxFaults

\* A step of a coroutine by itself, at a place it may be.
LEMMA MoveBase ==
  ASSUME Base, NEW p \in Proc, act' \in [Proc -> Act], Keeps(p), Alone(p),
         act[p].pc \notin {"free", "waits"}, act'[p].pc \notin {"free", "waits"},
         act'[p].pc \in {"calls", "ask"} =>
           act[p].pc \in {"calls", "ask"} \/ act'[p].iter < MaxToolIterations,
         act'[p].pc \in {"calls", "ask"} => act'[p].iter = act[p].iter,
         act'[p].pc \in {"hook", "settle"} => act[p].pc = "hook",
         conf' = conf, turns' = turns, RestType
  PROVE  Base' /\ Carries
<1>1. Moves(p)
  BY DEF Moves
<1>2. PlaceOf(p) /\ act'[p].turn = act[p].turn /\ act'[p].conf = act[p].conf
  BY DEF Base, PlaceInv, Keeps
<1>3. PlaceOf(p)'
  BY <1>2 DEF PlaceOf, Busy
<1>4. TreeInv' /\ PlaceInv' /\ HolderInv' /\ Carries
  BY <1>1, <1>3, Quiet DEF RestType
<1>5. TypeOK'
  BY DEF TypeOK, Base, RestType
<1> QED BY <1>4, <1>5 DEF Base

\* The return of a coroutine that does not work for a record.
LEMMA EndBase ==
  ASSUME Base, NEW p \in Proc, act[p].pc \notin {"free", "waits"},
         act' \in [Proc -> Act], Ends(p), conf' = conf, turns' = turns, RestType
  PROVE  Base' /\ Carries
<1>1. PlaceOf(p)'
  BY DEF Ends, PlaceOf, Busy
<1>2. TreeInv' /\ PlaceInv' /\ HolderInv' /\ Carries
  BY <1>1, Quiet DEF RestType
<1>3. TypeOK'
  BY DEF TypeOK, Base, RestType
<1> QED BY <1>2, <1>3 DEF Base


\* The turn of a coroutine at work, among all turns.
LEMMA TurnOf ==
  ASSUME Base, NEW p \in Proc, act[p].pc # "free"
  PROVE  act[p].turn \in Turn /\ act[p].turn \in 1..turns /\ act[p] \in Act
<1>1. act[p].turn \in 1..turns /\ turns \in 0..MaxTurns /\ act[p] \in Act
  BY DEF Base, PlaceInv, PlaceOf, Busy, TypeOK
<1> QED BY <1>1, RuntimeAssumption DEF Turn

LEMMA FaultType == ASSUME faults \in 0..MaxFaults, Fault PROVE faults' \in 0..MaxFaults
BY RuntimeAssumption DEF Fault

\* One more of what is counted for each turn.
LEMMA CountedOnce ==
  ASSUME NEW S, NEW f \in [S -> Nat], NEW t \in S
  PROVE  [f EXCEPT ![t] = @ + 1] \in [S -> Nat]
OBVIOUS

LEMMA RequestsBase ==
  ASSUME Base, NEW p \in Proc, NEW n \in 1..MaxCalls, Requests(p, n)
  PROVE  Base' /\ Carries
<1>1. act' \in [Proc -> Act] /\ Goes(p, "model", "calls") /\ Alone(p)
  BY RequestsEffect DEF Base
<1>2. act[p].turn \in Turn
  BY <1>1, TurnOf DEF Goes
<1>3. act[p].iter < MaxToolIterations /\ conf' = conf /\ turns' = turns
  BY DEF Requests
<1>4. calls' \in [Turn -> Nat]
  BY <1>2 DEF Requests, Base, TypeOK
<1>5. RestType
  BY <1>4 DEF RestType, Requests, Base, TypeOK
<1> QED BY <1>1, <1>3, <1>5, MoveBase DEF Goes

LEMMA UsesBase ==
  ASSUME Base, NEW p \in Proc, Uses(p)
  PROVE  Base' /\ Carries /\ act' \in [Proc -> Act] /\ Goes(p, "calls", "ask") /\ Alone(p)
<1>1. act[p].pc = "calls" /\ conf' = conf /\ turns' = turns /\ "ask" \in Pc /\ act \in [Proc -> Act]
  BY DEF Uses, Pc, Base, TypeOK
<1>2. act' = [act EXCEPT ![p].pc = "ask"]
  BY DEF Uses
<1>3. /\ act' \in [Proc -> Act]
      /\ act'[p].pc = "ask" /\ act'[p].iter = act[p].iter /\ Keeps(p)
      /\ Alone(p)
  BY <1>1, <1>2, PlaceEffect, Zenon
<1>4. RestType
  BY DEF RestType, Uses, Base, TypeOK
<1> QED BY <1>1, <1>3, <1>4, MoveBase DEF Goes

LEMMA AnswersBase ==
  ASSUME Base, NEW p \in Proc, Answers(p)
  PROVE  Base' /\ Carries /\ act' \in [Proc -> Act] /\ Goes(p, "model", "finish") /\ Alone(p)
<1>1. /\ act[p].pc = "model" /\ conf' = conf /\ turns' = turns /\ "finish" \in Pc
      /\ act \in [Proc -> Act]
  BY DEF Answers, Pc, Base, TypeOK
<1>2. act' = [act EXCEPT ![p].pc = "finish"]
  BY DEF Answers
<1>3. /\ act' \in [Proc -> Act]
      /\ act'[p].pc = "finish" /\ act'[p].iter = act[p].iter /\ Keeps(p)
      /\ Alone(p)
  BY <1>1, <1>2, PlaceEffect, Zenon
<1>4. act[p].turn \in Turn
  BY <1>1, TurnOf
<1>5. calls' \in [Turn -> Nat]
  BY <1>4 DEF Answers, Base, TypeOK
<1>6. RestType
  BY <1>5 DEF RestType, Answers, Base, TypeOK
<1> QED BY <1>1, <1>3, <1>6, MoveBase DEF Goes

LEMMA CallsBase ==
  ASSUME Base, NEW p \in Proc, NEW accepted \in BOOLEAN, Calls(p, accepted)
  PROVE  Base' /\ Carries /\ act' \in [Proc -> Act] /\ Goes(p, "hook", "settle") /\ Alone(p)
<1>1. /\ act[p].pc = "hook" /\ conf' = conf /\ turns' = turns /\ "settle" \in Pc
      /\ act \in [Proc -> Act]
  BY DEF Calls, Pc, Base, TypeOK
<1>2. act' = [act EXCEPT ![p].pc = "settle"]
  BY DEF Calls
<1>3. /\ act' \in [Proc -> Act]
      /\ act'[p].pc = "settle" /\ act'[p].iter = act[p].iter /\ Keeps(p)
      /\ Alone(p)
  BY <1>1, <1>2, PlaceEffect, Zenon
<1>4. act[p].conf \in Confirmation
  BY <1>1 DEF Base, PlaceInv, PlaceOf, Busy
<1>5. performed' \in [Confirmation -> Nat]
  BY <1>4 DEF Calls, Base, TypeOK
<1>6. RestType
  BY <1>5 DEF RestType, Calls, Base, TypeOK
<1> QED BY <1>1, <1>3, <1>6, MoveBase DEF Goes

\* Local and AskDenied.
LEMMA LocalBase ==
  ASSUME Base, NEW p \in Proc, Local(p) \/ AskDenied(p)
  PROVE  Base' /\ Carries /\ act' \in [Proc -> Act] /\ Resumes(p) /\ Alone(p)
         /\ act[p].pc \in {"calls", "ask"}
<1>1. /\ act[p].pc \in {"calls", "ask"} /\ conf' = conf /\ turns' = turns
      /\ act' = [act EXCEPT ![p] = AfterCall(act[p])]
  BY DEF Local, AskDenied
<1>2. act' \in [Proc -> Act] /\ Resumes(p) /\ Alone(p)
  BY <1>1, LocalEffect DEF Base
<1>3. /\ act'[p].pc \in {"calls", "model"}
      /\ act'[p].pc = "calls" => act'[p].iter = act[p].iter
  BY <1>2 DEF Resumes
<1>4. RestType
  BY DEF RestType, Local, AskDenied, Base, TypeOK
<1> QED BY <1>1, <1>2, <1>3, <1>4, MoveBase DEF Resumes

LEMMA FailsBase ==
  ASSUME Base, NEW p \in Proc, ModelFails(p) \/ Delivers(p)
  PROVE  Base' /\ Carries /\ Ends(p)
<1>1. /\ act[p].pc \in {"model", "deliver"} /\ conf' = conf /\ turns' = turns
      /\ act' = Returned(p)
  BY DEF ModelFails, Delivers
<1>2. act' \in [Proc -> Act] /\ Ends(p)
  BY <1>1, ReturnedEffect DEF Base, Busy
<1>3. act[p].turn \in Turn
  BY <1>1, TurnOf
<1>4. shown' \in [Turn -> Nat]
  BY <1>3 DEF ModelFails, Delivers, Base, TypeOK
<1>5. RestType
  BY <1>4 DEF RestType, ModelFails, Delivers, Base, TypeOK
<1> QED BY <1>1, <1>2, <1>5, EndBase

LEMMA CompletesBase ==
  ASSUME Base, NEW p \in Proc,
         NEW live \in {"none", "shown", "lost", "failed"}, Completes(p, live)
  PROVE  /\ Base' /\ Carries /\ act' \in [Proc -> Act] /\ act[p].pc = "finish"
         /\ Ends(p) \/ (Alone(p) /\ Goes(p, "finish", "deliver") /\ live # "shown")
<1>1. /\ act' \in [Proc -> Act] /\ act[p].pc = "finish"
      /\ Ends(p) \/ (Alone(p) /\ Goes(p, "finish", "deliver") /\ live # "shown")
  BY CompletesEffect DEF Base
<1>2. conf' = conf /\ turns' = turns
  BY DEF Completes
<1>3. act[p].turn \in Turn /\ act[p] \in Act
  BY <1>1, TurnOf
<1>4. RestType
  <2>1. history' \in [Agent -> SUBSET Turn]
    <3>1. act[p].agent \in Agent /\ act[p].seen \cup {act[p].turn} \in SUBSET Turn
      BY <1>3 DEF Act
    <3>2. history' = history
          \/ history' = [history EXCEPT ![act[p].agent] = act[p].seen \cup {act[p].turn}]
      BY Zenon DEF Completes
    <3> QED BY <3>1, <3>2 DEF Base, TypeOK
  <2>2. faults' \in 0..MaxFaults
    <3>1. faults' = faults \/ Fault
      BY Zenon DEF Completes
    <3> QED BY <3>1, FaultType DEF Base, TypeOK
  <2>3. shown' \in [Turn -> Nat] /\ unsure' \subseteq Turn
    BY <1>3 DEF Completes, Base, TypeOK
  <2> QED BY <2>1, <2>2, <2>3 DEF RestType, Completes, Base, TypeOK
<1>5. CASE Ends(p)
  BY <1>1, <1>2, <1>4, <1>5, EndBase
<1>6. CASE Alone(p) /\ Goes(p, "finish", "deliver") /\ live # "shown"
  BY <1>1, <1>2, <1>4, <1>6, MoveBase DEF Goes
<1> QED BY <1>1, <1>5, <1>6


LEMMA AsksBase ==
  ASSUME Base, NEW p \in Proc, Asks(p)
  PROVE  Base'
<1>1. act' \in [Proc -> Act] /\ conf' \in [Confirmation -> Record]
  BY AsksEffect DEF Base
<1>2. faults' \in 0..MaxFaults
  <2>1. faults' = faults \/ Fault
    BY Zenon DEF Asks
  <2> QED BY <2>1, FaultType DEF Base, TypeOK
<1>3. TypeOK'
  BY <1>1, <1>2 DEF TypeOK, Base, Asks
<1> QED BY <1>3, AsksStep DEF Base

\* A record that is completed by a coroutine that works for it, or stays as
\* it is.
Finishes(p, status) ==
  \A c \in Confirmation :
    /\ conf'[c].turn = conf[c].turn /\ conf'[c].iter = conf[c].iter
    /\ conf'[c].seen = conf[c].seen
    /\ IF c = act[p].conf /\ conf[c].status = "executing" THEN conf'[c].status = status
       ELSE conf'[c] = conf[c]

LEMMA FinishesEffect ==
  ASSUME Base, NEW p \in Proc, act[p].pc \in {"hook", "settle"},
         NEW status \in {"succeeded", "failed", "executing"},
         IF status = "executing" THEN conf' = conf ELSE Complete(act[p].conf, status)
  PROVE  /\ conf' \in [Confirmation -> Record] /\ Finishes(p, status)
         /\ act[p].conf \in Confirmation
         /\ conf[act[p].conf].status \notin {"none", "awaiting"}
<1>1. /\ act[p].conf \in Confirmation /\ conf[act[p].conf].status \notin {"none", "awaiting"}
      /\ conf \in [Confirmation -> Record]
  BY DEF Base, PlaceInv, PlaceOf, Busy, TypeOK
<1> DEFINE c == act[p].conf
<1>2. c = act[p].conf
  OBVIOUS
<1> HIDE DEF c
<1>3. CASE status = "executing"
  BY <1>1, <1>3 DEF Finishes
<1>4. CASE status # "executing"
  <2>1. /\ conf' \in [Confirmation -> Record]
        /\ conf'[c].turn = conf[c].turn /\ conf'[c].iter = conf[c].iter
        /\ conf'[c].seen = conf[c].seen
        /\ conf[c].status = "executing" => conf'[c].status = status
        /\ conf[c].status # "executing" => conf'[c] = conf[c]
        /\ \A d \in Confirmation : d # c => conf'[d] = conf[d]
    BY <1>1, <1>2, <1>4, CompleteEffect
  <2> QED BY <1>1, <1>2, <2>1 DEF Finishes
<1> QED BY <1>1, <1>3, <1>4

LEMMA FinishesQuiet ==
  ASSUME Base, NEW p \in Proc, act[p].pc \in {"hook", "settle"},
         NEW status \in {"succeeded", "failed", "executing"}, Finishes(p, status),
         Moves(p) \/ Ends(p), turns' = turns, again' = again, PlaceOf(p)'
  PROVE  TreeInv' /\ PlaceInv' /\ HolderInv' /\ Carries
<1>1. ASSUME NEW c \in Confirmation
      PROVE  /\ conf'[c].turn = conf[c].turn /\ conf'[c].iter = conf[c].iter
             /\ conf'[c].status = "none" <=> conf[c].status = "none"
             /\ conf'[c].status = "awaiting" => conf[c].status = "awaiting"
             /\ conf'[c].status # conf[c].status =>
                  act[p].pc \in {"hook", "settle"} /\ c = act[p].conf
  BY DEF Finishes
<1> QED BY <1>1, Quiet

LEMMA HookDeniesBase ==
  ASSUME Base, NEW p \in Proc, HookDenies(p)
  PROVE  Base' /\ Carries /\ Ends(p) /\ Finishes(p, "failed") /\ act[p].pc = "hook"
<1>1. /\ act[p].pc = "hook" /\ turns' = turns /\ again' = again /\ act' = Returned(p)
      /\ Complete(act[p].conf, "failed")
  BY DEF HookDenies
<1>2. act' \in [Proc -> Act] /\ Ends(p)
  BY <1>1, ReturnedEffect DEF Base, Busy
<1>3. conf' \in [Confirmation -> Record] /\ Finishes(p, "failed")
  BY <1>1, FinishesEffect
<1>4. PlaceOf(p)'
  BY <1>2 DEF Ends, PlaceOf, Busy
<1>5. TreeInv' /\ PlaceInv' /\ HolderInv' /\ Carries
  BY <1>1, <1>2, <1>3, <1>4, FinishesQuiet
<1>6. TypeOK'
  BY <1>2, <1>3 DEF TypeOK, Base, HookDenies
<1> QED BY <1>1, <1>2, <1>3, <1>5, <1>6 DEF Base

LEMMA SettlesBase ==
  ASSUME Base, NEW p \in Proc, NEW status \in {"succeeded", "failed"}, Settles(p, status)
  PROVE  /\ Base' /\ Carries /\ act[p].pc = "settle"
         /\ \E s \in {"succeeded", "failed", "executing"} : Finishes(p, s)
         /\ \/ Ends(p)
            \/ /\ Keeps(p) /\ Alone(p) /\ act'[p].pc = "model"
               /\ act'[p].iter = conf[act[p].conf].iter + 1
<1>1. act[p].pc = "settle" /\ turns' = turns /\ again' = again
  BY DEF Settles
<1>2. CASE /\ Complete(act[p].conf, status)
           /\ act' = [act EXCEPT ![p].pc = "model", ![p].iter = conf[act[p].conf].iter + 1]
           /\ faults' = faults
  <2>1. /\ act' \in [Proc -> Act] /\ Keeps(p) /\ Alone(p)
        /\ act'[p].pc = "model" /\ act'[p].iter = conf[act[p].conf].iter + 1
    BY <1>1, <1>2, SettledEffect, Zenon DEF Base
  <2>2. conf' \in [Confirmation -> Record] /\ Finishes(p, status)
    <3>1. Complete(act[p].conf, status)
      BY <1>2, Zenon
    <3> QED BY <1>1, <3>1, FinishesEffect
  <2>3. Moves(p)
    BY <1>1, <2>1 DEF Moves
  <2>4. PlaceOf(p)'
    <3>1. act[p].turn \in 1..turns /\ act'[p].turn = act[p].turn
      BY <1>1, <2>1 DEF Base, PlaceInv, PlaceOf, Busy, Keeps
    <3> QED BY <1>1, <2>1, <3>1 DEF PlaceOf, Busy
  <2>5. TreeInv' /\ PlaceInv' /\ HolderInv' /\ Carries
    BY <1>1, <2>2, <2>3, <2>4, FinishesQuiet
  <2>6. faults' = faults
    BY <1>2, Zenon
  <2>7. TypeOK'
    BY <2>1, <2>2, <2>6 DEF TypeOK, Base, Settles
  <2> QED BY <1>1, <2>1, <2>2, <2>5, <2>7 DEF Base
<1>3. CASE /\ faults' = faults \/ Fault
           /\ Complete(act[p].conf, "failed") \/ conf' = conf
           /\ act' = Returned(p)
  <2>1. act' \in [Proc -> Act] /\ Ends(p)
    BY <1>1, <1>3, ReturnedEffect DEF Base, Busy
  <2>2. PICK s \in {"failed", "executing"} :
          IF s = "executing" THEN conf' = conf ELSE Complete(act[p].conf, s)
    BY <1>3
  <2>3. conf' \in [Confirmation -> Record] /\ Finishes(p, s)
    BY <1>1, <2>2, FinishesEffect
  <2>4. PlaceOf(p)'
    BY <2>1 DEF Ends, PlaceOf, Busy
  <2>5. TreeInv' /\ PlaceInv' /\ HolderInv' /\ Carries
    BY <1>1, <2>1, <2>3, <2>4, FinishesQuiet
  <2>6. faults' \in 0..MaxFaults
    BY <1>3, FaultType DEF Base, TypeOK
  <2>7. TypeOK'
    BY <2>1, <2>3, <2>6 DEF TypeOK, Base, Settles
  <2> QED BY <1>1, <2>1, <2>3, <2>5, <2>7 DEF Base
<1>4. \/ /\ Complete(act[p].conf, status)
         /\ act' = [act EXCEPT ![p].pc = "model", ![p].iter = conf[act[p].conf].iter + 1]
         /\ faults' = faults
      \/ /\ faults' = faults \/ Fault
         /\ Complete(act[p].conf, "failed") \/ conf' = conf
         /\ act' = Returned(p)
  BY Zenon DEF Settles
<1> QED BY <1>2, <1>3, <1>4, Zenon

LEMMA BeginBase ==
  ASSUME Base, NEW p \in Proc, NEW a \in Agent, NEW by \in Principal,
         NEW seen \in SUBSET Turn, NEW depth \in 0..TeammateDepth,
         NEW parent \in Proc \cup {NoProc},
         parent # NoProc => act[parent].pc = "calls",
         Begin(p, a, by, seen, depth, parent)
  PROVE  Base' /\ Begins(p, seen, parent)
<1>1. act' \in [Proc -> Act] /\ Begins(p, seen, parent)
  BY BeginEffect DEF Base
<1>2. turns' = turns + 1 /\ conf' = conf /\ again' = again /\ turns < MaxTurns
  BY DEF Begin
<1>3. TreeInv' /\ PlaceInv' /\ HolderInv'
  BY <1>1, <1>2, BeginStep
<1>4. turns' \in 0..MaxTurns
  BY <1>2, RuntimeAssumption DEF Base, TypeOK
<1>5. saw' \in [Turn -> SUBSET Turn]
  BY DEF Begin, Base, TypeOK
<1>6. TypeOK'
  BY <1>1, <1>4, <1>5 DEF TypeOK, Base, Begin
<1> QED BY <1>1, <1>3, <1>6 DEF Base

\* Run and Delegate.
LEMMA RunBase ==
  ASSUME Base, NEW p \in Proc, NEW a \in Agent, NEW by \in Principal, Run(p, a, by)
  PROVE  Base' /\ Begins(p, history[a], NoProc)
<1>1. history[a] \in SUBSET Turn /\ TeammateDepth \in 0..TeammateDepth
  BY RuntimeAssumption DEF Base, TypeOK
<1> QED BY <1>1, BeginBase DEF Run

LEMMA DelegateBase ==
  ASSUME Base, NEW p \in Proc, NEW q \in Proc, NEW a \in Agent, Delegate(p, q, a)
  PROVE  Base' /\ Begins(q, {}, p)
<1>1. /\ act[p] \in Act /\ act[p].pc = "calls" /\ act[p].depth > 0
      /\ Begin(q, a, act[p].by, {}, act[p].depth - 1, p)
  BY DEF Delegate, Base, TypeOK
<1>2. act[p].depth - 1 \in 0..TeammateDepth /\ act[p].by \in Principal
  BY <1>1, RuntimeAssumption DEF Act
<1>3. {} \in SUBSET Turn /\ p \in Proc \cup {NoProc}
  OBVIOUS
<1> QED BY <1>1, <1>2, <1>3, BeginBase

LEMMA ConfirmBase ==
  ASSUME Base, NEW p \in Proc, NEW c \in Confirmation, NEW by \in Principal,
         NEW stale \in BOOLEAN, Confirm(p, c, by, stale)
  PROVE  Base'
<1>1. /\ act' \in [Proc -> Act] /\ conf' \in [Confirmation -> Record]
      /\ again' \in [Confirmation -> 0..MaxRepeats]
  BY ConfirmEffect DEF Base
<1>2. TypeOK'
  BY <1>1 DEF TypeOK, Base, Confirm
<1> QED BY <1>2, ConfirmStep DEF Base

LEMMA StopBase ==
  ASSUME Base, NEW p \in Proc, Stop(p)
  PROVE  Base'
<1>1. act' \in [Proc -> Act]
  BY StopEffect DEF Base
<1>2. TypeOK'
  BY <1>1 DEF TypeOK, Base, Stop
<1> QED BY <1>2, StopStep DEF Base

\* A step that no coroutine takes.
LEMMA IdleBase ==
  ASSUME Base, (\E a \in Agent : Clear(a)) \/ Edit \/ UNCHANGED vars
  PROVE  Base'
<1>1. act' = act /\ conf' = conf /\ turns' = turns /\ again' = again
  BY DEF Clear, Edit, vars
<1>2. TreeInv' /\ PlaceInv' /\ HolderInv'
  BY <1>1 DEF Base, TreeInv, PlaceInv, PlaceOf, HolderInv, Busy, Repeated
<1>3. TypeOK'
  <2>1. history' \in [Agent -> SUBSET Turn]
    BY DEF Clear, Edit, vars, Base, TypeOK
  <2>2. policy' \in {Gone} \cup 0..MaxEdits
    BY RuntimeAssumption DEF Clear, Edit, vars, Base, TypeOK
  <2> QED BY <2>1, <2>2 DEF Clear, Edit, vars, Base, TypeOK
<1> QED BY <1>2, <1>3 DEF Base


LEMMA BaseNext == Base /\ [Next]_vars => Base'
<1> SUFFICES ASSUME Base, [Next]_vars PROVE Base'
  OBVIOUS
<1>1. ASSUME NEW p \in Proc, Proceed(p) PROVE Base'
  <2>1. CASE \E n \in 1..MaxCalls : Requests(p, n)
    BY <2>1, RequestsBase
  <2>2. CASE Answers(p)
    BY <2>2, AnswersBase
  <2>3. CASE ModelFails(p) \/ Delivers(p)
    BY <2>3, FailsBase
  <2>4. CASE Local(p) \/ AskDenied(p)
    BY <2>4, LocalBase
  <2>5. CASE Uses(p)
    BY <2>5, UsesBase
  <2>6. CASE \E q \in Proc, a \in Agent : Delegate(p, q, a)
    BY <2>6, DelegateBase
  <2>7. CASE \E live \in {"none", "shown", "lost", "failed"} : Completes(p, live)
    BY <2>7, CompletesBase
  <2>8. CASE Asks(p)
    BY <2>8, AsksBase
  <2>9. CASE HookDenies(p)
    BY <2>9, HookDeniesBase
  <2>10. CASE \E accepted \in BOOLEAN : Calls(p, accepted)
    BY <2>10, CallsBase
  <2>11. CASE \E status \in {"succeeded", "failed"} : Settles(p, status)
    BY <2>11, SettlesBase
  <2> QED BY <1>1, <2>1, <2>2, <2>3, <2>4, <2>5, <2>6, <2>7, <2>8, <2>9, <2>10, <2>11
       DEF Proceed
<1>2. CASE \E p \in Proc : Stop(p)
  BY <1>2, StopBase
<1>3. CASE \E p \in Proc, a \in Dispatched, by \in Principal : Run(p, a, by)
  BY <1>3, RunBase, RuntimeAssumption
<1>4. CASE \E p \in Proc, c \in Confirmation, by \in Principal, stale \in BOOLEAN :
             Confirm(p, c, by, stale)
  BY <1>4, ConfirmBase
<1>5. CASE (\E a \in Agent : Clear(a)) \/ Edit \/ UNCHANGED vars
  BY <1>5, IdleBase
<1> QED BY <1>1, <1>2, <1>3, <1>4, <1>5 DEF Next

\* In every reachable state a coroutine waits for at most one teammate, its
\* frames lie in one chain, and a turn is held by one coroutine or by the
\* record of a confirmation, unless a confirmation of the turn found its
\* record executing (_delegate_to_teammate, request_confirmation,
\* claim_pending): the invariant the other theorems start from.
THEOREM Invariant == Spec => []Base
<1>1. Init => Base
  BY BaseInit
<1>2. Base /\ [Next]_vars => Base'
  BY BaseNext
<1> QED BY <1>1, <1>2, PTL DEF Spec

\* Every variable keeps its type: rounds, calls and delegations stay within
\* their bounds, and a coroutine waits for at most one teammate
\* (_run_loop, _delegate_to_teammate).
THEOREM TypeCorrect == Spec => []TypeOK
<1>1. Base => TypeOK
  BY DEF Base
<1> QED BY <1>1, Invariant, PTL

-----------------------------------------------------------------------------
(* Confirmed calls                                                         *)

\* The record of a call that is over is the same ever after: whichever
\* handlers, cancellations and confirmations follow (complete_pending).
THEOREM OutcomesAreFinal == Spec => SettledIsFinal
<1>1. ASSUME Base, Next, NEW c \in Confirmation, conf[c].status \in Terminal
      PROVE  conf'[c] = conf[c]
  <2>1. conf[c].status \notin {"none", "awaiting", "executing"}
    BY <1>1 DEF Terminal
  <2>2. ASSUME NEW p \in Proc, NEW status, Finishes(p, status),
               act[p].pc \in {"hook", "settle"}
        PROVE  conf'[c] = conf[c]
    BY <2>1, <2>2 DEF Finishes
  <2>3. ASSUME NEW p \in Proc, Proceed(p) PROVE conf'[c] = conf[c]
    <3>1. CASE Asks(p)
      <4>1. conf' = conf \/ \E d \in Confirmation : Stores(p, d)
        BY <1>1, <3>1, AsksEffect DEF Base
      <4> QED BY <2>1, <4>1 DEF Stores
    <3>2. CASE HookDenies(p)
      <4>1. Finishes(p, "failed") /\ act[p].pc = "hook"
        BY <1>1, <3>2, HookDeniesBase
      <4> QED BY <2>2, <4>1
    <3>3. CASE \E status \in {"succeeded", "failed"} : Settles(p, status)
      <4>1. /\ \E s \in {"succeeded", "failed", "executing"} : Finishes(p, s)
            /\ act[p].pc = "settle"
        BY <1>1, <3>3, SettlesBase
      <4> QED BY <2>2, <4>1
    <3>4. CASE \E q \in Proc, a \in Agent : Delegate(p, q, a)
      BY <3>4 DEF Delegate, Begin
    <3>5. CASE \/ \E n \in 1..MaxCalls : Requests(p, n)
               \/ Answers(p) \/ ModelFails(p) \/ Local(p) \/ Uses(p)
               \/ \E live \in {"none", "shown", "lost", "failed"} : Completes(p, live)
               \/ Delivers(p) \/ AskDenied(p)
               \/ \E accepted \in BOOLEAN : Calls(p, accepted)
      <4>1. conf' = conf
        BY <3>5 DEF Requests, Answers, ModelFails, Local, Uses, Completes, Delivers, AskDenied, Calls
      <4> QED BY <4>1
    <3> QED BY <2>3, <3>1, <3>2, <3>3, <3>4, <3>5 DEF Proceed
  <2>4. CASE \/ \E p \in Proc : Stop(p)
             \/ \E p \in Proc, a \in Dispatched, by \in Principal : Run(p, a, by)
             \/ \E a \in Agent : Clear(a)
             \/ Edit
    BY <2>4 DEF Stop, Run, Begin, Clear, Edit
  <2>5. ASSUME NEW p \in Proc, NEW d \in Confirmation, NEW by \in Principal,
               NEW stale \in BOOLEAN, Confirm(p, d, by, stale)
        PROVE  conf'[c] = conf[c]
    <3>1. /\ conf[d].status \in {"awaiting", "executing"}
          /\ \A e \in Confirmation : e # d => conf'[e] = conf[e]
      BY <1>1, <2>5, ConfirmEffect DEF Base
    <3> QED BY <2>1, <3>1
  <2> QED BY <1>1, <2>3, <2>4, <2>5 DEF Next
<1>2. Base /\ [Next]_vars =>
        [\A c \in Confirmation : conf[c].status \in Terminal => conf'[c] = conf[c]]_conf
  BY <1>1 DEF vars
<1> QED BY <1>2, Invariant, PTL DEF Spec, SettledIsFinal


\* A step that lets no coroutine begin to work for a record.
NoNewHook ==
  \A q \in Proc : act'[q].pc \in {"hook", "settle"} =>
    /\ act[q].pc \in {"hook", "settle"} /\ act'[q].conf = act[q].conf
    /\ act'[q].pc = "hook" => act[q].pc = "hook"

\* A coroutine completes the record it works for and is done with it.
Done(c) ==
  /\ conf[c].status = "executing" /\ conf'[c].status \in {"succeeded", "failed"}
  /\ \E p \in Proc : /\ act[p].pc \in {"hook", "settle"} /\ act[p].conf = c
                     /\ act'[p].pc \notin {"hook", "settle"}

\* Steps that claim no record and carry no call out.
LEMMA PerformKept ==
  ASSUME Base, PerformInv, performed' = performed, again' = again, NoNewHook,
         \A c \in Confirmation :
           \/ conf'[c].status = conf[c].status
           \/ conf[c].status = "none" /\ conf'[c].status = "awaiting"
           \/ Done(c)
  PROVE  PerformInv'
<1>1. ASSUME NEW c \in Confirmation
      PROVE  /\ IsFiniteSet(Hooks(c)') /\ performed'[c] + Cardinality(Hooks(c)') <= Claimings(c)'
  <2> DEFINE S == Hooks(c)
             T == Hooks(c)'
  <2>1. T \in SUBSET S
    BY DEF NoNewHook, Hooks
  <2>2. IsFiniteSet(S) /\ performed[c] + Cardinality(S) <= Claimings(c)
    BY DEF PerformInv
  <2>3. Claimings(c)' = Claimings(c)
    BY DEF Claimings, Done
  <2>4. performed[c] \in Nat /\ Claimings(c) \in Nat
    BY RuntimeAssumption DEF Base, TypeOK, Claimings
  <2> HIDE DEF S, T
  <2>5. IsFiniteSet(T) /\ Cardinality(T) <= Cardinality(S)
    BY <2>1, <2>2, FS_Subset
  <2>6. Cardinality(T) \in Nat /\ Cardinality(S) \in Nat
    BY <2>2, <2>5, FS_CardinalityType
  <2>7. performed'[c] + Cardinality(T) <= Claimings(c)'
    BY <2>2, <2>3, <2>4, <2>5, <2>6
  <2> USE DEF T
  <2> QED BY <2>5, <2>7
<1>2. ASSUME NEW p \in Proc, act'[p].pc \in {"hook", "settle"}, again'[act'[p].conf] = 0
      PROVE  /\ conf'[act'[p].conf].status = "executing"
             /\ \A q \in Proc : act'[q].pc \in {"hook", "settle"} /\ act'[q].conf = act'[p].conf
                                  => q = p
  <2>1. /\ act[p].pc \in {"hook", "settle"} /\ act'[p].conf = act[p].conf
        /\ again[act[p].conf] = 0 /\ act[p].conf \in Confirmation
    BY <1>2 DEF NoNewHook, Base, PlaceInv, PlaceOf, Busy
  <2>2. /\ conf[act[p].conf].status = "executing"
        /\ \A q \in Proc : act[q].pc \in {"hook", "settle"} /\ act[q].conf = act[p].conf => q = p
    BY <2>1 DEF PerformInv
  <2>3. ~Done(act[p].conf)
    BY <1>2, <2>2 DEF Done
  <2>4. conf'[act[p].conf].status = "executing"
    BY <2>1, <2>2, <2>3
  <2> QED BY <2>1, <2>2, <2>4 DEF NoNewHook
<1>3. ConfirmedOnce'
  BY DEF PerformInv, ConfirmedOnce, Done, Base, TypeOK
<1> QED BY <1>1, <1>2, <1>3 DEF PerformInv

\* The coroutines that work for records after a step of one that claims none.
LEMMA HooksKept ==
  ASSUME NEW p \in Proc,
         \/ Ends(p)
         \/ Alone(p) /\ act'[p].pc \notin {"hook", "settle"}
  PROVE  NoNewHook /\ act'[p].pc \notin {"hook", "settle"}
<1> SUFFICES ASSUME NEW q \in Proc, act'[q].pc \in {"hook", "settle"}
             PROVE  act'[q] = act[q] /\ q # p
  BY DEF NoNewHook, Ends
<1>1. CASE Ends(p)
  <2>1. q # p
    BY <1>1 DEF Ends
  <2>2. act'[q] = act[q]
    BY <1>1, <2>1 DEF Ends, Resumes
  <2> QED BY <2>1, <2>2
<1>2. CASE Alone(p) /\ act'[p].pc \notin {"hook", "settle"}
  BY <1>2 DEF Alone
<1> QED BY <1>1, <1>2

LEMMA BeginsHooks ==
  ASSUME NEW p \in Proc, NEW seen, NEW parent \in Proc \cup {NoProc}, Begins(p, seen, parent)
  PROVE  NoNewHook
<1> SUFFICES ASSUME NEW q \in Proc, act'[q].pc \in {"hook", "settle"}
             PROVE  act'[q] = act[q]
  BY DEF NoNewHook
<1>1. q # p /\ q # parent
  BY RuntimeAssumption DEF Begins
<1> QED BY <1>1 DEF Begins

\* complete_pending, by a coroutine that is done with the record.
LEMMA FinishesDone ==
  ASSUME NEW p \in Proc, NEW s \in {"succeeded", "failed", "executing"}, Finishes(p, s),
         act[p].pc \in {"hook", "settle"}, act'[p].pc \notin {"hook", "settle"}
  PROVE  \A c \in Confirmation : conf'[c].status = conf[c].status \/ Done(c)
BY DEF Finishes, Done

\* The call is carried out, or not, by a coroutine whose hook has agreed.
LEMMA PerformCalls ==
  ASSUME Base, PerformInv, NEW p \in Proc, NEW accepted \in BOOLEAN, Calls(p, accepted)
  PROVE  PerformInv'
<1> DEFINE c == act[p].conf
<1>1. /\ Alone(p) /\ act[p].pc = "hook" /\ act'[p].pc = "settle"
      /\ act'[p].conf = act[p].conf /\ conf' = conf /\ again' = again
  BY CallsBase DEF Goes, Keeps, Calls
<1>2. c \in Confirmation /\ conf[c].status \notin {"none", "awaiting"}
  BY <1>1 DEF Base, PlaceInv, PlaceOf, Busy
<1>3. /\ performed' = performed \/ performed' = [performed EXCEPT ![c] = @ + 1]
      /\ performed \in [Confirmation -> Nat]
  BY DEF Calls, Base, TypeOK
<1>4. /\ \A d \in Confirmation : d # c => performed'[d] = performed[d]
      /\ performed'[c] \in Nat /\ performed[c] \in Nat /\ performed'[c] <= performed[c] + 1
      /\ \A d \in Confirmation : performed'[d] \in Nat
  BY <1>2, <1>3
<1>5. NoNewHook
  BY <1>1 DEF NoNewHook, Alone
<1>6. \A d \in Confirmation : Claimings(d)' = Claimings(d) /\ Claimings(d) \in Nat
  BY <1>1, RuntimeAssumption DEF Claimings, Base, TypeOK
<1>7. ASSUME NEW d \in Confirmation
      PROVE  IsFiniteSet(Hooks(d)') /\ performed'[d] + Cardinality(Hooks(d)') <= Claimings(d)'
  <2> DEFINE S == Hooks(d)
             T == Hooks(d)'
  <2>1. IsFiniteSet(S) /\ performed[d] + Cardinality(S) <= Claimings(d)
    BY DEF PerformInv
  <2>2. CASE d = c
    <3>1. T = S \ {p} /\ p \in S
      BY <1>1, <2>2 DEF Alone, Hooks
    <3> HIDE DEF S, T
    <3>2. IsFiniteSet(T) /\ Cardinality(T) = Cardinality(S) - 1 /\ Cardinality(S) \in Nat
      BY <2>1, <3>1, FS_RemoveElement, FS_CardinalityType
    <3>3. performed'[d] + Cardinality(T) <= Claimings(d)'
      BY <1>4, <1>6, <2>1, <2>2, <3>2
    <3> USE DEF T
    <3> QED BY <3>2, <3>3
  <2>3. CASE d # c
    <3>1. T = S
      BY <1>1, <2>3 DEF Alone, Hooks
    <3> HIDE DEF S, T
    <3>2. IsFiniteSet(T) /\ performed'[d] + Cardinality(T) <= Claimings(d)'
      BY <1>4, <1>6, <2>1, <2>3, <3>1
    <3> USE DEF T
    <3> QED BY <3>2
  <2> QED BY <2>2, <2>3
<1>8. ASSUME NEW q \in Proc, act'[q].pc \in {"hook", "settle"}, again'[act'[q].conf] = 0
      PROVE  /\ conf'[act'[q].conf].status = "executing"
             /\ \A s \in Proc : act'[s].pc \in {"hook", "settle"} /\ act'[s].conf = act'[q].conf
                                  => s = q
  BY <1>1, <1>5, <1>8 DEF PerformInv, NoNewHook
<1>9. ConfirmedOnce'
  <2>1. ASSUME NEW d \in Confirmation PROVE performed'[d] <= 1 + again'[d]
    <3>1. IsFiniteSet(Hooks(d)') /\ performed'[d] + Cardinality(Hooks(d)') <= Claimings(d)'
      BY <1>7
    <3>2. Cardinality(Hooks(d)') \in Nat
      BY <3>1, FS_CardinalityType
    <3>3. performed'[d] <= Claimings(d)
      BY <1>4, <1>6, <3>1, <3>2
    <3>4. Claimings(d) <= 1 + again[d] /\ again[d] \in Nat
      BY RuntimeAssumption DEF Claimings, Base, TypeOK
    <3> QED BY <1>1, <1>4, <1>6, <3>3, <3>4
  <2>2. ASSUME NEW d \in Confirmation, performed'[d] > 0
        PROVE  \/ conf'[d].status \in {"executing", "succeeded", "failed"}
               \/ conf'[d].status = "expired" /\ again'[d] > 0
    <3>1. CASE d = c
      <4>1. conf[d].status \in Status /\ again[d] \in Nat
        BY RuntimeAssumption DEF Base, TypeOK, Record
      <4>2. again[d] = 0 => conf[d].status = "executing"
        BY <1>1, <3>1 DEF PerformInv
      <4> QED BY <1>1, <1>2, <3>1, <4>1, <4>2 DEF Status
    <3>2. CASE d # c
      BY <1>1, <1>4, <2>2, <3>2 DEF PerformInv, ConfirmedOnce
    <3> QED BY <3>1, <3>2
  <2> QED BY <2>1, <2>2 DEF ConfirmedOnce
<1> QED BY <1>7, <1>8, <1>9 DEF PerformInv

\* A record that is awaiting has not been claimed; one that is executing may
\* be claimed again.
LEMMA PerformConfirm ==
  ASSUME Base, PerformInv, NEW p \in Proc, NEW c \in Confirmation, NEW by \in Principal,
         NEW stale \in BOOLEAN, Confirm(p, c, by, stale)
  PROVE  PerformInv'
<1>1. /\ conf[c].status \in {"awaiting", "executing"} /\ performed' = performed
      /\ act[p].pc = "free"
      /\ \A d \in Confirmation : d # c => conf'[d] = conf[d]
      /\ \/ act' = act /\ conf'[c].status \in {"expired", "failed"}
         \/ Claims(p, c) /\ conf'[c].status = "executing"
      /\ again' \in [Confirmation -> 0..MaxRepeats]
      /\ conf[c].status = "awaiting" => again' = again
      /\ conf[c].status = "executing" => again'[c] = again[c] + 1
      /\ \A d \in Confirmation : d # c => again'[d] = again[d]
  <2>1. TypeOK
    BY DEF Base
  <2>2. performed' = performed
    BY DEF Confirm
  <2> QED BY <2>1, <2>2, ConfirmEffect
<1>2. /\ performed \in [Confirmation -> Nat] /\ again \in [Confirmation -> 0..MaxRepeats]
      /\ \A d \in Confirmation : again[d] \in Nat /\ again'[d] \in Nat
  BY <1>1, RuntimeAssumption DEF Base, TypeOK
<1>3. conf[c].status = "awaiting" => again[c] = 0
  BY <1>2 DEF Base, PlaceInv
<1>4. /\ Claimings(c)' = Claimings(c) + 1
      /\ \A d \in Confirmation : d # c => Claimings(d)' = Claimings(d)
      /\ \A d \in Confirmation : Claimings(d) \in Nat
  BY <1>1, <1>2, <1>3 DEF Claimings
<1>5. \A q \in Proc : q # p => act'[q] = act[q]
  BY <1>1 DEF Claims, Alone
<1>6. act'[p] = act[p] \/ (act'[p].pc = "hook" /\ act'[p].conf = c)
  BY <1>1 DEF Claims
<1>7. ASSUME NEW d \in Confirmation
      PROVE  IsFiniteSet(Hooks(d)') /\ performed'[d] + Cardinality(Hooks(d)') <= Claimings(d)'
  <2> DEFINE S == Hooks(d)
             T == Hooks(d)'
  <2>1. IsFiniteSet(S) /\ performed[d] + Cardinality(S) <= Claimings(d)
    BY DEF PerformInv
  <2>2. T = S \/ (d = c /\ T = S \cup {p})
    <3>1. CASE act'[p] = act[p]
      BY <1>5, <3>1 DEF Hooks
    <3>2. CASE act'[p].pc = "hook" /\ act'[p].conf = c
      BY <1>1, <1>5, <3>2 DEF Hooks
    <3> QED BY <1>6, <3>1, <3>2
  <2> HIDE DEF S, T
  <2>3. /\ IsFiniteSet(T) /\ Cardinality(S) \in Nat /\ Cardinality(T) \in Nat
        /\ T = S \/ (d = c /\ Cardinality(T) <= Cardinality(S) + 1)
    <3>1. IsFiniteSet(T)
      BY <2>1, <2>2, FS_AddElement
    <3>2. Cardinality(S) \in Nat /\ Cardinality(T) \in Nat
      BY <2>1, <3>1, FS_CardinalityType
    <3>3. CASE d = c /\ T = S \cup {p}
      <4>1. Cardinality(T) = IF p \in S THEN Cardinality(S) ELSE Cardinality(S) + 1
        BY <2>1, <3>3, FS_AddElement
      <4> QED BY <3>1, <3>2, <3>3, <4>1
    <3> QED BY <2>2, <3>1, <3>2, <3>3
  <2>4. performed[d] \in Nat
    BY <1>2
  <2>5. performed'[d] + Cardinality(T) <= Claimings(d)'
    <3>1. CASE d = c
      BY <1>1, <1>4, <2>1, <2>3, <2>4, <3>1
    <3>2. CASE d # c
      BY <1>1, <1>4, <2>1, <2>3, <2>4, <3>2
    <3> QED BY <3>1, <3>2
  <2> USE DEF T
  <2> QED BY <2>3, <2>5
<1>8. \A q \in Proc : act[q].pc \in {"hook", "settle"} /\ act[q].conf = c =>
        conf[c].status = "executing"
  BY <1>1 DEF Base, PlaceInv, PlaceOf, Busy
<1>9. again'[c] = 0 => conf[c].status = "awaiting"
  BY <1>1, <1>2
<1>10. ASSUME NEW q \in Proc, act'[q].pc \in {"hook", "settle"}, again'[act'[q].conf] = 0
       PROVE  /\ conf'[act'[q].conf].status = "executing"
              /\ \A s \in Proc : act'[s].pc \in {"hook", "settle"} /\ act'[s].conf = act'[q].conf
                                   => s = q
  <2>1. CASE q = p
    <3>1. act'[p].conf = c /\ conf'[c].status = "executing"
      BY <1>1, <1>10, <2>1 DEF Claims
    <3>2. conf[c].status = "awaiting"
      BY <1>9, <1>10, <2>1, <3>1
    <3> QED BY <1>5, <1>8, <2>1, <3>1, <3>2
  <2>2. CASE q # p
    <3>1. act'[q] = act[q] /\ act[q].conf \in Confirmation
      BY <1>5, <1>10, <2>2 DEF Base, PlaceInv, PlaceOf, Busy
    <3>2. act[q].conf # c
      BY <1>8, <1>9, <1>10, <3>1
    <3>3. again[act[q].conf] = 0 /\ conf'[act[q].conf] = conf[act[q].conf]
      BY <1>1, <1>10, <3>1, <3>2
    <3>4. act'[p].pc \in {"hook", "settle"} => act'[p].conf = c
      BY <1>1, <1>6
    <3> QED BY <1>5, <1>10, <3>1, <3>2, <3>3, <3>4 DEF PerformInv
  <2> QED BY <2>1, <2>2
<1>11. ConfirmedOnce'
  <2>1. ASSUME NEW d \in Confirmation, d # c
        PROVE  /\ performed'[d] <= 1 + again'[d]
               /\ performed'[d] > 0 =>
                    \/ conf'[d].status \in {"executing", "succeeded", "failed"}
                    \/ conf'[d].status = "expired" /\ again'[d] > 0
    BY <1>1, <2>1 DEF PerformInv, ConfirmedOnce
  <2>2. performed[c] <= Claimings(c)
    <3>1. IsFiniteSet(Hooks(c)) /\ performed[c] + Cardinality(Hooks(c)) <= Claimings(c)
      BY DEF PerformInv
    <3>2. Cardinality(Hooks(c)) \in Nat
      BY <3>1, FS_CardinalityType
    <3> QED BY <1>2, <1>4, <3>1, <3>2
  <2>3. CASE conf[c].status = "awaiting"
    <3>1. performed'[c] = 0
      BY <1>1, <1>2, <2>2, <2>3 DEF Claimings
    <3> QED BY <1>2, <2>1, <3>1 DEF ConfirmedOnce
  <2>4. CASE conf[c].status = "executing"
    <3>1. performed'[c] <= 1 + again'[c] /\ again'[c] > 0
      BY <1>1, <1>2, <2>2, <2>4 DEF Claimings
    <3> QED BY <1>1, <2>1, <3>1 DEF ConfirmedOnce
  <2> QED BY <1>1, <2>3, <2>4
<1> QED BY <1>7, <1>10, <1>11 DEF PerformInv

LEMMA PerformNext == Base /\ PerformInv /\ [Next]_vars => PerformInv'
<1> SUFFICES ASSUME Base, PerformInv, [Next]_vars PROVE PerformInv'
  OBVIOUS
<1>1. ASSUME NEW p \in Proc, Proceed(p) PROVE PerformInv'
  <2>1. CASE \/ \E n \in 1..MaxCalls : Requests(p, n)
             \/ Answers(p) \/ Uses(p) \/ Local(p) \/ AskDenied(p)
    <3>1. Alone(p) /\ act'[p].pc \notin {"hook", "settle"}
      BY <2>1, RequestsEffect, AnswersBase, UsesBase, LocalBase DEF Base, Goes, Resumes
    <3>2. performed' = performed /\ again' = again /\ conf' = conf
      BY <2>1 DEF Requests, Answers, Uses, Local, AskDenied
    <3> QED BY <3>1, <3>2, HooksKept, PerformKept
  <2>2. CASE ModelFails(p) \/ Delivers(p)
    <3>1. Ends(p)
      BY <2>2, FailsBase
    <3>2. performed' = performed /\ again' = again /\ conf' = conf
      BY <2>2 DEF ModelFails, Delivers
    <3> QED BY <3>1, <3>2, HooksKept, PerformKept
  <2>3. CASE \E live \in {"none", "shown", "lost", "failed"} : Completes(p, live)
    <3>1. Ends(p) \/ (Alone(p) /\ act'[p].pc \notin {"hook", "settle"})
      BY <2>3, CompletesBase DEF Goes
    <3>2. performed' = performed /\ again' = again /\ conf' = conf
      BY <2>3 DEF Completes
    <3> QED BY <3>1, <3>2, HooksKept, PerformKept
  <2>4. CASE \E q \in Proc, a \in Agent : Delegate(p, q, a)
    <3>1. \E q \in Proc : Begins(q, {}, p)
      BY <2>4, DelegateBase
    <3>2. performed' = performed /\ again' = again /\ conf' = conf
      BY <2>4 DEF Delegate, Begin
    <3> QED BY <3>1, <3>2, BeginsHooks, PerformKept
  <2>5. CASE Asks(p)
    <3>1. Ends(p) /\ (conf' = conf \/ \E c \in Confirmation : Stores(p, c))
      BY <2>5, AsksEffect DEF Base
    <3>2. performed' = performed /\ again' = again
      BY <2>5 DEF Asks
    <3>3. \A c \in Confirmation :
            \/ conf'[c].status = conf[c].status
            \/ conf[c].status = "none" /\ conf'[c].status = "awaiting"
      BY <3>1 DEF Stores
    <3> QED BY <3>1, <3>2, <3>3, HooksKept, PerformKept
  <2>6. CASE HookDenies(p)
    <3>1. Ends(p) /\ Finishes(p, "failed") /\ act[p].pc = "hook"
      BY <2>6, HookDeniesBase
    <3>2. performed' = performed /\ again' = again
      BY <2>6 DEF HookDenies
    <3>3. \A c \in Confirmation : conf'[c].status = conf[c].status \/ Done(c)
      BY <3>1, HooksKept, FinishesDone
    <3> QED BY <3>1, <3>2, <3>3, HooksKept, PerformKept
  <2>7. CASE \E status \in {"succeeded", "failed"} : Settles(p, status)
    <3>1. /\ Ends(p) \/ (Alone(p) /\ act'[p].pc \notin {"hook", "settle"})
          /\ \E s \in {"succeeded", "failed", "executing"} : Finishes(p, s)
          /\ act[p].pc = "settle"
      BY <2>7, SettlesBase
    <3>2. performed' = performed /\ again' = again
      BY <2>7 DEF Settles
    <3>3. \A c \in Confirmation : conf'[c].status = conf[c].status \/ Done(c)
      BY <3>1, HooksKept, FinishesDone
    <3> QED BY <3>1, <3>2, <3>3, HooksKept, PerformKept
  <2>8. CASE \E accepted \in BOOLEAN : Calls(p, accepted)
    BY <2>8, PerformCalls
  <2> QED BY <1>1, <2>1, <2>2, <2>3, <2>4, <2>5, <2>6, <2>7, <2>8 DEF Proceed
<1>2. CASE \E p \in Proc : Stop(p)
  <2>1. performed' = performed /\ again' = again /\ conf' = conf
    BY <1>2 DEF Stop
  <2>2. \A q \in Proc : act'[q] = act[q] \/ act'[q].pc = "free"
    BY <1>2, StopEffect DEF Base
  <2>3. NoNewHook
    BY <2>2 DEF NoNewHook
  <2> QED BY <2>1, <2>3, PerformKept
<1>3. CASE \E p \in Proc, a \in Dispatched, by \in Principal : Run(p, a, by)
  <2>1. \E p \in Proc, a \in Agent : Begins(p, history[a], NoProc)
    BY <1>3, RunBase, RuntimeAssumption
  <2>2. performed' = performed /\ again' = again /\ conf' = conf
    BY <1>3 DEF Run, Begin
  <2> QED BY <2>1, <2>2, BeginsHooks, PerformKept
<1>4. CASE \E p \in Proc, c \in Confirmation, by \in Principal, stale \in BOOLEAN :
             Confirm(p, c, by, stale)
  BY <1>4, PerformConfirm
<1>5. CASE (\E a \in Agent : Clear(a)) \/ Edit \/ UNCHANGED vars
  <2>1. performed' = performed /\ again' = again /\ conf' = conf /\ act' = act
    BY <1>5 DEF Clear, Edit, vars
  <2>2. NoNewHook
    BY <2>1 DEF NoNewHook
  <2> QED BY <2>1, <2>2, PerformKept
<1> QED BY <1>1, <1>2, <1>3, <1>4, <1>5 DEF Next

\* A confirmed call is carried out at most as often as its record has been
\* claimed, which is once and once more for each confirmation that found it
\* executing, and only when it has been claimed, whatever confirmations,
\* hooks, cancellations and failures of the store interleave
\* (SessionStore.claim_pending, AgentExecutor.confirm).
THEOREM ConfirmedCallsRunOnce == Spec => []ConfirmedOnce
<1>1. Init => PerformInv
  <2> SUFFICES ASSUME Init PROVE PerformInv
    OBVIOUS
  <2>1. /\ \A p \in Proc : act[p].pc \notin {"hook", "settle"}
        /\ \A c \in Confirmation :
             performed[c] = 0 /\ again[c] = 0 /\ conf[c].status = "none"
    BY FreeAct, NoRecordRecord DEF Init
  <2>2. \A c \in Confirmation : Hooks(c) = {}
    BY <2>1 DEF Hooks
  <2>3. IsFiniteSet({}) /\ Cardinality({}) = 0
    BY FS_EmptySet
  <2>4. \A c \in Confirmation :
          IsFiniteSet(Hooks(c)) /\ performed[c] + Cardinality(Hooks(c)) <= Claimings(c)
    <3> SUFFICES ASSUME NEW c \in Confirmation
                 PROVE  IsFiniteSet(Hooks(c)) /\ performed[c] + Cardinality(Hooks(c)) <= Claimings(c)
      OBVIOUS
    <3>1. performed[c] = 0 /\ Claimings(c) = 0
      BY <2>1 DEF Claimings
    <3>2. IsFiniteSet(Hooks(c)) /\ Cardinality(Hooks(c)) = 0
      BY <2>2, <2>3
    <3> QED BY <3>1, <3>2
  <2>5. ConfirmedOnce
    BY <2>1 DEF ConfirmedOnce
  <2> QED BY <2>1, <2>4, <2>5 DEF PerformInv
<1>2. Base /\ PerformInv /\ [Next]_vars => PerformInv'
  BY PerformNext
<1>3. PerformInv => ConfirmedOnce
  BY DEF PerformInv
<1> QED BY <1>1, <1>2, <1>3, Invariant, PTL DEF Spec


-----------------------------------------------------------------------------
(* Rounds, answers and histories                                           *)

\* Records keep what they say of their turn, and none begins to wait.
RecordsKept ==
  \A c \in Confirmation :
    /\ conf'[c].turn = conf[c].turn /\ conf'[c].iter = conf[c].iter
    /\ conf'[c].seen = conf[c].seen
    /\ conf'[c].status = "awaiting" => conf[c].status = "awaiting"
    /\ conf'[c].status # "none" => conf[c].status # "none"

\* A coroutine that only watches a step, and one that a step resumes.
Watches(q) == act'[q] = act[q] \/ (act[q].pc = "waits" /\ Resumes(q))

\* Every step of a coroutine at work that begins no turn, stores no record
\* and is not its cancellation.
Works(p) ==
  /\ act[p].pc \notin {"free", "waits"}
  /\ act'[p].pc # "free" => Keeps(p)
  /\ \A q \in Proc : q # p => Watches(q)
  /\ turns' = turns /\ saw' = saw /\ again' = again

LEMMA MovesWorks ==
  ASSUME NEW p \in Proc, act[p].pc \notin {"free", "waits"},
         Ends(p) \/ (Keeps(p) /\ Alone(p)), turns' = turns, saw' = saw, again' = again
  PROVE  Works(p)
BY DEF Works, Ends, Alone, Watches

LEMMA SameRecords == conf' = conf => RecordsKept
BY DEF RecordsKept

LEMMA FinishesRecords ==
  ASSUME NEW p \in Proc, NEW s \in {"succeeded", "failed", "executing"}, Finishes(p, s)
  PROVE  RecordsKept
BY DEF Finishes, RecordsKept

\* What the steps of Proceed have in common.
LEMMA ProceedWorks ==
  ASSUME Base, NEW p \in Proc, Proceed(p)
  PROVE  \/ Works(p) /\ (RecordsKept \/ (Asks(p) /\ \E c \in Confirmation : Stores(p, c)))
         \/ \E q \in Proc, a \in Agent : Delegate(p, q, a)
<1>1. CASE \E n \in 1..MaxCalls : Requests(p, n)
  <2>1. act[p].pc = "model" /\ Keeps(p) /\ Alone(p) /\ turns' = turns /\ again' = again /\ saw' = saw /\ conf' = conf
    BY <1>1, RequestsEffect DEF Base, Goes, Requests
  <2> QED BY <2>1, MovesWorks, SameRecords
<1>2. CASE Answers(p)
  <2>1. act[p].pc = "model" /\ Keeps(p) /\ Alone(p) /\ turns' = turns /\ again' = again /\ saw' = saw /\ conf' = conf
    BY <1>2, AnswersBase DEF Goes, Answers
  <2> QED BY <2>1, MovesWorks, SameRecords
<1>3. CASE ModelFails(p) \/ Delivers(p)
  <2>1. act[p].pc \in {"model", "deliver"} /\ Ends(p) /\ turns' = turns /\ again' = again /\ saw' = saw /\ conf' = conf
    BY <1>3, FailsBase DEF ModelFails, Delivers
  <2> QED BY <2>1, MovesWorks, SameRecords
<1>4. CASE Local(p) \/ AskDenied(p)
  <2>1. act[p].pc \in {"calls", "ask"} /\ Keeps(p) /\ Alone(p)
    BY <1>4, LocalBase DEF Resumes
  <2>2. turns' = turns /\ again' = again /\ saw' = saw /\ conf' = conf
    BY <1>4 DEF Local, AskDenied
  <2> QED BY <2>1, <2>2, MovesWorks, SameRecords
<1>5. CASE Uses(p)
  <2>1. act[p].pc = "calls" /\ Keeps(p) /\ Alone(p) /\ turns' = turns /\ again' = again /\ saw' = saw /\ conf' = conf
    BY <1>5, UsesBase DEF Goes, Uses
  <2> QED BY <2>1, MovesWorks, SameRecords
<1>6. CASE \E live \in {"none", "shown", "lost", "failed"} : Completes(p, live)
  <2>1. act[p].pc = "finish" /\ (Ends(p) \/ (Keeps(p) /\ Alone(p)))
    BY <1>6, CompletesBase DEF Goes
  <2>2. turns' = turns /\ again' = again /\ saw' = saw /\ conf' = conf
    BY <1>6 DEF Completes
  <2> QED BY <2>1, <2>2, MovesWorks, SameRecords
<1>7. CASE Asks(p)
  <2>1. /\ act[p].pc = "ask" /\ Ends(p) /\ turns' = turns /\ again' = again /\ saw' = saw
        /\ conf' = conf \/ \E c \in Confirmation : Stores(p, c)
    BY <1>7, AsksEffect DEF Base, Asks
  <2> QED BY <1>7, <2>1, MovesWorks, SameRecords
<1>8. CASE HookDenies(p)
  <2>1. act[p].pc = "hook" /\ Ends(p) /\ Finishes(p, "failed") /\ turns' = turns /\ again' = again /\ saw' = saw
    BY <1>8, HookDeniesBase DEF HookDenies
  <2> QED BY <2>1, MovesWorks, FinishesRecords
<1>9. CASE \E accepted \in BOOLEAN : Calls(p, accepted)
  <2>1. act[p].pc = "hook" /\ Keeps(p) /\ Alone(p) /\ turns' = turns /\ again' = again /\ saw' = saw /\ conf' = conf
    BY <1>9, CallsBase DEF Goes, Calls
  <2> QED BY <2>1, MovesWorks, SameRecords
<1>10. CASE \E status \in {"succeeded", "failed"} : Settles(p, status)
  <2>1. /\ act[p].pc = "settle" /\ (Ends(p) \/ (Keeps(p) /\ Alone(p)))
        /\ turns' = turns /\ again' = again /\ saw' = saw
        /\ \E s \in {"succeeded", "failed", "executing"} : Finishes(p, s)
    BY <1>10, SettlesBase DEF Settles
  <2> QED BY <2>1, MovesWorks, FinishesRecords
<1> QED BY <1>1, <1>2, <1>3, <1>4, <1>5, <1>6, <1>7, <1>8, <1>9, <1>10 DEF Proceed


LEMMA WatchedSeen ==
  ASSUME NEW q, Watches(q), act'[q].pc # "free"
  PROVE  act[q].pc # "free" /\ act'[q].turn = act[q].turn /\ act'[q].seen = act[q].seen
BY DEF Watches, Resumes, Keeps

LEMMA WorksSeen ==
  ASSUME NEW p \in Proc, Works(p), NEW q \in Proc, act'[q].pc # "free"
  PROVE  act[q].pc # "free" /\ act'[q].turn = act[q].turn /\ act'[q].seen = act[q].seen
BY WatchedSeen DEF Works, Keeps

\* What has been seen stays closed when a turn begins.
ClosedNext(S) == \A t \in S : t <= turns' /\ saw'[t] \subseteq S

LEMMA ClosedLater ==
  ASSUME NEW S \in SUBSET Turn, Closed(S), NEW seen, turns \in Nat, saw \in [Turn -> SUBSET Turn],
         turns' = turns + 1, saw' = [saw EXCEPT ![turns + 1] = seen]
  PROVE  ClosedNext(S)
BY DEF Closed, ClosedNext, Turn

\* The invariant of the state after a step.
LEMMA SeenNext ==
  ASSUME \A a \in Agent : ClosedNext(history'[a]),
         \A q \in Proc : act'[q].pc # "free" =>
           ClosedNext(act'[q].seen) /\ saw'[act'[q].turn] \subseteq act'[q].seen,
         \A c \in Confirmation : conf'[c].status # "none" =>
           ClosedNext(conf'[c].seen) /\ saw'[conf'[c].turn] \subseteq conf'[c].seen
  PROVE  SeenInv'
BY DEF SeenInv, Closed, ClosedNext, Busy

LEMMA BeginSeen ==
  ASSUME Base, SeenInv, NEW p \in Proc, NEW seen \in SUBSET Turn, Closed(seen),
         NEW parent \in Proc \cup {NoProc}, Begins(p, seen, parent),
         turns' = turns + 1, turns < MaxTurns, saw' = [saw EXCEPT ![turns + 1] = seen],
         history' = history, conf' = conf
  PROVE  SeenInv'
<1>1. /\ turns \in Nat /\ turns + 1 \in Turn /\ saw \in [Turn -> SUBSET Turn]
      /\ act \in [Proc -> Act] /\ conf \in [Confirmation -> Record]
      /\ history \in [Agent -> SUBSET Turn]
  BY RuntimeAssumption DEF Base, TypeOK, Turn
<1>2. \A S \in SUBSET Turn : Closed(S) => ClosedNext(S)
  BY <1>1, ClosedLater
<1>3. saw'[turns + 1] = seen /\ \A t \in Turn : t <= turns => saw'[t] = saw[t]
  BY <1>1
<1>4. \A a \in Agent : ClosedNext(history'[a])
  BY <1>1, <1>2 DEF SeenInv
<1>5. ASSUME NEW q \in Proc, act'[q].pc # "free"
      PROVE  ClosedNext(act'[q].seen) /\ saw'[act'[q].turn] \subseteq act'[q].seen
  <2>1. CASE q = p
    BY <1>2, <1>3, <2>1 DEF Begins
  <2>2. CASE q # p
    <3>1. act[q].pc # "free" /\ act'[q].turn = act[q].turn /\ act'[q].seen = act[q].seen
      BY <1>5, <2>2, RuntimeAssumption DEF Begins, Keeps
    <3>2. act[q].turn \in Turn /\ act[q].turn <= turns /\ act[q].seen \in SUBSET Turn
      BY <1>1, <3>1, TurnOf DEF Act
    <3>3. Closed(act[q].seen) /\ saw[act[q].turn] \subseteq act[q].seen
      BY <3>1 DEF SeenInv, Busy
    <3> QED BY <1>2, <1>3, <3>1, <3>2, <3>3
  <2> QED BY <2>1, <2>2
<1>6. ASSUME NEW c \in Confirmation, conf'[c].status # "none"
      PROVE  ClosedNext(conf'[c].seen) /\ saw'[conf'[c].turn] \subseteq conf'[c].seen
  <2>1. conf[c].turn \in 1..turns /\ conf[c].seen \in SUBSET Turn /\ conf'[c] = conf[c]
    BY <1>1, <1>6 DEF Base, PlaceInv, Record
  <2>2. conf[c].turn \in Turn /\ conf[c].turn <= turns
    BY <1>1, <2>1, RuntimeAssumption DEF Turn
  <2>3. Closed(conf[c].seen) /\ saw[conf[c].turn] \subseteq conf[c].seen
    BY <1>6, <2>1 DEF SeenInv
  <2>4. ClosedNext(conf[c].seen)
    BY <1>2, <2>1, <2>3
  <2>5. saw'[conf[c].turn] = saw[conf[c].turn]
    BY <1>3, <2>2
  <2> QED BY <2>1, <2>3, <2>4, <2>5
<1> QED BY <1>4, <1>5, <1>6, SeenNext

\* Steps that begin no turn.
LEMMA SteadySeen ==
  ASSUME SeenInv, turns' = turns, saw' = saw,
         \A q \in Proc : act'[q].pc # "free" =>
           \/ /\ act[q].pc # "free" /\ act'[q].turn = act[q].turn
              /\ act'[q].seen = act[q].seen
           \/ \E c \in Confirmation :
                /\ conf[c].status # "none"
                /\ act'[q].turn = conf[c].turn /\ act'[q].seen = conf[c].seen,
         \A c \in Confirmation : conf'[c].status # "none" =>
           \/ /\ conf[c].status # "none" /\ conf'[c].turn = conf[c].turn
              /\ conf'[c].seen = conf[c].seen
           \/ \E p \in Proc :
                /\ act[p].pc # "free"
                /\ conf'[c].turn = act[p].turn /\ conf'[c].seen = act[p].seen,
         \A a \in Agent :
           \/ history'[a] \in {history[a], {}}
           \/ \E p \in Proc :
                act[p].pc # "free" /\ act[p].turn \in 1..turns
                /\ history'[a] = act[p].seen \cup {act[p].turn}
  PROVE  SeenInv'
<1>1. \A S : Closed(S) <=> ClosedNext(S)
  BY DEF Closed, ClosedNext
<1>2. ASSUME NEW q \in Proc, act'[q].pc # "free"
      PROVE  ClosedNext(act'[q].seen) /\ saw'[act'[q].turn] \subseteq act'[q].seen
  BY <1>1, <1>2 DEF SeenInv, Busy
<1>3. ASSUME NEW c \in Confirmation, conf'[c].status # "none"
      PROVE  ClosedNext(conf'[c].seen) /\ saw'[conf'[c].turn] \subseteq conf'[c].seen
  BY <1>1, <1>3 DEF SeenInv, Busy
<1>4. ASSUME NEW a \in Agent PROVE ClosedNext(history'[a])
  <2>1. CASE history'[a] \in {history[a], {}}
    <3>1. ClosedNext({})
      BY DEF ClosedNext
    <3> QED BY <1>1, <2>1, <3>1 DEF SeenInv
  <2>2. ASSUME NEW p \in Proc, act[p].pc # "free", act[p].turn \in 1..turns,
               history'[a] = act[p].seen \cup {act[p].turn}
        PROVE  ClosedNext(history'[a])
    <3>1. Closed(act[p].seen) /\ saw[act[p].turn] \subseteq act[p].seen
      BY <2>2 DEF SeenInv, Busy
    <3>2. act[p].turn <= turns
      BY <2>2
    <3> QED BY <2>2, <3>1, <3>2 DEF Closed, ClosedNext
  <2> QED BY <2>1, <2>2
<1> QED BY <1>2, <1>3, <1>4, SeenNext


LEMMA SeenNextStep == Base /\ SeenInv /\ [Next]_vars => SeenInv'
<1> SUFFICES ASSUME Base, SeenInv, [Next]_vars PROVE SeenInv'
  OBVIOUS
<1>1. ASSUME NEW p \in Proc, Proceed(p) PROVE SeenInv'
  <2>1. CASE \E q \in Proc, a \in Agent : Delegate(p, q, a)
    <3>1. PICK q \in Proc, a \in Agent : Delegate(p, q, a)
      BY <2>1
    <3>2. Begins(q, {}, p)
      BY <3>1, DelegateBase
    <3>3. /\ turns' = turns + 1 /\ turns < MaxTurns /\ saw' = [saw EXCEPT ![turns + 1] = {}]
          /\ history' = history /\ conf' = conf
      BY <3>1 DEF Delegate, Begin
    <3>4. Closed({}) /\ {} \in SUBSET Turn
      BY DEF Closed
    <3> QED BY <3>2, <3>3, <3>4, BeginSeen
  <2>2. CASE ~ \E q \in Proc, a \in Agent : Delegate(p, q, a)
    <3>1. Works(p) /\ (RecordsKept \/ (Asks(p) /\ \E c \in Confirmation : Stores(p, c)))
      BY <1>1, <2>2, ProceedWorks
    <3>2. /\ turns' = turns /\ saw' = saw
          /\ \A q \in Proc : act'[q].pc # "free" =>
               act[q].pc # "free" /\ act'[q].turn = act[q].turn /\ act'[q].seen = act[q].seen
      BY <3>1, WorksSeen DEF Works
    <3>3. act[p].pc # "free" /\ act[p].turn \in 1..turns
      BY <3>1, TurnOf DEF Works
    <3>4. \A c \in Confirmation : conf'[c].status # "none" =>
            \/ /\ conf[c].status # "none" /\ conf'[c].turn = conf[c].turn
               /\ conf'[c].seen = conf[c].seen
            \/ conf'[c].turn = act[p].turn /\ conf'[c].seen = act[p].seen
      BY <3>1 DEF RecordsKept, Stores
    <3>5. \A a \in Agent : history'[a] = history[a] \/ history'[a] = act[p].seen \cup {act[p].turn}
      <4>1. history' = history
            \/ history' = [history EXCEPT ![act[p].agent] = act[p].seen \cup {act[p].turn}]
        BY <1>1, <2>2, Zenon DEF Proceed, Requests, Answers, ModelFails, Local, Uses, Completes,
             Delivers, Asks, AskDenied, HookDenies, Calls, Settles
      <4>2. history \in [Agent -> SUBSET Turn]
        BY DEF Base, TypeOK
      <4> QED BY <4>1, <4>2
    <3> QED BY <3>2, <3>3, <3>4, <3>5, SteadySeen
  <2> QED BY <2>1, <2>2
<1>2. CASE \E p \in Proc : Stop(p)
  <2>1. turns' = turns /\ saw' = saw /\ conf' = conf /\ history' = history
    BY <1>2 DEF Stop
  <2>2. \A q \in Proc : act'[q] = act[q] \/ act'[q].pc = "free"
    BY <1>2, StopEffect DEF Base
  <2> QED BY <2>1, <2>2, SteadySeen
<1>3. ASSUME NEW p \in Proc, NEW a \in Agent, NEW by \in Principal, Run(p, a, by) PROVE SeenInv'
  <2>1. Begins(p, history[a], NoProc)
    BY <1>3, RunBase
  <2>2. /\ turns' = turns + 1 /\ turns < MaxTurns /\ saw' = [saw EXCEPT ![turns + 1] = history[a]]
        /\ history' = history /\ conf' = conf
    BY <1>3 DEF Run, Begin
  <2>3. Closed(history[a]) /\ history[a] \in SUBSET Turn /\ NoProc \in Proc \cup {NoProc}
    BY DEF SeenInv, Base, TypeOK
  <2> QED BY <2>1, <2>2, <2>3, BeginSeen
<1>4. ASSUME NEW p \in Proc, NEW c \in Confirmation, NEW by \in Principal,
             NEW stale \in BOOLEAN, Confirm(p, c, by, stale)
      PROVE  SeenInv'
  <2>0. turns' = turns /\ saw' = saw /\ history' = history
    BY <1>4 DEF Confirm
  <2>1. /\ conf[c].status # "none"
        /\ conf'[c].turn = conf[c].turn /\ conf'[c].seen = conf[c].seen
        /\ \A d \in Confirmation : d # c => conf'[d] = conf[d]
        /\ act' = act \/ Claims(p, c)
    BY <1>4, ConfirmEffect DEF Base
  <2>2. \A q \in Proc : act'[q] = act[q] \/ (act'[q].turn = conf[c].turn /\ act'[q].seen = conf[c].seen)
    BY <2>1 DEF Claims, Alone
  <2>3. \A d \in Confirmation : conf'[d].status # "none" =>
          /\ conf[d].status # "none" /\ conf'[d].turn = conf[d].turn
          /\ conf'[d].seen = conf[d].seen
    BY <2>1
  <2> QED BY <2>0, <2>1, <2>2, <2>3, SteadySeen
<1>5. CASE (\E a \in Agent : Clear(a)) \/ Edit \/ UNCHANGED vars
  <2>1. turns' = turns /\ saw' = saw /\ conf' = conf /\ act' = act
    BY <1>5 DEF Clear, Edit, vars
  <2>2. \A a \in Agent : history'[a] \in {history[a], {}}
    BY <1>5 DEF Clear, Edit, vars, Base, TypeOK
  <2> QED BY <2>1, <2>2, SteadySeen
<1> QED BY <1>1, <1>2, <1>3, <1>4, <1>5, RuntimeAssumption DEF Next

\* A stored history holds with every turn those it had seen, although runs
\* read it before their awaits and write it back whole after them, records
\* keep old histories, and it is deleted in between (save_history).
THEOREM HistoriesAreClosed == Spec => []HistoryClosed
<1>1. Init => SeenInv
  <2> SUFFICES ASSUME Init PROVE SeenInv
    OBVIOUS
  <2>1. /\ \A p \in Proc : act[p].pc = "free"
        /\ \A c \in Confirmation : conf[c].status = "none"
        /\ \A a \in Agent : history[a] = {}
    BY FreeAct, NoRecordRecord DEF Init
  <2> QED BY <2>1 DEF SeenInv, Closed, Busy
<1>2. Base /\ SeenInv /\ [Next]_vars => SeenInv'
  BY SeenNextStep
<1>3. SeenInv => HistoryClosed
  BY DEF SeenInv, Closed, HistoryClosed
<1> QED BY <1>1, <1>2, <1>3, Invariant, PTL DEF Spec


-----------------------------------------------------------------------------
(* What is counted for each turn: only its holder can add to it, unless a  *)
(* confirmation of the turn has come again                                 *)

LEMMA OthersTurns ==
  ASSUME Base, NEW p \in Proc, act[p].pc # "free"
  PROVE  /\ act[p].turn \in Turn /\ act[p].turn <= turns
         /\ \A q \in Proc : q # p /\ act[q].pc # "free" =>
              /\ act[q].turn \in Turn
              /\ act[q].turn # act[p].turn \/ Repeated(act[p].turn)
         /\ \A c \in Confirmation : conf[c].status = "awaiting" =>
              /\ conf[c].turn \in Turn
              /\ conf[c].turn # act[p].turn \/ Repeated(act[p].turn)
<1>1. act[p].turn \in Turn /\ act[p].turn <= turns
  <2>1. act[p].turn \in Turn /\ act[p].turn \in 1..turns /\ turns \in 0..MaxTurns
    BY TurnOf DEF Base, TypeOK
  <2> QED BY <2>1, RuntimeAssumption
<1>2. /\ \A q \in Proc : act[q].pc # "free" => act[q].turn \in Turn
      /\ \A c \in Confirmation : conf[c].status # "none" => conf[c].turn \in Turn
  BY HeldTurns
<1>3. \A q \in Proc : q # p /\ act[q].pc # "free" =>
        act[q].turn # act[p].turn \/ Repeated(act[p].turn)
  BY DEF Base, HolderInv, Busy
<1>4. \A c \in Confirmation : conf[c].status = "awaiting" =>
        conf[c].turn # act[p].turn \/ Repeated(act[p].turn)
  BY DEF Base, HolderInv, Busy
<1> QED BY <1>1, <1>2, <1>3, <1>4

\* What a step of a coroutine at work leaves of the records, whether it stores
\* one or not.
TurnsKept ==
  \A c \in Confirmation : conf[c].status # "none" =>
    conf'[c].turn = conf[c].turn /\ conf'[c].iter = conf[c].iter

LEMMA RecordsTurns ==
  ASSUME NEW p \in Proc, RecordsKept \/ \E c \in Confirmation : Stores(p, c)
  PROVE  /\ TurnsKept
         /\ \A c \in Confirmation : conf'[c].status = "awaiting" =>
              \/ conf[c].status = "awaiting"
              \/ conf'[c].turn = act[p].turn /\ conf'[c].iter = act[p].iter
BY DEF RecordsKept, Stores, TurnsKept

LEMMA TurnsGrow ==
  ASSUME Base, TurnsKept, again' = again
  PROVE  Grows
BY RepeatedKept DEF TurnsKept, Base, PlaceInv

\* The invariant of the state after a step.
LEMMA RoundAfter ==
  ASSUME \A q \in Proc : act'[q].pc # "free" /\ ~RepeatedNext(act'[q].turn) => RoundAt(q)',
         \A c \in Confirmation : conf'[c].status = "awaiting" /\ ~RepeatedNext(conf'[c].turn) =>
           calls'[conf'[c].turn] <= conf'[c].iter + 1,
         \A t \in Turn : t > turns' => calls'[t] = 0,
         \A t \in Turn : ~RepeatedNext(t) => calls'[t] <= MaxToolIterations + 1
  PROVE  RoundInv'
<1>1. \A q \in Proc : RoundOf(q)'
  BY DEF RoundOf, Busy, Repeated, RepeatedNext
<1>2. ModelCallsBounded'
  BY DEF ModelCallsBounded, Repeated, RepeatedNext
<1> QED BY <1>1, <1>2 DEF RoundInv, Repeated, RepeatedNext

\* A coroutine that watches a step which leaves the count of its turn.
LEMMA RoundWatched ==
  ASSUME Base, RoundInv, TurnsKept, NEW q \in Proc, Watches(q), act'[q].pc # "free",
         ~Repeated(act[q].turn), calls'[act[q].turn] = calls[act[q].turn]
  PROVE  RoundAt(q)'
<1>1. act[q].pc # "free" /\ act'[q].turn = act[q].turn
  BY WatchedSeen
<1>2. RoundAt(q) /\ PlaceOf(q)
  BY <1>1 DEF RoundInv, RoundOf, Busy, Base, PlaceInv
<1>3. CASE act'[q] = act[q]
  <2>1. act[q].pc \in {"hook", "settle"} => conf'[act[q].conf].iter = conf[act[q].conf].iter
    BY <1>1, <1>2 DEF PlaceOf, Busy, TurnsKept
  <2> QED BY <1>2, <1>3, <2>1 DEF RoundAt
<1>4. CASE act[q].pc = "waits" /\ Resumes(q)
  <2>1. calls[act[q].turn] <= act[q].iter + 1
    BY <1>2, <1>4 DEF RoundAt
  <2>2. \/ act'[q].pc = "calls" /\ act'[q].iter = act[q].iter
        \/ act'[q].pc = "model" /\ act'[q].iter = act[q].iter + 1
    BY <1>4 DEF Resumes
  <2> QED BY <1>1, <2>1, <2>2 DEF RoundAt
<1> QED BY <1>3, <1>4 DEF Watches

\* A step of a coroutine that holds a turn.
LEMMA RoundWorks ==
  ASSUME Base, RoundInv, NEW p \in Proc, Works(p), TurnsKept,
         \A t \in Turn : t # act[p].turn => calls'[t] = calls[t],
         \A c \in Confirmation : conf'[c].status = "awaiting" =>
           \/ conf[c].status = "awaiting"
           \/ conf'[c].turn = act[p].turn /\ conf'[c].iter = act[p].iter,
         \/ Repeated(act[p].turn)
         \/ /\ calls'[act[p].turn] <= MaxToolIterations + 1
            /\ act'[p].pc # "free" => RoundAt(p)'
            /\ \/ \A c \in Confirmation : conf'[c].status = "awaiting" => conf[c].status = "awaiting"
               \/ calls'[act[p].turn] <= act[p].iter + 1
  PROVE  RoundInv'
<1>1. /\ act[p].pc # "free" /\ turns' = turns /\ again' = again
      /\ act'[p].pc # "free" => act'[p].turn = act[p].turn
      /\ \A q \in Proc : q # p => Watches(q)
  BY DEF Works, Keeps
<1>2. /\ act[p].turn \in Turn /\ act[p].turn <= turns
      /\ \A q \in Proc : q # p /\ act[q].pc # "free" =>
           /\ act[q].turn \in Turn
           /\ act[q].turn # act[p].turn \/ Repeated(act[p].turn)
      /\ \A c \in Confirmation : conf[c].status = "awaiting" =>
           /\ conf[c].turn \in Turn
           /\ conf[c].turn # act[p].turn \/ Repeated(act[p].turn)
  BY <1>1, OthersTurns
<1>3. \A t \in Turn : ~RepeatedNext(t) => ~Repeated(t)
  BY <1>1, TurnsGrow DEF Grows
<1>4. ASSUME NEW q \in Proc, act'[q].pc # "free", ~RepeatedNext(act'[q].turn)
      PROVE  RoundAt(q)'
  <2>1. CASE q = p
    <3>1. ~Repeated(act[p].turn)
      BY <1>1, <1>2, <1>3, <1>4, <2>1
    <3> QED BY <1>4, <2>1, <3>1
  <2>2. CASE q # p
    <3>1. Watches(q)
      BY <1>1, <2>2
    <3>2. act[q].pc # "free" /\ act'[q].turn = act[q].turn
      BY <1>4, <3>1, WatchedSeen
    <3>3. act[q].turn \in Turn /\ ~Repeated(act[q].turn)
      BY <1>2, <1>3, <1>4, <2>2, <3>2
    <3>4. act[q].turn # act[p].turn
      BY <1>2, <2>2, <3>2, <3>3
    <3>5. calls'[act[q].turn] = calls[act[q].turn]
      BY <3>3, <3>4
    <3> QED BY <1>4, <3>1, <3>3, <3>5, RoundWatched
  <2> QED BY <2>1, <2>2
<1>5. ASSUME NEW c \in Confirmation, conf'[c].status = "awaiting", ~RepeatedNext(conf'[c].turn)
      PROVE  calls'[conf'[c].turn] <= conf'[c].iter + 1
  <2>1. CASE conf[c].status = "awaiting"
    <3>1. conf'[c].turn = conf[c].turn /\ conf'[c].iter = conf[c].iter
      BY <2>1 DEF TurnsKept
    <3>2. conf[c].turn \in Turn /\ ~Repeated(conf[c].turn)
      BY <1>2, <1>3, <1>5, <2>1, <3>1
    <3>3. conf[c].turn # act[p].turn
      BY <1>2, <2>1, <3>2
    <3>4. calls[conf[c].turn] <= conf[c].iter + 1
      BY <2>1, <3>2 DEF RoundInv
    <3> QED BY <3>1, <3>2, <3>3, <3>4
  <2>2. CASE conf[c].status # "awaiting"
    <3>1. conf'[c].turn = act[p].turn /\ conf'[c].iter = act[p].iter
      BY <1>5, <2>2
    <3>2. ~Repeated(act[p].turn)
      BY <1>2, <1>3, <1>5, <3>1
    <3> QED BY <1>5, <2>2, <3>1, <3>2
  <2> QED BY <2>1, <2>2
<1>6. \A t \in Turn : t > turns' => calls'[t] = 0
  <2>1. \A t \in Turn : t > turns => t # act[p].turn
    BY <1>2, RuntimeAssumption DEF Base, TypeOK, Turn
  <2> QED BY <1>1, <2>1 DEF RoundInv
<1>7. ASSUME NEW t \in Turn, ~RepeatedNext(t) PROVE calls'[t] <= MaxToolIterations + 1
  <2>1. ~Repeated(t)
    BY <1>3, <1>7
  <2>2. calls[t] <= MaxToolIterations + 1
    BY <2>1 DEF RoundInv, ModelCallsBounded
  <2> QED BY <2>1, <2>2
<1> QED BY <1>4, <1>5, <1>6, <1>7, RoundAfter

\* A step that begins a turn.
LEMMA RoundBegins ==
  ASSUME Base, RoundInv, NEW p \in Proc, NEW seen \in SUBSET Turn,
         NEW parent \in Proc \cup {NoProc}, Begins(p, seen, parent),
         turns < MaxTurns, turns' = turns + 1, calls' = calls, conf' = conf, again' = again
  PROVE  RoundInv'
<1>1. calls \in [Turn -> Nat] /\ turns \in Nat /\ turns + 1 \in Turn
  BY RuntimeAssumption DEF Base, TypeOK, Turn
<1>2. \A t : RepeatedNext(t) <=> Repeated(t)
  BY DEF RepeatedNext, Repeated
<1>3. ASSUME NEW q \in Proc, act'[q].pc # "free", ~RepeatedNext(act'[q].turn)
      PROVE  RoundAt(q)'
  <2>1. CASE q = p
    <3>1. act'[p].pc = "model" /\ act'[p].iter = 0 /\ act'[p].turn = turns + 1
      BY DEF Begins
    <3>2. calls[turns + 1] = 0
      BY <1>1 DEF RoundInv
    <3> QED BY <2>1, <3>1, <3>2 DEF RoundAt
  <2>2. CASE q # p /\ q # parent
    <3>1. act'[q] = act[q]
      BY <2>2 DEF Begins
    <3>2. RoundAt(q)
      BY <1>2, <1>3, <3>1 DEF RoundInv, RoundOf, Busy
    <3> QED BY <3>1, <3>2 DEF RoundAt
  <2>3. CASE q # p /\ q = parent
    <3>1. /\ act[q].pc = "calls" /\ act'[q].pc = "waits" /\ act'[q].iter = act[q].iter
          /\ act'[q].turn = act[q].turn
      BY <2>3, RuntimeAssumption DEF Begins, Keeps
    <3>2. RoundAt(q)
      BY <1>2, <1>3, <3>1 DEF RoundInv, RoundOf, Busy
    <3> QED BY <3>1, <3>2 DEF RoundAt
  <2> QED BY <2>1, <2>2, <2>3
<1>4. \A c \in Confirmation : conf'[c].status = "awaiting" /\ ~RepeatedNext(conf'[c].turn) =>
        calls'[conf'[c].turn] <= conf'[c].iter + 1
  BY <1>2 DEF RoundInv
<1>5. \A t \in Turn : t > turns' => calls'[t] = 0
  BY <1>1 DEF RoundInv, Turn
<1>6. \A t \in Turn : ~RepeatedNext(t) => calls'[t] <= MaxToolIterations + 1
  BY <1>2 DEF RoundInv, ModelCallsBounded
<1> QED BY <1>3, <1>4, <1>5, <1>6, RoundAfter

\* A confirmation leaves the counts alone; one that comes again makes its turn
\* an exception.
LEMMA RoundConfirm ==
  ASSUME Base, RoundInv, NEW p \in Proc, NEW c \in Confirmation, NEW by \in Principal,
         NEW stale \in BOOLEAN, Confirm(p, c, by, stale)
  PROVE  RoundInv'
<1>0. calls' = calls /\ turns' = turns
  BY DEF Confirm
<1>1. /\ conf[c].status \in {"awaiting", "executing"}
      /\ conf'[c].turn = conf[c].turn /\ conf'[c].iter = conf[c].iter
      /\ conf'[c].status \in {"expired", "failed", "executing"}
      /\ \A d \in Confirmation : d # c => conf'[d] = conf[d]
      /\ act' = act \/ Claims(p, c)
  BY ConfirmEffect DEF Base
<1>2. Grows /\ (conf[c].status = "executing" => RepeatedNext(conf[c].turn))
  BY ConfirmAgain DEF Base
<1>3. /\ \A q \in Proc : act[q].pc # "free" => act[q].turn \in Turn
      /\ \A d \in Confirmation : conf[d].status # "none" => conf[d].turn \in Turn
  BY HeldTurns
<1>4. ASSUME NEW q \in Proc, act'[q].pc # "free", ~RepeatedNext(act'[q].turn)
      PROVE  RoundAt(q)'
  <2>1. CASE act'[q] = act[q]
    <3>1. act[q].pc # "free" /\ ~Repeated(act[q].turn)
      BY <1>2, <1>3, <1>4, <2>1 DEF Grows
    <3>2. RoundAt(q) /\ PlaceOf(q)
      BY <3>1 DEF RoundInv, RoundOf, Busy, Base, PlaceInv
    <3>3. act[q].pc \in {"hook", "settle"} => conf'[act[q].conf].iter = conf[act[q].conf].iter
      BY <1>1, <3>1, <3>2 DEF PlaceOf, Busy
    <3> QED BY <1>0, <2>1, <3>2, <3>3 DEF RoundAt
  <2>2. CASE q = p /\ Claims(p, c)
    <3>1. act'[p].pc = "hook" /\ act'[p].turn = conf[c].turn /\ act'[p].conf = c
      BY <2>2 DEF Claims
    <3>2. conf[c].status = "awaiting" /\ ~Repeated(conf[c].turn)
      BY <1>1, <1>2, <1>3, <1>4, <2>2, <3>1 DEF Grows
    <3>3. calls[conf[c].turn] <= conf[c].iter + 1
      BY <3>2 DEF RoundInv
    <3> QED BY <1>0, <1>1, <2>2, <3>1, <3>3 DEF RoundAt
  <2> QED BY <1>1, <2>1, <2>2 DEF Claims, Alone
<1>5. ASSUME NEW d \in Confirmation, conf'[d].status = "awaiting", ~RepeatedNext(conf'[d].turn)
      PROVE  calls'[conf'[d].turn] <= conf'[d].iter + 1
  <2>1. conf'[d] = conf[d]
    BY <1>1, <1>5
  <2>2. ~Repeated(conf[d].turn)
    BY <1>2, <1>3, <1>5, <2>1 DEF Grows
  <2> QED BY <1>0, <1>5, <2>1, <2>2 DEF RoundInv
<1>6. \A t \in Turn : t > turns' => calls'[t] = 0
  BY <1>0 DEF RoundInv
<1>7. \A t \in Turn : ~RepeatedNext(t) => calls'[t] <= MaxToolIterations + 1
  BY <1>0, <1>2 DEF RoundInv, ModelCallsBounded, Grows
<1> QED BY <1>4, <1>5, <1>6, <1>7, RoundAfter

\* A response is counted for the turn of the coroutine that gets it.
LEMMA CallsCounted ==
  ASSUME Base, NEW p \in Proc, Proceed(p),
         ~ \E q \in Proc, a \in Agent : Delegate(p, q, a)
  PROVE  \A t \in Turn : t # act[p].turn => calls'[t] = calls[t]
<1>1. calls' = calls \/ calls' = [calls EXCEPT ![act[p].turn] = @ + 1]
  BY Zenon DEF Proceed, Requests, Answers, ModelFails, Local, Uses, Completes,
     Delivers, Asks, AskDenied, HookDenies, Calls, Settles
<1>2. calls \in [Turn -> Nat]
  BY DEF Base, TypeOK
<1> QED BY <1>1, <1>2

\* What the coroutine that holds its turn alone knows after a step.
LEMMA RoundHolder ==
  ASSUME Base, NEW p \in Proc, Proceed(p), act[p].pc # "free", act[p].turn \in Turn,
         ~ \E q \in Proc, a \in Agent : Delegate(p, q, a),
         Works(p), RoundAt(p), calls[act[p].turn] <= MaxToolIterations + 1, TurnsKept
  PROVE  /\ calls'[act[p].turn] <= MaxToolIterations + 1
         /\ act'[p].pc # "free" => RoundAt(p)'
         /\ Asks(p) => calls'[act[p].turn] <= act[p].iter + 1
<1> USE RuntimeAssumption
<1>0. calls \in [Turn -> Nat] /\ act[p] \in Act /\ PlaceOf(p)
  BY DEF Base, TypeOK, PlaceInv
<1>1. ASSUME NEW n \in 1..MaxCalls, Requests(p, n)
      PROVE  /\ ~Asks(p) /\ calls'[act[p].turn] <= MaxToolIterations + 1 /\ RoundAt(p)'
  <2>1. /\ calls' = [calls EXCEPT ![act[p].turn] = @ + 1]
        /\ act[p].pc = "model" /\ act[p].iter < MaxToolIterations
    BY <1>1 DEF Requests
  <2>2. act'[p].pc = "calls" /\ act'[p].iter = act[p].iter /\ act'[p].turn = act[p].turn
    BY <1>1, RequestsEffect DEF Base, Goes, Keeps
  <2>3. calls[act[p].turn] <= act[p].iter /\ calls'[act[p].turn] = calls[act[p].turn] + 1
    BY <1>0, <2>1 DEF RoundAt
  <2>4. act[p].iter \in Nat /\ calls[act[p].turn] \in Nat
    BY <1>0 DEF Act
  <2>5. ~Asks(p)
    BY <2>1 DEF Asks
  <2>6. calls'[act[p].turn] <= act[p].iter + 1
    BY <2>3, <2>4
  <2>7. RoundAt(p)'
    BY <2>2, <2>6 DEF RoundAt
  <2>8. calls'[act[p].turn] <= MaxToolIterations + 1
    BY <2>1, <2>4, <2>6
  <2> QED BY <2>5, <2>7, <2>8
<1>2. ASSUME Answers(p)
      PROVE  /\ ~Asks(p) /\ calls'[act[p].turn] <= MaxToolIterations + 1 /\ RoundAt(p)'
  <2>1. calls' = [calls EXCEPT ![act[p].turn] = @ + 1] /\ act[p].pc = "model"
    BY <1>2 DEF Answers
  <2>2. act'[p].pc = "finish"
    BY <1>2, AnswersBase DEF Goes
  <2>3. calls[act[p].turn] <= act[p].iter /\ calls'[act[p].turn] = calls[act[p].turn] + 1
    BY <1>0, <2>1 DEF RoundAt
  <2>4. act[p].iter \in 0..MaxToolIterations /\ calls[act[p].turn] \in Nat
    BY <1>0 DEF Act
  <2>5. ~Asks(p)
    BY <2>1 DEF Asks
  <2>6. RoundAt(p)'
    BY <2>2 DEF RoundAt
  <2>7. calls'[act[p].turn] <= MaxToolIterations + 1
    BY <2>3, <2>4
  <2> QED BY <2>5, <2>6, <2>7
<1>3. ASSUME Asks(p)
      PROVE  /\ calls' = calls /\ act'[p].pc = "free"
             /\ calls[act[p].turn] <= act[p].iter + 1
  <2>1. calls' = calls /\ act[p].pc = "ask" /\ Ends(p)
    BY <1>3, AsksEffect DEF Base, Asks
  <2> QED BY <2>1 DEF Ends, RoundAt
<1>4. ASSUME Local(p) \/ AskDenied(p)
      PROVE  calls' = calls /\ RoundAt(p)' /\ act[p].pc \in {"calls", "ask"}
  <2>1. calls' = calls /\ Resumes(p) /\ act[p].pc \in {"calls", "ask"}
    BY <1>4, LocalBase DEF Local, AskDenied
  <2>2. calls[act[p].turn] <= act[p].iter + 1
    BY <2>1 DEF RoundAt
  <2>3. act'[p].turn = act[p].turn
        /\ \/ act'[p].pc = "calls" /\ act'[p].iter = act[p].iter
           \/ act'[p].pc = "model" /\ act'[p].iter = act[p].iter + 1
    BY <2>1 DEF Resumes, Keeps
  <2>4. RoundAt(p)'
    BY <2>1, <2>2, <2>3 DEF RoundAt
  <2> QED BY <2>1, <2>4
<1>5. ASSUME Uses(p) PROVE calls' = calls /\ RoundAt(p)'
  <2>1. calls' = calls /\ Goes(p, "calls", "ask")
    BY <1>5, UsesBase DEF Uses
  <2> QED BY <2>1 DEF RoundAt, Goes, Keeps
<1>6. ASSUME ModelFails(p) \/ Delivers(p) \/ HookDenies(p)
      PROVE  calls' = calls /\ act'[p].pc = "free"
  BY <1>6, FailsBase, HookDeniesBase DEF ModelFails, Delivers, HookDenies, Ends
<1>7. ASSUME \E live \in {"none", "shown", "lost", "failed"} : Completes(p, live)
      PROVE  calls' = calls /\ (act'[p].pc # "free" => RoundAt(p)')
  <2>1. calls' = calls /\ (Ends(p) \/ Goes(p, "finish", "deliver"))
    BY <1>7, CompletesBase DEF Completes
  <2> QED BY <2>1 DEF RoundAt, Ends, Goes
<1>8. ASSUME \E accepted \in BOOLEAN : Calls(p, accepted)
      PROVE  calls' = calls /\ RoundAt(p)'
  <2>1. calls' = calls /\ conf' = conf /\ Goes(p, "hook", "settle")
    BY <1>8, CallsBase DEF Calls
  <2> QED BY <2>1 DEF RoundAt, Goes, Keeps
<1>9. ASSUME \E status \in {"succeeded", "failed"} : Settles(p, status)
      PROVE  calls' = calls /\ (act'[p].pc # "free" => RoundAt(p)')
  <2>1. /\ calls' = calls /\ act[p].pc = "settle"
        /\ \/ Ends(p)
           \/ /\ Keeps(p) /\ act'[p].pc = "model"
              /\ act'[p].iter = conf[act[p].conf].iter + 1
    BY <1>9, SettlesBase DEF Settles
  <2>2. calls[act[p].turn] <= conf[act[p].conf].iter + 1
    BY <2>1 DEF RoundAt
  <2> QED BY <2>1, <2>2 DEF RoundAt, Ends, Keeps
<1>10. CASE \/ Local(p) \/ AskDenied(p) \/ Uses(p)
            \/ ModelFails(p) \/ Delivers(p) \/ HookDenies(p)
            \/ \E live \in {"none", "shown", "lost", "failed"} : Completes(p, live)
            \/ \E accepted \in BOOLEAN : Calls(p, accepted)
            \/ \E status \in {"succeeded", "failed"} : Settles(p, status)
  <2>1. calls' = calls /\ (act'[p].pc # "free" => RoundAt(p)')
    BY <1>4, <1>5, <1>6, <1>7, <1>8, <1>9, <1>10
  <2>2. Asks(p) => calls[act[p].turn] <= act[p].iter + 1
    BY <1>3
  <2> QED BY <2>1, <2>2
<1> QED BY <1>1, <1>2, <1>3, <1>10 DEF Proceed

LEMMA RoundNext == Base /\ RoundInv /\ [Next]_vars => RoundInv'
<1> SUFFICES ASSUME Base, RoundInv, [Next]_vars PROVE RoundInv'
  OBVIOUS
<1>1. ASSUME NEW p \in Proc, Proceed(p) PROVE RoundInv'
  <2>1. CASE \E q \in Proc, a \in Agent : Delegate(p, q, a)
    <3>1. PICK q \in Proc, a \in Agent : Delegate(p, q, a)
      BY <2>1
    <3>2. /\ turns < MaxTurns /\ turns' = turns + 1 /\ calls' = calls /\ conf' = conf
          /\ again' = again
      BY <3>1 DEF Delegate, Begin
    <3>3. Begins(q, {}, p)
      BY <3>1, DelegateBase
    <3> QED BY <3>2, <3>3, RoundBegins
  <2>2. CASE ~ \E q \in Proc, a \in Agent : Delegate(p, q, a)
    <3>1. Works(p) /\ (RecordsKept \/ (Asks(p) /\ \E c \in Confirmation : Stores(p, c)))
      BY <1>1, <2>2, ProceedWorks
    <3>2. /\ TurnsKept
          /\ \A c \in Confirmation : conf'[c].status = "awaiting" =>
               \/ conf[c].status = "awaiting"
               \/ conf'[c].turn = act[p].turn /\ conf'[c].iter = act[p].iter
      BY <3>1, RecordsTurns
    <3>3. \A t \in Turn : t # act[p].turn => calls'[t] = calls[t]
      BY <1>1, <2>2, CallsCounted
    <3>4. CASE Repeated(act[p].turn)
      BY <3>1, <3>2, <3>3, <3>4, RoundWorks
    <3>5. CASE ~Repeated(act[p].turn)
      <4>1. act[p].pc # "free" /\ act[p].turn \in Turn
        BY <3>1, TurnOf DEF Works
      <4>2. RoundAt(p) /\ calls[act[p].turn] <= MaxToolIterations + 1
        BY <3>5, <4>1 DEF RoundInv, RoundOf, ModelCallsBounded, Busy
      <4>3. /\ calls'[act[p].turn] <= MaxToolIterations + 1
            /\ act'[p].pc # "free" => RoundAt(p)'
            /\ Asks(p) => calls'[act[p].turn] <= act[p].iter + 1
        BY <1>1, <2>2, <3>1, <3>2, <4>1, <4>2, RoundHolder
      <4>4. RecordsKept =>
              \A c \in Confirmation : conf'[c].status = "awaiting" => conf[c].status = "awaiting"
        BY DEF RecordsKept
      <4> QED BY <3>1, <3>2, <3>3, <4>3, <4>4, RoundWorks
    <3> QED BY <3>4, <3>5
  <2> QED BY <2>1, <2>2
<1> DEFINE Rest == /\ calls' = calls /\ turns' = turns /\ conf' = conf /\ again' = again
                   /\ \A q \in Proc : act'[q].pc # "free" => act'[q] = act[q]
<1>2. CASE Rest
  <2>1. \A t : RepeatedNext(t) <=> Repeated(t)
    BY <1>2 DEF RepeatedNext, Repeated
  <2>2. \A q \in Proc : act'[q].pc # "free" /\ ~RepeatedNext(act'[q].turn) => RoundAt(q)'
    BY <1>2, <2>1 DEF RoundInv, RoundOf, RoundAt, Busy
  <2> QED BY <1>2, <2>1, <2>2, RoundAfter DEF RoundInv, ModelCallsBounded
<1>3. CASE \E p \in Proc : Stop(p)
  <2>1. calls' = calls /\ turns' = turns /\ conf' = conf /\ again' = again
    BY <1>3 DEF Stop
  <2>2. \A q \in Proc : act'[q] = act[q] \/ act'[q].pc = "free"
    BY <1>3, StopEffect DEF Base
  <2> QED BY <1>2, <2>1, <2>2
<1>4. ASSUME NEW p \in Proc, NEW a \in Agent, NEW by \in Principal, Run(p, a, by) PROVE RoundInv'
  <2>1. /\ turns < MaxTurns /\ turns' = turns + 1 /\ calls' = calls /\ conf' = conf
        /\ again' = again
    BY <1>4 DEF Run, Begin
  <2>2. Begins(p, history[a], NoProc) /\ history[a] \in SUBSET Turn
    BY <1>4, RunBase DEF Base, TypeOK
  <2> QED BY <2>1, <2>2, RoundBegins
<1>5. ASSUME NEW p \in Proc, NEW c \in Confirmation, NEW by \in Principal,
             NEW stale \in BOOLEAN, Confirm(p, c, by, stale)
      PROVE  RoundInv'
  BY <1>5, RoundConfirm
<1>6. CASE (\E a \in Agent : Clear(a)) \/ Edit \/ UNCHANGED vars
  <2>1. Rest
    BY <1>6 DEF Clear, Edit, vars
  <2> QED BY <1>2, <2>1
<1> QED BY <1>1, <1>3, <1>4, <1>5, <1>6, RuntimeAssumption DEF Next

\* A turn makes at most max_tool_iterations requests that offer tools and one
\* that does not, counted across its confirmations, however coroutines and
\* confirmations overlap; only a confirmation that comes again while its call
\* is carried out makes an exception (AgentExecutor._run_loop, confirm).
THEOREM RoundsAreBounded == Spec => []ModelCallsBounded
<1>1. Init => RoundInv
  <2> SUFFICES ASSUME Init PROVE RoundInv
    OBVIOUS
  <2>1. /\ \A p \in Proc : act[p].pc = "free"
        /\ \A c \in Confirmation : conf[c].status = "none"
        /\ \A t \in Turn : calls[t] = 0
    BY FreeAct, NoRecordRecord DEF Init
  <2> QED BY <2>1, RuntimeAssumption DEF RoundInv, RoundOf, ModelCallsBounded, Busy
<1>2. Base /\ RoundInv /\ [Next]_vars => RoundInv'
  BY RoundNext
<1>3. RoundInv => ModelCallsBounded
  BY DEF RoundInv
<1> QED BY <1>1, <1>2, <1>3, Invariant, PTL DEF Spec


\* The invariant of the state after a step.
LEMMA ShownAfter ==
  ASSUME \A q \in Proc : act'[q].pc # "free" /\ ~RepeatedNext(act'[q].turn) => ShownAt(q)',
         \A c \in Confirmation : conf'[c].status = "awaiting" /\ ~RepeatedNext(conf'[c].turn) =>
           shown'[conf'[c].turn] = 0,
         \A t \in Turn : t > turns' => shown'[t] = 0,
         \A t \in Turn : ~RepeatedNext(t) => shown'[t] <= IF t \in unsure' THEN 2 ELSE 1
  PROVE  ShownInv'
<1>1. \A q \in Proc : ShownOf(q)'
  BY DEF ShownOf, Busy, Repeated, RepeatedNext
<1>2. ShownOnce'
  BY DEF ShownOnce, Repeated, RepeatedNext
<1> QED BY <1>1, <1>2 DEF ShownInv, Repeated, RepeatedNext

\* A step of a coroutine that holds a turn.
LEMMA ShownWorks ==
  ASSUME Base, ShownInv, NEW p \in Proc, Works(p), TurnsKept,
         \A t \in Turn : t # act[p].turn => shown'[t] = shown[t] /\ (t \in unsure' <=> t \in unsure),
         \A c \in Confirmation : conf'[c].status = "awaiting" =>
           conf[c].status = "awaiting" \/ conf'[c].turn = act[p].turn,
         \/ Repeated(act[p].turn)
         \/ /\ shown'[act[p].turn] <= IF act[p].turn \in unsure' THEN 2 ELSE 1
            /\ act'[p].pc # "free" => ShownAt(p)'
            /\ \/ \A c \in Confirmation : conf'[c].status = "awaiting" => conf[c].status = "awaiting"
               \/ shown'[act[p].turn] = 0
  PROVE  ShownInv'
<1>1. /\ act[p].pc # "free" /\ turns' = turns /\ again' = again
      /\ act'[p].pc # "free" => act'[p].turn = act[p].turn
      /\ \A q \in Proc : q # p => Watches(q)
  BY DEF Works, Keeps
<1>2. /\ act[p].turn \in Turn /\ act[p].turn <= turns
      /\ \A q \in Proc : q # p /\ act[q].pc # "free" =>
           /\ act[q].turn \in Turn
           /\ act[q].turn # act[p].turn \/ Repeated(act[p].turn)
      /\ \A c \in Confirmation : conf[c].status = "awaiting" =>
           /\ conf[c].turn \in Turn
           /\ conf[c].turn # act[p].turn \/ Repeated(act[p].turn)
  BY <1>1, OthersTurns
<1>3. \A t \in Turn : ~RepeatedNext(t) => ~Repeated(t)
  BY <1>1, TurnsGrow DEF Grows
<1>4. ASSUME NEW q \in Proc, act'[q].pc # "free", ~RepeatedNext(act'[q].turn)
      PROVE  ShownAt(q)'
  <2>1. CASE q = p
    <3>1. ~Repeated(act[p].turn)
      BY <1>1, <1>2, <1>3, <1>4, <2>1
    <3> QED BY <1>4, <2>1, <3>1
  <2>2. CASE q # p
    <3>1. Watches(q)
      BY <1>1, <2>2
    <3>2. act[q].pc # "free" /\ act'[q].turn = act[q].turn
      BY <1>4, <3>1, WatchedSeen
    <3>3. act[q].turn \in Turn /\ ~Repeated(act[q].turn)
      BY <1>2, <1>3, <1>4, <2>2, <3>2
    <3>4. act[q].turn # act[p].turn
      BY <1>2, <2>2, <3>2, <3>3
    <3>5. /\ shown'[act[q].turn] = shown[act[q].turn]
          /\ act[q].turn \in unsure' <=> act[q].turn \in unsure
      BY <3>3, <3>4
    <3>6. ShownAt(q)
      BY <3>2, <3>3 DEF ShownInv, ShownOf, Busy
    <3>7. CASE act'[q] = act[q]
      BY <3>2, <3>5, <3>6, <3>7 DEF ShownAt
    <3>8. CASE act[q].pc = "waits" /\ Resumes(q)
      <4>1. shown[act[q].turn] <= 0
        BY <3>6, <3>8 DEF ShownAt
      <4>2. act'[q].pc \in {"calls", "model"}
        BY <3>8 DEF Resumes
      <4> QED BY <3>2, <3>5, <4>1, <4>2 DEF ShownAt
    <3> QED BY <3>1, <3>7, <3>8 DEF Watches
  <2> QED BY <2>1, <2>2
<1>5. ASSUME NEW c \in Confirmation, conf'[c].status = "awaiting", ~RepeatedNext(conf'[c].turn)
      PROVE  shown'[conf'[c].turn] = 0
  <2>1. CASE conf[c].status = "awaiting"
    <3>1. conf'[c].turn = conf[c].turn
      BY <2>1 DEF TurnsKept
    <3>2. conf[c].turn \in Turn /\ ~Repeated(conf[c].turn)
      BY <1>2, <1>3, <1>5, <2>1, <3>1
    <3>3. conf[c].turn # act[p].turn
      BY <1>2, <2>1, <3>2
    <3>4. shown[conf[c].turn] = 0
      BY <2>1, <3>2 DEF ShownInv
    <3> QED BY <3>1, <3>2, <3>3, <3>4
  <2>2. CASE conf[c].status # "awaiting"
    <3>1. conf'[c].turn = act[p].turn
      BY <1>5, <2>2
    <3>2. ~Repeated(act[p].turn)
      BY <1>2, <1>3, <1>5, <3>1
    <3> QED BY <1>5, <2>2, <3>1, <3>2
  <2> QED BY <2>1, <2>2
<1>6. \A t \in Turn : t > turns' => shown'[t] = 0
  <2>1. \A t \in Turn : t > turns => t # act[p].turn
    BY <1>2, RuntimeAssumption DEF Base, TypeOK, Turn
  <2> QED BY <1>1, <2>1 DEF ShownInv
<1>7. ASSUME NEW t \in Turn, ~RepeatedNext(t)
      PROVE  shown'[t] <= IF t \in unsure' THEN 2 ELSE 1
  <2>1. ~Repeated(t)
    BY <1>3, <1>7
  <2>2. CASE t = act[p].turn
    BY <2>1, <2>2
  <2>3. CASE t # act[p].turn
    <3>1. shown[t] <= IF t \in unsure THEN 2 ELSE 1
      BY <2>1 DEF ShownInv, ShownOnce
    <3> QED BY <2>3, <3>1
  <2> QED BY <2>2, <2>3
<1> QED BY <1>4, <1>5, <1>6, <1>7, ShownAfter

\* A step that shows nothing of what coroutines at work have begun.
LEMMA ShownKept ==
  ASSUME ShownInv, Grows, shown' = shown, unsure' = unsure, turns' \in Nat, turns \in Nat,
         turns' >= turns,
         \A q \in Proc : act'[q].pc # "free" => act'[q].turn \in Turn,
         \A c \in Confirmation : conf'[c].status = "awaiting" => conf'[c].turn \in Turn,
         \A q \in Proc : act'[q].pc # "free" =>
           \/ act'[q] = act[q]
           \/ RepeatedNext(act'[q].turn)
           \/ act'[q].pc # "deliver" /\ shown[act'[q].turn] = 0,
         \A c \in Confirmation : conf'[c].status = "awaiting" => conf'[c] = conf[c]
  PROVE  ShownInv'
<1>0. \A t \in Turn : ~RepeatedNext(t) => ~Repeated(t)
  BY DEF Grows
<1>1. ASSUME NEW q \in Proc, act'[q].pc # "free", ~RepeatedNext(act'[q].turn)
      PROVE  ShownAt(q)'
  <2>1. CASE act'[q] = act[q]
    <3>1. act[q].pc # "free" /\ ~Repeated(act[q].turn)
      BY <1>0, <1>1, <2>1
    <3>2. ShownAt(q)
      BY <3>1 DEF ShownInv, ShownOf, Busy
    <3> QED BY <2>1, <3>2 DEF ShownAt
  <2>2. CASE act'[q].pc # "deliver" /\ shown[act'[q].turn] = 0
    BY <2>2 DEF ShownAt
  <2> QED BY <1>1, <2>1, <2>2
<1>2. \A c \in Confirmation : conf'[c].status = "awaiting" /\ ~RepeatedNext(conf'[c].turn) =>
        shown'[conf'[c].turn] = 0
  BY <1>0 DEF ShownInv
<1>3. \A t \in Turn : t > turns' => shown'[t] = 0
  BY DEF ShownInv, Turn
<1>4. \A t \in Turn : ~RepeatedNext(t) => shown'[t] <= IF t \in unsure' THEN 2 ELSE 1
  BY <1>0 DEF ShownInv, ShownOnce
<1> QED BY <1>1, <1>2, <1>3, <1>4, ShownAfter

\* A step that begins a turn.
LEMMA ShownBegins ==
  ASSUME Base, ShownInv, NEW p \in Proc, NEW seen \in SUBSET Turn,
         NEW parent \in Proc \cup {NoProc}, Begins(p, seen, parent),
         turns < MaxTurns, turns' = turns + 1, shown' = shown, unsure' = unsure,
         conf' = conf, again' = again,
         \A q \in Proc : act'[q].pc # "free" => act'[q].turn \in Turn,
         \A c \in Confirmation : conf'[c].status = "awaiting" => conf'[c].turn \in Turn
  PROVE  ShownInv'
<1>1. turns \in Nat /\ turns + 1 \in Turn /\ shown \in [Turn -> Nat]
  BY RuntimeAssumption DEF Base, TypeOK, Turn
<1>3. Grows
  BY RepeatedKept
<1>4. ASSUME NEW q \in Proc, act'[q].pc # "free"
      PROVE  \/ act'[q] = act[q]
             \/ RepeatedNext(act'[q].turn)
             \/ act'[q].pc # "deliver" /\ shown[act'[q].turn] = 0
  <2>1. CASE q = p
    <3>1. act'[p].pc = "model" /\ act'[p].turn = turns + 1
      BY DEF Begins
    <3>2. shown[turns + 1] = 0
      BY <1>1 DEF ShownInv
    <3> QED BY <2>1, <3>1, <3>2
  <2>2. CASE q # p /\ q # parent
    BY <2>2 DEF Begins
  <2>3. CASE q # p /\ q = parent
    <3>1. act[q].pc = "calls" /\ act'[q].pc = "waits" /\ act'[q].turn = act[q].turn
      BY <2>3, RuntimeAssumption DEF Begins, Keeps
    <3>2. CASE Repeated(act[q].turn)
      BY <1>3, <1>4, <3>1, <3>2 DEF Grows
    <3>3. CASE ~Repeated(act[q].turn)
      <4>1. shown[act[q].turn] <= 0
        BY <3>1, <3>3 DEF ShownInv, ShownOf, ShownAt, Busy
      <4>2. shown[act[q].turn] \in Nat
        BY <1>1, <1>4, <3>1
      <4> QED BY <3>1, <4>1, <4>2
    <3> QED BY <3>2, <3>3
  <2> QED BY <2>1, <2>2, <2>3
<1> QED BY <1>1, <1>3, <1>4, ShownKept

\* A coroutine that does not deliver shows an answer only when it finishes the
\* incremental reply of its turn.
LEMMA ShownQuiet ==
  ASSUME Base, NEW p \in Proc,
         \/ \E n \in 1..MaxCalls : Requests(p, n)
         \/ Answers(p) \/ ModelFails(p) \/ Local(p) \/ Uses(p)
         \/ Asks(p) \/ AskDenied(p) \/ HookDenies(p)
         \/ \E accepted \in BOOLEAN : Calls(p, accepted)
         \/ \E status \in {"succeeded", "failed"} : Settles(p, status)
  PROVE  /\ shown' = shown /\ unsure' = unsure /\ act[p].pc \notin {"deliver", "finish"}
         /\ act'[p].pc # "deliver"
<1>1. shown' = shown /\ unsure' = unsure /\ act[p].pc \notin {"deliver", "finish"}
  BY DEF Requests, Answers, ModelFails, Local, Uses, Asks, AskDenied, HookDenies,
     Calls, Settles
<1>2. act'[p].pc # "deliver"
  BY RequestsEffect, AnswersBase, FailsBase, LocalBase, UsesBase, AsksEffect,
     HookDeniesBase, CallsBase, SettlesBase DEF Goes, Resumes, Ends, Base
<1> QED BY <1>1, <1>2

LEMMA ShownNext == Base /\ ShownInv /\ [Next]_vars => ShownInv'
<1> SUFFICES ASSUME Base, ShownInv, [Next]_vars PROVE ShownInv'
  OBVIOUS
<1>0. /\ shown \in [Turn -> Nat] /\ turns \in Nat /\ unsure \subseteq Turn /\ Base'
  BY BaseNext DEF Base, TypeOK
<1>a. /\ \A q \in Proc : act'[q].pc # "free" => act'[q].turn \in Turn
      /\ \A c \in Confirmation : conf'[c].status = "awaiting" => conf'[c].turn \in Turn
  BY <1>0, RuntimeAssumption DEF Base, PlaceInv, PlaceOf, Busy, TypeOK, Turn
<1>1. ASSUME NEW p \in Proc, Proceed(p) PROVE ShownInv'
  <2>1. CASE \E q \in Proc, a \in Agent : Delegate(p, q, a)
    <3>1. PICK q \in Proc, a \in Agent : Delegate(p, q, a)
      BY <2>1
    <3>2. /\ turns < MaxTurns /\ turns' = turns + 1 /\ shown' = shown /\ unsure' = unsure
          /\ conf' = conf /\ again' = again
      BY <3>1 DEF Delegate, Begin
    <3>3. Begins(q, {}, p)
      BY <3>1, DelegateBase
    <3> QED BY <1>a, <3>2, <3>3, ShownBegins
  <2>2. CASE ~ \E q \in Proc, a \in Agent : Delegate(p, q, a)
    <3>1. Works(p) /\ (RecordsKept \/ (Asks(p) /\ \E c \in Confirmation : Stores(p, c)))
      BY <1>1, <2>2, ProceedWorks
    <3>2. /\ TurnsKept
          /\ \A c \in Confirmation : conf'[c].status = "awaiting" =>
               conf[c].status = "awaiting" \/ conf'[c].turn = act[p].turn
      BY <3>1, RecordsTurns
    <3>3. act[p].pc # "free" /\ act[p].turn \in Turn /\ shown[act[p].turn] \in Nat
      BY <1>0, <3>1, TurnOf DEF Works
    <3>4. act'[p].pc # "free" => act'[p].turn = act[p].turn
      BY <3>1 DEF Works, Keeps
    <3>5. ~Repeated(act[p].turn) =>
            shown[act[p].turn] <= IF act[p].pc = "deliver" /\ act[p].turn \in unsure THEN 1 ELSE 0
      BY <3>3 DEF ShownInv, ShownOf, ShownAt, Busy
    <3>6. RecordsKept =>
            \A c \in Confirmation : conf'[c].status = "awaiting" => conf[c].status = "awaiting"
      BY DEF RecordsKept
    <3>7. CASE \/ \E n \in 1..MaxCalls : Requests(p, n)
               \/ Answers(p) \/ ModelFails(p) \/ Local(p) \/ Uses(p)
               \/ Asks(p) \/ AskDenied(p) \/ HookDenies(p)
               \/ \E accepted \in BOOLEAN : Calls(p, accepted)
               \/ \E status \in {"succeeded", "failed"} : Settles(p, status)
      <4>1. /\ shown' = shown /\ unsure' = unsure /\ act[p].pc # "deliver"
            /\ act'[p].pc # "deliver"
        BY <3>7, ShownQuiet
      <4>2. ~Repeated(act[p].turn) => shown'[act[p].turn] = 0
        BY <3>3, <3>5, <4>1
      <4>3. ~Repeated(act[p].turn) /\ act'[p].pc # "free" => ShownAt(p)'
        BY <3>4, <4>1, <4>2 DEF ShownAt
      <4>4. ~Repeated(act[p].turn) =>
              shown'[act[p].turn] <= IF act[p].turn \in unsure' THEN 2 ELSE 1
        BY <4>2
      <4> QED BY <3>1, <3>2, <4>1, <4>2, <4>3, <4>4, ShownWorks
    <3>8. CASE Delivers(p)
      <4>1. /\ act[p].pc = "deliver" /\ unsure' = unsure /\ conf' = conf
            /\ shown' = shown \/ shown' = [shown EXCEPT ![act[p].turn] = @ + 1]
        BY <3>8 DEF Delivers
      <4>2. act'[p].pc = "free"
        BY <3>8, FailsBase DEF Ends
      <4>3. \A t \in Turn : t # act[p].turn => shown'[t] = shown[t] /\ (t \in unsure' <=> t \in unsure)
        BY <1>0, <3>3, <4>1
      <4>4. ~Repeated(act[p].turn) =>
              shown'[act[p].turn] <= IF act[p].turn \in unsure' THEN 2 ELSE 1
        BY <1>0, <3>3, <3>5, <4>1
      <4> QED BY <3>1, <3>2, <4>1, <4>2, <4>3, <4>4, ShownWorks
    <3>9. ASSUME NEW live \in {"none", "shown", "lost", "failed"}, Completes(p, live)
          PROVE  ShownInv'
      <4>1. /\ act[p].pc = "finish" /\ conf' = conf
            /\ shown' = IF live \in {"shown", "lost"} THEN [shown EXCEPT ![act[p].turn] = @ + 1]
                                                      ELSE shown
            /\ unsure' = IF live = "lost" THEN unsure \cup {act[p].turn} ELSE unsure
        BY <3>9 DEF Completes
      <4>2. act'[p].pc = "free" \/ (act'[p].pc = "deliver" /\ live # "shown")
        BY <3>9, CompletesBase DEF Ends, Goes
      <4>3. \A t \in Turn : t # act[p].turn => shown'[t] = shown[t] /\ (t \in unsure' <=> t \in unsure)
        BY <1>0, <3>3, <4>1
      <4>4. ~Repeated(act[p].turn) =>
              shown'[act[p].turn] = IF live \in {"shown", "lost"} THEN 1 ELSE 0
        BY <1>0, <3>3, <3>5, <4>1
      <4>5. live = "lost" => act[p].turn \in unsure'
        BY <4>1
      <4>6. ~Repeated(act[p].turn) /\ act'[p].pc # "free" => ShownAt(p)'
        BY <3>4, <4>2, <4>4, <4>5 DEF ShownAt
      <4>7. ~Repeated(act[p].turn) =>
              shown'[act[p].turn] <= IF act[p].turn \in unsure' THEN 2 ELSE 1
        BY <4>4
      <4> QED BY <3>1, <3>2, <4>1, <4>3, <4>6, <4>7, ShownWorks
    <3> QED BY <1>1, <2>2, <3>7, <3>8, <3>9 DEF Proceed
  <2> QED BY <2>1, <2>2
<1>2. CASE \E p \in Proc : Stop(p)
  <2>1. /\ turns' = turns /\ shown' = shown /\ unsure' = unsure /\ conf' = conf
        /\ again' = again
    BY <1>2 DEF Stop
  <2>2. \A q \in Proc : act'[q].pc # "free" => act'[q] = act[q]
    BY <1>2, StopEffect DEF Base
  <2>3. Grows
    BY <2>1, RepeatedKept
  <2> QED BY <1>0, <1>a, <2>1, <2>2, <2>3, ShownKept
<1>3. ASSUME NEW p \in Proc, NEW a \in Agent, NEW by \in Principal, Run(p, a, by) PROVE ShownInv'
  <2>1. /\ turns < MaxTurns /\ turns' = turns + 1 /\ shown' = shown /\ unsure' = unsure
        /\ conf' = conf /\ again' = again
    BY <1>3 DEF Run, Begin
  <2>2. Begins(p, history[a], NoProc) /\ history[a] \in SUBSET Turn
    BY <1>3, RunBase DEF Base, TypeOK
  <2> QED BY <1>a, <2>1, <2>2, ShownBegins
<1>4. ASSUME NEW p \in Proc, NEW c \in Confirmation, NEW by \in Principal,
             NEW stale \in BOOLEAN, Confirm(p, c, by, stale)
      PROVE  ShownInv'
  <2>0. turns' = turns /\ shown' = shown /\ unsure' = unsure
    BY <1>4 DEF Confirm
  <2>1. /\ conf[c].status \in {"awaiting", "executing"}
        /\ conf'[c].status \in {"expired", "failed", "executing"}
        /\ \A d \in Confirmation : d # c => conf'[d] = conf[d]
        /\ act' = act \/ Claims(p, c)
    BY <1>4, ConfirmEffect DEF Base
  <2>2. Grows /\ (conf[c].status = "executing" => RepeatedNext(conf[c].turn))
    BY <1>4, ConfirmAgain DEF Base
  <2>3. conf[c].turn \in Turn
    BY <2>1, HeldTurns
  <2>4. shown[conf[c].turn] = 0 \/ RepeatedNext(conf[c].turn)
    BY <2>1, <2>2, <2>3 DEF ShownInv, Grows
  <2>5. \A q \in Proc : \/ act'[q] = act[q]
                        \/ RepeatedNext(act'[q].turn)
                        \/ act'[q].pc # "deliver" /\ shown[act'[q].turn] = 0
    BY <2>1, <2>4 DEF Claims, Alone
  <2>6. \A d \in Confirmation : conf'[d].status = "awaiting" => conf'[d] = conf[d]
    BY <2>1
  <2> QED BY <1>0, <1>a, <2>0, <2>2, <2>5, <2>6, ShownKept
<1>5. CASE (\E a \in Agent : Clear(a)) \/ Edit \/ UNCHANGED vars
  <2>1. /\ turns' = turns /\ shown' = shown /\ unsure' = unsure /\ conf' = conf /\ act' = act
        /\ again' = again
    BY <1>5 DEF Clear, Edit, vars
  <2>2. Grows
    BY <2>1, RepeatedKept
  <2> QED BY <1>0, <1>a, <2>1, <2>2, ShownKept
<1> QED BY <1>1, <1>2, <1>3, <1>4, <1>5, RuntimeAssumption DEF Next

\* The answer of a turn is shown in full at most once, and once more only if
\* the end of its incremental reply raised after it had its effect, unless a
\* confirmation of the turn came again while its call was carried out
\* (_deliver_runtime_result, AgentExecutor.run, confirm).
THEOREM AnswersShownOnce == Spec => []ShownOnce
<1>1. Init => ShownInv
  <2> SUFFICES ASSUME Init PROVE ShownInv
    OBVIOUS
  <2>1. /\ \A p \in Proc : act[p].pc = "free"
        /\ \A c \in Confirmation : conf[c].status = "none"
        /\ \A t \in Turn : shown[t] = 0
    BY FreeAct, NoRecordRecord DEF Init
  <2> QED BY <2>1 DEF ShownInv, ShownOf, ShownOnce, Busy
<1>2. Base /\ ShownInv /\ [Next]_vars => ShownInv'
  BY ShownNext
<1>3. ShownInv => ShownOnce
  BY DEF ShownInv
<1> QED BY <1>1, <1>2, <1>3, Invariant, PTL DEF Spec

=============================================================================
