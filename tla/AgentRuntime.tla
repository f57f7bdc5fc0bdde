---------------------------- MODULE AgentRuntime ----------------------------
(***************************************************************************)
(* agent_runtime/executor.py, agent_runtime/session_store.py and the part  *)
(* of workflow/core/dispatch/dispatcher.py that runs an agent: the turns   *)
(* of one chat session, the tools a model asks for, the confirmations that *)
(* dangerous tools need, delegation to a teammate, the stored history and  *)
(* the delivery of the answer.                                             *)
(*                                                                         *)
(* A coroutine of run() or confirm() is an element of Proc; a delegated    *)
(* run takes one of its own, whose parent waits for it.  It is at one of   *)
(* the awaits of the code: the model, a tool, a hook, the channel.  What a *)
(* turn has in its messages is the set of earlier turns it has seen.       *)
(***************************************************************************)
EXTENDS Integers

CONSTANTS
  Proc,              \* coroutines
  NoProc,            \* the parent of a turn nobody delegated
  Agent,             \* each is a teammate of the others
  Dispatched,        \* the agents that dispatch rules run
  Principal, Owner,  \* who sends messages; the creator who owns the agents
  MaxToolIterations, \* max_tool_iterations of the agents
  MaxCalls,          \* bound: tool calls in one response
  TeammateDepth,     \* DEFAULT_TEAMMATE_DEPTH
  MaxTurns,          \* bound: turns
  MaxConfirmations,  \* bound: confirmations asked for
  MaxRepeats,        \* bound: further confirmations of an executing record
  MaxEdits,          \* bound: edits of the agents
  MaxFaults          \* bound: writes of the store that fail

ASSUME RuntimeAssumption ==
  /\ NoProc \notin Proc
  /\ Agent # {} /\ Dispatched \subseteq Agent
  /\ Owner \in Principal
  /\ MaxToolIterations \in Nat
  /\ MaxCalls \in Nat \ {0}
  /\ TeammateDepth \in Nat
  /\ MaxTurns \in Nat /\ MaxConfirmations \in Nat /\ MaxRepeats \in Nat
  /\ MaxEdits \in Nat /\ MaxFaults \in Nat

VARIABLES
  act,        \* what each coroutine is doing
  conf,       \* the records of pending.json
  history,    \* the stored history of each agent in this session
  policy,     \* version of the agents, Gone when they are removed
  turns,      \* turns begun
  calls,      \* model responses of each turn
  performed,  \* history: how often a confirmed call was carried out
  again,      \* history: confirmations that found their record executing
  shown,      \* history: how often the answer of a turn was shown in full
  unsure,     \* history: turns whose incremental reply could not be finished
  saw,        \* history: the turns each turn has seen
  faults

vars == <<act, conf, history, policy, turns, calls, performed, again,
          shown, unsure, saw, faults>>

Turn == 1..MaxTurns
Confirmation == 1..MaxConfirmations
Gone == -1

Pc == {"free", "model", "calls", "ask", "waits", "hook", "settle", "finish", "deliver"}
Act == [pc : Pc, turn : 0..MaxTurns, agent : Agent, by : Principal, seen : SUBSET Turn,
        iter : 0..MaxToolIterations, left : 0..MaxCalls, depth : 0..TeammateDepth,
        parent : Proc \cup {NoProc}, root : Proc \cup {NoProc}, conf : 0..MaxConfirmations, policy : 0..MaxEdits]
Status == {"none", "awaiting", "executing", "succeeded", "failed", "expired"}
Terminal == {"succeeded", "failed", "expired"}
Record == [status : Status, turn : 0..MaxTurns, agent : Agent, seen : SUBSET Turn,
           iter : 0..MaxToolIterations, policy : 0..MaxEdits]

TypeOK ==
  /\ act \in [Proc -> Act]
  /\ conf \in [Confirmation -> Record]
  /\ history \in [Agent -> SUBSET Turn]
  /\ policy \in {Gone} \cup 0..MaxEdits
  /\ turns \in 0..MaxTurns
  /\ calls \in [Turn -> Nat]
  /\ performed \in [Confirmation -> Nat]
  /\ again \in [Confirmation -> 0..MaxRepeats]
  /\ shown \in [Turn -> Nat]
  /\ unsure \subseteq Turn
  /\ saw \in [Turn -> SUBSET Turn]
  /\ faults \in 0..MaxFaults

Free == [pc |-> "free", turn |-> 0, agent |-> CHOOSE a \in Agent : TRUE, by |-> Owner,
         seen |-> {}, iter |-> 0, left |-> 0, depth |-> 0, parent |-> NoProc, root |-> NoProc,
         conf |-> 0, policy |-> 0]
NoRecord == [status |-> "none", turn |-> 0, agent |-> CHOOSE a \in Agent : TRUE,
             seen |-> {}, iter |-> 0, policy |-> 0]

Init ==
  /\ act = [p \in Proc |-> Free]
  /\ conf = [c \in Confirmation |-> NoRecord]
  /\ history = [a \in Agent |-> {}]
  /\ policy = 0
  /\ turns = 0
  /\ calls = [t \in Turn |-> 0]
  /\ performed = [c \in Confirmation |-> 0]
  /\ again = [c \in Confirmation |-> 0]
  /\ shown = [t \in Turn |-> 0]
  /\ unsure = {}
  /\ saw = [t \in Turn |-> {}]
  /\ faults = 0

-----------------------------------------------------------------------------
(* Turns                                                                   *)

\* A write of the session store raises.
Fault == faults < MaxFaults /\ faults' = faults + 1

\* The loop over the calls of a response goes on, or the next round begins.
AfterCall(a) ==
  IF a.left > 1 THEN [a EXCEPT !.left = @ - 1, !.pc = "calls"]
                ELSE [a EXCEPT !.left = 0, !.pc = "model", !.iter = @ + 1]

\* Mutant of Returned: the delegating parent is not told.
Returned_Alone(p) == [act EXCEPT ![p] = Free]

\* run() or confirm() returns; the tool call of a delegating parent is over.
Returned(p) ==
  [q \in Proc |-> IF q = p THEN Free
                  ELSE IF q = act[p].parent THEN AfterCall(act[q]) ELSE act[q]]

\* The history is read before the hooks and the first request.
Begin(p, a, by, seen, depth, parent) ==
  /\ act[p].pc = "free"
  /\ turns < MaxTurns
  /\ policy # Gone
  /\ turns' = turns + 1
  /\ saw' = [saw EXCEPT ![turns + 1] = seen]
  /\ act' = [q \in Proc |->
       IF q = p THEN [Free EXCEPT !.pc = "model", !.turn = turns + 1, !.agent = a, !.by = by,
                                  !.seen = seen, !.depth = depth, !.parent = parent,
                                  !.root = IF parent = NoProc THEN p ELSE act[parent].root,
                                  !.policy = policy]
       ELSE IF q = parent THEN [act[q] EXCEPT !.pc = "waits"] ELSE act[q]]
  /\ UNCHANGED <<conf, history, policy, calls, performed, again, shown, unsure, faults>>

Run(p, a, by) == Begin(p, a, by, history[a], TeammateDepth, NoProc)

\* _delegate_to_teammate: a run of its own without history.
Delegate(p, q, a) ==
  /\ act[p].pc = "calls"
  /\ act[p].depth > 0
  /\ a # act[p].agent
  /\ Begin(q, a, act[p].by, {}, act[p].depth - 1, p)

\* The model answers with tool calls, for which it is given tools in all
\* rounds but the last.
Requests(p, n) ==
  /\ act[p].pc = "model"
  /\ act[p].iter < MaxToolIterations
  /\ calls' = [calls EXCEPT ![act[p].turn] = @ + 1]
  /\ act' = [act EXCEPT ![p].pc = "calls", ![p].left = n]
  /\ UNCHANGED <<conf, history, policy, turns, performed, again, shown, unsure, saw, faults>>

\* A call that needs no confirmation: a skill, a search for tools, a tool
\* that may be called at once, one that is unknown, not allowed or denied by
\* a hook, a failed delegation.  The wait for its result is the wait here.
Local(p) ==
  /\ act[p].pc = "calls"
  /\ act' = [act EXCEPT ![p] = AfterCall(act[p])]
  /\ UNCHANGED <<conf, history, policy, turns, calls, performed, again, shown, unsure, saw, faults>>

\* A tool that needs a confirmation, of somebody who may use it.
Uses(p) ==
  /\ act[p].pc = "calls"
  /\ act[p].by = Owner
  /\ act' = [act EXCEPT ![p].pc = "ask"]
  /\ UNCHANGED <<conf, history, policy, turns, calls, performed, again, shown, unsure, saw, faults>>

ModelFails(p) ==
  /\ act[p].pc = "model"
  /\ act' = Returned(p)
  /\ UNCHANGED <<conf, history, policy, turns, calls, performed, again, shown, unsure, saw, faults>>

\* The last response: the text of the answer.
Answers(p) ==
  /\ act[p].pc = "model"
  /\ calls' = [calls EXCEPT ![act[p].turn] = @ + 1]
  /\ act' = [act EXCEPT ![p].pc = "finish"]
  /\ UNCHANGED <<conf, history, policy, turns, performed, again, shown, unsure, saw, faults>>

\* Mutant of Completes: the turn is added to what is stored now.
Completes_Appends(p, live) ==
  LET a == act[p] IN
  /\ a.pc = "finish"
  /\ live = "none"
  /\ history' = [history EXCEPT ![a.agent] = @ \cup {a.turn}]
  /\ act' = IF a.parent # NoProc THEN Returned(p) ELSE [act EXCEPT ![p].pc = "deliver"]
  /\ UNCHANGED <<conf, policy, turns, calls, performed, again, shown, unsure, saw, faults>>

\* Mutant of Completes: a reply that is shown is sent again.
Completes_SentAgain(p, live) ==
  LET a == act[p] IN
  /\ a.pc = "finish"
  /\ a.parent = NoProc /\ a.conf = 0
  /\ history' = [history EXCEPT ![a.agent] = a.seen \cup {a.turn}]
  /\ act' = [act EXCEPT ![p].pc = "deliver"]
  /\ shown' = IF live = "shown" THEN [shown EXCEPT ![a.turn] = @ + 1] ELSE shown
  /\ UNCHANGED <<conf, policy, turns, calls, performed, again, unsure, saw, faults>>

\* The incremental reply is finished, which shows the answer; only a turn
\* that was not delegated and not resumed has one.  Then the history is
\* stored, unless the store raises, and the rest is left to the dispatcher.
Completes(p, live) ==
  LET a == act[p]
      own == a.parent = NoProc /\ a.conf = 0
      stored == \/ /\ history' = [history EXCEPT ![a.agent] = a.seen \cup {a.turn}]
                   /\ UNCHANGED faults
                   /\ act' = IF a.parent # NoProc \/ live = "shown" THEN Returned(p)
                             ELSE [act EXCEPT ![p].pc = "deliver"]
                \/ /\ Fault
                   /\ UNCHANGED history
                   /\ act' = Returned(p)
  IN /\ a.pc = "finish"
     /\ own \/ live = "none"
     /\ stored
     /\ shown' = IF live \in {"shown", "lost"} THEN [shown EXCEPT ![a.turn] = @ + 1] ELSE shown
     /\ unsure' = IF live = "lost" THEN unsure \cup {a.turn} ELSE unsure
     /\ UNCHANGED <<conf, policy, turns, calls, performed, again, saw>>

\* The dispatcher sends the whole answer, which may raise.
Delivers(p) ==
  /\ act[p].pc = "deliver"
  /\ act' = Returned(p)
  /\ \/ shown' = [shown EXCEPT ![act[p].turn] = @ + 1]
     \/ UNCHANGED shown
  /\ UNCHANGED <<conf, history, policy, turns, calls, performed, again, unsure, saw, faults>>

\* The coroutine is cancelled, or dies with the process: no handler for
\* Exception sees it.  A cancelled parent takes its teammates along.
Stop(p) ==
  /\ act[p].pc # "free"
  /\ act[p].parent = NoProc
  /\ act' = [q \in Proc |-> IF act[q].pc # "free" /\ act[q].root = p THEN Free ELSE act[q]]
  /\ UNCHANGED <<conf, history, policy, turns, calls, performed, again, shown, unsure, saw, faults>>

-----------------------------------------------------------------------------
(* Confirmations                                                           *)

\* The hooks have agreed: the call is stored and the turn ends until
\* somebody confirms it.
Asks(p) ==
  LET a == act[p] IN
  /\ a.pc = "ask"
  /\ \E c \in Confirmation :
       /\ conf[c].status = "none"
       /\ \A d \in 1..c - 1 : conf[d].status # "none"
       /\ \/ /\ conf' = [conf EXCEPT ![c] =
                  [status |-> "awaiting", turn |-> a.turn, agent |-> a.agent, seen |-> a.seen,
                   iter |-> a.iter, policy |-> a.policy]]
             /\ UNCHANGED faults
          \/ Fault /\ UNCHANGED conf
  /\ act' = Returned(p)
  /\ UNCHANGED <<history, policy, turns, calls, performed, again, shown, unsure, saw>>

\* A hook has refused.
AskDenied(p) ==
  /\ act[p].pc = "ask"
  /\ act' = [act EXCEPT ![p] = AfterCall(act[p])]
  /\ UNCHANGED <<conf, history, policy, turns, calls, performed, again, shown, unsure, saw, faults>>

\* claim_pending and the checks of confirm() up to the PreToolUse hook.  A
\* record that is not awaiting is claimed as it stands, so that one that is
\* executing is restored and claimed once more; every other is refused and
\* stays as it is.  A record whose time is over or whose tool has changed is
\* stale; claim_pending looks at the time of an awaiting record only.
Claimed(c, by, stale) ==
  IF stale /\ conf[c].status = "awaiting" THEN "expired"
  ELSE IF policy = Gone \/ by # Owner THEN "failed"
  ELSE IF stale \/ policy # conf[c].policy THEN "expired"
  ELSE "executing"

\* Mutant of Confirm: the claim is not stored.
Confirm_Unmarked(p, c, by, stale) ==
  LET status == Claimed(c, by, stale) IN
  /\ act[p].pc = "free"
  /\ conf[c].status = "awaiting"
  /\ conf' = IF status = "executing" THEN conf ELSE [conf EXCEPT ![c].status = status]
  /\ act' = IF status # "executing" THEN act
            ELSE [act EXCEPT ![p] = [Free EXCEPT !.pc = "hook", !.turn = conf[c].turn,
                    !.agent = conf[c].agent, !.by = by, !.seen = conf[c].seen, !.root = p,
                    !.depth = TeammateDepth, !.conf = c, !.policy = policy]]
  /\ UNCHANGED <<history, policy, turns, calls, performed, again, shown, unsure, saw, faults>>

\* Mutant of Confirm: an expired record is claimed as well.
Confirm_Expired(p, c, by, stale) ==
  LET status == Claimed(c, by, stale) IN
  /\ act[p].pc = "free"
  /\ conf[c].status \in {"awaiting", "expired"}
  /\ conf' = [conf EXCEPT ![c].status = status]
  /\ act' = IF status # "executing" THEN act
            ELSE [act EXCEPT ![p] = [Free EXCEPT !.pc = "hook", !.turn = conf[c].turn,
                    !.agent = conf[c].agent, !.by = by, !.seen = conf[c].seen, !.root = p,
                    !.depth = TeammateDepth, !.conf = c, !.policy = policy]]
  /\ UNCHANGED <<history, policy, turns, calls, performed, again, shown, unsure, saw, faults>>

Confirm(p, c, by, stale) ==
  LET status == Claimed(c, by, stale) IN
  /\ act[p].pc = "free"
  /\ \/ /\ conf[c].status = "awaiting"
        /\ UNCHANGED again
     \/ /\ conf[c].status = "executing"
        /\ again[c] < MaxRepeats
        /\ again' = [again EXCEPT ![c] = @ + 1]
  /\ conf' = [conf EXCEPT ![c].status = status]
  /\ act' = IF status # "executing" THEN act
            ELSE [act EXCEPT ![p] = [Free EXCEPT !.pc = "hook", !.turn = conf[c].turn,
                    !.agent = conf[c].agent, !.by = by, !.seen = conf[c].seen,
                    !.depth = TeammateDepth, !.root = p, !.conf = c, !.policy = policy]]
  /\ UNCHANGED <<history, policy, turns, calls, performed, shown, unsure, saw, faults>>

\* complete_pending changes a record that is executing.  It raises for one
\* that has ended otherwise, and the handler leaves that one alone.
Complete(c, status) ==
  conf' = [conf EXCEPT ![c].status = IF @ = "executing" THEN status ELSE @]

\* The hook refuses the call or changes it to one that is not valid.
HookDenies(p) ==
  /\ act[p].pc = "hook"
  /\ Complete(act[p].conf, "failed")
  /\ act' = Returned(p)
  /\ UNCHANGED <<history, policy, turns, calls, performed, again, shown, unsure, saw, faults>>

\* The hook agrees.  MCPServerManager.call_tool: the server carries the call
\* out, or the manager rejects it and the server is not called.
Calls(p, accepted) ==
  /\ act[p].pc = "hook"
  /\ performed' = IF accepted THEN [performed EXCEPT ![act[p].conf] = @ + 1] ELSE performed
  /\ act' = [act EXCEPT ![p].pc = "settle"]
  /\ UNCHANGED <<conf, history, policy, turns, calls, again, shown, unsure, saw, faults>>

\* Mutant of Settles: the turn goes on with its rounds from the first.
Settles_Afresh(p, status) ==
  LET a == act[p] IN
  /\ a.pc = "settle"
  /\ status = "succeeded" => performed[a.conf] > 0
  /\ Complete(a.conf, status)
  /\ act' = [act EXCEPT ![p].pc = "model", ![p].iter = 0]
  /\ UNCHANGED <<history, policy, turns, calls, performed, again, shown, unsure, saw, faults>>

\* After the PostToolUse hook the outcome is stored and the turn goes on.
\* When the store raises, the handler tries to store the failure; when the
\* record has ended with another outcome, the turn is given up.
Settles(p, status) ==
  LET a == act[p]
      now == conf[a.conf].status
  IN /\ a.pc = "settle"
     /\ status = "succeeded" => performed[a.conf] > 0
     /\ \/ /\ now \in {"executing", status}
           /\ Complete(a.conf, status)
           /\ act' = [act EXCEPT ![p].pc = "model", ![p].iter = conf[a.conf].iter + 1]
           /\ UNCHANGED faults
        \/ /\ now = "executing"
           /\ Fault
           /\ Complete(a.conf, "failed") \/ UNCHANGED conf
           /\ act' = Returned(p)
        \/ /\ now \notin {"executing", status}
           /\ act' = Returned(p)
           /\ UNCHANGED <<conf, faults>>
     /\ UNCHANGED <<history, policy, turns, calls, performed, again, shown, unsure, saw>>

-----------------------------------------------------------------------------
(* Everything else                                                         *)

\* clear_history and delete_session.
Clear(a) ==
  /\ history[a] # {}
  /\ history' = [history EXCEPT ![a] = {}]
  /\ UNCHANGED <<act, conf, policy, turns, calls, performed, again, shown, unsure, saw, faults>>

\* An agent or a resource it binds is edited, or the agent removed.
Edit ==
  /\ policy \in 0..MaxEdits - 1
  /\ policy' \in {policy + 1, Gone}
  /\ UNCHANGED <<act, conf, history, turns, calls, performed, again, shown, unsure, saw, faults>>

-----------------------------------------------------------------------------
\* The steps of a coroutine that is at work.
Proceed(p) ==
  \/ \E n \in 1..MaxCalls : Requests(p, n)
  \/ Answers(p) \/ ModelFails(p)
  \/ Local(p) \/ Uses(p)
  \/ \E q \in Proc, a \in Agent : Delegate(p, q, a)
  \/ \E live \in {"none", "shown", "lost", "failed"} : Completes(p, live)
  \/ Delivers(p) \/ Asks(p) \/ AskDenied(p)
  \/ HookDenies(p)
  \/ \E accepted \in BOOLEAN : Calls(p, accepted)
  \/ \E status \in {"succeeded", "failed"} : Settles(p, status)

Next ==
  \/ \E p \in Proc : Proceed(p) \/ Stop(p)
  \/ \E p \in Proc, a \in Dispatched, by \in Principal : Run(p, a, by)
  \/ \E p \in Proc, c \in Confirmation, by \in Principal, stale \in BOOLEAN :
       Confirm(p, c, by, stale)
  \/ \E a \in Agent : Clear(a)
  \/ Edit

Spec == Init /\ [][Next]_vars

\* Model requests, tools, hooks and sends come to an end.
FairSpec == Spec /\ \A p \in Proc : WF_vars(Proceed(p))

-----------------------------------------------------------------------------
(* Properties                                                              *)

\* A confirmed call is carried out once, by somebody who has claimed its
\* record, and once more at most for each confirmation that found the record
\* executing (SessionStore.claim_pending).
ConfirmedOnce ==
  \A c \in Confirmation :
    /\ performed[c] <= 1 + again[c]
    /\ performed[c] > 0 =>
         \/ conf[c].status \in {"executing", "succeeded", "failed"}
         \/ conf[c].status = "expired" /\ again[c] > 0

\* A record that says how its call ended is not changed again, whatever
\* handlers, restarts and late confirmations follow (complete_pending).
SettledIsFinal ==
  [][\A c \in Confirmation : conf[c].status \in Terminal => conf'[c] = conf[c]]_conf

\* A confirmation of turn t has found its record executing.
Repeated(t) == \E c \in Confirmation : conf[c].turn = t /\ again[c] > 0

\* A turn makes at most max_tool_iterations requests with tools and one
\* without, counted across the confirmations it waited for, as long as none
\* of them came again while its call was carried out (_run_loop, confirm).
ModelCallsBounded ==
  \A t \in Turn : ~Repeated(t) => calls[t] <= MaxToolIterations + 1

\* The answer of a turn is shown once, unless finishing the incremental
\* reply raised although it had its effect (_deliver_runtime_result) or a
\* confirmation of the turn came again while its call was carried out.
ShownOnce ==
  \A t \in Turn : ~Repeated(t) => shown[t] <= (IF t \in unsure THEN 2 ELSE 1)

\* The stored history never holds a turn without the turns it answered to,
\* whatever runs, confirmations and deletions overlap (save_history).
HistoryClosed ==
  \A a \in Agent : \A t \in history[a] : saw[t] \subseteq history[a]

\* A coroutine comes to an end: the rounds of a turn and the depth of
\* delegation are bounded (_run_loop, _delegate_to_teammate).
EveryTurnEnds == \A p \in Proc : act[p].pc # "free" ~> act[p].pc = "free"
=============================================================================
