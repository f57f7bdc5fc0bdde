-------------------------- MODULE WorkflowExecutor --------------------------
(***************************************************************************)
(* workflow/core/execution/executor.py: one run of a workflow.  Blocks are *)
(* visited depth first along the wires, in the order of the wires, and run *)
(* one at a time in a thread; a time limit or a cancellation ends the run, *)
(* which then waits for the thread, and the event loop with it.            *)
(*                                                                         *)
(* The workflow is chosen in Init: any shapes of blocks, any wires.  Every *)
(* wire leads to an input of its own; the inputs of a block that are wired *)
(* are all nullable or all required.  The kinds tell how the executor and  *)
(* the thread treat a block: partial (FunctionCalling) returns only some   *)
(* of its outputs; send (SendIMMessage) and tool (a chat block with tools) *)
(* hand a coroutine to the event loop and wait for it.                     *)
(***************************************************************************)
EXTENDS Integers, Sequences, FiniteSets

CONSTANTS
  Block,      \* the blocks
  NoBlock,
  Shapes,     \* what the blocks may look like
  Limits,     \* whether there may be a max_execution_time
  MayCancel,  \* whether the task of run() may be cancelled
  MaxWires    \* bound: wires that leave a block

\* What a block is, whether its wired inputs are nullable, and which inputs
\* it declares that no wire leads to.
Shape == [kind     : {"plain", "partial", "send", "tool", "condition", "loop"},
          optional : BOOLEAN,
          unwired  : {"none", "nullable", "required"}]

ASSUME WorkflowAssumption ==
  /\ IsFiniteSet(Block) /\ NoBlock \notin Block
  /\ Shapes \subseteq [Block -> Shape]
  /\ Limits \subseteq BOOLEAN /\ MayCancel \in BOOLEAN
  /\ MaxWires \in Nat

VARIABLES
  shape,     \* of each block
  graph,     \* execution_graph: where the wires of a block lead, in their order
  limit,     \* max_execution_time > 0
  results,   \* blocks with a result
  given,     \* the wires of a block whose output is in its result
  stack,     \* the calls of _execute_nodes and the blocks each has still to visit
  running,   \* the block a thread executes
  status,    \* of run()
  ran        \* history: how often each block was executed, up to two

vars == <<shape, graph, limit, results, given, stack, running, status, ran>>

Control == {"condition", "loop"}
Ended == {"completed", "failed", "stopped"}

\* loop is the block whose loop body the call executes.
Frame == [todo : Seq(Block), loop : Block \cup {NoBlock}]

kind[b \in Block] == shape[b].kind

\* The blocks that wires to b come from; b has a value for every wired input.
Sources(b) == {s \in Block : \E i \in DOMAIN graph[s] : graph[s][i] = b}
Supplied(b) ==
  \A s \in Block : \A i \in DOMAIN graph[s] : graph[s][i] = b => i \in given[s]

TypeOK ==
  /\ shape \in [Block -> Shape]
  /\ graph \in [Block -> Seq(Block)]
  /\ limit \in BOOLEAN
  /\ results \subseteq Block
  /\ given \in [Block -> SUBSET Nat]
  /\ stack \in Seq(Frame)
  /\ running \in Block \cup {NoBlock}
  /\ status \in Ended \cup {"running", "stopping"}
  /\ ran \in [Block -> 0..2]

\* Blocks without inputs.
Entry == {b \in Block : Sources(b) = {} /\ shape[b].unwired = "none"}

Init ==
  /\ shape \in Shapes
  /\ graph \in [Block -> UNION {[1..n -> Block] : n \in 0..MaxWires}]
  /\ \A b \in Block : b \notin Sources(b)
  /\ limit \in Limits
  /\ results = {}
  /\ given = [b \in Block |-> {}]
  /\ \E todo \in [1..Cardinality(Entry) -> Entry] :
       /\ \A b \in Entry : \E i \in DOMAIN todo : todo[i] = b
       /\ stack = <<[todo |-> todo, loop |-> NoBlock]>>
  /\ running = NoBlock
  /\ status = "running"
  /\ ran = [b \in Block |-> 0]

-----------------------------------------------------------------------------
Top == stack[Len(stack)]
Below == SubSeq(stack, 1, Len(stack) - 1)
Push(todo, loop) == Append(stack, [todo |-> todo, loop |-> loop])

\* A block that is neither a condition nor a loop.
Normal(b) == kind[b] \notin Control

\* No input lacks a value unless it is nullable.
Satisfied(b) == shape[b].unwired # "required" /\ (shape[b].optional \/ Supplied(b))

\* Mutant of CanExecute: a block that has a result is executed again.
CanExecute_Again(b) == Sources(b) \subseteq results /\ Satisfied(b)

CanExecute(b) == b \notin results /\ Sources(b) \subseteq results /\ Satisfied(b)

Execute(b) == running' = b /\ UNCHANGED status

\* _execute_nodes goes to the next block of the list.  A normal block that
\* cannot be executed is passed over; one with a wired input that has no value,
\* though nullable, ends the run (_gather_inputs).  So does a condition or loop
\* with inputs: run_in_executor does not take them as keyword arguments.
Visit ==
  LET b == Head(Top.todo) IN
  /\ status = "running" /\ running = NoBlock
  /\ stack # <<>>
  /\ Top.todo # <<>>
  /\ stack' = Append(Below, [Top EXCEPT !.todo = Tail(@)])
  /\ \/ Normal(b) /\ CanExecute(b) /\ Supplied(b) /\ Execute(b)
     \/ Normal(b) /\ CanExecute(b) /\ ~Supplied(b) /\ status' = "failed" /\ UNCHANGED running
     \/ Normal(b) /\ ~CanExecute(b) /\ UNCHANGED <<running, status>>
     \/ ~Normal(b) /\ Sources(b) = {} /\ Execute(b)
     \/ ~Normal(b) /\ Sources(b) # {} /\ status' = "failed" /\ UNCHANGED running
  /\ UNCHANGED <<shape, graph, limit, results, given, ran>>

\* A call returns; a loop looks at its condition again.
Return ==
  /\ status = "running" /\ running = NoBlock
  /\ stack # <<>>
  /\ Top.todo = <<>>
  /\ stack' = Below
  /\ running' = Top.loop
  /\ UNCHANGED <<shape, graph, limit, results, given, status, ran>>

Completes ==
  /\ status = "running" /\ running = NoBlock
  /\ stack = <<>>
  /\ status' = "completed"
  /\ UNCHANGED <<shape, graph, limit, results, given, stack, running, ran>>

\* The block of the thread returns.  Its wires are followed: all of them,
\* the one of the branch, or that of the loop's body; a branch or a body
\* that is not there ends the run.
Follow(b, holds) ==
  LET next == graph[b] IN
  CASE Normal(b) -> Push(next, NoBlock)
    [] kind[b] = "condition" /\ holds -> Push(<<next[1]>>, NoBlock)
    [] kind[b] = "condition" /\ ~holds ->
         IF Len(next) > 1 THEN Push(<<next[2]>>, NoBlock) ELSE stack
    [] kind[b] = "loop" /\ holds -> Push(<<next[1]>>, b)
    [] kind[b] = "loop" /\ ~holds -> stack

Missing(b, holds) == ~Normal(b) /\ holds /\ graph[b] = <<>>

\* What the result may hold: all outputs, or some of them.
Outputs(b) == IF kind[b] = "partial" THEN SUBSET DOMAIN graph[b] ELSE {DOMAIN graph[b]}

\* Mutant of BlockReturns: only the first wire is followed.
BlockReturns_OneWire(holds, out) ==
  LET b == running IN
  /\ status = "running" /\ b # NoBlock
  /\ out \in Outputs(b)
  /\ results' = results \cup {b}
  /\ given' = [given EXCEPT ![b] = out]
  /\ ran' = [ran EXCEPT ![b] = IF @ < 2 THEN @ + 1 ELSE @]
  /\ running' = NoBlock
  /\ ~Missing(b, holds)
  /\ stack' = IF Normal(b) /\ graph[b] # <<>> THEN Push(<<graph[b][1]>>, NoBlock)
              ELSE Follow(b, holds)
  /\ UNCHANGED <<shape, graph, limit, status>>

BlockReturns(holds, out) ==
  LET b == running IN
  /\ status = "running" /\ b # NoBlock
  /\ out \in Outputs(b)
  /\ results' = results \cup {b}
  /\ given' = [given EXCEPT ![b] = out]
  /\ ran' = [ran EXCEPT ![b] = IF @ < 2 THEN @ + 1 ELSE @]
  /\ running' = NoBlock
  /\ IF Missing(b, holds)
     THEN status' = "failed" /\ UNCHANGED stack
     ELSE stack' = Follow(b, holds) /\ UNCHANGED status
  /\ UNCHANGED <<shape, graph, limit>>

BlockRaises ==
  /\ status = "running" /\ running # NoBlock
  /\ status' = "failed"
  /\ running' = NoBlock
  /\ UNCHANGED <<shape, graph, limit, results, given, stack, ran>>

-----------------------------------------------------------------------------
\* wait_for cancels the blocks.  Leaving the with statement waits for the
\* thread, which nothing stops.
Interrupt ==
  /\ status = "running"
  /\ status' = IF running = NoBlock THEN "stopped" ELSE "stopping"
  /\ UNCHANGED <<shape, graph, limit, results, given, stack, running, ran>>

\* The time limit is reached; the task of run() is cancelled.
Timeout == limit /\ Interrupt
Cancel == MayCancel /\ Interrupt

\* Mutant of ThreadEnds: a block that waits for the loop has no time limit.
ThreadEnds_Unlimited ==
  /\ status = "stopping"
  /\ kind[running] \notin {"send", "tool"}
  /\ status' = "stopped"
  /\ running' = NoBlock
  /\ UNCHANGED <<shape, graph, limit, results, given, stack, ran>>

\* The thread ends by itself, or the message it has handed to the event
\* loop, which is waiting for the thread, takes longer than
\* SEND_TIMEOUT_SECONDS.  The call of a tool has no such limit.
ThreadEnds ==
  /\ status = "stopping"
  /\ kind[running] # "tool"
  /\ status' = "stopped"
  /\ running' = NoBlock
  /\ UNCHANGED <<shape, graph, limit, results, given, stack, ran>>

Proceed ==
  \/ Visit \/ Return \/ Completes
  \/ \E holds \in BOOLEAN, out \in SUBSET (1..MaxWires) : BlockReturns(holds, out)
  \/ BlockRaises \/ ThreadEnds

Next == Proceed \/ Timeout \/ Cancel

Spec == Init /\ [][Next]_vars

\* Blocks return, and time passes.
FairSpec == Spec /\ WF_vars(Proceed) /\ WF_vars(Timeout)

-----------------------------------------------------------------------------
(* Properties                                                              *)

\* A normal block runs at most once, after all blocks it takes inputs from and
\* with the values it takes from them (_can_execute, _gather_inputs), whatever
\* lists it is on and however often.
OnceAfterSources ==
  \A b \in Block : Normal(b) =>
    /\ ran[b] <= 1
    /\ b \in results \cup ({running} \ {NoBlock}) => Sources(b) \subseteq results /\ Supplied(b)

\* What b waits for is there.
Ready(b) == Sources(b) \subseteq results /\ Satisfied(b)

\* A run that completes has executed every block that has no inputs, or whose
\* inputs have values as far as they are required, although a block is only
\* looked at when one of its sources has ended (_execute_normal_block), which
\* may have been too early.  Conditions and loops choose what follows them.
NothingSkipped ==
  status = "completed" =>
    \A b \in Block :
      /\ Normal(b) /\ \A s \in Sources(b) : Normal(s)
      /\ b \in Entry \/ Sources(b) # {}
      /\ Ready(b)
      => b \in results

\* A run ends when it has a limit or no loop (run, _execute_loop).
RunEnds ==
  (limit \/ \A b \in Block : kind[b] # "loop") => <>(status \in Ended)
=============================================================================
