----------------------- MODULE WorkflowExecutorProofs -----------------------
(***************************************************************************)
(* Proofs about WorkflowExecutor, for any finite set of blocks of any      *)
(* shapes and any wires between them.                                      *)
(***************************************************************************)
EXTENDS WorkflowExecutor, FiniteSetTheorems, SequenceTheorems, TLAPS

\* A block of a normal kind is executed at most once, and a result means that
\* it was; what is executed or has a result has all its sources' results, with
\* the values it takes from them.
\* Only loops wait below on the stack to be executed again.
RunInv ==
  /\ \A b \in Block : Normal(b) =>
       /\ ran[b] = IF b \in results THEN 1 ELSE 0
       /\ b \in results \cup {running} => Sources(b) \subseteq results /\ Supplied(b)
       /\ running = b => b \notin results
  /\ \A i \in 1..Len(stack) : stack[i].loop # NoBlock => ~Normal(stack[i].loop)

\* A block on some list of the stack that is still to be visited.
On(todo, b) == \E j \in 1..Len(todo) : todo[j] = b
Listed(st, b) == \E i \in 1..Len(st) : On(st[i].todo, b)

\* A block without a result that needs nothing more is being executed, or on
\* a list.
Due(b) == /\ Normal(b) /\ \A s \in Sources(b) : Normal(s)
          /\ b \in Entry \/ Sources(b) # {}
          /\ Ready(b)
ListInv ==
  status \in {"running", "completed"} =>
    \A b \in Block : Due(b) => b \in results \/ running = b \/ Listed(stack, b)
DoneInv == status = "completed" => stack = <<>> /\ running = NoBlock

-----------------------------------------------------------------------------
(* The stack                                                               *)

\* The call at the top, and the others.
LEMMA TopBelow ==
  ASSUME TypeOK, stack # <<>>
  PROVE  /\ Len(stack) \in Nat \ {0}
         /\ Top \in Frame
         /\ Below \in Seq(Frame) /\ Len(Below) = Len(stack) - 1
         /\ \A i \in 1..Len(stack) - 1 : Below[i] = stack[i]
<1>1. stack \in Seq(Frame)
  BY DEF TypeOK
<1>2. Len(stack) \in Nat \ {0} /\ \A i \in 1..Len(stack) : stack[i] \in Frame
  BY <1>1, EmptySeq, ElementOfSeq
<1>3. \A i \in 1..Len(stack) - 1 : stack[i] \in Frame
  BY <1>2
<1>4. /\ SubSeq(stack, 1, Len(stack) - 1) \in Seq(Frame)
      /\ Len(SubSeq(stack, 1, Len(stack) - 1)) =
           IF 1 <= Len(stack) - 1 THEN Len(stack) - 1 - 1 + 1 ELSE 0
      /\ \A i \in 1..Len(stack) - 1 - 1 + 1 :
           SubSeq(stack, 1, Len(stack) - 1)[i] = stack[1 + i - 1]
  BY <1>2, <1>3, SubSeqProperties
<1>5. \A i \in 1..Len(stack) - 1 : Below[i] = stack[i]
  <2> SUFFICES ASSUME NEW i \in 1..Len(stack) - 1 PROVE Below[i] = stack[i]
    OBVIOUS
  <2>1. i \in 1..Len(stack) - 1 - 1 + 1 /\ 1 + i - 1 = i
    BY <1>2
  <2> QED BY <1>4, <2>1 DEF Below
<1>6. Len(Below) = Len(stack) - 1
  <2>1. \A n \in Nat \ {0} : (IF 1 <= n - 1 THEN n - 1 - 1 + 1 ELSE 0) = n - 1
    OBVIOUS
  <2>2. Len(Below) = IF 1 <= Len(stack) - 1 THEN Len(stack) - 1 - 1 + 1 ELSE 0
    BY <1>4 DEF Below
  <2> QED BY <1>2, <2>1, <2>2
<1> QED BY <1>2, <1>4, <1>5, <1>6 DEF Top, Below

\* A frame on top of a stack.
LEMMA PushEffect ==
  ASSUME NEW st \in Seq(Frame), NEW f \in Frame
  PROVE  /\ Append(st, f) \in Seq(Frame)
         /\ Len(Append(st, f)) = Len(st) + 1 /\ Len(st) \in Nat
         /\ \A i \in 1..Len(st) : Append(st, f)[i] = st[i]
         /\ Append(st, f)[Len(st) + 1] = f
BY AppendProperties, LenProperties

\* The list that is left when its first block is taken.
LEMMA HeadTail ==
  ASSUME NEW todo \in Seq(Block), todo # <<>>
  PROVE  /\ Head(todo) \in Block /\ Tail(todo) \in Seq(Block)
         /\ \A b : On(todo, b) => b = Head(todo) \/ On(Tail(todo), b)
<1>1. /\ Head(todo) \in Block /\ Tail(todo) \in Seq(Block) /\ Len(todo) \in Nat \ {0}
      /\ Len(Tail(todo)) = Len(todo) - 1
      /\ \A i \in 1..Len(Tail(todo)) : Tail(todo)[i] = todo[i + 1]
      /\ Head(todo) = todo[1]
  BY HeadTailProperties, EmptySeq
<1>2. ASSUME NEW b, NEW j \in 1..Len(todo), todo[j] = b
      PROVE  b = Head(todo) \/ On(Tail(todo), b)
  <2>1. CASE j = 1
    BY <1>1, <1>2, <2>1
  <2>2. CASE j # 1
    <3>1. j - 1 \in 1..Len(Tail(todo)) /\ Tail(todo)[j - 1] = todo[j]
      BY <1>1, <2>2
    <3> QED BY <1>2, <3>1 DEF On
  <2> QED BY <2>1, <2>2
<1> QED BY <1>1, <1>2 DEF On

\* What the end of a block puts on the stack.
LEMMA FollowEffect ==
  ASSUME TypeOK, NEW b \in Block, NEW holds \in BOOLEAN, ~Missing(b, holds)
  PROVE  /\ Follow(b, holds) \in Seq(Frame)
         /\ Follow(b, holds) = stack
            \/ \E todo \in Seq(Block) :
                 /\ Follow(b, holds) = Push(todo, IF kind[b] = "loop" THEN b ELSE NoBlock)
                 /\ Normal(b) => todo = graph[b]
         /\ Normal(b) => Follow(b, holds) = Push(graph[b], NoBlock)
<1> DEFINE next == graph[b]
<1>1. /\ next \in Seq(Block) /\ stack \in Seq(Frame) /\ Len(next) \in Nat
      /\ \A i \in 1..Len(next) : next[i] \in Block
  BY LenProperties, ElementOfSeq DEF TypeOK
<1>2. \A todo \in Seq(Block), loop \in Block \cup {NoBlock} :
        /\ [todo |-> todo, loop |-> loop] \in Frame
        /\ Push(todo, loop) \in Seq(Frame)
  BY <1>1, PushEffect DEF Frame, Push
<1>3. CASE Normal(b)
  <2>1. Follow(b, holds) = Push(next, NoBlock) /\ kind[b] # "loop"
    BY <1>3 DEF Follow, Normal, Control
  <2> QED BY <1>1, <1>2, <2>1
<1>4. CASE ~Normal(b) /\ holds
  <2>1. next # <<>>
    BY <1>4 DEF Missing
  <2>2. <<next[1]>> \in Seq(Block)
    BY <1>1, <2>1, EmptySeq
  <2>3. CASE kind[b] = "condition"
    <3>1. Follow(b, holds) = Push(<<next[1]>>, NoBlock)
      BY <1>4, <2>3 DEF Follow
    <3> QED BY <1>2, <1>4, <2>2, <2>3, <3>1
  <2>4. CASE kind[b] = "loop"
    <3>1. Follow(b, holds) = Push(<<next[1]>>, b)
      BY <1>4, <2>4 DEF Follow
    <3> QED BY <1>2, <1>4, <2>2, <2>4, <3>1
  <2> QED BY <1>4, <2>3, <2>4 DEF Normal, Control
<1>5. CASE ~Normal(b) /\ ~holds
  <2>1. CASE kind[b] = "condition" /\ Len(next) > 1
    <3>1. <<next[2]>> \in Seq(Block)
      BY <1>1, <2>1
    <3>2. Follow(b, holds) = Push(<<next[2]>>, NoBlock)
      BY <1>5, <2>1 DEF Follow
    <3> QED BY <1>2, <1>5, <2>1, <3>1, <3>2
  <2>2. CASE kind[b] = "loop" \/ ~(Len(next) > 1)
    <3>1. Follow(b, holds) = stack
      BY <1>5, <2>2 DEF Follow, Normal, Control
    <3> QED BY <1>1, <1>5, <3>1
  <2> QED BY <1>5, <2>1, <2>2 DEF Normal, Control
<1> QED BY <1>3, <1>4, <1>5

-----------------------------------------------------------------------------
(* Type correctness                                                        *)

LEMMA TypeInit == Init => TypeOK
<1> USE WorkflowAssumption
<1> SUFFICES ASSUME Init PROVE TypeOK
  OBVIOUS
<1>1. graph \in [Block -> Seq(Block)]
  <2>1. \A n \in 0..MaxWires : [1..n -> Block] \subseteq Seq(Block)
    BY SeqDef
  <2>2. UNION {[1..n -> Block] : n \in 0..MaxWires} \subseteq Seq(Block)
    BY <2>1
  <2> QED BY <2>2 DEF Init
<1>2. stack \in Seq(Frame)
  <2>1. IsFiniteSet(Entry) /\ Entry \subseteq Block
    BY FS_Subset DEF Entry
  <2>2. Cardinality(Entry) \in Nat
    BY <2>1, FS_CardinalityType
  <2>3. PICK todo \in [1..Cardinality(Entry) -> Entry] :
          stack = <<[todo |-> todo, loop |-> NoBlock]>>
    BY DEF Init
  <2>4. todo \in [1..Cardinality(Entry) -> Block]
    BY <2>1
  <2>5. todo \in Seq(Block)
    BY <2>2, <2>4, SeqDef
  <2> QED BY <2>3, <2>5 DEF Frame
<1> QED BY <1>1, <1>2 DEF Init, TypeOK

LEMMA TypeStep ==
  ASSUME TypeOK, [Next]_vars
  PROVE  TypeOK'
<1> USE WorkflowAssumption
<1>1. CASE Visit
  <2>1. stack # <<>> /\ Top.todo # <<>>
    BY <1>1 DEF Visit
  <2>2. Top \in Frame /\ Below \in Seq(Frame)
    BY <2>1, TopBelow
  <2>3. Top.todo \in Seq(Block)
    BY <2>2 DEF Frame
  <2>4. Head(Top.todo) \in Block /\ Tail(Top.todo) \in Seq(Block)
    BY <2>1, <2>3, HeadTail
  <2>5. [Top EXCEPT !.todo = Tail(@)] \in Frame
    BY <2>2, <2>4 DEF Frame
  <2>6. stack' \in Seq(Frame)
    BY <1>1, <2>2, <2>5, PushEffect DEF Visit
  <2>7. running' \in Block \cup {NoBlock} /\ status' \in Ended \cup {"running", "stopping"}
    BY <1>1, <2>4 DEF Visit, Execute, TypeOK, Ended
  <2> QED BY <1>1, <2>6, <2>7 DEF Visit, TypeOK
<1>2. CASE Return
  <2>1. Top \in Frame /\ Below \in Seq(Frame)
    BY <1>2, TopBelow DEF Return
  <2> QED BY <1>2, <2>1 DEF Return, TypeOK, Frame
<1>3. CASE Completes
  BY <1>3 DEF Completes, TypeOK, Ended
<1>4. ASSUME NEW holds \in BOOLEAN, NEW out, BlockReturns(holds, out) PROVE TypeOK'
  <2>1. running \in Block
    BY <1>4 DEF BlockReturns, TypeOK
  <2>2. stack' \in Seq(Frame) /\ status' \in Ended \cup {"running", "stopping"}
    BY <1>4, <2>1, FollowEffect DEF BlockReturns, TypeOK, Ended
  <2>3. results' \subseteq Block /\ ran' \in [Block -> 0..2]
        /\ running' \in Block \cup {NoBlock}
    BY <1>4, <2>1 DEF BlockReturns, TypeOK
  <2>4. given' \in [Block -> SUBSET Nat]
    <3>1. DOMAIN graph[running] \subseteq Nat
      BY <2>1, LenProperties DEF TypeOK
    <3>2. out \subseteq Nat /\ given' = [given EXCEPT ![running] = out]
      BY <1>4, <3>1 DEF BlockReturns, Outputs
    <3> QED BY <2>1, <3>2 DEF TypeOK
  <2> QED BY <1>4, <2>2, <2>3, <2>4 DEF BlockReturns, TypeOK
<1>5. CASE BlockRaises \/ ThreadEnds \/ Timeout \/ Cancel
  BY <1>5 DEF BlockRaises, ThreadEnds, Interrupt, Timeout, Cancel, TypeOK, Ended
<1>6. CASE UNCHANGED vars
  BY <1>6 DEF vars, TypeOK
<1> QED BY <1>1, <1>2, <1>3, <1>4, <1>5, <1>6 DEF Next, Proceed

\* Type correctness of a run of any workflow.
THEOREM TypeCorrect == Spec => []TypeOK
BY TypeInit, TypeStep, PTL DEF Spec

-----------------------------------------------------------------------------
(* A block runs once, after its sources                                    *)

\* The workflow does not change while it runs.
LEMMA Fixed ==
  ASSUME [Next]_vars
  PROVE  /\ shape' = shape /\ graph' = graph /\ kind' = kind /\ Entry' = Entry
         /\ \A b : Sources(b)' = Sources(b) /\ (Normal(b)' <=> Normal(b))
<1>1. shape' = shape /\ graph' = graph
  BY DEF Next, Proceed, Visit, Return, Completes, BlockReturns, BlockRaises, ThreadEnds,
     Interrupt, Timeout, Cancel, vars
<1>2. kind' = kind
  BY <1>1 DEF kind
<1>3. \A b : Sources(b)' = Sources(b)
  BY <1>1 DEF Sources
<1>4. Entry' = Entry
  BY <1>1, <1>3 DEF Entry
<1> QED BY <1>1, <1>2, <1>3, <1>4 DEF Normal

\* Only loops wait on the stack.
LoopsWait == \A i \in 1..Len(stack) : stack[i].loop # NoBlock => ~Normal(stack[i].loop)

LEMMA LoopsStep ==
  ASSUME TypeOK, LoopsWait, [Next]_vars
  PROVE  LoopsWait'
<1> USE WorkflowAssumption
<1>0. \A b : Normal(b)' <=> Normal(b)
  BY Fixed
<1>1. CASE Visit
  <2>1. stack # <<>> /\ Top.todo # <<>>
        /\ stack' = Append(Below, [Top EXCEPT !.todo = Tail(@)])
    BY <1>1 DEF Visit
  <2>2. /\ Top \in Frame /\ Below \in Seq(Frame) /\ Len(Below) = Len(stack) - 1
        /\ Len(stack) \in Nat \ {0}
        /\ \A i \in 1..Len(stack) - 1 : Below[i] = stack[i]
    BY <2>1, TopBelow
  <2>3. Tail(Top.todo) \in Seq(Block)
    BY <2>1, <2>2, HeadTail DEF Frame
  <2>4. [Top EXCEPT !.todo = Tail(@)] \in Frame
        /\ [Top EXCEPT !.todo = Tail(@)].loop = Top.loop
    BY <2>2, <2>3 DEF Frame
  <2>5. /\ Len(stack') = Len(stack)
        /\ \A i \in 1..Len(stack) - 1 : stack'[i] = stack[i]
        /\ stack'[Len(stack)].loop = stack[Len(stack)].loop
    BY <2>1, <2>2, <2>4, PushEffect DEF Top
  <2>6. \A i \in 1..Len(stack) : stack'[i].loop = stack[i].loop
    BY <2>2, <2>5
  <2> QED BY <1>0, <2>5, <2>6 DEF LoopsWait
<1>2. CASE Return
  <2>1. stack # <<>> /\ stack' = Below
    BY <1>2 DEF Return
  <2>2. Len(stack') = Len(stack) - 1 /\ Len(stack) \in Nat \ {0}
        /\ \A i \in 1..Len(stack) - 1 : stack'[i] = stack[i]
    BY <2>1, TopBelow
  <2>3. \A i \in 1..Len(stack) - 1 : i \in 1..Len(stack)
    BY <2>2
  <2> QED BY <1>0, <2>2, <2>3 DEF LoopsWait
<1>3. ASSUME NEW holds \in BOOLEAN, NEW out, BlockReturns(holds, out) PROVE LoopsWait'
  <2>1. running \in Block
    BY <1>3 DEF BlockReturns, TypeOK
  <2>2. CASE stack' = stack
    BY <1>0, <2>2 DEF LoopsWait
  <2>3. ASSUME NEW todo \in Seq(Block),
               stack' = Push(todo, IF kind[running] = "loop" THEN running ELSE NoBlock)
        PROVE  LoopsWait'
    <3> DEFINE f == [todo |-> todo, loop |-> IF kind[running] = "loop" THEN running ELSE NoBlock]
    <3>1. f \in Frame /\ (f.loop # NoBlock => ~Normal(f.loop))
      BY <2>1 DEF Frame, Normal, Control
    <3>2. stack \in Seq(Frame) /\ stack' = Append(stack, f)
      BY <2>3 DEF TypeOK, Push
    <3>3. /\ Len(stack') = Len(stack) + 1 /\ Len(stack) \in Nat
          /\ \A i \in 1..Len(stack) : stack'[i] = stack[i]
          /\ stack'[Len(stack) + 1] = f
      <4> HIDE DEF f
      <4> QED BY <3>1, <3>2, PushEffect
    <3>4. \A i \in 1..Len(stack') : i \in 1..Len(stack) \/ i = Len(stack) + 1
      BY <3>3
    <3> QED BY <1>0, <3>1, <3>3, <3>4 DEF LoopsWait
  <2> QED BY <1>3, <2>1, <2>2, <2>3, FollowEffect DEF BlockReturns
<1>4. CASE Completes \/ BlockRaises \/ ThreadEnds \/ Timeout \/ Cancel \/ UNCHANGED vars
  <2>1. stack' = stack
    BY <1>4 DEF Completes, BlockRaises, ThreadEnds, Interrupt, Timeout, Cancel, vars
  <2> QED BY <1>0, <2>1 DEF LoopsWait
<1> QED BY <1>1, <1>2, <1>3, <1>4 DEF Next, Proceed

\* Values that were there when a block was executed stay there.
LEMMA StaysSupplied ==
  ASSUME TypeOK, RunInv, [Next]_vars, NEW b \in Block, Sources(b) \subseteq results, Supplied(b)
  PROVE  Supplied(b)'
<1>1. graph' = graph
  BY Fixed
<1>2. CASE given' = given
  BY <1>1, <1>2 DEF Supplied
<1>3. ASSUME NEW holds \in BOOLEAN, NEW out, BlockReturns(holds, out) PROVE Supplied(b)'
  <2>1. /\ running \in Block /\ given' = [given EXCEPT ![running] = out]
        /\ out \in Outputs(running) /\ given \in [Block -> SUBSET Nat]
    BY <1>3 DEF BlockReturns, TypeOK
  <2>2. ASSUME NEW s \in Block, NEW i \in DOMAIN graph[s], graph[s][i] = b
        PROVE  i \in given'[s]
    <3>1. i \in given[s] /\ s \in Sources(b)
      BY <2>2 DEF Supplied, Sources
    <3>2. CASE s # running
      BY <2>1, <3>1, <3>2
    <3>3. CASE s = running
      <4>1. ~Normal(s)
        BY <3>1, <3>3 DEF RunInv
      <4>2. out = DOMAIN graph[s]
        BY <2>1, <3>3, <4>1 DEF Outputs, Normal, Control
      <4> QED BY <2>1, <3>3, <4>2
    <3> QED BY <3>2, <3>3
  <2> QED BY <1>1, <2>2 DEF Supplied
<1>4. given' = given \/ \E holds \in BOOLEAN : \E out : BlockReturns(holds, out)
  BY DEF Next, Proceed, Visit, Return, Completes, BlockRaises, ThreadEnds, Interrupt, Timeout,
     Cancel, vars
<1> QED BY <1>2, <1>3, <1>4

LEMMA RunStep ==
  ASSUME TypeOK, RunInv, [Next]_vars
  PROVE  RunInv'
<1> USE WorkflowAssumption
<1>0. \A b : Sources(b)' = Sources(b) /\ (Normal(b)' <=> Normal(b))
  BY Fixed
<1> DEFINE Runs(b) == /\ ran[b] = IF b \in results THEN 1 ELSE 0
                      /\ b \in results \cup {running} => Sources(b) \subseteq results /\ Supplied(b)
                      /\ running = b => b \notin results
<1>1. LoopsWait'
  BY LoopsStep DEF RunInv, LoopsWait
<1>2. ASSUME NEW b \in Block, Normal(b) PROVE Runs(b)'
  <2>0. Runs(b) /\ (Sources(b) \subseteq results /\ Supplied(b) => Supplied(b)')
    BY <1>2, StaysSupplied DEF RunInv
  <2>1. CASE Visit
    <3>1. /\ UNCHANGED <<results, ran>>
          /\ \/ running' = running
             \/ /\ running' = Head(Top.todo) /\ Normal(Head(Top.todo))
                /\ CanExecute(Head(Top.todo)) /\ Supplied(Head(Top.todo))
             \/ running' = Head(Top.todo) /\ ~Normal(Head(Top.todo))
      BY <2>1 DEF Visit, Execute
    <3> QED BY <1>0, <1>2, <2>0, <3>1 DEF CanExecute
  <2>2. CASE Return
    <3>1. stack # <<>> /\ UNCHANGED <<results, ran>> /\ running' = Top.loop
      BY <2>2 DEF Return
    <3>2. Len(stack) \in 1..Len(stack)
      BY <3>1, TopBelow
    <3>3. running' # b
      BY <1>2, <3>1, <3>2 DEF RunInv, Top
    <3> QED BY <1>0, <2>0, <3>1, <3>3
  <2>3. ASSUME NEW holds \in BOOLEAN, NEW out, BlockReturns(holds, out) PROVE Runs(b)'
    <3>1. /\ running \in Block /\ results' = results \cup {running} /\ running' = NoBlock
          /\ ran' = [ran EXCEPT ![running] = IF @ < 2 THEN @ + 1 ELSE @]
      BY <2>3 DEF BlockReturns, TypeOK
    <3>2. CASE b = running
      BY <1>0, <2>0, <3>1, <3>2 DEF TypeOK
    <3>3. CASE b # running
      BY <1>0, <2>0, <3>1, <3>3 DEF TypeOK
    <3> QED BY <3>2, <3>3
  <2>4. CASE Completes \/ BlockRaises \/ ThreadEnds \/ Timeout \/ Cancel \/ UNCHANGED vars
    <3>1. UNCHANGED <<results, ran>> /\ running' \in {running, NoBlock}
      BY <2>4 DEF Completes, BlockRaises, ThreadEnds, Interrupt, Timeout, Cancel, vars
    <3> QED BY <1>0, <2>0, <3>1
  <2> QED BY <2>1, <2>2, <2>3, <2>4 DEF Next, Proceed
<1> QED BY <1>0, <1>1, <1>2 DEF RunInv, LoopsWait

\* A normal block is executed at most once, and only when all its sources
\* have results, whatever lists it is on, however often it is on them, and
\* whatever branches and loops lead to it.
THEOREM BlocksRunOnce == Spec => []OnceAfterSources
<1>1. Init => RunInv
  <2> SUFFICES ASSUME Init PROVE RunInv
    OBVIOUS
  <2>1. \A i \in 1..Len(stack) : stack[i].loop = NoBlock
    BY DEF Init
  <2> QED BY <2>1, WorkflowAssumption DEF Init, RunInv
<1>2. TypeOK /\ RunInv => OnceAfterSources
  BY DEF TypeOK, RunInv, OnceAfterSources
<1>3. TypeOK /\ RunInv /\ [Next]_vars => TypeOK' /\ RunInv'
  BY TypeStep, RunStep
<1> QED BY <1>1, <1>2, <1>3, TypeInit, PTL DEF Spec

-----------------------------------------------------------------------------
(* No block is skipped                                                     *)

\* What is due was due before, or the block that has just ended is one of its
\* sources.
LEMMA NewlyDue ==
  ASSUME TypeOK, [Next]_vars, NEW b \in Block, Due(b)'
  PROVE  /\ Normal(b) /\ \A s \in Sources(b) : Normal(s)
         /\ \/ Due(b)
            \/ /\ running \in Sources(b) /\ running \in Block /\ Normal(running)
               /\ \E holds \in BOOLEAN : \E out : BlockReturns(holds, out)
<1>1. /\ Normal(b) /\ \A s \in Sources(b) : Normal(s)
      /\ b \in Entry \/ Sources(b) # {}
      /\ Sources(b) \subseteq results'
      /\ shape[b].unwired # "required" /\ (shape[b].optional \/ Supplied(b)')
  <2>1. /\ shape' = shape /\ Entry' = Entry /\ Sources(b)' = Sources(b)
        /\ \A s : Normal(s)' <=> Normal(s)
    BY Fixed
  <2>2. Normal(b)' /\ (\A s \in Sources(b)' : Normal(s)') /\ (b \in Entry' \/ Sources(b)' # {})
    BY DEF Due
  <2>3. /\ Sources(b)' \subseteq results' /\ shape'[b].unwired # "required"
        /\ (shape'[b].optional \/ Supplied(b)')
    BY DEF Due, Ready, Satisfied
  <2> QED BY <2>1, <2>2, <2>3
<1>2. CASE results' = results /\ given' = given
  <2>1. Supplied(b)' => Supplied(b)
    BY <1>2, Fixed DEF Supplied
  <2> QED BY <1>1, <1>2, <2>1 DEF Due, Ready, Satisfied
<1>3. ASSUME NEW holds \in BOOLEAN, NEW out, BlockReturns(holds, out)
      PROVE  Due(b) \/ (running \in Sources(b) /\ running \in Block /\ Normal(running))
  <2>1. /\ running \in Block /\ results' = results \cup {running} /\ graph' = graph
        /\ given' = [given EXCEPT ![running] = out] /\ given \in [Block -> SUBSET Nat]
    BY <1>3 DEF BlockReturns, TypeOK
  <2>2. CASE running \in Sources(b)
    BY <1>1, <2>1, <2>2
  <2>3. CASE running \notin Sources(b)
    <3>1. Supplied(b)' => Supplied(b)
      <4> SUFFICES ASSUME Supplied(b)', NEW s \in Block, NEW i \in DOMAIN graph[s],
                          graph[s][i] = b
                   PROVE  i \in given[s]
        BY DEF Supplied
      <4>1. s # running
        BY <2>3 DEF Sources
      <4>2. i \in given'[s]
        BY <2>1 DEF Supplied
      <4> QED BY <2>1, <4>1, <4>2
    <3>2. Sources(b) \subseteq results
      BY <1>1, <2>1, <2>3
    <3> QED BY <1>1, <3>1, <3>2 DEF Due, Ready, Satisfied
  <2> QED BY <2>2, <2>3
<1>4. (results' = results /\ given' = given) \/ \E holds \in BOOLEAN : \E out : BlockReturns(holds, out)
  BY DEF Next, Proceed, Visit, Return, Completes, BlockRaises, ThreadEnds, Interrupt, Timeout, Cancel, vars
<1> QED BY <1>1, <1>2, <1>3, <1>4

LEMMA ListStep ==
  ASSUME TypeOK, ListInv, [Next]_vars
  PROVE  ListInv'
<1> USE WorkflowAssumption
<1> SUFFICES ASSUME status' \in {"running", "completed"}, NEW b \in Block, Due(b)'
             PROVE  b \in results' \/ running' = b \/ Listed(stack', b)
  BY DEF ListInv
<1>1. status \in {"running", "completed"}
  BY DEF Next, Proceed, Visit, Return, Completes, BlockReturns, BlockRaises, ThreadEnds,
     Interrupt, Timeout, Cancel, vars, Ended
<1>2. /\ Normal(b) /\ \A s \in Sources(b) : Normal(s)
      /\ \/ Due(b)
         \/ /\ running \in Sources(b) /\ running \in Block /\ Normal(running)
            /\ \E holds \in BOOLEAN : \E out : BlockReturns(holds, out)
  BY NewlyDue
<1>3. Due(b) => b \in results \/ running = b \/ Listed(stack, b)
  BY <1>1 DEF ListInv
<1>4. CASE Visit
  <2>1. stack # <<>> /\ Top.todo # <<>> /\ running = NoBlock /\ status = "running"
        /\ stack' = Append(Below, [Top EXCEPT !.todo = Tail(@)])
        /\ results' = results
    BY <1>4 DEF Visit
  <2>2. /\ Top \in Frame /\ Below \in Seq(Frame) /\ Len(Below) = Len(stack) - 1
        /\ Len(stack) \in Nat \ {0}
        /\ \A i \in 1..Len(stack) - 1 : Below[i] = stack[i]
    BY <2>1, TopBelow
  <2>3. Top.todo \in Seq(Block)
    BY <2>2 DEF Frame
  <2>4. Tail(Top.todo) \in Seq(Block)
        /\ (On(Top.todo, b) => b = Head(Top.todo) \/ On(Tail(Top.todo), b))
    BY <2>1, <2>3, HeadTail
  <2>5. [Top EXCEPT !.todo = Tail(@)] \in Frame
        /\ [Top EXCEPT !.todo = Tail(@)].todo = Tail(Top.todo)
    BY <2>2, <2>4 DEF Frame
  <2>6. /\ Len(stack') = Len(stack)
        /\ \A i \in 1..Len(stack) - 1 : stack'[i] = stack[i]
        /\ stack'[Len(stack)].todo = Tail(Top.todo)
    BY <2>1, <2>2, <2>5, PushEffect
  <2>7. Due(b)
    BY <1>2, <1>4 DEF Visit, BlockReturns
  <2>8. CASE Listed(stack, b)
    <3>1. PICK i \in 1..Len(stack) : On(stack[i].todo, b)
      BY <2>8 DEF Listed
    <3>2. CASE i # Len(stack)
      <4>1. i \in 1..Len(stack) - 1 /\ i \in 1..Len(stack')
        BY <2>2, <2>6, <3>2
      <4> QED BY <2>6, <3>1, <4>1 DEF Listed
    <3>3. CASE i = Len(stack) /\ On(Tail(Top.todo), b)
      <4>1. i \in 1..Len(stack')
        BY <2>6
      <4> QED BY <2>6, <3>3, <4>1 DEF Listed
    <3>4. CASE b = Head(Top.todo)
      <4>1. CASE CanExecute(b)
        BY <1>2, <1>4, <3>4, <4>1 DEF Visit, Execute, Ended
      <4>2. CASE ~CanExecute(b)
        <5>1. Sources(b) \subseteq results /\ Satisfied(b)
          BY <2>7 DEF Due, Ready
        <5>2. b \in results
          BY <4>2, <5>1 DEF CanExecute
        <5> QED BY <2>1, <5>2
      <4> QED BY <4>1, <4>2
    <3>5. i = Len(stack) => On(Top.todo, b)
      BY <3>1 DEF Top
    <3> QED BY <2>4, <3>2, <3>3, <3>4, <3>5
  <2> QED BY <1>3, <2>1, <2>7, <2>8
<1>5. CASE Return
  <2>1. /\ stack # <<>> /\ stack' = Below /\ Top.todo = <<>> /\ results' = results
        /\ running = NoBlock
    BY <1>5 DEF Return
  <2>2. Len(stack') = Len(stack) - 1 /\ Len(stack) \in Nat \ {0}
        /\ \A i \in 1..Len(stack) - 1 : stack'[i] = stack[i]
    BY <2>1, TopBelow
  <2>3. Due(b)
    BY <1>2, <1>5 DEF Return, BlockReturns
  <2>4. CASE Listed(stack, b)
    <3>1. PICK i \in 1..Len(stack) : On(stack[i].todo, b)
      BY <2>4 DEF Listed
    <3>2. i # Len(stack)
      BY <2>1, <3>1, EmptySeq DEF On, Top
    <3>3. i \in 1..Len(stack') /\ stack'[i] = stack[i]
      BY <2>2, <3>2
    <3> QED BY <3>1, <3>3 DEF Listed
  <2> QED BY <1>3, <2>1, <2>3, <2>4
<1>6. ASSUME NEW holds \in BOOLEAN, NEW out, BlockReturns(holds, out)
      PROVE  b \in results' \/ running' = b \/ Listed(stack', b)
  <2>1. /\ running \in Block /\ results' = results \cup {running} /\ status = "running"
        /\ stack \in Seq(Frame) /\ graph \in [Block -> Seq(Block)]
    BY <1>6 DEF BlockReturns, TypeOK
  <2>2. ~Missing(running, holds) /\ stack' = Follow(running, holds)
    BY <1>6, <2>1 DEF BlockReturns
  <2>3. \A todo \in Seq(Block), loop \in Block \cup {NoBlock} :
          /\ Len(Push(todo, loop)) = Len(stack) + 1 /\ Len(stack) \in Nat
          /\ \A i \in 1..Len(stack) : Push(todo, loop)[i] = stack[i]
          /\ Push(todo, loop)[Len(stack) + 1] = [todo |-> todo, loop |-> loop]
    <3>1. \A todo \in Seq(Block), loop \in Block \cup {NoBlock} :
            [todo |-> todo, loop |-> loop] \in Frame
      BY DEF Frame
    <3>2. \A f \in Frame :
            /\ Len(Append(stack, f)) = Len(stack) + 1 /\ Len(stack) \in Nat
            /\ \A i \in 1..Len(stack) : Append(stack, f)[i] = stack[i]
            /\ Append(stack, f)[Len(stack) + 1] = f
      BY <2>1, PushEffect
    <3> QED BY <3>1, <3>2, Zenon DEF Push
  <2>4. CASE Listed(stack, b)
    <3>1. CASE stack' = stack
      BY <2>4, <3>1
    <3>2. CASE stack' # stack
      <4>1. PICK todo \in Seq(Block), loop \in Block \cup {NoBlock} : stack' = Push(todo, loop)
        <5>1. (IF kind[running] = "loop" THEN running ELSE NoBlock) \in Block \cup {NoBlock}
          BY <2>1
        <5> QED BY <2>1, <2>2, <3>2, <5>1, FollowEffect
      <4>2. /\ Len(stack') = Len(stack) + 1 /\ Len(stack) \in Nat
            /\ \A i \in 1..Len(stack) : stack'[i] = stack[i]
        BY <2>1, <2>3, <4>1
      <4>3. PICK i \in 1..Len(stack) : On(stack[i].todo, b)
        BY <2>4 DEF Listed
      <4>4. i \in 1..Len(stack')
        BY <4>2
      <4> QED BY <4>2, <4>3, <4>4 DEF Listed
    <3> QED BY <3>1, <3>2
  <2>5. CASE running \in Sources(b) /\ Normal(running)
    <3>1. stack' = Push(graph[running], NoBlock)
      BY <2>1, <2>2, <2>5, FollowEffect
    <3>2. /\ Len(stack') = Len(stack) + 1 /\ Len(stack) \in Nat
          /\ stack'[Len(stack) + 1] = [todo |-> graph[running], loop |-> NoBlock]
      BY <2>1, <2>3, <3>1
    <3>3. On(graph[running], b)
      <4>1. PICK i \in DOMAIN graph[running] : graph[running][i] = b
        BY <2>5 DEF Sources
      <4>2. graph[running] \in Seq(Block)
        BY <2>1
      <4>3. i \in 1..Len(graph[running])
        BY <4>1, <4>2, LenProperties
      <4> QED BY <4>1, <4>3 DEF On
    <3>4. Len(stack) + 1 \in 1..Len(stack') /\ stack'[Len(stack) + 1].todo = graph[running]
      BY <3>2
    <3> QED BY <3>3, <3>4 DEF Listed
  <2> QED BY <1>2, <1>3, <2>1, <2>4, <2>5
<1>7. CASE Completes \/ BlockRaises \/ ThreadEnds \/ Timeout \/ Cancel \/ UNCHANGED vars
  <2>1. /\ UNCHANGED <<results, stack>>
        /\ running' = running \/ running = NoBlock
        /\ Due(b)
    BY <1>2, <1>7 DEF Completes, BlockRaises, ThreadEnds, Interrupt, Timeout, Cancel, vars, BlockReturns, Ended,
       Due, Sources, Normal
  <2> QED BY <1>3, <2>1
<1> QED BY <1>4, <1>5, <1>6, <1>7 DEF Next, Proceed

\* Whatever the wires, the order of the blocks and the outputs that results
\* leave out, a run that completes has executed every block without inputs and
\* every block whose sources are normal blocks with results and whose required
\* inputs have values: looking at a block only when one of its sources has
\* ended, and passing over it when another has not, forgets none.
THEOREM NoneSkipped == Spec => []NothingSkipped
<1>1. Init => ListInv /\ DoneInv
  <2> SUFFICES ASSUME Init, NEW b \in Block, Due(b) PROVE Listed(stack, b)
    BY DEF Init, ListInv, DoneInv
  <2>1. IsFiniteSet(Entry)
    BY WorkflowAssumption, FS_Subset DEF Entry
  <2>2. Cardinality(Entry) \in Nat
    BY <2>1, FS_CardinalityType
  <2>3. PICK todo \in [1..Cardinality(Entry) -> Entry] :
          /\ \A e \in Entry : \E i \in DOMAIN todo : todo[i] = e
          /\ stack = <<[todo |-> todo, loop |-> NoBlock]>>
    BY DEF Init
  <2>4. b \in Entry
    BY DEF Init, Due, Ready
  <2>5. todo \in Seq(Entry)
    BY <2>2, SeqDef
  <2>6. On(todo, b)
    <3>1. PICK i \in DOMAIN todo : todo[i] = b
      BY <2>3, <2>4
    <3>2. i \in 1..Len(todo)
      BY <2>5, LenProperties
    <3> QED BY <3>1, <3>2 DEF On
  <2>7. Len(stack) = 1 /\ stack[1].todo = todo
    BY <2>3
  <2> QED BY <2>6, <2>7 DEF Listed
<1>2. TypeOK /\ ListInv /\ DoneInv => NothingSkipped
  <2> SUFFICES ASSUME TypeOK, ListInv, DoneInv, status = "completed",
                      NEW b \in Block, Due(b)
               PROVE  b \in results
    BY DEF NothingSkipped, Due
  <2>1. stack = <<>> /\ running = NoBlock
    BY DEF DoneInv
  <2>2. ~Listed(stack, b)
    BY <2>1, EmptySeq DEF Listed
  <2> QED BY <2>1, <2>2, WorkflowAssumption DEF ListInv
<1>3. DoneInv /\ [Next]_vars => DoneInv'
  BY DEF DoneInv, Next, Proceed, Visit, Return, Completes, BlockReturns, BlockRaises,
     ThreadEnds, Interrupt, Timeout, Cancel, vars, Ended, Execute
<1>4. TypeOK /\ ListInv /\ DoneInv /\ [Next]_vars => TypeOK' /\ ListInv' /\ DoneInv'
  BY <1>3, TypeStep, ListStep
<1> QED BY <1>1, <1>2, <1>4, TypeInit, PTL DEF Spec

=============================================================================
