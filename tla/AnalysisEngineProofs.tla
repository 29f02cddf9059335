------------------------ MODULE AnalysisEngineProofs ------------------------
(***************************************************************************)
(* Theorems about the decode engine, for any contents, handlers, limits    *)
(* and faults.                                                             *)
(*                                                                         *)
(* The invariant ties the three parts of the engine's state together: the  *)
(* frames of the Python stack are the path from the root to the node at    *)
(* work, the call that is about to begin is made by the innermost frame,   *)
(* and the seen hashes are the contents of the nodes that are explored.    *)
(* While nothing has been cut off, each activation on the stack knows what *)
(* it has tried and what is still to come, and each node whose activation  *)
(* has returned has everything its handler yielded below it.               *)
(***************************************************************************)
EXTENDS AnalysisEngine, TLAPS

Duplicate(n) == nodes[n].state = "duplicate"

\* A loop over analyzers tries analyzers, and one over decoders decoders.
Tries(f) ==
  /\ f.pc \in {"analyzers", "extracting"} => f.todo \subseteq Analyzers
  /\ f.pc = "decoders" => f.todo \subseteq Decoders

\* Frame i works on a node at depth i - 1.
StackInv ==
  \A i \in DOMAIN stack :
    /\ Tries(stack[i])
    /\ stack[i].node \in Ids
    /\ nodes[stack[i].node].depth = i - 1
    /\ ~Duplicate(stack[i].node)

\* A call is the first one of a run, or was made by the innermost frame.
CallInv ==
  call # NoCall =>
    /\ ~raising
    /\ call.depth = Len(stack)
    /\ IF stack = <<>> THEN call.parent = 0 /\ nodes = <<>>
                       ELSE call.parent = Top.node

TreeInv ==
  /\ Len(nodes) <= MaxNodes
  /\ \A n \in Ids :
       /\ nodes[n].depth <= MaxDepth
       /\ IF nodes[n].parent = 0 THEN n = 1 /\ nodes[n].depth = 0
          ELSE /\ nodes[n].parent \in 1 .. n - 1
               /\ nodes[n].depth = nodes[nodes[n].parent].depth + 1
               /\ ~Duplicate(nodes[n].parent)

SeenInv ==
  /\ \A n \in Ids : ~Duplicate(n) => nodes[n].content \in seen
  /\ \A c \in seen : \E n \in Ids : ~Duplicate(n) /\ nodes[n].content = c
  /\ \A m, n \in Ids : nodes[m].content = nodes[n].content /\ m # n =>
       Duplicate(m) \/ Duplicate(n)
  /\ \A n \in Ids : Duplicate(n) =>
       \E m \in 1 .. n - 1 : /\ ~Duplicate(m)
                             /\ nodes[m].content = nodes[n].content

\* node has produced the bytes c.
Produced(node, c) == c \in Yield(node.method, node.used, node.content)

\* As long as no matcher has raised: only the innermost frame tries handlers,
\* its node has no children and no class yet, and its best decode is a decode
\* of that node's bytes; a frame that recurses into artifacts has them from
\* the handler its node names.
FrameInv(i) ==
  LET f == stack[i]
      n == nodes[f.node]
  IN  IF f.pc \in {"analyzers", "decoders"}
      THEN /\ i = Len(stack) /\ call = NoCall
           /\ n.state = "pending"
           /\ \A m \in Ids : nodes[m].parent # f.node
           /\ f.best.by # None =>
                f.best.out = Decode[f.best.by][n.content].out
      ELSE \A k \in DOMAIN f.queue :
             f.pc = "extracting" => Produced(n, f.queue[k].content)

ProvenanceInv ==
  "matcher" \notin upset =>
    /\ ~raising
    /\ \A n \in Ids : nodes[n].parent # 0 =>
         Produced(nodes[nodes[n].parent], nodes[n].content)
    /\ call # NoCall /\ stack # <<>> => Produced(TopNode, call.content)
    /\ \A i \in DOMAIN stack : FrameInv(i)

EngineInv ==
  /\ TypeOK /\ StackInv /\ CallInv /\ TreeInv /\ SeenInv /\ ProvenanceInv

Structure == StackInv /\ CallInv /\ TreeInv /\ SeenInv

-----------------------------------------------------------------------------
(* The stack and the tree as sequences *)

LEMMA TopType ==
  ASSUME TypeOK, StackInv, stack # <<>>
  PROVE  /\ Len(stack) \in Nat \ {0} /\ Len(stack) \in DOMAIN stack
         /\ Top \in Frame /\ Top.node \in Ids /\ Top.node \in Nat
         /\ TopNode \in Node /\ TopNode.depth = Len(stack) - 1
         /\ ~Duplicate(Top.node) /\ Tries(Top)
<1>1. Len(stack) \in Nat \ {0} /\ Len(stack) \in DOMAIN stack
  BY DEF TypeOK
<1> QED BY <1>1 DEF TypeOK, StackInv, Top, TopNode, Ids

LEMMA SetTopType ==
  ASSUME TypeOK, stack # <<>>, NEW f \in Frame, stack' = SetTop(f)
  PROVE  /\ stack' \in Seq(Frame) /\ stack' # <<>>
         /\ Len(stack') = Len(stack) /\ DOMAIN stack' = DOMAIN stack
         /\ Top' = f
         /\ \A i \in DOMAIN stack : i # Len(stack) => stack'[i] = stack[i]
  BY DEF TypeOK, SetTop, Top

LEMMA FrontType ==
  ASSUME NEW S, NEW s \in Seq(S), NEW m \in Nat, m <= Len(s)
  PROVE  /\ SubSeq(s, 1, m) \in Seq(S) /\ Len(SubSeq(s, 1, m)) = m
         /\ \A i \in 1 .. m : SubSeq(s, 1, m)[i] = s[i]
  OBVIOUS

LEMMA PopType ==
  ASSUME TypeOK, stack # <<>>, stack' = Pop
  PROVE  /\ stack' \in Seq(Frame)
         /\ Len(stack') = Len(stack) - 1
         /\ DOMAIN stack' = 1 .. Len(stack) - 1
         /\ \A i \in DOMAIN stack' :
              i \in DOMAIN stack /\ i # Len(stack) /\ stack'[i] = stack[i]
<1> DEFINE m == Len(stack) - 1
<1>1. stack \in Seq(Frame) /\ m \in Nat /\ m <= Len(stack)
  BY DEF TypeOK
<1>2. stack' = SubSeq(stack, 1, m)
  BY DEF Pop
<1> HIDE DEF m
<1>3. /\ stack' \in Seq(Frame) /\ Len(stack') = m
      /\ \A i \in 1 .. m : stack'[i] = stack[i]
  BY <1>1, <1>2, FrontType
<1> QED BY <1>1, <1>3 DEF m

LEMMA SetNodeType ==
  ASSUME TypeOK, StackInv, stack # <<>>, NEW r \in Node, nodes' = SetNode(r)
  PROVE  /\ nodes' \in Seq(Node) /\ Len(nodes') = Len(nodes) /\ Ids' = Ids
         /\ nodes'[Top.node] = r
         /\ \A n \in Ids : n # Top.node => nodes'[n] = nodes[n]
<1>1. Top.node \in Ids
  BY TopType
<1> QED BY <1>1 DEF TypeOK, SetNode, Ids

LEMMA AddNodeType ==
  ASSUME TypeOK, call # NoCall, NEW st \in States, NEW pruned \in BOOLEAN,
         AddNode(st, pruned)
  PROVE  /\ nodes' \in Seq(Node) /\ Len(nodes') = Len(nodes) + 1
         /\ Len(nodes) \in Nat /\ Ids = 1 .. Len(nodes)
         /\ Ids' = Ids \cup {Len(nodes) + 1}
         /\ \A n \in Ids : nodes'[n] = nodes[n]
         /\ nodes'[Len(nodes) + 1].parent = call.parent
         /\ nodes'[Len(nodes) + 1].depth = call.depth
         /\ nodes'[Len(nodes) + 1].content = call.content
         /\ nodes'[Len(nodes) + 1].state = st
<1> DEFINE new == [parent |-> call.parent, depth |-> call.depth,
          content |-> call.content, state |-> st, method |-> "ANALYZE",
          used |-> None, pruned |-> pruned, meta |-> call.meta]
<1>1. call \in Call
  BY DEF TypeOK
<1>2. new \in Node
  BY <1>1 DEF Call, Node
<1>3. nodes' = Append(nodes, new)
  BY DEF AddNode
<1>4. /\ new.parent = call.parent /\ new.depth = call.depth
      /\ new.content = call.content /\ new.state = st
  OBVIOUS
<1> HIDE DEF new
<1> QED BY <1>2, <1>3, <1>4 DEF TypeOK, Ids

-----------------------------------------------------------------------------
(* Types *)

LEMMA ConstantTypes ==
  /\ Empty \in Content /\ Baseline \subseteq Decoders
  /\ NoBest \in Best
  /\ \A a \in Analyzers, c \in Content : Extract[a][c] \in Seq(Artifact)
  /\ \A d \in Decoders, c \in Content :
       /\ Decode[d][c].out \in Content /\ Decode[d][c].score \in Nat
       /\ [by |-> d, out |-> Decode[d][c].out, score |-> Decode[d][c].score]
            \in Best
  /\ \A c \in Content : Detects[c] \subseteq Decoders
<1>1. NoBest \in Best
  BY EngineAssumption DEF NoBest, Best
<1>2. ASSUME NEW d \in Decoders, NEW c \in Content
      PROVE  Decode[d][c] \in [out : Content, score : Nat]
  BY EngineAssumption
<1>3. \A d \in Decoders, c \in Content :
        Decode[d][c].out \in Content /\ Decode[d][c].score \in Nat
  BY <1>2
<1> QED BY <1>1, <1>3, EngineAssumption DEF Best

\* The frames that the steps make.
LEMMA FrameType ==
  ASSUME NEW f \in Frame
  PROVE  /\ \A x : [f EXCEPT !.todo = @ \ {x}] \in Frame
         /\ \A T \in SUBSET Decoders :
              [f EXCEPT !.pc = "decoders", !.todo = T] \in Frame
         /\ \A x : \A q \in Seq(Artifact) :
              [f EXCEPT !.pc = "extracting", !.todo = @ \ {x}, !.queue = q]
                \in Frame
         /\ f.queue # <<>> => [f EXCEPT !.queue = Tail(@)] \in Frame
         /\ \A x : \A b \in Best :
              [f EXCEPT !.todo = @ \ {x}, !.best = b] \in Frame
         /\ [f EXCEPT !.pc = "decoding"] \in Frame
         /\ [f EXCEPT !.pc = "analyzers", !.queue = <<>>] \in Frame
<1>1. f.todo \subseteq Analyzers \cup Decoders /\ f.queue \in Seq(Artifact)
  BY DEF Frame
<1>2. ASSUME NEW x
      PROVE  /\ [f EXCEPT !.todo = @ \ {x}] \in Frame
             /\ \A b \in Best :
                  [f EXCEPT !.todo = @ \ {x}, !.best = b] \in Frame
             /\ \A q \in Seq(Artifact) :
                  [f EXCEPT !.pc = "extracting", !.todo = @ \ {x}, !.queue = q]
                    \in Frame
  <2>1. f.todo \ {x} \in SUBSET (Analyzers \cup Decoders)
    BY <1>1
  <2> QED BY <2>1 DEF Frame
<1>3. ASSUME NEW T \in SUBSET Decoders
      PROVE  [f EXCEPT !.pc = "decoders", !.todo = T] \in Frame
  BY DEF Frame
<1>4. f.queue # <<>> => Tail(f.queue) \in Seq(Artifact)
  BY <1>1
<1>5. f.queue # <<>> => [f EXCEPT !.queue = Tail(@)] \in Frame
  BY <1>4 DEF Frame
<1>6. <<>> \in Seq(Artifact)
  OBVIOUS
<1>7. /\ [f EXCEPT !.pc = "decoding"] \in Frame
      /\ [f EXCEPT !.pc = "analyzers", !.queue = <<>>] \in Frame
  BY <1>6 DEF Frame
<1> QED BY <1>2, <1>3, <1>5, <1>7

\* The nodes that the steps make.
LEMMA NodeType ==
  ASSUME NEW n \in Node
  PROVE  /\ \A a \in Analyzers :
              LET r == [n EXCEPT !.method = "EXTRACT", !.state = "extracted",
                                 !.used = a]
              IN  /\ r \in Node /\ r.parent = n.parent /\ r.depth = n.depth
                  /\ r.content = n.content /\ r.state = "extracted"
                  /\ r.method = "EXTRACT" /\ r.used = a
         /\ \A d \in Decoders \cup {None} :
              LET r == [n EXCEPT !.method = "DECODE", !.state = "decoded",
                                 !.used = d]
              IN  /\ r \in Node /\ r.parent = n.parent /\ r.depth = n.depth
                  /\ r.content = n.content /\ r.state = "decoded"
                  /\ r.method = "DECODE" /\ r.used = d
         /\ \A b \in BOOLEAN :
              LET r == [n EXCEPT !.state = "terminal", !.pruned = @ \/ b]
              IN  /\ r \in Node /\ r.parent = n.parent /\ r.depth = n.depth
                  /\ r.content = n.content /\ r.state = "terminal"
                  /\ r.method = n.method /\ r.used = n.used
<1>1. ASSUME NEW a \in Analyzers, NEW r,
             r = [n EXCEPT !.method = "EXTRACT", !.state = "extracted", !.used = a]
      PROVE  /\ r \in Node /\ r.parent = n.parent /\ r.depth = n.depth
             /\ r.content = n.content /\ r.state = "extracted"
             /\ r.method = "EXTRACT" /\ r.used = a
  BY <1>1 DEF Node, States
<1>2. ASSUME NEW d \in Decoders \cup {None}, NEW r,
             r = [n EXCEPT !.method = "DECODE", !.state = "decoded", !.used = d]
      PROVE  /\ r \in Node /\ r.parent = n.parent /\ r.depth = n.depth
             /\ r.content = n.content /\ r.state = "decoded"
             /\ r.method = "DECODE" /\ r.used = d
  BY <1>2 DEF Node, States
<1>3. ASSUME NEW b \in BOOLEAN, NEW r,
             r = [n EXCEPT !.state = "terminal", !.pruned = @ \/ b]
      PROVE  /\ r \in Node /\ r.parent = n.parent /\ r.depth = n.depth
             /\ r.content = n.content /\ r.state = "terminal"
             /\ r.method = n.method /\ r.used = n.used
  BY <1>3 DEF Node, States
<1> QED BY <1>1, <1>2, <1>3, ZenonT(30)

\* The call that recurses into an artifact or into decoded bytes.
LEMMA CallType ==
  ASSUME TypeOK, StackInv, stack # <<>>, NEW c \in Content, NEW b \in BOOLEAN
  PROVE  [content |-> c, parent |-> Top.node, depth |-> TopNode.depth + 1,
          meta |-> b] \in Call
<1>1. Top.node \in Nat /\ TopNode \in Node
  BY TopType
<1>2. TopNode.depth + 1 \in Nat
  BY <1>1 DEF Node
<1> QED BY <1>1, <1>2 DEF Call

LEMMA StackTypes ==
  ASSUME TypeOK, StackInv, stack # <<>>
  PROVE  /\ Pop \in Seq(Frame)
         /\ \A f \in Frame : SetTop(f) \in Seq(Frame)
         /\ \A n \in Node : SetNode(n) \in Seq(Node)
<1>1. Pop \in Seq(Frame)
  <2> DEFINE m == Len(stack) - 1
  <2>1. stack \in Seq(Frame) /\ m \in Nat /\ m <= Len(stack)
    BY DEF TypeOK
  <2> HIDE DEF m
  <2>2. SubSeq(stack, 1, m) \in Seq(Frame)
    BY <2>1, FrontType
  <2> QED BY <2>2 DEF Pop, m
<1>2. Top.node \in Ids
  BY TopType
<1> QED BY <1>1, <1>2 DEF TypeOK, SetTop, SetNode, Ids

LEMMA PrologueTypes ==
  ASSUME TypeOK, StackInv, Prologue
  PROVE  TypeOK'
<1> USE DEF TypeOK
<1>1. CASE \/ EnterCancelled \/ EnterOverdue \/ EnterShortOfMemory
           \/ EnterEmpty \/ EnterTooDeep \/ EnterOverNodeCap
  BY <1>1, EngineAssumption DEF EnterCancelled, EnterOverdue, EnterShortOfMemory,
     EnterEmpty, EnterTooDeep, EnterOverNodeCap, Refuse, FaultKinds
<1>2. CASE EnterDuplicate \/ EnterMetadata
  <2>1. /\ nodes' \in Seq(Node) /\ call \in Call
        /\ \E st \in States, b \in BOOLEAN : AddNode(st, b)
    BY <1>2, AddNodeType
       DEF EnterDuplicate, EnterMetadata, Admitted, Pending, States
  <2> QED BY <1>2, <2>1 DEF EnterDuplicate, EnterMetadata, AddNode, Call
<1>3. CASE EnterNode
  <2>1. nodes' \in Seq(Node) /\ call \in Call
    BY <1>3, AddNodeType DEF EnterNode, Admitted, Pending, States
  <2> DEFINE f == [node |-> Len(nodes) + 1, pc |-> "analyzers",
                   todo |-> Analyzers, queue |-> <<>>, best |-> NoBest]
  <2>2. <<>> \in Seq(Artifact) /\ Len(nodes) + 1 \in Nat
    OBVIOUS
  <2>3. f \in Frame
    BY <2>2, ConstantTypes DEF Frame
  <2>4. stack' = Append(stack, f)
    BY <1>3 DEF EnterNode
  <2> HIDE DEF f
  <2>5. stack' \in Seq(Frame)
    BY <2>3, <2>4
  <2>6. enabled' \subseteq Decoders /\ seen' \subseteq Content
    BY <1>3, <2>1, ConstantTypes DEF EnterNode, Call
  <2> QED BY <1>3, <2>1, <2>5, <2>6 DEF EnterNode, AddNode
<1> QED BY <1>1, <1>2, <1>3 DEF Prologue

LEMMA BodyTypes ==
  ASSUME TypeOK, StackInv, Body
  PROVE  TypeOK'
<1>0. /\ stack # <<>> /\ Top \in Frame /\ TopNode \in Node
      /\ Bytes \in Content /\ Pop \in Seq(Frame)
  <2>1. stack # <<>>
    BY DEF Body, LoopCancelled, MatcherRaises, SkipAnalyzer, AnalyzerFails,
       Extracts, ExtractNext, Explored, StartDecoders, ScoreDecoder,
       DecoderFails, ApplyDecoder, Leaf, Unwind, At
  <2> QED BY <2>1, TopType, StackTypes DEF Bytes, Node
<1>1. CASE LoopCancelled \/ MatcherRaises \/ Explored
  BY <1>0, <1>1, EngineAssumption
     DEF TypeOK, LoopCancelled, MatcherRaises, Explored, Return, FaultKinds
<1>2. CASE SkipAnalyzer \/ AnalyzerFails \/ StartDecoders \/ DecoderFails
  <2>1. \E f \in Frame : stack' = SetTop(f)
    BY <1>0, <1>2, FrameType
       DEF SkipAnalyzer, AnalyzerFails, StartDecoders, DecoderFails, TypeOK
  <2>2. stack' \in Seq(Frame)
    BY <1>0, <2>1, StackTypes
  <2>3. upset' \subseteq FaultKinds
    BY <1>2, EngineAssumption
       DEF SkipAnalyzer, AnalyzerFails, StartDecoders, DecoderFails, TypeOK
  <2> QED
    BY <1>2, <2>2, <2>3
       DEF TypeOK, SkipAnalyzer, AnalyzerFails, StartDecoders, DecoderFails, Loop
<1>3. CASE Extracts
  <2>1. PICK a \in Analyzers :
          /\ nodes' = SetNode([TopNode EXCEPT !.method = "EXTRACT",
                                 !.state = "extracted", !.used = a])
          /\ stack' = SetTop([Top EXCEPT !.pc = "extracting", !.todo = @ \ {a},
                                         !.queue = Extract[a][Bytes]])
    BY <1>0, <1>3, TopType DEF Extracts, At, Tries
  <2>2. nodes' \in Seq(Node)
    BY <1>0, <2>1, NodeType, StackTypes
  <2>3. stack' \in Seq(Frame)
    BY <1>0, <2>1, FrameType, StackTypes, ConstantTypes
  <2> QED BY <1>3, <2>2, <2>3 DEF TypeOK, Extracts, Loop
<1>4. CASE ExtractNext
  <2>1. Head(Top.queue) \in Artifact
    BY <1>0, <1>4 DEF ExtractNext, Frame
  <2>2. call' \in Call
    BY <1>0, <1>4, <2>1, CallType DEF ExtractNext, Artifact
  <2>3. stack' \in Seq(Frame)
    BY <1>0, <1>4, FrameType, StackTypes DEF ExtractNext
  <2> QED BY <1>4, <2>2, <2>3 DEF TypeOK, ExtractNext, Loop
<1>5. CASE ScoreDecoder
  <2>1. PICK d \in Decoders :
          stack' = SetTop([Top EXCEPT
              !.todo = @ \ {d},
              !.best = IF Better(Decode[d][Bytes].score, @)
                       THEN [by |-> d, out |-> Decode[d][Bytes].out,
                             score |-> Decode[d][Bytes].score]
                       ELSE @])
    BY <1>0, <1>5, TopType DEF ScoreDecoder, At, Tries
  <2>2. (IF Better(Decode[d][Bytes].score, Top.best)
         THEN [by |-> d, out |-> Decode[d][Bytes].out,
               score |-> Decode[d][Bytes].score]
         ELSE Top.best) \in Best
    BY <1>0, ConstantTypes DEF Frame
  <2>3. stack' \in Seq(Frame)
    BY <1>0, <2>1, <2>2, FrameType, StackTypes
  <2> QED BY <1>5, <2>3 DEF TypeOK, ScoreDecoder, Loop
<1>6. CASE ApplyDecoder
  <2>1. Top.best \in Best
    BY <1>0 DEF Frame
  <2>2. nodes' \in Seq(Node)
    BY <1>0, <1>6, <2>1, NodeType, StackTypes DEF ApplyDecoder, Best
  <2>3. stack' \in Seq(Frame)
    BY <1>0, <1>6, FrameType, StackTypes DEF ApplyDecoder
  <2>4. call' \in Call
    BY <1>0, <1>6, <2>1, CallType DEF ApplyDecoder, Best
  <2> QED BY <1>6, <2>2, <2>3, <2>4 DEF TypeOK, ApplyDecoder, Loop
<1>7. CASE Leaf
  <2>1. (Top.best.score < MinScore) \in BOOLEAN
    BY <1>0, EngineAssumption DEF Frame, Best
  <2>2. nodes' \in Seq(Node)
    BY <1>0, <1>7, <2>1, NodeType, StackTypes DEF Leaf
  <2> QED BY <1>0, <1>7, <2>2 DEF TypeOK, Leaf, Return
<1>8. CASE Unwind
  <2>1. stack' \in Seq(Frame)
    BY <1>0, <1>8, FrameType, StackTypes DEF Unwind
  <2> QED BY <1>8, <2>1 DEF TypeOK, Unwind, history
<1> QED BY <1>1, <1>2, <1>3, <1>4, <1>5, <1>6, <1>7, <1>8 DEF Body

LEMMA Empties ==
  <<>> \in Seq(Node) /\ <<>> \in Seq(Frame) /\ 0 \in 0 .. MaxRuns
  BY EngineAssumption

LEMMA TypeInit == Init => TypeOK
  BY ConstantTypes, Empties DEF Init, TypeOK

LEMMA TypeKeeps ==
  ASSUME TypeOK, StackInv, [Next]_vars
  PROVE  TypeOK'
<1>1. ASSUME NEW c \in Content, Start(c) PROVE TypeOK'
  <2>1. call' \in Call
    BY <1>1 DEF Start, Call
  <2>2. runs' \in 0 .. MaxRuns
    BY <1>1, EngineAssumption DEF Start, TypeOK
  <2> QED
    BY <1>1, <2>1, <2>2, ConstantTypes, Empties DEF Start, TypeOK, ResetDecoders
<1>2. CASE Finish \/ RunRaises
  BY <1>2 DEF Finish, RunRaises, TypeOK, history
<1>3. CASE Cancel \/ ClearCancel \/ DeadlinePasses
  BY <1>3 DEF Cancel, ClearCancel, DeadlinePasses, TypeOK, engine, history
<1>4. CASE UNCHANGED vars
  BY <1>4 DEF vars, TypeOK, engine, history
<1> QED
  BY <1>1, <1>2, <1>3, <1>4, PrologueTypes, BodyTypes DEF Next, EngineStep

-----------------------------------------------------------------------------
(* The shape of the tree *)

\* No node is added, moved, or made a duplicate.
SameShape ==
  /\ Len(nodes') = Len(nodes) /\ Ids' = Ids
  /\ \A n \in Ids :
       /\ nodes'[n].parent = nodes[n].parent
       /\ nodes'[n].depth = nodes[n].depth
       /\ nodes'[n].content = nodes[n].content
       /\ Duplicate(n)' <=> Duplicate(n)

LEMMA StructureKept ==
  ASSUME TypeOK, Structure, SameShape, seen' = seen, CallInv',
         DOMAIN stack' \subseteq DOMAIN stack,
         \A i \in DOMAIN stack' :
           stack'[i].node = stack[i].node /\ Tries(stack'[i])
  PROVE  Structure'
<1> USE DEF Structure, SameShape
<1>1. StackInv'
  BY DEF StackInv, Tries
<1>2. TreeInv'
  <2>1. Ids = 1 .. Len(nodes) /\ Len(nodes) \in Nat
    BY DEF TypeOK, Ids
  <2> QED BY <2>1 DEF TreeInv
<1>3. SeenInv'
  <2>1. Ids = 1 .. Len(nodes) /\ Len(nodes) \in Nat
    BY DEF TypeOK, Ids
  <2> QED BY <2>1 DEF SeenInv
<1> QED BY <1>1, <1>2, <1>3

\* A node's class changes, and not its place.
LEMMA ShapeOfSetNode ==
  ASSUME TypeOK, StackInv, stack # <<>>, NEW r \in Node, nodes' = SetNode(r),
         r.parent = TopNode.parent, r.depth = TopNode.depth,
         r.content = TopNode.content, r.state # "duplicate"
  PROVE  SameShape
<1>1. /\ Top.node \in Ids /\ ~Duplicate(Top.node)
  BY TopType
<1>2. /\ Len(nodes') = Len(nodes) /\ Ids' = Ids
      /\ nodes'[Top.node] = r
      /\ \A n \in Ids : n # Top.node => nodes'[n] = nodes[n]
  BY SetNodeType
<1> QED BY <1>1, <1>2 DEF SameShape, Duplicate, TopNode

\* What the admitted call adds to the tree.
LEMMA TreeGrows ==
  ASSUME TypeOK, Structure, Admitted, NEW st \in States, NEW pruned \in BOOLEAN,
         AddNode(st, pruned)
  PROVE  /\ TreeInv'
         /\ \A n \in Ids : n \in Ids' /\ nodes'[n] = nodes[n]
         /\ Ids' = Ids \cup {Len(nodes) + 1} /\ Len(nodes) + 1 \notin Ids
         /\ nodes'[Len(nodes) + 1].content = call.content
         /\ nodes'[Len(nodes) + 1].depth = Len(stack)
         /\ nodes'[Len(nodes) + 1].state = st
<1> DEFINE new == Len(nodes) + 1
<1>1. /\ call # NoCall /\ call.depth <= MaxDepth /\ Len(nodes) < MaxNodes
  BY DEF Admitted, Pending, WithinDepth, WithinNodes
<1>2. /\ Len(nodes') = new /\ Len(nodes) \in Nat /\ Ids = 1 .. Len(nodes)
      /\ Ids' = Ids \cup {new}
      /\ \A n \in Ids : nodes'[n] = nodes[n]
      /\ nodes'[new].parent = call.parent /\ nodes'[new].depth = call.depth
      /\ nodes'[new].content = call.content /\ nodes'[new].state = st
  BY <1>1, AddNodeType
<1>3. /\ call.depth = Len(stack)
      /\ IF stack = <<>> THEN call.parent = 0 /\ nodes = <<>>
                         ELSE call.parent = Top.node
  BY <1>1 DEF Structure, CallInv
<1>4. CASE stack = <<>>
  <2>1. /\ Ids = {} /\ new = 1 /\ call.depth = 0 /\ call.parent = 0
    BY <1>2, <1>3, <1>4
  <2> HIDE DEF new
  <2>2. TreeInv'
    BY <1>1, <1>2, <2>1, EngineAssumption DEF TreeInv, new
  <2> QED BY <1>2, <1>3, <2>2 DEF new
<1>5. CASE stack # <<>>
  <2>1. /\ Top.node \in Ids /\ Top.node \in Nat /\ Top.node # 0
        /\ nodes[Top.node].depth = Len(stack) - 1
        /\ ~Duplicate(Top.node) /\ Len(stack) \in Nat
    BY <1>2, <1>5, TopType DEF Structure, TopNode
  <2> HIDE DEF new
  <2>2. /\ nodes'[new].parent = Top.node /\ Top.node \in 1 .. new - 1
        /\ nodes'[new].depth = nodes'[Top.node].depth + 1
        /\ nodes'[new].depth <= MaxDepth
        /\ nodes'[Top.node].state # "duplicate"
    BY <1>1, <1>2, <1>3, <1>5, <2>1 DEF Duplicate, new
  <2>3. Len(nodes') <= MaxNodes
    BY <1>1, <1>2, EngineAssumption DEF new
  <2>4. ASSUME NEW n \in Ids
        PROVE  /\ nodes'[n].depth <= MaxDepth
               /\ IF nodes'[n].parent = 0 THEN n = 1 /\ nodes'[n].depth = 0
                  ELSE /\ nodes'[n].parent \in 1 .. n - 1
                       /\ nodes'[n].depth = nodes'[nodes'[n].parent].depth + 1
                       /\ nodes'[nodes'[n].parent].state # "duplicate"
    BY <1>2 DEF Structure, TreeInv, Duplicate
  <2>5. TreeInv'
    BY <1>2, <2>1, <2>2, <2>3, <2>4 DEF TreeInv, Duplicate
  <2> QED BY <1>2, <1>3, <2>5 DEF new
<1> QED BY <1>4, <1>5

LEMMA SeenGrows ==
  ASSUME TypeOK, Structure, NEW c,
         Ids' = Ids \cup {Len(nodes) + 1},
         \A n \in Ids : nodes'[n] = nodes[n],
         nodes'[Len(nodes) + 1].content = c,
         \/ /\ nodes'[Len(nodes) + 1].state = "duplicate"
            /\ c \in seen /\ seen' = seen
         \/ /\ nodes'[Len(nodes) + 1].state # "duplicate"
            /\ c \notin seen /\ seen' = seen \cup {c}
  PROVE  SeenInv'
<1> DEFINE new == Len(nodes) + 1
<1>1. Ids = 1 .. Len(nodes) /\ Len(nodes) \in Nat /\ new \notin Ids
      /\ Ids = 1 .. new - 1
  BY DEF TypeOK, Ids
<1>2. SeenInv
  BY DEF Structure
<1>3. \A n \in Ids : Duplicate(n)' <=> Duplicate(n)
  BY DEF Duplicate
<1> HIDE DEF new
<1>4. CASE nodes'[new].state = "duplicate"
  <2>1. c \in seen /\ seen' = seen /\ nodes'[new].state = "duplicate"
    BY <1>4 DEF new, Duplicate
  <2>2. PICK m \in Ids : ~Duplicate(m) /\ nodes[m].content = c
    BY <1>2, <2>1 DEF SeenInv
  <2>3. \A n \in Ids' : n \in Ids \/ n = new
    BY DEF new
  <2>4. \A k, n \in Ids' : nodes'[k].content = nodes'[n].content /\ k # n =>
          Duplicate(k)' \/ Duplicate(n)'
    BY <1>2, <1>3, <2>1, <2>3 DEF SeenInv, Duplicate
  <2>5. \A n \in Ids' : ~Duplicate(n)' => nodes'[n].content \in seen'
    BY <1>2, <1>3, <2>1, <2>3 DEF SeenInv, Duplicate
  <2>6. \A x \in seen' : \E n \in Ids' :
          ~Duplicate(n)' /\ nodes'[n].content = x
    BY <1>2, <1>3, <2>1 DEF SeenInv
  <2>7. ASSUME NEW n \in Ids', Duplicate(n)'
        PROVE  \E k \in 1 .. n - 1 : /\ ~Duplicate(k)'
                                     /\ nodes'[k].content = nodes'[n].content
    <3>1. CASE n = new
      BY <1>1, <1>3, <2>2, <3>1 DEF new
    <3>2. CASE n \in Ids
      <4>1. PICK k \in 1 .. n - 1 : /\ ~Duplicate(k)
                                    /\ nodes[k].content = nodes[n].content
        BY <1>2, <1>3, <2>7, <3>2 DEF SeenInv
      <4>2. k \in Ids
        BY <1>1, <3>2
      <4> QED BY <1>3, <3>2, <4>1, <4>2
    <3> QED BY <2>3, <3>1, <3>2
  <2> QED BY <2>4, <2>5, <2>6, <2>7 DEF SeenInv
<1>5. CASE nodes'[new].state # "duplicate"
  <2>1. c \notin seen /\ seen' = seen \cup {c} /\ nodes'[new].state # "duplicate"
    BY <1>5 DEF new, Duplicate
  <2>2. \A n \in Ids : ~Duplicate(n) => nodes[n].content # c
    BY <1>2, <2>1 DEF SeenInv
  <2>3. \A n \in Ids' : Duplicate(n)' => n \in Ids
    BY <2>1 DEF new, Duplicate
  <2>4. \A m, n \in Ids' : nodes'[m].content = nodes'[n].content /\ m # n =>
          Duplicate(m)' \/ Duplicate(n)'
    BY <1>2, <1>3, <2>1, <2>2, <2>3 DEF SeenInv, Duplicate, new
  <2>5. ASSUME NEW n \in Ids', Duplicate(n)'
        PROVE  \E m \in 1 .. n - 1 : /\ ~Duplicate(m)'
                                     /\ nodes'[m].content = nodes'[n].content
    <3>1. n \in Ids /\ Duplicate(n) /\ nodes'[n] = nodes[n]
      BY <1>3, <2>3, <2>5
    <3>2. PICK m \in 1 .. n - 1 : /\ ~Duplicate(m)
                                  /\ nodes[m].content = nodes[n].content
      BY <1>2, <3>1 DEF SeenInv
    <3>3. m \in Ids
      BY <1>1, <3>1
    <3> QED BY <1>3, <3>1, <3>2, <3>3
  <2>6. /\ \A n \in Ids' : ~Duplicate(n)' => nodes'[n].content \in seen'
        /\ \A x \in seen' : \E n \in Ids' :
             ~Duplicate(n)' /\ nodes'[n].content = x
    BY <1>2, <1>3, <2>1 DEF SeenInv, Duplicate, new
  <2> QED BY <2>4, <2>5, <2>6 DEF SeenInv
<1> QED BY <1>4, <1>5

LEMMA PrologueStructure ==
  ASSUME TypeOK, Structure, Prologue
  PROVE  Structure' /\ call' = NoCall
<1>1. CASE \/ EnterCancelled \/ EnterOverdue \/ EnterShortOfMemory
           \/ EnterEmpty \/ EnterTooDeep \/ EnterOverNodeCap
  <2>1. UNCHANGED <<nodes, seen, stack>> /\ call' = NoCall
    BY <1>1 DEF EnterCancelled, EnterOverdue, EnterShortOfMemory, EnterEmpty,
       EnterTooDeep, EnterOverNodeCap, Refuse
  <2>2. SameShape /\ CallInv'
    BY <2>1 DEF SameShape, CallInv, Ids, Duplicate
  <2> QED BY <2>1, <2>2, StructureKept DEF Structure, StackInv
<1>2. ASSUME NEW st \in States, NEW pruned \in BOOLEAN, AddNode(st, pruned),
             Admitted, IsDuplicate => st = "duplicate" /\ seen' = seen,
             ~IsDuplicate => st # "duplicate" /\ seen' = seen \cup {call.content}
      PROVE  /\ TreeInv' /\ SeenInv' /\ CallInv' /\ call' = NoCall
             /\ \A i \in DOMAIN stack :
                  /\ Tries(stack[i])
                  /\ stack[i].node \in Ids' /\ nodes'[stack[i].node].depth = i - 1
                  /\ nodes'[stack[i].node].state # "duplicate"
             /\ Len(nodes) + 1 \in Ids'
             /\ nodes'[Len(nodes) + 1].depth = Len(stack)
             /\ nodes'[Len(nodes) + 1].state = st
  <2>1. /\ TreeInv'
        /\ \A n \in Ids : n \in Ids' /\ nodes'[n] = nodes[n]
        /\ Ids' = Ids \cup {Len(nodes) + 1} /\ Len(nodes) + 1 \notin Ids
        /\ nodes'[Len(nodes) + 1].content = call.content
        /\ nodes'[Len(nodes) + 1].depth = Len(stack)
        /\ nodes'[Len(nodes) + 1].state = st
    BY <1>2, TreeGrows
  <2>2. SeenInv'
    BY <1>2, <2>1, SeenGrows DEF IsDuplicate
  <2>3. call' = NoCall
    BY <1>2 DEF AddNode
  <2> QED BY <2>1, <2>2, <2>3 DEF CallInv, Structure, StackInv, Duplicate
<1>3. CASE EnterDuplicate \/ EnterMetadata
  <2>1. PICK st \in States, pruned \in BOOLEAN :
          /\ AddNode(st, pruned) /\ Admitted
          /\ IsDuplicate => st = "duplicate" /\ seen' = seen
          /\ ~IsDuplicate => st # "duplicate" /\ seen' = seen \cup {call.content}
    BY <1>3 DEF EnterDuplicate, EnterMetadata, States
  <2>2. stack' = stack
    BY <1>3 DEF EnterDuplicate, EnterMetadata
  <2> QED BY <1>2, <2>1, <2>2 DEF Structure, StackInv, Duplicate
<1>4. CASE EnterNode
  <2> DEFINE f == [node |-> Len(nodes) + 1, pc |-> "analyzers",
                   todo |-> Analyzers, queue |-> <<>>, best |-> NoBest]
  <2>1. /\ AddNode("pending", FALSE) /\ Admitted /\ ~IsDuplicate
        /\ seen' = seen \cup {call.content} /\ stack' = Append(stack, f)
        /\ f.node = Len(nodes) + 1 /\ Tries(f)
    BY <1>4 DEF EnterNode, Tries
  <2> HIDE DEF f
  <2>2. /\ TreeInv' /\ SeenInv' /\ CallInv' /\ call' = NoCall
        /\ \A i \in DOMAIN stack :
             /\ Tries(stack[i])
             /\ stack[i].node \in Ids' /\ nodes'[stack[i].node].depth = i - 1
             /\ nodes'[stack[i].node].state # "duplicate"
        /\ Len(nodes) + 1 \in Ids'
        /\ nodes'[Len(nodes) + 1].depth = Len(stack)
        /\ nodes'[Len(nodes) + 1].state = "pending"
    BY <1>2, <2>1 DEF States
  <2>3. /\ stack \in Seq(Frame) /\ Len(stack) \in Nat
        /\ DOMAIN stack' = DOMAIN stack \cup {Len(stack) + 1}
        /\ Len(stack) + 1 \notin DOMAIN stack
        /\ \A i \in DOMAIN stack : stack'[i] = stack[i]
        /\ stack'[Len(stack) + 1] = f
    BY <2>1 DEF TypeOK
  <2>4. StackInv'
    BY <2>1, <2>2, <2>3 DEF StackInv, Duplicate, Tries
  <2> QED BY <2>2, <2>4 DEF Structure
<1> QED BY <1>1, <1>3, <1>4 DEF Prologue

\* What a step leaves of the innermost frame.
LEMMA FrameFields ==
  ASSUME NEW f \in Frame, Tries(f)
  PROVE  /\ \A x, g : g = [f EXCEPT !.todo = @ \ {x}] =>
              g.node = f.node /\ g.pc = f.pc /\ g.queue = f.queue /\ Tries(g)
         /\ \A T \in SUBSET Decoders :
              \A g : g = [f EXCEPT !.pc = "decoders", !.todo = T] =>
                g.node = f.node /\ g.pc = "decoders" /\ Tries(g)
         /\ \A x, q, g :
              /\ f.pc = "analyzers"
              /\ g = [f EXCEPT !.pc = "extracting", !.todo = @ \ {x}, !.queue = q]
              => g.node = f.node /\ g.pc = "extracting" /\ g.queue = q /\ Tries(g)
         /\ \A g : g = [f EXCEPT !.queue = Tail(@)] =>
              /\ g.node = f.node /\ g.pc = f.pc /\ g.queue = Tail(f.queue)
              /\ Tries(g)
         /\ \A x, b, g : g = [f EXCEPT !.todo = @ \ {x}, !.best = b] =>
              g.node = f.node /\ g.pc = f.pc /\ Tries(g)
         /\ \A g : g = [f EXCEPT !.pc = "decoding"] =>
              g.node = f.node /\ g.pc = "decoding" /\ Tries(g)
         /\ \A g : f.pc = "extracting"
                   /\ g = [f EXCEPT !.pc = "analyzers", !.queue = <<>>] =>
              g.node = f.node /\ g.pc = "analyzers" /\ Tries(g)
  BY ZenonT(30) DEF Frame, Tries

\* A frame returns, or its loop goes on: the others stay as they are.
LEMMA PopStructure ==
  ASSUME TypeOK, Structure, stack # <<>>, stack' = Pop, call' = NoCall,
         SameShape, seen' = seen
  PROVE  Structure'
<1>1. \A i \in DOMAIN stack' : i \in DOMAIN stack /\ stack'[i] = stack[i]
  BY PopType
<1>2. \A i \in DOMAIN stack' : Tries(stack'[i])
  BY <1>1 DEF Structure, StackInv
<1>3. CallInv'
  BY DEF CallInv
<1> QED BY <1>1, <1>2, <1>3, StructureKept

LEMMA SetTopStructure ==
  ASSUME TypeOK, Structure, stack # <<>>, NEW f \in Frame, stack' = SetTop(f),
         f.node = Top.node, Tries(f), SameShape, seen' = seen,
         \/ call' = NoCall
         \/ /\ ~raising' /\ call'.parent = Top.node
            /\ call'.depth = TopNode.depth + 1
  PROVE  Structure'
<1>1. /\ DOMAIN stack' = DOMAIN stack /\ Len(stack') = Len(stack)
      /\ stack' # <<>> /\ Top' = f
      /\ \A i \in DOMAIN stack : i # Len(stack) => stack'[i] = stack[i]
      /\ Len(stack) \in DOMAIN stack /\ Len(stack) \in Nat
      /\ TopNode.depth = Len(stack) - 1
  BY SetTopType, TopType DEF Structure
<1>2. stack'[Len(stack)] = f /\ stack[Len(stack)] = Top
  BY <1>1 DEF Top
<1>3. \A i \in DOMAIN stack : stack'[i].node = stack[i].node /\ Tries(stack'[i])
  <2> SUFFICES ASSUME NEW i \in DOMAIN stack
               PROVE  stack'[i].node = stack[i].node /\ Tries(stack'[i])
    OBVIOUS
  <2>1. CASE i = Len(stack)
    BY <1>2, <2>1
  <2>2. CASE i # Len(stack)
    BY <1>1, <2>2 DEF Structure, StackInv
  <2> QED BY <2>1, <2>2
<1>4. CallInv'
  BY <1>1 DEF CallInv
<1> QED BY <1>1, <1>3, <1>4, StructureKept

\* Where a step of a loop starts from.
LEMMA BodyStarts ==
  ASSUME TypeOK, Structure, Body
  PROVE  /\ stack # <<>> /\ Top \in Frame /\ TopNode \in Node /\ Tries(Top)
         /\ Bytes \in Content /\ call = NoCall
<1>1. stack # <<>> /\ call = NoCall
  BY DEF Body, LoopCancelled, MatcherRaises, SkipAnalyzer, AnalyzerFails,
     Extracts, ExtractNext, Explored, StartDecoders, ScoreDecoder,
     DecoderFails, ApplyDecoder, Leaf, Unwind, At, Structure, CallInv
<1> QED BY <1>1, TopType DEF Structure, Bytes, Node

LEMMA BodyStructure ==
  ASSUME TypeOK, Structure, Body
  PROVE  Structure'
<1>0. /\ stack # <<>> /\ Top \in Frame /\ TopNode \in Node /\ Tries(Top)
      /\ Bytes \in Content /\ call = NoCall
  BY BodyStarts
<1>a. nodes' = nodes => SameShape
  BY DEF SameShape, Ids, Duplicate
<1>1. CASE LoopCancelled \/ MatcherRaises \/ Explored
  BY <1>0, <1>a, <1>1, PopStructure
     DEF LoopCancelled, MatcherRaises, Explored, Return
<1>2. CASE SkipAnalyzer \/ AnalyzerFails \/ DecoderFails
  <2>1. PICK x : stack' = SetTop([Top EXCEPT !.todo = @ \ {x}])
    BY <1>2 DEF SkipAnalyzer, AnalyzerFails, DecoderFails
  <2>2. UNCHANGED <<nodes, seen, call>>
    BY <1>2 DEF SkipAnalyzer, AnalyzerFails, DecoderFails, Loop
  <2> DEFINE f == [Top EXCEPT !.todo = @ \ {x}]
  <2>3. f \in Frame /\ f.node = Top.node /\ Tries(f)
    <3>1. f \in Frame
      BY <1>0, FrameType
    <3>2. f.node = Top.node /\ Tries(f)
      BY <1>0 DEF Frame, Tries
    <3> QED BY <3>1, <3>2
  <2> HIDE DEF f
  <2>4. stack' = SetTop(f)
    BY <2>1 DEF f
  <2> QED BY <1>0, <1>a, <2>2, <2>3, <2>4, SetTopStructure
<1>3. CASE StartDecoders
  <2> DEFINE f == [Top EXCEPT !.pc = "decoders", !.todo = enabled]
  <2>1. UNCHANGED <<nodes, seen, call>> /\ stack' = SetTop(f)
    BY <1>3 DEF StartDecoders, Loop
  <2>2. f \in Frame /\ f.node = Top.node /\ Tries(f)
    <3>1. f \in Frame
      BY <1>0, FrameType DEF TypeOK
    <3>2. f.node = Top.node /\ Tries(f)
      BY <1>0 DEF Frame, Tries, TypeOK
    <3> QED BY <3>1, <3>2
  <2> HIDE DEF f
  <2> QED BY <1>0, <1>a, <2>1, <2>2, SetTopStructure
<1>4. CASE Extracts
  <2>1. PICK a \in Analyzers :
          /\ nodes' = SetNode([TopNode EXCEPT !.method = "EXTRACT",
                                 !.state = "extracted", !.used = a])
          /\ stack' = SetTop([Top EXCEPT !.pc = "extracting", !.todo = @ \ {a},
                                         !.queue = Extract[a][Bytes]])
    BY <1>0, <1>4 DEF Extracts, At, Tries
  <2>2. Top.pc = "analyzers" /\ UNCHANGED <<seen, call>>
    BY <1>4 DEF Extracts, At, Loop
  <2> DEFINE f == [Top EXCEPT !.pc = "extracting", !.todo = @ \ {a},
                              !.queue = Extract[a][Bytes]]
             r == [TopNode EXCEPT !.method = "EXTRACT",
                                  !.state = "extracted", !.used = a]
  <2>3. f \in Frame /\ f.node = Top.node /\ Tries(f)
    <3>1. f \in Frame
      BY <1>0, <2>2, FrameType, ConstantTypes
    <3>2. f.node = Top.node /\ Tries(f)
      BY <1>0, <2>2 DEF Frame, Tries
    <3> QED BY <3>1, <3>2
  <2>4. /\ r \in Node /\ r.parent = TopNode.parent /\ r.depth = TopNode.depth
        /\ r.content = TopNode.content /\ r.state = "extracted"
    BY <1>0 DEF Node, States
  <2>5. stack' = SetTop(f) /\ nodes' = SetNode(r)
    BY <2>1
  <2> HIDE DEF f, r
  <2>6. SameShape
    BY <1>0, <2>4, <2>5, ShapeOfSetNode DEF Structure
  <2> QED BY <1>0, <2>2, <2>3, <2>5, <2>6, SetTopStructure
<1>5. CASE ExtractNext
  <2> DEFINE f == [Top EXCEPT !.queue = Tail(@)]
  <2>1. /\ UNCHANGED <<nodes, seen, raising>> /\ stack' = SetTop(f) /\ ~raising
        /\ call'.parent = Top.node /\ call'.depth = TopNode.depth + 1
        /\ Top.queue # <<>>
    BY <1>5 DEF ExtractNext, Loop, At
  <2>2. f \in Frame /\ f.node = Top.node /\ Tries(f)
    <3>1. f \in Frame
      BY <1>0, <2>1, FrameType
    <3>2. f.node = Top.node /\ Tries(f)
      BY <1>0, <2>1 DEF Frame, Tries
    <3> QED BY <3>1, <3>2
  <2> HIDE DEF f
  <2> QED BY <1>0, <1>a, <2>1, <2>2, SetTopStructure
<1>6. CASE ScoreDecoder
  <2>1. PICK d \in Decoders :
          stack' = SetTop([Top EXCEPT
              !.todo = @ \ {d},
              !.best = IF Better(Decode[d][Bytes].score, @)
                       THEN [by |-> d, out |-> Decode[d][Bytes].out,
                             score |-> Decode[d][Bytes].score]
                       ELSE @])
    BY <1>0, <1>6 DEF ScoreDecoder, At, Tries
  <2> DEFINE b == IF Better(Decode[d][Bytes].score, Top.best)
                  THEN [by |-> d, out |-> Decode[d][Bytes].out,
                        score |-> Decode[d][Bytes].score]
                  ELSE Top.best
             f == [Top EXCEPT !.todo = @ \ {d}, !.best = b]
  <2>2. b \in Best
    BY <1>0, ConstantTypes DEF Frame
  <2>3. stack' = SetTop(f) /\ UNCHANGED <<nodes, seen, call>>
    BY <1>6, <2>1 DEF ScoreDecoder, Loop
  <2> HIDE DEF b
  <2>4. f \in Frame /\ f.node = Top.node /\ Tries(f)
    <3>1. f \in Frame
      BY <1>0, <2>2, FrameType
    <3>2. f.node = Top.node /\ Tries(f)
      BY <1>0, <2>2 DEF Frame, Tries
    <3> QED BY <3>1, <3>2
  <2> HIDE DEF f
  <2> QED BY <1>0, <1>a, <2>3, <2>4, SetTopStructure
<1>7. CASE ApplyDecoder
  <2> DEFINE f == [Top EXCEPT !.pc = "decoding"]
             r == [TopNode EXCEPT !.method = "DECODE", !.state = "decoded",
                                  !.used = Top.best.by]
  <2>1. /\ UNCHANGED <<seen, raising>> /\ stack' = SetTop(f) /\ ~raising
        /\ nodes' = SetNode(r)
        /\ call'.parent = Top.node /\ call'.depth = TopNode.depth + 1
    BY <1>7 DEF ApplyDecoder, Loop, At
  <2>2. f \in Frame /\ f.node = Top.node /\ Tries(f)
    <3>1. f \in Frame
      BY <1>0, <2>1, FrameType
    <3>2. f.node = Top.node /\ Tries(f)
      BY <1>0, <2>1 DEF Frame, Tries
    <3> QED BY <3>1, <3>2
  <2>3. Top.best.by \in Decoders \cup {None}
    BY <1>0 DEF Frame, Best
  <2>4. /\ r \in Node /\ r.parent = TopNode.parent /\ r.depth = TopNode.depth
        /\ r.content = TopNode.content /\ r.state = "decoded"
    BY <1>0, <2>3 DEF Node, States
  <2> HIDE DEF f, r
  <2>5. SameShape
    BY <1>0, <2>1, <2>4, ShapeOfSetNode DEF Structure
  <2> QED BY <1>0, <2>1, <2>2, <2>5, SetTopStructure
<1>8. CASE Leaf
  <2> DEFINE b == Top.best.score < MinScore
             r == [TopNode EXCEPT !.state = "terminal", !.pruned = @ \/ b]
  <2>1. stack' = Pop /\ nodes' = SetNode(r) /\ UNCHANGED <<seen, call>>
    BY <1>8 DEF Leaf, Return
  <2>2. b \in BOOLEAN
    BY <1>0, EngineAssumption DEF Frame, Best
  <2> HIDE DEF b
  <2>3. /\ r \in Node /\ r.parent = TopNode.parent /\ r.depth = TopNode.depth
        /\ r.content = TopNode.content /\ r.state = "terminal"
    BY <1>0, <2>2 DEF Node, States
  <2> HIDE DEF r
  <2>4. SameShape
    BY <1>0, <2>1, <2>3, ShapeOfSetNode DEF Structure
  <2> QED BY <1>0, <2>1, <2>4, PopStructure
<1>9. CASE Unwind
  <2>1. UNCHANGED <<nodes, seen, call>>
    BY <1>9 DEF Unwind
  <2>2. CASE Top.pc = "extracting"
    <3> DEFINE f == [Top EXCEPT !.pc = "analyzers", !.queue = <<>>]
    <3>1. stack' = SetTop(f)
      BY <1>9, <2>2 DEF Unwind
    <3>2. f \in Frame /\ f.node = Top.node /\ Tries(f)
      <4>1. f \in Frame
        BY <1>0, <2>2, FrameType
      <4>2. f.node = Top.node /\ Tries(f)
        BY <1>0, <2>2 DEF Frame, Tries
      <4> QED BY <4>1, <4>2
    <3> HIDE DEF f
    <3> QED BY <1>0, <1>a, <2>1, <3>1, <3>2, SetTopStructure
  <2>3. CASE Top.pc # "extracting"
    BY <1>0, <1>9, <1>a, <2>1, <2>3, PopStructure DEF Unwind
  <2> QED BY <2>2, <2>3
<1> QED
  BY <1>1, <1>2, <1>3, <1>4, <1>5, <1>6, <1>7, <1>8, <1>9 DEF Body

LEMMA StructureInit == Init => Structure
  BY EngineAssumption DEF Init, Structure, StackInv, CallInv, TreeInv, SeenInv, Ids

LEMMA StructureKeeps ==
  ASSUME TypeOK, Structure, [Next]_vars
  PROVE  Structure'
<1>1. ASSUME NEW c \in Content, Start(c) PROVE Structure'
  <2>1. /\ nodes' = <<>> /\ stack' = <<>> /\ seen' = {} /\ ~raising'
        /\ call'.depth = 0 /\ call'.parent = 0
    BY <1>1 DEF Start
  <2> QED BY <2>1, EngineAssumption
             DEF Structure, StackInv, CallInv, TreeInv, SeenInv, Ids
<1>2. CASE \/ Finish \/ RunRaises \/ Cancel \/ ClearCancel \/ DeadlinePasses
           \/ UNCHANGED vars
  <2>1. UNCHANGED <<nodes, stack, seen, call>> /\ (raising' => raising)
    BY <1>2 DEF Finish, RunRaises, Cancel, ClearCancel, DeadlinePasses, vars, engine
  <2>2. SameShape /\ CallInv'
    BY <2>1 DEF SameShape, CallInv, Structure, Ids, Duplicate, Top
  <2> QED BY <2>1, <2>2, StructureKept DEF Structure, StackInv
<1> QED
  BY <1>1, <1>2, PrologueStructure, BodyStructure DEF Next, EngineStep

-----------------------------------------------------------------------------
(* Provenance *)

LEMMA ProvenanceInit == Init => ProvenanceInv
  BY DEF Init, ProvenanceInv, Ids

\* A step of the innermost activation leaves provenance right if it classifies
\* only a node without children and leaves the innermost frame right.
LEMMA ProvenanceKept ==
  ASSUME TypeOK, Structure, ProvenanceInv, "matcher" \notin upset,
         stack # <<>>, ~raising', SameShape,
         \A n \in Ids : n # Top.node => nodes'[n] = nodes[n],
         nodes' = nodes \/ \A m \in Ids : nodes[m].parent # Top.node,
         DOMAIN stack' \subseteq DOMAIN stack,
         \A i \in DOMAIN stack' : i # Len(stack) => stack'[i] = stack[i],
         \A i \in DOMAIN stack' : i = Len(stack) => FrameInv(i)',
         call' # NoCall => Produced(TopNode', call'.content)
  PROVE  ProvenanceInv'
<1>1. /\ \A n \in Ids : nodes[n].parent # 0 =>
           Produced(nodes[nodes[n].parent], nodes[n].content)
      /\ \A i \in DOMAIN stack : FrameInv(i)
  BY DEF ProvenanceInv
<1>2. Top = stack[Len(stack)] /\ Top.node \in Ids
      /\ nodes[Top.node].depth = Len(stack) - 1 /\ Len(stack) \in Nat
      /\ Len(stack) \in DOMAIN stack
  BY TopType DEF Structure, TopNode, Top
<1>3. ASSUME NEW n \in Ids, nodes'[n].parent # 0
      PROVE  Produced(nodes'[nodes'[n].parent], nodes'[n].content)
  <2>1. nodes[n].parent \in Ids /\ nodes[n].parent # 0
    BY <1>3 DEF SameShape, Structure, TreeInv, Ids, TypeOK
  <2>2. nodes'[nodes[n].parent] = nodes[nodes[n].parent]
    BY <2>1
  <2> QED BY <1>1, <1>3, <2>1, <2>2 DEF SameShape
<1>4. ASSUME NEW i \in DOMAIN stack, i # Len(stack), stack'[i] = stack[i]
      PROVE  FrameInv(i)'
  <2>1. stack[i].pc \notin {"analyzers", "decoders"}
    BY <1>1, <1>4 DEF FrameInv
  <2>2. stack[i].node \in Ids /\ nodes[stack[i].node].depth = i - 1 /\ i \in Nat
    BY DEF Structure, StackInv, TypeOK
  <2>3. stack[i].node # Top.node
    BY <1>2, <1>4, <2>2
  <2>4. nodes'[stack[i].node] = nodes[stack[i].node]
    BY <2>2, <2>3
  <2> QED BY <1>1, <1>4, <2>1, <2>4 DEF FrameInv
<1>5. \A i \in DOMAIN stack' : FrameInv(i)'
  BY <1>4
<1> QED BY <1>3, <1>5 DEF ProvenanceInv, SameShape

LEMMA PrologueProvenance ==
  ASSUME TypeOK, Structure, ProvenanceInv, Prologue
  PROVE  ProvenanceInv'
<1> SUFFICES ASSUME "matcher" \notin upset' PROVE ProvenanceInv'
  BY DEF ProvenanceInv
<1>1. call # NoCall /\ upset \subseteq upset' /\ raising' = raising
  BY DEF Prologue, EnterCancelled, EnterOverdue, EnterShortOfMemory, EnterEmpty,
     EnterTooDeep, EnterOverNodeCap, EnterDuplicate, EnterMetadata, EnterNode,
     Admitted, Pending, Refuse, AddNode
<1>2. /\ ~raising
      /\ \A n \in Ids : nodes[n].parent # 0 =>
           Produced(nodes[nodes[n].parent], nodes[n].content)
      /\ stack # <<>> => Produced(TopNode, call.content)
      /\ \A i \in DOMAIN stack : FrameInv(i)
  BY <1>1 DEF ProvenanceInv
<1>3. call' = NoCall
  BY PrologueStructure
<1>4. CASE \/ EnterCancelled \/ EnterOverdue \/ EnterShortOfMemory
           \/ EnterEmpty \/ EnterTooDeep \/ EnterOverNodeCap
  <2>1. UNCHANGED <<nodes, stack>>
    BY <1>4 DEF EnterCancelled, EnterOverdue, EnterShortOfMemory, EnterEmpty,
       EnterTooDeep, EnterOverNodeCap, Refuse
  <2> QED BY <1>1, <1>2, <1>3, <2>1 DEF ProvenanceInv, FrameInv, Ids
<1>5. ASSUME NEW st \in States, NEW pruned \in BOOLEAN,
             AddNode(st, pruned), Admitted
      PROVE  /\ \A n \in Ids' : nodes'[n].parent # 0 =>
                  Produced(nodes'[nodes'[n].parent], nodes'[n].content)
             /\ \A i \in DOMAIN stack : stack'[i] = stack[i] => FrameInv(i)'
             /\ \A m \in Ids' : nodes'[m].parent # Len(nodes) + 1
             /\ nodes'[Len(nodes) + 1].state = st
  <2> DEFINE new == Len(nodes) + 1
  <2>1. /\ Len(nodes) \in Nat /\ Ids = 1 .. Len(nodes)
        /\ Ids' = Ids \cup {new}
        /\ \A n \in Ids : nodes'[n] = nodes[n]
        /\ nodes'[new].parent = call.parent
        /\ nodes'[new].content = call.content
        /\ nodes'[new].state = st
    BY <1>1, <1>5, AddNodeType
  <2>2. IF stack = <<>> THEN call.parent = 0
                        ELSE call.parent \in Ids /\ call.parent = Top.node
    BY <1>1, TopType DEF Structure, CallInv
  <2>3. \A n \in Ids : nodes[n].parent = 0 \/ nodes[n].parent \in Ids
    BY <2>1 DEF Structure, TreeInv
  <2> HIDE DEF new
  <2>4. \A n \in Ids : nodes'[n].parent # 0 =>
                  Produced(nodes'[nodes'[n].parent], nodes'[n].content)
    BY <1>2, <2>1, <2>3
  <2>5. nodes'[new].parent # 0 =>
                  Produced(nodes'[nodes'[new].parent], nodes'[new].content)
    BY <1>2, <2>1, <2>2 DEF TopNode
  <2>6. new # 0 /\ new \notin Ids
    BY <2>1 DEF new
  <2>7. \A m \in Ids' : nodes'[m].parent # new
    BY <2>1, <2>2, <2>3, <2>6
  <2>8. ASSUME NEW i \in DOMAIN stack, stack'[i] = stack[i]
        PROVE  FrameInv(i)'
    <3>1. stack[i].pc \notin {"analyzers", "decoders"} /\ stack[i].node \in Ids
      BY <1>1, <1>2 DEF FrameInv, Structure, StackInv
    <3> QED BY <1>2, <2>1, <2>8, <3>1 DEF FrameInv
  <2> QED BY <2>1, <2>4, <2>5, <2>7, <2>8 DEF new
<1>6. CASE EnterDuplicate \/ EnterMetadata
  <2>1. PICK st \in States, pruned \in BOOLEAN : AddNode(st, pruned) /\ Admitted
    BY <1>6 DEF EnterDuplicate, EnterMetadata, States
  <2>2. stack' = stack
    BY <1>6 DEF EnterDuplicate, EnterMetadata
  <2> QED BY <1>1, <1>2, <1>3, <1>5, <2>1, <2>2 DEF ProvenanceInv
<1>7. CASE EnterNode
  <2> DEFINE f == [node |-> Len(nodes) + 1, pc |-> "analyzers",
                   todo |-> Analyzers, queue |-> <<>>, best |-> NoBest]
  <2>1. /\ AddNode("pending", FALSE) /\ Admitted /\ stack' = Append(stack, f)
        /\ f.node = Len(nodes) + 1 /\ f.pc = "analyzers" /\ f.best.by = None
    BY <1>7 DEF EnterNode, NoBest
  <2> HIDE DEF f
  <2>2. /\ DOMAIN stack' = DOMAIN stack \cup {Len(stack) + 1}
        /\ \A i \in DOMAIN stack : stack'[i] = stack[i]
        /\ stack'[Len(stack) + 1] = f /\ Len(stack') = Len(stack) + 1
    BY <2>1 DEF TypeOK
  <2>3. /\ \A n \in Ids' : nodes'[n].parent # 0 =>
             Produced(nodes'[nodes'[n].parent], nodes'[n].content)
        /\ \A i \in DOMAIN stack : stack'[i] = stack[i] => FrameInv(i)'
        /\ \A m \in Ids' : nodes'[m].parent # Len(nodes) + 1
        /\ nodes'[Len(nodes) + 1].state = "pending"
    BY <1>5, <2>1 DEF States
  <2>4. ASSUME NEW i \in DOMAIN stack', i = Len(stack) + 1
        PROVE  FrameInv(i)'
    <3>1. stack'[i] = f /\ i = Len(stack')
      BY <2>2, <2>4
    <3>2. /\ stack'[i].node = Len(nodes) + 1 /\ stack'[i].pc = "analyzers"
          /\ stack'[i].best.by = None
      BY <2>1, <3>1
    <3>3. /\ nodes'[stack'[i].node].state = "pending"
          /\ \A m \in Ids' : nodes'[m].parent # stack'[i].node
      BY <2>3, <3>2
    <3> QED BY <1>3, <3>1, <3>2, <3>3 DEF FrameInv
  <2>5. \A i \in DOMAIN stack' : FrameInv(i)'
    BY <2>2, <2>3, <2>4
  <2> QED BY <1>1, <1>2, <1>3, <2>3, <2>5 DEF ProvenanceInv
<1> QED BY <1>4, <1>6, <1>7 DEF Prologue

\* The frame a step leaves innermost, in the terms the step is written in.
LEMMA ProvenanceSetTop ==
  ASSUME TypeOK, Structure, ProvenanceInv, "matcher" \notin upset,
         stack # <<>>, ~raising', SameShape,
         \A n \in Ids : n # Top.node => nodes'[n] = nodes[n],
         nodes' = nodes \/ \A m \in Ids : nodes[m].parent # Top.node,
         call' # NoCall => Produced(TopNode', call'.content),
         NEW f \in Frame, stack' = SetTop(f), f.node = Top.node,
         IF f.pc \in {"analyzers", "decoders"}
         THEN /\ call' = NoCall /\ nodes'[Top.node].state = "pending"
              /\ \A m \in Ids : nodes[m].parent # Top.node
              /\ f.best.by # None =>
                   f.best.out = Decode[f.best.by][nodes'[Top.node].content].out
         ELSE \A k \in DOMAIN f.queue : f.pc = "extracting" =>
                Produced(nodes'[Top.node], f.queue[k].content)
  PROVE  ProvenanceInv'
<1>1. /\ Len(stack') = Len(stack) /\ DOMAIN stack' = DOMAIN stack
      /\ stack' # <<>> /\ Top' = f
      /\ \A i \in DOMAIN stack : i # Len(stack) => stack'[i] = stack[i]
  BY SetTopType
<1>2. ASSUME NEW i \in DOMAIN stack', i = Len(stack)
      PROVE  FrameInv(i)'
  <2>1. stack'[i] = f /\ i = Len(stack')
    BY <1>1, <1>2 DEF Top
  <2>2. \A m \in Ids' : m \in Ids /\ nodes'[m].parent = nodes[m].parent
    BY DEF SameShape
  <2> QED BY <2>1, <2>2 DEF FrameInv
<1> QED BY <1>1, <1>2, ProvenanceKept

LEMMA BodyProvenance ==
  ASSUME TypeOK, Structure, ProvenanceInv, Body
  PROVE  ProvenanceInv'
<1> SUFFICES ASSUME "matcher" \notin upset' PROVE ProvenanceInv'
  BY DEF ProvenanceInv
<1>0. /\ stack # <<>> /\ Top \in Frame /\ TopNode \in Node /\ Tries(Top)
      /\ Bytes \in Content /\ call = NoCall
  BY BodyStarts
<1>1. upset \subseteq upset' /\ "matcher" \notin upset /\ ~MatcherRaises
  BY DEF Body, LoopCancelled, MatcherRaises, SkipAnalyzer, AnalyzerFails,
     Extracts, ExtractNext, Explored, StartDecoders, ScoreDecoder,
     DecoderFails, ApplyDecoder, Leaf, Unwind, history
<1>2. ~raising /\ ~Unwind
  BY <1>1 DEF ProvenanceInv, Unwind
<1>3. ~raising'
  BY <1>1, <1>2 DEF Body, LoopCancelled, SkipAnalyzer, AnalyzerFails,
     Extracts, ExtractNext, Explored, StartDecoders, ScoreDecoder,
     DecoderFails, ApplyDecoder, Leaf, Loop
<1>4. Top = stack[Len(stack)] /\ Len(stack) \in DOMAIN stack /\ Top.node \in Ids
      /\ FrameInv(Len(stack))
  BY <1>0, <1>1, TopType DEF ProvenanceInv, Structure, Top
<1>5. Top.pc \in {"analyzers", "decoders"} =>
        /\ TopNode.state = "pending"
        /\ \A m \in Ids : nodes[m].parent # Top.node
        /\ Top.best.by # None => Top.best.out = Decode[Top.best.by][Bytes].out
  BY <1>4 DEF FrameInv, TopNode, Bytes
<1>6. Top.pc = "extracting" =>
        \A k \in DOMAIN Top.queue : Produced(TopNode, Top.queue[k].content)
  BY <1>4 DEF FrameInv, TopNode
<1>7. nodes' = nodes => SameShape
  BY DEF SameShape, Ids, Duplicate
<1>8. ASSUME stack' = Pop
      PROVE  /\ DOMAIN stack' \subseteq DOMAIN stack
             /\ \A i \in DOMAIN stack' : i # Len(stack) /\ stack'[i] = stack[i]
  BY <1>0, <1>8, PopType
<1>a. CASE LoopCancelled \/ Explored
  <2>1. UNCHANGED <<nodes, call>> /\ stack' = Pop
    BY <1>a DEF LoopCancelled, Explored, Return
  <2> QED BY <1>0, <1>1, <1>3, <1>7, <1>8, <2>1, ProvenanceKept
<1>b. CASE SkipAnalyzer \/ AnalyzerFails \/ DecoderFails
  <2>1. PICK x : stack' = SetTop([Top EXCEPT !.todo = @ \ {x}])
    BY <1>b DEF SkipAnalyzer, AnalyzerFails, DecoderFails
  <2>2. UNCHANGED <<nodes, call>> /\ Top.pc \in {"analyzers", "decoders"}
    BY <1>b DEF SkipAnalyzer, AnalyzerFails, DecoderFails, Loop, At
  <2> DEFINE f == [Top EXCEPT !.todo = @ \ {x}]
  <2>3. f \in Frame
    BY <1>0, FrameType
  <2>4. f.node = Top.node /\ f.pc = Top.pc /\ f.best = Top.best
    BY <1>0 DEF Frame
  <2> HIDE DEF f
  <2>5. stack' = SetTop(f)
    BY <2>1 DEF f
  <2> QED BY <1>0, <1>1, <1>3, <1>5, <1>7, <2>2, <2>3, <2>4, <2>5,
             ProvenanceSetTop DEF TopNode, Bytes
<1>c. CASE StartDecoders
  <2> DEFINE f == [Top EXCEPT !.pc = "decoders", !.todo = enabled]
  <2>1. UNCHANGED <<nodes, call>> /\ stack' = SetTop(f) /\ Top.pc = "analyzers"
    BY <1>c DEF StartDecoders, Loop, At
  <2>2. f \in Frame
    BY <1>0, FrameType DEF TypeOK
  <2>3. f.node = Top.node /\ f.pc = "decoders" /\ f.best = Top.best
    BY <1>0 DEF Frame
  <2> HIDE DEF f
  <2> QED BY <1>0, <1>1, <1>3, <1>5, <1>7, <2>1, <2>2, <2>3,
             ProvenanceSetTop DEF TopNode, Bytes
<1>d. CASE Extracts
  <2>1. PICK a \in Analyzers :
          /\ nodes' = SetNode([TopNode EXCEPT !.method = "EXTRACT",
                                 !.state = "extracted", !.used = a])
          /\ stack' = SetTop([Top EXCEPT !.pc = "extracting", !.todo = @ \ {a},
                                         !.queue = Extract[a][Bytes]])
    BY <1>0, <1>d DEF Extracts, At, Tries
  <2>2. Top.pc = "analyzers" /\ call' = call
    BY <1>d DEF Extracts, At
  <2> DEFINE f == [Top EXCEPT !.pc = "extracting", !.todo = @ \ {a},
                              !.queue = Extract[a][Bytes]]
             r == [TopNode EXCEPT !.method = "EXTRACT",
                                  !.state = "extracted", !.used = a]
  <2>3. f \in Frame
    BY <1>0, FrameType, ConstantTypes
  <2>4. f.node = Top.node /\ f.pc = "extracting" /\ f.queue = Extract[a][Bytes]
    BY <1>0 DEF Frame
  <2>5. /\ r \in Node /\ r.parent = TopNode.parent /\ r.depth = TopNode.depth
        /\ r.content = Bytes /\ r.state = "extracted"
        /\ r.method = "EXTRACT" /\ r.used = a
    BY <1>0 DEF Node, States, Bytes
  <2>6. stack' = SetTop(f) /\ nodes' = SetNode(r)
    BY <2>1
  <2> HIDE DEF f, r
  <2>7. SameShape
    BY <1>0, <2>5, <2>6, ShapeOfSetNode DEF Structure, Bytes
  <2>8. nodes'[Top.node] = r /\ \A n \in Ids : n # Top.node => nodes'[n] = nodes[n]
    BY <1>0, <2>5, <2>6, SetNodeType DEF Structure
  <2>9. \A k \in DOMAIN f.queue : Produced(r, f.queue[k].content)
    BY <2>4, <2>5 DEF Produced, Yield
  <2> QED BY <1>0, <1>1, <1>3, <1>5, <2>2, <2>3, <2>4, <2>6, <2>7, <2>8, <2>9,
             ProvenanceSetTop
<1>e. CASE ExtractNext
  <2> DEFINE f == [Top EXCEPT !.queue = Tail(@)]
  <2>1. /\ nodes' = nodes /\ stack' = SetTop(f)
        /\ Top.pc = "extracting" /\ Top.queue # <<>>
        /\ call'.content = Head(Top.queue).content
    BY <1>e DEF ExtractNext, Loop, At
  <2>2. f \in Frame
    BY <1>0, <2>1, FrameType
  <2>3. /\ f.node = Top.node /\ f.pc = "extracting" /\ f.queue = Tail(Top.queue)
        /\ Top.queue \in Seq(Artifact)
    BY <1>0, <2>1 DEF Frame
  <2> HIDE DEF f
  <2>4. Produced(TopNode, call'.content)
    BY <1>6, <2>1, <2>3
  <2>5. ASSUME NEW k \in DOMAIN f.queue
        PROVE  Produced(TopNode, f.queue[k].content)
    <3>1. k + 1 \in DOMAIN Top.queue /\ f.queue[k] = Top.queue[k + 1]
      BY <2>1, <2>3
    <3> QED BY <1>6, <2>1, <3>1
  <2>6. TopNode' = TopNode
    BY <1>0, <2>1, <2>2, <2>3, SetTopType DEF TopNode
  <2> QED BY <1>0, <1>1, <1>3, <1>7, <2>1, <2>2, <2>3, <2>4, <2>5, <2>6,
             ProvenanceSetTop DEF TopNode
<1>f. CASE ScoreDecoder
  <2>1. PICK d \in Decoders :
          stack' = SetTop([Top EXCEPT
              !.todo = @ \ {d},
              !.best = IF Better(Decode[d][Bytes].score, @)
                       THEN [by |-> d, out |-> Decode[d][Bytes].out,
                             score |-> Decode[d][Bytes].score]
                       ELSE @])
    BY <1>0, <1>f DEF ScoreDecoder, At, Tries
  <2> DEFINE b == IF Better(Decode[d][Bytes].score, Top.best)
                  THEN [by |-> d, out |-> Decode[d][Bytes].out,
                        score |-> Decode[d][Bytes].score]
                  ELSE Top.best
             f == [Top EXCEPT !.todo = @ \ {d}, !.best = b]
  <2>2. UNCHANGED <<nodes, call>> /\ stack' = SetTop(f) /\ Top.pc = "decoders"
    BY <1>f, <2>1 DEF ScoreDecoder, Loop, At
  <2>3. b \in Best /\ (b.by # None => b.out = Decode[b.by][Bytes].out)
    BY <1>0, <1>5, <2>2, ConstantTypes DEF Frame
  <2> HIDE DEF b
  <2>4. f \in Frame
    BY <1>0, <2>3, FrameType
  <2>5. f.node = Top.node /\ f.pc = "decoders" /\ f.best = b
    BY <1>0, <2>2 DEF Frame
  <2> HIDE DEF f
  <2> QED BY <1>0, <1>1, <1>3, <1>5, <1>7, <2>2, <2>3, <2>4, <2>5,
             ProvenanceSetTop DEF TopNode, Bytes
<1>g. CASE ApplyDecoder
  <2> DEFINE f == [Top EXCEPT !.pc = "decoding"]
             r == [TopNode EXCEPT !.method = "DECODE", !.state = "decoded",
                                  !.used = Top.best.by]
  <2>1. /\ stack' = SetTop(f) /\ nodes' = SetNode(r) /\ Top.pc = "decoders"
        /\ call'.content = Top.best.out /\ Top.best.by # None
    BY <1>g DEF ApplyDecoder, At, Chosen
  <2>2. f \in Frame
    BY <1>0, FrameType
  <2>3. f.node = Top.node /\ f.pc = "decoding"
    BY <1>0 DEF Frame
  <2>4. Top.best.by \in Decoders
    BY <1>0, <2>1 DEF Frame, Best
  <2>5. /\ r \in Node /\ r.parent = TopNode.parent /\ r.depth = TopNode.depth
        /\ r.content = Bytes /\ r.state = "decoded"
        /\ r.method = "DECODE" /\ r.used = Top.best.by
    BY <1>0, <2>4 DEF Node, States, Bytes
  <2> HIDE DEF f, r
  <2>6. SameShape
    BY <1>0, <2>1, <2>5, ShapeOfSetNode DEF Structure, Bytes
  <2>7. nodes'[Top.node] = r /\ \A n \in Ids : n # Top.node => nodes'[n] = nodes[n]
    BY <1>0, <2>1, <2>5, SetNodeType DEF Structure
  <2>8. Produced(r, call'.content)
    BY <1>5, <2>1, <2>5 DEF Produced, Yield
  <2>9. TopNode' = r
    BY <1>0, <2>1, <2>2, <2>3, <2>7, SetTopType DEF TopNode
  <2> QED BY <1>0, <1>1, <1>3, <1>5, <2>1, <2>2, <2>3, <2>6, <2>7, <2>8, <2>9,
             ProvenanceSetTop
<1>h. CASE Leaf
  <2> DEFINE b == Top.best.score < MinScore
             r == [TopNode EXCEPT !.state = "terminal", !.pruned = @ \/ b]
  <2>1. /\ stack' = Pop /\ nodes' = SetNode(r) /\ call' = call
        /\ Top.pc = "decoders"
    BY <1>h DEF Leaf, Return, At
  <2>2. b \in BOOLEAN
    BY <1>0, EngineAssumption DEF Frame, Best
  <2> HIDE DEF b
  <2>3. /\ r \in Node /\ r.parent = TopNode.parent /\ r.depth = TopNode.depth
        /\ r.content = TopNode.content /\ r.state = "terminal"
    BY <1>0, <2>2 DEF Node, States
  <2> HIDE DEF r
  <2>4. SameShape
    BY <1>0, <2>1, <2>3, ShapeOfSetNode DEF Structure
  <2>5. \A n \in Ids : n # Top.node => nodes'[n] = nodes[n]
    BY <1>0, <2>1, <2>3, SetNodeType DEF Structure
  <2> QED BY <1>0, <1>1, <1>3, <1>5, <1>8, <2>1, <2>4, <2>5, ProvenanceKept
<1> QED
  BY <1>1, <1>2, <1>a, <1>b, <1>c, <1>d, <1>e, <1>f, <1>g, <1>h DEF Body

LEMMA ProvenanceKeeps ==
  ASSUME TypeOK, Structure, ProvenanceInv, [Next]_vars
  PROVE  ProvenanceInv'
<1>1. ASSUME NEW c \in Content, Start(c) PROVE ProvenanceInv'
  BY <1>1 DEF Start, ProvenanceInv, Ids
<1>2. CASE \/ Finish \/ RunRaises \/ Cancel \/ ClearCancel \/ DeadlinePasses
           \/ UNCHANGED vars
  <2>1. UNCHANGED <<nodes, stack, call, upset>> /\ (raising' => raising)
    BY <1>2 DEF Finish, RunRaises, Cancel, ClearCancel, DeadlinePasses, vars,
       engine, history
  <2> QED BY <2>1 DEF ProvenanceInv, FrameInv, Ids, Top, TopNode
<1> QED
  BY <1>1, <1>2, PrologueProvenance, BodyProvenance DEF Next, EngineStep

\* The only node a step of a loop classifies is the innermost one, which has
\* no class yet.
LEMMA BodyClassifies ==
  ASSUME TypeOK, Structure, ProvenanceInv, Body, "matcher" \notin upset,
         NEW n \in Ids, nodes[n].state # "pending"
  PROVE  nodes'[n] = nodes[n]
<1>1. /\ stack # <<>> /\ Top \in Frame /\ TopNode \in Node /\ Tries(Top)
      /\ Bytes \in Content /\ call = NoCall
  BY BodyStarts
<1>2. CASE Extracts \/ ApplyDecoder \/ Leaf
  <2>1. Top.pc \in {"analyzers", "decoders"}
    BY <1>2 DEF Extracts, ApplyDecoder, Leaf, At
  <2>2. Top.node \in Ids /\ TopNode.state = "pending"
    BY <1>1, <2>1, TopType DEF ProvenanceInv, FrameInv, Structure, Top, TopNode
  <2>3. \E r : nodes' = SetNode(r)
    BY <1>2 DEF Extracts, ApplyDecoder, Leaf
  <2> QED BY <2>2, <2>3 DEF SetNode, TopNode, Ids, TypeOK
<1>3. CASE ~(Extracts \/ ApplyDecoder \/ Leaf)
  BY <1>3 DEF Body, LoopCancelled, MatcherRaises, SkipAnalyzer, AnalyzerFails,
     ExtractNext, Explored, StartDecoders, ScoreDecoder, DecoderFails, Unwind
<1> QED BY <1>2, <1>3

-----------------------------------------------------------------------------
(* What a complete outcome promises *)

\* Only a running analysis has activations; the baseline is never disabled.
RunInv == (phase # "running" => stack = <<>>) /\ Baseline \subseteq enabled

HasChild(n, c) == \E m \in Ids : nodes[m].parent = n /\ nodes[m].content = c

Refused(c) == \A a \in Analyzers : Extract[a][c] = <<>>

Fruitless(c) ==
  \A d \in Baseline \cup Detects[c] : Decode[d][c].score < MinScore \/ Decode[d][c].score = 0

\* A node whose activation has returned.
Covered(n) ==
  /\ nodes[n].state # "pending"
  /\ nodes[n].state \in {"extracted", "decoded"} =>
       \A c : Produced(nodes[n], c) /\ c # Empty => HasChild(n, c)
  /\ nodes[n].state = "terminal" /\ ~nodes[n].meta /\ upset = {} =>
       Refused(nodes[n].content) /\ Fruitless(nodes[n].content)

\* c is a child of n, or is passed to analyze_blob for n.
Coming(n, c) ==
  HasChild(n, c) \/ (call # NoCall /\ call.parent = n /\ call.content = c)

\* An activation that has not returned: what it has tried so far is known.
TriedFrame(i) ==
  LET f == stack[i]
      n == nodes[f.node]
      tried == (Baseline \cup Detects[n.content]) \ f.todo
  IN  /\ Detects[n.content] \subseteq enabled
      /\ f.pc = "analyzers" =>
           /\ f.best = NoBest
           /\ upset = {} => \A a \in Analyzers \ f.todo : Extract[a][n.content] = <<>>
      /\ f.pc = "extracting" =>
           /\ n.state = "extracted"
           /\ \A c : Produced(n, c) /\ c # Empty =>
                Coming(f.node, c) \/ \E k \in DOMAIN f.queue : f.queue[k].content = c
      /\ f.pc = "decoders" =>
           /\ upset = {} =>
                /\ Refused(n.content)
                /\ \A d \in tried : Decode[d][n.content].score <= f.best.score
           /\ IF f.best.by = None THEN f.best.score = 0
              ELSE f.best.score = Decode[f.best.by][n.content].score
      /\ f.pc = "decoding" =>
           /\ n.state = "decoded"
           /\ \A c : Produced(n, c) /\ c # Empty => Coming(f.node, c)

Undisturbed == limitations = {} /\ "matcher" \notin upset

CoverInv ==
  Undisturbed =>
    /\ \A n \in Ids : Covered(n) \/ \E i \in DOMAIN stack : stack[i].node = n
    /\ \A i \in DOMAIN stack : TriedFrame(i)

LEMMA CoverInit == Init => RunInv /\ CoverInv
  BY DEF Init, RunInv, CoverInv, Ids

LEMMA RunKeeps ==
  ASSUME RunInv, [Next]_vars
  PROVE  RunInv'
<1>1. ASSUME NEW c \in Content, Start(c) PROVE RunInv'
  BY <1>1 DEF Start, ResetDecoders, RunInv
<1>2. CASE Prologue
  BY <1>2 DEF Prologue, EnterCancelled, EnterOverdue, EnterShortOfMemory, EnterEmpty, EnterTooDeep,
     EnterOverNodeCap, EnterDuplicate, EnterMetadata, EnterNode, Admitted, Pending, Refuse, AddNode,
     RunInv
<1>3. CASE Body
  BY <1>3 DEF Body, LoopCancelled, MatcherRaises, SkipAnalyzer, AnalyzerFails, Extracts, ExtractNext,
     Explored, StartDecoders, ScoreDecoder, DecoderFails, ApplyDecoder, Leaf, Unwind, At, Return,
     Loop, RunInv
<1>4. CASE Finish \/ RunRaises \/ Cancel \/ ClearCancel \/ DeadlinePasses \/ UNCHANGED vars
  BY <1>4 DEF Finish, RunRaises, Cancel, ClearCancel, DeadlinePasses, vars, engine, RunInv
<1> QED BY <1>1, <1>2, <1>3, <1>4 DEF Next, EngineStep

\* A frame that stays knows what it has tried, if what was coming for its node
\* is there.
LEMMA TriedKept ==
  ASSUME NEW i \in DOMAIN stack, TriedFrame(i), stack'[i] = stack[i],
         nodes'[stack[i].node] = nodes[stack[i].node],
         enabled \subseteq enabled', upset \subseteq upset',
         \A c : c # Empty /\ Coming(stack[i].node, c) =>
           \E m \in Ids' : nodes'[m].parent = stack[i].node /\ nodes'[m].content = c
  PROVE  TriedFrame(i)'
<1> DEFINE f == stack[i]
           n == nodes[f.node]
           found(c) == \E m \in Ids' : nodes'[m].parent = f.node /\ nodes'[m].content = c
<1>1. f.pc = "extracting" =>
        /\ n.state = "extracted"
        /\ \A c : Produced(n, c) /\ c # Empty =>
             found(c) \/ \E k \in DOMAIN f.queue : f.queue[k].content = c
  <2>1. ASSUME f.pc = "extracting", NEW c, Produced(n, c), c # Empty
        PROVE  found(c) \/ \E k \in DOMAIN f.queue : f.queue[k].content = c
    <3>1. Coming(f.node, c) \/ \E k \in DOMAIN f.queue : f.queue[k].content = c
      BY <2>1 DEF TriedFrame
    <3> QED BY <2>1, <3>1
  <2> QED BY <2>1 DEF TriedFrame
<1>2. f.pc = "decoding" =>
        /\ n.state = "decoded"
        /\ \A c : Produced(n, c) /\ c # Empty => found(c)
  <2>1. ASSUME f.pc = "decoding", NEW c, Produced(n, c), c # Empty PROVE found(c)
    <3>1. Coming(f.node, c)
      BY <2>1 DEF TriedFrame
    <3> QED BY <2>1, <3>1
  <2> QED BY <2>1 DEF TriedFrame
<1>3. /\ Detects[n.content] \subseteq enabled'
      /\ f.pc = "analyzers" =>
           /\ f.best = NoBest
           /\ upset' = {} => \A a \in Analyzers \ f.todo : Extract[a][n.content] = <<>>
      /\ f.pc = "decoders" =>
           /\ upset' = {} =>
                /\ Refused(n.content)
                /\ \A d \in (Baseline \cup Detects[n.content]) \ f.todo :
                     Decode[d][n.content].score <= f.best.score
           /\ IF f.best.by = None THEN f.best.score = 0
              ELSE f.best.score = Decode[f.best.by][n.content].score
  BY DEF TriedFrame
<1>4. f = stack'[i] /\ n = nodes'[stack'[i].node]
  OBVIOUS
<1> HIDE DEF f, n
<1> QED BY <1>1, <1>2, <1>3, <1>4 DEF TriedFrame, Coming, HasChild, Refused

\* A step of the innermost activation keeps the rest covered.
LEMMA CoverKept ==
  ASSUME TypeOK, Structure, CoverInv, Undisturbed, stack # <<>>, call = NoCall, SameShape,
         upset \subseteq upset', enabled' = enabled,
         \A n \in Ids : n # Top.node => nodes'[n] = nodes[n],
         DOMAIN stack' \subseteq DOMAIN stack,
         \A i \in DOMAIN stack' : i # Len(stack) => stack'[i] = stack[i],
         \/ Len(stack) \notin DOMAIN stack' /\ \A n \in Ids : n = Top.node => Covered(n)'
         \/ /\ Len(stack) \in DOMAIN stack' /\ stack'[Len(stack)].node = Top.node
            /\ \A i \in DOMAIN stack' : i = Len(stack) => TriedFrame(i)',
         \A i \in DOMAIN stack : i # Len(stack) => i \in DOMAIN stack'
  PROVE  CoverInv'
<1>1. /\ \A n \in Ids : Covered(n) \/ \E i \in DOMAIN stack : stack[i].node = n
      /\ \A i \in DOMAIN stack : TriedFrame(i)
  BY DEF CoverInv
<1>2. Top = stack[Len(stack)] /\ Top.node \in Ids
      /\ nodes[Top.node].depth = Len(stack) - 1 /\ Len(stack) \in Nat
      /\ Len(stack) \in DOMAIN stack
  BY TopType DEF Structure, TopNode, Top
<1>3. \A n, c : HasChild(n, c) => \E m \in Ids' : nodes'[m].parent = n /\ nodes'[m].content = c
  BY DEF HasChild, SameShape
<1>4. ASSUME NEW n \in Ids, n # Top.node, Covered(n) PROVE Covered(n)'
  <2>1. nodes'[n] = nodes[n]
    BY <1>4
  <2> QED BY <1>3, <1>4, <2>1 DEF Covered, HasChild
<1>5. ASSUME NEW i \in DOMAIN stack, i # Len(stack) PROVE TriedFrame(i)'
  <2>1. stack[i].node \in Ids /\ nodes[stack[i].node].depth = i - 1 /\ i \in Nat
    BY DEF Structure, StackInv, TypeOK
  <2>2. stack[i].node # Top.node
    BY <1>2, <1>5, <2>1
  <2>3. nodes'[stack[i].node] = nodes[stack[i].node] /\ stack'[i] = stack[i]
    BY <1>5, <2>1, <2>2
  <2>4. TriedFrame(i)
    BY <1>1
  <2>5. \A c : Coming(stack[i].node, c) => HasChild(stack[i].node, c)
    BY DEF Coming
  <2> QED BY <1>3, <2>3, <2>4, <2>5, TriedKept
<1>6. \A i \in DOMAIN stack' : TriedFrame(i)'
  BY <1>5
<1>7. ASSUME NEW n \in Ids PROVE Covered(n)' \/ \E i \in DOMAIN stack' : stack'[i].node = n
  <2>1. CASE n = Top.node
    BY <2>1, <1>2
  <2>2. CASE n # Top.node /\ Covered(n)
    BY <2>2, <1>4
  <2>3. CASE n # Top.node /\ ~Covered(n)
    <3>1. PICK i \in DOMAIN stack : stack[i].node = n
      BY <1>1, <2>3
    <3> QED BY <1>2, <2>3, <3>1
  <2> QED BY <2>1, <2>2, <2>3
<1>8. Ids' = Ids
  BY DEF SameShape
<1> QED BY <1>6, <1>7, <1>8 DEF CoverInv

\* Only the refusal of an empty artifact records no limitation.
LEMMA PrologueCover ==
  ASSUME TypeOK, Structure, RunInv, CoverInv, Prologue
  PROVE  CoverInv'
<1> SUFFICES ASSUME Undisturbed' PROVE CoverInv'
  BY DEF CoverInv
<1>1. call # NoCall /\ upset \subseteq upset' /\ limitations \subseteq limitations' /\ call' = NoCall
  BY PrologueStructure DEF Prologue, EnterCancelled, EnterOverdue, EnterShortOfMemory, EnterEmpty,
     EnterTooDeep, EnterOverNodeCap, EnterDuplicate, EnterMetadata, EnterNode,
     Admitted, Pending, Refuse, AddNode
<1>2. /\ Undisturbed
      /\ \A n \in Ids : Covered(n) \/ \E i \in DOMAIN stack : stack[i].node = n
      /\ \A i \in DOMAIN stack : TriedFrame(i)
  BY <1>1 DEF CoverInv, Undisturbed
<1>3. CASE \/ EnterCancelled \/ EnterOverdue \/ EnterShortOfMemory
           \/ EnterTooDeep \/ EnterOverNodeCap
  BY <1>3 DEF EnterCancelled, EnterOverdue, EnterShortOfMemory, EnterTooDeep, EnterOverNodeCap,
     Refuse, Undisturbed
<1>4. CASE EnterEmpty
  <2>1. UNCHANGED <<nodes, stack, enabled>> /\ call.content = Empty
    BY <1>4 DEF EnterEmpty, Refuse
  <2>2. \A n, c : c # Empty /\ Coming(n, c) =>
          \E m \in Ids' : nodes'[m].parent = n /\ nodes'[m].content = c
    BY <2>1 DEF Coming, HasChild, Ids
  <2>3. \A i \in DOMAIN stack : TriedFrame(i)'
    BY <1>1, <1>2, <2>1, <2>2, TriedKept
  <2>4. \A n \in Ids : Covered(n) => Covered(n)'
    BY <1>1, <2>1 DEF Covered, HasChild, Ids
  <2> QED BY <1>2, <2>1, <2>3, <2>4 DEF CoverInv, Ids
<1>5. ASSUME NEW st \in States, NEW pruned \in BOOLEAN, AddNode(st, pruned), Admitted,
             enabled \subseteq enabled'
      PROVE  /\ \A i \in DOMAIN stack : stack'[i] = stack[i] => TriedFrame(i)'
             /\ \A n \in Ids : Covered(n) => Covered(n)'
             /\ Ids' = Ids \cup {Len(nodes) + 1} /\ Len(nodes) + 1 \notin Ids
             /\ \A n \in Ids : nodes'[n] = nodes[n]
             /\ nodes'[Len(nodes) + 1].state = st
             /\ nodes'[Len(nodes) + 1].content = call.content
             /\ nodes'[Len(nodes) + 1].meta = call.meta
  <2> DEFINE new == Len(nodes) + 1
  <2>1. /\ Len(nodes) \in Nat /\ Ids = 1 .. Len(nodes)
        /\ Ids' = Ids \cup {new}
        /\ \A n \in Ids : nodes'[n] = nodes[n]
        /\ nodes'[new].parent = call.parent
        /\ nodes'[new].content = call.content
        /\ nodes'[new].state = st
    BY <1>1, <1>5, AddNodeType
  <2>2. nodes'[new].meta = call.meta
    BY <1>1, <1>5 DEF AddNode, TypeOK
  <2>3. new \notin Ids
    BY <2>1
  <2> HIDE DEF new
  <2>4. \A n, c : Coming(n, c) => \E m \in Ids' : nodes'[m].parent = n /\ nodes'[m].content = c
    BY <2>1 DEF Coming, HasChild
  <2>5. \A i \in DOMAIN stack : stack[i].node \in Ids
    BY DEF Structure, StackInv
  <2>6. \A i \in DOMAIN stack : stack'[i] = stack[i] => TriedFrame(i)'
    BY <1>1, <1>2, <1>5, <2>1, <2>4, <2>5, TriedKept
  <2>7. \A n, c : HasChild(n, c) => \E m \in Ids' : nodes'[m].parent = n /\ nodes'[m].content = c
    BY <2>1 DEF HasChild
  <2>8. ASSUME NEW n \in Ids, Covered(n) PROVE Covered(n)'
    <3>1. nodes'[n] = nodes[n]
      BY <2>1
    <3> QED BY <1>1, <2>7, <2>8, <3>1 DEF Covered, HasChild
  <2> QED BY <2>1, <2>2, <2>3, <2>6, <2>8 DEF new
<1>6. CASE EnterDuplicate \/ EnterMetadata
  <2>1. PICK st \in States, pruned \in BOOLEAN :
          /\ AddNode(st, pruned) /\ Admitted /\ stack' = stack /\ enabled' = enabled
          /\ st = "duplicate" \/ (st = "terminal" /\ call.meta)
    <3>1. CASE EnterDuplicate
      BY <3>1 DEF EnterDuplicate, States
    <3>2. CASE EnterMetadata
      BY <3>2 DEF EnterMetadata, States
    <3> QED BY <1>6, <3>1, <3>2
  <2>2. /\ \A i \in DOMAIN stack : TriedFrame(i)'
        /\ \A n \in Ids : Covered(n) => Covered(n)'
        /\ Ids' = Ids \cup {Len(nodes) + 1}
        /\ nodes'[Len(nodes) + 1].state = st
        /\ nodes'[Len(nodes) + 1].meta = call.meta
    BY <1>5, <2>1
  <2>3. ASSUME NEW n, n = Len(nodes) + 1 PROVE Covered(n)'
    BY <2>1, <2>2, <2>3 DEF Covered
  <2> QED BY <1>2, <2>1, <2>2, <2>3 DEF CoverInv
<1>7. CASE EnterNode
  <2> DEFINE f == [node |-> Len(nodes) + 1, pc |-> "analyzers",
                   todo |-> Analyzers, queue |-> <<>>, best |-> NoBest]
  <2>1. /\ AddNode("pending", FALSE) /\ Admitted /\ stack' = Append(stack, f)
        /\ f.node = Len(nodes) + 1 /\ f.pc = "analyzers" /\ f.best = NoBest /\ f.todo = Analyzers
        /\ enabled' = enabled \cup Detects[call.content]
    BY <1>7 DEF EnterNode
  <2> HIDE DEF f
  <2>2. /\ DOMAIN stack' = DOMAIN stack \cup {Len(stack) + 1}
        /\ \A i \in DOMAIN stack : stack'[i] = stack[i]
        /\ stack'[Len(stack) + 1] = f
    BY <2>1 DEF TypeOK
  <2>3. /\ \A i \in DOMAIN stack : TriedFrame(i)'
        /\ \A n \in Ids : Covered(n) => Covered(n)'
        /\ Ids' = Ids \cup {Len(nodes) + 1}
        /\ nodes'[Len(nodes) + 1].content = call.content
    BY <1>5, <2>1, <2>2 DEF States
  <2>4. ASSUME NEW i, i = Len(stack) + 1 PROVE TriedFrame(i)'
    <3>1. stack'[i] = f
      BY <2>2, <2>4
    <3>2. Detects[nodes'[stack'[i].node].content] \subseteq enabled'
      BY <2>1, <2>3, <3>1
    <3> QED BY <2>1, <3>1, <3>2 DEF TriedFrame
  <2>5. \A i \in DOMAIN stack' : TriedFrame(i)'
    BY <2>2, <2>3, <2>4
  <2>6. ASSUME NEW n \in Ids' PROVE Covered(n)' \/ \E i \in DOMAIN stack' : stack'[i].node = n
    <3>1. CASE n = Len(nodes) + 1
      BY <2>1, <2>2, <3>1
    <3>2. CASE n \in Ids
      BY <1>2, <2>2, <2>3, <3>2
    <3> QED BY <2>3, <2>6, <3>1, <3>2
  <2> QED BY <2>5, <2>6 DEF CoverInv
<1> QED BY <1>3, <1>4, <1>6, <1>7 DEF Prologue

\* The frame a step leaves innermost.
LEMMA CoverSetTop ==
  ASSUME TypeOK, Structure, CoverInv, Undisturbed, stack # <<>>, call = NoCall, SameShape,
         upset \subseteq upset', enabled' = enabled,
         \A n \in Ids : n # Top.node => nodes'[n] = nodes[n],
         NEW f \in Frame, stack' = SetTop(f), f.node = Top.node,
         f.pc = "analyzers" =>
           /\ f.best = NoBest
           /\ upset' = {} => \A a \in Analyzers \ f.todo : Extract[a][Bytes] = <<>>,
         f.pc = "extracting" =>
           /\ nodes'[Top.node].state = "extracted"
           /\ \A c : Produced(nodes'[Top.node], c) /\ c # Empty =>
                \/ HasChild(Top.node, c)
                \/ call' # NoCall /\ call'.parent = Top.node /\ call'.content = c
                \/ \E k \in DOMAIN f.queue : f.queue[k].content = c,
         f.pc = "decoders" =>
           /\ upset' = {} =>
                /\ Refused(Bytes)
                /\ \A d \in (Baseline \cup Detects[Bytes]) \ f.todo :
                     Decode[d][Bytes].score <= f.best.score
           /\ IF f.best.by = None THEN f.best.score = 0
              ELSE f.best.score = Decode[f.best.by][Bytes].score,
         f.pc = "decoding" =>
           /\ nodes'[Top.node].state = "decoded"
           /\ \A c : Produced(nodes'[Top.node], c) /\ c # Empty =>
                \/ HasChild(Top.node, c)
                \/ call' # NoCall /\ call'.parent = Top.node /\ call'.content = c
  PROVE  CoverInv'
<1>1. /\ DOMAIN stack' = DOMAIN stack /\ Len(stack) \in DOMAIN stack
      /\ \A i \in DOMAIN stack : i # Len(stack) => stack'[i] = stack[i]
      /\ Top.node \in Ids
  BY SetTopType, TopType DEF Structure
<1>2. stack'[Len(stack)] = f
  BY <1>1 DEF SetTop
<1>3. nodes'[f.node].content = Bytes
  BY <1>1 DEF SameShape, Bytes, TopNode
<1>4. Detects[Bytes] \subseteq enabled
  BY <1>1 DEF CoverInv, TriedFrame, Bytes, TopNode, Top
<1>5. ASSUME NEW i, i = Len(stack) PROVE TriedFrame(i)'
  <2>1. stack'[i] = f
    BY <1>2, <1>5
  <2>2. \A c : HasChild(Top.node, c) =>
          \E m \in Ids' : nodes'[m].parent = f.node /\ nodes'[m].content = c
    BY DEF HasChild, SameShape
  <2>3. f.pc = "extracting" =>
          /\ nodes'[stack'[i].node].state = "extracted"
          /\ \A c : Produced(nodes'[stack'[i].node], c) /\ c # Empty =>
               \/ \E m \in Ids' : nodes'[m].parent = stack'[i].node /\ nodes'[m].content = c
               \/ call' # NoCall /\ call'.parent = stack'[i].node /\ call'.content = c
               \/ \E k \in DOMAIN f.queue : f.queue[k].content = c
    BY <2>1, <2>2
  <2>4. f.pc = "decoding" =>
          /\ nodes'[stack'[i].node].state = "decoded"
          /\ \A c : Produced(nodes'[stack'[i].node], c) /\ c # Empty =>
               \/ \E m \in Ids' : nodes'[m].parent = stack'[i].node /\ nodes'[m].content = c
               \/ call' # NoCall /\ call'.parent = stack'[i].node /\ call'.content = c
    BY <2>1, <2>2
  <2>5. nodes'[stack'[i].node].content = Bytes /\ Detects[Bytes] \subseteq enabled'
    BY <1>3, <1>4, <2>1
  <2> QED BY <2>1, <2>3, <2>4, <2>5 DEF TriedFrame, Coming, HasChild, Refused
<1> QED BY <1>1, <1>2, <1>5, CoverKept

LEMMA BodyCover ==
  ASSUME TypeOK, Structure, ProvenanceInv, RunInv, CoverInv, Body
  PROVE  CoverInv'
<1> SUFFICES ASSUME Undisturbed' PROVE CoverInv'
  BY DEF CoverInv
<1>0. /\ stack # <<>> /\ Top \in Frame /\ TopNode \in Node /\ Tries(Top)
      /\ Bytes \in Content /\ call = NoCall
  BY BodyStarts
<1>1. CASE LoopCancelled \/ MatcherRaises
  BY <1>1 DEF LoopCancelled, MatcherRaises, Undisturbed
<1>2. CASE Unwind
  BY <1>2 DEF Unwind, history, Undisturbed, ProvenanceInv
<1>3. ASSUME ~LoopCancelled, ~MatcherRaises, ~Unwind
      PROVE  upset \subseteq upset' /\ enabled' = enabled /\ limitations' = limitations
  BY <1>3 DEF Body, SkipAnalyzer, AnalyzerFails, Extracts, ExtractNext, Explored, StartDecoders,
     ScoreDecoder, DecoderFails, ApplyDecoder, Leaf, Return, Loop
<1> SUFFICES ASSUME ~LoopCancelled, ~MatcherRaises, ~Unwind PROVE CoverInv'
  BY <1>1, <1>2
<1>4. Undisturbed /\ upset \subseteq upset' /\ enabled' = enabled
  BY <1>3 DEF Undisturbed
<1>5. /\ TriedFrame(Len(stack)) /\ FrameInv(Len(stack)) /\ Len(stack) \in DOMAIN stack
      /\ Top = stack[Len(stack)] /\ Top.node \in Ids /\ Bytes = nodes[Top.node].content
  BY <1>0, <1>4, TopType DEF CoverInv, ProvenanceInv, Undisturbed, Structure, Top, Bytes, TopNode
<1>6. /\ Top.pc = "analyzers" =>
           /\ Top.best = NoBest
           /\ upset = {} => \A a \in Analyzers \ Top.todo : Extract[a][Bytes] = <<>>
      /\ Top.pc = "decoders" =>
           /\ upset = {} =>
                /\ Refused(Bytes)
                /\ \A d \in (Baseline \cup Detects[Bytes]) \ Top.todo :
                     Decode[d][Bytes].score <= Top.best.score
           /\ IF Top.best.by = None THEN Top.best.score = 0
              ELSE /\ Top.best.score = Decode[Top.best.by][Bytes].score
                   /\ Top.best.out = Decode[Top.best.by][Bytes].out
      /\ Detects[Bytes] \subseteq enabled
  BY <1>5 DEF TriedFrame, FrameInv
<1>7. /\ Top.pc = "extracting" =>
           /\ TopNode.state = "extracted"
           /\ \A c : Produced(TopNode, c) /\ c # Empty =>
                HasChild(Top.node, c) \/ \E k \in DOMAIN Top.queue : Top.queue[k].content = c
      /\ Top.pc = "decoding" =>
           /\ TopNode.state = "decoded"
           /\ \A c : Produced(TopNode, c) /\ c # Empty => HasChild(Top.node, c)
  <2>1. \A c : Coming(Top.node, c) => HasChild(Top.node, c)
    BY <1>0 DEF Coming
  <2> QED BY <1>5, <2>1 DEF TriedFrame, TopNode
<1>8. nodes' = nodes => SameShape /\ \A n \in Ids : nodes'[n] = nodes[n]
  BY DEF SameShape, Ids, Duplicate
<1>9. ASSUME stack' = Pop
      PROVE  /\ DOMAIN stack' \subseteq DOMAIN stack /\ Len(stack) \notin DOMAIN stack'
             /\ \A i \in DOMAIN stack' : i # Len(stack) => stack'[i] = stack[i]
             /\ \A i \in DOMAIN stack : i # Len(stack) => i \in DOMAIN stack'
  <2>1. Len(stack) \in Nat \ {0} /\ DOMAIN stack = 1 .. Len(stack)
    BY <1>0 DEF TypeOK
  <2> QED BY <1>0, <1>9, <2>1, PopType
<1>a. CASE Explored
  <2>1. UNCHANGED <<nodes, call, upset>> /\ stack' = Pop
        /\ ((Top.pc = "extracting" /\ Top.queue = <<>>) \/ Top.pc = "decoding")
    BY <1>a DEF Explored, Return, At
  <2>2. /\ TopNode.state \in {"extracted", "decoded"}
        /\ \A c : Produced(TopNode, c) /\ c # Empty => HasChild(Top.node, c)
    BY <1>7, <2>1
  <2>3. ASSUME NEW n \in Ids, n = Top.node PROVE Covered(n)'
    <3>1. Covered(n)
      BY <2>2, <2>3 DEF Covered, TopNode
    <3> QED BY <2>1, <3>1 DEF Covered, HasChild, Ids
  <2> QED BY <1>0, <1>4, <1>8, <1>9, <2>1, <2>3, CoverKept
<1>b. CASE SkipAnalyzer \/ AnalyzerFails
  <2>1. PICK a : /\ stack' = SetTop([Top EXCEPT !.todo = @ \ {a}])
                 /\ Extract[a][Bytes] = <<>> \/ upset' # {}
    BY <1>b DEF SkipAnalyzer, AnalyzerFails
  <2>2. UNCHANGED <<nodes, call>> /\ Top.pc = "analyzers"
    BY <1>b DEF SkipAnalyzer, AnalyzerFails, Loop, At
  <2> DEFINE f == [Top EXCEPT !.todo = @ \ {a}]
  <2>3. f \in Frame
    BY <1>0, FrameType
  <2>4. f.node = Top.node /\ f.pc = "analyzers" /\ f.best = Top.best /\ f.todo = Top.todo \ {a}
    BY <1>0, <2>2 DEF Frame
  <2> HIDE DEF f
  <2>5. stack' = SetTop(f)
    BY <2>1 DEF f
  <2>6. upset' = {} => \A b \in Analyzers \ f.todo : Extract[b][Bytes] = <<>>
    BY <1>4, <1>6, <2>1, <2>2, <2>4
  <2> QED BY <1>0, <1>4, <1>6, <1>8, <2>2, <2>3, <2>4, <2>5, <2>6, CoverSetTop
<1>c. CASE Extracts
  <2>1. PICK a \in Analyzers :
          /\ nodes' = SetNode([TopNode EXCEPT !.method = "EXTRACT",
                                 !.state = "extracted", !.used = a])
          /\ stack' = SetTop([Top EXCEPT !.pc = "extracting", !.todo = @ \ {a},
                                         !.queue = Extract[a][Bytes]])
    BY <1>0, <1>c DEF Extracts, At, Tries
  <2>2. Top.pc = "analyzers" /\ call' = call
    BY <1>c DEF Extracts, At
  <2> DEFINE f == [Top EXCEPT !.pc = "extracting", !.todo = @ \ {a},
                              !.queue = Extract[a][Bytes]]
             r == [TopNode EXCEPT !.method = "EXTRACT",
                                  !.state = "extracted", !.used = a]
  <2>3. f \in Frame
    BY <1>0, FrameType, ConstantTypes
  <2>4. f.node = Top.node /\ f.pc = "extracting" /\ f.queue = Extract[a][Bytes]
    BY <1>0 DEF Frame
  <2>5. /\ r \in Node /\ r.parent = TopNode.parent /\ r.depth = TopNode.depth
        /\ r.content = Bytes /\ r.state = "extracted"
        /\ r.method = "EXTRACT" /\ r.used = a
    BY <1>0 DEF Node, States, Bytes
  <2>6. stack' = SetTop(f) /\ nodes' = SetNode(r)
    BY <2>1
  <2> HIDE DEF f, r
  <2>7. SameShape
    BY <1>0, <2>5, <2>6, ShapeOfSetNode DEF Structure, Bytes
  <2>8. nodes'[Top.node] = r /\ \A n \in Ids : n # Top.node => nodes'[n] = nodes[n]
    BY <1>0, <2>5, <2>6, SetNodeType DEF Structure
  <2>9. \A c : Produced(r, c) => \E k \in DOMAIN f.queue : f.queue[k].content = c
    BY <2>4, <2>5 DEF Produced, Yield
  <2> QED BY <1>0, <1>4, <2>3, <2>4, <2>5, <2>6, <2>7, <2>8, <2>9, CoverSetTop
<1>d. CASE ExtractNext
  <2> DEFINE f == [Top EXCEPT !.queue = Tail(@)]
  <2>1. /\ nodes' = nodes /\ stack' = SetTop(f)
        /\ Top.pc = "extracting" /\ Top.queue # <<>>
        /\ call'.content = Head(Top.queue).content /\ call'.parent = Top.node
    BY <1>d DEF ExtractNext, Loop, At
  <2>2. f \in Frame
    BY <1>0, <2>1, FrameType
  <2>3. /\ f.node = Top.node /\ f.pc = "extracting" /\ f.queue = Tail(Top.queue)
        /\ Top.queue \in Seq(Artifact)
    BY <1>0, <2>1 DEF Frame
  <2> HIDE DEF f
  <2>4. call' # NoCall
    <3>1. Top.node \in Nat /\ NoCall.parent = -1
      BY <1>0, TopType DEF Structure, NoCall
    <3> QED BY <2>1, <3>1
  <2>5. ASSUME NEW k \in DOMAIN Top.queue
        PROVE  \/ Top.queue[k].content = call'.content
               \/ \E j \in DOMAIN f.queue : f.queue[j].content = Top.queue[k].content
    <3>1. CASE k = 1
      BY <2>1, <2>3, <3>1
    <3>2. CASE k # 1
      <4>1. k - 1 \in DOMAIN f.queue /\ f.queue[k - 1] = Top.queue[k]
        BY <2>1, <2>3, <3>2
      <4> QED BY <4>1
    <3> QED BY <3>1, <3>2
  <2>6. nodes'[Top.node] = TopNode
    BY <2>1 DEF TopNode
  <2>7. ASSUME NEW c, Produced(nodes'[Top.node], c), c # Empty
        PROVE  \/ HasChild(Top.node, c)
               \/ call' # NoCall /\ call'.parent = Top.node /\ call'.content = c
               \/ \E j \in DOMAIN f.queue : f.queue[j].content = c
    <3>1. HasChild(Top.node, c) \/ \E k \in DOMAIN Top.queue : Top.queue[k].content = c
      BY <1>7, <2>1, <2>6, <2>7
    <3> QED BY <2>1, <2>4, <2>5, <3>1
  <2>8. nodes'[Top.node].state = "extracted"
    BY <1>7, <2>1, <2>6
  <2> QED BY <1>0, <1>4, <1>8, <2>1, <2>2, <2>3, <2>7, <2>8, CoverSetTop
<1>e. CASE StartDecoders
  <2> DEFINE f == [Top EXCEPT !.pc = "decoders", !.todo = enabled]
  <2>1. UNCHANGED <<nodes, call, upset>> /\ stack' = SetTop(f) /\ Top.pc = "analyzers" /\ Top.todo = {}
    BY <1>e DEF StartDecoders, Loop, At
  <2>2. f \in Frame
    BY <1>0, FrameType DEF TypeOK
  <2>3. f.node = Top.node /\ f.pc = "decoders" /\ f.best = Top.best /\ f.todo = enabled
    BY <1>0 DEF Frame
  <2> HIDE DEF f
  <2>4. upset' = {} => Refused(Bytes)
    BY <1>6, <2>1 DEF Refused
  <2>5. (Baseline \cup Detects[Bytes]) \ f.todo = {}
    BY <1>6, <2>3 DEF RunInv
  <2>6. f.best.by = None /\ f.best.score = 0
    BY <1>6, <2>1, <2>3 DEF NoBest
  <2> QED BY <1>0, <1>4, <1>8, <2>1, <2>2, <2>3, <2>4, <2>5, <2>6, CoverSetTop
<1>f. CASE ScoreDecoder \/ DecoderFails
  <2>1. PICK d \in Decoders, b \in Best :
          /\ stack' = SetTop([Top EXCEPT !.todo = @ \ {d}, !.best = b])
          /\ IF upset' # {} THEN b = Top.best \/ (b.by = d /\ b.score = Decode[d][Bytes].score)
             ELSE IF Better(Decode[d][Bytes].score, Top.best)
                  THEN b.by = d /\ b.score = Decode[d][Bytes].score
                  ELSE b = Top.best
    <3>1. CASE ScoreDecoder
      <4>1. PICK d \in Decoders :
              stack' = SetTop([Top EXCEPT
                  !.todo = @ \ {d},
                  !.best = IF Better(Decode[d][Bytes].score, @)
                           THEN [by |-> d, out |-> Decode[d][Bytes].out,
                                 score |-> Decode[d][Bytes].score]
                           ELSE @])
        BY <1>0, <3>1 DEF ScoreDecoder, At, Tries
      <4> DEFINE b == IF Better(Decode[d][Bytes].score, Top.best)
                      THEN [by |-> d, out |-> Decode[d][Bytes].out,
                            score |-> Decode[d][Bytes].score]
                      ELSE Top.best
      <4>2. b \in Best
        BY <1>0, ConstantTypes DEF Frame
      <4>3. stack' = SetTop([Top EXCEPT !.todo = @ \ {d}, !.best = b])
        BY <4>1
      <4>4. IF Better(Decode[d][Bytes].score, Top.best)
            THEN b.by = d /\ b.score = Decode[d][Bytes].score ELSE b = Top.best
        OBVIOUS
      <4> HIDE DEF b
      <4> QED BY <4>2, <4>3, <4>4
    <3>2. CASE DecoderFails
      <4>1. PICK d \in Decoders : stack' = SetTop([Top EXCEPT !.todo = @ \ {d}])
        BY <1>0, <3>2 DEF DecoderFails, At, Tries
      <4>2. [Top EXCEPT !.todo = @ \ {d}] = [Top EXCEPT !.todo = @ \ {d}, !.best = Top.best]
            /\ Top.best \in Best
        BY <1>0 DEF Frame
      <4>3. upset' # {}
        BY <3>2 DEF DecoderFails
      <4> QED BY <4>1, <4>2, <4>3
    <3> QED BY <1>f, <3>1, <3>2
  <2>2. UNCHANGED <<nodes, call>> /\ Top.pc = "decoders"
    BY <1>f DEF ScoreDecoder, DecoderFails, Loop, At
  <2> DEFINE f == [Top EXCEPT !.todo = @ \ {d}, !.best = b]
  <2>3. f \in Frame
    BY <1>0, FrameType
  <2>4. f.node = Top.node /\ f.pc = "decoders" /\ f.best = b /\ f.todo = Top.todo \ {d}
    BY <1>0, <2>2 DEF Frame
  <2> HIDE DEF f
  <2>5. stack' = SetTop(f)
    BY <2>1 DEF f
  <2>6. IF b.by = None THEN b.score = 0 ELSE b.score = Decode[b.by][Bytes].score
    BY <1>6, <2>1, <2>2, EngineAssumption
  <2>7. /\ b.score \in Nat /\ Top.best.score \in Nat
        /\ \A e \in Decoders : Decode[e][Bytes].score \in Nat
    BY <1>0, ConstantTypes DEF Frame, Best
  <2>8. ASSUME upset' = {}
        PROVE  /\ Refused(Bytes)
               /\ \A e \in (Baseline \cup Detects[Bytes]) \ f.todo : Decode[e][Bytes].score <= b.score
    <3>1. /\ Refused(Bytes)
          /\ \A e \in (Baseline \cup Detects[Bytes]) \ Top.todo :
               Decode[e][Bytes].score <= Top.best.score
      BY <1>4, <1>6, <2>2, <2>8
    <3>2. Top.best.score <= b.score /\ Decode[d][Bytes].score <= b.score
      BY <2>1, <2>7, <2>8 DEF Better
    <3>3. \A e \in Baseline \cup Detects[Bytes] : e \in Decoders
      BY <1>0, ConstantTypes
    <3> QED BY <2>4, <2>7, <3>1, <3>2, <3>3
  <2> QED BY <1>0, <1>4, <1>8, <2>2, <2>3, <2>4, <2>5, <2>6, <2>8, CoverSetTop
<1>g. CASE ApplyDecoder
  <2> DEFINE f == [Top EXCEPT !.pc = "decoding"]
             r == [TopNode EXCEPT !.method = "DECODE", !.state = "decoded",
                                  !.used = Top.best.by]
  <2>1. /\ stack' = SetTop(f) /\ nodes' = SetNode(r) /\ Top.pc = "decoders"
        /\ call'.content = Top.best.out /\ call'.parent = Top.node /\ Top.best.by # None
    BY <1>g DEF ApplyDecoder, At, Chosen
  <2>2. f \in Frame
    BY <1>0, FrameType
  <2>3. f.node = Top.node /\ f.pc = "decoding"
    BY <1>0 DEF Frame
  <2>4. Top.best.by \in Decoders
    BY <1>0, <2>1 DEF Frame, Best
  <2>5. /\ r \in Node /\ r.parent = TopNode.parent /\ r.depth = TopNode.depth
        /\ r.content = Bytes /\ r.state = "decoded"
        /\ r.method = "DECODE" /\ r.used = Top.best.by
    BY <1>0, <2>4 DEF Node, States, Bytes
  <2> HIDE DEF f, r
  <2>6. SameShape
    BY <1>0, <2>1, <2>5, ShapeOfSetNode DEF Structure, Bytes
  <2>7. nodes'[Top.node] = r /\ \A n \in Ids : n # Top.node => nodes'[n] = nodes[n]
    BY <1>0, <2>1, <2>5, SetNodeType DEF Structure
  <2>8. \A c : Produced(r, c) => c = call'.content
    BY <1>6, <2>1, <2>5 DEF Produced, Yield
  <2>9. call' # NoCall
    <3>1. Top.node \in Nat /\ NoCall.parent = -1
      BY <1>0, TopType DEF Structure, NoCall
    <3> QED BY <2>1, <3>1
  <2> QED BY <1>0, <1>4, <2>1, <2>2, <2>3, <2>5, <2>6, <2>7, <2>8, <2>9, CoverSetTop
<1>h. CASE Leaf
  <2> DEFINE b == Top.best.score < MinScore
             r == [TopNode EXCEPT !.state = "terminal", !.pruned = @ \/ b]
  <2>1. /\ stack' = Pop /\ nodes' = SetNode(r) /\ call' = call /\ upset' = upset
        /\ Top.pc = "decoders" /\ Top.todo = {} /\ ~Chosen(Top.best)
    BY <1>h DEF Leaf, Return, At
  <2>2. b \in BOOLEAN
    BY <1>0, EngineAssumption DEF Frame, Best
  <2> HIDE DEF b
  <2>3. /\ r \in Node /\ r.parent = TopNode.parent /\ r.depth = TopNode.depth
        /\ r.content = TopNode.content /\ r.state = "terminal"
    BY <1>0, <2>2 DEF Node, States
  <2> HIDE DEF r
  <2>4. SameShape
    BY <1>0, <2>1, <2>3, ShapeOfSetNode DEF Structure
  <2>5. nodes'[Top.node] = r /\ \A n \in Ids : n # Top.node => nodes'[n] = nodes[n]
    BY <1>0, <2>1, <2>3, SetNodeType DEF Structure
  <2>6. ASSUME upset = {} PROVE Refused(Bytes) /\ Fruitless(Bytes)
    <3>1. /\ Refused(Bytes)
          /\ \A d \in Baseline \cup Detects[Bytes] : Decode[d][Bytes].score <= Top.best.score
      BY <1>6, <2>1, <2>6
    <3>2. Top.best.score \in Nat /\ Top.best.by \in Decoders \cup {None} /\ MinScore \in Nat
      BY <1>0, EngineAssumption DEF Frame, Best
    <3>3. Top.best.score = 0 \/ Top.best.score < MinScore
      <4>1. CASE Top.best.by = None
        BY <1>6, <2>1, <4>1
      <4>2. CASE Top.best.by # None /\ Top.best.out = Empty
        <5>1. Top.best.by \in Decoders
          BY <3>2, <4>2
        <5>2. Decode[Top.best.by][Bytes].out = Empty
          BY <1>6, <2>1, <4>2
        <5>3. Decode[Top.best.by][Bytes].score = 0
          BY <1>0, <5>1, <5>2, EngineAssumption
        <5> QED BY <1>6, <2>1, <4>2, <5>3
      <4>3. CASE Top.best.by # None /\ Top.best.out # Empty
        BY <2>1, <3>2, <4>3 DEF Chosen
      <4> QED BY <4>1, <4>2, <4>3
    <3>4. \A d \in Baseline \cup Detects[Bytes] : Decode[d][Bytes].score \in Nat
      BY <1>0, ConstantTypes
    <3> QED BY <3>1, <3>2, <3>3, <3>4 DEF Fruitless
  <2>7. ASSUME NEW n \in Ids, n = Top.node PROVE Covered(n)'
    <3>1. nodes'[n].state = "terminal" /\ nodes'[n].content = Bytes
      BY <2>3, <2>5, <2>7 DEF Bytes
    <3> QED BY <2>1, <2>6, <3>1 DEF Covered, Refused, Fruitless
  <2> QED BY <1>0, <1>4, <1>9, <2>1, <2>4, <2>5, <2>7, CoverKept
<1> QED
  BY <1>a, <1>b, <1>c, <1>d, <1>e, <1>f, <1>g, <1>h DEF Body

LEMMA CoverKeeps ==
  ASSUME TypeOK, Structure, ProvenanceInv, RunInv, CoverInv, [Next]_vars
  PROVE  CoverInv'
<1>1. ASSUME NEW c \in Content, Start(c) PROVE CoverInv'
  BY <1>1 DEF Start, CoverInv, Ids
<1>2. CASE \/ Finish \/ RunRaises \/ Cancel \/ ClearCancel \/ DeadlinePasses
           \/ UNCHANGED vars
  <2>1. UNCHANGED <<nodes, stack, call, upset, limitations, enabled>>
    BY <1>2 DEF Finish, RunRaises, Cancel, ClearCancel, DeadlinePasses, vars,
       engine, history
  <2>2. Ids' = Ids
    BY <2>1 DEF Ids
  <2>3. \A n \in Ids : Covered(n) => Covered(n)'
    BY <2>1, <2>2 DEF Covered, HasChild
  <2>4. \A i \in DOMAIN stack : TriedFrame(i) => TriedFrame(i)'
    BY <2>1, <2>2 DEF TriedFrame, Coming, HasChild, Refused
  <2> QED BY <2>1, <2>2, <2>3, <2>4 DEF CoverInv, Undisturbed
<1> QED
  BY <1>1, <1>2, PrologueCover, BodyCover DEF Next, EngineStep

-----------------------------------------------------------------------------
(* The theorems *)

\* The shape of the tree, the stack and the call, in every state.
THEOREM EngineStructure == Spec => [](TypeOK /\ Structure)
<1>1. Init => TypeOK /\ Structure
  BY TypeInit, StructureInit
<1>2. TypeOK /\ Structure /\ [Next]_vars => (TypeOK /\ Structure)'
  BY TypeKeeps, StructureKeeps DEF Structure
<1> QED BY <1>1, <1>2, PTL DEF Spec

\* Every variable of the engine keeps its type, whatever the handlers return.
THEOREM EngineTypeCorrect == Spec => []TypeOK
  BY EngineStructure, PTL

\* Whatever the handlers return, the limits bound the tree, and the depth of
\* the Python stack too (engine.py analyze_blob).
THEOREM EngineBounded == Spec => []Bounded
<1>1. ASSUME TypeOK, Structure PROVE Bounded
  <2>1. Len(stack) <= MaxDepth + 1
    <3>1. CASE stack = <<>>
      BY <3>1, EngineAssumption
    <3>2. CASE stack # <<>>
      <4>1. /\ Top.node \in Ids /\ nodes[Top.node].depth = Len(stack) - 1
            /\ Len(stack) \in Nat
        BY <1>1, <3>2, TopType DEF Structure, TopNode
      <4>2. nodes[Top.node].depth <= MaxDepth
        BY <1>1, <4>1 DEF Structure, TreeInv
      <4> QED BY <4>1, <4>2, EngineAssumption
    <3> QED BY <3>1, <3>2
  <2> QED BY <1>1, <2>1 DEF Bounded, Structure, TreeInv
<1> QED BY <1>1, EngineStructure, PTL

\* The same bytes are explored once, on every input, with every set of
\* handlers (engine.py _seen_hashes).
THEOREM EngineExploredOnce == Spec => []ExploredOnce
<1>1. ASSUME TypeOK, Structure PROVE ExploredOnce
  <2>1. Ids = 1 .. Len(nodes) /\ Len(nodes) \in Nat
    BY <1>1 DEF TypeOK, Ids
  <2>2. \A m, n \in Ids : nodes[m].content = nodes[n].content /\ m # n
                           => "duplicate" \in {nodes[m].state, nodes[n].state}
    BY <1>1 DEF Structure, SeenInv, Duplicate
  <2>3. \A n \in Ids : Duplicate(n) => n \in Leaves
    BY <1>1, <2>1 DEF Structure, TreeInv, Leaves, Duplicate
  <2>4. \A n \in Ids : Duplicate(n) =>
          \E m \in 1 .. n - 1 : /\ nodes[m].content = nodes[n].content
                                /\ nodes[m].state # "duplicate"
    BY <1>1 DEF Structure, SeenInv, Duplicate
  <2> QED BY <2>2, <2>3, <2>4 DEF ExploredOnce, Duplicate
<1> QED BY <1>1, EngineStructure, PTL

\* The whole invariant, with what holds as long as no matcher has raised.
THEOREM EngineInvariant == Spec => []EngineInv
<1>1. Init => TypeOK /\ Structure /\ ProvenanceInv
  BY TypeInit, StructureInit, ProvenanceInit
<1>2. TypeOK /\ Structure /\ ProvenanceInv /\ [Next]_vars
        => TypeOK' /\ Structure' /\ ProvenanceInv'
  BY TypeKeeps, StructureKeeps, ProvenanceKeeps DEF Structure
<1>3. TypeOK /\ Structure /\ ProvenanceInv => EngineInv
  BY DEF Structure, EngineInv
<1> QED BY <1>1, <1>2, <1>3, PTL DEF Spec

\* Until a can_analyze or a can_decode raises, every node can be retraced to
\* the root through the handlers the report names (_finalize_provenance).
THEOREM EngineRetraceable == Spec => []RetraceableUnlessMatcherRaises
<1>1. ASSUME EngineInv PROVE RetraceableUnlessMatcherRaises
  <2> SUFFICES ASSUME "matcher" \notin upset, NEW n \in Ids
               PROVE  RetraceableNode(n)
    BY DEF RetraceableUnlessMatcherRaises, Retraceable
  <2>1. Ids = 1 .. Len(nodes) /\ Len(nodes) \in Nat
    BY <1>1 DEF EngineInv, TypeOK, Ids
  <2>2. IF nodes[n].parent = 0 THEN n = 1 /\ nodes[n].depth = 0
        ELSE /\ nodes[n].parent < n
             /\ nodes[n].depth = nodes[nodes[n].parent].depth + 1
    BY <1>1, <2>1 DEF EngineInv, TreeInv
  <2>3. nodes[n].parent # 0 =>
          Produced(nodes[nodes[n].parent], nodes[n].content)
    BY <1>1 DEF EngineInv, ProvenanceInv
  <2> QED BY <2>2, <2>3 DEF RetraceableNode, ProducedBy, Produced
<1> QED BY <1>1, EngineInvariant, PTL

\* Until a matcher raises, no node is classified twice (engine.py
\* analyze_blob returns from the loop that took the bytes).
THEOREM EngineNeverReclassifies == Spec => NeverReclassified
<1>1. ASSUME EngineInv, [Next]_vars
      PROVE  [phase = "running" /\ phase' = "running" /\ "matcher" \notin upset' =>
         \A n \in Ids : nodes[n].state # "pending" => nodes'[n] = nodes[n]]_vars
  <2> SUFFICES ASSUME phase = "running", "matcher" \notin upset',
                      NEW n \in Ids, nodes[n].state # "pending"
               PROVE  nodes'[n] = nodes[n]
    OBVIOUS
  <2>1. TypeOK /\ Structure /\ ProvenanceInv
    BY <1>1 DEF EngineInv, Structure
  <2>2. CASE Prologue
    <3>1. nodes' = nodes \/ \E st \in States, b \in BOOLEAN :
                              AddNode(st, b) /\ call # NoCall
      BY <2>2 DEF Prologue, EnterCancelled, EnterOverdue, EnterShortOfMemory,
         EnterEmpty, EnterTooDeep, EnterOverNodeCap, EnterDuplicate,
         EnterMetadata, EnterNode, Refuse, Admitted, Pending, States
    <3> QED BY <2>1, <3>1, AddNodeType
  <2>3. CASE Body
    <3>1. "matcher" \notin upset
      BY <2>3 DEF Body, LoopCancelled, MatcherRaises, SkipAnalyzer,
         AnalyzerFails, Extracts, ExtractNext, Explored, StartDecoders,
         ScoreDecoder, DecoderFails, ApplyDecoder, Leaf, Unwind, history
    <3> QED BY <2>1, <2>3, <3>1, BodyClassifies
  <2>4. CASE \/ Finish \/ RunRaises \/ Cancel \/ ClearCancel \/ DeadlinePasses
             \/ UNCHANGED vars
    BY <2>4 DEF Finish, RunRaises, Cancel, ClearCancel, DeadlinePasses, vars,
       engine
  <2>5. ~ \E c \in Content : Start(c)
    BY DEF Start
  <2> QED BY <1>1, <2>2, <2>3, <2>4, <2>5 DEF Next, EngineStep
<1> QED BY <1>1, EngineInvariant, PTL DEF Spec, NeverReclassified

\* An outcome that is called complete hides nothing: with no limitation and no
\* raising matcher, every artifact and every accepted decode is in the tree,
\* and a leaf is bytes that no enabled handler takes (_build_analysis_outcome).
THEOREM EngineComplete == Spec => []CompleteMeansExplored
<1>1. Init => TypeOK /\ Structure /\ ProvenanceInv /\ RunInv /\ CoverInv
  BY TypeInit, StructureInit, ProvenanceInit, CoverInit
<1>2. TypeOK /\ Structure /\ ProvenanceInv /\ RunInv /\ CoverInv /\ [Next]_vars
        => (TypeOK /\ Structure /\ ProvenanceInv /\ RunInv /\ CoverInv)'
  BY TypeKeeps, StructureKeeps, ProvenanceKeeps, RunKeeps, CoverKeeps DEF Structure
<1>3. RunInv /\ CoverInv => CompleteMeansExplored
  <2> SUFFICES ASSUME RunInv, CoverInv, phase = "done", Complete, "matcher" \notin upset,
                      NEW n \in Ids
               PROVE  /\ nodes[n].state # "pending"
                      /\ nodes[n].state \in {"extracted", "decoded"} =>
                           \A out \in Yield(nodes[n].method, nodes[n].used, nodes[n].content) \ {Empty} :
                             \E m \in Ids : nodes[m].parent = n /\ nodes[m].content = out
                      /\ nodes[n].state = "terminal" /\ ~nodes[n].meta /\ upset = {} =>
                           /\ \A a \in Analyzers : Extract[a][nodes[n].content] = <<>>
                           /\ \A d \in Baseline \cup Detects[nodes[n].content] :
                                \/ Decode[d][nodes[n].content].score < MinScore
                                \/ Decode[d][nodes[n].content].score = 0
    BY DEF CompleteMeansExplored
  <2>1. limitations = {}
    BY DEF Complete, Status
  <2>2. Covered(n)
    BY <2>1 DEF CoverInv, Undisturbed, RunInv
  <2> QED BY <2>2 DEF Covered, HasChild, Produced, Refused, Fruitless
<1> QED BY <1>1, <1>2, <1>3, PTL DEF Spec

-----------------------------------------------------------------------------
(* Two undisturbed runs on one input build the same tree.  What such a run  *)
(* works on is the five variables below; they determine what it does next,  *)
(* so every run on an input passes the same configurations and ends in the  *)
(* same one.                                                                *)

Configuration == [nodes : Seq(Node), seen : SUBSET Content,
                  enabled : SUBSET Decoders, call : Call \cup {NoCall},
                  stack : Seq(Frame)]

Config(n, s, e, c, k) ==
  [nodes |-> n, seen |-> s, enabled |-> e, call |-> c, stack |-> k]

Now == Config(nodes, seen, enabled, call, stack)

\* Where run_analysis begins on the bytes c.
Origin(c) ==
  Config(<<>>, {}, Baseline,
         [content |-> c, parent |-> 0, depth |-> 0, meta |-> FALSE], <<>>)

Ended(x) == x.call = NoCall /\ x.stack = <<>>

\* The node the call c adds to the tree.
NodeOf(c, state, pruned) ==
  [parent |-> c.parent, depth |-> c.depth, content |-> c.content,
   state |-> state, method |-> "ANALYZE", used |-> None, pruned |-> pruned,
   meta |-> c.meta]

\* What the prologue of analyze_blob does, when it refuses nothing.
AfterCall(n, s, e, c, k) ==
  IF c.content = Empty THEN Config(n, s, e, NoCall, k)
  ELSE IF c.content \in s
  THEN Config(Append(n, NodeOf(c, "duplicate", TRUE)), s, e, NoCall, k)
  ELSE IF c.meta
  THEN Config(Append(n, NodeOf(c, "terminal", FALSE)), s \cup {c.content}, e,
              NoCall, k)
  ELSE Config(Append(n, NodeOf(c, "pending", FALSE)), s \cup {c.content},
              e \cup Detects[c.content], NoCall,
              Append(k, [node |-> Len(n) + 1, pc |-> "analyzers",
                         todo |-> Analyzers, queue |-> <<>>,
                         best |-> NoBest]))

\* The handler the loop tries next.
Following(todo) == CHOOSE h : IsNext(h, todo)

AfterAnalyzers(n, s, e, k, f) ==
  LET a == Following(f.todo)
      c == n[f.node].content
      Put(g) == [k EXCEPT ![Len(k)] = g]
  IN  IF f.todo = {}
      THEN Config(n, s, e, NoCall, Put([f EXCEPT !.pc = "decoders", !.todo = e]))
      ELSE IF Extract[a][c] = <<>>
      THEN Config(n, s, e, NoCall, Put([f EXCEPT !.todo = @ \ {a}]))
      ELSE Config([n EXCEPT ![f.node] =
                     [n[f.node] EXCEPT !.method = "EXTRACT",
                        !.state = "extracted", !.used = a]],
                  s, e, NoCall,
                  Put([f EXCEPT !.pc = "extracting", !.todo = @ \ {a},
                                !.queue = Extract[a][c]]))

AfterDecoders(n, s, e, k, f) ==
  LET d == Following(f.todo)
      r == Decode[d][n[f.node].content]
      Put(g) == [k EXCEPT ![Len(k)] = g]
  IN  IF f.todo # {}
      THEN Config(n, s, e, NoCall,
             Put([f EXCEPT
              !.todo = @ \ {d},
              !.best = IF Better(r.score, @)
                       THEN [by |-> d, out |-> r.out, score |-> r.score]
                       ELSE @]))
      ELSE IF Chosen(f.best)
      THEN Config([n EXCEPT ![f.node] =
                     [n[f.node] EXCEPT !.method = "DECODE",
                           !.state = "decoded", !.used = f.best.by]],
                  s, e,
                  [content |-> f.best.out, parent |-> f.node,
                   depth |-> n[f.node].depth + 1, meta |-> FALSE],
                  Put([f EXCEPT !.pc = "decoding"]))
      ELSE Config([n EXCEPT ![f.node] =
                     [n[f.node] EXCEPT !.state = "terminal",
                           !.pruned = @ \/ f.best.score < MinScore]],
                  s, e, NoCall, SubSeq(k, 1, Len(k) - 1))

AfterVisit(n, s, e, k, f) ==
  IF f.pc = "extracting" /\ f.queue # <<>>
  THEN Config(n, s, e,
              [content |-> Head(f.queue).content, parent |-> f.node,
               depth |-> n[f.node].depth + 1, meta |-> Head(f.queue).meta],
              [k EXCEPT ![Len(k)] = [f EXCEPT !.queue = Tail(@)]])
  ELSE Config(n, s, e, NoCall, SubSeq(k, 1, Len(k) - 1))

AfterLoop(n, s, e, k, f) ==
  IF f.pc = "analyzers" THEN AfterAnalyzers(n, s, e, k, f)
  ELSE IF f.pc = "decoders" THEN AfterDecoders(n, s, e, k, f)
  ELSE AfterVisit(n, s, e, k, f)

Following5(n, s, e, c, k) ==
  IF c # NoCall THEN AfterCall(n, s, e, c, k)
  ELSE AfterLoop(n, s, e, k, k[Len(k)])

\* The configuration after x, when nothing disturbs the run.
Successor(x) == Following5(x.nodes, x.seen, x.enabled, x.call, x.stack)

Closed(S) == \A x \in S : ~Ended(x) /\ Successor(x) \in Configuration
                            => Successor(x) \in S

\* y is one of the configurations that follow x.
Leads(x, y) ==
  \A S \in SUBSET Configuration : x \in S /\ Closed(S) => y \in S

RepeatInv ==
  /\ phase # "idle" /\ limitations = {} /\ upset = {} =>
       Leads(Origin(input), Now)
  /\ \A c \in Content : first[c] # <<>> =>
       \E f \in Configuration :
         Ended(f) /\ Leads(Origin(c), f) /\ f.nodes = first[c]
  /\ Repeatable
  /\ first \in [Content -> Seq(Node)]

LEMMA LeadsOn ==
  ASSUME NEW x \in Configuration, NEW y \in Configuration, Leads(x, y),
         ~Ended(y), Successor(y) \in Configuration
  PROVE  Leads(x, Successor(y))
BY DEF Leads, Closed

\* Only one ended configuration follows from a configuration.
LEMMA OneEnd ==
  ASSUME NEW o \in Configuration, NEW x \in Configuration, NEW f \in Configuration,
         Leads(o, x), Leads(o, f), Ended(x), Ended(f)
  PROVE  x = f
<1> DEFINE T == {y \in Configuration : Leads(y, f)}
<1>1. o \in T
  OBVIOUS
<1>2. ASSUME NEW y \in T, ~Ended(y), Successor(y) \in Configuration
      PROVE  Successor(y) \in T
  <2>1. ASSUME NEW S \in SUBSET Configuration, Successor(y) \in S, Closed(S)
        PROVE  f \in S
    <3>1. S \cup {y} \in SUBSET Configuration
      OBVIOUS
    <3>2. Closed(S \cup {y})
      BY <2>1 DEF Closed
    <3>3. f \in S \cup {y}
      BY <3>1, <3>2 DEF Leads
    <3> QED BY <3>3, <1>2
  <2> QED BY <2>1, <1>2 DEF Leads
<1>3. Closed(T)
  BY <1>2 DEF Closed
<1>4. x \in T
  BY <1>1, <1>3 DEF Leads
<1>5. Closed({x})
  BY DEF Closed
<1>6. {x} \in SUBSET Configuration
  OBVIOUS
<1>7. f \in {x}
  BY <1>4, <1>5, <1>6 DEF Leads
<1> QED BY <1>7

\* Names in a list differ, so the sorted order determines the next handler.
LEMMA OneNext ==
  ASSUME NEW H, H = Analyzers \/ H = Decoders, NEW T \in SUBSET H,
         NEW h \in T, IsNext(h, T)
  PROVE  Following(T) = h
<1>1. ASSUME NEW g, IsNext(g, T)
      PROVE  g = h
  <2>1. g \in T /\ Rank[g] <= Rank[h] /\ Rank[h] <= Rank[g]
    BY <1>1 DEF IsNext
  <2>2. Rank[g] \in Nat /\ Rank[h] \in Nat
    BY <2>1, EngineAssumption
  <2>3. Rank[g] = Rank[h]
    BY <2>1, <2>2
  <2> QED BY <2>1, <2>3, EngineAssumption
<1> QED BY <1>1 DEF Following

LEMMA NowType ==
  ASSUME TypeOK
  PROVE  Now \in Configuration
BY DEF TypeOK, Now, Config, Configuration
\* What an undisturbed prologue leaves.
LEMMA EntersNext ==
  ASSUME TypeOK, StackInv, Prologue, limitations' = {}, upset' = {}
  PROVE  ~Ended(Now) /\ Now' = Successor(Now)
<1>1. phase = "running" /\ call # NoCall
  BY DEF Prologue, EnterCancelled, EnterOverdue, EnterShortOfMemory,
     EnterEmpty, EnterTooDeep, EnterOverNodeCap, EnterDuplicate,
     EnterMetadata, EnterNode, Admitted, Pending
<1>2. ~Ended(Now)
  BY <1>1 DEF Ended, Now, Config
<1>3. Successor(Now) = AfterCall(nodes, seen, enabled, call, stack)
  BY <1>1 DEF Successor, Now, Config, Following5
<1>4. Now' = Config(nodes', seen', enabled', call', stack')
  BY DEF Now
<1>5. CASE \/ EnterCancelled \/ EnterOverdue \/ EnterTooDeep
           \/ EnterOverNodeCap \/ EnterShortOfMemory
  BY <1>5 DEF EnterCancelled, EnterOverdue, EnterTooDeep, EnterOverNodeCap,
     EnterShortOfMemory, Refuse
<1>6. CASE EnterEmpty
  BY <1>2, <1>3, <1>4, <1>6 DEF EnterEmpty, Refuse, AfterCall
<1>7. CASE EnterDuplicate
  BY <1>2, <1>3, <1>4, <1>7
     DEF EnterDuplicate, AddNode, Admitted, IsDuplicate, AfterCall, NodeOf
<1>8. CASE EnterMetadata
  BY <1>2, <1>3, <1>4, <1>8
     DEF EnterMetadata, AddNode, Admitted, IsDuplicate, AfterCall, NodeOf
<1>9. CASE EnterNode
  BY <1>2, <1>3, <1>4, <1>9
     DEF EnterNode, AddNode, Admitted, IsDuplicate, AfterCall, NodeOf
<1> QED BY <1>2, <1>5, <1>6, <1>7, <1>8, <1>9 DEF Prologue

\* What an undisturbed step of a loop leaves.
LEMMA LoopsNext ==
  ASSUME TypeOK, StackInv, Body, ~raising, limitations = {},
         limitations' = {}, upset = {}, upset' = {}
  PROVE  ~Ended(Now) /\ Now' = Successor(Now)
<1>1. CASE LoopCancelled \/ MatcherRaises \/ AnalyzerFails \/ DecoderFails
  BY <1>1 DEF LoopCancelled, MatcherRaises, AnalyzerFails, DecoderFails
<1>2. CASE Unwind
  BY <1>2 DEF Unwind
<1> SUFFICES ASSUME \/ SkipAnalyzer \/ Extracts \/ ExtractNext \/ Explored
                    \/ StartDecoders \/ ScoreDecoder \/ ApplyDecoder \/ Leaf
             PROVE  ~Ended(Now) /\ Now' = Successor(Now)
  BY <1>1, <1>2 DEF Body
<1>3. call = NoCall /\ stack # <<>>
  BY DEF SkipAnalyzer, Extracts, ExtractNext, Explored, StartDecoders,
     ScoreDecoder, ApplyDecoder, Leaf, At
<1>4. ~Ended(Now)
  BY <1>3 DEF Ended, Now, Config
<1>5. Successor(Now) = AfterLoop(nodes, seen, enabled, stack, Top)
  BY <1>3 DEF Successor, Now, Config, Following5, Top
<1>6. Now' = Config(nodes', seen', enabled', call', stack')
  BY DEF Now
<1>7. Tries(Top)
  BY <1>3, TopType
<1>8. CASE SkipAnalyzer
  <2>1. PICK a \in Top.todo :
         /\ IsNext(a, Top.todo) /\ Extract[a][Bytes] = <<>>
         /\ stack' = SetTop([Top EXCEPT !.todo = @ \ {a}])
    BY <1>8 DEF SkipAnalyzer
  <2>2. Following(Top.todo) = a
    BY <1>7, <1>8, <2>1, OneNext DEF Tries, SkipAnalyzer, At
  <2>3. Top.pc = "analyzers" /\ Top.todo # {}
    BY <1>8, <2>1 DEF SkipAnalyzer, At
  <2> QED BY <1>3, <1>4, <1>5, <1>6, <1>8, <2>1, <2>2, <2>3
          DEF SkipAnalyzer, Loop, AfterLoop, AfterAnalyzers, SetTop, Bytes,
              TopNode
<1>9. CASE Extracts
  <2>1. PICK a \in Top.todo :
         /\ IsNext(a, Top.todo) /\ Extract[a][Bytes] # <<>>
         /\ nodes' = SetNode([TopNode EXCEPT !.method = "EXTRACT",
                                !.state = "extracted", !.used = a])
         /\ stack' = SetTop([Top EXCEPT !.pc = "extracting", !.todo = @ \ {a},
                                        !.queue = Extract[a][Bytes]])
    BY <1>9 DEF Extracts
  <2>2. Following(Top.todo) = a
    BY <1>7, <1>9, <2>1, OneNext DEF Tries, Extracts, At
  <2>3. Top.pc = "analyzers" /\ Top.todo # {}
    BY <1>9, <2>1 DEF Extracts, At
  <2> QED BY <1>3, <1>4, <1>5, <1>6, <1>9, <2>1, <2>2, <2>3
          DEF Extracts, Loop, AfterLoop, AfterAnalyzers, SetTop, Bytes,
              TopNode, SetNode
<1>10. CASE StartDecoders
  BY <1>3, <1>4, <1>5, <1>6, <1>10
     DEF StartDecoders, At, Loop, AfterLoop, AfterAnalyzers, SetTop
<1>11. CASE ExtractNext
  BY <1>3, <1>4, <1>5, <1>6, <1>11
     DEF ExtractNext, At, Loop, AfterLoop, AfterVisit, SetTop, TopNode
<1>12. CASE Explored
  BY <1>3, <1>4, <1>5, <1>6, <1>12
     DEF Explored, At, Return, AfterLoop, AfterVisit, Pop
<1>13. CASE ScoreDecoder
  <2>1. PICK d \in Top.todo : LET r == Decode[d][Bytes] IN
         /\ IsNext(d, Top.todo)
         /\ stack' = SetTop([Top EXCEPT
              !.todo = @ \ {d},
              !.best = IF Better(r.score, @)
                       THEN [by |-> d, out |-> r.out, score |-> r.score]
                       ELSE @])
    BY <1>13 DEF ScoreDecoder
  <2>2. Following(Top.todo) = d
    BY <1>7, <1>13, <2>1, OneNext DEF Tries, ScoreDecoder, At
  <2>3. Top.pc = "decoders" /\ Top.todo # {}
    BY <1>13, <2>1 DEF ScoreDecoder, At
  <2> QED BY <1>3, <1>4, <1>5, <1>6, <1>13, <2>1, <2>2, <2>3
          DEF ScoreDecoder, Loop, AfterLoop, AfterDecoders, SetTop, Bytes,
              TopNode
<1>14. CASE ApplyDecoder
  BY <1>3, <1>4, <1>5, <1>6, <1>14
     DEF ApplyDecoder, At, Loop, AfterLoop, AfterDecoders, SetTop, TopNode,
         SetNode
<1>15. CASE Leaf
  BY <1>3, <1>4, <1>5, <1>6, <1>15
     DEF Leaf, At, Return, AfterLoop, AfterDecoders, Pop, TopNode, SetNode
<1> QED BY <1>8, <1>9, <1>10, <1>11, <1>12, <1>13, <1>14, <1>15

LEMMA RepeatInit == Init => RepeatInv
BY DEF Init, RepeatInv, Repeatable

LEMMA RepeatKeeps ==
  ASSUME EngineInv, RepeatInv, [Next]_vars, TypeOK'
  PROVE  RepeatInv'
<1>1. TypeOK /\ StackInv
  BY DEF EngineInv
<1>2. Now \in Configuration /\ Now' \in Configuration
  BY <1>1, NowType DEF TypeOK, Now, Config, Configuration
<1>3. CASE UNCHANGED vars
  BY <1>3 DEF RepeatInv, Repeatable, vars, engine, history, Now, Config
<1>4. CASE \/ Cancel \/ ClearCancel \/ DeadlinePasses \/ RunRaises
  BY <1>4 DEF Cancel, ClearCancel, DeadlinePasses, RunRaises, RepeatInv,
     Repeatable, engine, history, Now, Config
<1>5. ASSUME NEW c \in Content, Start(c)
      PROVE  RepeatInv'
  <2>1. Now' = Origin(input')
    BY <1>5 DEF Start, Now, Origin, ResetDecoders
  <2>2. Leads(Origin(input'), Now')
    BY <2>1 DEF Leads
  <2>3. phase' = "running" /\ UNCHANGED first
    BY <1>5 DEF Start
  <2> QED BY <2>2, <2>3 DEF RepeatInv, Repeatable
<1>6. CASE Prologue \/ Body
  <2>1. /\ phase = "running" /\ phase' = "running"
        /\ UNCHANGED <<first, input>>
    BY <1>6 DEF Prologue, EnterCancelled, EnterOverdue, EnterShortOfMemory,
       EnterEmpty, EnterTooDeep, EnterOverNodeCap, EnterDuplicate,
       EnterMetadata, EnterNode, Admitted, Pending, Refuse, AddNode, Body,
       LoopCancelled, MatcherRaises, SkipAnalyzer, AnalyzerFails, Extracts,
       ExtractNext, Explored, StartDecoders, ScoreDecoder, DecoderFails,
       ApplyDecoder, Leaf, Unwind, At, Loop, Return, history
  <2>2. limitations \subseteq limitations' /\ upset \subseteq upset'
    BY <1>6 DEF Prologue, EnterCancelled, EnterOverdue, EnterShortOfMemory,
       EnterEmpty, EnterTooDeep, EnterOverNodeCap, EnterDuplicate,
       EnterMetadata, EnterNode, Admitted, Pending, Refuse, AddNode, Body,
       LoopCancelled, MatcherRaises, SkipAnalyzer, AnalyzerFails, Extracts,
       ExtractNext, Explored, StartDecoders, ScoreDecoder, DecoderFails,
       ApplyDecoder, Leaf, Unwind, At, Loop, Return, history
  <2>3. ASSUME limitations' = {}, upset' = {}
        PROVE  Leads(Origin(input'), Now')
    <3>1. limitations = {} /\ upset = {}
      BY <2>2, <2>3
    <3>2. ~raising
      BY <3>1 DEF EngineInv, ProvenanceInv
    <3>3. ~Ended(Now) /\ Now' = Successor(Now)
      BY <1>1, <1>6, <2>3, <3>1, <3>2, EntersNext, LoopsNext
    <3>4. Origin(input) \in Configuration
      BY <1>1, EngineAssumption
         DEF TypeOK, Origin, Config, Configuration, Call
    <3>5. Leads(Origin(input), Now)
      BY <2>1, <3>1 DEF RepeatInv
    <3> QED BY <1>2, <2>1, <3>3, <3>4, <3>5, LeadsOn
  <2> QED BY <2>1, <2>3 DEF RepeatInv, Repeatable
<1>7. CASE Finish
  <2>1. /\ Now' = Now /\ Ended(Now) /\ UNCHANGED <<limitations, upset, input, nodes>>
        /\ phase = "running" /\ phase' = "done" /\ Now.nodes = nodes
    BY <1>7 DEF Finish, Now, Config, Ended
  <2>2. first \in [Content -> Seq(Node)] /\ input \in Content /\ nodes \in Seq(Node)
    BY <1>1 DEF RepeatInv, TypeOK
  <2>3. CASE limitations = {} /\ upset = {} /\ first[input] = <<>>
    <3>1. first' = [first EXCEPT ![input] = nodes]
      BY <1>7, <2>3 DEF Finish
    <3>2. first' \in [Content -> Seq(Node)]
      BY <2>2, <3>1
    <3>3. Leads(Origin(input), Now)
      BY <2>1, <2>3 DEF RepeatInv
    <3>4. ASSUME NEW c \in Content, first'[c] # <<>>
          PROVE  \E f \in Configuration :
                    Ended(f) /\ Leads(Origin(c), f) /\ f.nodes = first'[c]
      <4>1. CASE c = input
        BY <1>2, <2>1, <2>2, <3>1, <3>3, <4>1
      <4>2. CASE c # input
        BY <2>2, <3>1, <3>4, <4>2 DEF RepeatInv
      <4> QED BY <4>1, <4>2
    <3>5. Repeatable'
      BY <2>1, <2>2, <3>1 DEF Repeatable
    <3> QED BY <2>1, <3>2, <3>3, <3>4, <3>5 DEF RepeatInv
  <2>4. CASE ~(limitations = {} /\ upset = {} /\ first[input] = <<>>)
    <3>1. first' = first
      BY <1>7, <2>4 DEF Finish
    <3>2. limitations' = {} /\ upset' = {} => Leads(Origin(input'), Now')
      BY <2>1 DEF RepeatInv
    <3>3. ASSUME limitations = {}, upset = {}
          PROVE  nodes = first[input]
      <4>1. PICK f \in Configuration :
              Ended(f) /\ Leads(Origin(input), f) /\ f.nodes = first[input]
        BY <2>2, <2>4, <3>3 DEF RepeatInv
      <4>2. Origin(input) \in Configuration
        BY <1>1, EngineAssumption
           DEF TypeOK, Origin, Config, Configuration, Call
      <4>3. Leads(Origin(input), Now)
        BY <2>1, <3>3 DEF RepeatInv
      <4>4. Now = f
        BY <1>2, <2>1, <4>1, <4>2, <4>3, OneEnd
      <4> QED BY <2>1, <4>1, <4>4
    <3>4. Repeatable'
      BY <2>1, <3>1, <3>3 DEF Repeatable
    <3> QED BY <3>1, <3>2, <3>4 DEF RepeatInv
  <2> QED BY <2>3, <2>4
<1> QED BY <1>3, <1>4, <1>5, <1>6, <1>7 DEF Next, EngineStep

\* What one engine reports on an input does not depend on what it analysed
\* before: on one input any two undisturbed runs build equal trees
\* (_reset_optional_decoders, and the lists sorted by name).
THEOREM EngineRepeats == Spec => []Repeatable
<1>1. Init => RepeatInv
  BY RepeatInit
<1>2. EngineInv /\ EngineInv' /\ RepeatInv /\ [Next]_vars => RepeatInv'
  BY RepeatKeeps DEF EngineInv
<1>3. RepeatInv => Repeatable
  BY DEF RepeatInv
<1> QED BY <1>1, <1>2, <1>3, EngineInvariant, PTL DEF Spec
=============================================================================
