--------------------------- MODULE AnalysisEngine ---------------------------
(***************************************************************************)
(* The decode engine, titan_decoder/core/engine.py: TitanEngine.           *)
(*                                                                         *)
(* analyze_blob is a recursive function; its Python call stack is the      *)
(* variable stack, one frame per activation, and a call that has been made *)
(* but whose prologue has not run yet is the variable call.  Another       *)
(* thread may set the cancel event between any two steps, and the          *)
(* deadline may pass between any two steps.                                *)
(*                                                                         *)
(* Bytes are members of Content, and a SHA-256 digest is identified with   *)
(* the content it is the digest of.  What an analyzer extracts and what a  *)
(* decoder returns for each content are the constant tables Extract and    *)
(* Decode.  A node is named by its position in nodes (the code's id + 1),  *)
(* and 0 is the parent of a root.                                          *)
(***************************************************************************)
EXTENDS Integers, Sequences, FiniteSets

CONSTANTS
    Content,        \* byte strings
    Empty,          \* the empty byte string
    Opaque,         \* the contents _node_is_opaque is true of
    Analyzers,      \* the registered analyzers
    Decoders,       \* the decoders, the optional ones included
    Baseline,       \* the decoders enabled by the configuration
    Rank,           \* the position of a name in the sorted order
    Detects,        \* the optional decoders smart detection enables
    Extract,        \* Extract[a][c]: the artifacts of c, <<>> if a refuses c
    Decode,         \* Decode[d][c]: the output and its score, 0 if d refuses
                    \* or yields nothing (the depth penalty is left out)
    MinScore,       \* min_score_threshold
    MaxNodes,       \* max_node_count
    MaxDepth,       \* max_recursion_depth
    MaxRuns,        \* bound of the model: run_analysis calls on one engine
    Faults,         \* what can go wrong, a subset of FaultKinds
    None            \* no decoder

FaultKinds == {"deadline", "memory", "handler", "matcher"}

Artifact == [content : Content, meta : BOOLEAN]

ASSUME EngineAssumption ==
    /\ Empty \in Content
    /\ Opaque \subseteq Content
    /\ Baseline \subseteq Decoders
    /\ None \notin Analyzers \cup Decoders
    /\ Rank \in [Analyzers \cup Decoders -> Nat]
    /\ \A a, b \in Analyzers : Rank[a] = Rank[b] => a = b
    /\ \A d, e \in Decoders : Rank[d] = Rank[e] => d = e
    /\ Detects \in [Content -> SUBSET Decoders]
    /\ Extract \in [Analyzers -> [Content -> Seq(Artifact)]]
    /\ Decode \in [Decoders -> [Content -> [out : Content, score : Nat]]]
    /\ \A d \in Decoders, c \in Content :
         Decode[d][c].out = Empty => Decode[d][c].score = 0
    /\ MinScore \in Nat
    /\ MaxNodes \in Nat
    /\ MaxDepth \in Nat
    /\ MaxRuns \in Nat
    /\ Faults \subseteq FaultKinds

VARIABLES
    phase,          \* is a run_analysis call under way, and how the last ended
    input,          \* the bytes given to the current run_analysis call
    nodes,          \* self.nodes: the analysis tree
    seen,           \* self._seen_hashes
    limitations,    \* self._analysis_limitations
    enabled,        \* the decoders in self.decoders
    call,           \* the analyze_blob call about to run its prologue
    stack,          \* the activations of analyze_blob, innermost last
    raising,        \* an exception is unwinding the stack
    cancel,         \* self.cancel_event.is_set()
    overdue,        \* time.monotonic() is past the deadline
    runs,           \* run_analysis calls so far
    upset,          \* history: the faults this run met
    first           \* history: the tree of the first undisturbed run on an input

engine == <<phase, input, nodes, seen, limitations, enabled, call, stack,
            raising>>
history == <<upset, first>>
vars == <<engine, cancel, overdue, runs, history>>

States == {"pending", "duplicate", "terminal", "extracted", "decoded"}

Node == [parent : Nat, depth : Nat, content : Content, state : States,
         method : {"ANALYZE", "EXTRACT", "DECODE"},
         used : Analyzers \cup Decoders \cup {None},
         pruned : BOOLEAN, meta : BOOLEAN]

Call == [content : Content, parent : Nat, depth : Nat, meta : BOOLEAN]

NoCall == [content |-> Empty, parent |-> -1, depth |-> 0, meta |-> FALSE]

Best == [by : Decoders \cup {None}, out : Content, score : Nat]

NoBest == [by |-> None, out |-> Empty, score |-> 0]

\* A frame: the node, the loop it is in, the analyzers or decoders the loop
\* has not tried yet, the artifacts still to recurse into, the best decode.
Frame == [node : Nat, pc : {"analyzers", "extracting", "decoders", "decoding"},
          todo : SUBSET (Analyzers \cup Decoders),
          queue : Seq(Artifact), best : Best]

Init ==
    /\ phase = "idle" /\ input = Empty
    /\ nodes = <<>> /\ seen = {} /\ limitations = {}
    /\ enabled = Baseline
    /\ call = NoCall /\ stack = <<>> /\ raising = FALSE
    /\ cancel = FALSE /\ overdue = FALSE /\ runs = 0
    /\ upset = {}
    /\ first = [c \in Content |-> <<>>]

-----------------------------------------------------------------------------
(* run_analysis *)

\* Variant: the decoders smart detection enabled stay enabled.
ResetDecodersLeaks == enabled

\* Off-by-default decoders go back to their configured state.
ResetDecoders == Baseline

\* run_analysis up to its analyze_blob call.
Start(c) ==
    /\ phase # "running" /\ runs < MaxRuns
    /\ phase' = "running" /\ input' = c /\ runs' = runs + 1
    /\ nodes' = <<>> /\ seen' = {} /\ limitations' = {}
    /\ enabled' = ResetDecoders
    /\ call' = [content |-> c, parent |-> 0, depth |-> 0, meta |-> FALSE]
    /\ stack' = <<>> /\ raising' = FALSE /\ overdue' = FALSE
    /\ upset' = {}
    /\ UNCHANGED <<cancel, first>>

\* The outermost analyze_blob has returned: provenance, outcome and report.
Finish ==
    /\ phase = "running" /\ call = NoCall /\ stack = <<>> /\ ~raising
    /\ phase' = "done"
    /\ first' = IF limitations = {} /\ upset = {} /\ first[input] = <<>>
                THEN [first EXCEPT ![input] = nodes] ELSE first
    /\ UNCHANGED <<input, nodes, seen, limitations, enabled, call, stack,
                   raising, cancel, overdue, runs, upset>>

\* No frame of analyze_blob caught the exception: run_analysis raises.
RunRaises ==
    /\ phase = "running" /\ raising /\ stack = <<>>
    /\ phase' = "raised" /\ raising' = FALSE
    /\ UNCHANGED <<input, nodes, seen, limitations, enabled, call, stack,
                   cancel, overdue, runs, history>>

-----------------------------------------------------------------------------
(* The prologue of analyze_blob *)

Pending == phase = "running" /\ call # NoCall

\* The call returns before a node exists; limit is what it records, if any.
Refuse(limit) ==
    /\ call' = NoCall
    /\ limitations' = limitations \cup limit
    /\ UNCHANGED <<phase, input, nodes, seen, enabled, stack, raising,
                   cancel, overdue, runs, first>>

EnterCancelled ==
    /\ Pending /\ cancel
    /\ Refuse({"analysis_cancelled"}) /\ UNCHANGED upset

EnterOverdue ==
    /\ Pending /\ ~cancel /\ overdue
    /\ Refuse({"analysis_timeout_reached"}) /\ UNCHANGED upset

EnterShortOfMemory ==
    /\ Pending /\ ~cancel /\ ~overdue /\ "memory" \in Faults
    /\ Refuse({"memory_limit_reached"}) /\ upset' = upset \cup {"memory"}

EnterEmpty ==
    /\ Pending /\ ~cancel /\ ~overdue /\ call.content = Empty
    /\ Refuse({}) /\ UNCHANGED upset

WithinDepth == call.depth <= MaxDepth

\* Variant: off by one.
WithinNodesOneMore == Len(nodes) <= MaxNodes

WithinNodes == Len(nodes) < MaxNodes

\* Variant: the depth limit is not recorded as a limitation.
EnterTooDeepSilently ==
    /\ Pending /\ ~cancel /\ ~overdue /\ call.content # Empty /\ ~WithinDepth
    /\ Refuse({}) /\ UNCHANGED upset

EnterTooDeep ==
    /\ Pending /\ ~cancel /\ ~overdue /\ call.content # Empty /\ ~WithinDepth
    /\ Refuse({"depth_limit_reached"}) /\ UNCHANGED upset

EnterOverNodeCap ==
    /\ Pending /\ ~cancel /\ ~overdue /\ call.content # Empty
    /\ WithinDepth /\ ~WithinNodes
    /\ Refuse({"node_limit_reached"}) /\ UNCHANGED upset

Admitted ==
    /\ Pending /\ ~cancel /\ ~overdue /\ call.content # Empty
    /\ WithinDepth /\ WithinNodes

\* self.nodes.append(node).
AddNode(state, pruned) ==
    /\ nodes' = Append(nodes,
         [parent |-> call.parent, depth |-> call.depth,
          content |-> call.content, state |-> state, method |-> "ANALYZE",
          used |-> None, pruned |-> pruned, meta |-> call.meta])
    /\ call' = NoCall
    /\ UNCHANGED <<phase, input, limitations, raising, cancel, overdue, runs,
                   upset, first>>

\* The content hash is in the tree already: the node is kept and not explored.
IsDuplicate == call.content \in seen

EnterDuplicate ==
    /\ Admitted /\ IsDuplicate
    /\ AddNode("duplicate", TRUE)
    /\ UNCHANGED <<seen, enabled, stack>>

\* A summary an analyzer wrote: kept in the tree and not explored.
EnterMetadata ==
    /\ Admitted /\ ~IsDuplicate /\ call.meta
    /\ AddNode("terminal", FALSE)
    /\ seen' = seen \cup {call.content}
    /\ UNCHANGED <<enabled, stack>>

\* Variant: the content is not added to the seen hashes.
EnterNodeUnseen ==
    /\ Admitted /\ ~IsDuplicate /\ ~call.meta
    /\ AddNode("pending", FALSE)
    /\ enabled' = enabled \cup Detects[call.content]
    /\ stack' = Append(stack,
         [node |-> Len(nodes) + 1, pc |-> "analyzers", todo |-> Analyzers,
          queue |-> <<>>, best |-> NoBest])
    /\ UNCHANGED seen

EnterNode ==
    /\ Admitted /\ ~IsDuplicate /\ ~call.meta
    /\ AddNode("pending", FALSE)
    /\ seen' = seen \cup {call.content}
    /\ enabled' = enabled \cup Detects[call.content]
    /\ stack' = Append(stack,
         [node |-> Len(nodes) + 1, pc |-> "analyzers", todo |-> Analyzers,
          queue |-> <<>>, best |-> NoBest])

-----------------------------------------------------------------------------
(* The loops of analyze_blob *)

Top == stack[Len(stack)]

Pop == SubSeq(stack, 1, Len(stack) - 1)

SetTop(frame) == [stack EXCEPT ![Len(stack)] = frame]

TopNode == nodes[Top.node]

SetNode(node) == [nodes EXCEPT ![Top.node] = node]

\* The innermost activation executes, and is at pc.
At(pc) ==
    /\ phase = "running" /\ call = NoCall /\ ~raising /\ stack # <<>>
    /\ Top.pc = pc

\* x is the next one the loop tries: the lists are sorted by name.
IsNext(x, todo) == x \in todo /\ \A y \in todo : Rank[x] <= Rank[y]

Bytes == TopNode.content

Return ==
    /\ stack' = Pop
    /\ UNCHANGED <<phase, input, seen, enabled, call, cancel, overdue, runs,
                   first>>

\* A loop sees the cancel event before it tries the next analyzer or decoder.
LoopCancelled ==
    /\ At("analyzers") \/ At("decoders")
    /\ Top.todo # {} /\ cancel
    /\ limitations' = limitations \cup {"analysis_cancelled"}
    /\ Return
    /\ UNCHANGED <<nodes, raising, upset>>

\* can_analyze or can_decode raises, outside the handlers' try block.
MatcherRaises ==
    /\ At("analyzers") \/ At("decoders")
    /\ Top.todo # {} /\ ~cancel /\ "matcher" \in Faults
    /\ raising' = TRUE /\ upset' = upset \cup {"matcher"}
    /\ Return
    /\ UNCHANGED <<nodes, limitations>>

Loop == UNCHANGED <<phase, input, seen, limitations, enabled, raising,
                    cancel, overdue, runs, first>>

\* The analyzer refuses the bytes, or extracts nothing from them.
SkipAnalyzer ==
    /\ At("analyzers") /\ ~cancel
    /\ \E a \in Top.todo :
         /\ IsNext(a, Top.todo) /\ Extract[a][Bytes] = <<>>
         /\ stack' = SetTop([Top EXCEPT !.todo = @ \ {a}])
    /\ Loop /\ UNCHANGED <<nodes, call, upset>>

\* analyze raises, or its timeout does: logged, and the next one is tried.
AnalyzerFails ==
    /\ At("analyzers") /\ ~cancel /\ "handler" \in Faults
    /\ \E a \in Top.todo :
         /\ IsNext(a, Top.todo) /\ Extract[a][Bytes] # <<>>
         /\ stack' = SetTop([Top EXCEPT !.todo = @ \ {a}])
    /\ upset' = upset \cup {"handler"}
    /\ Loop /\ UNCHANGED <<nodes, call>>

Extracts ==
    /\ At("analyzers") /\ ~cancel
    /\ \E a \in Top.todo :
         /\ IsNext(a, Top.todo) /\ Extract[a][Bytes] # <<>>
         /\ nodes' = SetNode([TopNode EXCEPT !.method = "EXTRACT",
                                !.state = "extracted", !.used = a])
         /\ stack' = SetTop([Top EXCEPT !.pc = "extracting", !.todo = @ \ {a},
                                        !.queue = Extract[a][Bytes]])
    /\ Loop /\ UNCHANGED <<call, upset>>

\* Variant: the depth is counted down.
ExtractNextCountsDown ==
    /\ At("extracting") /\ Top.queue # <<>>
    /\ call' = [content |-> Head(Top.queue).content, parent |-> Top.node,
                depth |-> TopNode.depth - 1,
                meta |-> Head(Top.queue).meta]
    /\ stack' = SetTop([Top EXCEPT !.queue = Tail(@)])
    /\ Loop /\ UNCHANGED <<nodes, upset>>

\* The next artifact is passed to analyze_blob.
ExtractNext ==
    /\ At("extracting") /\ Top.queue # <<>>
    /\ call' = [content |-> Head(Top.queue).content, parent |-> Top.node,
                depth |-> TopNode.depth + 1,
                meta |-> Head(Top.queue).meta]
    /\ stack' = SetTop([Top EXCEPT !.queue = Tail(@)])
    /\ Loop /\ UNCHANGED <<nodes, upset>>

\* Variant: the return after a successful extraction is missing.
ExploredGoesOn ==
    /\ \/ At("extracting") /\ Top.queue = <<>>
       \/ At("decoding")
    /\ IF Top.pc = "extracting"
       THEN stack' = SetTop([Top EXCEPT !.pc = "analyzers"])
       ELSE stack' = Pop
    /\ UNCHANGED <<phase, input, seen, enabled, call, cancel, overdue, runs,
                   first, nodes, limitations, raising, upset>>

\* Variant: the bytes are analysed again after an extraction.
ExploredAgain ==
    /\ \/ At("extracting") /\ Top.queue = <<>>
       \/ At("decoding")
    /\ IF Top.pc = "extracting"
       THEN stack' = SetTop([Top EXCEPT !.pc = "analyzers", !.todo = Analyzers])
       ELSE stack' = Pop
    /\ UNCHANGED <<phase, input, seen, enabled, call, cancel, overdue, runs,
                   first, nodes, limitations, raising, upset>>

\* Every artifact has been visited, or the decoded bytes have.
Explored ==
    /\ \/ At("extracting") /\ Top.queue = <<>>
       \/ At("decoding")
    /\ Return
    /\ UNCHANGED <<nodes, limitations, raising, upset>>

\* No analyzer took the bytes: the decoders in the list now are scored.
StartDecoders ==
    /\ At("analyzers") /\ Top.todo = {}
    /\ stack' = SetTop([Top EXCEPT !.pc = "decoders", !.todo = enabled])
    /\ Loop /\ UNCHANGED <<nodes, call, upset>>

\* A tie keeps the earlier decoder.
Better(score, best) == score > best.score

\* Variant: the name is kept whatever the score.
ScoreDecoderNamesLast ==
    /\ At("decoders") /\ ~cancel
    /\ \E d \in Top.todo : LET r == Decode[d][Bytes] IN
         /\ IsNext(d, Top.todo)
         /\ stack' = SetTop([Top EXCEPT
              !.todo = @ \ {d},
              !.best = IF Better(r.score, @)
                       THEN [by |-> d, out |-> r.out, score |-> r.score]
                       ELSE [@ EXCEPT !.by = d]])
    /\ Loop /\ UNCHANGED <<nodes, call, upset>>

ScoreDecoder ==
    /\ At("decoders") /\ ~cancel
    /\ \E d \in Top.todo : LET r == Decode[d][Bytes] IN
         /\ IsNext(d, Top.todo)
         /\ stack' = SetTop([Top EXCEPT
              !.todo = @ \ {d},
              !.best = IF Better(r.score, @)
                       THEN [by |-> d, out |-> r.out, score |-> r.score]
                       ELSE @])
    /\ Loop /\ UNCHANGED <<nodes, call, upset>>

\* decode raises, or its timeout does: the next one is tried.
DecoderFails ==
    /\ At("decoders") /\ ~cancel /\ "handler" \in Faults
    /\ \E d \in Top.todo :
         /\ IsNext(d, Top.todo) /\ Decode[d][Bytes].score > 0
         /\ stack' = SetTop([Top EXCEPT !.todo = @ \ {d}])
    /\ upset' = upset \cup {"handler"}
    /\ Loop /\ UNCHANGED <<nodes, call>>

Chosen(best) == best.by # None /\ best.out # Empty /\ best.score >= MinScore

\* The best decode becomes the node's only child.
ApplyDecoder ==
    /\ At("decoders") /\ Top.todo = {} /\ Chosen(Top.best)
    /\ nodes' = SetNode([TopNode EXCEPT !.method = "DECODE",
                           !.state = "decoded", !.used = Top.best.by])
    /\ call' = [content |-> Top.best.out, parent |-> Top.node,
                depth |-> TopNode.depth + 1, meta |-> FALSE]
    /\ stack' = SetTop([Top EXCEPT !.pc = "decoding"])
    /\ Loop /\ UNCHANGED upset

\* Nothing took the bytes: a leaf.
Leaf ==
    /\ At("decoders") /\ Top.todo = {} /\ ~Chosen(Top.best)
    /\ nodes' = SetNode([TopNode EXCEPT !.state = "terminal",
                           !.pruned = @ \/ Top.best.score < MinScore])
    /\ Return
    /\ UNCHANGED <<limitations, raising, upset>>

\* The try block around analyze also surrounds the recursion into what it
\* extracted, so an exception from below is taken for a failure of the
\* analyzer.  The recursion into decoded bytes is outside any try block.
Unwind ==
    /\ phase = "running" /\ raising /\ stack # <<>>
    /\ IF Top.pc = "extracting"
       THEN /\ raising' = FALSE
            /\ stack' = SetTop([Top EXCEPT !.pc = "analyzers", !.queue = <<>>])
       ELSE /\ stack' = Pop /\ UNCHANGED raising
    /\ UNCHANGED <<phase, input, nodes, seen, limitations, enabled, call,
                   cancel, overdue, runs, history>>

-----------------------------------------------------------------------------
(* The other threads, and the clock *)

Cancel ==
    /\ phase = "running" /\ ~cancel /\ cancel' = TRUE
    /\ UNCHANGED <<engine, overdue, runs, history>>

\* The owner of the event clears it between runs.
ClearCancel ==
    /\ phase # "running" /\ cancel /\ cancel' = FALSE
    /\ UNCHANGED <<engine, overdue, runs, history>>

DeadlinePasses ==
    /\ phase = "running" /\ ~overdue /\ "deadline" \in Faults
    /\ overdue' = TRUE
    /\ UNCHANGED <<engine, cancel, runs, history>>

Prologue ==
    \/ EnterCancelled \/ EnterOverdue \/ EnterShortOfMemory \/ EnterEmpty
    \/ EnterTooDeep \/ EnterOverNodeCap
    \/ EnterDuplicate \/ EnterMetadata \/ EnterNode

Body ==
    \/ LoopCancelled \/ MatcherRaises
    \/ SkipAnalyzer \/ AnalyzerFails \/ Extracts \/ ExtractNext \/ Explored
    \/ StartDecoders \/ ScoreDecoder \/ DecoderFails \/ ApplyDecoder \/ Leaf
    \/ Unwind

\* The steps of the thread that runs the engine.
EngineStep == Prologue \/ Body \/ Finish \/ RunRaises

Next ==
    \/ \E c \in Content : Start(c)
    \/ EngineStep
    \/ Cancel \/ ClearCancel \/ DeadlinePasses

\* The thread inside run_analysis keeps running.
Spec == Init /\ [][Next]_vars /\ WF_vars(EngineStep)

-----------------------------------------------------------------------------
(* What the report says *)

Ids == DOMAIN nodes

\* _finalize_provenance: the parent's decoder_used when the run has ended.
ProducedBy(n) == nodes[nodes[n].parent].used

\* What handler h of the given kind yields on the bytes c.
Yield(method, h, c) ==
    CASE method = "EXTRACT" -> {Extract[h][c][k].content :
                                  k \in DOMAIN Extract[h][c]}
      [] method = "DECODE"  -> {Decode[h][c].out}
      [] OTHER              -> {}

Leaves == {n \in Ids : \A m \in Ids : nodes[m].parent # n}

OpaqueLeaves == {n \in Leaves : /\ nodes[n].state \in {"terminal", "duplicate"}
                                /\ nodes[n].content \in Opaque}

Transformed == {n \in Ids : nodes[n].state \in {"decoded", "extracted"}}

\* _build_analysis_outcome
Status ==
    CASE input = Empty -> "empty_input"
      [] input # Empty /\ limitations # {} -> "limited"
      [] OTHER ->
           IF OpaqueLeaves # {}
           THEN IF Transformed # {} THEN "partial_decode" ELSE "unrecognized"
           ELSE IF Transformed # {} THEN "decoded" ELSE "analyzed"

Complete == Status \in {"decoded", "analyzed"}

-----------------------------------------------------------------------------
(* Properties *)

TypeOK ==
    /\ phase \in {"idle", "running", "done", "raised"}
    /\ input \in Content
    /\ nodes \in Seq(Node)
    /\ seen \subseteq Content
    /\ limitations \subseteq {"analysis_cancelled", "analysis_timeout_reached",
         "memory_limit_reached", "depth_limit_reached", "node_limit_reached"}
    /\ enabled \subseteq Decoders
    /\ call \in Call \cup {NoCall}
    /\ stack \in Seq(Frame)
    /\ raising \in BOOLEAN /\ cancel \in BOOLEAN /\ overdue \in BOOLEAN
    /\ runs \in 0 .. MaxRuns
    /\ upset \subseteq FaultKinds

\* The hard limits bound every tree, whatever fails or is cancelled on the
\* way: no more nodes than max_node_count, none below max_recursion_depth,
\* and never a deeper Python stack than that (engine.py analyze_blob).
Bounded ==
    /\ Len(nodes) <= MaxNodes
    /\ \A n \in Ids : nodes[n].depth <= MaxDepth
    /\ Len(stack) <= MaxDepth + 1

\* Content hashes prevent the same bytes from being explored twice
\* (docs/PIPELINES.md): of the nodes with one content only one is not marked
\* a duplicate, it came first, and nothing hangs below a duplicate.
ExploredOnce ==
    \A n \in Ids :
      /\ \A m \in Ids : nodes[m].content = nodes[n].content /\ m # n
                        => "duplicate" \in {nodes[m].state, nodes[n].state}
      /\ nodes[n].state = "duplicate" =>
           /\ \E m \in 1 .. n - 1 : /\ nodes[m].content = nodes[n].content
                                    /\ nodes[m].state # "duplicate"
           /\ n \in Leaves

\* Every artifact can be retraced to the root: a node has an earlier parent
\* one level up, and what the report names as its producer, run on the
\* parent's bytes, yields the node's bytes (_finalize_provenance).
RetraceableNode(n) ==
    IF nodes[n].parent = 0 THEN n = 1 /\ nodes[n].depth = 0
    ELSE LET p == nodes[nodes[n].parent] IN
           /\ nodes[n].parent < n /\ nodes[n].depth = p.depth + 1
           /\ nodes[n].content \in Yield(p.method, ProducedBy(n), p.content)

Retraceable == \A n \in Ids : RetraceableNode(n)

\* Without an exception from can_analyze or can_decode provenance is right at
\* every moment of the run.
RetraceableUnlessMatcherRaises == "matcher" \notin upset => Retraceable

\* An outcome that is called complete hides nothing: no node was left
\* unclassified, every artifact and every decode that was accepted is in the
\* tree, and a leaf is one because no enabled handler takes its bytes.
CompleteMeansExplored ==
    phase = "done" /\ Complete /\ "matcher" \notin upset =>
      \A n \in Ids : LET c == nodes[n].content IN
        /\ nodes[n].state # "pending"
        /\ nodes[n].state \in {"extracted", "decoded"} =>
             \A out \in Yield(nodes[n].method, nodes[n].used, c) \ {Empty} :
               \E m \in Ids : nodes[m].parent = n /\ nodes[m].content = out
        /\ nodes[n].state = "terminal" /\ ~nodes[n].meta /\ upset = {} =>
             /\ \A a \in Analyzers : Extract[a][c] = <<>>
             /\ \A d \in Baseline \cup Detects[c] :
                  Decode[d][c].score < MinScore \/ Decode[d][c].score = 0

\* What one engine reports on an input does not depend on what it analysed
\* before (_reset_optional_decoders): two undisturbed runs build equal trees.
Repeatable ==
    phase = "done" /\ limitations = {} /\ upset = {} =>
      nodes = first[input]

\* A node that has been classified is not classified again: the engine does
\* not go on trying handlers on bytes one of them has taken.
NeverReclassified ==
    [][phase = "running" /\ phase' = "running" /\ "matcher" \notin upset' =>
         \A n \in Ids : nodes[n].state # "pending" => nodes'[n] = nodes[n]]_vars

\* However it is fed, run_analysis returns or raises.
RunsEnd == phase = "running" ~> phase # "running"

=============================================================================
