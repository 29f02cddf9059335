----------------------------- MODULE Assistant -----------------------------
(***************************************************************************)
(* The analyst assistant (titan_decoder/analyst): a ledger of citable      *)
(* facts over finished reports, the routing of a question, the evidence    *)
(* chosen for it, the answer made from that evidence, and the answer of a  *)
(* local model, which is shown only when its citations pass.               *)
(***************************************************************************)
EXTENDS Naturals, Sequences, FiniteSets, SequencesExt, FiniteSetsExt

CONSTANTS
    Dossiers,           \* sequences of reports, each a sequence of facts
    Asked,              \* questions, each the set of its words
    ModelTexts,         \* what a local model may say: sequences of lines
    MaxLedger,          \* MAX_EVIDENCE_ITEMS
    MaxEvidence,        \* max_evidence_items
    MaxContext,         \* max_context_chars
    MaxAnswerLines      \* MAX_ANSWER_LINES

LedgerKinds == <<"attack", "attribution_hint", "detection", "intelligence", "ioc",
                 "node", "relationship", "risk", "signal">>

\* A fact of a report: its natural name, the words of its text, the length of
\* its JSON, the depth of a node, and whether it is a recommendation.
Fact == [kind : ToSet(LedgerKinds), name : STRING, words : SUBSET STRING,
         size : Nat, depth : Nat, advises : BOOLEAN]

\* A line of an answer: what it is, and the facts it cites.
AnswerLine == [says : {"heading", "fact", "advice", "inference"},
               cites : SUBSET (ToSet(LedgerKinds) \X Nat \X STRING)]

\* A model that says nothing has failed.
ASSUME AssistantAssumption ==
    /\ \A reports \in Dossiers : reports \in Seq(Seq(Fact))
    /\ \A text \in ModelTexts : text \in Seq(AnswerLine) /\ text # <<>>
    /\ MaxLedger \in Nat /\ MaxContext \in Nat
    /\ MaxEvidence \in Nat \ {0} /\ MaxAnswerLines \in Nat \ {0}

VARIABLE desk           \* [reports, local, pc, words, chosen, offered, reply]

-----------------------------------------------------------------------------
(* The ledger *)

\* Variant: natural names collide.
ScopedShort(reports, r, fact) == <<fact.kind, 0, fact.name>>

\* An indicator is named by its content, so the same one in two reports is
\* cited alike; every other name has its report's number when there are several.
Scoped(reports, r, fact) ==
    <<fact.kind, IF fact.kind = "ioc" \/ Len(reports) = 1 THEN 0 ELSE r, fact.name>>

KindRank(kind) == CHOOSE k \in DOMAIN LedgerKinds : LedgerKinds[k] = kind
LedgerOrder(a, b) ==
    \/ KindRank(a.fact.kind) < KindRank(b.fact.kind)
    \/ a.fact.kind = b.fact.kind /\ (a.report < b.report \/ (a.report = b.report /\ a.at < b.at))

FirstFew(s, n) == IF Len(s) <= n THEN s ELSE SubSeq(s, 1, n)

\* The members of s that are in S, in their order.
Kept(s, S) == FoldLeft(LAMBDA kept, x : IF x \in S THEN Append(kept, x) ELSE kept, <<>>, s)

\* sorted, by the pairs whose first comes before; equals stay as they came.
Slot(sorted, x, before) == 1 + Cardinality({k \in DOMAIN sorted : <<x, sorted[k]>> \notin before})
SortedBy(s, before) ==
    FoldLeft(LAMBDA sorted, x : InsertAt(sorted, Slot(sorted, x, before), x), <<>>, s)

LedgerItem(reports, r, k) ==
    [id |-> Scoped(reports, r, reports[r][k]), fact |-> reports[r][k], report |-> r, at |-> k]
AllItems(reports) ==
    FoldLeft(LAMBDA all, r : all \o [k \in DOMAIN reports[r] |-> LedgerItem(reports, r, k)], <<>>,
             [r \in DOMAIN reports |-> r])

\* EvidenceIndex.from_reports
Ledger(reports) ==
    LET all == AllItems(reports)
        before == {p \in ToSet(all) \X ToSet(all) : LedgerOrder(p[1], p[2])}
    IN  FirstFew(SortedBy(all, before), MaxLedger)

IdsOf(items) == {items[k].id : k \in DOMAIN items}

-----------------------------------------------------------------------------
(* A question: the first route all of whose conditions it meets *)

Routing ==
    <<[intent |-> "explain_risk", asks |-> {{"why"}, {"risk", "high"}}],
      [intent |-> "powershell_stages", asks |-> {{"powershell", "pwsh"}}],
      [intent |-> "decode_chain", asks |-> {{"decoding"}}],
      [intent |-> "ioc_detection", asks |-> {{"ioc"}, {"detection", "caused", "trigger"}}],
      [intent |-> "mitre", asks |-> {{"mitre", "attack"}, {"mitre", "technique"}}],
      [intent |-> "summary", asks |-> {{"summarize", "overview"}}],
      [intent |-> "compare", asks |-> {{"compare", "previous"}}],
      [intent |-> "next_steps", asks |-> {{"next", "recommend"}}],
      [intent |-> "general", asks |-> {}]>>

IntentOf(words) ==
    LET met == {k \in DOMAIN Routing : \A some \in Routing[k].asks : some \cap words # {}}
    IN  Routing[Min(met)].intent

KindsFor ==
    [explain_risk |-> {"risk", "intelligence", "signal", "detection"},
     powershell_stages |-> {"node", "detection", "attack"}, decode_chain |-> {"node"},
     ioc_detection |-> {"ioc", "detection", "signal"},
     mitre |-> {"attack", "detection", "signal"},
     summary |-> {"risk", "intelligence", "signal", "detection", "ioc", "attack", "node"},
     compare |-> {"relationship", "attribution_hint", "ioc", "node", "attack"},
     next_steps |-> {"intelligence", "signal", "detection", "ioc", "attack"},
     general |-> ToSet(LedgerKinds)]

Terms(words) == IF IntentOf(words) = "powershell_stages" THEN {"powershell", "pwsh"} ELSE words

\* EvidenceIndex.select: of the kinds, those with a term, the most terms first.
Hits(item, terms) == Cardinality(terms \cap item.fact.words)
MoreHits(a, b, terms) ==
    Hits(a, terms) > Hits(b, terms) \/ (Hits(a, terms) = Hits(b, terms) /\ LedgerOrder(a, b))
Select(ledger, kinds, terms) ==
    LET meant == {item \in ToSet(ledger) : /\ item.fact.kind \in kinds
                                           /\ terms = {} \/ Hits(item, terms) > 0}
        before == {p \in meant \X meant : MoreHits(p[1], p[2], terms)}
    IN  FirstFew(SortedBy(Kept(ledger, meant), before), MaxEvidence)

\* A question whose words are nowhere gets the facts of its kinds.
ChosenFor(ledger, words) ==
    LET kinds == KindsFor[IntentOf(words)]
        found == Select(ledger, kinds, Terms(words))
    IN  IF found = <<>> /\ Terms(words) # {} THEN Select(ledger, kinds, {}) ELSE found

-----------------------------------------------------------------------------
(* The answer made from the evidence: lines, and what each cites *)

Says(kind, cites) == [says |-> kind, cites |-> cites]
Heading == Says("heading", {})
Cite(items) == [k \in DOMAIN items |-> Says("fact", {items[k].id})]
OfKind(items, kind) == Kept(items, {i \in ToSet(items) : i.fact.kind = kind})
Groups(items, kinds, most) ==
    FoldLeft(LAMBDA lines, kind : lines \o FirstFew(Cite(OfKind(items, kind)), most), <<>>, kinds)
Shallower(a, b) ==
    a.fact.depth < b.fact.depth \/ (a.fact.depth = b.fact.depth /\ LedgerOrder(a, b))
ByDepth(items) ==
    SortedBy(items, {p \in ToSet(items) \X ToSet(items) : Shallower(p[1], p[2])})

NextSteps(items) ==
    LET advice == Cite(Kept(OfKind(items, "intelligence"), {i \in ToSet(items) : i.fact.advises}))
    IN  IF advice # <<>> THEN advice
        ELSE <<Says("advice", {})>> \o Groups(items, <<"detection", "ioc", "node">>, 4)

AnswerBody(intent, items) ==
    CASE intent = "explain_risk" -> Groups(items, <<"risk", "intelligence", "signal", "detection">>, 8)
      [] intent = "powershell_stages" -> Cite(OfKind(items, "node"))
      [] intent = "decode_chain" -> Cite(ByDepth(OfKind(items, "node")))
      [] intent = "ioc_detection" -> Groups(items, <<"ioc", "detection", "signal">>, 12)
      [] intent = "mitre" -> IF OfKind(items, "attack") # <<>> THEN Cite(OfKind(items, "attack"))
                             ELSE Groups(items, <<"detection">>, 10)
      [] intent = "compare" ->
           Groups(items, <<"relationship", "attribution_hint", "ioc", "attack", "node">>, 10)
      [] intent = "next_steps" -> NextSteps(items)
      [] OTHER -> Groups(items, <<"risk", "intelligence", "signal", "detection", "ioc", "attack">>, 8)

\* deterministic_answer
DeterministicAnswer(intent, items) ==
    IF items = <<>> THEN <<Heading>>
    ELSE FirstFew(<<Heading>> \o AnswerBody(intent, items), MaxAnswerLines)

-----------------------------------------------------------------------------
(* A model's answer *)

\* validate_answer: citations resolve, and bullets that claim something cite.
CitedIn(text) == UNION {line.cites : line \in ToSet(text)}
Invalid(text, ledger) == CitedIn(text) \ IdsOf(ledger)
Uncited(text) == {k \in DOMAIN text : text[k].says \in {"fact", "advice"} /\ text[k].cites = {}}
Valid(text, ledger) == Invalid(text, ledger) = {} /\ Uncited(text) = {}

\* _bounded_context: whole items, from the end, until the rest fits.
ContextLength(items) == FoldLeft(LAMBDA n, item : n + item.fact.size, 0, items)
Bounded_(items) ==
    LET fits == {n \in 0 .. Len(items) : n = 0 \/ ContextLength(SubSeq(items, 1, n)) <= MaxContext}
    IN  SubSeq(items, 1, Max(fits))

NoReply == [answer |-> <<>>, ids |-> {}, fallback |-> TRUE, errors |-> {}, from |-> "none"]
NewDesk(reports, local) ==
    [reports |-> reports, local |-> local, pc |-> "idle", words |-> {}, chosen |-> <<>>,
     offered |-> <<>>, reply |-> NoReply]

AssistantInit ==
    \E reports \in Dossiers, local \in BOOLEAN : desk = NewDesk(reports, local)

Reply(answer, ids, fallback, errors, from) ==
    [answer |-> answer, ids |-> ids, fallback |-> fallback, errors |-> errors, from |-> from]

FallBack(state, ids, errors, from) ==
    Reply(DeterministicAnswer(IntentOf(state.words), state.chosen), ids, TRUE, errors, from)

\* AnalystEngine.ask up to the model, and all of it when there is none.
Ask ==
    /\ desk.pc \in {"idle", "answered"}
    /\ \E words \in Asked :
         LET chosen == ChosenFor(Ledger(desk.reports), words)
             asked == [desk EXCEPT !.words = words, !.chosen = chosen, !.offered = <<>>]
         IN  desk' = IF desk.local
                     THEN [asked EXCEPT !.pc = "model", !.offered = Bounded_(chosen)]
                     ELSE [asked EXCEPT !.pc = "answered",
                             !.reply = FallBack(asked, IdsOf(chosen), {}, "deterministic")]

\* The endpoint is gone, too slow, or says too much or nothing.
BackendFails ==
    /\ desk.pc = "model"
    /\ desk' = [desk EXCEPT !.pc = "answered",
                  !.reply = FallBack(desk, IdsOf(desk.offered), {"backend error"}, "deterministic")]

\* Whatever a model says: the facts it was shown, others, or none.
ModelAnswers ==
    /\ desk.pc = "model"
    /\ \E text \in ModelTexts :
         LET ledger == Ledger(desk.reports)
             errors == (IF Invalid(text, ledger) # {} THEN {"invalid citations"} ELSE {})
                       \cup (IF Uncited(text) # {} THEN {"uncited factual bullets"} ELSE {})
         IN  desk' = [desk EXCEPT !.pc = "answered",
                        !.reply = IF Valid(text, ledger)
                                  THEN Reply(text, CitedIn(text), FALSE, {}, "local-openai")
                                  ELSE FallBack(desk, IdsOf(desk.offered), errors, "local-openai")]

AssistantNext == Ask \/ BackendFails \/ ModelAnswers

AssistantSpec == AssistantInit /\ [][AssistantNext]_desk

-----------------------------------------------------------------------------
(* Properties *)

Trimmed == Len(desk.offered) < Len(desk.chosen)

\* What an analyst may rely on in an answer.  Every fact of it is cited, and
\* every citation is in the ledger and, unless it is of an indicator that
\* several reports share, of one report.  Without a model, and whenever the
\* model fails or is refused, the answer cites only the evidence that was
\* chosen for the question, and the reply lists it unless the context was
\* cut; there are facts of the kinds asked for only if some were chosen.  An
\* answer of a model that is refused says why.  What a model is sent is
\* within the bound.
AnswersGrounded ==
    LET ledger == Ledger(desk.reports)
        cited == CitedIn(desk.reply.answer)
    IN  /\ desk.pc = "answered" =>
             /\ \A line \in ToSet(desk.reply.answer) : line.says = "fact" => line.cites # {}
             /\ cited \subseteq IdsOf(ledger)
             /\ \A a, b \in ToSet(ledger) :
                  a.id = b.id /\ a.id \in cited /\ a.fact.kind # "ioc" => a.report = b.report
             /\ desk.reply.fallback => cited \subseteq IdsOf(desk.chosen)
             /\ cited \subseteq desk.reply.ids \/ (desk.reply.fallback /\ desk.local /\ Trimmed)
             /\ desk.chosen = <<>> =>
                  \A item \in ToSet(ledger) : item.fact.kind \notin KindsFor[IntentOf(desk.words)]
             /\ desk.reply.errors # {} <=> desk.reply.fallback /\ desk.local
             /\ desk.reply.answer # <<>>
        /\ ContextLength(desk.offered) <= MaxContext
=============================================================================
