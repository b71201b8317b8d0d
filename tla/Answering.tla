----------------------------- MODULE Answering ------------------------------
(***************************************************************************)
(* qa/service.py: what QAService.answer makes of a question, and what its  *)
(* requester sees later of the sources.  A fact is a record [relation,     *)
(* subject, stype, predicate, object, otype, source].  Of a text matter    *)
(* only the explanations it gives of terms: a set of records [term, as,    *)
(* whole, form], where as is the set of names the explanation holds, whole *)
(* the name that term and explanation spell together, and form what the    *)
(* patterns of the code see of it: a "guess" is a word of at most six      *)
(* characters with at most forty letters in brackets, a "plain" one any    *)
(* other bracket of up to sixty characters, or an equation, and a "long"   *)
(* one neither.                                                            *)
(***************************************************************************)
EXTENDS ModelServices

\* RAGQueryPlan: evidence, facts, hops, facts of the evidence.  (Whether the
\* question's entities anchor the search is left to what is found.)
Plan(mode) ==
    LET plan(evidence, knowledge, hops, links) ==
            [evidence |-> evidence, knowledge |-> knowledge, hops |-> hops,
             links |-> links]
    IN  CASE mode = "local"  -> plan(FALSE, TRUE, 1, FALSE)
          [] mode = "global" -> plan(FALSE, TRUE, 2, FALSE)
          [] mode = "hybrid" -> plan(TRUE, TRUE, 2, FALSE)
          [] mode = "naive"  -> plan(TRUE, FALSE, 0, FALSE)
          [] mode = "mix"    -> plan(TRUE, TRUE, 1, TRUE)
          [] mode = "bypass" -> plan(FALSE, FALSE, 0, FALSE)

-----------------------------------------------------------------------------
(* Facts.                                                                  *)

Scopes == {{"job"}, {"boss", "boss_variant"}}

InScope(fact, types) ==
    {e \in {fact.subject} : fact.stype \in types}
        \cup {e \in {fact.object} : fact.otype \in types}

\* Later rows of a relation replace earlier ones, in their place.
ByRelation(facts) ==
    LET put(kept, fact) ==
            IF \E i \in DOMAIN kept : kept[i].relation = fact.relation
            THEN [i \in DOMAIN kept |->
                    IF kept[i].relation = fact.relation THEN fact ELSE kept[i]]
            ELSE Append(kept, fact)
    IN  FoldLeft(put, <<>>, facts)

\* Facts of the evidence about other jobs or bosses than the question names
\* are left out.
MergeScoped(queryFacts, evidenceFacts) ==
    LET named(types) ==
            UNION {InScope(queryFacts[i], types) : i \in DOMAIN queryFacts}
        fits(fact) == \A types \in Scopes :
            \/ named(types) = {}
            \/ InScope(fact, types) = {}
            \/ InScope(fact, types) \cap named(types) # {}
        keep(kept, fact) == IF fits(fact) THEN Append(kept, fact) ELSE kept
    IN  ByRelation(queryFacts \o FoldLeft(keep, <<>>, evidenceFacts))

-----------------------------------------------------------------------------
(* Explanations of terms.                                                  *)

Abbreviations(facts) == {f \in facts : f.predicate = "abbreviation_of"}

\* An explanation of an unregistered term is supported by an entity of that
\* very name or by relations to each of the names it gives.
Supported(x, facts) ==
    \/ x.whole \in {f.subject : f \in facts} \cup {f.object : f \in facts}
    \/ x.as \subseteq {f.object : f \in {g \in facts : /\ g.subject = x.term
            /\ g.predicate \in {"is_a", "part_of", "variant_of", "has_difficulty"}}}

Unverified == "unverified" \* a violation for which no name is expected

\* canonical_expansion_violations.  What expansion_candidates finds is held
\* against every registered name of its term, so an abbreviation of two
\* things cannot be explained at all; of other terms only a guess in brackets
\* (_PARENTHETICAL_TERM_EXPANSION) is looked at.
Violations(text, facts) ==
    {[explanation |-> p[1], expected |-> p[2].object] : p \in
        {q \in text \X Abbreviations(facts) :
            /\ q[1].term = q[2].subject /\ q[1].form \in {"guess", "plain"}
            /\ q[2].object \notin q[1].as}}
    \cup
    {[explanation |-> x, expected |-> Unverified] : x \in
        {y \in text : /\ y.form = "guess"
                      /\ y.term \notin {f.subject : f \in Abbreviations(facts)}
                      /\ ~Supported(y, facts)}}

\* remove_unverified_parenthetical_expansions.
Cleaned(text, facts) ==
    text \ {v.explanation : v \in
        {w \in Violations(text, facts) : w.expected = Unverified}}

\* Mutant: what is left after the cleaning is not looked at again.
CheckedOnce(text, facts, fallback) ==
    [mode |-> "generated", text |-> Cleaned(text, facts)]

Checked(text, facts, fallback) ==
    IF Violations(Cleaned(text, facts), facts) = {}
    THEN [mode |-> "generated", text |-> Cleaned(text, facts)]
    ELSE fallback

\* The model is asked, and asked once more to repair a text with violations.
\* calls[k] holds the server's answers to the attempts of the k-th call; an
\* "ok" answer has a text.
Grounded(facts, calls) ==
    LET fallback == [mode |-> "retrieval_only", text |-> {}]
        first == Generate(calls[1])
        second == Generate(calls[2])
    IN  CASE first.kind # "ok" -> fallback
          [] first.kind = "ok" /\ Violations(first.text, facts) = {} ->
                Checked(first.text, facts, fallback)
          [] OTHER -> IF second.kind # "ok"
                      THEN fallback
                      ELSE Checked(second.text, facts, fallback)

-----------------------------------------------------------------------------
(* Answers.                                                                *)

Sufficient(evidence, facts) == evidence # <<>> \/ facts # <<>>

\* QAService.answer for a message not answered before.  found: the claim
\* bearing evidence of the retrieval; factsOf[h]: the facts of the question
\* within h hops; linked: those of the evidence.
Answer(mode, found, factsOf, linked, calls) ==
    LET plan == Plan(mode)
        evidence == IF plan.evidence THEN found ELSE <<>>
        links == IF plan.links /\ evidence # <<>> THEN linked ELSE <<>>
        facts == IF plan.knowledge THEN MergeScoped(factsOf[plan.hops], links)
                                   ELSE <<>>
        outcome ==
            CASE mode = "bypass" ->
                    [mode |-> "direct", text |->
                        LET reply == Generate(calls[1])
                        IN  IF reply.kind = "ok" THEN reply.text ELSE {}]
              [] mode # "bypass" /\ ~Sufficient(evidence, facts) ->
                    [mode |-> "insufficient_evidence", text |-> {}]
              [] OTHER -> Grounded(ToSet(facts), calls)
    IN  [mode |-> outcome.mode, text |-> outcome.text, evidence |-> evidence,
         facts |-> facts]

\* load_answer_sources for the requester of an answer that has not expired:
\* one view per piece of evidence, then one per source of a fact, from the
\* first of its facts.  withdrawn: the chunks, relations and sources switched
\* off since.
SourceViews(answer, withdrawn) ==
    LET evidence == [i \in DOMAIN answer.evidence |->
            [rank |-> i, of |-> answer.evidence[i],
             link |-> answer.evidence[i] \notin withdrawn.chunks]]
        add(views, fact) ==
            IF \E i \in DOMAIN views : views[i].of = fact.source
            THEN views
            ELSE Append(views,
                    [rank |-> Len(views) + 1, of |-> fact.source,
                     link |-> /\ fact.relation \notin withdrawn.relations
                              /\ fact.source \notin withdrawn.sources])
    IN  FoldLeft(add, evidence, answer.facts)

=============================================================================
