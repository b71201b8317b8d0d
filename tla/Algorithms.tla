----------------------------- MODULE Algorithms -----------------------------
(***************************************************************************)
(* The pure steps on the way of a text into the index and of a question to *)
(* its answer, each called with every input of a small set and compared    *)
(* with what it should compute: rank and trim evidence (Retrieval), link a *)
(* question to facts (KnowledgeGraph), answer from both (Answering), cut   *)
(* and embed a text (Chunking, ModelServices), admit messages and split    *)
(* replies (ChatFront).                                                    *)
(***************************************************************************)
EXTENDS Retrieval, Answering, ChatFront, Chunking

CONSTANT MaxRelations  \* relations a search of two hops selects at most

ASSUME SearchAssumption == MaxRelations \in Nat \ {0}

VARIABLE call  \* the step being computed: its inputs and its outcome

\* What is computed next.
Due(algorithm) == [step |-> "due", algorithm |-> algorithm]
Requests == {Due(a) : a \in {"search", "link", "ask", "index", "admit", "reply"}}
Init == call \in Requests
Return == call \notin Requests /\ call' \in Requests

SumOf(numbers) == LET add(a, b) == a + b IN FoldLeft(add, 0, numbers)

UpTo(S, n) == UNION {[1..k -> S] : k \in 0..n}

-----------------------------------------------------------------------------
(* Search.                                                                 *)

\* A branch of the thread, one whose parent is unknown, a chunk of the
\* article itself with a good title, a question, and what is out of scope.
Branch == [source |-> "comment", role |-> "answer_with_question_context",
           article |-> "thread", inScope |-> TRUE, boost |-> 0, title |-> 0]
Orphan == [Branch EXCEPT !.source = "orphan", !.article = NoArticle]
Post == [Branch EXCEPT !.source = "article", !.role = "community_post",
                       !.boost = 70, !.title = 1]
Question == [Branch EXCEPT !.source = "question", !.role = "question_only"]
Stray == [Orphan EXCEPT !.inScope = FALSE]

\* What the rerank service does with n documents whose scores are truth.
ServiceModes ==
    {"in order", "reversed", "overloaded twice", "overloaded", "unreachable",
     "repeated index"}

ServiceAnswers(behaviour, n, truth) ==
    LET entry(i) == [index |-> i, value |-> truth[i]]
        reply(entries) == [kind |-> "ok", entries |-> entries]
        busy == [kind |-> "429"]
        right == reply([i \in 1..n |-> entry(n + 1 - i)])
    IN  CASE behaviour = "in order" ->
                <<reply([i \in 1..n |-> entry(i)]), busy, busy>>
          [] behaviour = "reversed" -> <<right, busy, busy>>
          [] behaviour = "overloaded twice" -> <<busy, [kind |-> "503"], right>>
          [] behaviour = "overloaded" -> <<busy, busy, busy>>
          [] behaviour = "unreachable" ->
                <<[kind |-> "unreachable"], right, right>>
          [] behaviour = "repeated index" ->
                <<reply([i \in 1..n |-> entry(1)]), right, right>>

Search ==
    /\ call = Due("search")
    /\ \E dense \in {<<>>, <<1, 2, 3>>, <<4, 1>>},
          lexical \in {<<3>>, <<2, 4>>},
          kinds \in {Branch, Orphan, Post, Question, Stray} \X
                    {Branch, Post, Stray} \X {Branch, Post} \X {Branch},
          behaviour \in ServiceModes :
        LET short == ShortlistOf(dense, lexical, kinds)
        IN  \E truth \in [DOMAIN short -> 0..2] :
                call' = [step |-> "search", listed |-> ToSet(dense) \cup ToSet(lexical),
                         fused |-> Fused(dense, lexical, kinds), about |-> kinds,
                         short |-> short, truth |-> truth, behaviour |-> behaviour,
                         out |-> HybridRetrieve(dense, lexical, kinds,
                                    ServiceAnswers(behaviour, Len(short), truth))]

\* What a shortlisted candidate deserves: the service's score of its own
\* text, or its title's.
Deserved(id, short, about, truth) ==
    Max({truth[Place(short, id)], about[id].title})

\* What is in scope and ranked before the i-th candidate, and of its family.
Above(fused, about, i) ==
    {fused[j] : j \in {k \in 1..(i - 1) : about[fused[k]].inScope}}
Siblings(ids, about, id) == {d \in ids : Family(about[d]) = Family(about[id])}

\* Better ranked candidates, or those of its family, filled the shortlist.
Overtaken(id, fused, about) ==
    \E i \in DOMAIN fused :
        /\ fused[i] = id
        /\ \/ Cardinality(Above(fused, about, i)) >= RerankLimit
           \/ Cardinality(Siblings(Above(fused, about, i), about, id)) >= GroupCap

\* Each piece of evidence e deserves its place and the best come first, one
\* of each family; and what is missing is missing for a reason.
BestOf(e, listed, fused, short, about, truth) ==
    LET deserved(id) == Deserved(id, short, about, truth)
        family(id) == Family(about[id])
        kept == ToSet(e)
    IN  /\ \A i, j \in DOMAIN e : i < j =>
            /\ family(e[i]) # family(e[j])
            /\ deserved(e[i]) >= deserved(e[j])
        /\ \A id \in kept : deserved(id) >= MinimumScore
        /\ \A id \in listed \ kept :
            \/ ~about[id].inScope
            \/ Overtaken(id, fused, about)
            \/ deserved(id) < MinimumScore
            \/ \E d \in kept : family(d) = family(id) /\ deserved(d) >= deserved(id)
            \/ Len(e) = EvidenceLimit /\ \A d \in kept : deserved(d) >= deserved(id)

\* Evidence is the best of what was found, whatever order the service lists
\* its scores in: every piece deserves its place and the best come first,
\* one of each thread or article; and a candidate is missing only behind a
\* better one of its family, better evidence enough, or better ranked
\* candidates that filled the shortlist.  A wrong or missing service answer
\* fails the question instead of ranking by wrong scores.
EvidenceIsBest ==
    call.step = "search" =>
        /\ call.out.failed <=>
            /\ \/ call.behaviour \in {"overloaded", "unreachable"}
               \/ call.behaviour = "repeated index" /\ Len(call.short) > 1
            /\ call.short # <<>>
        /\ ~call.out.failed =>
            BestOf(call.out.evidence, call.listed, call.fused, call.short,
                   call.about, call.truth)

-----------------------------------------------------------------------------
(* Facts.                                                                  *)

Kinds ==
    [hero |-> "job", warrior |-> "job_family", jobs |-> "taxonomy",
     lotus |-> "boss", hardLotus |-> "boss_variant", hard |-> "content_mode"]
IdPlaces ==
    [hard |-> 1, hardLotus |-> 2, hero |-> 3, jobs |-> 4, lotus |-> 5, warrior |-> 6]

Graph == INSTANCE KnowledgeGraph
    WITH TypeOf <- Kinds, IdPlace <- IdPlaces, JobTaxonomy <- "jobs", Retired <- {"old"}

Relations ==
    {<<"hero", "is_a", "warrior">>, <<"warrior", "part_of", "jobs">>,
     <<"hardLotus", "variant_of", "lotus">>,
     <<"hardLotus", "has_difficulty", "hard">>}
\* A relation only a retired catalog ever held.
OldRelation == <<"lotus", "uses", "jobs">>

\* The ids of relations are hashes: two of their orders.
IdOrders ==
    LET some == <<OldRelation, <<"hardLotus", "variant_of", "lotus">>,
                  <<"warrior", "part_of", "jobs">>, <<"hero", "is_a", "warrior">>,
                  <<"hardLotus", "has_difficulty", "hard">> >>
    IN  {[r \in ToSet(some) |-> Place(ids, r)] : ids \in {some, Reverse(some)}}

\* One release: which catalog holds which relation.  "first" lists the
\* entities of the jobs, "second" those of the bosses, less the dropped ones.
Release(holder, dropped) ==
    LET entities == [first |-> {"hero", "warrior", "jobs"},
                     second |-> {"lotus", "hardLotus", "hard"}]
        held(c) == {r \in DOMAIN holder : holder[r] = c}
        catalog(c) == [source |-> c, entities |-> entities[c] \ dropped,
                       external |-> (UNION {Graph!Ends(r) : r \in held(c)})
                                        \ entities[c],
                       relations |-> held(c)]
        old == [source |-> "old", entities |-> {},
                external |-> UNION {Graph!Ends(r) : r \in held("old")},
                relations |-> held("old")]
    IN  <<catalog("first"), catalog("second")>> \o
            (IF held("old") = {} THEN <<>> ELSE <<old>>)

\* Where the question names an entity: "hero" within "hero warrior", two
\* entities of one name, a word of its own.
Places ==
    {[entity |-> "hero", first |-> 1, last |-> 2],
     [entity |-> "warrior", first |-> 1, last |-> 4],
     [entity |-> "jobs", first |-> 4, last |-> 4],
     [entity |-> "lotus", first |-> 6, last |-> 7],
     [entity |-> "hardLotus", first |-> 6, last |-> 7],
     [entity |-> "hard", first |-> 9, last |-> 9]}

Link ==
    /\ call = Due("link")
    /\ \E before \in [Relations \cup {OldRelation} -> {"first", "second", "old"}],
          now \in [Relations -> {"none", "first", "second"}],
          dropped \in {{}, {"hard"}} :
        LET upgrade == Graph!SyncBuiltin(Graph!SyncBuiltin(Graph!NoRows,
                            Release(before, {})).rows, Release(now, dropped))
        IN  /\ before[OldRelation] = "old"
            /\ ~upgrade.failed
            /\ \E asked \in {{p \in Places : p.entity \in n} : n \in
                    {{"hero"}, {"hero", "warrior"}, {"jobs"}, {"hard"},
                     {"lotus", "hardLotus"}, {"jobs", "lotus", "hero"}}},
                  hops \in 1..2, place \in IdOrders :
                call' = [step |-> "link", now |-> now, dropped |-> dropped,
                         old |-> {r \in DOMAIN before : before[r] = "old"},
                         asked |-> asked, hops |-> hops,
                         out |-> Graph!Retrieve(upgrade.rows, asked, hops, place)]

\* The relations that touch one of the entities, or one that does.
Near(relations, entities) == {r \in relations : Graph!Ends(r) \cap entities # {}}
Around(relations, entities) ==
    Near(relations, entities \cup
        UNION {Graph!Ends(r) : r \in Near(relations, entities)})

\* The facts a question gets after an upgrade are those of the new release:
\* nothing that only an earlier catalog said or that speaks of an entity no
\* longer listed.  In two hops these are everything that touches an entity
\* the question names, and everything one step further, whichever catalog a
\* relation came from and went to, unless there is more than a search may
\* select.  What was left by a retired catalog, and relations of an entity
\* no longer listed, are no facts but count as selected.
FactsAreCurrent ==
    call.step = "link" =>
        LET listed == {r \in Relations : call.now[r] # "none"}
            inForce == {r \in listed : Graph!Ends(r) \cap call.dropped = {}}
            active == listed \cup call.old
            named == {m.entity : m \in Graph!SelectEntityMatches(call.asked)}
            fits(relations) == Cardinality(relations) <= MaxRelations
        IN  /\ call.out \subseteq inForce
            /\ call.hops = 2 /\ fits(Near(active, named)) =>
                    Near(inForce, named) \subseteq call.out
            /\ call.hops = 2 /\ fits(Around(active, named)) =>
                    Around(inForce, named) \subseteq call.out

-----------------------------------------------------------------------------
(* Answers.                                                                *)

Fact(subject, stype, predicate, object, otype, source) ==
    [relation |-> <<subject, predicate, object>>, subject |-> subject,
     stype |-> stype, predicate |-> predicate, object |-> object,
     otype |-> otype, source |-> source]

NK == Fact("nk", "abbreviation", "abbreviation_of", "necklace", "item", "terms")
NK2 == Fact("nk", "abbreviation", "abbreviation_of", "nickname", "item", "terms")
Hero == Fact("hero", "job", "is_a", "warrior", "job_family", "jobs")
Mage == Fact("mage", "job", "is_a", "wizard(ice)", "job_family", "jobs")

Explanation(term, as, whole, form) ==
    [term |-> term, as |-> {as}, whole |-> whole, form |-> form]
Right == Explanation("nk", "necklace", "nk(necklace)", "guess")
Wrong == Explanation("nk", "sword", "nk = sword", "plain")
Known == Explanation("hero", "warrior", "hero(warrior)", "guess")
Spelled == Explanation("wizard", "ice", "wizard(ice)", "guess")
Guess == Explanation("zz", "anything", "zz(anything)", "guess")
\* What no pattern of the code sees.
Equation == Explanation("zz", "anything", "zz = anything", "plain")
Long == Explanation("nk", "a long story", "nk(a long story)", "long")

\* The texts of a call, or what its attempts came to instead.
Calls ==
    {<<[kind |-> "ok", text |-> t]>> : t \in
        {{}, {Right, Long}, {Wrong}, {Guess, Equation}, {Known, Guess},
         {Right, Wrong}, {Spelled}}}
    \cup {<<[kind |-> "503"], [kind |-> "unreachable"], [kind |-> "500"]>>,
          <<[kind |-> "503"], [kind |-> "unreachable"],
            [kind |-> "ok", text |-> {Known, Guess}]>>,
          <<[kind |-> "malformed"]>>}

\* What is switched off between an answer and a look at its sources.
Withdrawals ==
    {[chunks |-> {}, relations |-> {}, sources |-> {}],
     [chunks |-> {"c1"}, relations |-> {Hero.relation}, sources |-> {"terms"}]}

\* The options before a question.
QuestionOptions ==
    {<<>>, <<"--no-rag">>, <<"--no-rag", "--rag-mode", "local">>,
     <<"--agent", "--rag-mode", "bypass">>, <<"--rag-mode", "naive">>,
     <<"--rag-mode", "global">>, <<"--rag-mode", "hybrid">>}

Ask ==
    /\ call = Due("ask")
    /\ \E options \in QuestionOptions,
          found \in {<<>>, <<"c1">>, <<"c1", "c2">>},
          one \in {<<>>, <<NK>>, <<Hero, NK>>, <<NK, NK2>>},
          linked \in {<<>>, <<Hero>>, <<Mage, Hero>>},
          calls \in Calls \X Calls, withdrawn \in Withdrawals :
        LET message == [human |-> TRUE, allowed |-> TRUE, mention |-> TRUE,
                        tokens |-> Append(options, "word")]
            answer == Answer(Route(message).mode, found,
                                <<one, one \o <<Hero>> >>, linked, calls)
        IN  call' = [step |-> "ask", options |-> options, calls |-> calls,
                     asked |-> one, withdrawn |-> withdrawn, out |-> answer,
                     views |-> SourceViews(answer, withdrawn)]

\* A term is registered if the facts know what it abbreviates.
Registered(term, facts) ==
    \E f \in facts : f.subject = term /\ f.predicate = "abbreviation_of"

\* The explanations that are checked at all: of a registered term those in
\* brackets or an equation, of another term short ones in brackets.
Checkable(x, facts) ==
    \/ x.form = "guess"
    \/ x.form = "plain" /\ Registered(x.term, facts)

\* What an explanation may say: every name registered for the term, or, for
\* a term without one, names the facts relate to it or the rest of a name
\* that begins with it.
Confirmed(x, facts) ==
    LET names == {f.object : f \in {g \in facts :
            g.subject = x.term /\ g.predicate = "abbreviation_of"}}
        related == {f.object : f \in {g \in facts : g.subject = x.term}}
        named == {f.subject : f \in facts} \cup {f.object : f \in facts}
    IN  IF Registered(x.term, facts)
        THEN names \subseteq x.as
        ELSE x.as \subseteq related \/ x.whole \in named

Unconfirmed(x, facts) == Checkable(x, facts) /\ ~Confirmed(x, facts)

\* Every source used is listed under a number of its own, and opens unless
\* it was withdrawn: the chunk, or the source or the first fact read there.
SourcesOpen(evidence, facts, views, withdrawn) ==
    LET first(source) == CHOOSE i \in DOMAIN facts :
            /\ facts[i].source = source
            /\ \A j \in 1..(i - 1) : facts[j].source # source
        open(of) ==
            IF of \in ToSet(evidence)
            THEN of \notin withdrawn.chunks
            ELSE /\ of \notin withdrawn.sources
                 /\ facts[first(of)].relation \notin withdrawn.relations
    IN  /\ {views[i].of : i \in DOMAIN views} =
                ToSet(evidence) \cup {f.source : f \in ToSet(facts)}
        /\ \A i \in DOMAIN views : /\ views[i].rank = i
                                   /\ views[i].link <=> open(views[i].of)

\* No answer goes out as the model's unless it stands on evidence or facts
\* and they confirm every explanation in it that is checkable: brackets and
\* equations of registered terms, short brackets of others.  The model's own
\* words are given up only if a call came to nothing, or the first explained
\* a term wrongly and the second a registered one.  No other job than the
\* question's enters through the evidence; only the last of the user's
\* options decides whether anything is looked up; and every source used can
\* be opened afterwards.
AnswersAreGrounded ==
    call.step = "ask" =>
        LET out == call.out
            facts == ToSet(out.facts)
            last(k) == call.calls[k][Len(call.calls[k])]
            lookedUp == call.options \notin
                {<<"--no-rag">>, <<"--agent", "--rag-mode", "bypass">>}
        IN  /\ lookedUp <=> out.mode # "direct"
            /\ out.mode = "generated" =>
                /\ out.evidence # <<>> \/ facts # {}
                /\ \A x \in out.text : ~Unconfirmed(x, facts)
            /\ out.mode = "retrieval_only" =>
                \/ last(1).kind # "ok"
                \/ /\ \E x \in last(1).text : Unconfirmed(x, facts)
                   /\ \/ last(2).kind # "ok"
                      \/ \E x \in last(2).text : /\ Unconfirmed(x, facts)
                                                /\ Registered(x.term, facts)
            /\ Hero \in ToSet(call.asked) => Mage \notin facts
            /\ SourcesOpen(out.evidence, out.facts, call.views, call.withdrawn)

-----------------------------------------------------------------------------
(* Texts into the index.                                                   *)

\* Words of the sizes, numbered through, and the paragraphs they make when a
\* paragraph ends after each word of ends.
Paragraphs(sizes, ends) ==
    LET upto(i) == SumOf(SubSeq(sizes, 1, i))
        word(i) == <<upto(i - 1) + 1, upto(i)>>
        add(ps, i) ==
            IF i = 1 \/ i - 1 \in ends
            THEN Append(ps, <<word(i)>>)
            ELSE [ps EXCEPT ![Len(ps)] = Append(@, word(i))]
    IN  FoldLeft(add, <<>>, [i \in DOMAIN sizes |-> i])

BodyLimit == 4
Window == 2

\* The embedder's answer about window k of n chunks, last chunk first.
WindowAnswer(n, k) ==
    LET length == Min({Window, n - (k - 1) * Window})
        entry(i) == [index |-> i, value |-> (k - 1) * Window + i]
    IN  [kind |-> "ok", entries |-> [i \in 1..length |-> entry(length + 1 - i)]]

\* lost: the window whose request fails, if any.
Index ==
    /\ call = Due("index")
    /\ \E sizes \in UpTo({1, 2, 5}, 4) : \E ends \in SUBSET (1..(Len(sizes) - 1)),
          target \in 1..BodyLimit, overlap \in 0..2, lost \in 0..2 :
        \E text \in {Paragraphs(sizes, ends)} :
        \E bodies \in {Bodies(text, target, BodyLimit, overlap)} :
            call' = [step |-> "index", text |-> text, overlap |-> overlap,
                     bodies |-> bodies, lost |-> lost,
                     vectors |-> Embed(Len(bodies), Window,
                        [k \in 1..Len(bodies) |->
                            IF k = lost THEN [kind |-> "503"]
                                        ELSE WindowAnswer(Len(bodies), k)])]

\* The chunks, each within the limit, are runs of the text in its order that
\* leave nothing out, each with something new, and repeat no more than the
\* overlap.
KeepsText(text, bodies, limit, overlap) ==
    LET first(i) == Head(bodies[i])[1]
        last(i) == Last(bodies[i])[2]
    IN  /\ (text = <<>>) <=> (bodies = <<>>)
        /\ text # <<>> => first(1) = 1 /\ last(Len(bodies)) = Last(text)[2]
        /\ \A i \in DOMAIN bodies :
            /\ Total(bodies[i]) <= limit
            /\ Total(bodies[i]) = last(i) - first(i) + 1
            /\ i > 1 => /\ last(i) > last(i - 1)
                        /\ first(i) \in first(i - 1)..(last(i - 1) + 1)
                        /\ last(i - 1) - first(i) + 1 <= overlap

\* Whatever the sizes of words and paragraphs: cut to the embedder's limit,
\* the chunks keep the text; and each gets the vector computed from it
\* though windows are answered in any order, or none does.
IndexKeepsText ==
    call.step = "index" =>
        LET n == Len(call.bodies)
        IN  /\ KeepsText(FlattenSeq(call.text), call.bodies, BodyLimit, call.overlap)
            /\ call.vectors.failed <=>
                call.lost \in 1..((n + Window - 1) \div Window)
            /\ ~call.vectors.failed => call.vectors.values = [i \in 1..n |-> i]

-----------------------------------------------------------------------------
(* Messages and replies.                                                   *)

Limits == [user |-> 1, channel |-> 2]
RateWindow == 2

Admit ==
    /\ call = Due("admit")
    /\ \E who \in [2..4 -> {"u", "v"} \X {"c", "d"}], steps \in [2..4 -> 0..2],
          tokens \in [1..4 -> {<<"--agent", "word">>, <<"--rag-mode">>}] :
        LET at(i) == IF i = 1 THEN <<"u", "c">> ELSE who[i]
            time(i) == SumOf([j \in 1..(i - 1) |-> steps[j + 1]])
            messages == [i \in 1..4 |->
                [user |-> at(i)[1], channel |-> at(i)[2], time |-> time(i),
                 human |-> TRUE, allowed |-> TRUE, mention |-> TRUE,
                 tokens |-> tokens[i]]]
        IN  call' = [step |-> "admit", messages |-> messages,
                     out |-> Admissions(messages, Limits.user,
                                Limits.channel, RateWindow)]

\* The messages before the i-th that came within the window it is judged by.
Before(m, i, window) == {j \in 1..(i - 1) : m[j].time > m[i].time - window}

SameUser(S, m, i) == {j \in S : m[j].user = m[i].user}
SameChannel(S, m, i) == {j \in S : m[j].channel = m[i].channel}

\* The i-th message is worked on only if author and channel have room, and
\* refused only if one of them has none.
JudgedFairly(m, out, i, limits, window) ==
    LET admitted == {j \in Before(m, i, window) : out[j] = "admitted"}
        asked == {j \in Before(m, i, window) : out[j] # "ignored"}
    IN  /\ out[i] = "admitted" =>
            /\ Cardinality(SameUser(admitted, m, i)) < limits.user
            /\ Cardinality(SameChannel(admitted, m, i)) < limits.channel
        /\ out[i] = "refused" =>
            \/ Cardinality(SameUser(asked, m, i)) >= limits.user
            \/ Cardinality(SameChannel(admitted, m, i)) >= limits.channel

\* Over any stretch of time no user and no channel has more messages worked
\* on than the limit; nobody is refused unless his own earlier questions, or
\* those worked on in the channel, fill the stretch before; and a message
\* the policy rejects is neither answered nor counted.
WindowsHold ==
    call.step = "admit" =>
        \A i \in DOMAIN call.messages :
            /\ call.out[i] = "ignored" <=> call.messages[i].tokens = <<"--rag-mode">>
            /\ JudgedFairly(call.messages, call.out, i, Limits, RateWindow)

PartLimit == 4

Reply ==
    /\ call = Due("reply")
    /\ \E text \in UpTo({"x", " ", "\n"}, 8) :
        call' = [step |-> "reply", text |-> text,
                 parts |-> SplitReply(text, PartLimit)]

\* What a reader sees of a text: its characters but for blanks.
Ink(text) ==
    LET add(ink, c) == IF c \in Blank THEN ink ELSE Append(ink, c)
    IN  FoldLeft(add, <<>>, text)

ArrivesWhole(text, parts, limit) ==
    /\ Ink(FlattenSeq(parts)) = Ink(text)
    /\ \A i \in DOMAIN parts : Len(parts[i]) \in 1..limit

\* A reply arrives whole: its parts, read one after the other, are the text
\* but for blanks, and none is empty or too long for the chat.
RepliesArriveWhole ==
    call.step = "reply" => ArrivesWhole(call.text, call.parts, PartLimit)

-----------------------------------------------------------------------------

Next == Search \/ Link \/ Ask \/ Index \/ Admit \/ Reply \/ Return

Spec == Init /\ [][Next]_call

=============================================================================
