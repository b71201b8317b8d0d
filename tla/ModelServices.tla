--------------------------- MODULE ModelServices ----------------------------
(***************************************************************************)
(* The clients of the local model servers: llm/client.py, the reranker of  *)
(* retrieval/hybrid.py and the embedder of indexing/embedding.py.  What a  *)
(* server does with one attempt is an answer:                              *)
(*   kind     "ok", a status ("429", "503", "500", "400"), "unreachable"   *)
(*            (transport error or timeout), or "malformed"                 *)
(*   entries  of an "ok" answer about several documents: a sequence of     *)
(*            records [index, value], in an order of the server's          *)
(* A client is a function of the answers to its attempts, in order.        *)
(***************************************************************************)
EXTENDS Integers, FiniteSets, Sequences, SequencesExt

AnswerKinds ==
    {"ok", "429", "503", "500", "400", "unreachable", "malformed"}

\* The attempt at which the loop ends: the first that is not worth a retry,
\* or the last one allowed.
LastAttempt(answers, retryable) ==
    Min({n \in DOMAIN answers :
            answers[n].kind \notin retryable \/ n = Len(answers)})

\* LocalLLMClient.generate: the text, or LLMUnavailable.  Nothing that came
\* back malformed or was refused is tried again.
Generate(answers) ==
    answers[LastAttempt(answers, {"503", "500", "unreachable"})]

-----------------------------------------------------------------------------
(* Answers about several documents.                                        *)

NoValues == [failed |-> TRUE, values |-> <<>>]

\* One value per document, by index.  A wrong count, an index out of range
\* or one used twice raises.
EntriesByIndex(n, entries) ==
    IF Len(entries) = n /\ {entries[i].index : i \in 1..n} = 1..n
    THEN [failed |-> FALSE, values |-> [i \in 1..n |->
            entries[CHOOSE j \in 1..n : entries[j].index = i].value]]
    ELSE NoValues

\* RemoteReranker.score: an overloaded server is asked again, anything else
\* that is no answer raises.  A process asks for /info before its first
\* scores, in the same way; that request counts only if it fails (another
\* model is "malformed"), and then answers are the answers to it.
Rerank(n, answers) ==
    LET answer == answers[LastAttempt(answers, {"429", "503"})]
    IN  IF answer.kind = "ok" THEN EntriesByIndex(n, answer.entries) ELSE NoValues

\* RemoteEmbeddingProvider.embed: windows of at most size texts, one attempt
\* each; answers[k] is about the k-th window.
Embed(n, size, answers) ==
    LET windows == (n + size - 1) \div size
        length(k) == Min({size, n - (k - 1) * size})
        window == [k \in 1..windows |->
            IF answers[k].kind = "ok"
            THEN EntriesByIndex(length(k), answers[k].entries)
            ELSE NoValues]
    IN  IF \E k \in 1..windows : window[k].failed
        THEN NoValues
        ELSE [failed |-> FALSE,
              values |-> FlattenSeq([k \in 1..windows |-> window[k].values])]

=============================================================================
