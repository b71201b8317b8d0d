----------------------------- MODULE ChatFront ------------------------------
(***************************************************************************)
(* What discord/routing.py decides about a message before and after it is  *)
(* answered, with the rate limits of discord/runtime.py.  A message is a   *)
(* record: [user, channel, time, human, allowed (guild, channel and author *)
(* pass the policy), mention, tokens (its text without mentions)].         *)
(***************************************************************************)
EXTENDS Integers, FiniteSets, Sequences, SequencesExt

Modes == {"local", "global", "hybrid", "naive", "mix", "bypass"}
Options == {"--no-rag", "--rag-mode", "--agent", "--agent-resume"}

\* Other tokens a text is made of: a run id, a word, and one for which a
\* question is refused (a dangerous URL scheme, mentions, excess length).
Words == {"run-id", "word", "unsafe"}

-----------------------------------------------------------------------------
(* Options.  expect is what the loop of route reads next; "stop" ends it.  *)

Unread == [expect |-> "option", mode |-> "mix", rag |-> TRUE, agent |-> FALSE,
           resume |-> FALSE, question |-> <<>>]

Read(s, token) ==
    CASE s.expect = "option" /\ token = "--no-rag" ->
            [s EXCEPT !.rag = FALSE, !.mode = "bypass"]
      [] s.expect = "option" /\ token = "--rag-mode" -> [s EXCEPT !.expect = "mode"]
      [] s.expect = "option" /\ token = "--agent" -> [s EXCEPT !.agent = TRUE]
      [] s.expect = "option" /\ token = "--agent-resume" -> [s EXCEPT !.expect = "run"]
      [] s.expect = "mode" /\ token \in Modes ->
            [s EXCEPT !.expect = "option", !.mode = token, !.rag = token # "bypass"]
      [] s.expect = "run" /\ token = "run-id" ->
            [s EXCEPT !.expect = "resumed", !.agent = TRUE, !.resume = TRUE]
      [] \/ s.expect = "mode" /\ token \notin Modes
         \/ s.expect = "run" /\ token # "run-id" -> [s EXCEPT !.expect = "stop"]
      [] s.expect = "stop" -> s
      [] OTHER ->
            [s EXCEPT !.expect = "question", !.question = Append(@, token)]

Refused == [accepted |-> FALSE]

\* DiscordAccessPolicy.route.  A text that ends where a mode or a run id is
\* due is refused; a resumption may go without a question of its own.
Route(m) ==
    LET end == FoldLeft(Read, Unread, m.tokens)
    IN  IF /\ m.human /\ m.allowed /\ m.mention
           /\ end.expect \in {"question", "resumed"}
           /\ ~Contains(end.question, "unsafe")
        THEN [accepted |-> TRUE, mode |-> end.mode, rag |-> end.rag,
              agent |-> end.agent, resume |-> end.resume]
        ELSE Refused

-----------------------------------------------------------------------------
(* Rate limits.                                                            *)

\* Mutant: events are compared with now, not with the window's beginning.
RecentOfNow(events, now, window) ==
    LET old == {i \in DOMAIN events : \A j \in 1..i : events[j] < now}
    IN  SubSeq(events, Cardinality(old) + 1, Len(events))

\* The deque of a key without the events at its head that left the window.
Recent(events, now, window) ==
    LET old == {i \in DOMAIN events : \A j \in 1..i : events[j] <= now - window}
    IN  SubSeq(events, Cardinality(old) + 1, Len(events))

\* SlidingWindowLimiter.allow.
Allow(events, limit, window, now) ==
    LET recent == Recent(events, now, window)
    IN  IF Len(recent) >= limit
        THEN [allowed |-> FALSE, events |-> recent]
        ELSE [allowed |-> TRUE, events |-> Append(recent, now)]

\* on_message up to the waiting queue, for messages in the order they come:
\* the author's limit first, the channel's only if that one allows.
Admissions(messages, userLimit, channelLimit, window) ==
    LET step(s, m) ==
            LET byUser == Allow(s.users[m.user], userLimit, window, m.time)
                byChannel ==
                    Allow(s.channels[m.channel], channelLimit, window, m.time)
            IN  CASE ~Route(m).accepted ->
                        [s EXCEPT !.out = Append(@, "ignored")]
                  [] Route(m).accepted /\ ~byUser.allowed ->
                        [s EXCEPT !.users[m.user] = byUser.events,
                                  !.out = Append(@, "refused")]
                  [] OTHER ->
                        [s EXCEPT !.users[m.user] = byUser.events,
                                  !.channels[m.channel] = byChannel.events,
                                  !.out = Append(@, IF byChannel.allowed
                                                    THEN "admitted" ELSE "refused")]
        users == {messages[i].user : i \in DOMAIN messages}
        channels == {messages[i].channel : i \in DOMAIN messages}
    IN  FoldLeft(step, [users |-> [u \in users |-> <<>>],
                        channels |-> [c \in channels |-> <<>>], out |-> <<>>],
                 messages).out

-----------------------------------------------------------------------------
(* Replies: a text is a sequence of letters "x", spaces and newlines.      *)

Blank == {" ", "\n"}

\* str.lstrip and str.rstrip.
Lstrip(text) ==
    LET ink == {i \in DOMAIN text : text[i] \notin Blank}
    IN  IF ink = {} THEN <<>> ELSE SubSeq(text, Min(ink), Len(text))

Rstrip(text) ==
    LET ink == {i \in DOMAIN text : text[i] \notin Blank}
    IN  IF ink = {} THEN <<>> ELSE SubSeq(text, 1, Max(ink))

\* Mutant: a word longer than a part is not cut.
BoundaryAtBreaks(text, limit) ==
    LET breaks == {i \in 0..limit : text[i + 1] \in Blank}
    IN  IF breaks = {} THEN Len(text) ELSE Max(breaks)

\* The characters before the last break among the first limit + 1 (the
\* newline that ends an empty line is behind its first); limit when that
\* would leave less than half a part.
Boundary(text, limit) ==
    LET breaks == {i \in 0..limit : text[i + 1] \in Blank}
        last == IF breaks = {} THEN -1 ELSE Max(breaks)
    IN  IF last < limit \div 2 THEN limit ELSE last

\* split_discord_message: the parts, each cut off the head of what remains.
SplitReply(text, limit) ==
    LET step(s, pass) ==
            IF Len(s.rest) <= limit
            THEN s
            ELSE LET cut == Boundary(s.rest, limit)
                 IN  [parts |-> Append(s.parts, Rstrip(SubSeq(s.rest, 1, cut))),
                      rest |-> Lstrip(SubSeq(s.rest, cut + 1, Len(s.rest)))]
        end == FoldLeft(step, [parts |-> <<>>, rest |-> Lstrip(Rstrip(text))],
                        [pass \in 1..Len(text) |-> pass])
    IN  IF end.rest = <<>> THEN end.parts ELSE Append(end.parts, end.rest)

=============================================================================
