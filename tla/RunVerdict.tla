----------------------------- MODULE RunVerdict ------------------------------
(***************************************************************************)
(* What a run is said to have said: the decoders of the two dialects       *)
(* (codex/parse.go, claudecode/parse.go), each a fold over the lines of    *)
(* one run, and the result Driver.Run makes of them (driver.go:298-326).   *)
(* Stream models how the lines arrive and how the process ends; here they  *)
(* just come, and stop.                                                    *)
(*                                                                         *)
(* A text is one of a few: "" is none, "null" the JSON null, "prose" is    *)
(* not JSON, any other is a document.  A model's name is a number, ordered *)
(* as the names are, and 0 the empty one.                                  *)
(***************************************************************************)
EXTENDS Integers, Sequences, SequencesExt, FiniteSets

CONSTANTS
    CodexLines, ClaudeLines, \* what each CLI can print, as far as it is read
    MaxLines,                \* bound: the lines of a run
    MaxInt,                  \* the largest int
    None

ASSUME VerdictAssumption ==
    /\ MaxLines \in Nat /\ MaxInt \in Nat
    /\ None # "" /\ None \notin Int
    /\ \A line \in CodexLines :   \* a message is a text, a status what its digits say
          /\ line.type = "item.completed" => line.text # None
          /\ line.type = "turn.failed" =>
                line.message.document \in Int /\ line.message.prose \in Nat \cup {None}
    /\ \A line \in ClaudeLines :  \* and a part of an envelope that was read is JSON
          line.type = "result" =>
             /\ line.structured \notin {"", "prose"} /\ line.isError \in BOOLEAN
             /\ IsFiniteSet(line.usage)
             /\ \A u \in line.usage : u.total \in Nat /\ u.key \in Nat

VARIABLES
    dialect, schema, \* of the run: which CLI, and whether it must answer in a shape
    decoder,
    seen,            \* history: the lines decoded
    shown,           \* the events yielded
    ended,           \* "no", or how Run returned: "result" or "outage"
    result

vars == <<dialect, schema, decoder, seen, shown, ended, result>>

Nobody == [text |-> "", structured |-> None, isError |-> FALSE, blocked |-> None,
           model |-> 0, session |-> None, turns |-> 0]

-----------------------------------------------------------------------------
(* Codex: the result is spread over the stream. *)

NewDecoder ==
    [text |-> "", structured |-> None, isError |-> FALSE, blocked |-> None,
     model |-> 0, session |-> None, turns |-> 0, complete |-> FALSE]

\* A document, and one that says something.
IsPayload(text) == text \notin {"", "null", "prose"}

\* embeddedStatus: the API's document first, then codex's prose, whose digits may be
\* no int.
EmbeddedStatus(m) ==
    CASE m.document # 0 -> m.document
      [] m.document = 0 /\ m.prose # None /\ m.prose <= MaxInt -> m.prose
      [] OTHER -> None

Reason(status) ==
    CASE status = 429 -> "exhausted" [] status = 401 -> "rejected" [] OTHER -> None

\* Bug: the words decide whatever the status.
CodexBlockedByWords(m) ==
    IF m.limit THEN "exhausted" ELSE Reason(EmbeddedStatus(m))

\* A status found decides alone.
CodexBlocked(m) ==
    IF EmbeddedStatus(m) # None THEN Reason(EmbeddedStatus(m))
    ELSE IF m.limit THEN "exhausted" ELSE None

\* Bug: the first agent message is the answer.
CodexFoldFirst(d, line) ==
    CASE line.type = "item.completed" /\ line.item = "agent_message" /\ d.text = "" ->
             [d EXCEPT !.text = line.text]
      [] line.type = "turn.completed" -> [d EXCEPT !.complete = TRUE]
      [] line.type = "turn.failed" ->
             [d EXCEPT !.blocked = CodexBlocked(line.message), !.isError = TRUE, !.complete = TRUE]
      [] OTHER -> d

\* Decode: the last agent message that was completed is the answer; both ends of a
\* turn are outcomes.
CodexFold(d, line) ==
    CASE line.type = "thread.started" -> [d EXCEPT !.session = line.id]
      [] line.type = "turn.started" -> [d EXCEPT !.turns = @ + 1]
      [] line.type = "item.completed" /\ line.item = "agent_message" /\ line.text # "" ->
             [d EXCEPT !.text = line.text]
      [] line.type = "turn.completed" -> [d EXCEPT !.complete = TRUE]
      [] line.type = "turn.failed" ->
             [d EXCEPT !.blocked = CodexBlocked(line.message), !.isError = TRUE, !.complete = TRUE]
      [] OTHER -> d

CodexEvents(line) ==
    IF line.type \notin {"item.started", "item.completed"} THEN {}
    ELSE CASE line.item = "agent_message" /\ line.text # "" -> {<<"text", line.text>>}
           [] line.item = "command_execution" ->
                  {<<IF line.type = "item.started" THEN "tool_use" ELSE "tool_result", line.text>>}
           [] OTHER -> {}

Unmet(d) == schema /\ (d.isError \/ ~IsPayload(d.text))

\* Bug: only a failed turn is explained.
CodexAnswerFailed(d) ==
    CASE d.text # "" -> d.text [] d.text = "" /\ d.isError -> "codex ended the turn" [] OTHER -> ""

\* The reply, or why there is none.
CodexAnswer(d) ==
    CASE d.text # "" -> d.text
      [] d.text = "" /\ d.isError -> "codex ended the turn"
      [] d.text = "" /\ ~d.isError /\ Unmet(d) -> "without an answer in shape"
      [] OTHER -> ""

\* Bug: the document is passed on and the verdict left to the CLI.
CodexResultUnjudged(d) ==
    [text |-> CodexAnswer(d), structured |-> IF schema THEN d.text ELSE None, isError |-> d.isError,
     blocked |-> d.blocked, model |-> 0, session |-> d.session, turns |-> d.turns]

CodexResult(d) ==
    [text |-> CodexAnswer(d), structured |-> IF schema /\ ~Unmet(d) THEN d.text ELSE None,
     isError |-> d.isError \/ Unmet(d),
     blocked |-> d.blocked, model |-> 0, session |-> d.session, turns |-> d.turns]

-----------------------------------------------------------------------------
(* Claude Code: the last line says it all. *)

\* Bug: a candidate is compared with the canonical name of the winner.
ModelProjected(order) ==
    FoldLeft(LAMBDA best, u :
                IF u.total > best.most \/ (u.total = best.most /\ u.key < best.name)
                THEN [most |-> u.total, name |-> IF u.canonical # 0 THEN u.canonical ELSE u.key]
                ELSE best,
             [most |-> -1, name |-> 0], order).name

\* Who leads, b until now or u.
Better(b, u) == IF u.total > b.total \/ (u.total = b.total /\ u.key < b.key) THEN u ELSE b

\* Who leads after so many entries.  The map is ranged over in any order.
Leader(order) ==
    LET led[i \in 0..Len(order)] ==
            IF i = 0 THEN [total |-> -1, key |-> 0, canonical |-> 0] ELSE Better(led[i - 1], order[i])
    IN  led

\* The main model is the one that read most; its canonical name, if it has one.
Model(order) ==
    LET winner == Leader(order)[Len(order)]
    IN  IF winner.key # 0 /\ winner.canonical # 0 THEN winner.canonical ELSE winner.key

ClaudeText(e) ==
    CASE e.text # "" -> e.text
      [] e.text = "" /\ e.isError /\ e.subtype # "" -> "claude ended the turn"
      [] OTHER -> ""

ClaudeBlocked(e) == IF e.isError THEN Reason(e.status) ELSE None

\* Parse: the envelope as it stands.
Parse(e, order) ==
    [text |-> ClaudeText(e), structured |-> e.structured, isError |-> e.isError,
     blocked |-> ClaudeBlocked(e), model |-> Model(order), session |-> e.session, turns |-> e.turns]

\* Only the run knows whether the answer had to have a shape.
ClaudeFold(e, order) ==
    LET p == Parse(e, order)
        answered == p.structured \notin {None, "null"}
    IN  [text |-> p.text, structured |-> IF schema /\ answered THEN p.structured ELSE None,
         isError |-> p.isError \/ (schema /\ ~answered), blocked |-> p.blocked,
         model |-> p.model, session |-> p.session, turns |-> p.turns, complete |-> TRUE]

\* The first block that means something; a string is a whole message.
ClaudeEvents(line) ==
    CASE line.type \notin {"assistant", "user"} -> {}
      [] line.type \in {"assistant", "user"} /\ line.shape = "unreadable" -> {<<"unreadable", "">>}
      [] line.type = "assistant" /\ line.shape = "blocks" ->
             LET said == SelectSeq(line.content, LAMBDA b : b[1] = "tool_use" \/ (b[1] = "text" /\ b[2] # ""))
             IN  IF said = <<>> THEN {} ELSE {Head(said)}
      [] line.type = "assistant" /\ line.shape = "string" /\ line.content # "" -> {<<"text", line.content>>}
      [] line.type = "user" /\ line.shape = "blocks" ->
             LET said == SelectSeq(line.content, LAMBDA b : b[1] = "tool_result")
             IN  IF said = <<>> THEN {} ELSE {Head(said)}
      [] OTHER -> {}

-----------------------------------------------------------------------------
(* A run. *)

Init ==
    /\ dialect \in {"codex", "claude"} /\ schema \in BOOLEAN
    /\ decoder = NewDecoder
    /\ seen = <<>> /\ shown = {} /\ ended = "no" /\ result = Nobody

Takes(line) == ended = "no" /\ Len(seen) < MaxLines /\ seen' = Append(seen, line)

DecodesCodex(line) ==
    /\ dialect = "codex" /\ line.type # "malformed"
    /\ Takes(line)
    /\ decoder' = CodexFold(decoder, line)
    /\ shown' = shown \cup CodexEvents(line)
    /\ UNCHANGED <<dialect, schema, ended, result>>

DecodesClaude(line) ==
    /\ dialect = "claude" /\ line.type # "malformed"
    /\ Takes(line)
    /\ \/ line.type = "result" /\ \E order \in SetToSeqs(line.usage) : decoder' = ClaudeFold(line, order)
       \/ line.type # "result" /\ UNCHANGED decoder
    /\ shown' = shown \cup ClaudeEvents(line)
    /\ UNCHANGED <<dialect, schema, ended, result>>

\* The line cannot be read, or a result's envelope cannot: the run is an outage.
CannotDecode(line) ==
    /\ line.type = "malformed"
    /\ Takes(line)
    /\ ended' = "outage"
    /\ UNCHANGED <<dialect, schema, decoder, shown, result>>

\* Bug: what has been decoded is the result, whatever is missing.
EndsAnyhow ==
    /\ ended = "no"
    /\ ended' = "result" /\ result' = IF dialect = "codex" THEN CodexResult(decoder) ELSE decoder
    /\ UNCHANGED <<dialect, schema, decoder, seen, shown>>

\* The stream is over: a result needs an outcome.
Ends ==
    /\ ended = "no"
    /\ \/ ~decoder.complete /\ ended' = "outage" /\ UNCHANGED result
       \/ /\ decoder.complete /\ ended' = "result"
          /\ result' = IF dialect = "codex" THEN CodexResult(decoder) ELSE [f \in DOMAIN Nobody |-> decoder[f]]
    /\ UNCHANGED <<dialect, schema, decoder, seen, shown>>

Next ==
    \/ \E line \in CodexLines : DecodesCodex(line) \/ (dialect = "codex" /\ CannotDecode(line))
    \/ \E line \in ClaudeLines : DecodesClaude(line) \/ (dialect = "claude" /\ CannotDecode(line))
    \/ Ends

Spec == Init /\ [][Next]_vars

-----------------------------------------------------------------------------
(* Properties. *)

HasResult == ended = "result"
IsEnvelope(line) == line.type = "result"
IsAnswer(line) == line.type = "item.completed" /\ line.item = "agent_message" /\ line.text # ""
LastEnvelope(i) == IsEnvelope(seen[i]) /\ \A j \in (i + 1)..Len(seen) : ~IsEnvelope(seen[j])
LastAnswer(i) == IsAnswer(seen[i]) /\ \A j \in (i + 1)..Len(seen) : ~IsAnswer(seen[j])
Codes == [exhausted |-> 429, rejected |-> 401]

\* A run that had to answer in a shape carries a document, or is a failure whatever
\* the CLI calls it; a run that had not carries none (provider.go:448-451, 501-516).
AnswersInShape ==
    HasResult =>
        /\ result.structured # None => schema /\ IsPayload(result.structured)
        /\ schema /\ ~result.isError => result.structured # None

\* A run is called blocked only if it failed, and on the word of a refusal that
\* names no other status: a caller may take the same request elsewhere
\* (provider.go:355-361; codex/parse.go:192-214; claudecode/parse.go:136-167).
BlockedIsRefused ==
    HasResult /\ result.blocked # None =>
        /\ result.isError
        /\ dialect = "codex" =>
               \E i \in DOMAIN seen :
                   /\ seen[i].type = "turn.failed"
                   /\ seen[i].message.document \in {0, Codes[result.blocked]}
                   /\ seen[i].message.document = 0 =>
                          seen[i].message.prose \in {None, Codes[result.blocked]} \/ seen[i].message.prose > MaxInt
        /\ dialect = "claude" =>
               \E i \in DOMAIN seen : LastEnvelope(i) /\ seen[i].status = Codes[result.blocked]

\* A failure explains itself; Claude Code's as far as its envelope names one
\* (codex/parse.go:292-310; claudecode/parse.go:169-183).
FailureSpeaks ==
    HasResult /\ result.isError =>
        \/ result.text # ""
        \/ /\ dialect = "claude"
           /\ \E i \in DOMAIN seen : LastEnvelope(i) /\ (seen[i].subtype = "" \/ ~seen[i].isError)

\* A result rests on a line that said how the run ended, and its text is the last
\* thing the agent said, which whoever watched codex has been shown
\* (codex/parse.go:130-170; claudecode/parse.go:329-352; driver.go:304-320).
LastWord ==
    HasResult =>
        /\ \E i \in DOMAIN seen : seen[i].type \in {"turn.completed", "turn.failed", "result"}
        /\ dialect = "claude" =>
               \E i \in DOMAIN seen :
                   LastEnvelope(i) /\ result.text \in {seen[i].text, "claude ended the turn"}
        /\ dialect = "codex" =>
               \A i \in DOMAIN seen : LastAnswer(i) =>
                   result.text = seen[i].text /\ <<"text", result.text>> \in shown

\* The model named is the one that read most, the first by name of those that tie,
\* in whatever order the map is ranged over (claudecode/parse.go:58-93).
MainModel ==
    HasResult /\ dialect = "claude" =>
        \E i \in DOMAIN seen :
            LET usage == seen[i].usage IN
            /\ LastEnvelope(i)
            /\ usage = {} => result.model = 0
            /\ usage # {} =>
                  \E u \in usage :
                     /\ \A w \in usage : w.total < u.total \/ (w.total = u.total /\ u.key <= w.key)
                     /\ result.model = IF u.key # 0 /\ u.canonical # 0 THEN u.canonical ELSE u.key
=============================================================================
