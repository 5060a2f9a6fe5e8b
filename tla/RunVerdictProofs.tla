-------------------------- MODULE RunVerdictProofs --------------------------
(***************************************************************************)
(* Proofs about RunVerdict for any lines a CLI can print and any number of *)
(* them: the answer's shape, who is blocked and on whose word, what a      *)
(* failure says, which line is the last word, and the model that is named  *)
(* whatever the order a map is ranged over in.                             *)
(***************************************************************************)
EXTENDS RunVerdict, FiniteSetTheorems, WellFoundedInduction, TLAPS

-----------------------------------------------------------------------------
(* The main model: inductions over the entries of a map. *)

\* Every nonempty set of numbers has a least element.
LEMMA Least ==
    ASSUME NEW S \in SUBSET Nat, S # {}
    PROVE  \E n \in S : \A m \in S : n <= m
  <1>1. IsWellFoundedOn(OpToRel(<, Nat), Nat)
    BY NatLessThanWellFounded
  <1>2. \E n \in S : \A m \in S : ~(<<m, n>> \in OpToRel(<, Nat))
    BY <1>1, WFMin
  <1>3. PICK n \in S : \A m \in S : ~(<<m, n>> \in OpToRel(<, Nat))
    BY <1>2
  <1>4. \A m \in S : ~(m < n)
    BY <1>3 DEF OpToRel
  <1>5. \A m \in S : n <= m
    BY <1>4
  <1> QED
    BY <1>5

\* Induction over the numbers, a set at a time.
LEMMA Inductive ==
    ASSUME NEW S, 0 \in S, \A n \in Nat : n \in S => n + 1 \in S
    PROVE  Nat \subseteq S
  <1> SUFFICES ASSUME Nat \ S # {} PROVE FALSE
    OBVIOUS
  <1>1. PICK n \in Nat \ S : \A m \in Nat \ S : n <= m
    BY Least
  <1>2. n # 0 /\ n - 1 \in Nat
    BY <1>1
  <1>3. n - 1 \in S
    BY <1>1, <1>2
  <1>4. n \in S
    BY <1>2, <1>3, (n - 1) + 1 = n
  <1> QED
    BY <1>1, <1>4

NoLeader == [total |-> -1, key |-> 0, canonical |-> 0]

\* Some function follows the winners of an order as far as one likes.
LEMMA LeaderExists ==
    ASSUME NEW order, Len(order) \in Nat
    PROVE  \E led : led = [i \in 0..Len(order) |->
                             IF i = 0 THEN NoLeader ELSE Better(led[i - 1], order[i])]
  <1> DEFINE Upto(n) == \E led : led = [i \in 0..n |->
                                   IF i = 0 THEN NoLeader ELSE Better(led[i - 1], order[i])]
             S == {n \in Nat : Upto(n)}
  <1>1. 0 \in S
    <2> DEFINE led == [i \in 0..0 |-> NoLeader]
    <2>1. led = [i \in 0..0 |-> IF i = 0 THEN NoLeader ELSE Better(led[i - 1], order[i])]
      OBVIOUS
    <2> HIDE DEF led
    <2> QED
      BY <2>1
  <1>2. ASSUME NEW n \in Nat, n \in S PROVE n + 1 \in S
    <2>1. PICK led : led = [i \in 0..n |->
                              IF i = 0 THEN NoLeader ELSE Better(led[i - 1], order[i])]
      BY <1>2
    <2> DEFINE next == [i \in 0..(n + 1) |->
                          IF i = n + 1 THEN Better(led[n], order[n + 1]) ELSE led[i]]
    <2>2. \A i \in 0..n : led[i] = IF i = 0 THEN NoLeader ELSE Better(led[i - 1], order[i])
      BY <2>1
    <2>3. \A i \in 0..(n + 1) :
             next[i] = IF i = 0 THEN NoLeader ELSE Better(next[i - 1], order[i])
      <3>1. \A i \in 0..n : next[i] = led[i]
        OBVIOUS
      <3>2. next[n + 1] = Better(led[n], order[n + 1])
        OBVIOUS
      <3> HIDE DEF next
      <3> SUFFICES ASSUME NEW i \in 0..(n + 1)
                   PROVE  next[i] = IF i = 0 THEN NoLeader ELSE Better(next[i - 1], order[i])
        OBVIOUS
      <3>3. CASE i = n + 1
        BY <3>1, <3>2, <3>3, next[n] = led[n], i - 1 = n
      <3>4. CASE i # n + 1
        <4>1. i \in 0..n /\ (i # 0 => i - 1 \in 0..n)
          BY <3>4
        <4> QED
          BY <2>2, <3>1, <4>1
      <3> QED
        BY <3>3, <3>4
    <2>4. next = [i \in 0..(n + 1) |-> next[i]]
      OBVIOUS
    <2> HIDE DEF next
    <2>5. next = [i \in 0..(n + 1) |->
                    IF i = 0 THEN NoLeader ELSE Better(next[i - 1], order[i])]
      BY <2>3, <2>4
    <2> QED
      BY <2>5
  <1> HIDE DEF S
  <1>3. Nat \subseteq S
    BY <1>1, <1>2, Inductive
  <1> QED
    BY <1>3 DEF S

\* Who leads after an entry is who led before it, or that entry.
LEMMA LeaderSteps ==
    ASSUME NEW order, Len(order) \in Nat
    PROVE  /\ Leader(order)[0] = NoLeader
           /\ \A i \in 1..Len(order) : Leader(order)[i] = Better(Leader(order)[i - 1], order[i])
  <1> DEFINE led == Leader(order)
  <1>1. led = [i \in 0..Len(order) |-> IF i = 0 THEN NoLeader ELSE Better(led[i - 1], order[i])]
    BY LeaderExists DEF Leader, NoLeader
  <1> HIDE DEF led
  <1>2. led[0] = NoLeader /\ \A i \in 1..Len(order) : led[i] = Better(led[i - 1], order[i])
    BY <1>1
  <1> QED
    BY <1>2 DEF led

\* The leader of what was compared is one of them, and read at least as much as each.
Leads(order, n) ==
    LET u == Leader(order)[n] IN
    /\ n = 0 => u = NoLeader
    /\ n > 0 => \E i \in 1..n : u = order[i]
    /\ \A i \in 1..n : order[i].total < u.total \/ (order[i].total = u.total /\ u.key <= order[i].key)

LEMMA LeaderLeads ==
    ASSUME NEW order, Len(order) \in Nat,
           \A i \in 1..Len(order) : order[i].total \in Nat /\ order[i].key \in Nat
    PROVE  Leads(order, Len(order))
  <1> DEFINE S == {n \in Nat : n <= Len(order) => Leads(order, n)}
  <1>1. 0 \in S
    BY LeaderSteps DEF Leads
  <1>2. ASSUME NEW n \in Nat, n \in S PROVE n + 1 \in S
    <2> SUFFICES ASSUME n + 1 <= Len(order) PROVE Leads(order, n + 1)
      OBVIOUS
    <2>1. Leads(order, n) /\ n + 1 \in 1..Len(order)
      BY <1>2
    <2> DEFINE b == Leader(order)[n]
               u == order[n + 1]
    <2>2. Leader(order)[n + 1] = Better(b, u)
      BY <2>1, LeaderSteps
    <2>3. u.total \in Nat /\ u.key \in Nat
      BY <2>1
    <2>4. CASE n = 0
      <3>1. b = NoLeader
        BY <2>1, <2>4 DEF Leads
      <3>2. Leader(order)[n + 1] = order[1]
        BY <2>2, <2>3, <2>4, <3>1 DEF Better, NoLeader
      <3> QED
        BY <2>3, <2>4, <3>2 DEF Leads
    <2>5. CASE n > 0
      <3>1. PICK i \in 1..n : b = order[i]
        BY <2>1, <2>5 DEF Leads
      <3>2. b.total \in Nat /\ b.key \in Nat
        BY <2>1, <3>1
      <3>3. \A j \in 1..n : order[j].total < b.total \/ (order[j].total = b.total /\ b.key <= order[j].key)
        BY <2>1 DEF Leads
      <3>4. \A j \in 1..n : order[j].total \in Nat /\ order[j].key \in Nat
        BY <2>1
      <3> HIDE DEF b, u
      <3>5. CASE Better(b, u) = u /\ (u.total > b.total \/ (u.total = b.total /\ u.key < b.key))
        <4>1. \A j \in 1..n : order[j].total < u.total \/ (order[j].total = u.total /\ u.key <= order[j].key)
          <5> TAKE j \in 1..n
          <5>1. order[j].total < b.total \/ (order[j].total = b.total /\ b.key <= order[j].key)
            BY <3>3
          <5>2. u.total > b.total \/ (u.total = b.total /\ u.key < b.key)
            BY <3>5
          <5>3. order[j].total \in Nat /\ order[j].key \in Nat
            BY <3>4
          <5> QED
            BY <2>3, <3>2, <5>1, <5>2, <5>3
        <4> QED
          BY <2>2, <2>3, <3>5, <4>1 DEF Leads, u
      <3>6. CASE Better(b, u) = b /\ ~(u.total > b.total \/ (u.total = b.total /\ u.key < b.key))
        <4>1. u.total < b.total \/ (u.total = b.total /\ b.key <= u.key)
          BY <2>3, <3>2, <3>6
        <4>2. \A j \in 1..(n + 1) : order[j].total < b.total \/ (order[j].total = b.total /\ b.key <= order[j].key)
          BY <3>3, <4>1 DEF u
        <4> QED
          BY <2>2, <3>1, <3>6, <4>2 DEF Leads
      <3> QED
        BY <3>5, <3>6 DEF Better
    <2> QED
      BY <2>4, <2>5
  <1> HIDE DEF S
  <1>3. Nat \subseteq S
    BY <1>1, <1>2, Inductive
  <1> QED
    BY <1>3 DEF S

\* An order goes through the whole map.
LEMMA OrderIsOnto ==
    ASSUME NEW usage, IsFiniteSet(usage), NEW order \in SetToSeqs(usage)
    PROVE  /\ Len(order) \in Nat /\ DOMAIN order = 1..Len(order)
           /\ \A i \in 1..Len(order) : order[i] \in usage
           /\ \A u \in usage : \E i \in 1..Len(order) : u = order[i]
  <1> DEFINE D == 1..Cardinality(usage)
  <1>1. Cardinality(usage) \in Nat
    BY FS_CardinalityType
  <1>2. order \in [D -> usage] /\ \A i, j \in D : i # j => order[i] # order[j]
    BY DEF SetToSeqs
  <1>3. order \in Injection(D, usage)
    BY <1>2 DEF Injection, IsInjective
  <1>4. Cardinality(D) = Cardinality(usage)
    BY <1>1, FS_Interval
  <1>5. order \in Surjection(D, usage)
    BY <1>3, <1>4, FS_Injection
  <1>6. order \in Seq(usage) /\ Len(order) = Cardinality(usage)
    BY <1>1, <1>2
  <1> QED
    BY <1>1, <1>2, <1>5, <1>6 DEF Surjection

-----------------------------------------------------------------------------
(* The decoders and Run. *)

\* A turn that failed on a refusal of this kind, and names no other status.
Refuses(line, kind) ==
    /\ line.type = "turn.failed"
    /\ line.message.document \in {0, Codes[kind]}
    /\ line.message.document = 0 =>
           line.message.prose \in {None, Codes[kind]} \/ line.message.prose > MaxInt

\* What was decoded is this envelope, in some order of its map; the run may only add
\* that it failed.
Parsed(d, e) ==
    \E order \in SetToSeqs(e.usage) :
        LET p == Parse(e, order) IN
        /\ d.text = p.text /\ d.blocked = p.blocked /\ d.model = p.model
        /\ p.isError => d.isError

\* What a result says of the shape it was to have.
InShape(r) ==
    /\ r.structured # None => schema /\ IsPayload(r.structured)
    /\ schema /\ ~r.isError => r.structured # None

\* What codex's decoder holds was read from the lines: the last answer, an end of the
\* turn, a refusal.
CodexRead ==
    /\ \A i \in DOMAIN seen : LastAnswer(i) =>
          decoder.text = seen[i].text /\ <<"text", decoder.text>> \in shown
    /\ decoder.complete =>
          \E i \in DOMAIN seen : seen[i].type \in {"turn.completed", "turn.failed"}
    /\ decoder.blocked # None =>
          decoder.isError /\ \E i \in DOMAIN seen : Refuses(seen[i], decoder.blocked)

\* What Claude Code's holds is the last envelope of the run, held to the shape.
ClaudeRead ==
    decoder.complete =>
        /\ InShape(decoder)
        /\ \E i \in DOMAIN seen : LastEnvelope(i) /\ Parsed(decoder, seen[i])

\* A result is the decoder's, and the decoder's was read from the lines.
VerdictInv ==
    /\ dialect \in {"codex", "claude"}
    /\ seen \in Seq(IF dialect = "codex" THEN CodexLines ELSE ClaudeLines)
    /\ dialect = "codex" => DOMAIN decoder = DOMAIN NewDecoder /\ decoder.text # None
    /\ dialect = "codex" /\ ended # "outage" => CodexRead
    /\ dialect = "claude" /\ ended # "outage" => ClaudeRead
    /\ ended = "result" =>
          /\ decoder.complete
          /\ result = IF dialect = "codex" THEN CodexResult(decoder) ELSE [f \in DOMAIN Nobody |-> decoder[f]]

LEMMA InitVerdictInv == Init => VerdictInv
  <1> SUFFICES ASSUME Init PROVE VerdictInv
    OBVIOUS
  <1>1. decoder = NewDecoder /\ decoder.text = "" /\ decoder.blocked = None /\ decoder.complete = FALSE
    BY DEF Init, NewDecoder
  <1>2. ended = "no" /\ dialect \in {"codex", "claude"} /\ seen = <<>>
    BY DEF Init
  <1>3. CodexRead /\ ClaudeRead
    <2>1. DOMAIN seen = {}
      BY <1>2
    <2> QED
      BY <1>1, <2>1 DEF CodexRead, ClaudeRead
  <1>4. seen \in Seq(IF dialect = "codex" THEN CodexLines ELSE ClaudeLines)
    BY <1>2
  <1>5. decoder.text # None
    BY <1>1, VerdictAssumption
  <1> QED
    BY <1>1, <1>2, <1>3, <1>4, <1>5 DEF VerdictInv

\* Codex is called blocked on a refusal's word only.
LEMMA BlockedOnARefusal ==
    ASSUME NEW line \in CodexLines, line.type = "turn.failed", CodexBlocked(line.message) # None
    PROVE  Refuses(line, CodexBlocked(line.message))
  <1> DEFINE m == line.message
             s == EmbeddedStatus(m)
  <1>1. m.document \in Int /\ m.prose \in Nat \cup {None} /\ None \notin Int /\ MaxInt \in Nat
    BY VerdictAssumption
  <1>2. CASE s # None
    <2>1. CodexBlocked(m) = Reason(s)
      BY <1>2 DEF CodexBlocked
    <2>2. s = Codes[Reason(s)]
      BY <2>1 DEF Reason, Codes
    <2>3. m.document = s \/ (m.document = 0 /\ m.prose = s)
      BY <1>2 DEF EmbeddedStatus
    <2>4. s = Codes[CodexBlocked(m)] /\ s # 0
      BY <2>1, <2>2 DEF Reason, Codes
    <2> HIDE DEF s
    <2>5. m.document \in {0, Codes[CodexBlocked(m)]}
      BY <2>3, <2>4
    <2>6. m.document = 0 => m.prose = Codes[CodexBlocked(m)]
      BY <2>3, <2>4
    <2> QED
      BY <2>5, <2>6 DEF Refuses
  <1>3. CASE s = None
    <2>1. m.document = 0 /\ (m.prose = None \/ m.prose > MaxInt)
      BY <1>1, <1>3 DEF EmbeddedStatus
    <2> HIDE DEF m
    <2> QED
      BY <2>1 DEF Refuses, m
  <1> QED
    BY <1>2, <1>3

\* What codex's decoder makes of a line: the fields, the text, the refusal, the end.
LEMMA CodexFolds ==
    ASSUME NEW d, DOMAIN d = DOMAIN NewDecoder, d.text # None, NEW line \in CodexLines
    PROVE  LET e == CodexFold(d, line) IN
           /\ DOMAIN e = DOMAIN NewDecoder /\ e.text # None
           /\ e.text = IF IsAnswer(line) THEN line.text ELSE d.text
           /\ line.type \notin {"turn.completed", "turn.failed"} => e.complete = d.complete
           /\ IF line.type = "turn.failed" THEN e.isError /\ e.blocked = CodexBlocked(line.message)
              ELSE e.isError = d.isError /\ e.blocked = d.blocked
  <1>1. CASE line.type = "thread.started"
    BY <1>1 DEF CodexFold, NewDecoder, IsAnswer
  <1>2. CASE line.type = "turn.started"
    BY <1>2 DEF CodexFold, NewDecoder, IsAnswer
  <1>3. CASE IsAnswer(line)
    <2>1. line.text # None
      BY <1>3, VerdictAssumption DEF IsAnswer
    <2> QED
      BY <1>3, <2>1 DEF CodexFold, NewDecoder, IsAnswer
  <1>4. CASE line.type = "turn.completed"
    BY <1>4 DEF CodexFold, NewDecoder, IsAnswer
  <1>5. CASE line.type = "turn.failed"
    BY <1>5 DEF CodexFold, NewDecoder, IsAnswer
  <1>6. CASE /\ ~IsAnswer(line)
             /\ line.type \notin {"thread.started", "turn.started", "turn.completed", "turn.failed"}
    <2>1. CodexFold(d, line) = d
      BY <1>6 DEF CodexFold, IsAnswer
    <2> QED
      BY <1>6, <2>1
  <1> QED
    BY <1>1, <1>2, <1>3, <1>4, <1>5, <1>6

\* A line more: those before are where they were, and the new one is the last.
LEMMA Appended ==
    ASSUME NEW S, seen \in Seq(S), NEW line \in S, seen' = Append(seen, line)
    PROVE  /\ seen' \in Seq(S)
           /\ DOMAIN seen = 1..Len(seen) /\ Len(seen) \in Nat
           /\ DOMAIN seen' = 1..(Len(seen) + 1) /\ Len(seen') = Len(seen) + 1
           /\ \A i \in DOMAIN seen : seen'[i] = seen[i]
           /\ seen'[Len(seen) + 1] = line
  OBVIOUS

\* The new line is the last answer, or the last answer is the one it was.
LEMMA LastAnswerMoves ==
    ASSUME NEW S, seen \in Seq(S), NEW line \in S, seen' = Append(seen, line),
           NEW i \in DOMAIN seen', LastAnswer(i)'
    PROVE  \/ i = Len(seen) + 1 /\ IsAnswer(line)
           \/ i \in DOMAIN seen /\ LastAnswer(i) /\ ~IsAnswer(line)
  <1>1. IsAnswer(seen'[i]) /\ \A j \in (i + 1)..Len(seen') : ~IsAnswer(seen'[j])
    BY DEF LastAnswer, IsAnswer
  <1>2. CASE i = Len(seen) + 1
    BY <1>1, <1>2, Appended
  <1>3. CASE i # Len(seen) + 1
    <2>1. i \in DOMAIN seen /\ i \in Int /\ Len(seen) + 1 \in (i + 1)..Len(seen')
      BY <1>3, Appended
    <2>2. ~IsAnswer(line)
      BY <1>1, <2>1, Appended
    <2>3. \A j \in (i + 1)..Len(seen) : ~IsAnswer(seen[j])
      <3> TAKE j \in (i + 1)..Len(seen)
      <3>1. j \in DOMAIN seen /\ j \in (i + 1)..Len(seen')
        BY <2>1, Appended
      <3> QED
        BY <1>1, <3>1, Appended
    <2>4. IsAnswer(seen[i])
      BY <1>1, <2>1, Appended
    <2> QED
      BY <2>1, <2>2, <2>3, <2>4 DEF LastAnswer
  <1> QED
    BY <1>2, <1>3

\* Codex's part of the invariant, line by line.
LEMMA CodexStep ==
    ASSUME VerdictInv, NEW line \in CodexLines, DecodesCodex(line)
    PROVE  VerdictInv'
  <1>1. /\ UNCHANGED <<dialect, schema, ended, result>> /\ dialect = "codex" /\ ended = "no"
        /\ decoder' = CodexFold(decoder, line)
        /\ shown' = shown \cup CodexEvents(line)
        /\ seen' = Append(seen, line)
    BY DEF DecodesCodex, Takes
  <1>2. seen \in Seq(CodexLines) /\ DOMAIN decoder = DOMAIN NewDecoder /\ decoder.text # None
    BY <1>1 DEF VerdictInv
  <1>3. DOMAIN decoder' = DOMAIN NewDecoder /\ decoder'.text # None
    BY <1>1, <1>2, CodexFolds
  <1>4. ASSUME NEW i \in DOMAIN seen', LastAnswer(i)'
        PROVE  decoder'.text = seen'[i].text /\ <<"text", decoder'.text>> \in shown'
    <2>1. CASE i = Len(seen) + 1 /\ IsAnswer(line)
      <3>1. seen'[i] = line /\ decoder'.text = line.text
        BY <1>1, <1>2, <2>1, Appended, CodexFolds
      <3>2. <<"text", line.text>> \in CodexEvents(line)
        BY <2>1 DEF IsAnswer, CodexEvents
      <3> QED
        BY <1>1, <3>1, <3>2
    <2>2. CASE i \in DOMAIN seen /\ LastAnswer(i) /\ ~IsAnswer(line)
      <3>1. seen'[i] = seen[i] /\ decoder'.text = decoder.text
        BY <1>1, <1>2, <2>2, Appended, CodexFolds
      <3>2. decoder.text = seen[i].text /\ <<"text", decoder.text>> \in shown
        BY <1>1, <2>2 DEF VerdictInv, CodexRead
      <3> QED
        BY <1>1, <3>1, <3>2
    <2> QED
      BY <1>1, <1>2, <1>4, <2>1, <2>2, LastAnswerMoves
  <1>5. decoder'.complete => \E i \in DOMAIN seen' : seen'[i].type \in {"turn.completed", "turn.failed"}
    <2> SUFFICES ASSUME decoder'.complete
                 PROVE  \E i \in DOMAIN seen' : seen'[i].type \in {"turn.completed", "turn.failed"}
      OBVIOUS
    <2>1. CASE line.type \in {"turn.completed", "turn.failed"}
      <3>1. Len(seen) + 1 \in DOMAIN seen' /\ seen'[Len(seen) + 1] = line
        BY <1>1, <1>2, Appended
      <3> QED
        BY <2>1, <3>1
    <2>2. CASE line.type \notin {"turn.completed", "turn.failed"}
      <3>1. decoder.complete
        BY <1>1, <1>2, <2>2, CodexFolds
      <3>2. PICK i \in DOMAIN seen : seen[i].type \in {"turn.completed", "turn.failed"}
        BY <1>1, <3>1 DEF VerdictInv, CodexRead
      <3>3. i \in DOMAIN seen' /\ seen'[i] = seen[i]
        BY <1>1, <1>2, Appended
      <3> QED
        BY <3>2, <3>3
    <2> QED
      BY <2>1, <2>2
  <1>6. decoder'.blocked # None =>
           decoder'.isError /\ \E i \in DOMAIN seen' : Refuses(seen'[i], decoder'.blocked)
    <2> SUFFICES ASSUME decoder'.blocked # None
                 PROVE  decoder'.isError /\ \E i \in DOMAIN seen' : Refuses(seen'[i], decoder'.blocked)
      OBVIOUS
    <2>1. CASE line.type = "turn.failed"
      <3>1. decoder'.isError /\ decoder'.blocked = CodexBlocked(line.message)
        BY <1>1, <1>2, <2>1, CodexFolds
      <3>2. Refuses(line, decoder'.blocked)
        BY <2>1, <3>1, BlockedOnARefusal
      <3>3. Len(seen) + 1 \in DOMAIN seen' /\ seen'[Len(seen) + 1] = line
        BY <1>1, <1>2, Appended
      <3> QED
        BY <3>1, <3>2, <3>3
    <2>2. CASE line.type # "turn.failed"
      <3>1. decoder'.isError = decoder.isError /\ decoder'.blocked = decoder.blocked
        BY <1>1, <1>2, <2>2, CodexFolds
      <3>2. decoder.isError /\ \E i \in DOMAIN seen : Refuses(seen[i], decoder.blocked)
        BY <1>1, <3>1 DEF VerdictInv, CodexRead
      <3>3. PICK i \in DOMAIN seen : Refuses(seen[i], decoder.blocked)
        BY <3>2
      <3>4. i \in DOMAIN seen' /\ seen'[i] = seen[i]
        BY <1>1, <1>2, Appended
      <3> QED
        BY <3>1, <3>2, <3>3, <3>4
    <2> QED
      BY <2>1, <2>2
  <1>7. seen' \in Seq(CodexLines)
    BY <1>1, <1>2, Appended
  <1> QED
    BY <1>1, <1>3, <1>4, <1>5, <1>6, <1>7 DEF VerdictInv, CodexRead, Refuses

\* An envelope that is parsed is held to the shape the run must answer in.
LEMMA EnvelopeIsHeld ==
    ASSUME NEW e \in ClaudeLines, e.type = "result", NEW order \in SetToSeqs(e.usage)
    PROVE  Parsed(ClaudeFold(e, order), e) /\ InShape(ClaudeFold(e, order))
  <1> DEFINE p == Parse(e, order)
             d == ClaudeFold(e, order)
             answered == e.structured \notin {None, "null"}
  <1>1. /\ d.structured = IF schema /\ answered THEN e.structured ELSE None
        /\ d.isError = (e.isError \/ (schema /\ ~answered))
        /\ p.isError = e.isError
        /\ d.text = p.text /\ d.blocked = p.blocked /\ d.model = p.model
    BY DEF ClaudeFold, Parse
  <1>2. e.structured \notin {"", "prose"}
    BY VerdictAssumption
  <1> HIDE DEF p, d
  <1>3. InShape(d)
    BY <1>1, <1>2 DEF InShape, IsPayload
  <1>4. d.text = p.text /\ d.blocked = p.blocked /\ d.model = p.model /\ (p.isError => d.isError)
    BY <1>1
  <1>5. Parsed(d, e)
    BY <1>4 DEF Parsed, p
  <1> QED
    BY <1>3, <1>5 DEF d

\* What was read stays read while the decoder and the lines do.
LEMMA ReadStays ==
    ASSUME UNCHANGED <<schema, decoder, seen, shown>>
    PROVE  (CodexRead => CodexRead') /\ (ClaudeRead => ClaudeRead')
  <1>1. CodexRead => CodexRead'
    BY DEF CodexRead, LastAnswer, Refuses
  <1>2. InShape(decoder) => InShape(decoder)'
    BY DEF InShape
  <1>3. \A i : LastEnvelope(i) => LastEnvelope(i)'
    BY DEF LastEnvelope
  <1>4. ClaudeRead => ClaudeRead'
    BY <1>2, <1>3 DEF ClaudeRead
  <1> QED
    BY <1>1, <1>4

\* Claude Code's part: the last envelope is the one that was parsed.
LEMMA ClaudeStep ==
    ASSUME VerdictInv, NEW line \in ClaudeLines, DecodesClaude(line)
    PROVE  VerdictInv'
  <1>1. /\ UNCHANGED <<dialect, schema, ended, result>> /\ dialect = "claude" /\ ended = "no"
        /\ seen' = Append(seen, line)
    BY DEF DecodesClaude, Takes
  <1>2. seen \in Seq(ClaudeLines) /\ seen' \in Seq(ClaudeLines)
    BY <1>1, Appended DEF VerdictInv
  <1>3. ASSUME decoder'.complete
        PROVE  /\ InShape(decoder)'
               /\ \E i \in DOMAIN seen' : LastEnvelope(i)' /\ Parsed(decoder', seen'[i])
    <2>1. CASE IsEnvelope(line)
      <3>1. PICK order \in SetToSeqs(line.usage) : decoder' = ClaudeFold(line, order)
        BY <2>1 DEF DecodesClaude, IsEnvelope
      <3>4. Parsed(decoder', line) /\ InShape(decoder')
        BY <2>1, <3>1, EnvelopeIsHeld DEF IsEnvelope
      <3>2. PICK n \in DOMAIN seen' : n = Len(seen) + 1 /\ seen'[n] = line
        BY <1>1, <1>2, Appended
      <3>3. LastEnvelope(n)'
        <4>1. \A j \in (n + 1)..Len(seen') : FALSE
          BY <1>1, <1>2, <3>2, Appended
        <4> QED
          BY <2>1, <3>2, <4>1 DEF LastEnvelope
      <3> QED
        BY <1>1, <3>2, <3>3, <3>4 DEF InShape
    <2>2. CASE ~IsEnvelope(line)
      <3>1. decoder' = decoder
        BY <2>2 DEF DecodesClaude, IsEnvelope
      <3>5. ClaudeRead /\ decoder.complete
        BY <1>1, <1>3, <3>1 DEF VerdictInv
      <3>2. PICK i \in DOMAIN seen : LastEnvelope(i) /\ Parsed(decoder, seen[i])
        BY <3>5 DEF ClaudeRead
      <3>3. i \in DOMAIN seen' /\ seen'[i] = seen[i]
        BY <1>1, <1>2, Appended
      <3>4. \A j \in (i + 1)..Len(seen') : ~IsEnvelope(seen'[j])
        <4> TAKE j \in (i + 1)..Len(seen')
        <4>1. CASE j = Len(seen) + 1
          BY <1>1, <1>2, <2>2, <4>1, Appended
        <4>2. CASE j # Len(seen) + 1
          <5>1. j \in (i + 1)..Len(seen) /\ j \in DOMAIN seen
            BY <1>1, <1>2, <4>2, Appended
          <5> QED
            BY <1>1, <1>2, <3>2, <5>1, Appended DEF LastEnvelope
        <4> QED
          BY <4>1, <4>2
      <3> QED
        <4>1. LastEnvelope(i)'
          BY <3>2, <3>3, <3>4 DEF LastEnvelope
        <4>2. InShape(decoder)'
          BY <1>1, <3>1, <3>5 DEF ClaudeRead, InShape
        <4> QED
          BY <3>1, <3>2, <3>3, <4>1, <4>2
    <2> QED
      BY <2>1, <2>2
  <1>4. ClaudeRead'
    BY <1>3 DEF ClaudeRead
  <1> QED
    BY <1>1, <1>2, <1>4 DEF VerdictInv

\* VerdictInv is an invariant of the two decoders and of Run.
THEOREM VerdictInvariant == Spec => []VerdictInv
  <1>1. VerdictInv /\ [Next]_vars => VerdictInv'
    <2> SUFFICES ASSUME VerdictInv, [Next]_vars PROVE VerdictInv'
      OBVIOUS
    <2>1. ASSUME NEW line \in CodexLines, DecodesCodex(line)
          PROVE  VerdictInv'
      BY <2>1, CodexStep
    <2>2. ASSUME NEW line \in ClaudeLines, DecodesClaude(line)
          PROVE  VerdictInv'
      BY <2>2, ClaudeStep
    <2>3. ASSUME NEW line, CannotDecode(line),
                 line \in IF dialect = "codex" THEN CodexLines ELSE ClaudeLines
          PROVE  VerdictInv'
      <3>1. /\ UNCHANGED <<dialect, schema, decoder, shown, result>> /\ ended' = "outage"
            /\ seen' = Append(seen, line)
        BY <2>3 DEF CannotDecode, Takes
      <3>2. seen' \in Seq(IF dialect = "codex" THEN CodexLines ELSE ClaudeLines)
        BY <2>3, <3>1, Appended DEF VerdictInv
      <3> QED
        BY <3>1, <3>2 DEF VerdictInv
    <2>4. CASE Ends
      <3>1. UNCHANGED <<dialect, schema, decoder, seen, shown>> /\ ended = "no"
        BY <2>4 DEF Ends
      <3>2. ended' = "result" =>
              /\ decoder.complete
              /\ result' = IF dialect = "codex" THEN CodexResult(decoder) ELSE [f \in DOMAIN Nobody |-> decoder[f]]
        BY <2>4 DEF Ends
      <3> QED
        BY <3>1, <3>2, ReadStays DEF VerdictInv, CodexResult, CodexAnswer, Unmet
    <2>5. CASE UNCHANGED vars
      <3>1. UNCHANGED <<dialect, schema, decoder, seen, shown, ended, result>>
        BY <2>5 DEF vars
      <3> QED
        BY <3>1, ReadStays DEF VerdictInv, CodexResult, CodexAnswer, Unmet
    <2> QED
      BY <2>1, <2>2, <2>3, <2>4, <2>5 DEF Next, VerdictInv
  <1> QED
    BY <1>1, InitVerdictInv, PTL DEF Spec

-----------------------------------------------------------------------------
(* What the results say. *)

\* The text of codex's result, and its failures.
LEMMA CodexResults ==
    ASSUME NEW d
    PROVE  LET r == CodexResult(d) IN
           /\ r.text = CodexAnswer(d) /\ r.blocked = d.blocked
           /\ r.isError = (d.isError \/ Unmet(d))
           /\ r.structured = IF schema /\ ~Unmet(d) THEN d.text ELSE None
           /\ d.text # "" => r.text = d.text
  BY DEF CodexResult, CodexAnswer

\* A run that had to answer in a shape carries a document or is a failure, and a run
\* that had not carries none.
THEOREM AnswersAreInShape == Spec => []AnswersInShape
  <1>1. VerdictInv => AnswersInShape
    <2> SUFFICES ASSUME VerdictInv, HasResult PROVE InShape(result)
      BY DEF AnswersInShape, InShape
    <2>1. CASE dialect = "codex"
      <3>1. result = CodexResult(decoder) /\ decoder.text # None
        BY <2>1 DEF VerdictInv, HasResult
      <3>2. ~Unmet(decoder) => ~schema \/ IsPayload(decoder.text)
        BY DEF Unmet
      <3> QED
        BY <3>1, <3>2, CodexResults DEF InShape
    <2>2. CASE dialect = "claude"
      <3>1. InShape(decoder) /\ result = [f \in DOMAIN Nobody |-> decoder[f]]
        BY <2>2 DEF VerdictInv, HasResult, ClaudeRead
      <3>2. result.structured = decoder.structured /\ result.isError = decoder.isError
        BY <3>1 DEF Nobody
      <3> QED
        BY <3>1, <3>2 DEF InShape
    <2> QED
      BY <2>1, <2>2 DEF VerdictInv
  <1> QED
    BY <1>1, VerdictInvariant, PTL

\* Claude Code's result is its last envelope, in some order of its map.
LEMMA LastEnvelopeResult ==
    ASSUME VerdictInv, HasResult, dialect = "claude"
    PROVE  \E i \in DOMAIN seen : \E order \in SetToSeqs(seen[i].usage) :
              /\ seen[i] \in ClaudeLines /\ LastEnvelope(i)
              /\ result.text = ClaudeText(seen[i]) /\ result.blocked = ClaudeBlocked(seen[i])
              /\ result.model = Model(order)
              /\ seen[i].isError => result.isError
  <1>1. /\ decoder.complete /\ ClaudeRead /\ seen \in Seq(ClaudeLines)
        /\ result = [f \in DOMAIN Nobody |-> decoder[f]]
    BY DEF VerdictInv, HasResult
  <1>2. /\ result.text = decoder.text /\ result.blocked = decoder.blocked
        /\ result.model = decoder.model /\ result.isError = decoder.isError
    BY <1>1 DEF Nobody
  <1>3. PICK i \in DOMAIN seen : LastEnvelope(i) /\ Parsed(decoder, seen[i])
    BY <1>1 DEF ClaudeRead
  <1>4. seen[i] \in ClaudeLines
    BY <1>1
  <1>5. PICK order \in SetToSeqs(seen[i].usage) :
           LET p == Parse(seen[i], order) IN
           /\ decoder.text = p.text /\ decoder.blocked = p.blocked /\ decoder.model = p.model
           /\ p.isError => decoder.isError
    BY <1>3 DEF Parsed
  <1>6. LET p == Parse(seen[i], order) IN
        /\ p.text = ClaudeText(seen[i]) /\ p.blocked = ClaudeBlocked(seen[i])
        /\ p.model = Model(order) /\ p.isError = seen[i].isError
    BY DEF Parse
  <1> QED
    BY <1>2, <1>3, <1>4, <1>5, <1>6

\* A run is called blocked only if it failed, and on the word of a refusal that names
\* no other status.
THEOREM BlockedRunsAreRefused == Spec => []BlockedIsRefused
  <1>1. VerdictInv => BlockedIsRefused
    <2> SUFFICES ASSUME VerdictInv, HasResult, result.blocked # None
                 PROVE  /\ result.isError
                        /\ dialect = "codex" => \E i \in DOMAIN seen : Refuses(seen[i], result.blocked)
                        /\ dialect = "claude" =>
                              \E i \in DOMAIN seen : LastEnvelope(i) /\ seen[i].status = Codes[result.blocked]
      BY DEF BlockedIsRefused, Refuses
    <2>1. CASE dialect = "codex"
      <3>1. result = CodexResult(decoder) /\ CodexRead
        BY <2>1 DEF VerdictInv, HasResult
      <3>2. result.blocked = decoder.blocked /\ result.isError = (decoder.isError \/ Unmet(decoder))
        BY <3>1, CodexResults
      <3> QED
        BY <2>1, <3>1, <3>2 DEF CodexRead
    <2>2. CASE dialect = "claude"
      <3>1. PICK i \in DOMAIN seen :
               /\ seen[i] \in ClaudeLines /\ LastEnvelope(i)
               /\ result.blocked = ClaudeBlocked(seen[i])
               /\ seen[i].isError => result.isError
        BY <2>2, LastEnvelopeResult
      <3>2. seen[i].isError /\ result.blocked = Reason(seen[i].status)
        BY <3>1 DEF ClaudeBlocked
      <3>3. seen[i].status = Codes[result.blocked]
        BY <3>2 DEF Reason, Codes
      <3> QED
        BY <2>2, <3>1, <3>2, <3>3
    <2> QED
      BY <2>1, <2>2 DEF VerdictInv
  <1> QED
    BY <1>1, VerdictInvariant, PTL

\* A failure explains itself; Claude Code's as far as its envelope names one.
THEOREM FailuresSpeak == Spec => []FailureSpeaks
  <1>1. VerdictInv => FailureSpeaks
    <2> SUFFICES ASSUME VerdictInv, HasResult, result.isError, result.text = ""
                 PROVE  /\ dialect = "claude"
                        /\ \E i \in DOMAIN seen : LastEnvelope(i) /\ (seen[i].subtype = "" \/ ~seen[i].isError)
      BY DEF FailureSpeaks
    <2>1. CASE dialect = "codex"
      <3>1. result = CodexResult(decoder)
        BY <2>1 DEF VerdictInv, HasResult
      <3>2. CodexAnswer(decoder) = "" /\ (decoder.isError \/ Unmet(decoder))
        BY <3>1, CodexResults
      <3> QED
        BY <3>2 DEF CodexAnswer
    <2>2. CASE dialect = "claude"
      <3>1. PICK i \in DOMAIN seen : LastEnvelope(i) /\ result.text = ClaudeText(seen[i])
        BY <2>2, LastEnvelopeResult
      <3>2. seen[i].subtype = "" \/ ~seen[i].isError
        BY <3>1 DEF ClaudeText
      <3> QED
        BY <2>2, <3>1, <3>2
    <2> QED
      BY <2>1, <2>2 DEF VerdictInv
  <1> QED
    BY <1>1, VerdictInvariant, PTL

\* A result rests on a line that said how the run ended, and its text is the last
\* thing the agent said, which whoever watched codex has been shown.
THEOREM LastWordIsLast == Spec => []LastWord
  <1>1. VerdictInv => LastWord
    <2> SUFFICES ASSUME VerdictInv, HasResult PROVE LastWord
      BY DEF LastWord
    <2>1. CASE dialect = "codex"
      <3>1. result = CodexResult(decoder) /\ CodexRead /\ decoder.complete
        BY <2>1 DEF VerdictInv, HasResult
      <3>2. ASSUME NEW i \in DOMAIN seen, LastAnswer(i)
            PROVE  result.text = seen[i].text /\ <<"text", result.text>> \in shown
        <4>1. decoder.text = seen[i].text /\ <<"text", decoder.text>> \in shown /\ decoder.text # ""
          BY <3>1, <3>2 DEF CodexRead, LastAnswer, IsAnswer
        <4>2. result.text = decoder.text
          BY <3>1, <4>1, CodexResults
        <4> QED
          BY <4>1, <4>2
      <3>3. \E i \in DOMAIN seen : seen[i].type \in {"turn.completed", "turn.failed", "result"}
        BY <3>1 DEF CodexRead
      <3> QED
        BY <2>1, <3>2, <3>3 DEF LastWord
    <2>2. CASE dialect = "claude"
      <3>1. PICK i \in DOMAIN seen : LastEnvelope(i) /\ result.text = ClaudeText(seen[i])
        BY <2>2, LastEnvelopeResult
      <3>2. result.text \in {seen[i].text, "claude ended the turn"}
        BY <3>1 DEF ClaudeText
      <3>3. seen[i].type = "result"
        BY <3>1 DEF LastEnvelope, IsEnvelope
      <3> QED
        BY <2>2, <3>1, <3>2, <3>3 DEF LastWord
    <2> QED
      BY <2>1, <2>2 DEF VerdictInv
  <1> QED
    BY <1>1, VerdictInvariant, PTL

\* The model named is the one that read most, the first by name of those that tie, in
\* whatever order the map is ranged over.
THEOREM MainModelIsNamed == Spec => []MainModel
  <1>1. VerdictInv => MainModel
    <2> SUFFICES ASSUME VerdictInv, HasResult, dialect = "claude" PROVE MainModel
      BY DEF MainModel
    <2>1. PICK i \in DOMAIN seen : \E order \in SetToSeqs(seen[i].usage) :
             /\ seen[i] \in ClaudeLines /\ LastEnvelope(i)
             /\ result.model = Model(order)
      BY LastEnvelopeResult
    <2>2. PICK order \in SetToSeqs(seen[i].usage) :
             /\ seen[i] \in ClaudeLines /\ LastEnvelope(i)
             /\ result.model = Model(order)
      BY <2>1
    <2> DEFINE usage == seen[i].usage
               n == Len(order)
               u == Leader(order)[n]
    <2>3. IsFiniteSet(usage) /\ \A w \in usage : w.total \in Nat /\ w.key \in Nat
      BY <2>2, VerdictAssumption DEF LastEnvelope, IsEnvelope
    <2>4. /\ n \in Nat
          /\ \A j \in 1..n : order[j] \in usage
          /\ \A w \in usage : \E j \in 1..n : w = order[j]
      BY <2>3, OrderIsOnto
    <2>5. Leads(order, n)
      BY <2>3, <2>4, LeaderLeads
    <2>6. result.model = IF u.key # 0 /\ u.canonical # 0 THEN u.canonical ELSE u.key
      BY <2>2 DEF Model
    <2>7. /\ n = 0 => u = NoLeader
          /\ n > 0 => \E j \in 1..n : u = order[j]
          /\ \A j \in 1..n : order[j].total < u.total \/ (order[j].total = u.total /\ u.key <= order[j].key)
      BY <2>5 DEF Leads
    <2> HIDE DEF n, u, usage
    <2>8. usage = {} => result.model = 0
      <3> SUFFICES ASSUME usage = {} PROVE result.model = 0
        OBVIOUS
      <3>1. n = 0
        BY <2>4
      <3>2. u.key = 0
        BY <2>7, <3>1 DEF NoLeader
      <3> QED
        BY <2>6, <3>2
    <2>9. usage # {} =>
            \E v \in usage :
               /\ \A w \in usage : w.total < v.total \/ (w.total = v.total /\ v.key <= w.key)
               /\ result.model = IF v.key # 0 /\ v.canonical # 0 THEN v.canonical ELSE v.key
      <3> SUFFICES ASSUME usage # {}
                   PROVE  /\ u \in usage
                          /\ \A w \in usage : w.total < u.total \/ (w.total = u.total /\ u.key <= w.key)
        BY <2>6
      <3>1. n > 0
        BY <2>4
      <3> QED
        BY <2>4, <2>7, <3>1
    <2> QED
      BY <2>2, <2>8, <2>9 DEF MainModel, usage
  <1> QED
    BY <1>1, VerdictInvariant, PTL
=============================================================================
