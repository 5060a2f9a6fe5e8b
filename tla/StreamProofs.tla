---------------------------- MODULE StreamProofs ----------------------------
(***************************************************************************)
(* Proofs about Stream for every pipe and any number of lines: StreamInv   *)
(* is inductive, the safety properties follow, and Stream implements       *)
(* RunContract.                                                            *)
(***************************************************************************)
EXTENDS Stream, SequenceTheorems, TLAPS

-----------------------------------------------------------------------------
(* The initial states. *)

LEMMA InitStreamInv ==
    ASSUME Init PROVE StreamInv
  <1>6. Flags
    BY Zenon DEF Flags, Init
  <1>1. TypeOK
    BY <1>6, StreamAssumption DEF TypeOK, Init, Lines, Verdicts, Statuses
  <1> USE StreamAssumption DEF Init, StreamInv, TypeOK, Reaping, Accounted, KillsOnPurpose, CtxOver,
          OnlyItsOwnDeathIsBlamed, Drained, Held, ctxVars, cliVars, execVars, readVars, endVars,
          Verdicts, Statuses
  <1>2. Reaping
    OBVIOUS
  <1>3. Accounted
    OBVIOUS
  <1>4. KillsOnPurpose
    OBVIOUS
  <1>5. Drained
    OBVIOUS
  <1> QED
    BY <1>1, <1>2, <1>3, <1>4, <1>5

-----------------------------------------------------------------------------
(* The flags, which are all set outright or left alone.                      *)

LEMMA FlagsStep ==
    ASSUME TypeOK, [Next]_vars PROVE Flags'
  <1>1. Flags
    BY DEF TypeOK
  <1> USE <1>1 DEF Flags, ctxVars, cliVars, execVars, readVars, endVars, Ends
  <1>2. CASE ParentEnds \/ Expires
    BY <1>2, ZenonT(60) DEF ParentEnds, Expires
  <1>3. CASE CLI
    BY <1>3, ZenonT(60) DEF CLI, BeginLine, EndLine, ClosesStdout, HelperExits, Spawns, Exits
  <1>4. CASE Exec
    BY <1>4, ZenonT(60) DEF Exec, Kill, GraceCloses
  <1>5. CASE Caller
    BY <1>5, ZenonT(60) DEF Caller, CallerContinues, CallerStops
  <1>6. ASSUME NEW k, Decodes(k) PROVE
          /\ cancelled' \in BOOLEAN /\ complete' \in BOOLEAN
          /\ decodeErr' \in BOOLEAN /\ scanErr' \in BOOLEAN
    BY <1>6, ZenonT(60) DEF Decodes
  <1>7. CASE ScansLine \/ ScansTooMuch \/ ScansTail
    BY <1>6, <1>7, ZenonT(60) DEF ScansLine, ScansTooMuch, ScansTail
  <1>8. CASE ScansEnd
    BY <1>8, ZenonT(60) DEF ScansEnd
  <1>9. CASE CannotStart \/ Starts
    BY <1>9, ZenonT(60) DEF CannotStart, Starts
  <1>10. CASE WaitReturns \/ DeferredWaitReturns
    <2>1. waitErr' \in BOOLEAN
      BY <1>10, ZenonT(60) DEF WaitReturns, DeferredWaitReturns, Reaps
    <2> QED
      BY <1>10, <2>1, ZenonT(60) DEF WaitReturns, DeferredWaitReturns, Reaps
  <1>11. CASE Judges \/ Explains
    BY <1>11, ZenonT(60) DEF Judges, Explains
  <1>12. CASE UNCHANGED vars
    BY <1>12, ZenonT(60) DEF vars
  <1> QED
    BY <1>2, <1>3, <1>4, <1>5, <1>7, <1>8, <1>9, <1>10, <1>11, <1>12
       DEF Next, Driver, Over

-----------------------------------------------------------------------------
(* The contexts and the CLI. *)

LEMMA ContextStep ==
    ASSUME StreamInv, Flags', ParentEnds \/ Expires PROVE StreamInv'
  <1>1. TypeOK'
    BY StreamAssumption DEF StreamInv, TypeOK, ctxVars, cliVars, execVars, readVars, endVars, ParentEnds, Expires, Verdicts, Statuses
  <1> USE StreamAssumption DEF ParentEnds, Expires, StreamInv, TypeOK, Reaping, Accounted, KillsOnPurpose, CtxOver,
          OnlyItsOwnDeathIsBlamed, Drained, Held, ctxVars, cliVars, execVars, readVars, endVars,
          Verdicts, Statuses
  <1>2. Reaping'
    OBVIOUS
  <1>3. Accounted'
    OBVIOUS
  <1>4. KillsOnPurpose'
    OBVIOUS
  <1>5. Drained'
    OBVIOUS
  <1> QED
    BY <1>1, <1>2, <1>3, <1>4, <1>5

LEMMA BeginLineStep ==
    ASSUME StreamInv, Flags', pc # "ended", NEW k \in Lines, BeginLine(k) PROVE StreamInv'
  <1> USE StreamAssumption DEF BeginLine, StreamInv, TypeOK, Reaping, Accounted, KillsOnPurpose, CtxOver,
          OnlyItsOwnDeathIsBlamed, Drained, Held, ctxVars, cliVars, execVars, readVars, endVars,
          Verdicts, Statuses
  <1>1. TypeOK'
    OBVIOUS
  <1>2. Reaping'
    OBVIOUS
  <1>3. Accounted'
    OBVIOUS
  <1>4. KillsOnPurpose'
    OBVIOUS
  <1>5. Drained'
    OBVIOUS
  <1> QED
    BY <1>1, <1>2, <1>3, <1>4, <1>5

LEMMA EndLineStep ==
    ASSUME StreamInv, Flags', pc # "ended", EndLine PROVE StreamInv'
  <1> USE StreamAssumption DEF EndLine, StreamInv, TypeOK, Reaping, Accounted, KillsOnPurpose, CtxOver,
          OnlyItsOwnDeathIsBlamed, Drained, Held, ctxVars, cliVars, execVars, readVars, endVars,
          Verdicts, Statuses
  <1>6. pipe' \in Seq(Lines) /\ Len(pipe') = Len(pipe) + 1
    OBVIOUS
  <1>1. TypeOK'
    BY <1>6
  <1>2. Reaping'
    OBVIOUS
  <1>3. Accounted'
    BY <1>6
  <1>4. KillsOnPurpose'
    OBVIOUS
  <1>5. Drained'
    BY <1>6
  <1> QED
    BY <1>1, <1>2, <1>3, <1>4, <1>5

LEMMA ClosesStdoutStep ==
    ASSUME StreamInv, Flags', pc # "ended", ClosesStdout PROVE StreamInv'
  <1>1. TypeOK'
    BY StreamAssumption DEF StreamInv, TypeOK, ctxVars, cliVars, execVars, readVars, endVars, ClosesStdout, Verdicts, Statuses
  <1> USE StreamAssumption DEF ClosesStdout, StreamInv, TypeOK, Reaping, Accounted, KillsOnPurpose, CtxOver,
          OnlyItsOwnDeathIsBlamed, Drained, Held, ctxVars, cliVars, execVars, readVars, endVars,
          Verdicts, Statuses
  <1>2. Reaping'
    OBVIOUS
  <1>3. Accounted'
    OBVIOUS
  <1>4. KillsOnPurpose'
    OBVIOUS
  <1>5. Drained'
    OBVIOUS
  <1> QED
    BY <1>1, <1>2, <1>3, <1>4, <1>5

LEMMA HelperStep ==
    ASSUME StreamInv, Flags', pc # "ended",
           HelperExits \/ \E h \in {"grouped", "escaped"}, kept \in (SUBSET Pipes) \ {{}} : Spawns(h, kept)
    PROVE  StreamInv'
  <1>6. /\ helper' \in {"none", "grouped", "escaped"} /\ holds' \in SUBSET Pipes
        /\ helper' = "none" <=> holds' = {}
    <2>1. CASE HelperExits
      BY <2>1 DEF HelperExits
    <2>2. CASE \E h \in {"grouped", "escaped"}, kept \in (SUBSET Pipes) \ {{}} : Spawns(h, kept)
      BY <2>2 DEF Spawns
    <2> QED
      BY <2>1, <2>2, Zenon
  <1> USE StreamAssumption DEF HelperExits, Spawns, StreamInv, TypeOK, Reaping, Accounted, KillsOnPurpose, CtxOver,
          OnlyItsOwnDeathIsBlamed, Drained, Held, ctxVars, cliVars, execVars, readVars, endVars,
          Verdicts, Statuses
  <1>7. UNCHANGED <<pc, child, exit, written, tail, pipe, seen, waits, verdict>>
    OBVIOUS
  <1>1. TypeOK'
    BY <1>6, <1>7
  <1>2. Reaping'
    OBVIOUS
  <1>3. Accounted'
    OBVIOUS
  <1>4. KillsOnPurpose'
    OBVIOUS
  <1>5. Drained'
    OBVIOUS
  <1> QED
    BY <1>1, <1>2, <1>3, <1>4, <1>5

LEMMA ExitStep ==
    ASSUME StreamInv, Flags', pc # "ended", NEW status \in {"ok", "bad"}, Exits(status) PROVE StreamInv'
  <1> USE StreamAssumption DEF Exits, StreamInv, TypeOK, Reaping, Accounted, KillsOnPurpose, CtxOver,
          OnlyItsOwnDeathIsBlamed, Drained, Held, ctxVars, cliVars, execVars, readVars, endVars,
          Verdicts, Statuses
  <1>1. TypeOK'
    OBVIOUS
  <1>2. Reaping'
    OBVIOUS
  <1>3. Accounted'
    OBVIOUS
  <1>4. KillsOnPurpose'
    OBVIOUS
  <1>5. Drained'
    OBVIOUS
  <1> QED
    BY <1>1, <1>2, <1>3, <1>4, <1>5

-----------------------------------------------------------------------------
(* os/exec. *)

LEMMA KillStep ==
    ASSUME StreamInv, Flags', Kill PROVE StreamInv'
  <1> USE StreamAssumption DEF Kill, StreamInv, TypeOK, Reaping, Accounted, KillsOnPurpose, CtxOver,
          OnlyItsOwnDeathIsBlamed, Drained, Held, ctxVars, cliVars, execVars, readVars, endVars,
          Verdicts, Statuses
  <1>1. TypeOK'
    OBVIOUS
  <1>2. Reaping'
    OBVIOUS
  <1>3. Accounted'
    OBVIOUS
  <1>4. KillsOnPurpose'
    OBVIOUS
  <1>5. Drained'
    OBVIOUS
  <1> QED
    BY <1>1, <1>2, <1>3, <1>4, <1>5

LEMMA GraceStep ==
    ASSUME StreamInv, Flags', GraceCloses PROVE StreamInv'
  <1>1. PICK n \in 0..Len(pipe) :
          /\ pipe' = SubSeq(pipe, 1, n)
          /\ tail' \in (IF n = Len(pipe) THEN {tail, None} ELSE {None})
    BY DEF GraceCloses
  <1>2. pipe \in Seq(Lines) /\ Len(pipe) \in Nat
    BY DEF StreamInv, TypeOK
  <1>3. pipe' \in Seq(Lines) /\ Len(pipe') = n
    BY <1>1, <1>2, SubSeqProperties
  <1>4. n <= Len(pipe) /\ tail' \in {tail, None}
    BY <1>1, <1>2
  <1>5. pipe = <<>> => pipe' = <<>>
    BY <1>1, <1>2, <1>3
  <1> QED
    BY <1>3, <1>4, <1>5, StreamAssumption DEF GraceCloses, StreamInv, TypeOK, Reaping, Accounted,
       KillsOnPurpose, CtxOver, OnlyItsOwnDeathIsBlamed, Drained, Held, ctxVars, readVars, endVars

-----------------------------------------------------------------------------
(* The iterator. *)

LEMMA StartStep ==
    ASSUME StreamInv, Flags', CannotStart \/ Starts PROVE StreamInv'
  <1>1. TypeOK'
    BY StreamAssumption DEF StreamInv, TypeOK, ctxVars, cliVars, execVars, readVars, endVars, CannotStart, Starts, Ends, Verdicts, Statuses
  <1> USE StreamAssumption DEF CannotStart, Starts, Ends, StreamInv, TypeOK, Reaping, Accounted, KillsOnPurpose, CtxOver,
          OnlyItsOwnDeathIsBlamed, Drained, Held, ctxVars, cliVars, execVars, readVars, endVars,
          Verdicts, Statuses
  <1>2. Reaping'
    OBVIOUS
  <1>3. Accounted'
    OBVIOUS
  <1>4. KillsOnPurpose'
    OBVIOUS
  <1>5. Drained'
    OBVIOUS
  <1> QED
    BY <1>1, <1>2, <1>3, <1>4, <1>5

\* A line that leaves the pipe or the tail pays for the event it may become.
LEMMA DecodeStep ==
    ASSUME StreamInv, Flags', pc = "scanning", NEW k, Decodes(k),
           pipe' \in Seq(Lines), tail' \in {tail, None},
           Len(pipe') <= Len(pipe),
           k = "event" =>
              Len(pipe') + (IF tail' = None THEN 0 ELSE 1)
                 < Len(pipe) + (IF tail = None THEN 0 ELSE 1),
           UNCHANGED <<parentDone, expired, child, exit, out, helper, holds, written, execVars, endVars>>
    PROVE  StreamInv'
  <1>1. TypeOK'
    BY StreamAssumption DEF StreamInv, TypeOK, ctxVars, cliVars, execVars, readVars, endVars, Decodes, Accounted, Verdicts, Statuses
  <1> USE StreamAssumption DEF Decodes, StreamInv, TypeOK, Reaping, Accounted, KillsOnPurpose, CtxOver,
          OnlyItsOwnDeathIsBlamed, Drained, execVars, endVars,
          Verdicts, Statuses
  <1>2. Reaping'
    OBVIOUS
  <1>3. Accounted'
    OBVIOUS
  <1>4. KillsOnPurpose'
    OBVIOUS
  <1>5. Drained'
    OBVIOUS
  <1> QED
    BY <1>1, <1>2, <1>3, <1>4, <1>5

LEMMA ScanStep ==
    ASSUME StreamInv, Flags', ScansLine \/ ScansTooMuch \/ ScansTail \/ ScansEnd PROVE StreamInv'
  <1>1. TypeOK /\ pipe \in Seq(Lines)
    BY DEF StreamInv, TypeOK
  <1>2. CASE ScansLine
    <2>1. pipe # <<>> /\ pipe' = Tail(pipe)
      BY <1>2 DEF ScansLine
    <2>2. pipe' \in Seq(Lines) /\ Len(pipe') = Len(pipe) - 1
      BY <1>1, <2>1
    <2> QED
      BY <1>1, <1>2, <2>2, DecodeStep DEF ScansLine
  <1>3. CASE ScansTooMuch
    BY <1>1, <1>3, DecodeStep DEF ScansTooMuch, cliVars
  <1>4. CASE ScansTail
    <2>1. PICK k : Decodes(k)
      BY <1>4 DEF ScansTail
    <2> QED
      BY <1>1, <1>4, <2>1, DecodeStep DEF ScansTail
  <1>5. CASE ScansEnd
    BY <1>5 DEF ScansEnd, StreamInv, TypeOK, Reaping, Accounted, KillsOnPurpose, CtxOver,
       OnlyItsOwnDeathIsBlamed, Drained, Held, ctxVars, cliVars, execVars, endVars
  <1> QED
    BY <1>2, <1>3, <1>4, <1>5

LEMMA CallerSteps ==
    ASSUME StreamInv, Flags', CallerContinues \/ CallerStops PROVE StreamInv'
  <1>1. TypeOK'
    BY StreamAssumption DEF StreamInv, TypeOK, ctxVars, cliVars, execVars, readVars, endVars, CallerContinues, CallerStops, Verdicts, Statuses
  <1> USE StreamAssumption DEF CallerContinues, CallerStops, StreamInv, TypeOK, Reaping, Accounted, KillsOnPurpose, CtxOver,
          OnlyItsOwnDeathIsBlamed, Drained, Held, ctxVars, cliVars, execVars, readVars, endVars,
          Verdicts, Statuses
  <1>2. Reaping'
    OBVIOUS
  <1>3. Accounted'
    OBVIOUS
  <1>4. KillsOnPurpose'
    OBVIOUS
  <1>5. Drained'
    OBVIOUS
  <1> QED
    BY <1>1, <1>2, <1>3, <1>4, <1>5

LEMMA ReapStep ==
    ASSUME StreamInv, Flags', WaitReturns \/ DeferredWaitReturns PROVE StreamInv'
  <1> USE StreamAssumption DEF StreamInv, TypeOK, Reaping, Accounted, KillsOnPurpose, CtxOver,
          OnlyItsOwnDeathIsBlamed, Drained, Held, Ends, Reaps, ctxVars, execVars, readVars, Verdicts
  <1>1. waitErr' \in BOOLEAN
    BY Zenon DEF WaitReturns, DeferredWaitReturns
  <1>2. CASE WaitReturns
    BY <1>1, <1>2 DEF WaitReturns
  <1>3. CASE DeferredWaitReturns
    BY <1>1, <1>3 DEF DeferredWaitReturns
  <1> QED
    BY <1>2, <1>3

LEMMA JudgeStep ==
    ASSUME StreamInv, Flags', Judges \/ Explains PROVE StreamInv'
  <1> USE StreamAssumption DEF Judges, Explains, Ends, StreamInv, TypeOK, Reaping, Accounted, KillsOnPurpose, CtxOver,
          OnlyItsOwnDeathIsBlamed, Drained, Held, ctxVars, cliVars, execVars, readVars, endVars,
          Verdicts, Statuses
  <1>1. TypeOK'
    OBVIOUS
  <1>2. Reaping'
    OBVIOUS
  <1>3. Accounted'
    OBVIOUS
  <1>4. KillsOnPurpose'
    OBVIOUS
  <1>5. Drained'
    OBVIOUS
  <1> QED
    BY <1>1, <1>2, <1>3, <1>4, <1>5

-----------------------------------------------------------------------------
(* The theorems. *)

\* StreamInv is an invariant, whatever the CLI does.
THEOREM StreamInvariant == Spec => []StreamInv
  <1>1. ASSUME StreamInv, [Next]_vars PROVE StreamInv'
    <2>5. Flags'
      BY <1>1, FlagsStep DEF StreamInv
    <2>1. CASE Driver \/ Caller
      BY <1>1, <2>5, <2>1, StartStep, ScanStep, ReapStep, JudgeStep, CallerSteps DEF Driver, Caller
    <2>2. CASE Exec \/ CLI
      BY <1>1, <2>5, <2>2, KillStep, GraceStep, BeginLineStep, EndLineStep,
         ClosesStdoutStep, HelperStep, ExitStep DEF Exec, CLI
    <2>3. CASE ParentEnds \/ Expires
      BY <1>1, <2>5, <2>3, ContextStep
    <2>4. CASE UNCHANGED vars
      BY <1>1, <2>5, <2>4 DEF vars, StreamInv, TypeOK, Reaping, Accounted, KillsOnPurpose, CtxOver,
         OnlyItsOwnDeathIsBlamed, Drained, Held, ctxVars, cliVars, execVars, readVars, endVars
    <2> QED
      BY <1>1, <2>1, <2>2, <2>3, <2>4 DEF Next, Over
  <1> QED
    BY InitStreamInv, <1>1, PTL DEF Spec

\* Every variable keeps its type.
THEOREM StreamTypeCorrect == Spec => []TypeOK
  <1>1. StreamInv => TypeOK
    BY DEF StreamInv
  <1> QED
    BY StreamInvariant, <1>1, PTL

\* A started CLI is dead and waited for exactly once when the sequence ends.
THEOREM StreamReapedOnce == Spec => []ReapedOnce
  <1>1. StreamInv => ReapedOnce
    BY DEF StreamInv, Reaping, ReapedOnce
  <1> QED
    BY StreamInvariant, <1>1, PTL

\* A CLI is blamed for its end only after all it said was read.
THEOREM StreamNoAnswerLost == Spec => []NoAnswerLost
  <1>1. StreamInv => NoAnswerLost
    BY DEF StreamInv, Drained, NoAnswerLost
  <1> QED
    BY StreamInvariant, <1>1, PTL

\* A CLI the driver killed is never blamed for its end.
THEOREM StreamOnlyItsOwnDeathIsBlamed == Spec => []OnlyItsOwnDeathIsBlamed
  <1>1. StreamInv => OnlyItsOwnDeathIsBlamed
    BY DEF StreamInv, KillsOnPurpose
  <1> QED
    BY StreamInvariant, <1>1, PTL

-----------------------------------------------------------------------------
(* The refinement. *)

\* An end of the run is an end the contract has, and before it all is open.
LEMMA EndingOpen ==
    ASSUME StreamInv PROVE Ending = "open" <=> verdict = None
  BY StreamAssumption DEF Ending, Verdicts

\* The steps the caller does not see.
LEMMA Unseen ==
    ASSUME UNCHANGED <<seen, complete, parentDone, verdict>>
    PROVE  UNCHANGED Contract!vars
  BY DEF Contract!vars, Ending

LEMMA ContractStep ==
    ASSUME StreamInv, Next, StreamInv' PROVE [Contract!Next]_(Contract!vars)
  <1> USE DEF Contract!Next, Contract!Open, Contract!EndsWith
  <1>1. TypeOK /\ TypeOK' /\ Reaping /\ Accounted /\ Drained
    BY DEF StreamInv
  <1>2. pc # "ended" => Ending = "open"
    BY <1>1, EndingOpen DEF Reaping
  <1>3. CASE ParentEnds
    BY <1>2, <1>3 DEF ParentEnds, Contract!Go, Ending, readVars, endVars
  <1>4. ASSUME pc = "scanning", NEW k, Decodes(k), UNCHANGED <<parentDone, endVars>>
        PROVE  [Contract!Next]_(Contract!vars)
    <2>1. CASE k = "event"
      <3>1. seen' = seen + 1 /\ seen < MaxLines /\ complete' = complete
        BY <1>1, <1>4, <2>1, StreamAssumption DEF Decodes, TypeOK
      <3> QED
        BY <1>2, <1>4, <3>1 DEF Contract!Deliver, Ending, endVars
    <2>2. CASE k = "result"
      <3>1. seen' = seen /\ complete' = TRUE
        BY <1>4, <2>2 DEF Decodes
      <3>2. CASE complete
        BY <1>1, <1>4, <3>1, <3>2, Unseen DEF TypeOK, Flags, endVars
      <3>3. CASE ~complete
        BY <1>2, <1>4, <3>1, <3>3 DEF Contract!Answer, Ending, endVars
      <3> QED
        BY <3>2, <3>3
    <2>3. CASE k \notin {"event", "result"}
      BY <1>4, <2>3, Unseen DEF Decodes, endVars
    <2> QED
      BY <2>1, <2>2, <2>3
  <1>5. CASE ScansLine \/ ScansTooMuch \/ ScansTail
    BY <1>4, <1>5 DEF ScansLine, ScansTooMuch, ScansTail
  <1>6. CASE CannotStart
    BY <1>1, <1>2, <1>6, StreamAssumption
       DEF CannotStart, Ends, Reaping, Contract!FailUnanswered, Ending, Verdicts, ctxVars, readVars
  <1>7. CASE WaitReturns
    <2>1. UNCHANGED <<seen, complete, parentDone>> /\ pc # "ended"
      BY <1>7 DEF WaitReturns, Reaps, ctxVars, readVars
    <2>2. CASE decodeErr
      BY <1>2, <1>7, <2>1, <2>2, StreamAssumption
         DEF WaitReturns, Ends, Contract!FailUnreadable, Ending, Verdicts
    <2>3. CASE ~decodeErr
      BY <1>7, <2>1, <2>3, Unseen DEF WaitReturns
    <2> QED
      BY <2>2, <2>3
  <1>8. CASE DeferredWaitReturns
    <2>1. UNCHANGED <<seen, complete, parentDone>> /\ pc # "ended" /\ verdict' = "abandoned"
      BY <1>8 DEF DeferredWaitReturns, Reaps, Ends, ctxVars, readVars
    <2>2. seen > 0
      BY <1>1, <1>8 DEF DeferredWaitReturns, Accounted
    <2> QED
      BY <1>2, <2>1, <2>2, StreamAssumption DEF Contract!Stop, Ending, Verdicts
  <1>9. CASE Judges
    <2>1. UNCHANGED <<seen, complete, parentDone>> /\ pc # "ended"
      BY <1>9 DEF Judges, ctxVars, readVars
    <2>2. CASE parentDone
      BY <1>2, <1>9, <2>1, <2>2, StreamAssumption
         DEF Judges, Ends, Contract!FailGone, Ending, Verdicts
    <2>3. CASE ~parentDone /\ complete
      BY <1>2, <1>9, <2>1, <2>3, StreamAssumption
         DEF Judges, Ends, Contract!Succeed, Ending, Verdicts
    <2>4. CASE ~parentDone /\ ~complete
      BY <1>9, <2>1, <2>4, Unseen DEF Judges
    <2> QED
      BY <2>2, <2>3, <2>4
  <1>10. CASE Explains
    <2>1. UNCHANGED <<seen, complete, parentDone>> /\ pc # "ended" /\ ~complete
      BY <1>1, <1>10 DEF Explains, Drained, ctxVars, readVars
    <2>2. verdict' \in {"timeout", "readerror", "exited", "noresult"}
      BY <1>10 DEF Explains, Ends
    <2> QED
      BY <1>2, <2>1, <2>2, StreamAssumption DEF Contract!FailUnanswered, Ending, Verdicts
  <1>11. CASE Starts \/ ScansEnd \/ Caller \/ Exec \/ CLI \/ Expires \/ Over
    <2>1. UNCHANGED <<seen, complete, parentDone, verdict>>
      BY <1>11 DEF Starts, ScansEnd, Caller, CallerContinues, CallerStops, Exec, Kill, GraceCloses,
         CLI, BeginLine, EndLine, ClosesStdout, HelperExits, Spawns, Exits, Expires, Over,
         ctxVars, readVars, endVars, vars
    <2> QED
      BY <2>1, Unseen
  <1> QED
    BY <1>3, <1>5, <1>6, <1>7, <1>8, <1>9, <1>10, <1>11 DEF Next, Driver

\* Every run, for every CLI, is one that RunContract allows.
THEOREM StreamKeepsContract == Spec => KeepsContract
  <1>1. ASSUME Init PROVE Contract!Init
    <2>1. verdict = None
      BY <1>1 DEF Init
    <2>2. Ending = "open"
      BY <2>1, StreamAssumption DEF Ending, Verdicts
    <2>3. seen = 0 /\ complete = FALSE /\ parentDone = FALSE
      BY <1>1 DEF Init
    <2> QED
      BY <2>2, <2>3 DEF Contract!Init
  <1>2. ASSUME StreamInv, [Next]_vars, StreamInv' PROVE [Contract!Next]_(Contract!vars)
    <2>1. CASE Next
      BY <1>2, <2>1, ContractStep
    <2>2. CASE UNCHANGED vars
      BY <2>2, Unseen DEF vars, ctxVars, readVars, endVars
    <2> QED
      BY <1>2, <2>1, <2>2
  <1> QED
    BY StreamInvariant, <1>1, <1>2, PTL DEF Spec, KeepsContract, Contract!Spec
=============================================================================
