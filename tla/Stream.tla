------------------------------- MODULE Stream -------------------------------
(***************************************************************************)
(* One run of a CLI: the iterator Driver.Stream returns (stream.go:37-147),*)
(* streamEnd, and the process os/exec runs for it (driver.go:447-473,      *)
(* process_unix.go).                                                       *)
(*                                                                         *)
(* Four parties interleave: the driver's goroutine, which also runs the    *)
(* caller's loop body inside yield; the CLI and a descendant that holds its*)
(* stdout; the two contexts; and the goroutine of os/exec that watches the *)
(* context, kills the process group and, killGrace later, closes its ends  *)
(* of the pipes if it is still copying stdin or stderr through one.        *)
(*                                                                         *)
(* A line is what decoding it does: an event to yield, nothing ("silent":  *)
(* blank, or EventKindUnknown), the terminal outcome, an error, or a line  *)
(* longer than maxEventLine.  stderr is left out: it only words errors.    *)
(***************************************************************************)
EXTENDS Naturals, Sequences

CONSTANTS
    PipeCap,    \* lines the stdout pipe holds before a writer blocks
    MaxLines,   \* bound: lines the CLI writes
    None        \* no line, no verdict, no exit status

Lines == {"event", "silent", "result", "garbage", "long"}

Verdicts == {"unavailable", "unreadable", "cancelled", "result", "timeout",
             "readerror", "exited", "noresult", "abandoned"}

Statuses == {"ok", "bad", "killed"}

\* The driver's stdout pipe, which its own goroutine reads, and the pipes of
\* stdin and stderr, which goroutines of os/exec copy (stream.go:53-61,
\* driver.go:458-467).
Pipes == {"stdout", "copied"}

ASSUME StreamAssumption ==
    /\ PipeCap \in Nat \ {0}
    /\ MaxLines \in Nat
    /\ None \notin Lines \cup Verdicts \cup Statuses

VARIABLES
    pc,         \* where the iterator is
    parentDone, \* the caller's context is over
    expired,    \* the run's own timeout has passed
    cancelled,  \* cancel() has been called
    child,      \* the CLI process
    exit,       \* its exit status, None while it runs
    out,        \* it has its stdout open
    helper,     \* a descendant that inherited pipes: in its group, or escaped
    holds,      \* those it holds: stdout, or one that os/exec copies
    written,    \* lines the CLI has begun
    tail,       \* the line it is in the middle of writing
    pipe,       \* complete lines written and not yet scanned
    signalled,  \* the watcher has killed the group
    closed,     \* os/exec has closed the read end
    complete,   \* decoder.complete
    decodeErr,  \* decodeErr # nil
    scanErr,    \* scanner.Err() # nil
    waitErr,    \* waitErr # nil
    seen,       \* events yielded
    waits,      \* calls of cmd.Wait that returned
    verdict     \* how the sequence ended

ctxVars == <<parentDone, expired, cancelled>>
cliVars == <<child, exit, out, helper, holds, written, tail, pipe>>
execVars == <<signalled, closed>>
readVars == <<complete, decodeErr, scanErr, seen>>
endVars == <<waitErr, waits, verdict>>
vars == <<pc, ctxVars, cliVars, execVars, readVars, endVars>>

Flags ==
    /\ parentDone \in BOOLEAN /\ expired \in BOOLEAN /\ cancelled \in BOOLEAN
    /\ out \in BOOLEAN
    /\ signalled \in BOOLEAN /\ closed \in BOOLEAN
    /\ complete \in BOOLEAN /\ decodeErr \in BOOLEAN /\ scanErr \in BOOLEAN
    /\ waitErr \in BOOLEAN

TypeOK ==
    /\ Flags
    /\ pc \in {"start", "scanning", "yielding", "waiting", "leaving", "judging",
               "explaining", "ended"}
    /\ child \in {"none", "running", "exited", "reaped"}
    /\ exit \in Statuses \cup {None}
    /\ helper \in {"none", "grouped", "escaped"}
    /\ holds \in SUBSET Pipes
    /\ helper = "none" <=> holds = {}
    /\ written \in 0..MaxLines
    /\ tail \in Lines \cup {None}
    /\ pipe \in Seq(Lines) /\ Len(pipe) <= PipeCap
    /\ seen \in 0..MaxLines
    /\ waits \in Nat
    /\ verdict \in Verdicts \cup {None}

Init ==
    /\ pc = "start"
    /\ parentDone = FALSE /\ expired = FALSE /\ cancelled = FALSE
    /\ child = "none" /\ exit = None /\ out = FALSE
    /\ helper = "none" /\ holds = {}
    /\ written = 0 /\ tail = None /\ pipe = <<>>
    /\ signalled = FALSE /\ closed = FALSE
    /\ complete = FALSE /\ decodeErr = FALSE /\ scanErr = FALSE /\ seen = 0
    /\ waitErr = FALSE /\ waits = 0 /\ verdict = None

\* ctx.Err() # nil: the derived context ends with its parent, at its deadline,
\* or when cancel is called.
CtxOver == parentDone \/ expired \/ cancelled

\* Somebody may still write to the pipe.
Held == (child = "running" /\ out) \/ "stdout" \in holds

Ends(v) == pc' = "ended" /\ verdict' = v

-----------------------------------------------------------------------------
(* The contexts. *)

ParentEnds ==
    /\ pc # "ended" /\ ~parentDone
    /\ parentDone' = TRUE
    /\ UNCHANGED <<pc, expired, cancelled, cliVars, execVars, readVars, endVars>>

Expires ==
    /\ pc # "ended" /\ ~expired
    /\ expired' = TRUE
    /\ UNCHANGED <<pc, parentDone, cancelled, cliVars, execVars, readVars, endVars>>

-----------------------------------------------------------------------------
(* The CLI and its descendant.  Neither is ever made to do anything. *)

\* It starts a line when the pipe has room, and may be killed before its end.
BeginLine(k) ==
    /\ child = "running" /\ out
    /\ tail = None /\ written < MaxLines /\ Len(pipe) < PipeCap
    /\ tail' = k
    /\ written' = written + 1
    /\ UNCHANGED <<pc, ctxVars, child, exit, out, helper, holds, pipe, execVars, readVars, endVars>>

EndLine ==
    /\ child = "running" /\ out
    /\ tail # None
    /\ pipe' = Append(pipe, tail)
    /\ tail' = None
    /\ UNCHANGED <<pc, ctxVars, child, exit, out, helper, holds, written, execVars, readVars, endVars>>

ClosesStdout ==
    /\ child = "running" /\ out
    /\ out' = FALSE
    /\ UNCHANGED <<pc, ctxVars, child, exit, helper, holds, written, tail, pipe, execVars, readVars,
                   endVars>>

Spawns(h, kept) ==
    /\ child = "running" /\ helper = "none"
    /\ "stdout" \in kept => out
    /\ helper' = h /\ holds' = kept
    /\ UNCHANGED <<pc, ctxVars, child, exit, out, written, tail, pipe, execVars, readVars,
                   endVars>>

HelperExits ==
    /\ helper # "none"
    /\ helper' = "none" /\ holds' = {}
    /\ UNCHANGED <<pc, ctxVars, child, exit, out, written, tail, pipe, execVars, readVars,
                   endVars>>

Exits(status) ==
    /\ child = "running"
    /\ child' = "exited" /\ exit' = status
    /\ UNCHANGED <<pc, ctxVars, out, helper, holds, written, tail, pipe, execVars, readVars, endVars>>

-----------------------------------------------------------------------------
(* os/exec: the watcher of the context that Cmd.Start leaves behind, until   *)
(* Cmd.Wait collects it.                                                     *)

\* cmd.Cancel: SIGKILL to the whole group, which an escaped descendant left.
Kill ==
    /\ CtxOver /\ child \in {"running", "exited"} /\ ~signalled
    /\ signalled' = TRUE
    /\ child' = "exited"
    /\ exit' = IF child = "running" THEN "killed" ELSE exit
    /\ IF helper = "grouped" THEN helper' = "none" /\ holds' = {} ELSE UNCHANGED <<helper, holds>>
    /\ UNCHANGED <<pc, ctxVars, out, written, tail, pipe, closed, readVars, endVars>>

\* Bug: no WaitDelay, so a held pipe stays open.
WithoutWaitDelay == FALSE /\ UNCHANGED vars

\* WaitDelay after the kill, a copy of stdin or stderr that still runs, because
\* somebody holds its pipe, has all pipes closed, stdout too.  What the scanner
\* had not buffered by then is lost, an unfinished line first.
GraceCloses ==
    /\ signalled /\ child = "exited" /\ "copied" \in holds /\ ~closed
    /\ closed' = TRUE
    /\ \E n \in 0..Len(pipe) :
        /\ pipe' = SubSeq(pipe, 1, n)
        /\ tail' \in (IF n = Len(pipe) THEN {tail, None} ELSE {None})
    /\ UNCHANGED <<pc, ctxVars, child, exit, out, helper, holds, written, signalled, readVars, endVars>>

-----------------------------------------------------------------------------
(* The driver's goroutine. *)

\* StdoutPipe or Start fails: the OS refuses, the binary is gone or, for
\* Start, the context is over already.
CannotStart ==
    /\ pc = "start"
    /\ Ends("unavailable")
    /\ UNCHANGED <<ctxVars, cliVars, execVars, readVars, waitErr, waits>>

Starts ==
    /\ pc = "start" /\ ~CtxOver
    /\ pc' = "scanning"
    /\ child' = "running" /\ out' = TRUE
    /\ UNCHANGED <<ctxVars, exit, helper, holds, written, tail, pipe, execVars, readVars, endVars>>

\* The body of the scan loop for one token.
Decodes(k) ==
    \/ /\ k = "event"
       /\ pc' = "yielding" /\ seen' = seen + 1
       /\ UNCHANGED <<cancelled, complete, decodeErr, scanErr>>
    \/ /\ k = "silent"
       /\ UNCHANGED <<pc, cancelled, complete, decodeErr, scanErr, seen>>
    \/ /\ k = "result"
       /\ complete' = TRUE
       /\ UNCHANGED <<pc, cancelled, decodeErr, scanErr, seen>>
    \/ /\ k = "garbage"         \* break, then cancel before the wait
       /\ decodeErr' = TRUE /\ cancelled' = TRUE /\ pc' = "waiting"
       /\ UNCHANGED <<complete, scanErr, seen>>
    \/ /\ k = "long"            \* bufio.ErrTooLong: Scan returns false
       /\ scanErr' = TRUE /\ pc' = "waiting"
       /\ UNCHANGED <<cancelled, complete, decodeErr, seen>>

ScansLine ==
    /\ pc = "scanning" /\ pipe # <<>>
    /\ Decodes(Head(pipe))
    /\ pipe' = Tail(pipe)
    /\ UNCHANGED <<parentDone, expired, child, exit, out, helper, holds, written, tail, execVars,
                   endVars>>

\* Four megabytes of one line are enough to give up on it.
ScansTooMuch ==
    /\ pc = "scanning" /\ pipe = <<>> /\ tail = "long"
    /\ Decodes("long")
    /\ UNCHANGED <<parentDone, expired, cliVars, execVars, endVars>>

\* At the end of the input bufio.Scanner hands over an unterminated last line:
\* all of it but the newline, or a truncated one, which is not JSON.
ScansTail ==
    /\ pc = "scanning" /\ pipe = <<>> /\ tail # None
    /\ closed \/ ~Held
    /\ \E k \in {tail, "garbage"} : Decodes(k)
    /\ tail' = None
    /\ UNCHANGED <<parentDone, expired, child, exit, out, helper, holds, written, pipe, execVars,
                   endVars>>

\* Bug: the exit of the CLI is taken for the end of its output.
ScansUntilExit ==
    /\ pc = "scanning" /\ child = "exited"
    /\ scanErr' = closed
    /\ pc' = "waiting"
    /\ UNCHANGED <<ctxVars, cliVars, execVars, complete, decodeErr, seen, endVars>>

\* EOF, or the error of reading a pipe that has been closed.
ScansEnd ==
    /\ pc = "scanning" /\ pipe = <<>> /\ tail = None
    /\ closed \/ ~Held
    /\ scanErr' = closed
    /\ pc' = "waiting"
    /\ UNCHANGED <<ctxVars, cliVars, execVars, complete, decodeErr, seen, endVars>>

\* Bug: an event that was yielded is counted and yielded once more.
YieldsAgain ==
    /\ pc = "yielding"
    /\ pc' \in {"yielding", "scanning"} /\ seen' = seen + 1
    /\ UNCHANGED <<ctxVars, cliVars, execVars, complete, decodeErr, scanErr, endVars>>

\* yield returns true: the caller wants more.
CallerContinues ==
    /\ pc = "yielding"
    /\ pc' = "scanning"
    /\ UNCHANGED <<ctxVars, cliVars, execVars, readVars, endVars>>

\* Bug: a caller that stops does not cancel the child it abandons ...
StopsUncancelled ==
    /\ pc = "yielding"
    /\ pc' = "leaving"
    /\ UNCHANGED <<ctxVars, cliVars, execVars, readVars, endVars>>

\* ... or does, and nobody waits for it.
StopsUnreaped ==
    /\ pc = "yielding"
    /\ Ends("abandoned")
    /\ cancelled' = TRUE
    /\ UNCHANGED <<parentDone, expired, cliVars, execVars, readVars, waitErr, waits>>

\* yield returns false: return, into the deferred cancel.
CallerStops ==
    /\ pc = "yielding"
    /\ pc' = "leaving"
    /\ cancelled' = TRUE
    /\ UNCHANGED <<parentDone, expired, cliVars, execVars, readVars, endVars>>

\* cmd.Wait returns once the process has: an error unless it exited zero, was
\* not signalled, and no descendant kept a copied pipe past the grace.
Reaps ==
    /\ child = "exited"
    /\ child' = "reaped"
    /\ waits' = waits + 1
    /\ waitErr' \in (IF exit # "ok" \/ signalled THEN {TRUE}
                     ELSE IF "copied" \in holds THEN BOOLEAN ELSE {FALSE})
    /\ UNCHANGED <<ctxVars, exit, out, helper, holds, written, tail, pipe, execVars, readVars>>

\* Wait after the loop, then the decode error if there was one.
WaitReturns ==
    /\ pc = "waiting"
    /\ Reaps
    /\ \/ decodeErr /\ Ends("unreadable")
       \/ ~decodeErr /\ pc' = "judging" /\ UNCHANGED verdict

\* Wait in the deferred function, on the way out of an abandoned loop.
DeferredWaitReturns ==
    /\ pc = "leaving"
    /\ Reaps
    /\ Ends("abandoned")

\* Bug: an outcome is a success, whether or not anyone is still listening ...
JudgesOutcomeFirst ==
    /\ pc = "judging"
    /\ \/ complete /\ Ends("result")
       \/ ~complete /\ parentDone /\ Ends("cancelled")
       \/ ~complete /\ ~parentDone /\ pc' = "explaining" /\ UNCHANGED verdict
    /\ UNCHANGED <<ctxVars, cliVars, execVars, readVars, waitErr, waits>>

\* ... or the exit status is judged before what the CLI said.
JudgesExitFirst ==
    /\ pc = "judging"
    /\ \/ parentDone /\ Ends("cancelled")
       \/ ~parentDone /\ waitErr /\ Ends("exited")
       \/ ~parentDone /\ ~waitErr /\ complete /\ Ends("result")
       \/ ~parentDone /\ ~waitErr /\ ~complete /\ pc' = "explaining" /\ UNCHANGED verdict
    /\ UNCHANGED <<ctxVars, cliVars, execVars, readVars, waitErr, waits>>

\* streamEnd, its first two cases: parent.Err() is read here ...
Judges ==
    /\ pc = "judging"
    /\ \/ parentDone /\ Ends("cancelled")
       \/ ~parentDone /\ complete /\ Ends("result")
       \/ ~parentDone /\ ~complete /\ pc' = "explaining" /\ UNCHANGED verdict
    /\ UNCHANGED <<ctxVars, cliVars, execVars, readVars, waitErr, waits>>

\* Bug: the exit status explains the end before the deadline does.
ExplainsExitFirst ==
    /\ pc = "explaining"
    /\ \/ waitErr /\ Ends("exited")
       \/ ~waitErr /\ CtxOver /\ Ends("timeout")
       \/ ~waitErr /\ ~CtxOver /\ scanErr /\ Ends("readerror")
       \/ ~waitErr /\ ~CtxOver /\ ~scanErr /\ Ends("noresult")
    /\ UNCHANGED <<ctxVars, cliVars, execVars, readVars, waitErr, waits>>

\* ... and ctx.Err(), which the parent ends too, a moment later.
Explains ==
    /\ pc = "explaining"
    /\ \/ CtxOver /\ Ends("timeout")
       \/ ~CtxOver /\ scanErr /\ Ends("readerror")
       \/ ~CtxOver /\ ~scanErr /\ waitErr /\ Ends("exited")
       \/ ~CtxOver /\ ~scanErr /\ ~waitErr /\ Ends("noresult")
    /\ UNCHANGED <<ctxVars, cliVars, execVars, readVars, waitErr, waits>>

-----------------------------------------------------------------------------
\* The sequence is over; what the CLI left behind no longer matters.
Over == pc = "ended" /\ UNCHANGED vars

Driver ==
    \/ CannotStart \/ Starts
    \/ ScansLine \/ ScansTooMuch \/ ScansTail \/ ScansEnd
    \/ WaitReturns \/ DeferredWaitReturns \/ Judges \/ Explains

Caller == CallerContinues \/ CallerStops

Exec == Kill \/ GraceCloses

CLI ==
    /\ pc # "ended"
    /\ \/ \E k \in Lines : BeginLine(k)
       \/ EndLine \/ ClosesStdout \/ HelperExits
       \/ \E h \in {"grouped", "escaped"}, kept \in (SUBSET Pipes) \ {{}} : Spawns(h, kept)
       \/ \E status \in {"ok", "bad"} : Exits(status)

Next == Driver \/ Caller \/ Exec \/ CLI \/ ParentEnds \/ Expires \/ Over

\* The goroutines run, the caller's loop body returns, the kill and the grace
\* come.  Of the CLI, the caller's context and the timeout nothing is assumed.
Fairness ==
    /\ WF_vars(Driver) /\ WF_vars(Caller)
    /\ WF_vars(Kill) /\ WF_vars(GraceCloses)

Spec == Init /\ [][Next]_vars

FairSpec == Spec /\ Fairness

-----------------------------------------------------------------------------
(* Properties. *)

\* However the loop is left, a started CLI is dead and reaped by exactly one
\* Wait when the sequence ends (stream.go:75-86, 126).
ReapedOnce ==
    pc = "ended" /\ verdict # "unavailable" => child = "reaped" /\ waits = 1

\* A line the CLI finished writing is a line the driver reads: a run blamed
\* on the CLI without a read error has scanned all that was in the pipe, so no
\* outcome was in there (stream.go:181-187).
NoAnswerLost ==
    /\ pc = "explaining" /\ ~scanErr => pipe = <<>> /\ tail = None /\ ~complete
    /\ verdict \in {"exited", "noresult"} => pipe = <<>> /\ tail = None /\ ~complete

\* "Exited before the stream ended" and "ended without a result" are never
\* said of a CLI the driver itself killed (stream.go:170-187).
OnlyItsOwnDeathIsBlamed ==
    verdict \in {"exited", "noresult", "readerror"} => exit # "killed" /\ ~signalled

\* The one that can keep a dead CLI's stdout open for good: it left the group,
\* so the kill misses it, and it holds none of the pipes os/exec copies.
Holdout == helper = "escaped" /\ holds = {"stdout"}

\* A run whose context is over comes to its end whatever the CLI and its
\* descendants do, a descendant outside the group that keeps a copied pipe
\* included, unless one keeps stdout alone (stream.go:20; driver.go:17-20, 471-475);
\* the timeout ends the context of every run.
OverdueEnds == CtxOver ~> (pc = "ended" \/ Holdout)

\* A caller that stops, or a CLI that became unreadable, ends the run there and
\* then, without the timeout (stream.go:20-21, 75-77, 121-125).
AbandonedEnds == (decodeErr \/ pc = "leaving") ~> pc = "ended"

\* How the sequence ended, as the caller sees it.
Ending ==
    CASE verdict = None -> "open"
      [] verdict = "result" -> "answer"
      [] verdict = "cancelled" -> "gone"
      [] verdict = "unreadable" -> "unreadable"
      [] verdict = "abandoned" -> "stopped"
      [] OTHER -> "unanswered"

Contract == INSTANCE RunContract WITH
    MaxEvents <- MaxLines, answered <- complete, gone <- parentDone, ending <- Ending

\* The caller's view of a run is RunContract's: events, then one end, which is
\* the answer only if an outcome was read and the caller is there, a failure
\* without an answer only if none was read, and the caller's own stop only
\* after an event (stream.go:18-26, 150-188).
KeepsContract == Contract!Spec

-----------------------------------------------------------------------------
(* The inductive invariant behind the safety properties.                     *)

\* The child is there, and is waited for, exactly where the iterator is.
Reaping ==
    /\ pc = "start" => child = "none" /\ waits = 0 /\ ~complete
    /\ pc \in {"scanning", "yielding", "waiting", "leaving"} =>
          child \in {"running", "exited"} /\ waits = 0
    /\ pc \in {"judging", "explaining"} => child = "reaped" /\ waits = 1
    /\ pc = "ended" => IF verdict = "unavailable" THEN child = "none" /\ waits = 0
                                                  ELSE child = "reaped" /\ waits = 1
    /\ pc = "ended" <=> verdict # None

\* No line is yielded that was not written, and none twice; a line begun has
\* room in the pipe.
Accounted ==
    /\ tail # None => Len(pipe) < PipeCap
    /\ seen + Len(pipe) + (IF tail = None THEN 0 ELSE 1) <= written
    /\ pc \in {"yielding", "leaving"} => seen > 0

\* Only the end of a context makes the driver kill.
KillsOnPurpose ==
    /\ signalled => CtxOver
    /\ exit = "killed" => signalled
    /\ OnlyItsOwnDeathIsBlamed

\* Once the scan has ended without an error the pipe is empty and stays so.
Drained ==
    /\ pc = "waiting" /\ ~decodeErr /\ ~scanErr => pipe = <<>> /\ tail = None /\ ~Held
    /\ pc \in {"judging", "explaining"} =>
          /\ ~decodeErr
          /\ ~scanErr => pipe = <<>> /\ tail = None /\ ~Held
    /\ pc = "explaining" => ~complete
    /\ verdict \in {"exited", "noresult"} => pipe = <<>> /\ tail = None /\ ~complete

StreamInv == TypeOK /\ Reaping /\ Accounted /\ KillsOnPurpose /\ Drained

-----------------------------------------------------------------------------
(* What the code's own words claim and its steps do not keep. *)

\* The sequence "always ends: the caller stopping early cancels the child"
\* (stream.go:20-21), for WaitDelay bounds a descendant that outlives the child
\* "the same way it bounds stdout" (driver.go:462-464).
AlwaysEnds == CtxOver ~> pc = "ended"
=============================================================================
