---------------------------- MODULE RunContract ----------------------------
(***************************************************************************)
(* What Driver.Stream promises the caller that ranges over it, with no     *)
(* process, pipe or context in sight: events, then exactly one end, which  *)
(* is the answer, a failure of a stated kind, or the caller's own decision *)
(* to stop (stream.go:18-26, 150-160).                                     *)
(***************************************************************************)
EXTENDS Naturals

CONSTANTS MaxEvents     \* bound on the events of one run

VARIABLES
    seen,       \* how many events the caller has been given
    answered,   \* the CLI's terminal outcome has been read
    gone,       \* the caller's context is over
    ending      \* "open", or how the sequence ended

vars == <<seen, answered, gone, ending>>

Init == seen = 0 /\ answered = FALSE /\ gone = FALSE /\ ending = "open"

Open == ending = "open"

\* The next event is yielded.
Deliver == Open /\ seen < MaxEvents /\ seen' = seen + 1 /\ UNCHANGED <<answered, gone, ending>>

\* The decoder folds the CLI's terminal outcome.
Answer == Open /\ ~answered /\ answered' = TRUE /\ UNCHANGED <<seen, gone, ending>>

\* The caller goes away without leaving the loop.
Go == Open /\ ~gone /\ gone' = TRUE /\ UNCHANGED <<seen, answered, ending>>

EndsWith(e) == Open /\ ending' = e /\ UNCHANGED <<seen, answered, gone>>

\* The terminal event: an outcome was read and somebody is there to hear it.
Succeed == answered /\ ~gone /\ EndsWith("answer")

\* The caller went away, and is told so.
FailGone == gone /\ EndsWith("gone")

\* Something unreadable came back, before or after an outcome.
FailUnreadable == EndsWith("unreadable")

\* Nothing else is an error once an outcome was read.
FailUnanswered == ~answered /\ EndsWith("unanswered")

\* The caller breaks out of the loop over an event it was given.
Stop == seen > 0 /\ EndsWith("stopped")

Next ==
    \/ Deliver \/ Answer \/ Go
    \/ Succeed \/ FailGone \/ FailUnreadable \/ FailUnanswered \/ Stop

Spec == Init /\ [][Next]_vars
=============================================================================
