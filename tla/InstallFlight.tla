--------------------------- MODULE InstallFlight ---------------------------
(***************************************************************************)
(* Single-flight installs: Installer.Install and the goroutine it starts,  *)
(* run (codex/install.go; claudecode/install.go is line for line the same).*)
(*                                                                         *)
(* A caller is ONE call of Install.  The `install` struct a call allocates *)
(* is named by the call that allocated it, so a flight f is a member of    *)
(* Callers too, and stage[f], waiters[f], cancelled[f] and outcome[f] are  *)
(* its goroutine's program counter and its fields.  The mutex Installer.mu *)
(* makes each critical section one action; everything between two sections *)
(* is a step of its own.  What installOnce does to the disk is the subject *)
(* of VersionStore; here it is only how it can end.                        *)
(***************************************************************************)
EXTENDS Integers, FiniteSets

CONSTANTS
    Callers,    \* the calls of Install
    Versions,   \* the version strings they ask for
    Pinned,     \* those that are versions and have a committed digest
    None        \* no flight, no version, no answer

\* How installOnce can end.
Outcomes == {"installed", "present", "failed", "cancelled"}

ASSUME FlightAssumption ==
    /\ IsFiniteSet(Callers)
    /\ Pinned \subseteq Versions
    /\ None \notin Callers
    /\ None \notin Versions \cup Outcomes

VARIABLES
    pc,         \* where each call is
    ctxDone,    \* whether its context is over
    want,       \* the version it asked for
    on,         \* the flight it waits on
    answer,     \* what it returned
    inflight,   \* Installer.inflight: the flight to join, per version
    stage,      \* where each flight's goroutine is
    waiters,    \* install.waiters
    cancelled,  \* whether install.cancel has been called
    outcome     \* what installOnce returned

vars == <<pc, ctxDone, want, on, answer, inflight, stage, waiters, cancelled, outcome>>

\* The stages of a flight that a caller may still profit from joining.
Working == {"checking", "fetching", "expanding", "forgetting"}

\* install.done is closed.
Closed(f) == stage[f] \in {"releasing", "over"}

TypeOK ==
    /\ pc \in [Callers -> {"idle", "waiting", "leaving", "cancelling",
                           "served", "left", "refused"}]
    /\ ctxDone \in [Callers -> BOOLEAN]
    /\ want \in [Callers -> Versions \cup {None}]
    /\ on \in [Callers -> Callers \cup {None}]
    /\ answer \in [Callers -> Outcomes \cup {"refused", None}]
    /\ inflight \in [Versions -> Callers \cup {None}]
    /\ stage \in [Callers -> Working \cup {"none", "publishing", "releasing", "over"}]
    /\ waiters \in [Callers -> Nat]
    /\ cancelled \in [Callers -> BOOLEAN]
    /\ outcome \in [Callers -> Outcomes \cup {None}]

Init ==
    /\ pc = [c \in Callers |-> "idle"]
    /\ ctxDone = [c \in Callers |-> FALSE]
    /\ want = [c \in Callers |-> None]
    /\ on = [c \in Callers |-> None]
    /\ answer = [c \in Callers |-> None]
    /\ inflight = [v \in Versions |-> None]
    /\ stage = [f \in Callers |-> "none"]
    /\ waiters = [f \in Callers |-> 0]
    /\ cancelled = [f \in Callers |-> FALSE]
    /\ outcome = [f \in Callers |-> None]

-----------------------------------------------------------------------------
(* The calls. *)

\* The caller's context is cancelled or expires, whatever the call is doing.
CtxEnds(c) ==
    /\ ~ctxDone[c]
    /\ pc[c] \in {"idle", "waiting"}
    /\ ctxDone' = [ctxDone EXCEPT ![c] = TRUE]
    /\ UNCHANGED <<pc, want, on, answer, inflight, stage, waiters, cancelled, outcome>>

\* validateVersion or PinnedDigest fails: nothing is looked up or started.
Refuse(c, v) ==
    /\ pc[c] = "idle"
    /\ v \notin Pinned
    /\ pc' = [pc EXCEPT ![c] = "refused"]
    /\ answer' = [answer EXCEPT ![c] = "refused"]
    /\ UNCHANGED <<ctxDone, want, on, inflight, stage, waiters, cancelled, outcome>>

\* Bug: only those who join are counted, not the one who starts.
StartUncounted(c, v) ==
    /\ pc[c] = "idle" /\ v \in Pinned /\ inflight[v] = None
    /\ pc' = [pc EXCEPT ![c] = "waiting"]
    /\ want' = [want EXCEPT ![c] = v]
    /\ on' = [on EXCEPT ![c] = c]
    /\ inflight' = [inflight EXCEPT ![v] = c]
    /\ stage' = [stage EXCEPT ![c] = "checking"]
    /\ UNCHANGED <<ctxDone, answer, waiters, cancelled, outcome>>

\* The critical section of Install when no flight is there: allocate one,
\* publish it in the map, start its goroutine, and count this caller.
Start(c, v) ==
    /\ pc[c] = "idle"
    /\ v \in Pinned
    /\ inflight[v] = None
    /\ pc' = [pc EXCEPT ![c] = "waiting"]
    /\ want' = [want EXCEPT ![c] = v]
    /\ on' = [on EXCEPT ![c] = c]
    /\ inflight' = [inflight EXCEPT ![v] = c]
    /\ stage' = [stage EXCEPT ![c] = "checking"]
    /\ waiters' = [waiters EXCEPT ![c] = 1]
    /\ UNCHANGED <<ctxDone, answer, cancelled, outcome>>

\* The same critical section when a flight is there: count this caller in.
Join(c, v) ==
    /\ pc[c] = "idle"
    /\ v \in Pinned
    /\ inflight[v] # None
    /\ pc' = [pc EXCEPT ![c] = "waiting"]
    /\ want' = [want EXCEPT ![c] = v]
    /\ on' = [on EXCEPT ![c] = inflight[v]]
    /\ waiters' = [waiters EXCEPT ![inflight[v]] = @ + 1]
    /\ UNCHANGED <<ctxDone, answer, inflight, stage, cancelled, outcome>>

\* select takes <-inst.done.  The counter is not touched: the work is over.
Served(c) ==
    /\ pc[c] = "waiting"
    /\ Closed(on[c])
    /\ pc' = [pc EXCEPT ![c] = "served"]
    /\ answer' = [answer EXCEPT ![c] = outcome[on[c]]]
    /\ UNCHANGED <<ctxDone, want, on, inflight, stage, waiters, cancelled, outcome>>

\* Bug: the first caller waits for the download whatever its own context says.
GiveUpUnlessFirst(c) ==
    /\ pc[c] = "waiting" /\ ctxDone[c] /\ on[c] # c
    /\ pc' = [pc EXCEPT ![c] = "leaving"]
    /\ UNCHANGED <<ctxDone, want, on, answer, inflight, stage, waiters, cancelled, outcome>>

\* select takes <-ctx.Done(), which it may do even when done is closed too.
GiveUp(c) ==
    /\ pc[c] = "waiting"
    /\ ctxDone[c]
    /\ pc' = [pc EXCEPT ![c] = "leaving"]
    /\ UNCHANGED <<ctxDone, want, on, answer, inflight, stage, waiters, cancelled, outcome>>

\* Bug: the last one out cancels the flight and leaves it in the map.
LeaveInMap(c) ==
    LET last == waiters[on[c]] = 1
    IN  /\ pc[c] = "leaving"
        /\ waiters' = [waiters EXCEPT ![on[c]] = @ - 1]
        /\ pc' = [pc EXCEPT ![c] = IF last THEN "cancelling" ELSE "left"]
        /\ answer' = [answer EXCEPT ![c] = "cancelled"]
        /\ UNCHANGED <<ctxDone, want, on, inflight, stage, cancelled, outcome>>

\* The critical section of leave.  The last one out takes the map entry with
\* it, unless the entry is already another flight's.
Leave(c) ==
    LET f == on[c]
        v == want[c]
        last == waiters[f] = 1
    IN  /\ pc[c] = "leaving"
        /\ waiters' = [waiters EXCEPT ![f] = @ - 1]
        /\ inflight' = [inflight EXCEPT ![v] = IF last /\ @ = f THEN None ELSE @]
        /\ pc' = [pc EXCEPT ![c] = IF last THEN "cancelling" ELSE "left"]
        /\ answer' = [answer EXCEPT ![c] = "cancelled"]
        /\ UNCHANGED <<ctxDone, want, on, stage, cancelled, outcome>>

\* Bug: the last one out leaves the download running.
CancelNothing(c) ==
    /\ pc[c] = "cancelling"
    /\ pc' = [pc EXCEPT ![c] = "left"]
    /\ UNCHANGED <<ctxDone, want, on, answer, inflight, stage, waiters, cancelled, outcome>>

\* inst.cancel(), after the lock is released.
CancelFlight(c) ==
    /\ pc[c] = "cancelling"
    /\ cancelled' = [cancelled EXCEPT ![on[c]] = TRUE]
    /\ pc' = [pc EXCEPT ![c] = "left"]
    /\ UNCHANGED <<ctxDone, want, on, answer, inflight, stage, waiters, outcome>>

-----------------------------------------------------------------------------
(* The goroutine of flight f: run, and installOnce inside it. *)

\* installOnce returns o.
Ends(f, o) ==
    /\ stage' = [stage EXCEPT ![f] = "forgetting"]
    /\ outcome' = [outcome EXCEPT ![f] = o]
    /\ UNCHANGED <<pc, ctxDone, want, on, answer, inflight, waiters, cancelled>>

\* installOnce goes on to its next stage.
Advances(f, s) ==
    /\ stage' = [stage EXCEPT ![f] = s]
    /\ UNCHANGED <<pc, ctxDone, want, on, answer, inflight, waiters, cancelled, outcome>>

\* usable(target): the version is there already.
FindsPresent(f) == stage[f] = "checking" /\ Ends(f, "present")

\* It is not, and the directories are ready ...
FindsAbsent(f) == stage[f] = "checking" /\ Advances(f, "fetching")

\* ... or are not to be trusted.
CannotStage(f) == stage[f] = "checking" /\ Ends(f, "failed")

\* release.Fetch returns nil; it may do so although it was just cancelled.
Fetched(f) == stage[f] = "fetching" /\ Advances(f, "expanding")

\* The registry, the network or the digest fails the download.
FetchFails(f) == stage[f] = "fetching" /\ Ends(f, "failed")

\* The download notices that its context is over.  Nothing after it looks.
FetchCancelled(f) == stage[f] = "fetching" /\ cancelled[f] /\ Ends(f, "cancelled")

\* extract, syncStaged and the publishing rename: a new version, another
\* process's version, or an error.
Expanded(f) ==
    /\ stage[f] = "expanding"
    /\ \E o \in {"installed", "present", "failed"} : Ends(f, o)

\* Bug: the entry goes, whoever's it has become.
ForgetAnyEntry(f) ==
    /\ stage[f] = "forgetting"
    /\ stage' = [stage EXCEPT ![f] = "publishing"]
    /\ inflight' = [inflight EXCEPT ![want[f]] = None]
    /\ UNCHANGED <<pc, ctxDone, want, on, answer, waiters, cancelled, outcome>>

\* forget: the entry goes only when it is still this flight's.
Forget(f) ==
    /\ stage[f] = "forgetting"
    /\ stage' = [stage EXCEPT ![f] = "publishing"]
    /\ inflight' = [inflight EXCEPT ![want[f]] = IF @ = f THEN None ELSE @]
    /\ UNCHANGED <<pc, ctxDone, want, on, answer, waiters, cancelled, outcome>>

\* The result is stored and done is closed.
Publish(f) == stage[f] = "publishing" /\ Advances(f, "releasing")

\* inst.cancel() at the end of run, which by now cancels nothing.
Release(f) ==
    /\ stage[f] = "releasing"
    /\ stage' = [stage EXCEPT ![f] = "over"]
    /\ cancelled' = [cancelled EXCEPT ![f] = TRUE]
    /\ UNCHANGED <<pc, ctxDone, want, on, answer, inflight, waiters, outcome>>

-----------------------------------------------------------------------------
Returned(c) == pc[c] \in {"served", "left", "refused"}

\* Every call has returned and every goroutine has ended.
Quiet ==
    /\ \A c \in Callers : Returned(c) /\ stage[c] \in {"none", "over"}
    /\ UNCHANGED vars

CallerStep(c) ==
    \/ CtxEnds(c)
    \/ \E v \in Versions : Refuse(c, v) \/ Start(c, v) \/ Join(c, v)
    \/ Served(c) \/ GiveUp(c) \/ Leave(c) \/ CancelFlight(c)

FlightStep(f) ==
    \/ FindsPresent(f) \/ FindsAbsent(f) \/ CannotStage(f)
    \/ Fetched(f) \/ FetchFails(f) \/ FetchCancelled(f)
    \/ Expanded(f) \/ Forget(f) \/ Publish(f) \/ Release(f)

Next == (\E c \in Callers : CallerStep(c) \/ FlightStep(c)) \/ Quiet

\* A runnable goroutine is eventually scheduled, and a cancelled download
\* notices.  Nothing makes a download end by itself, and nobody is made to
\* call, or to give up.
Fairness ==
    \A c \in Callers :
        /\ WF_vars(Served(c) \/ GiveUp(c))
        /\ WF_vars(Leave(c))
        /\ WF_vars(CancelFlight(c))
        /\ WF_vars(FindsPresent(c) \/ FindsAbsent(c) \/ CannotStage(c))
        /\ WF_vars(FetchCancelled(c))
        /\ WF_vars(Expanded(c) \/ Forget(c) \/ Publish(c) \/ Release(c))

Spec == Init /\ [][Next]_vars

FairSpec == Spec /\ Fairness

-----------------------------------------------------------------------------
(* Properties. *)

\* A flight somebody still wants: it is at work and has callers counted in.
Wanted(f) == stage[f] \in Working /\ waiters[f] > 0

\* However calls arrive, give up and return, one version is never being
\* downloaded twice for callers that still want it: "Concurrent requests for
\* the same version JOIN rather than duplicate" (codex/install.go:252).
SingleFlight ==
    \A f, g \in Callers : Wanted(f) /\ Wanted(g) /\ want[f] = want[g] => f = g

\* A call is told "cancelled" only if its own context is over, never because
\* another caller's was (codex/install.go:284-286, 317-321).
NoForeignCancellation ==
    \A c \in Callers : answer[c] = "cancelled" => ctxDone[c]

\* A flight in the map is one a newcomer can profit from: it is at work, has
\* not been cancelled and is for that version (codex/install.go:317-321).
JoinableIsAlive ==
    \A v \in Versions : inflight[v] # None =>
        /\ Wanted(inflight[v])
        /\ ~cancelled[inflight[v]]
        /\ want[inflight[v]] = v

\* A step takes an entry out of the map only on behalf of the flight it names:
\* its last caller leaves or its own work is over (codex/install.go:339-343).
EvictsOnlyItsOwn ==
    \A v \in Versions : inflight[v] \notin {None, inflight'[v]} =>
        \/ waiters'[inflight[v]] = 0
        \/ stage'[inflight[v]] = "publishing"

OnlyItsOwnEntry == [][EvictsOnlyItsOwn]_vars

\* A caller whose context ends gets out of Install, however long the download
\* it was waiting on goes on (codex/install.go:287-295).
GivingUpReturns ==
    \A c \in Callers : (pc[c] = "waiting" /\ ctxDone[c]) ~> Returned(c)

\* A download nobody is waiting for stops: "the waiter count reaching zero
\* cancels it" (codex/install.go:271-273), with no help from the network.
AbandonedStops ==
    \A f \in Callers : (stage[f] # "none" /\ waiters[f] = 0) ~> stage[f] = "over"

-----------------------------------------------------------------------------
(* The inductive invariant behind SingleFlight and NoForeignCancellation. *)

\* The callers waiters[f] counts: those that joined and did not leave.
Interested(f) == {c \in Callers : on[c] = f /\ pc[c] \in {"waiting", "leaving", "served"}}

\* The counter is exact: it reaches zero when, and only when, nobody is left.
CountExact == \A f \in Callers : waiters[f] = Cardinality(Interested(f))

\* A call that got past the gate is on a flight that exists and is for the
\* version it asked for; no other call is on any.
Boarded ==
    \A c \in Callers :
        /\ pc[c] \in {"idle", "refused"} => on[c] = None /\ stage[c] = "none" /\ want[c] = None
        /\ pc[c] \notin {"idle", "refused"} =>
              /\ on[c] \in Callers
              /\ want[c] \in Versions
              /\ stage[on[c]] # "none"
              /\ want[on[c]] = want[c]
              /\ pc[on[c]] \notin {"idle", "refused"}

\* A flight at work that has callers is the one in the map.
WantedIsMapped == \A f \in Callers : Wanted(f) => inflight[want[f]] = f

\* Cancelling a flight, and a flight ending in a cancellation, happen only
\* when nobody is counted in; a flight that never started has neither.
CancelledIsUnwanted ==
    \A f \in Callers :
        /\ stage[f] = "none" => ~cancelled[f] /\ outcome[f] = None
        /\ cancelled[f] /\ stage[f] # "over" => waiters[f] = 0
        /\ outcome[f] = "cancelled" => waiters[f] = 0
        /\ pc[f] = "cancelling" => waiters[on[f]] = 0

\* Who is told "cancelled" left of its own accord.
LeftOnItsOwn ==
    \A c \in Callers :
        /\ pc[c] \in {"leaving", "cancelling", "left"} => ctxDone[c]
        /\ answer[c] = "cancelled" => pc[c] \in {"cancelling", "left"}

IInv ==
    /\ TypeOK
    /\ CountExact
    /\ Boarded
    /\ JoinableIsAlive
    /\ WantedIsMapped
    /\ CancelledIsUnwanted
    /\ LeftOnItsOwn
=============================================================================
