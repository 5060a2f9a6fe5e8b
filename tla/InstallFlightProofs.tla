------------------------ MODULE InstallFlightProofs ------------------------
(***************************************************************************)
(* Proofs about InstallFlight for every finite set of callers and every    *)
(* set of versions: IInv is inductive, and the safety properties follow.   *)
(***************************************************************************)
EXTENDS InstallFlight, FiniteSetTheorems, TLAPS

-----------------------------------------------------------------------------
(* The counter and the set it counts. *)

\* The set the counter counts is finite, because the callers are.
LEMMA InterestedFinite ==
    ASSUME NEW f
    PROVE  IsFiniteSet(Interested(f)) /\ Cardinality(Interested(f)) \in Nat
  <1>1. Interested(f) \subseteq Callers
    BY DEF Interested
  <1>2. IsFiniteSet(Interested(f))
    BY <1>1, FS_Subset, FlightAssumption
  <1> QED
    BY <1>2, FS_CardinalityType

\* A call that waits, is leaving or was served is counted in its flight.
LEMMA Counted ==
    ASSUME TypeOK, CountExact, Boarded,
           NEW c \in Callers, pc[c] \in {"waiting", "leaving", "served"}
    PROVE  on[c] \in Callers /\ waiters[on[c]] \in Nat \ {0}
  <1>1. on[c] \in Callers
    BY DEF Boarded
  <1>2. c \in Interested(on[c])
    BY DEF Interested
  <1>3. Cardinality(Interested(on[c])) # 0
    BY <1>2, InterestedFinite, FS_EmptySet
  <1> QED
    BY <1>1, <1>3 DEF CountExact, TypeOK

-----------------------------------------------------------------------------
(* IInv holds initially and every step preserves it. *)

LEMMA InitIInv == Init => IInv
  <1> SUFFICES ASSUME Init PROVE IInv
    OBVIOUS
  <1> USE FlightAssumption
  <1>1. TypeOK
    BY DEF Init, TypeOK, Working, Outcomes
  <1>2. CountExact
    <2>1. \A f \in Callers : Interested(f) = {}
      BY DEF Init, Interested
    <2> QED
      BY <2>1, FS_EmptySet DEF Init, CountExact
  <1>3. Boarded /\ LeftOnItsOwn /\ CancelledIsUnwanted
    BY DEF Init, Boarded, LeftOnItsOwn, CancelledIsUnwanted, Outcomes
  <1>4. JoinableIsAlive /\ WantedIsMapped
    BY DEF Init, JoinableIsAlive, WantedIsMapped, Wanted, Working
  <1> QED
    BY <1>1, <1>2, <1>3, <1>4 DEF IInv

\* Types.
LEMMA TypeStep ==
    ASSUME IInv, Next PROVE TypeOK'
  <1> USE FlightAssumption DEF TypeOK, Outcomes, Working
  <1>1. TypeOK /\ CountExact /\ Boarded
    BY DEF IInv
  <1>2. ASSUME NEW c \in Callers, CallerStep(c) PROVE TypeOK'
    <2>1. CASE CtxEnds(c)
      BY <1>1, <2>1 DEF CtxEnds
    <2>2. CASE \E v \in Versions : Refuse(c, v)
      BY <1>1, <2>2 DEF Refuse
    <2>3. CASE \E v \in Versions : Start(c, v)
      BY <1>1, <2>3 DEF Start
    <2>4. CASE \E v \in Versions : Join(c, v)
      BY <1>1, <2>4 DEF Join
    <2>5. CASE Served(c)
      BY <1>1, <2>5 DEF Served, Boarded
    <2>6. CASE GiveUp(c)
      BY <1>1, <2>6 DEF GiveUp
    <2>7. CASE Leave(c)
      <3>1. on[c] \in Callers /\ waiters[on[c]] \in Nat \ {0}
        BY <1>1, <2>7, Counted DEF Leave
      <3>2. waiters[on[c]] - 1 \in Nat
        BY <3>1
      <3> QED
        BY <1>1, <2>7, <3>1, <3>2 DEF Leave
    <2>8. CASE CancelFlight(c)
      BY <1>1, <2>8 DEF CancelFlight
    <2> QED
      BY <1>2, <2>1, <2>2, <2>3, <2>4, <2>5, <2>6, <2>7, <2>8 DEF CallerStep
  <1>3. ASSUME NEW f \in Callers, FlightStep(f) PROVE TypeOK'
    <2>1. CASE \E o \in Outcomes : Ends(f, o)
      BY <1>1, <2>1 DEF Ends
    <2>2. CASE \E s \in {"fetching", "expanding", "releasing"} : Advances(f, s)
      BY <1>1, <2>2 DEF Advances
    <2>3. CASE Forget(f)
      BY <1>1, <2>3 DEF Forget
    <2>4. CASE Release(f)
      BY <1>1, <2>4 DEF Release
    <2> QED
      BY <1>3, <2>1, <2>2, <2>3, <2>4 DEF FlightStep, FindsPresent, FindsAbsent,
         CannotStage, Fetched, FetchFails, FetchCancelled, Expanded, Publish
  <1>4. ASSUME Quiet PROVE TypeOK'
    BY <1>1, <1>4 DEF Quiet, vars
  <1> QED
    BY <1>2, <1>3, <1>4 DEF Next

\* The counter: only arriving and leaving change it or the set it counts.
LEMMA CountStep ==
    ASSUME IInv, Next PROVE CountExact'
  <1> USE FlightAssumption
  <1>1. TypeOK /\ CountExact /\ Boarded
    BY DEF IInv
  <1>2. ASSUME waiters' = waiters, \A f \in Callers : Interested(f)' = Interested(f)
        PROVE  CountExact'
    BY <1>1, <1>2 DEF CountExact
  <1>3. ASSUME NEW c \in Callers, NEW v \in Versions, Start(c, v) PROVE CountExact'
    <2>1. ASSUME NEW f \in Callers, f # c PROVE Interested(f)' = Interested(f)
      BY <1>1, <1>3, <2>1 DEF Start, Interested, TypeOK
    <2>2. Interested(c)' = Interested(c) \cup {c}
      BY <1>1, <1>3 DEF Start, Interested, TypeOK
    <2>3. Interested(c) = {}
      BY <1>1, <1>3 DEF Start, Interested, Boarded
    <2>4. Interested(c)' = {c}
      BY <2>2, <2>3
    <2>5. Cardinality(Interested(c)') = 1
      BY <2>4, FS_Singleton
    <2> QED
      BY <1>1, <1>3, <2>1, <2>5 DEF Start, CountExact, TypeOK
  <1>4. ASSUME NEW c \in Callers, NEW v \in Versions, Join(c, v) PROVE CountExact'
    <2>1. PICK g \in Callers : g = inflight[v]
      BY <1>1, <1>4 DEF Join, TypeOK
    <2>2. ASSUME NEW f \in Callers, f # g PROVE Interested(f)' = Interested(f)
      BY <1>1, <1>4, <2>1, <2>2 DEF Join, Interested, TypeOK, Boarded
    <2>3. Interested(g)' = Interested(g) \cup {c} /\ c \notin Interested(g)
      BY <1>1, <1>4, <2>1 DEF Join, Interested, TypeOK
    <2>4. Cardinality(Interested(g)') = Cardinality(Interested(g)) + 1
      BY <2>3, InterestedFinite, FS_AddElement
    <2>5. waiters' = [waiters EXCEPT ![g] = @ + 1]
      BY <1>4, <2>1 DEF Join
    <2> QED
      BY <1>1, <2>1, <2>2, <2>4, <2>5 DEF CountExact, TypeOK
  <1>5. ASSUME NEW c \in Callers, Leave(c) PROVE CountExact'
    <2>1. PICK g \in Callers : g = on[c]
      BY <1>1, <1>5, Counted DEF Leave
    <2>2. ASSUME NEW f \in Callers, f # g PROVE Interested(f)' = Interested(f)
      BY <1>1, <1>5, <2>1, <2>2 DEF Leave, Interested, TypeOK
    <2>3. Interested(g)' = Interested(g) \ {c} /\ c \in Interested(g)
      BY <1>1, <1>5, <2>1 DEF Leave, Interested, TypeOK
    <2>4. Cardinality(Interested(g)') = Cardinality(Interested(g)) - 1
      BY <2>3, InterestedFinite, FS_RemoveElement
    <2>5. waiters' = [waiters EXCEPT ![g] = @ - 1]
      BY <1>5, <2>1 DEF Leave
    <2> QED
      BY <1>1, <2>1, <2>2, <2>4, <2>5 DEF CountExact, TypeOK
  <1>6. ASSUME NEW c \in Callers, CallerStep(c) PROVE CountExact'
    <2>1. CASE CtxEnds(c) \/ (\E v \in Versions : Refuse(c, v)) \/ CancelFlight(c)
      BY <1>1, <1>2, <2>1 DEF CtxEnds, Refuse, CancelFlight, Interested, TypeOK
    <2>2. CASE Served(c) \/ GiveUp(c)
      BY <1>1, <1>2, <2>2 DEF Served, GiveUp, Interested, TypeOK
    <2> QED
      BY <1>3, <1>4, <1>5, <1>6, <2>1, <2>2 DEF CallerStep
  <1>7. ASSUME NEW f \in Callers, FlightStep(f) PROVE CountExact'
    BY <1>2, <1>7 DEF FlightStep, FindsPresent, FindsAbsent, CannotStage, Fetched,
       FetchFails, FetchCancelled, Expanded, Forget, Publish, Release, Ends, Advances,
       Interested
  <1>8. ASSUME Quiet PROVE CountExact'
    BY <1>2, <1>8 DEF Quiet, vars, Interested
  <1> QED
    BY <1>6, <1>7, <1>8 DEF Next

\* The links between a call, its flight and the version.
LEMMA BoardedStep ==
    ASSUME IInv, Next PROVE Boarded'
  <1> USE FlightAssumption
  <1>1. TypeOK /\ Boarded /\ JoinableIsAlive
    BY DEF IInv
  <1>2. ASSUME NEW c \in Callers, CallerStep(c) PROVE Boarded'
    <2>1. CASE \E v \in Versions : Start(c, v)
      BY <1>1, <2>1 DEF Start, Boarded, TypeOK
    <2>2. CASE \E v \in Versions : Join(c, v)
      <3> PICK v \in Versions : Join(c, v)
        BY <2>2
      <3>1. inflight[v] \in Callers /\ want[inflight[v]] = v
            /\ stage[inflight[v]] # "none" /\ inflight[v] # c
        BY <1>1, Join(c, v)
           DEF Join, TypeOK, JoinableIsAlive, Wanted, Working, Boarded
      <3>2. pc[inflight[v]] \notin {"idle", "refused"}
        BY <1>1, <3>1 DEF Boarded
      <3> QED
        BY <1>1, <3>1, <3>2 DEF Join, Boarded, TypeOK
    <2>3. CASE \E v \in Versions : Refuse(c, v)
      BY <1>1, <2>3 DEF Refuse, Boarded, TypeOK
    <2>4. CASE CtxEnds(c) \/ Served(c) \/ GiveUp(c)
      BY <1>1, <2>4 DEF CtxEnds, Served, GiveUp, Boarded, TypeOK
    <2>5. CASE Leave(c) \/ CancelFlight(c)
      BY <1>1, <2>5 DEF Leave, CancelFlight, Boarded, TypeOK
    <2> QED
      BY <1>2, <2>1, <2>2, <2>3, <2>4, <2>5 DEF CallerStep
  <1>3. ASSUME NEW f \in Callers, FlightStep(f) PROVE Boarded'
    BY <1>1, <1>3 DEF FlightStep, FindsPresent, FindsAbsent, CannotStage, Fetched,
       FetchFails, FetchCancelled, Expanded, Forget, Publish, Release, Ends, Advances,
       Boarded, TypeOK
  <1>4. ASSUME Quiet PROVE Boarded'
    BY <1>1, <1>4 DEF Quiet, vars, Boarded
  <1> QED
    BY <1>2, <1>3, <1>4 DEF Next

\* The map names flights worth joining, and every flight still wanted.
LEMMA MappedStep ==
    ASSUME IInv, Next PROVE JoinableIsAlive' /\ WantedIsMapped'
  <1> USE FlightAssumption DEF JoinableIsAlive, WantedIsMapped, Wanted, Working
  <1>1. TypeOK /\ CountExact /\ Boarded /\ JoinableIsAlive /\ WantedIsMapped
        /\ CancelledIsUnwanted
    BY DEF IInv
  <1>2. ASSUME NEW c \in Callers, CallerStep(c)
        PROVE  JoinableIsAlive' /\ WantedIsMapped'
    <2>1. CASE \E v \in Versions : Start(c, v)
      BY <1>1, <2>1 DEF Start, Boarded, CancelledIsUnwanted, TypeOK
    <2>2. CASE \E v \in Versions : Join(c, v)
      BY <1>1, <2>2 DEF Join, Boarded, TypeOK
    <2>3. CASE Leave(c)
      <3>1. PICK g \in Callers : g = on[c] /\ waiters[g] \in Nat \ {0}
                               /\ want[g] = want[c] /\ want[c] \in Versions
        BY <1>1, <2>3, Counted DEF Leave, Boarded
      <3> QED
        BY <1>1, <2>3, <3>1 DEF Leave, TypeOK
    <2>4. CASE CancelFlight(c)
      BY <1>1, <2>4 DEF CancelFlight, CancelledIsUnwanted, Boarded, TypeOK
    <2>5. CASE CtxEnds(c) \/ (\E v \in Versions : Refuse(c, v)) \/ Served(c) \/ GiveUp(c)
      BY <1>1, <2>5 DEF CtxEnds, Refuse, Served, GiveUp
    <2> QED
      BY <1>2, <2>1, <2>2, <2>3, <2>4, <2>5 DEF CallerStep
  <1>3. ASSUME NEW f \in Callers, FlightStep(f)
        PROVE  JoinableIsAlive' /\ WantedIsMapped'
    <2>1. CASE stage[f] \in Working /\ \E o \in Outcomes : Ends(f, o)
      BY <1>1, <2>1 DEF Ends, TypeOK
    <2>2. CASE stage[f] \in Working /\ \E s \in Working : Advances(f, s)
      BY <1>1, <2>2 DEF Advances, TypeOK
    <2>3. CASE Forget(f)
      BY <1>1, <2>3 DEF Forget, TypeOK
    <2>4. CASE Publish(f)
      BY <1>1, <2>4 DEF Publish, Advances, TypeOK
    <2>5. CASE Release(f)
      BY <1>1, <2>5 DEF Release, TypeOK
    <2> QED
      BY <1>3, <2>1, <2>2, <2>3, <2>4, <2>5 DEF FlightStep, FindsPresent, FindsAbsent,
         CannotStage, Fetched, FetchFails, FetchCancelled, Expanded, Outcomes
  <1>4. ASSUME Quiet PROVE JoinableIsAlive' /\ WantedIsMapped'
    BY <1>1, <1>4 DEF Quiet, vars
  <1> QED
    BY <1>2, <1>3, <1>4 DEF Next

\* Cancellation strikes only flights with nobody counted in.
LEMMA UnwantedStep ==
    ASSUME IInv, Next PROVE CancelledIsUnwanted'
  <1> USE FlightAssumption DEF CancelledIsUnwanted
  <1>1. TypeOK /\ CountExact /\ Boarded /\ JoinableIsAlive /\ CancelledIsUnwanted
    BY DEF IInv
  <1>2. ASSUME NEW c \in Callers, CallerStep(c) PROVE CancelledIsUnwanted'
    <2>1. CASE \E v \in Versions : Start(c, v)
      <3>1. on[c] = None /\ stage[c] = "none" /\ cancelled[c] = FALSE /\ outcome[c] = None
        BY <1>1, <2>1 DEF Start, Boarded, TypeOK
      <3>2. \A f \in Callers \ {c} : pc[f] = "cancelling" => on[f] \in Callers /\ on[f] # c
        BY <1>1, <3>1 DEF Boarded
      <3>3. \A f \in Callers : cancelled'[f] = cancelled[f] /\ outcome'[f] = outcome[f]
        BY <2>1 DEF Start
      <3>4. \A f \in Callers \ {c} : /\ waiters'[f] = waiters[f]
                                    /\ stage'[f] = stage[f]
                                    /\ pc'[f] = pc[f]
                                    /\ on'[f] = on[f]
        BY <1>1, <2>1 DEF Start, TypeOK
      <3>5. stage'[c] = "checking" /\ pc'[c] = "waiting"
        BY <1>1, <2>1 DEF Start, TypeOK
      <3>6. outcome'[c] # "cancelled"
        BY <3>1, <3>3 DEF Outcomes
      <3> QED
        BY <1>1, <3>1, <3>2, <3>3, <3>4, <3>5, <3>6
    <2>2. CASE \E v \in Versions : Join(c, v)
      BY <1>1, <2>2 DEF Join, Boarded, JoinableIsAlive, Wanted, Working, TypeOK
    <2>3. CASE Leave(c)
      <3>1. PICK g \in Callers : g = on[c] /\ waiters[g] \in Nat \ {0}
        BY <1>1, <2>3, Counted DEF Leave
      <3> QED
        BY <1>1, <2>3, <3>1 DEF Leave, TypeOK, Boarded
    <2>4. CASE CancelFlight(c)
      BY <1>1, <2>4 DEF CancelFlight, TypeOK, Boarded
    <2>5. CASE CtxEnds(c) \/ (\E v \in Versions : Refuse(c, v)) \/ Served(c) \/ GiveUp(c)
      BY <1>1, <2>5 DEF CtxEnds, Refuse, Served, GiveUp, TypeOK
    <2> QED
      BY <1>2, <2>1, <2>2, <2>3, <2>4, <2>5 DEF CallerStep
  <1>3. ASSUME NEW f \in Callers, FlightStep(f) PROVE CancelledIsUnwanted'
    <2>1. CASE stage[f] \in Working /\ \E o \in Outcomes \ {"cancelled"} : Ends(f, o)
      BY <1>1, <2>1 DEF Ends, TypeOK, Working
    <2>2. CASE FetchCancelled(f)
      BY <1>1, <2>2 DEF FetchCancelled, Ends, TypeOK, Working
    <2>3. CASE stage[f] # "over" /\ \E s \in {"fetching", "expanding", "releasing"} : Advances(f, s)
      BY <1>1, <2>3 DEF Advances, TypeOK
    <2>4. CASE Forget(f) \/ Release(f)
      BY <1>1, <2>4 DEF Forget, Release, TypeOK
    <2> QED
      BY <1>3, <2>1, <2>2, <2>3, <2>4 DEF FlightStep, FindsPresent, FindsAbsent,
         CannotStage, Fetched, FetchFails, Expanded, Publish, Outcomes, Working
  <1>4. ASSUME Quiet PROVE CancelledIsUnwanted'
    BY <1>1, <1>4 DEF Quiet, vars
  <1> QED
    BY <1>2, <1>3, <1>4 DEF Next

\* Nobody is told "cancelled" but those whose own context is over.
LEMMA LeftStep ==
    ASSUME IInv, Next PROVE LeftOnItsOwn'
  <1> USE FlightAssumption DEF LeftOnItsOwn
  <1>1. TypeOK /\ CountExact /\ Boarded /\ CancelledIsUnwanted /\ LeftOnItsOwn
    BY DEF IInv
  <1>2. ASSUME NEW c \in Callers, CallerStep(c) PROVE LeftOnItsOwn'
    <2>1. CASE Served(c)
      <3>1. outcome[on[c]] # "cancelled"
        BY <1>1, <2>1, Counted DEF Served, CancelledIsUnwanted
      <3> QED
        BY <1>1, <2>1, <3>1 DEF Served, TypeOK
    <2>2. CASE \E v \in Versions : Refuse(c, v)
      BY <1>1, <2>2 DEF Refuse, TypeOK
    <2>3. CASE \E v \in Versions : Start(c, v) \/ Join(c, v)
      BY <1>1, <2>3 DEF Start, Join, TypeOK
    <2>4. CASE CtxEnds(c) \/ GiveUp(c)
      BY <1>1, <2>4 DEF CtxEnds, GiveUp, TypeOK
    <2>5. CASE Leave(c) \/ CancelFlight(c)
      BY <1>1, <2>5 DEF Leave, CancelFlight, TypeOK
    <2> QED
      BY <1>2, <2>1, <2>2, <2>3, <2>4, <2>5 DEF CallerStep
  <1>3. ASSUME NEW f \in Callers, FlightStep(f) PROVE LeftOnItsOwn'
    BY <1>1, <1>3 DEF FlightStep, FindsPresent, FindsAbsent, CannotStage, Fetched,
       FetchFails, FetchCancelled, Expanded, Forget, Publish, Release, Ends, Advances
  <1>4. ASSUME Quiet PROVE LeftOnItsOwn'
    BY <1>1, <1>4 DEF Quiet, vars
  <1> QED
    BY <1>2, <1>3, <1>4 DEF Next

\* A stuttering step changes nothing IInv reads.
LEMMA StutterIInv ==
    ASSUME IInv, UNCHANGED vars PROVE IInv'
  BY DEF IInv, vars, TypeOK, CountExact, Interested, Boarded, JoinableIsAlive,
     WantedIsMapped, Wanted, CancelledIsUnwanted, LeftOnItsOwn

-----------------------------------------------------------------------------
(* The theorems. *)

\* IInv is an invariant of the specification, for any number of callers.
THEOREM FlightInvariant == Spec => []IInv
  <1>1. ASSUME IInv, [Next]_vars PROVE IInv'
    <2>1. CASE Next
      BY <1>1, <2>1, TypeStep, CountStep, BoardedStep, MappedStep, UnwantedStep, LeftStep
         DEF IInv
    <2>2. CASE UNCHANGED vars
      BY <1>1, <2>2, StutterIInv
    <2> QED
      BY <1>1, <2>1, <2>2
  <1> QED
    BY InitIInv, <1>1, PTL DEF Spec

\* Every variable keeps its type.
THEOREM FlightTypeCorrect == Spec => []TypeOK
  <1>1. IInv => TypeOK
    BY DEF IInv
  <1> QED
    BY FlightInvariant, <1>1, PTL

\* One version is never downloaded twice for callers that still want it.
THEOREM FlightSingle == Spec => []SingleFlight
  <1>1. IInv => SingleFlight
    BY DEF IInv, SingleFlight, WantedIsMapped
  <1> QED
    BY FlightInvariant, <1>1, PTL

\* A caller is told "cancelled" only when its own context is over.
THEOREM FlightNoForeignCancellation == Spec => []NoForeignCancellation
  <1>1. IInv => NoForeignCancellation
    BY DEF IInv, NoForeignCancellation, LeftOnItsOwn
  <1> QED
    BY FlightInvariant, <1>1, PTL

\* The map only ever names flights a newcomer can profit from.
THEOREM FlightJoinableIsAlive == Spec => []JoinableIsAlive
  <1>1. IInv => JoinableIsAlive
    BY DEF IInv
  <1> QED
    BY FlightInvariant, <1>1, PTL

\* An entry leaves the map only on behalf of the flight it names.
THEOREM FlightOnlyItsOwnEntry == Spec => OnlyItsOwnEntry
  <1>1. ASSUME IInv, [Next]_vars PROVE [EvictsOnlyItsOwn]_vars
    <2> SUFFICES ASSUME Next, NEW v \in Versions, inflight[v] \notin {None, inflight'[v]}
                 PROVE  \/ waiters'[inflight[v]] = 0
                        \/ stage'[inflight[v]] = "publishing"
      BY <1>1 DEF EvictsOnlyItsOwn, vars
    <2>1. TypeOK /\ CountExact /\ Boarded
      BY <1>1 DEF IInv
    <2>2. ASSUME NEW c \in Callers, Leave(c) PROVE waiters'[inflight[v]] = 0
      <3>1. on[c] \in Callers /\ waiters[on[c]] \in Nat \ {0}
        BY <2>1, <2>2, Counted DEF Leave
      <3>2. inflight[v] = on[c] /\ waiters[on[c]] = 1
        BY <2>1, <2>2 DEF Leave, TypeOK
      <3> QED
        BY <2>1, <2>2, <3>1, <3>2 DEF Leave, TypeOK
    <2>3. ASSUME NEW f \in Callers, Forget(f) PROVE stage'[inflight[v]] = "publishing"
      BY <2>1, <2>3 DEF Forget, TypeOK
    <2>4. ASSUME NEW c \in Callers, NEW w \in Versions, Start(c, w) PROVE FALSE
      BY <2>1, <2>4 DEF Start, TypeOK
    <2>5. ASSUME inflight' = inflight PROVE FALSE
      BY <2>5
    <2> QED
      BY <2>2, <2>3, <2>4, <2>5 DEF Next, CallerStep, FlightStep, CtxEnds, Refuse, Join,
         Served, GiveUp, CancelFlight, FindsPresent, FindsAbsent, CannotStage, Fetched,
         FetchFails, FetchCancelled, Expanded, Publish, Release, Ends, Advances, Quiet, vars
  <1> QED
    BY FlightInvariant, <1>1, PTL DEF Spec, OnlyItsOwnEntry
=============================================================================
