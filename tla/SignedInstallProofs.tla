------------------------- MODULE SignedInstallProofs -------------------------
(***************************************************************************)
(* Proofs about SignedInstall for any processes, pins, versions, documents *)
(* and signatures: SignedInv is inductive, and the properties follow.      *)
(***************************************************************************)
EXTENDS SignedInstall, FiniteSetTheorems, WellFoundedInduction, TLAPS

\* An install at work trusts what was released as its version,
Trusting ==
    \A p \in Procs : pc[p] \in {"staging", "downloading"} =>
        manifest[p] \in Released /\ manifest[p].version = ver[p]

\* and from the end of its download on holds that version's build.
Sealed ==
    \A p \in Procs : pc[p] \in {"flushing", "publishing", "colliding", "settling"} =>
        staged[p] = ver[p]

\* No power cut finds anything but the build of the version, an empty directory or
\* none; and an empty one only where a removal has begun.
Genuine ==
    \A v \in Versions :
        /\ device[v] \subseteq {v, Absent, Empty}
        /\ v \notin removed => device[v] \subseteq {v, Absent}

\* An install met something in its way, unless it has been removed since.
MetSomething ==
    \A p \in Procs : pc[p] = "colliding" /\ ver[p] \notin removed => disk[ver[p]] # Absent

PinnedByAll(v) == \A p \in Procs : PinOf[p] = v

\* What every process is pinned to is not removed: it is there from the rename on,
\* and on the device from the flush on.
PinHeld ==
    \A v \in Versions : PinnedByAll(v) =>
        /\ \A p \in Procs : pc[p] = "settling" /\ ver[p] = v => disk[v] = v
        /\ v \in promised => device[v] = {v}

SignedInv ==
    /\ TypeOK
    /\ Trusting /\ Sealed
    /\ Genuine /\ MetSomething /\ BlockedByARemoval
    /\ PinHeld

LEMMA InitSignedInv == Init => SignedInv
  <1> SUFFICES ASSUME Init PROVE SignedInv
    OBVIOUS
  <1>1. key = "release"
    BY DEF Init, ReleaseKey
  <1>2. TypeOK
    <2>1. /\ ver \in [Procs -> Versions] /\ manifest \in [Procs -> Documents \cup {None}]
          /\ staged \in [Procs -> Files \cup {None}]
          /\ kept \in [Procs -> SUBSET Versions] /\ doomed \in [Procs -> SUBSET Versions]
          /\ \A p \in Procs : PinOf[p] \notin doomed[p]
      BY SignedAssumption DEF Init
    <2>2. /\ disk \in [Versions -> Files \cup {Absent, Empty}]
          /\ \A v \in Versions : disk[v] \in device[v]
      BY DEF Init
    <2>3. device \in [Versions -> SUBSET (Files \cup {Absent, Empty})]
      BY DEF Init
    <2>4. /\ pc \in [Procs -> {"idle", "asking", "staging", "downloading", "flushing", "publishing",
                              "colliding", "settling", "listing", "removing"}]
          /\ answer \in [Procs -> {None, "installed", "present", "failed", "blocked", "pruned"}]
      BY DEF Init
    <2>5. crashes \in 0..MaxCrashes
      BY SignedAssumption DEF Init
    <2>6. removed \subseteq Versions /\ promised \subseteq Versions
      BY DEF Init
    <2>7. spared \in BOOLEAN
      BY DEF Init
    <2> QED
      BY <1>1, <2>1, <2>2, <2>3, <2>4, <2>5, <2>6, <2>7 DEF TypeOK
  <1>3. Trusting /\ Sealed /\ MetSomething
    BY DEF Init, Trusting, Sealed, MetSomething
  <1>4. Genuine /\ PinHeld
    BY DEF Init, Genuine, PinHeld
  <1>5. BlockedByARemoval
    BY SignedAssumption DEF Init, BlockedByARemoval
  <1> QED
    BY <1>2, <1>3, <1>4, <1>5 DEF SignedInv

\* What a signature of the release key vouches for was released.
LEMMA VouchedIsReleased ==
    ASSUME key = "release", NEW doc \in Documents, Vouched(doc)
    PROVE  doc \in Released
  BY SignedAssumption DEF Vouched, Verified

-----------------------------------------------------------------------------
(* One lemma for each part of the invariant. *)

\* Types.
LEMMA TypeStep ==
    ASSUME TypeOK, Sealed, [Next]_vars
    PROVE  TypeOK'
  <1> USE SignedAssumption DEF Goes, Returns, vars, opVars, diskVars, history,
       TypeOK, Sealed, Files
  <1>1. ASSUME NEW p \in Procs, Step(p)
        PROVE  TypeOK'
    <2>1. ASSUME NEW v \in Versions, BeginInstall(p, v)
         PROVE  TypeOK'
      BY <1>1, <2>1 DEF BeginInstall
    <2>2. ASSUME NEW v \in Versions, Unlinks(p, v)
         PROVE  TypeOK'
      BY <1>1, <2>2 DEF Unlinks
    <2>3. ASSUME NEW v \in Versions, Removes(p, v)
         PROVE  TypeOK'
      BY <1>1, <2>3 DEF Removes
    <2>4. ASSUME NEW doc \in Documents, Trusts(p, doc)
         PROVE  TypeOK'
      BY <1>1, <2>4 DEF Trusts
    <2>5. ASSUME NEW file \in Files, Downloads(p, file)
         PROVE  TypeOK'
      BY <1>1, <2>5 DEF Downloads
    <2>6. CASE Stages(p)
      BY <1>1, <2>6 DEF Stages
    <2>7. CASE Flushes(p)
      BY <1>1, <2>7 DEF Flushes
    <2>8. CASE Publish(p)
      BY <1>1, <2>8 DEF Publish, Renames
    <2>9. CASE Collides(p)
      BY <1>1, <2>9 DEF Collides
    <2>10. CASE Settles(p)
      BY <1>1, <2>10 DEF Settles
    <2>11. CASE Fails(p)
      BY <1>1, <2>11 DEF Fails
    <2>12. ASSUME NEW k \in Keeps, BeginPrune(p, k)
         PROVE  TypeOK'
      BY <1>1, <2>12 DEF BeginPrune, Newest
    <2>13. CASE ListsDirs(p)
      BY <1>1, <2>13 DEF ListsDirs
    <2>14. CASE Pruned(p)
      BY <1>1, <2>14 DEF Pruned
    <2>15. CASE Crash(p)
      BY <1>1, <2>15 DEF Crash, Die
    <2> QED
      BY <1>1, <2>1, <2>2, <2>3, <2>4, <2>5, <2>6, <2>7, <2>8, <2>9, <2>10, <2>11, <2>12, <2>13, <2>14, <2>15 DEF Step
  <1>2. CASE PowerCut
    <2>1. /\ disk' \in [Versions -> Files \cup {Absent, Empty}]
          /\ device' = [v \in Versions |-> {disk'[v]}]
      <3>1. \A v \in Versions : device[v] \subseteq Files \cup {Absent, Empty}
        OBVIOUS
      <3>2. disk' \in [Versions -> UNION {device[v] : v \in Versions}]
        BY <1>2 DEF PowerCut
      <3>3. \A v \in Versions : disk'[v] \in device[v]
        BY <1>2 DEF PowerCut
      <3> QED
        BY <1>2, <3>1, <3>2, <3>3 DEF PowerCut
    <2>2. /\ device' \in [Versions -> SUBSET (Files \cup {Absent, Empty})]
          /\ \A v \in Versions : disk'[v] \in device'[v]
      BY <2>1
    <2>3. spared' \in BOOLEAN
      BY <1>2 DEF PowerCut
    <2>4. Die(Procs)
      BY <1>2 DEF PowerCut
    <2>5. /\ key' = "release" /\ ver' \in [Procs -> Versions]
          /\ removed' \subseteq Versions /\ promised' \subseteq Versions
          /\ crashes' \in 0..MaxCrashes
      BY <2>4 DEF Die
    <2>6. /\ pc' = [p \in Procs |-> "idle"] /\ answer' = [p \in Procs |-> None]
          /\ manifest' = [p \in Procs |-> None] /\ staged' = [p \in Procs |-> None]
          /\ kept' = [p \in Procs |-> {}] /\ doomed' = [p \in Procs |-> {}]
      BY <2>4 DEF Die
    <2> QED
      BY <2>1, <2>2, <2>3, <2>5, <2>6
  <1>3. CASE UNCHANGED vars
    BY <1>3
  <1> QED
    BY <1>1, <1>2, <1>3 DEF Next

\* Only what was released is downloaded.
LEMMA TrustStep ==
    ASSUME TypeOK, Trusting, Sealed, [Next]_vars
    PROVE  Trusting' /\ Sealed'
  <1> USE SignedAssumption DEF Goes, Returns, vars, opVars, diskVars, history,
       TypeOK, Trusting, Sealed, Files
  <1>1. ASSUME NEW p \in Procs, Step(p)
        PROVE  Trusting' /\ Sealed'
    <2>1. ASSUME NEW v \in Versions, BeginInstall(p, v)
         PROVE  Trusting' /\ Sealed'
      BY <1>1, <2>1 DEF BeginInstall
    <2>2. ASSUME NEW v \in Versions, Unlinks(p, v)
         PROVE  Trusting' /\ Sealed'
      BY <1>1, <2>2 DEF Unlinks
    <2>3. ASSUME NEW v \in Versions, Removes(p, v)
         PROVE  Trusting' /\ Sealed'
      BY <1>1, <2>3 DEF Removes
    <2>4. ASSUME NEW doc \in Documents, Trusts(p, doc)
         PROVE  Trusting' /\ Sealed'
      BY <1>1, <2>4, VouchedIsReleased DEF Trusts
    <2>5. ASSUME NEW file \in Files, Downloads(p, file)
         PROVE  Trusting' /\ Sealed'
      BY <1>1, <2>5 DEF Downloads
    <2>6. CASE Stages(p)
      BY <1>1, <2>6 DEF Stages
    <2>7. CASE Flushes(p)
      BY <1>1, <2>7 DEF Flushes
    <2>8. CASE Publish(p)
      BY <1>1, <2>8 DEF Publish, Renames
    <2>9. CASE Collides(p)
      BY <1>1, <2>9 DEF Collides
    <2>10. CASE Settles(p)
      BY <1>1, <2>10 DEF Settles
    <2>11. CASE Fails(p)
      BY <1>1, <2>11 DEF Fails
    <2>12. ASSUME NEW k \in Keeps, BeginPrune(p, k)
         PROVE  Trusting' /\ Sealed'
      BY <1>1, <2>12 DEF BeginPrune, Newest
    <2>13. CASE ListsDirs(p)
      BY <1>1, <2>13 DEF ListsDirs
    <2>14. CASE Pruned(p)
      BY <1>1, <2>14 DEF Pruned
    <2>15. CASE Crash(p)
      BY <1>1, <2>15 DEF Crash, Die
    <2> QED
      BY <1>1, <2>1, <2>2, <2>3, <2>4, <2>5, <2>6, <2>7, <2>8, <2>9, <2>10, <2>11, <2>12, <2>13, <2>14, <2>15 DEF Step
  <1>2. CASE PowerCut
    BY <1>2 DEF PowerCut, Die
  <1>3. CASE UNCHANGED vars
    BY <1>3
  <1> QED
    BY <1>1, <1>2, <1>3 DEF Next

\* Nothing else reaches the disk.
LEMMA DiskStep ==
    ASSUME TypeOK, Sealed, Genuine, [Next]_vars
    PROVE  Genuine'
  <1> USE SignedAssumption DEF Goes, Returns, vars, opVars, diskVars, history,
       TypeOK, Sealed, Genuine
  <1>1. ASSUME NEW p \in Procs, Step(p)
        PROVE  Genuine'
    <2>1. ASSUME NEW v \in Versions, BeginInstall(p, v)
         PROVE  Genuine'
      BY <1>1, <2>1 DEF BeginInstall
    <2>2. ASSUME NEW v \in Versions, Unlinks(p, v)
         PROVE  Genuine'
      BY <1>1, <2>2 DEF Unlinks
    <2>3. ASSUME NEW v \in Versions, Removes(p, v)
         PROVE  Genuine'
      BY <1>1, <2>3 DEF Removes
    <2>4. ASSUME NEW doc \in Documents, Trusts(p, doc)
         PROVE  Genuine'
      BY <1>1, <2>4 DEF Trusts
    <2>5. ASSUME NEW file \in Files, Downloads(p, file)
         PROVE  Genuine'
      BY <1>1, <2>5 DEF Downloads
    <2>6. CASE Stages(p)
      BY <1>1, <2>6 DEF Stages
    <2>7. CASE Flushes(p)
      BY <1>1, <2>7 DEF Flushes
    <2>8. CASE Publish(p)
      BY <1>1, <2>8 DEF Publish, Renames
    <2>9. CASE Collides(p)
      BY <1>1, <2>9 DEF Collides
    <2>10. CASE Settles(p)
      BY <1>1, <2>10 DEF Settles
    <2>11. CASE Fails(p)
      BY <1>1, <2>11 DEF Fails
    <2>12. ASSUME NEW k \in Keeps, BeginPrune(p, k)
         PROVE  Genuine'
      BY <1>1, <2>12 DEF BeginPrune, Newest
    <2>13. CASE ListsDirs(p)
      BY <1>1, <2>13 DEF ListsDirs
    <2>14. CASE Pruned(p)
      BY <1>1, <2>14 DEF Pruned
    <2>15. CASE Crash(p)
      BY <1>1, <2>15 DEF Crash, Die
    <2> QED
      BY <1>1, <2>1, <2>2, <2>3, <2>4, <2>5, <2>6, <2>7, <2>8, <2>9, <2>10, <2>11, <2>12, <2>13, <2>14, <2>15 DEF Step
  <1>2. CASE PowerCut
    BY <1>2 DEF PowerCut, Die
  <1>3. CASE UNCHANGED vars
    BY <1>3
  <1> QED
    BY <1>1, <1>2, <1>3 DEF Next

\* Nothing turns an install away but a removal.
LEMMA BlockStep ==
    ASSUME TypeOK, Genuine, MetSomething, BlockedByARemoval, [Next]_vars
    PROVE  MetSomething' /\ BlockedByARemoval'
  <1> USE SignedAssumption DEF Goes, Returns, vars, opVars, diskVars, history,
       TypeOK, Genuine, MetSomething, BlockedByARemoval, Usable
  <1>1. ASSUME NEW p \in Procs, Step(p)
        PROVE  MetSomething' /\ BlockedByARemoval'
    <2>1. ASSUME NEW v \in Versions, BeginInstall(p, v)
         PROVE  MetSomething' /\ BlockedByARemoval'
      BY <1>1, <2>1 DEF BeginInstall
    <2>2. ASSUME NEW v \in Versions, Unlinks(p, v)
         PROVE  MetSomething' /\ BlockedByARemoval'
      BY <1>1, <2>2 DEF Unlinks
    <2>3. ASSUME NEW v \in Versions, Removes(p, v)
         PROVE  MetSomething' /\ BlockedByARemoval'
      BY <1>1, <2>3 DEF Removes
    <2>4. ASSUME NEW doc \in Documents, Trusts(p, doc)
         PROVE  MetSomething' /\ BlockedByARemoval'
      BY <1>1, <2>4 DEF Trusts
    <2>5. ASSUME NEW file \in Files, Downloads(p, file)
         PROVE  MetSomething' /\ BlockedByARemoval'
      BY <1>1, <2>5 DEF Downloads
    <2>6. CASE Stages(p)
      BY <1>1, <2>6 DEF Stages
    <2>7. CASE Flushes(p)
      BY <1>1, <2>7 DEF Flushes
    <2>8. CASE Publish(p)
      BY <1>1, <2>8 DEF Publish, Renames
    <2>9. CASE Collides(p)
      <3>1. MetSomething'
        BY <1>1, <2>9 DEF Collides
      <3>2. ASSUME answer'[p] = "blocked" PROVE ver[p] \in removed
        <4> SUFFICES ASSUME ver[p] \notin removed PROVE FALSE
          OBVIOUS
        <4>1. ver[p] \in Versions /\ pc[p] = "colliding" /\ disk[ver[p]] \in {Absent, Empty}
          BY <1>1, <2>9, <3>2 DEF Collides
        <4>2. disk[ver[p]] # Absent
          BY <1>1, <4>1
        <4>3. disk[ver[p]] \in device[ver[p]] /\ device[ver[p]] \subseteq {ver[p], Absent}
          BY <4>1
        <4>4. ver[p] \in Nat /\ Empty \notin Nat
          BY <4>1
        <4> HIDE DEF TypeOK, Genuine, MetSomething, BlockedByARemoval
        <4> QED
          BY <4>1, <4>2, <4>3, <4>4
      <3> QED
        BY <1>1, <2>9, <3>1, <3>2 DEF Collides
    <2>10. CASE Settles(p)
      BY <1>1, <2>10 DEF Settles
    <2>11. CASE Fails(p)
      BY <1>1, <2>11 DEF Fails
    <2>12. ASSUME NEW k \in Keeps, BeginPrune(p, k)
         PROVE  MetSomething' /\ BlockedByARemoval'
      BY <1>1, <2>12 DEF BeginPrune, Newest
    <2>13. CASE ListsDirs(p)
      BY <1>1, <2>13 DEF ListsDirs
    <2>14. CASE Pruned(p)
      BY <1>1, <2>14 DEF Pruned
    <2>15. CASE Crash(p)
      BY <1>1, <2>15 DEF Crash, Die
    <2> QED
      BY <1>1, <2>1, <2>2, <2>3, <2>4, <2>5, <2>6, <2>7, <2>8, <2>9, <2>10, <2>11, <2>12, <2>13, <2>14, <2>15 DEF Step
  <1>2. CASE PowerCut
    BY <1>2 DEF PowerCut, Die
  <1>3. CASE UNCHANGED vars
    BY <1>3
  <1> QED
    BY <1>1, <1>2, <1>3 DEF Next

\* A step that leaves the disk and what was promised alone, and brings nobody to the
\* flush of the root.
LeavesThePins ==
    /\ UNCHANGED <<diskVars, promised>>
    /\ \A q \in Procs : pc'[q] = "settling" => pc[q] = "settling" /\ ver'[q] = ver[q]

LEMMA StepsThatLeaveThePins ==
    ASSUME TypeOK, NEW p \in Procs, Step(p),
           ~Publish(p), ~Settles(p), \A v \in Versions : ~Unlinks(p, v) /\ ~Removes(p, v)
    PROVE  LeavesThePins
  <1>1. /\ pc \in [Procs -> {"idle", "asking", "staging", "downloading", "flushing", "publishing",
                            "colliding", "settling", "listing", "removing"}]
        /\ ver \in [Procs -> Versions]
    BY DEF TypeOK
  <1> USE DEF LeavesThePins, Goes, Returns, diskVars, history
  <1>2. ASSUME NEW v \in Versions, BeginInstall(p, v) PROVE LeavesThePins
    BY <1>1, <1>2 DEF BeginInstall
  <1>3. ASSUME NEW doc \in Documents, Trusts(p, doc) PROVE LeavesThePins
    BY <1>1, <1>3 DEF Trusts
  <1>4. ASSUME NEW file \in Files, Downloads(p, file) PROVE LeavesThePins
    BY <1>1, <1>4 DEF Downloads
  <1>5. CASE Stages(p)
    BY <1>1, <1>5 DEF Stages
  <1>6. CASE Flushes(p)
    BY <1>1, <1>6 DEF Flushes
  <1>7. CASE Collides(p)
    BY <1>1, <1>7 DEF Collides
  <1>8. CASE Fails(p)
    BY <1>1, <1>8 DEF Fails
  <1>9. ASSUME NEW k \in Keeps, BeginPrune(p, k) PROVE LeavesThePins
    BY <1>1, <1>9 DEF BeginPrune
  <1>10. CASE ListsDirs(p)
    BY <1>1, <1>10 DEF ListsDirs
  <1>11. CASE Pruned(p)
    BY <1>1, <1>11 DEF Pruned
  <1>12. CASE Crash(p)
    BY <1>1, <1>12 DEF Crash, Die
  <1> QED
    BY <1>2, <1>3, <1>4, <1>5, <1>6, <1>7, <1>8, <1>9, <1>10, <1>11, <1>12 DEF Step

\* A removal never touches what every process is pinned to.
LEMMA RemovalHoldsPins ==
    ASSUME TypeOK, PinHeld, NEW p \in Procs, NEW v \in Versions, Unlinks(p, v) \/ Removes(p, v)
    PROVE  PinHeld'
  <1>1. v # PinOf[p]
    BY DEF TypeOK, Unlinks, Removes
  <1>2. /\ \A w \in Versions \ {v} : disk'[w] = disk[w] /\ device'[w] = device[w]
        /\ UNCHANGED <<pc, ver, promised>>
    BY DEF TypeOK, Unlinks, Removes, opVars
  <1> QED
    BY <1>1, <1>2 DEF PinHeld, PinnedByAll

LEMMA PublishHoldsPins ==
    ASSUME TypeOK, Sealed, PinHeld, NEW p \in Procs, Publish(p)
    PROVE  PinHeld'
  <1>1. /\ pc \in [Procs -> {"idle", "asking", "staging", "downloading", "flushing", "publishing",
                            "colliding", "settling", "listing", "removing"}]
        /\ ver[p] \in Versions /\ disk[ver[p]] \in device[ver[p]]
        /\ disk \in [Versions -> Files \cup {Absent, Empty}]
        /\ device \in [Versions -> SUBSET (Files \cup {Absent, Empty})]
    BY DEF TypeOK
  <1>2. UNCHANGED <<ver, promised>> /\ pc[p] = "publishing" /\ staged[p] = ver[p]
    BY DEF Publish, Sealed, history
  <1>3. CASE Renames(p, ver[p])
    <2>1. /\ pc' = [pc EXCEPT ![p] = "settling"]
          /\ disk' = [disk EXCEPT ![ver[p]] = ver[p]] /\ disk[ver[p]] = Absent
          /\ \A w \in Versions \ {ver[p]} : device'[w] = device[w]
      BY <1>1, <1>2, <1>3 DEF Renames, Goes
    <2>2. ver[p] \in Nat /\ Absent \notin Nat
      BY <1>1, SignedAssumption
    <2>3. PinnedByAll(ver[p]) => ver[p] \notin promised
      BY <1>1, <2>1, <2>2 DEF PinHeld
    <2> QED
      BY <1>1, <1>2, <2>1, <2>3 DEF PinHeld
  <1>4. CASE Goes(p, "colliding") /\ UNCHANGED diskVars
    BY <1>1, <1>2, <1>4 DEF Goes, diskVars, PinHeld
  <1> QED
    BY <1>3, <1>4 DEF Publish

\* A pin is on the device once the root is flushed.
LEMMA SettlesHoldsPins ==
    ASSUME TypeOK, Genuine, PinHeld, NEW p \in Procs, Settles(p)
    PROVE  PinHeld'
  <1> SUFFICES ASSUME NEW v \in Versions, PinnedByAll(v)
               PROVE  /\ \A q \in Procs : pc'[q] = "settling" /\ ver'[q] = v => disk'[v] = v
                      /\ v \in promised' => device'[v] = {v}
    BY DEF PinHeld, PinnedByAll
  <1>1. /\ pc[p] = "settling"
        /\ UNCHANGED <<disk, ver>> /\ promised' = promised \cup {ver[p]}
        /\ \A q \in Procs : pc'[q] = "settling" => pc[q] = "settling"
    BY DEF TypeOK, Settles, Returns, Goes
  <1>2. /\ \A q \in Procs : pc[q] = "settling" /\ ver[q] = v => disk[v] = v
        /\ v \in promised => device[v] = {v}
        /\ disk[v] \in device[v]
    BY DEF PinHeld, TypeOK
  <1>3. v \in promised' => disk[v] = v
    BY <1>1, <1>2
  <1>4. v \in Nat /\ Absent \notin Nat /\ Empty \notin Nat /\ Short \notin Nat
    BY SignedAssumption
  <1>5. disk[v] = v => device'[v] = device[v] \cap {v, Short}
    BY <1>4 DEF Settles
  <1>6. device[v] \subseteq {v, Absent, Empty} /\ Short \notin {Absent, Empty}
    BY SignedAssumption DEF Genuine
  <1>7. disk[v] = v => device'[v] = {v}
    BY <1>2, <1>4, <1>5, <1>6
  <1> QED
    BY <1>1, <1>2, <1>3, <1>7

\* A power cut leaves of a pin what is on the device.
LEMMA PowerCutHoldsPins ==
    ASSUME TypeOK, PinHeld, PowerCut
    PROVE  PinHeld'
  <1>1. \A v \in Versions : disk'[v] \in device[v] /\ device'[v] = {disk'[v]}
    BY DEF PowerCut
  <1>2. promised' = promised /\ \A q \in Procs : pc'[q] = "idle"
    BY DEF PowerCut, Die
  <1> QED
    BY <1>1, <1>2 DEF PinHeld, PinnedByAll

LEMMA PinStep ==
    ASSUME TypeOK, Sealed, Genuine, PinHeld, [Next]_vars
    PROVE  PinHeld'
  <1>1. ASSUME LeavesThePins PROVE PinHeld'
    BY <1>1 DEF LeavesThePins, diskVars, PinHeld, PinnedByAll
  <1>2. CASE UNCHANGED vars
    BY <1>1, <1>2 DEF vars, opVars, history, LeavesThePins
  <1>3. ASSUME NEW p \in Procs, Step(p) PROVE PinHeld'
    BY <1>1, <1>3, StepsThatLeaveThePins, RemovalHoldsPins, PublishHoldsPins, SettlesHoldsPins
  <1> QED
    BY <1>2, <1>3, PowerCutHoldsPins DEF Next

-----------------------------------------------------------------------------
(* What a Prune leaves. *)

Pruning(p) == pc[p] \in {"listing", "removing"}

\* While nothing has come between, one Prune at most is at work, and a version that can be
\* run is among those it keeps, and then not among those it removes.
SomeIsSpared ==
    spared =>
        /\ \A p, q \in Procs : Pruning(p) /\ Pruning(q) => p = q
        /\ \E v \in Versions :
              /\ Usable(v)
              /\ \A p \in Procs : pc[p] = "listing" => v \in kept[p]
              /\ \A p \in Procs : pc[p] = "removing" => v \notin doomed[p]

\* Among the newest of some versions is the newest of them all: of the sets of what is
\* newer than a version, the smallest is empty.
LEMMA TheNewestIsAmongThem ==
    ASSUME NEW S \in SUBSET Versions, S # {}, NEW n \in Nat \ {0}
    PROVE  \E v \in S : v \in Newest(S, n)
  <1> DEFINE newer(v) == {w \in S : w > v}
             All == {newer(v) : v \in S}
  <1>1. IsFiniteSet(S) /\ S \subseteq Nat
    BY SignedAssumption, FS_Subset
  <1>2. All \subseteq FiniteSubsetsOf(S) /\ All # {}
    <2>1. ASSUME NEW v \in S PROVE newer(v) \in FiniteSubsetsOf(S)
      <3>1. newer(v) \in SUBSET S
        OBVIOUS
      <3> HIDE DEF newer
      <3> QED
        BY <1>1, <3>1, FS_Subset DEF FiniteSubsetsOf
    <2> HIDE DEF newer
    <2> QED
      BY <2>1
  <1>3. PICK T \in All : \A U \in All : ~(<<U, T>> \in StrictSubsetOrdering(S))
    <2>1. IsWellFoundedOn(StrictSubsetOrdering(S), FiniteSubsetsOf(S))
      BY FS_StrictSubsetOrderingWellFounded
    <2> HIDE DEF All
    <2> QED
      BY <1>2, <2>1, WFMin
  <1>4. PICK v \in S : T = newer(v)
    BY <1>3
  <1>5. newer(v) = {}
    <2> SUFFICES ASSUME NEW w \in newer(v) PROVE FALSE
      OBVIOUS
    <2>1. w \in S /\ newer(w) \in All
      OBVIOUS
    <2>2. newer(w) \subseteq newer(v) /\ w \notin newer(w)
      <3>1. v \in Nat /\ w \in Nat /\ w > v
        BY <1>1
      <3>2. \A u \in S : u > w => u > v
        BY <1>1, <3>1
      <3>3. ~(w > w)
        BY <3>1
      <3> QED
        BY <3>2, <3>3, Zenon
    <2>3. <<newer(w), newer(v)>> \in StrictSubsetOrdering(S)
      BY <2>2 DEF StrictSubsetOrdering
    <2> QED
      BY <1>3, <1>4, <2>1, <2>3
  <1>6. Cardinality(newer(v)) < n
    <2> HIDE DEF newer
    <2> QED
      BY <1>5, FS_EmptySet
  <1>7. Newest(S, n) = {u \in S : Cardinality(newer(u)) < n}
    BY DEF Newest
  <1> HIDE DEF newer
  <1> QED
    BY <1>6, <1>7

\* A step that removes nothing, starts no Prune and lists nothing.
SparesAll ==
    /\ spared' => spared
    /\ \A v \in Versions : Usable(v) => disk'[v] \notin {Absent, Empty}
    /\ \A p \in Procs : pc'[p] \in {"listing", "removing"} =>
          pc'[p] = pc[p] /\ kept'[p] = kept[p] /\ doomed'[p] = doomed[p]

LEMMA StepsThatSpare ==
    ASSUME TypeOK, NEW p \in Procs, Step(p), ~ListsDirs(p),
           \A k \in Keeps : ~BeginPrune(p, k),
           \A v \in Versions : ~Unlinks(p, v) /\ ~Removes(p, v)
    PROVE  SparesAll
  <1>1. /\ pc \in [Procs -> {"idle", "asking", "staging", "downloading", "flushing", "publishing",
                            "colliding", "settling", "listing", "removing"}]
        /\ disk \in [Versions -> Files \cup {Absent, Empty}]
    BY DEF TypeOK
  <1> USE DEF SparesAll, Goes, Returns, diskVars, history, Usable
  <1>2. ASSUME NEW v \in Versions, BeginInstall(p, v) PROVE SparesAll
    BY <1>1, <1>2 DEF BeginInstall
  <1>3. ASSUME NEW doc \in Documents, Trusts(p, doc) PROVE SparesAll
    BY <1>1, <1>3 DEF Trusts
  <1>4. ASSUME NEW file \in Files, Downloads(p, file) PROVE SparesAll
    BY <1>1, <1>4 DEF Downloads
  <1>5. CASE Stages(p) \/ Flushes(p)
    BY <1>1, <1>5 DEF Stages, Flushes
  <1>6. CASE Publish(p)
    BY <1>1, <1>6 DEF Publish, Renames
  <1>7. CASE Collides(p) \/ Fails(p)
    BY <1>1, <1>7 DEF Collides, Fails
  <1>8. CASE Settles(p)
    BY <1>1, <1>8 DEF Settles
  <1>9. CASE Pruned(p)
    <2>1. /\ pc' = [pc EXCEPT ![p] = "idle"] /\ UNCHANGED <<disk, spared>>
          /\ kept' = [kept EXCEPT ![p] = {}] /\ doomed' = [doomed EXCEPT ![p] = {}]
      BY <1>9 DEF Pruned
    <2> QED
      BY <1>1, <2>1 DEF TypeOK
  <1>10. CASE Crash(p)
    BY <1>1, <1>10 DEF Crash, Die
  <1> QED
    BY <1>2, <1>3, <1>4, <1>5, <1>6, <1>7, <1>8, <1>9, <1>10 DEF Step

\* A Prune that begins alone keeps something that can be run.
LEMMA PruneBeginsSparing ==
    ASSUME TypeOK, NEW p \in Procs, NEW k \in Keeps, BeginPrune(p, k)
    PROVE  SomeIsSpared'
  <1> SUFFICES ASSUME spared'
               PROVE  /\ \A r, q \in Procs : Pruning(r)' /\ Pruning(q)' => r = q
                      /\ \E v \in Versions :
                            /\ Usable(v)'
                            /\ \A q \in Procs : pc'[q] = "listing" => v \in kept'[q]
                            /\ \A q \in Procs : pc'[q] = "removing" => v \notin doomed'[q]
    BY DEF SomeIsSpared
  <1> DEFINE S == {v \in Versions : Usable(v)}
             n == KeepAtLeast(k)
  <1>1. S # {} /\ \A q \in Procs : ~Pruning(q)
    BY DEF BeginPrune, Pruning
  <1>2. n \in Nat \ {0}
    BY SignedAssumption DEF KeepAtLeast
  <1>3. PICK v \in S : v \in Newest(S, n)
    <2> HIDE DEF n
    <2> QED
      BY <1>1, <1>2, TheNewestIsAmongThem
  <1>4. /\ pc' = [pc EXCEPT ![p] = "listing"] /\ UNCHANGED disk
        /\ kept' = [kept EXCEPT ![p] = Newest(S, n)]
    BY DEF BeginPrune, Goes, diskVars
  <1>5. \A q \in Procs : Pruning(q)' <=> q = p
    BY <1>1, <1>4 DEF Pruning, TypeOK
  <1>6. Usable(v)' /\ v \in kept'[p] /\ pc'[p] = "listing"
    BY <1>3, <1>4 DEF Usable, TypeOK
  <1> QED
    BY <1>5, <1>6 DEF Pruning

LEMMA SparedStep ==
    ASSUME TypeOK, SomeIsSpared, [Next]_vars
    PROVE  SomeIsSpared'
  <1>1. ASSUME SparesAll PROVE SomeIsSpared'
    BY <1>1 DEF SparesAll, SomeIsSpared, Pruning, Usable
  <1>2. CASE UNCHANGED vars
    BY <1>1, <1>2 DEF vars, opVars, diskVars, history, SparesAll, Usable
  <1>3. CASE PowerCut
    BY <1>3 DEF PowerCut, SomeIsSpared
  <1>4. ASSUME NEW p \in Procs, NEW v \in Versions, Unlinks(p, v) \/ Removes(p, v)
        PROVE  SomeIsSpared'
    <2>1. /\ pc[p] = "removing" /\ v \in doomed[p] /\ UNCHANGED <<pc, kept, spared>>
          /\ \A q \in Procs : doomed'[q] \subseteq doomed[q]
          /\ \A w \in Versions \ {v} : disk'[w] = disk[w]
      BY <1>4 DEF TypeOK, Unlinks, Removes, opVars
    <2> QED
      BY <2>1 DEF SomeIsSpared, Pruning, Usable
  <1>5. ASSUME NEW p \in Procs, ListsDirs(p)
        PROVE  SomeIsSpared'
    <2>1. /\ pc[p] = "listing" /\ pc' = [pc EXCEPT ![p] = "removing"]
          /\ UNCHANGED <<kept, disk, spared>>
          /\ doomed' = [doomed EXCEPT ![p] = {v \in Versions : disk[v] # Absent}
                                               \ (kept[p] \cup {PinOf[p]})]
      BY <1>5 DEF ListsDirs, Goes, diskVars, history
    <2>2. \A q \in Procs : Pruning(q)' <=> Pruning(q)
      BY <2>1 DEF Pruning, TypeOK
    <2>3. doomed'[p] \cap kept[p] = {} /\ \A q \in Procs \ {p} : doomed'[q] = doomed[q]
      BY <2>1 DEF TypeOK
    <2>4. \A q \in Procs \ {p} : pc'[q] = pc[q]
      BY <2>1 DEF TypeOK
    <2> QED
      BY <2>1, <2>2, <2>3, <2>4 DEF SomeIsSpared, Usable, TypeOK
  <1>6. ASSUME NEW p \in Procs, Step(p)
        PROVE  SomeIsSpared'
    BY <1>1, <1>4, <1>5, <1>6, StepsThatSpare, PruneBeginsSparing
  <1> QED
    BY <1>2, <1>3, <1>6 DEF Next

-----------------------------------------------------------------------------
(* The theorems. *)

\* SignedInv is an invariant of the release client, of installOnce and of Prune.
THEOREM SignedInvariant == Spec => []SignedInv
  <1>1. SignedInv /\ [Next]_vars => SignedInv'
    BY TypeStep, TrustStep, DiskStep, BlockStep, PinStep DEF SignedInv
  <1> QED
    BY <1>1, InitSignedInv, PTL DEF Spec

\* The variables keep their types, and no Prune means to remove its own pin.
THEOREM TypeCorrect == Spec => []TypeOK
  <1>1. SignedInv => TypeOK
    BY DEF SignedInv
  <1> QED
    BY <1>1, SignedInvariant, PTL

\* What can be run as a version is what was released as that version.
THEOREM OnlyTheReleaseRuns == Spec => []Authentic
  <1>1. SignedInv => Authentic
    BY DEF SignedInv, TypeOK, Genuine, Authentic, Usable
  <1> QED
    BY <1>1, SignedInvariant, PTL

\* What every process is pinned to stays once an install has promised it.
THEOREM PinsStay == Spec => []PinStays
  <1>1. SignedInv => PinStays
    BY DEF SignedInv, TypeOK, PinHeld, PinnedByAll, PinStays
  <1> QED
    BY <1>1, SignedInvariant, PTL

\* An install that had to give way has met a removal.
THEOREM OnlyRemovalsBlock == Spec => []BlockedByARemoval
  <1>1. SignedInv => BlockedByARemoval
    BY DEF SignedInv
  <1> QED
    BY <1>1, SignedInvariant, PTL

\* A Prune leaves something that can be run, unless another is at work beside it.
THEOREM PrunesLeaveSome == Spec => []PruneLeavesSome
  <1>1. Init => SomeIsSpared
    BY DEF Init, SomeIsSpared
  <1>2. TypeOK /\ SomeIsSpared /\ [Next]_vars => SomeIsSpared'
    BY SparedStep
  <1>3. SomeIsSpared => PruneLeavesSome
    BY DEF SomeIsSpared, PruneLeavesSome
  <1> QED
    BY <1>1, <1>2, <1>3, TypeCorrect, PTL DEF Spec
=============================================================================
