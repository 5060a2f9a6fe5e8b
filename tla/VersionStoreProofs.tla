------------------------- MODULE VersionStoreProofs -------------------------
(***************************************************************************)
(* Proofs about VersionStore for any processes, pins, versions and bounds: *)
(* StoreInv is inductive, and the safety properties follow.                *)
(***************************************************************************)
EXTENDS VersionStore, TLAPS

\* No value stands for two things.
LEMMA NoneIsNothing ==
    /\ \A t \in SUBSET Parts : t # None
    /\ \A a \in Answers : a # None
    /\ \A x \in Procs \cup Versions : x # None
    /\ \A p \in Procs : p \notin Versions
  BY StoreAssumption

-----------------------------------------------------------------------------
(* Types. *)

LEMMA InitStoreInv == Init => StoreInv
  BY NoneIsNothing, StoreAssumption DEF Init, StoreInv, TypeOK, SpentInTime, PreyIsMarked,
     IntactUnlessRobbed, DamageHasACause, Damaged, OnlyRemovalUnsettles, PinIsHeld, PinnedByAll,
     BlockedOnlyByDebris, Trees, Extracting, Answers

\* Clearing up keeps the types of what is staged.
LEMMA ClearsTypes ==
    ASSUME TypeOK, SpentInTime, NEW ps \in SUBSET Procs, Clears(ps)
    PROVE  /\ staging' \in [Procs -> BOOLEAN] /\ age' \in [Procs -> 0..Lifetime]
           /\ tree' \in [Procs -> Trees] /\ todo' \in [Procs -> SUBSET Parts]
           /\ spent' \in [Procs -> 0..MaxTicks] /\ robbed' \in [Procs -> BOOLEAN]
           /\ prey' \in [Procs -> Procs \cup Versions \cup {None}]
           /\ \A p \in Procs : spent'[p] <= ticks
  <1>1. staging' \in [Procs -> BOOLEAN] /\ robbed' \in [Procs -> BOOLEAN]
    BY Zenon DEF Clears
  <1>2. age' \in [Procs -> 0..Lifetime] /\ spent' \in [Procs -> 0..MaxTicks]
    BY StoreAssumption DEF Clears, TypeOK
  <1>3. tree' \in [Procs -> Trees] /\ todo' \in [Procs -> SUBSET Parts]
    BY DEF Clears, TypeOK, Trees
  <1>4. prey' \in [Procs -> Procs \cup Versions \cup {None}]
    BY DEF Clears, TypeOK
  <1>5. \A p \in Procs : spent'[p] <= ticks
    BY StoreAssumption DEF Clears, TypeOK, SpentInTime
  <1> QED
    BY <1>1, <1>2, <1>3, <1>4, <1>5

\* A return keeps the types.
LEMMA ReturnKeepsTypes ==
    ASSUME TypeOK, SpentInTime, NEW p \in Procs, NEW a \in {None} \cup Answers, Returns(p, a),
           pc[p] # "removing",
           UNCHANGED <<pruneVars, disk, solid, orphans, boundVars, tainted, removed>>,
           settled' \in [Versions -> BOOLEAN], promised' \subseteq Versions
    PROVE  TypeOK' /\ SpentInTime'
  <1>1. Clears({p}) /\ Goes(p, "idle")
    BY DEF Returns
  <1>2. /\ staging' \in [Procs -> BOOLEAN] /\ age' \in [Procs -> 0..Lifetime]
        /\ tree' \in [Procs -> Trees] /\ todo' \in [Procs -> SUBSET Parts]
        /\ spent' \in [Procs -> 0..MaxTicks] /\ robbed' \in [Procs -> BOOLEAN]
        /\ prey' \in [Procs -> Procs \cup Versions \cup {None}]
        /\ \A q \in Procs : spent'[q] <= ticks
    BY <1>1, ClearsTypes
  <1>3. UNCHANGED <<kept, doomed, disk, solid, orphans, ticks, crashes, tainted, removed>>
    BY DEF boundVars, pruneVars
  <1>4. /\ ver' \in [Procs -> {None} \cup Versions]
        /\ answer' \in [Procs -> {None} \cup Answers]
        /\ \A q \in Procs : pc'[q] \in {"idle", "listing", "removing"} <=> ver'[q] = None
    BY DEF Returns, Goes, TypeOK
  <1>5. /\ pc' \in [Procs -> {"idle", "sweeping", "fetching", "settling", "listing", "removing"}
                             \cup Extracting]
        /\ \A q \in Procs : PinOf[q] \notin doomed'[q] /\ (pc'[q] # "removing" => doomed'[q] = {})
    BY <1>1, <1>3 DEF Goes, TypeOK
  <1>6. /\ kept' \in [Procs -> SUBSET Versions]
        /\ doomed' \in [Procs -> SUBSET Versions]
        /\ disk' \in [Versions -> Trees]
        /\ solid' \in [Versions -> BOOLEAN]
        /\ orphans' \subseteq 0..Lifetime
        /\ ticks' \in 0..MaxTicks /\ crashes' \in 0..MaxCrashes
        /\ tainted' \subseteq Versions /\ removed' \subseteq Versions
    BY <1>3 DEF TypeOK
  <1>7. TypeOK'
    BY <1>2, <1>4, <1>5, <1>6 DEF TypeOK
  <1> QED
    BY <1>2, <1>3, <1>7 DEF SpentInTime

\* The steps of an installation keep the types.
LEMMA InstallTypes ==
    ASSUME TypeOK, SpentInTime, NEW p \in Procs, Installs(p)
    PROVE  TypeOK' /\ SpentInTime'
  <1> USE StoreAssumption DEF SpentInTime, Goes, opVars, pruneVars, diskVars, stageVars, sweepVars,
                              boundVars, history, Extracting, Trees
  <1>1. CASE \E v \in Versions : BeginInstall(p, v)
    <2>1. PICK v \in Versions : BeginInstall(p, v)
      BY <1>1
    <2>2. <<"present", v>> \in Answers /\ v # None
      BY NoneIsNothing DEF Answers
    <2>3. ver' \in [Procs -> {None} \cup Versions]
      <3>1. ver' = ver \/ ver' = [ver EXCEPT ![p] = v]
        BY <2>1 DEF BeginInstall
      <3> QED
        BY <3>1 DEF TypeOK
    <2>4. staging' \in [Procs -> BOOLEAN]
      <3>1. staging' = staging \/ staging' = [staging EXCEPT ![p] = TRUE]
        BY <2>1 DEF BeginInstall
      <3> QED
        BY <3>1 DEF TypeOK
    <2>5. answer' \in [Procs -> {None} \cup Answers]
      <3>1. PICK a \in {None} \cup Answers : answer' = [answer EXCEPT ![p] = a]
        BY <2>1, <2>2 DEF BeginInstall
      <3>2. answer \in [Procs -> {None} \cup Answers]
        BY DEF TypeOK
      <3> QED
        BY <3>1, <3>2, Zenon
    <2>6. /\ pc' \in [Procs -> {"idle", "sweeping", "fetching", "settling", "listing", "removing"}
                               \cup Extracting]
          /\ \A q \in Procs : pc'[q] \in {"idle", "listing", "removing"} <=> ver'[q] = None
          /\ \A q \in Procs : pc'[q] # "removing" => doomed[q] = {}
      <3>1. \/ UNCHANGED <<pc, ver>>
            \/ pc' = [pc EXCEPT ![p] = "sweeping"] /\ ver' = [ver EXCEPT ![p] = v]
        BY <2>1 DEF BeginInstall
      <3>2. pc[p] = "idle"
        BY <2>1 DEF BeginInstall
      <3> QED
        BY <2>2, <3>1, <3>2 DEF TypeOK
    <2>7. UNCHANGED <<kept, doomed, disk, solid, settled, age, tree, todo, spent, prey, orphans,
                      ticks, crashes, robbed, tainted, removed, promised>>
      BY <2>1 DEF BeginInstall
    <2> QED
      BY <2>3, <2>4, <2>5, <2>6, <2>7 DEF TypeOK
  <1>2. CASE Swept(p)
    BY <1>2 DEF Swept, TypeOK
  <1>3. CASE Fetched(p)
    BY <1>3 DEF Fetched, TypeOK
  <1>4. CASE \E x \in Parts : Extracts(p, x)
    <2>1. PICK x \in Parts : Extracts(p, x)
      BY <1>4
    <2>2. tree' \in [Procs -> Trees]
      BY <2>1 DEF Extracts, TypeOK
    <2>3. todo' \in [Procs -> SUBSET Parts] /\ staging' \in [Procs -> BOOLEAN]
      BY <2>1 DEF Extracts, TypeOK
    <2>4. age' \in [Procs -> 0..Lifetime]
      BY <2>1 DEF Extracts, TypeOK
    <2> QED
      BY <2>1, <2>2, <2>3, <2>4 DEF Extracts, TypeOK
  <1>5. CASE Flushed(p)
    BY <1>5 DEF Flushed, TypeOK
  <1>6. CASE pc[p] = "publishing" /\ Renames(p, ver[p])
    <2>1. ver[p] \in Versions
      BY <1>6 DEF TypeOK
    <2>2. /\ disk' \in [Versions -> Trees]
          /\ solid' \in [Versions -> BOOLEAN] /\ settled' \in [Versions -> BOOLEAN]
          /\ tree' \in [Procs -> Trees] /\ age' \in [Procs -> 0..Lifetime]
      BY <1>6, <2>1 DEF Renames, TreeMoves, TypeOK
    <2>4. tainted' \subseteq Versions
      <3>1. tainted' \in {tainted, tainted \cup {ver[p]}}
        BY <1>6 DEF Renames, TreeMoves
      <3> QED
        BY <2>1, <3>1 DEF TypeOK
    <2>3. prey' \in [Procs -> Procs \cup Versions \cup {None}]
      BY <1>6, <2>1 DEF Renames, TreeMoves, TypeOK
    <2> QED
      BY <1>6, <2>2, <2>3, <2>4 DEF Renames, TreeMoves, TypeOK
  <1>7. CASE pc[p] = "publishing" /\ Collides(p, ver[p])
    <2>1. PICK a \in Answers : Returns(p, a)
      BY <1>7 DEF Collides, Answers, TypeOK
    <2>2. /\ UNCHANGED <<pruneVars, disk, solid, orphans, boundVars, tainted, removed>>
          /\ settled' \in [Versions -> BOOLEAN] /\ promised' \subseteq Versions
      BY <1>7 DEF Collides, TypeOK
    <2> HIDE DEF SpentInTime, Goes, pruneVars, boundVars, Extracting
    <2> QED
      BY <1>7, <2>1, <2>2, ReturnKeepsTypes
  <1>8. CASE Settle(p)
    <2>1. ver[p] \in Versions
      BY <1>8 DEF Settle, TypeOK
    <2>2. settled' \in [Versions -> BOOLEAN]
      BY <1>8, Zenon DEF Settle
    <2>3. /\ UNCHANGED <<pruneVars, disk, solid, orphans, boundVars, tainted, removed>>
          /\ promised' \subseteq Versions /\ pc[p] = "settling"
          /\ Returns(p, <<"installed", ver[p]>>)
      BY <1>8, <2>1 DEF Settle, TypeOK
    <2>4. <<"installed", ver[p]>> \in Answers
      BY <2>1 DEF Answers
    <2> HIDE DEF SpentInTime, Goes, pruneVars, boundVars, Extracting
    <2> QED
      BY <2>2, <2>3, <2>4, ReturnKeepsTypes
  <1>9. CASE Fails(p)
    <2>1. /\ UNCHANGED <<pruneVars, disk, solid, orphans, boundVars, tainted, removed>>
          /\ settled' \in [Versions -> BOOLEAN] /\ promised' \subseteq Versions
          /\ Returns(p, None) /\ pc[p] # "removing"
      BY <1>9 DEF Fails, TypeOK
    <2> HIDE DEF SpentInTime, Goes, pruneVars, boundVars, Extracting
    <2> QED
      BY <2>1, ReturnKeepsTypes
  <1> QED
    BY <1>1, <1>2, <1>3, <1>4, <1>5, <1>6, <1>7, <1>8, <1>9 DEF Installs, Publish

\* So do the steps of a sweep.
LEMMA SweepTypes ==
    ASSUME TypeOK, SpentInTime, NEW q \in Procs, Sweeps(q)
    PROVE  TypeOK' /\ SpentInTime'
  <1> USE StoreAssumption DEF SpentInTime, Goes, opVars, pruneVars, diskVars, stageVars, sweepVars,
                              boundVars, history, Trees
  <1>1. ASSUME NEW p \in Procs, Looks(q, p) PROVE TypeOK' /\ SpentInTime'
    BY <1>1 DEF Looks, TypeOK
  <1>2. ASSUME NEW p \in Procs, Loots(q, p) PROVE TypeOK' /\ SpentInTime'
    <2>1. /\ age' \in [Procs -> 0..Lifetime]
          /\ prey' \in [Procs -> Procs \cup Versions \cup {None}]
      BY <1>2 DEF Loots, TypeOK
    <2>3. staging' \in [Procs -> BOOLEAN]
      <3>1. CASE UNCHANGED staging
        BY <3>1 DEF TypeOK
      <3>2. CASE \E b \in BOOLEAN : staging' = [staging EXCEPT ![p] = b]
        BY <3>2 DEF TypeOK
      <3>3. (tree[p] # None) \in BOOLEAN
        BY Zenon
      <3> QED
        BY <1>2, <3>1, <3>2, <3>3 DEF Loots
    <2>2. tree' \in [Procs -> Trees]
      <3>1. CASE tree[p] # None /\ \E x \in tree[p] : tree' = [tree EXCEPT ![p] = @ \ {x}]
        BY <3>1 DEF TypeOK
      <3>2. CASE tree' = [tree EXCEPT ![p] = None]
        BY <3>2 DEF TypeOK
      <3> QED
        BY <1>2, <3>1, <3>2 DEF Loots
    <2> QED
      BY <1>2, <2>1, <2>2, <2>3 DEF Loots, TypeOK
  <1>3. ASSUME NEW v \in Versions, Gnaws(q, v) PROVE TypeOK' /\ SpentInTime'
    <2>1. disk' \in [Versions -> Trees] /\ settled' \in [Versions -> BOOLEAN]
      BY <1>3 DEF Gnaws, TypeOK
    <2> QED
      BY <1>3, <2>1 DEF Gnaws, TypeOK
  <1>4. CASE Drops(q)
    BY <1>4 DEF Drops, TypeOK
  <1>5. CASE SweepsOrphans(q)
    BY <1>5 DEF SweepsOrphans, TypeOK
  <1> QED
    BY <1>1, <1>2, <1>3, <1>4, <1>5 DEF Sweeps

\* So do the steps of a Prune.
LEMMA PruneTypes ==
    ASSUME TypeOK, SpentInTime, NEW p \in Procs, Prunes(p)
    PROVE  TypeOK' /\ SpentInTime'
  <1> USE StoreAssumption DEF SpentInTime, Goes, opVars, pruneVars, diskVars, stageVars, sweepVars,
                              boundVars, history, Trees, Extracting
  <1>1. CASE \E k \in Keeps : BeginPrune(p, k)
    BY <1>1 DEF BeginPrune, Newest, TypeOK
  <1>2. CASE ListDirs(p)
    <2>1. /\ doomed' \in [Procs -> SUBSET Versions] /\ kept' \in [Procs -> SUBSET Versions]
          /\ \A r \in Procs : PinOf[r] \notin doomed'[r] /\ (pc'[r] # "removing" => doomed'[r] = {})
      BY <1>2 DEF ListDirs, TypeOK
    <2> QED
      BY <1>2, <2>1 DEF ListDirs, TypeOK
  <1>3. CASE Pruned(p)
    BY <1>3 DEF Pruned, TypeOK
  <1>4. ASSUME NEW v \in Versions, Unlinks(p, v) PROVE TypeOK' /\ SpentInTime'
    <2>1. /\ disk' \in [Versions -> Trees] /\ settled' \in [Versions -> BOOLEAN]
          /\ removed' \subseteq Versions
      BY <1>4 DEF Unlinks, TypeOK
    <2> QED
      BY <1>4, <2>1 DEF Unlinks, TypeOK
  <1>5. ASSUME NEW v \in Versions, Removes(p, v) PROVE TypeOK' /\ SpentInTime'
    <2>1. /\ disk' \in [Versions -> Trees] /\ settled' \in [Versions -> BOOLEAN]
          /\ solid' \in [Versions -> BOOLEAN] /\ removed' \subseteq Versions
      BY <1>5 DEF Removes, TypeOK
    <2>2. prey' \in [Procs -> Procs \cup Versions \cup {None}]
      BY <1>5 DEF Removes, TypeOK
    <2>3. /\ doomed' \in [Procs -> SUBSET Versions]
          /\ \A r \in Procs : PinOf[r] \notin doomed'[r] /\ (pc[r] # "removing" => doomed'[r] = {})
      BY <1>5 DEF Removes, TypeOK
    <2> QED
      BY <1>5, <2>1, <2>2, <2>3 DEF Removes, TypeOK
  <1> QED
    BY <1>1, <1>2, <1>3, <1>4, <1>5 DEF Prunes

\* So do the clock, crashes and power cuts.
LEMMA FaultTypes ==
    ASSUME TypeOK, SpentInTime, Tick \/ (\E p \in Procs : Crash(p)) \/ PowerCut
    PROVE  TypeOK' /\ SpentInTime'
  <1>1. CASE Tick
    <2>1. age' \in [Procs -> 0..Lifetime] /\ orphans' \subseteq 0..Lifetime
      BY <1>1, StoreAssumption DEF Tick, TypeOK
    <2>2. \A p \in Procs : spent'[p] <= ticks' /\ spent'[p] \in 0..MaxTicks
      BY <1>1, StoreAssumption DEF Tick, TypeOK, SpentInTime
    <2>3. ticks' \in 0..MaxTicks /\ spent' \in [Procs -> 0..MaxTicks]
      BY <1>1, <2>2, StoreAssumption DEF Tick, TypeOK
    <2> QED
      BY <1>1, <2>1, <2>2, <2>3 DEF Tick, TypeOK, SpentInTime, opVars, pruneVars, diskVars, history
  <1>2. ASSUME NEW dead \in SUBSET Procs, Die(dead), disk' \in [Versions -> Trees],
               settled' \in [Versions -> BOOLEAN], solid' = solid
        PROVE  TypeOK' /\ SpentInTime'
    <2>1. orphans' \subseteq 0..Lifetime
      <3>1. orphans' = orphans \cup {age[p] : p \in {q \in dead : staging[q]}}
        BY <1>2 DEF Die
      <3>2. \A p \in dead : age[p] \in 0..Lifetime
        BY DEF TypeOK
      <3> QED
        BY <3>1, <3>2 DEF TypeOK
    <2>2. /\ staging' \in [Procs -> BOOLEAN] /\ age' \in [Procs -> 0..Lifetime]
          /\ tree' \in [Procs -> Trees] /\ todo' \in [Procs -> SUBSET Parts]
          /\ spent' \in [Procs -> 0..MaxTicks] /\ robbed' \in [Procs -> BOOLEAN]
          /\ prey' \in [Procs -> Procs \cup Versions \cup {None}]
          /\ \A p \in Procs : spent'[p] <= ticks
      BY <1>2, ClearsTypes DEF Die
    <2>3. \A p \in Procs :
            PinOf[p] \notin doomed'[p] /\ (pc'[p] # "removing" => doomed'[p] = {})
      BY <1>2 DEF Die, TypeOK
    <2>4. /\ pc' \in [Procs -> {"idle", "sweeping", "fetching", "settling", "listing", "removing"}
                               \cup Extracting]
          /\ ver' \in [Procs -> {None} \cup Versions]
          /\ answer' \in [Procs -> {None} \cup Answers]
          /\ \A p \in Procs : pc'[p] \in {"idle", "listing", "removing"} <=> ver'[p] = None
      BY <1>2 DEF Die, TypeOK
    <2>5. kept' \in [Procs -> SUBSET Versions] /\ doomed' \in [Procs -> SUBSET Versions]
      BY <1>2 DEF Die, TypeOK
    <2>6. crashes' \in 0..MaxCrashes /\ UNCHANGED <<ticks, tainted, removed, promised>>
      BY <1>2, StoreAssumption DEF Die, TypeOK
    <2>7. SpentInTime'
      BY <2>2, <2>6 DEF SpentInTime
    <2> QED
      BY <1>2, <2>1, <2>2, <2>3, <2>4, <2>5, <2>6, <2>7 DEF TypeOK
  <1>3. CASE \E p \in Procs : Crash(p)
    BY <1>2, <1>3 DEF Crash, diskVars, TypeOK
  <1>4. CASE PowerCut
    BY <1>2, <1>4 DEF PowerCut
  <1> QED
    BY <1>1, <1>3, <1>4

LEMMA TypeStep ==
    ASSUME StoreInv, Next PROVE TypeOK' /\ SpentInTime'
  BY InstallTypes, SweepTypes, PruneTypes, FaultTypes DEF StoreInv, Next, Step

-----------------------------------------------------------------------------
(* What is staged, and what a sweep has in hand. *)

\* Whoever returns or dies takes the mark of its directory with it, and every
\* sweep of it comes to an end.
LEMMA ClearsStaging ==
    ASSUME StoreInv, NEW ps \in SUBSET Procs, Clears(ps), UNCHANGED tainted,
           \A p \in ps : pc'[p] = "idle", \A p \in Procs \ ps : pc'[p] = pc[p]
    PROVE  PreyIsMarked' /\ IntactUnlessRobbed'
  <1>1. PreyIsMarked'
    BY NoneIsNothing DEF StoreInv, TypeOK, PreyIsMarked, Clears
  <1>2. IntactUnlessRobbed'
    BY DEF StoreInv, TypeOK, IntactUnlessRobbed, Clears, Extracting
  <1> QED
    BY <1>1, <1>2

\* The same of every return.
LEMMA ReturnsStaging ==
    ASSUME StoreInv, NEW p \in Procs, NEW a, Returns(p, a), UNCHANGED tainted
    PROVE  PreyIsMarked' /\ IntactUnlessRobbed'
  <1>1. Clears({p}) /\ pc' = [pc EXCEPT ![p] = "idle"]
    BY DEF Returns, Goes
  <1>2. pc'[p] = "idle" /\ \A q \in Procs \ {p} : pc'[q] = pc[q]
    BY <1>1 DEF StoreInv, TypeOK
  <1> QED
    BY <1>1, <1>2, ClearsStaging

\* A step that leaves alone what is staged, and brings nobody to extract.
LEMMA StagingAlone ==
    ASSUME StoreInv, UNCHANGED <<tree, todo, robbed, prey>>, tainted \subseteq tainted',
           \A p \in Procs : pc'[p] \in Extracting => pc'[p] = pc[p]
    PROVE  PreyIsMarked' /\ IntactUnlessRobbed'
  BY DEF StoreInv, PreyIsMarked, IntactUnlessRobbed

LEMMA InstallStaging ==
    ASSUME StoreInv, NEW p \in Procs, Installs(p)
    PROVE  PreyIsMarked' /\ IntactUnlessRobbed'
  <1> USE DEF StoreInv, TypeOK, Goes, sweepVars, stageVars, history
  <1>1. ASSUME NEW v \in Versions, BeginInstall(p, v) PROVE PreyIsMarked' /\ IntactUnlessRobbed'
    BY <1>1, StagingAlone DEF BeginInstall, Extracting
  <1>2. CASE Swept(p)
    BY <1>2, StagingAlone DEF Swept, Extracting
  <1>3. CASE Fetched(p)
    <2>1. PreyIsMarked'
      BY <1>3 DEF Fetched, PreyIsMarked
    <2>2. IntactUnlessRobbed'
      BY <1>3 DEF Fetched, IntactUnlessRobbed, Extracting
    <2> QED
      BY <2>1, <2>2
  <1>4. ASSUME NEW x \in Parts, Extracts(p, x) PROVE PreyIsMarked' /\ IntactUnlessRobbed'
    <2>1. PreyIsMarked'
      BY <1>4 DEF Extracts, PreyIsMarked
    <2>2. IntactUnlessRobbed'
      <3> SUFFICES ASSUME NEW q \in Procs, pc'[q] \in Extracting, ~robbed'[q]
                   PROVE  /\ tree'[q] = Parts \ todo'[q]
                          /\ pc'[q] = "publishing" => todo'[q] = {}
        BY DEF IntactUnlessRobbed
      <3>1. pc' = pc /\ robbed' = robbed
        BY <1>4 DEF Extracts, opVars
      <3>2. tree[q] = Parts \ todo[q] /\ (pc[q] = "publishing" => todo[q] = {})
        BY <3>1 DEF IntactUnlessRobbed
      <3>3. CASE q = p
        BY <1>4, <3>1, <3>2, <3>3, NoneIsNothing DEF Extracts
      <3>4. CASE q # p
        BY <1>4, <3>1, <3>2, <3>4 DEF Extracts
      <3> QED
        BY <3>3, <3>4
    <2> QED
      BY <2>1, <2>2
  <1>5. CASE Flushed(p)
    <2>1. PreyIsMarked'
      BY <1>5 DEF Flushed, PreyIsMarked
    <2>2. IntactUnlessRobbed'
      BY <1>5 DEF Flushed, IntactUnlessRobbed, Extracting
    <2> QED
      BY <2>1, <2>2
  <1>6. CASE pc[p] = "publishing" /\ Renames(p, ver[p])
    <2>1. PICK open \in SUBSET {q \in Procs : prey[q] = p} :
             prey' = [q \in Procs |-> IF q \in open THEN ver[p] ELSE prey[q]]
      BY <1>6 DEF Renames, TreeMoves
    <2>2. ver[p] \in Versions /\ robbed' = robbed /\ tainted \subseteq tainted'
          /\ (robbed[p] => ver[p] \in tainted')
      BY <1>6 DEF Renames, TreeMoves
    <2>3. PreyIsMarked'
      BY <2>1, <2>2, NoneIsNothing DEF PreyIsMarked
    <2>4. IntactUnlessRobbed'
      BY <1>6 DEF Renames, TreeMoves, IntactUnlessRobbed, Extracting
    <2> QED
      BY <2>3, <2>4
  <1>7. CASE Collides(p, ver[p])
    BY <1>7, ReturnsStaging DEF Collides
  <1>8. CASE Settle(p)
    BY <1>8, ReturnsStaging DEF Settle
  <1>9. CASE Fails(p)
    BY <1>9, ReturnsStaging DEF Fails
  <1> QED
    BY <1>1, <1>2, <1>3, <1>4, <1>5, <1>6, <1>7, <1>8, <1>9 DEF Installs, Publish

LEMMA OtherStaging ==
    ASSUME StoreInv, NEW p \in Procs, Sweeps(p) \/ Prunes(p)
    PROVE  PreyIsMarked' /\ IntactUnlessRobbed'
  <1> USE DEF StoreInv, TypeOK, Goes, sweepVars, stageVars, history, opVars
  <1>1. ASSUME NEW q \in Procs, Looks(p, q) PROVE PreyIsMarked' /\ IntactUnlessRobbed'
    BY <1>1, NoneIsNothing DEF Looks, PreyIsMarked, IntactUnlessRobbed
  <1>2. ASSUME NEW q \in Procs, Loots(p, q) PROVE PreyIsMarked' /\ IntactUnlessRobbed'
    <2>1. robbed[q] /\ \A r \in Procs \ {q} : tree'[r] = tree[r]
      BY <1>2 DEF Loots, PreyIsMarked
    <2>2. \A r \in Procs : prey'[r] \in {prey[r], None}
      BY <1>2 DEF Loots
    <2>3. UNCHANGED <<pc, todo, robbed, tainted>>
      BY <1>2 DEF Loots
    <2>4. PreyIsMarked'
      BY <2>2, <2>3, NoneIsNothing DEF PreyIsMarked
    <2>5. IntactUnlessRobbed'
      BY <2>1, <2>3 DEF IntactUnlessRobbed
    <2> QED
      BY <2>4, <2>5
  <1>3. ASSUME NEW v \in Versions, Gnaws(p, v) PROVE PreyIsMarked' /\ IntactUnlessRobbed'
    BY <1>3, StagingAlone DEF Gnaws
  <1>4. CASE Drops(p)
    BY <1>4, NoneIsNothing DEF Drops, PreyIsMarked, IntactUnlessRobbed
  <1>5. CASE SweepsOrphans(p)
    BY <1>5, StagingAlone DEF SweepsOrphans
  <1>6. ASSUME NEW k \in Keeps, BeginPrune(p, k) PROVE PreyIsMarked' /\ IntactUnlessRobbed'
    BY <1>6, StagingAlone DEF BeginPrune, Extracting
  <1>7. CASE ListDirs(p) \/ Pruned(p)
    BY <1>7, StagingAlone DEF ListDirs, Pruned, Extracting
  <1>8. ASSUME NEW v \in Versions, Unlinks(p, v) PROVE PreyIsMarked' /\ IntactUnlessRobbed'
    BY <1>8, StagingAlone DEF Unlinks
  <1>9. ASSUME NEW v \in Versions, Removes(p, v) PROVE PreyIsMarked' /\ IntactUnlessRobbed'
    BY <1>9, NoneIsNothing DEF Removes, PreyIsMarked, IntactUnlessRobbed
  <1> QED
    BY <1>1, <1>2, <1>3, <1>4, <1>5, <1>6, <1>7, <1>8, <1>9 DEF Sweeps, Prunes

LEMMA StagingStep ==
    ASSUME StoreInv, Next
    PROVE  PreyIsMarked' /\ IntactUnlessRobbed'
  <1>1. CASE Tick
    BY <1>1, StagingAlone DEF Tick, opVars, history
  <1>2. ASSUME NEW dead \in SUBSET Procs, Die(dead) PROVE PreyIsMarked' /\ IntactUnlessRobbed'
    <2>1. /\ Clears(dead) /\ UNCHANGED tainted
          /\ \A p \in dead : pc'[p] = "idle"
          /\ \A q \in Procs \ dead : pc'[q] = pc[q]
      BY <1>2 DEF Die
    <2> QED
      BY <2>1, ClearsStaging
  <1>3. ASSUME NEW p \in Procs, Step(p) PROVE PreyIsMarked' /\ IntactUnlessRobbed'
    BY <1>2, <1>3, InstallStaging, OtherStaging DEF Step, Crash
  <1> QED
    BY <1>1, <1>2, <1>3 DEF Next, PowerCut

-----------------------------------------------------------------------------
(* The disk. *)

DiskInv == DamageHasACause /\ OnlyRemovalUnsettles /\ PinIsHeld /\ BlockedOnlyByDebris

\* A step that touches neither the disk nor what is said of it, and tells a
\* process nothing.
Harmless ==
    /\ UNCHANGED <<diskVars, tainted, removed, promised>>
    /\ \A p \in Procs : pc'[p] = "settling" => pc[p] = "settling" /\ ver'[p] = ver[p]
    /\ \A p \in Procs : answer'[p] \in {answer[p], None}

LEMMA HarmlessKeeps ==
    ASSUME StoreInv, Harmless
    PROVE  DiskInv'
  <1> USE DEF StoreInv, Harmless, diskVars
  <1>1. \A p \in Procs, v \in Versions, s \in {"present", "blocked"} :
          answer'[p] = <<s, v>> => answer[p] = <<s, v>>
    <2> SUFFICES ASSUME NEW p \in Procs, NEW v \in Versions, NEW s \in {"present", "blocked"},
                        answer'[p] = <<s, v>>
                 PROVE  answer[p] = <<s, v>>
      OBVIOUS
    <2>1. <<s, v>> \in Answers
      BY DEF Answers
    <2> QED
      BY <2>1, NoneIsNothing
  <1>2. DamageHasACause' /\ OnlyRemovalUnsettles'
    BY DEF DamageHasACause, Damaged, OnlyRemovalUnsettles
  <1>3. PinIsHeld'
    BY <1>1 DEF PinIsHeld, PinnedByAll
  <1>4. BlockedOnlyByDebris'
    BY <1>1 DEF BlockedOnlyByDebris
  <1> QED
    BY <1>2, <1>3, <1>4 DEF DiskInv

\* What a process does to itself, and to what is staged, is harmless.
LEMMA HarmlessSteps ==
    ASSUME TypeOK, NEW p \in Procs,
           \/ Swept(p) \/ Fetched(p) \/ (\E x \in Parts : Extracts(p, x)) \/ Flushed(p) \/ Fails(p)
           \/ (\E q \in Procs : Looks(p, q) \/ Loots(p, q)) \/ Drops(p) \/ SweepsOrphans(p)
           \/ (\E k \in Keeps : BeginPrune(p, k)) \/ ListDirs(p) \/ Pruned(p)
           \/ Crash(p)
    PROVE  Harmless
  <1> USE DEF Harmless, TypeOK, Goes, opVars, history, sweepVars, stageVars
  <1>1. CASE Swept(p) \/ Fetched(p) \/ Flushed(p)
    BY <1>1 DEF Swept, Fetched, Flushed
  <1>2. CASE \E x \in Parts : Extracts(p, x)
    BY <1>2 DEF Extracts
  <1>3. CASE Fails(p)
    BY <1>3 DEF Fails, Returns
  <1>4. CASE \E q \in Procs : Looks(p, q) \/ Loots(p, q)
    BY <1>4 DEF Looks, Loots
  <1>5. CASE Drops(p) \/ SweepsOrphans(p)
    BY <1>5 DEF Drops, SweepsOrphans
  <1>6. CASE (\E k \in Keeps : BeginPrune(p, k)) \/ ListDirs(p) \/ Pruned(p)
    BY <1>6 DEF BeginPrune, ListDirs, Pruned
  <1>7. CASE Crash(p)
    BY <1>7 DEF Crash, Die
  <1> QED
    BY <1>1, <1>2, <1>3, <1>4, <1>5, <1>6, <1>7

\* Where neither a removal nor a sweep has passed, a usable version is whole; a
\* version with no usable binary is so because one of them has.
LEMMA UsableIsWhole ==
    ASSUME StoreInv, NEW v \in Versions
    PROVE  /\ Usable(v) /\ v \notin removed \cup tainted => disk[v] = Parts
           /\ disk[v] # None /\ ~Usable(v) => v \in removed \cup tainted
  <1>1. disk[v] \notin {None, Parts} => v \in removed \cup tainted
    BY DEF StoreInv, DamageHasACause, Damaged
  <1>2. "binary" \in Parts
    BY DEF Parts
  <1> QED
    BY <1>1, <1>2 DEF Usable

\* To be told "present" or "blocked" agrees with the disk.
LEMMA ToldKeeps ==
    ASSUME StoreInv, NEW p \in Procs, NEW v \in Versions, NEW s \in {"present", "blocked"},
           answer' = [answer EXCEPT ![p] = <<s, v>>],
           UNCHANGED <<diskVars, tainted, removed, promised>>,
           \A q \in Procs : pc'[q] = "settling" => pc[q] = "settling" /\ ver'[q] = ver[q],
           s = "present" => Usable(v),
           s = "blocked" => disk[v] # None /\ ~Usable(v)
    PROVE  DiskInv'
  <1> USE DEF StoreInv, diskVars
  <1>1. \A q \in Procs : answer'[q] = IF q = p THEN <<s, v>> ELSE answer[q]
    BY DEF TypeOK
  <1>2. DamageHasACause' /\ OnlyRemovalUnsettles'
    BY DEF DamageHasACause, Damaged, OnlyRemovalUnsettles
  <1>3. PinIsHeld'
    <2> SUFFICES ASSUME NEW w \in Versions \ tainted, PinnedByAll(w)
                 PROVE  /\ w \in promised => disk[w] = Parts /\ settled[w]
                        /\ \A q \in Procs :
                              (pc'[q] = "settling" /\ ver'[q] = w) \/ answer'[q] = <<"present", w>> =>
                                 disk[w] = Parts
                        /\ w \notin removed
      BY DEF PinIsHeld, PinnedByAll
    <2>1. w \notin removed /\ (w \in promised => disk[w] = Parts /\ settled[w])
      BY DEF PinIsHeld
    <2>2. ASSUME NEW q \in Procs, pc'[q] = "settling" /\ ver'[q] = w PROVE disk[w] = Parts
      BY <2>2 DEF PinIsHeld
    <2>3. ASSUME NEW q \in Procs, answer'[q] = <<"present", w>> PROVE disk[w] = Parts
      <3>1. CASE q = p
        BY <1>1, <2>1, <2>3, <3>1, UsableIsWhole
      <3>2. CASE q # p
        BY <1>1, <2>3, <3>2 DEF PinIsHeld
      <3> QED
        BY <3>1, <3>2
    <2> QED
      BY <2>1, <2>2, <2>3
  <1>4. BlockedOnlyByDebris'
    BY <1>1, UsableIsWhole DEF BlockedOnlyByDebris
  <1> QED
    BY <1>2, <1>3, <1>4 DEF DiskInv

LEMMA BeginKeeps ==
    ASSUME StoreInv, NEW p \in Procs, NEW v \in Versions, BeginInstall(p, v)
    PROVE  DiskInv'
  <1>1. CASE Usable(v) /\ answer' = [answer EXCEPT ![p] = <<"present", v>>] /\ UNCHANGED <<pc, ver>>
    <2>1. UNCHANGED <<diskVars, tainted, removed, promised>>
      BY DEF BeginInstall, history
    <2> QED
      BY <1>1, <2>1, ToldKeeps
  <1>2. CASE answer' = [answer EXCEPT ![p] = None] /\ ver' = [ver EXCEPT ![p] = v]
             /\ Goes(p, "sweeping") /\ pc[p] = "idle"
    <2>1. Harmless
      BY <1>2 DEF BeginInstall, Harmless, history, StoreInv, TypeOK, Goes
    <2> QED
      BY <2>1, HarmlessKeeps
  <1> QED
    BY <1>1, <1>2 DEF BeginInstall

LEMMA PublishKeeps ==
    ASSUME StoreInv, NEW p \in Procs, Publish(p)
    PROVE  DiskInv'
  <1> DEFINE v == ver[p]
  <1>1. v \in Versions
    BY DEF Publish, StoreInv, TypeOK
  <1>2. CASE Renames(p, v)
    <2>1. /\ disk[v] = None /\ disk' = [disk EXCEPT ![v] = tree[p]]
          /\ solid' = [solid EXCEPT ![v] = TRUE] /\ settled' = [settled EXCEPT ![v] = FALSE]
          /\ tainted' = IF robbed[p] THEN tainted \cup {v} ELSE tainted
          /\ pc' = [pc EXCEPT ![p] = "settling"]
          /\ UNCHANGED <<ver, answer, removed, promised>>
      BY <1>2 DEF Renames, TreeMoves, Goes
    <2>2. ~robbed[p] => tree[p] = Parts
      BY DEF Publish, StoreInv, IntactUnlessRobbed, Extracting
    <2>3. v \in tainted' \/ tree[p] = Parts
      BY <2>1, <2>2
    <2>4. DamageHasACause'
      BY <1>1, <2>1, <2>3 DEF StoreInv, TypeOK, DamageHasACause, Damaged
    <2>5. OnlyRemovalUnsettles'
      BY <1>1, <2>1, <2>3 DEF StoreInv, TypeOK, OnlyRemovalUnsettles
    <2>6. Parts # None
      BY NoneIsNothing
    <2>7. PinIsHeld'
      BY <1>1, <2>1, <2>3, <2>6 DEF StoreInv, TypeOK, PinIsHeld, PinnedByAll
    <2>8. BlockedOnlyByDebris'
      BY <2>1 DEF StoreInv, BlockedOnlyByDebris
    <2> QED
      BY <2>4, <2>5, <2>7, <2>8 DEF DiskInv
  <1>3. CASE Collides(p, v)
    <2>1. PICK s \in {"present", "blocked"} :
             /\ Returns(p, <<s, v>>)
             /\ s = "present" => Usable(v)
             /\ s = "blocked" => ~Usable(v)
      BY <1>3 DEF Collides
    <2>2. /\ answer' = [answer EXCEPT ![p] = <<s, v>>]
          /\ pc' = [pc EXCEPT ![p] = "idle"] /\ ver' = [ver EXCEPT ![p] = None]
      BY <2>1 DEF Returns, Goes
    <2>3. \A q \in Procs : pc'[q] = "settling" => pc[q] = "settling" /\ ver'[q] = ver[q]
      BY <2>2 DEF StoreInv, TypeOK
    <2>4. disk[v] # None /\ UNCHANGED <<diskVars, tainted, removed, promised>>
      BY <1>3 DEF Collides
    <2> QED
      BY <1>1, <2>1, <2>2, <2>3, <2>4, ToldKeeps
  <1> QED
    BY <1>2, <1>3 DEF Publish

LEMMA SettleKeeps ==
    ASSUME StoreInv, NEW p \in Procs, Settle(p)
    PROVE  DiskInv'
  <1> USE DEF StoreInv, TypeOK
  <1>1. /\ settled' = [v \in Versions |-> settled[v] \/ ~Damaged(v)]
        /\ promised' = promised \cup {ver[p]} /\ pc[p] = "settling"
        /\ pc' = [pc EXCEPT ![p] = "idle"] /\ ver' = [ver EXCEPT ![p] = None]
        /\ answer' = [answer EXCEPT ![p] = <<"installed", ver[p]>>]
        /\ UNCHANGED <<disk, solid, tainted, removed>>
    BY DEF Settle, Returns, Goes
  <1>2. \A q \in Procs, v \in Versions, s \in {"present", "blocked"} :
          answer'[q] = <<s, v>> => answer[q] = <<s, v>>
    BY <1>1
  <1>3. DamageHasACause' /\ OnlyRemovalUnsettles'
    BY <1>1 DEF DamageHasACause, Damaged, OnlyRemovalUnsettles
  <1>4. PinIsHeld'
    BY <1>1, <1>2 DEF PinIsHeld, PinnedByAll, Damaged
  <1>5. BlockedOnlyByDebris'
    BY <1>1, <1>2 DEF BlockedOnlyByDebris
  <1> QED
    BY <1>3, <1>4, <1>5 DEF DiskInv

\* A removal, or a sweep at work on a published tree, spoils the version it is
\* in and no other; and that one is not a version which everybody is pinned to,
\* or it was published from a directory a sweep had set upon.
LEMMA RemovalKeeps ==
    ASSUME StoreInv, NEW v \in Versions, v \in removed' \cup tainted,
           v \in removed' => v \in removed \/ \E p \in Procs : PinOf[p] # v,
           removed' \in {removed, removed \cup {v}},
           \A w \in Versions \ {v} : disk'[w] = disk[w] /\ settled'[w] = settled[w]
                                     /\ solid'[w] = solid[w],
           UNCHANGED <<pc, ver, answer, tainted, promised>>
    PROVE  DiskInv'
  <1> USE DEF StoreInv
  <1>1. DamageHasACause' /\ OnlyRemovalUnsettles'
    BY DEF DamageHasACause, Damaged, OnlyRemovalUnsettles
  <1>2. PinIsHeld'
    BY DEF PinIsHeld, PinnedByAll
  <1>3. BlockedOnlyByDebris'
    BY DEF BlockedOnlyByDebris
  <1> QED
    BY <1>1, <1>2, <1>3 DEF DiskInv

LEMMA SpoilingKeeps ==
    ASSUME StoreInv, NEW p \in Procs, NEW v \in Versions,
           Unlinks(p, v) \/ Removes(p, v) \/ Gnaws(p, v)
    PROVE  DiskInv'
  <1> USE DEF StoreInv, TypeOK
  <1>1. CASE Unlinks(p, v) \/ Removes(p, v)
    <2>1. v # PinOf[p] /\ removed' = removed \cup {v}
      BY <1>1 DEF Unlinks, Removes
    <2>2. /\ \A w \in Versions \ {v} : disk'[w] = disk[w] /\ settled'[w] = settled[w]
                                       /\ solid'[w] = solid[w]
          /\ UNCHANGED <<pc, ver, answer, tainted, promised>>
      BY <1>1 DEF Unlinks, Removes, opVars
    <2> QED
      BY <2>1, <2>2, RemovalKeeps
  <1>2. CASE Gnaws(p, v)
    <2>1. v \in tainted
      BY <1>2 DEF Gnaws, PreyIsMarked
    <2>2. /\ \A w \in Versions \ {v} : disk'[w] = disk[w] /\ settled'[w] = settled[w]
                                       /\ solid'[w] = solid[w]
          /\ UNCHANGED <<pc, ver, answer, tainted, removed, promised>>
      BY <1>2 DEF Gnaws, opVars, history
    <2> QED
      BY <2>1, <2>2, RemovalKeeps
  <1> QED
    BY <1>1, <1>2

\* A power cut spoils only what a removal or a sweep has passed through.
LEMMA PowerCutKeeps ==
    ASSUME StoreInv, PowerCut
    PROVE  DiskInv'
  <1> USE DEF StoreInv, TypeOK
  <1>1. /\ \A v \in Versions : disk'[v] \in AfterCut(v) /\ settled'[v]
        /\ \A p \in Procs : pc'[p] = "idle" /\ answer'[p] = None
        /\ UNCHANGED <<solid, tainted, removed, promised>>
    BY DEF PowerCut, Die
  <1>2. \A v \in Versions \ (removed \cup tainted) :
          disk'[v] \in {None, Parts} /\ (disk'[v] = Parts => disk[v] = Parts)
    BY <1>1, NoneIsNothing DEF AfterCut, DamageHasACause, Damaged, OnlyRemovalUnsettles
  <1>3. DamageHasACause' /\ OnlyRemovalUnsettles'
    BY <1>1, <1>2 DEF DamageHasACause, Damaged, OnlyRemovalUnsettles
  <1>4. \A p \in Procs, v \in Versions, s \in {"present", "blocked"} : answer'[p] # <<s, v>>
    <2>1. \A v \in Versions, s \in {"present", "blocked"} : <<s, v>> \in Answers
      BY DEF Answers
    <2> QED
      BY <1>1, <2>1, NoneIsNothing
  <1>5. PinIsHeld'
    <2>1. \A v \in Versions : settled[v] => disk'[v] = disk[v] /\ settled'[v]
      BY <1>1 DEF AfterCut
    <2>2. \A p \in Procs : pc'[p] # "settling"
      BY <1>1
    <2> HIDE DEF TypeOK
    <2> QED
      BY <1>1, <1>4, <2>1, <2>2 DEF PinIsHeld, PinnedByAll
  <1>6. BlockedOnlyByDebris'
    BY <1>4 DEF BlockedOnlyByDebris
  <1> QED
    BY <1>3, <1>5, <1>6 DEF DiskInv

LEMMA DiskStep ==
    ASSUME StoreInv, Next
    PROVE  DiskInv'
  <1>1. TypeOK
    BY DEF StoreInv
  <1>2. CASE Tick
    <2>1. Harmless
      BY <1>2 DEF Tick, Harmless, opVars, history
    <2> QED
      BY <2>1, HarmlessKeeps
  <1>3. CASE PowerCut
    BY <1>3, PowerCutKeeps
  <1>4. ASSUME NEW p \in Procs, Step(p) PROVE DiskInv'
    <2>1. CASE Installs(p)
      BY <1>1, <2>1, HarmlessSteps, HarmlessKeeps, BeginKeeps, PublishKeeps, SettleKeeps DEF Installs
    <2>2. CASE Sweeps(p)
      BY <1>1, <2>2, HarmlessSteps, HarmlessKeeps, SpoilingKeeps DEF Sweeps
    <2>3. CASE Prunes(p)
      BY <1>1, <2>3, HarmlessSteps, HarmlessKeeps, SpoilingKeeps DEF Prunes
    <2>4. CASE Crash(p)
      BY <1>1, <2>4, HarmlessSteps, HarmlessKeeps
    <2> QED
      BY <1>4, <2>1, <2>2, <2>3, <2>4 DEF Step
  <1> QED
    BY <1>2, <1>3, <1>4 DEF Next

-----------------------------------------------------------------------------
(* The sweep. *)

\* A step that makes no staging directory older, and brings nobody to extract.
KeepsAges ==
    \A q \in Procs : pc'[q] \in Extracting =>
        /\ pc[q] \in Extracting
        /\ age'[q] \in {0, age[q]} /\ spent'[q] = spent[q]

LEMMA AgesKept ==
    ASSUME TypeOK, NEW p \in Procs, Step(p), ~Fetched(p)
    PROVE  KeepsAges
  <1> USE DEF KeepsAges, TypeOK, Goes, stageVars, opVars, Extracting
  <1>1. ASSUME NEW v \in Versions, BeginInstall(p, v) PROVE KeepsAges
    BY <1>1 DEF BeginInstall
  <1>2. CASE Swept(p) \/ Flushed(p)
    BY <1>2 DEF Swept, Flushed
  <1>3. ASSUME NEW x \in Parts, Extracts(p, x) PROVE KeepsAges
    BY <1>3 DEF Extracts
  <1>4. ASSUME NEW a, Returns(p, a) PROVE KeepsAges
    BY <1>4 DEF Returns, Clears
  <1>5. CASE Publish(p)
    <2>1. CASE Renames(p, ver[p])
      BY <2>1 DEF Renames, TreeMoves
    <2>2. CASE Collides(p, ver[p])
      BY <1>4, <2>2 DEF Collides
    <2> QED
      BY <1>5, <2>1, <2>2 DEF Publish
  <1>6. CASE Settle(p) \/ Fails(p)
    BY <1>4, <1>6 DEF Settle, Fails
  <1>7. CASE Sweeps(p)
    BY <1>7 DEF Sweeps, Looks, Loots, Gnaws, Drops, SweepsOrphans
  <1>8. CASE Prunes(p)
    BY <1>8 DEF Prunes, BeginPrune, ListDirs, Unlinks, Removes, Pruned
  <1>9. CASE Crash(p)
    BY <1>9 DEF Crash, Die, Clears
  <1> QED
    BY <1>1, <1>2, <1>3, <1>5, <1>6, <1>7, <1>8, <1>9 DEF Step, Installs

LEMMA StampedStep ==
    ASSUME TypeOK, StampedAnew, Next
    PROVE  StampedAnew'
  <1>1. \A q \in Procs : age[q] \in Nat /\ spent[q] \in Nat
    BY StoreAssumption DEF TypeOK
  <1>2. ASSUME KeepsAges PROVE StampedAnew'
    BY <1>1, <1>2 DEF KeepsAges, StampedAnew
  <1>3. ASSUME NEW p \in Procs, Fetched(p) PROVE StampedAnew'
    BY <1>1, <1>3 DEF Fetched, Goes, TypeOK, StampedAnew
  <1>4. CASE Tick
    BY <1>1, <1>4, StoreAssumption DEF Tick, opVars, StampedAnew
  <1>5. CASE PowerCut
    BY <1>2, <1>5 DEF PowerCut, Die, KeepsAges, Extracting
  <1> QED
    BY <1>2, <1>3, <1>4, <1>5, AgesKept DEF Next

-----------------------------------------------------------------------------
(* The theorems. *)

\* StoreInv is an invariant, whatever sweeps, crashes and power cuts happen.
THEOREM StoreInvariant == Spec => []StoreInv
  <1>1. ASSUME StoreInv, [Next]_vars PROVE StoreInv'
    <2>1. CASE Next
      BY <1>1, <2>1, TypeStep, StagingStep, DiskStep DEF StoreInv, DiskInv
    <2>2. CASE UNCHANGED vars
      BY <1>1, <2>2 DEF vars, opVars, pruneVars, diskVars, stageVars, sweepVars, boundVars, history,
         StoreInv, TypeOK, SpentInTime, PreyIsMarked, IntactUnlessRobbed, DamageHasACause, Damaged,
         OnlyRemovalUnsettles, PinIsHeld, PinnedByAll, BlockedOnlyByDebris
    <2> QED
      BY <1>1, <2>1, <2>2
  <1> QED
    BY InitStoreInv, <1>1, PTL DEF Spec

\* Every variable keeps its type; above all, no Prune ever sets out to remove
\* the version its own process executes.
THEOREM StoreTypeCorrect == Spec => []TypeOK
  <1>1. StoreInv => TypeOK
    BY DEF StoreInv
  <1> QED
    BY StoreInvariant, <1>1, PTL

\* A version directory misses something only where a Prune set out to remove it
\* or a sweep set upon the directory it was published from.
THEOREM StoreDamageHasACause == Spec => []DamageHasACause
  <1>1. StoreInv => DamageHasACause
    BY DEF StoreInv
  <1> QED
    BY StoreInvariant, <1>1, PTL

\* A version everybody is pinned to, published from a directory no sweep set
\* upon, is there for good once its install was reported, and for as long as
\* the process runs that was told it is present.
THEOREM StorePinStays == Spec => []PinStays
  <1>1. StoreInv => PinStays
    BY DEF StoreInv, TypeOK, PinIsHeld, PinStays
  <1> QED
    BY StoreInvariant, <1>1, PTL

\* An install is turned away only by what a removal or a sweep left behind.
THEOREM StoreBlockedOnlyByDebris == Spec => []BlockedOnlyByDebris
  <1>1. StoreInv => BlockedOnlyByDebris
    BY DEF StoreInv
  <1> QED
    BY StoreInvariant, <1>1, PTL

\* A sweep takes the directory of a live extraction for an abandoned one only
\* after a lifetime of extracting, however long the download before it took.
THEOREM StoreLiveIsSpared == Spec => LiveIsSpared
  <1>1. Init => StampedAnew
    BY DEF Init, StampedAnew, Extracting
  <1>2. ASSUME TypeOK, StampedAnew, [Next]_vars PROVE StampedAnew'
    <2>1. CASE UNCHANGED vars
      BY <1>2, <2>1 DEF vars, opVars, stageVars, StampedAnew
    <2> QED
      BY <1>2, <2>1, StampedStep
  <1>3. ASSUME TypeOK, StampedAnew
        PROVE  \A q, p \in Procs : Looks(q, p) /\ pc[p] \in Extracting => spent[p] >= Lifetime
    BY <1>3, StoreAssumption DEF Looks, TypeOK, StampedAnew
  <1> QED
    BY StoreTypeCorrect, <1>1, <1>2, <1>3, PTL DEF Spec, LiveIsSpared
=============================================================================
