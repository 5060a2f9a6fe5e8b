------------------------ MODULE SchemaPublishProofs -------------------------
(***************************************************************************)
(* Proofs about SchemaPublish for any runs, provider values, processes and *)
(* interferences: PublishInv is inductive, and the properties follow.      *)
(***************************************************************************)
EXTENDS SchemaPublish, TLAPS

\* Between the decision to publish and the rename.
Publishing == {"clearing", "creating", "writing", "renaming"}

\* A directory that is gone took the temporary files with it.
NoTempAdrift == dir = "absent" => \A r \in Runs : temp[r] = "none"

\* A run that is past the gate goes for the lock of its provider value, and no two
\* runs of a value are between Lock and Unlock.
OneAtATime ==
    /\ \A r \in Runs : pc[r] \in Section \cup {"locking"} =>
          lock[r] # None /\ lock[r] = gate[ProviderOf[r]]
    /\ \A r, q \in Runs : pc[r] \in Section /\ pc[q] \in Section /\ ProviderOf[r] = ProviderOf[q] => r = q

\* A call in progress has not answered.
AnswersLast == \A r \in Runs : pc[r] \notin {"idle", "returning"} => answer[r] = None

\* A run that is not disturbed has seen a directory that was its own, and it is;
\* what it reads was no link or directory when it looked, and is none.
DirHolds ==
    /\ \A r \in Runs : ~disturbed[r] /\ (answer[r] = "ok" \/ pc[r] \in Publishing \cup {"finding", "reading"})
        => dir = "private"
    /\ \A r \in Runs : ~disturbed[r] /\ pc[r] = "reading" => file # "obstacle"

\* A run that clears the name away had seen something else there, so a run of
\* another provider value took the schema from whoever of its own had been told.
ClearsForACause ==
    \A r, q \in Runs : pc[q] = "clearing" /\ ProviderOf[q] = ProviderOf[r] /\ answer[r] = "ok" /\ ~disturbed[r]
        => stripped[r] \ {ProviderOf[r]} # {}

\* Whoever publishes again does it for a loss that its provider value has not made
\* good.
LossesMadeGood ==
    \A v \in Providers :
        /\ published[v] <= 1 + losses
        /\ file # "schema" => published[v] <= losses
        /\ \A r \in Runs : ProviderOf[r] = v /\ pc[r] \in Publishing => published[v] <= losses

PublishInv ==
    /\ TypeOK /\ NoTempAdrift
    /\ OneAtATime
    /\ AnswersLast /\ DirHolds
    /\ ClearsForACause /\ ToldHolds
    /\ LossesMadeGood

LEMMA InitPublishInv == Init => PublishInv
  <1> SUFFICES ASSUME Init PROVE PublishInv
    OBVIOUS
  <1> USE SchemaAssumption DEF Init
  <1>1. TypeOK
    BY DEF TypeOK, Providers, Procs
  <1>2. OneAtATime /\ AnswersLast
    BY DEF OneAtATime, AnswersLast, Section
  <1>3. DirHolds
    BY DEF DirHolds, Publishing
  <1>4. NoTempAdrift /\ ClearsForACause /\ ToldHolds
    BY DEF NoTempAdrift, ClearsForACause, ToldHolds
  <1>5. LossesMadeGood
    BY DEF LossesMadeGood, Publishing, Providers, Procs
  <1> QED
    BY <1>1, <1>2, <1>3, <1>4, <1>5 DEF PublishInv

\* What dies starts again from nothing; what does not goes on.
LEMMA DieEffect ==
    ASSUME TypeOK, NEW ps, Die(ps)
    PROVE  \A r \in Runs :
              /\ ProcessOf(r) \in ps => pc'[r] = "idle" /\ answer'[r] = None
              /\ ProcessOf(r) \notin ps => /\ pc'[r] = pc[r] /\ answer'[r] = answer[r]
                                       /\ disturbed'[r] = disturbed[r] /\ stripped'[r] = stripped[r]
  <1> USE SchemaAssumption DEF Die
  <1> TAKE r \in Runs
  <1>1. ProcessOf(r) \in ps => pc'[r] = "idle" /\ answer'[r] = None
    OBVIOUS
  <1>2. ProcessOf(r) \notin ps => pc'[r] = pc[r] /\ answer'[r] = answer[r] /\ stripped'[r] = stripped[r]
    OBVIOUS
  <1>3. disturbed'[r] = (disturbed[r] /\ ProcessOf(r) \notin ps)
    OBVIOUS
  <1>4. disturbed[r] \in BOOLEAN
    BY DEF TypeOK
  <1> QED
    BY <1>1, <1>2, <1>3, <1>4

\* A power cut is the death of every run.
LEMMA CutEffect ==
    ASSUME TypeOK, PowerCut
    PROVE  \A r \in Runs : pc'[r] = "idle" /\ answer'[r] = None
  BY DieEffect DEF PowerCut, Procs, Providers, ProcessOf

\* The runs of a provider value die together, and its locks with them.
LEMMA DieLocks ==
    ASSUME TypeOK, OneAtATime, NEW ps, Die(ps)
    PROVE  OneAtATime'
  <1> USE SchemaAssumption
  <1>1. \A r \in Runs : pc'[r] # "idle" => ProcessOf(r) \notin ps /\ pc'[r] = pc[r]
    BY DieEffect
  <1>2. \A r \in Runs : ProcessOf(r) \notin ps =>
           lock'[r] = lock[r] /\ gate'[ProviderOf[r]] = gate[ProviderOf[r]]
    BY DEF Die, ProcessOf, Providers
  <1> QED
    BY <1>1, <1>2 DEF OneAtATime, Section

-----------------------------------------------------------------------------
(* One lemma for each part of the invariant. *)

\* Types; a name that is gone keeps no temporary file.
LEMMA TypeStep ==
    ASSUME TypeOK, NoTempAdrift, [Next]_vars
    PROVE  TypeOK' /\ NoTempAdrift'
  <1> USE SchemaAssumption DEF Goes, Ends, CountsLoss, vars, outside, locks, history, Section,
       TypeOK, NoTempAdrift, Providers, Procs
  <1>1. ASSUME NEW r \in Runs, Step(r)
        PROVE  TypeOK' /\ NoTempAdrift'
    <2>1. CASE Begins(r)
      BY <2>1 DEF Begins
    <2>2. CASE Stores(r)
      BY <2>2 DEF Stores
    <2>3. CASE Locks(r)
      BY <2>3 DEF Locks
    <2>4. CASE MakesDir(r)
      BY <2>4 DEF MakesDir
    <2>5. CASE InspectsDir(r)
      BY <2>5 DEF InspectsDir
    <2>6. CASE Finds(r)
      BY <2>6 DEF Finds
    <2>7. CASE Reads(r)
      BY <2>7 DEF Reads
    <2>8. CASE CannotRead(r)
      BY <2>8 DEF CannotRead
    <2>9. CASE Clears(r)
      BY <2>9 DEF Clears
    <2>10. CASE CreatesTemp(r)
      BY <2>10 DEF CreatesTemp
    <2>11. CASE Writes(r)
      BY <2>11 DEF Writes
    <2>12. CASE Renames(r)
      BY <2>12 DEF Renames
    <2>13. CASE Fails(r)
      BY <2>13 DEF Fails
    <2>14. CASE Returns(r)
      BY <2>14 DEF Returns
    <2> QED
      BY <1>1, <2>1, <2>2, <2>3, <2>4, <2>5, <2>6, <2>7, <2>8, <2>9, <2>10, <2>11, <2>12, <2>13, <2>14 DEF Step
  <1>2. ASSUME NEW p \in Procs, Crash(p)
        PROVE  TypeOK' /\ NoTempAdrift'
    BY <1>2 DEF Crash, Die
  <1>3. CASE Stranger
    BY <1>3 DEF Stranger
  <1>4. CASE Meddles
    BY <1>4 DEF Meddles
  <1>5. CASE PowerCut
    <2>1. Die(Procs)
      BY <1>5 DEF PowerCut
    <2>2. \A r \in Runs : ProcessOf(r) \in Procs
      BY DEF ProcessOf
    <2>3. temp' = [r \in Runs |-> "none"]
      BY <2>1, <2>2 DEF Die
    <2>4. dir' \in {"absent", "private", "unsafe"}
      BY <1>5 DEF PowerCut
    <2>5. /\ file' \in {"absent", "schema", "other", "torn", "obstacle"}
          /\ dir' = "absent" => file' = "absent"
      BY <1>5 DEF PowerCut
    <2>6. losses' \in Nat
      BY <1>5 DEF PowerCut
    <2>7. /\ pc' \in [Runs -> Section \cup {"idle", "storing", "locking"}]
          /\ answer' \in [Runs -> {None, "ok", "error"}]
          /\ gate' \in [Providers -> Runs \cup {None}]
          /\ lock' \in [Runs -> Runs \cup {None}]
      BY <2>1 DEF Die
    <2>8. /\ meddles' \in 0..MaxMeddles
          /\ disturbed' \in [Runs -> BOOLEAN]
          /\ stripped' \in [Runs -> SUBSET Providers]
          /\ published' \in [Providers -> Nat]
      BY <2>1 DEF Die
    <2> QED
      BY <2>3, <2>4, <2>5, <2>6, <2>7, <2>8
  <1>6. CASE UNCHANGED vars
    BY <1>6
  <1> QED
    BY <1>1, <1>2, <1>3, <1>4, <1>5, <1>6 DEF Next

\* The lock of the name keeps the runs of a provider value apart.
LEMMA LockStep ==
    ASSUME TypeOK, OneAtATime, [Next]_vars
    PROVE  OneAtATime'
  <1> USE SchemaAssumption DEF Goes, Ends, CountsLoss, vars, outside, locks, history, Section,
       TypeOK, OneAtATime, Providers, Procs
  <1>1. ASSUME NEW r \in Runs, Step(r)
        PROVE  OneAtATime'
    <2>1. CASE Begins(r)
      BY <2>1 DEF Begins
    <2>2. CASE Stores(r)
      BY <2>2 DEF Stores
    <2>3. CASE Locks(r)
      BY <2>3 DEF Locks
    <2>4. CASE MakesDir(r)
      BY <2>4 DEF MakesDir
    <2>5. CASE InspectsDir(r)
      BY <2>5 DEF InspectsDir
    <2>6. CASE Finds(r)
      BY <2>6 DEF Finds
    <2>7. CASE Reads(r)
      BY <2>7 DEF Reads
    <2>8. CASE CannotRead(r)
      BY <2>8 DEF CannotRead
    <2>9. CASE Clears(r)
      BY <2>9 DEF Clears
    <2>10. CASE CreatesTemp(r)
      BY <2>10 DEF CreatesTemp
    <2>11. CASE Writes(r)
      BY <2>11 DEF Writes
    <2>12. CASE Renames(r)
      BY <2>12 DEF Renames
    <2>13. CASE Fails(r)
      BY <2>13 DEF Fails
    <2>14. CASE Returns(r)
      BY <2>14 DEF Returns
    <2> QED
      BY <1>1, <2>1, <2>2, <2>3, <2>4, <2>5, <2>6, <2>7, <2>8, <2>9, <2>10, <2>11, <2>12, <2>13, <2>14 DEF Step
  <1>2. ASSUME NEW p \in Procs, Crash(p)
        PROVE  OneAtATime'
    BY <1>2, DieLocks DEF Crash
  <1>3. CASE Stranger
    BY <1>3 DEF Stranger
  <1>4. CASE Meddles
    BY <1>4 DEF Meddles
  <1>5. CASE PowerCut
    BY <1>5, CutEffect
  <1>6. CASE UNCHANGED vars
    BY <1>6
  <1> QED
    BY <1>1, <1>2, <1>3, <1>4, <1>5, <1>6 DEF Next

\* A call answers as it returns.
LEMMA AnswerStep ==
    ASSUME TypeOK, AnswersLast, [Next]_vars
    PROVE  AnswersLast'
  <1> USE SchemaAssumption DEF Goes, Ends, CountsLoss, vars, outside, locks, history, Section,
       TypeOK, AnswersLast, Providers, Procs
  <1>1. ASSUME NEW r \in Runs, Step(r)
        PROVE  AnswersLast'
    <2>1. CASE Begins(r)
      BY <2>1 DEF Begins
    <2>2. CASE Stores(r)
      BY <2>2 DEF Stores
    <2>3. CASE Locks(r)
      BY <2>3 DEF Locks
    <2>4. CASE MakesDir(r)
      BY <2>4 DEF MakesDir
    <2>5. CASE InspectsDir(r)
      BY <2>5 DEF InspectsDir
    <2>6. CASE Finds(r)
      BY <2>6 DEF Finds
    <2>7. CASE Reads(r)
      BY <2>7 DEF Reads
    <2>8. CASE CannotRead(r)
      BY <2>8 DEF CannotRead
    <2>9. CASE Clears(r)
      BY <2>9 DEF Clears
    <2>10. CASE CreatesTemp(r)
      BY <2>10 DEF CreatesTemp
    <2>11. CASE Writes(r)
      BY <2>11 DEF Writes
    <2>12. CASE Renames(r)
      BY <2>12 DEF Renames
    <2>13. CASE Fails(r)
      BY <2>13 DEF Fails
    <2>14. CASE Returns(r)
      BY <2>14 DEF Returns
    <2> QED
      BY <1>1, <2>1, <2>2, <2>3, <2>4, <2>5, <2>6, <2>7, <2>8, <2>9, <2>10, <2>11, <2>12, <2>13, <2>14 DEF Step
  <1>2. ASSUME NEW p \in Procs, Crash(p)
        PROVE  AnswersLast'
    BY <1>2 DEF Crash, Die
  <1>3. CASE Stranger
    BY <1>3 DEF Stranger
  <1>4. CASE Meddles
    BY <1>4 DEF Meddles
  <1>5. CASE PowerCut
    BY <1>5 DEF PowerCut, Die
  <1>6. CASE UNCHANGED vars
    BY <1>6
  <1> QED
    BY <1>1, <1>2, <1>3, <1>4, <1>5, <1>6 DEF Next

\* A directory that nobody else can write stays until the account disturbs it.
LEMMA DirStep ==
    ASSUME TypeOK, OneAtATime, AnswersLast, DirHolds, [Next]_vars
    PROVE  DirHolds'
  <1> USE SchemaAssumption DEF Goes, Ends, CountsLoss, vars, outside, locks, history, Section,
       TypeOK, AnswersLast, DirHolds, Publishing, Providers, Procs
  <1>1. ASSUME NEW r \in Runs, Step(r)
        PROVE  DirHolds'
    <2>1. CASE Begins(r)
      <3> SUFFICES ASSUME NEW q \in Runs PROVE DirHolds!1!(q)' /\ DirHolds!2!(q)'
        OBVIOUS
      <3>1. CASE q = r
        BY <1>1, <2>1, <3>1 DEF Begins
      <3>2. CASE q # r
        BY <1>1, <2>1, <3>2 DEF Begins
      <3> QED
        BY <3>1, <3>2
    <2>2. CASE Stores(r)
      BY <2>2 DEF Stores
    <2>3. CASE Locks(r)
      BY <2>3 DEF Locks
    <2>4. CASE MakesDir(r)
      BY <2>4 DEF MakesDir
    <2>5. CASE InspectsDir(r)
      BY <2>5 DEF InspectsDir
    <2>6. CASE Finds(r)
      BY <2>6 DEF Finds
    <2>7. CASE Reads(r)
      BY <2>7 DEF Reads
    <2>8. CASE CannotRead(r)
      BY <2>8 DEF CannotRead
    <2>9. CASE Clears(r)
      BY <2>9 DEF Clears
    <2>10. CASE CreatesTemp(r)
      BY <2>10 DEF CreatesTemp
    <2>11. CASE Writes(r)
      BY <2>11 DEF Writes
    <2>12. CASE Renames(r)
      BY <2>12 DEF Renames
    <2>13. CASE Fails(r)
      BY <2>13 DEF Fails
    <2>14. CASE Returns(r)
      BY <2>14 DEF Returns
    <2> QED
      BY <1>1, <2>1, <2>2, <2>3, <2>4, <2>5, <2>6, <2>7, <2>8, <2>9, <2>10, <2>11, <2>12, <2>13, <2>14 DEF Step
  <1>2. ASSUME NEW p \in Procs, Crash(p)
        PROVE  DirHolds'
    BY <1>2, DieEffect DEF Crash
  <1>3. CASE Stranger
    BY <1>3 DEF Stranger
  <1>4. CASE Meddles
    BY <1>4 DEF Meddles
  <1>5. CASE PowerCut
    BY <1>5, CutEffect
  <1>6. CASE UNCHANGED vars
    BY <1>6
  <1> QED
    BY <1>1, <1>2, <1>3, <1>4, <1>5, <1>6 DEF Next

\* What a run was told of stays, and nobody of its provider value clears it away.
LEMMA ToldStep ==
    ASSUME TypeOK, OneAtATime, AnswersLast, DirHolds, ClearsForACause, ToldHolds, [Next]_vars
    PROVE  ClearsForACause' /\ ToldHolds'
  <1> USE SchemaAssumption DEF Goes, Ends, CountsLoss, vars, outside, locks, history, Section,
       TypeOK, OneAtATime, AnswersLast, DirHolds, ClearsForACause, ToldHolds, Publishing
  <1>1. ASSUME NEW r \in Runs, Step(r)
        PROVE  ClearsForACause' /\ ToldHolds'
    <2>1. CASE Begins(r)
      <3>1. \A q \in Runs : answer'[q] = "ok" /\ ~disturbed'[q] =>
               answer[q] = "ok" /\ ~disturbed[q] /\ stripped'[q] = stripped[q]
        BY <1>1, <2>1 DEF Begins
      <3>2. \A q \in Runs : pc'[q] = "clearing" => pc[q] = "clearing"
        BY <1>1, <2>1 DEF Begins
      <3>3. file' = file
        BY <2>1 DEF Begins
      <3> QED
        BY <3>1, <3>2, <3>3
    <2>2. CASE Stores(r)
      BY <2>2 DEF Stores
    <2>3. CASE Locks(r)
      BY <2>3 DEF Locks
    <2>4. CASE MakesDir(r)
      BY <2>4 DEF MakesDir
    <2>5. CASE InspectsDir(r)
      <3>1. \A q \in Runs : answer'[q] = "ok" /\ ~disturbed'[q] =>
               answer[q] = "ok" /\ ~disturbed[q] /\ stripped'[q] = stripped[q]
        BY <1>1, <2>5 DEF InspectsDir
      <3>2. \A q \in Runs : pc'[q] = "clearing" => pc[q] = "clearing"
        BY <1>1, <2>5 DEF InspectsDir
      <3>3. file' = file
        BY <2>5 DEF InspectsDir
      <3> QED
        BY <3>1, <3>2, <3>3
    <2>6. CASE Finds(r)
      BY <2>6 DEF Finds
    <2>7. CASE Reads(r)
      <3>1. pc' = [pc EXCEPT ![r] = pc'[r]] /\ pc'[r] # "clearing" /\ file' = file /\ disturbed' = disturbed
        BY <1>1, <2>7 DEF Reads
      <3>2. \A q \in Runs \ {r} : answer'[q] = answer[q] /\ stripped'[q] = stripped[q]
        BY <1>1, <2>7 DEF Reads
      <3>3. answer'[r] = "ok" /\ ~disturbed[r] => file = "schema" /\ answer[r] = None
        BY <1>1, <2>7 DEF Reads
      <3>4. \A q \in Runs : pc'[q] = "clearing" => pc[q] = "clearing" /\ q # r
        BY <1>1, <3>1
      <3>5. pc[r] \in Section
        BY <2>7 DEF Reads
      <3>6. ToldHolds'
        BY <3>1, <3>2, <3>3
      <3>7. ClearsForACause'
        <4> SUFFICES ASSUME NEW q1 \in Runs, NEW q \in Runs, pc'[q] = "clearing",
                            ProviderOf[q] = ProviderOf[q1], answer'[q1] = "ok", ~disturbed'[q1]
                     PROVE  stripped'[q1] \ {ProviderOf[q1]} # {}
          OBVIOUS
        <4>1. q1 # r
          BY <1>1, <3>4, <3>5
        <4> QED
          BY <4>1, <3>1, <3>2, <3>4
      <3> QED
        BY <3>6, <3>7
    <2>8. CASE CannotRead(r)
      BY <2>8 DEF CannotRead
    <2>9. CASE Clears(r)
      <3>1. \A q \in Runs : answer'[q] = answer[q] /\ disturbed'[q] = disturbed[q]
        BY <2>9 DEF Clears
      <3>2. \A q \in Runs : pc'[q] = "clearing" => pc[q] = "clearing"
        BY <1>1, <2>9 DEF Clears
      <3>3. \A q \in Runs : stripped[q] \subseteq stripped'[q]
        BY <2>9 DEF Clears
      <3>4. ASSUME NEW q \in Runs, answer[q] = "ok", ~disturbed[q]
            PROVE  stripped'[q] \ {ProviderOf[q]} # {}
        <4>1. CASE stripped[q] \ {ProviderOf[q]} # {}
          BY <4>1, <3>3
        <4>2. CASE stripped[q] \ {ProviderOf[q]} = {}
          <5>1. file = "schema"
            BY <3>4, <4>2
          <5>2. ProviderOf[r] # ProviderOf[q]
            BY <1>1, <2>9, <3>4, <4>2 DEF Clears
          <5>3. ProviderOf[r] \in stripped'[q]
            BY <1>1, <2>9, <3>4, <5>1 DEF Clears
          <5> QED
            BY <5>2, <5>3
        <4> QED
          BY <4>1, <4>2
      <3> QED
        BY <3>1, <3>2, <3>4
    <2>10. CASE CreatesTemp(r)
      BY <2>10 DEF CreatesTemp
    <2>11. CASE Writes(r)
      BY <2>11 DEF Writes
    <2>12. CASE Renames(r)
      BY <2>12 DEF Renames
    <2>13. CASE Fails(r)
      BY <2>13 DEF Fails
    <2>14. CASE Returns(r)
      BY <2>14 DEF Returns
    <2> QED
      BY <1>1, <2>1, <2>2, <2>3, <2>4, <2>5, <2>6, <2>7, <2>8, <2>9, <2>10, <2>11, <2>12, <2>13, <2>14 DEF Step
  <1>2. ASSUME NEW p \in Procs, Crash(p)
        PROVE  ClearsForACause' /\ ToldHolds'
    <2>1. \A r \in Runs : answer'[r] = "ok" =>
             /\ answer[r] = "ok" /\ stripped'[r] = stripped[r] /\ disturbed'[r] = disturbed[r]
      BY <1>2, DieEffect DEF Crash
    <2>2. \A q \in Runs : pc'[q] = "clearing" => pc[q] = "clearing"
      BY <1>2, DieEffect DEF Crash
    <2>3. file' = file
      BY <1>2 DEF Crash
    <2>4. ToldHolds'
      BY <2>1, <2>3
    <2>5. ClearsForACause'
      BY <2>1, <2>2
    <2> QED
      BY <2>4, <2>5
  <1>3. CASE Stranger
    BY <1>3 DEF Stranger
  <1>4. CASE Meddles
    BY <1>4 DEF Meddles
  <1>5. CASE PowerCut
    BY <1>5, CutEffect
  <1>6. CASE UNCHANGED vars
    BY <1>6
  <1> QED
    BY <1>1, <1>2, <1>3, <1>4, <1>5, <1>6 DEF Next

\* A rename makes good one loss.
LEMMA LossStep ==
    ASSUME TypeOK, OneAtATime, LossesMadeGood, [Next]_vars
    PROVE  LossesMadeGood'
  <1> USE SchemaAssumption DEF Goes, Ends, CountsLoss, vars, outside, locks, history, Section,
       TypeOK, OneAtATime, LossesMadeGood, Publishing, Providers, Procs
  <1>1. ASSUME NEW r \in Runs, Step(r)
        PROVE  LossesMadeGood'
    <2>1. CASE Begins(r)
      BY <2>1 DEF Begins
    <2>2. CASE Stores(r)
      BY <2>2 DEF Stores
    <2>3. CASE Locks(r)
      BY <2>3 DEF Locks
    <2>4. CASE MakesDir(r)
      BY <2>4 DEF MakesDir
    <2>5. CASE InspectsDir(r)
      BY <2>5 DEF InspectsDir
    <2>6. CASE Finds(r)
      BY <2>6 DEF Finds
    <2>7. CASE Reads(r)
      BY <2>7 DEF Reads
    <2>8. CASE CannotRead(r)
      <3>1. published' = published /\ losses' = losses + 1
        BY <2>8 DEF CannotRead
      <3>2. losses \in Nat /\ \A v \in Providers : published[v] \in Nat /\ published[v] <= 1 + losses
        OBVIOUS
      <3> HIDE DEF TypeOK, LossesMadeGood
      <3> QED
        BY <3>1, <3>2 DEF LossesMadeGood
    <2>9. CASE Clears(r)
      BY <2>9 DEF Clears
    <2>10. CASE CreatesTemp(r)
      BY <2>10 DEF CreatesTemp
    <2>11. CASE Writes(r)
      BY <2>11 DEF Writes
    <2>12. CASE Renames(r)
      BY <2>12 DEF Renames
    <2>13. CASE Fails(r)
      BY <2>13 DEF Fails
    <2>14. CASE Returns(r)
      BY <2>14 DEF Returns
    <2> QED
      BY <1>1, <2>1, <2>2, <2>3, <2>4, <2>5, <2>6, <2>7, <2>8, <2>9, <2>10, <2>11, <2>12, <2>13, <2>14 DEF Step
  <1>2. ASSUME NEW p \in Procs, Crash(p)
        PROVE  LossesMadeGood'
    BY <1>2 DEF Crash, Die
  <1>3. CASE Stranger
    BY <1>3 DEF Stranger
  <1>4. CASE Meddles
    BY <1>4 DEF Meddles
  <1>5. CASE PowerCut
    <2>1. \A r \in Runs : pc'[r] = "idle"
      BY <1>5, CutEffect
    <2>2. losses \in Nat /\ published \in [Providers -> Nat] /\ published' = published
      BY <1>5 DEF PowerCut, Die
    <2>3. losses' = IF file = "schema" /\ file' # "schema" THEN losses + 1 ELSE losses
      BY <1>5 DEF PowerCut
    <2> QED
      BY <2>1, <2>2, <2>3
  <1>6. CASE UNCHANGED vars
    BY <1>6
  <1> QED
    BY <1>1, <1>2, <1>3, <1>4, <1>5, <1>6 DEF Next

-----------------------------------------------------------------------------
(* The theorems. *)

\* PublishInv is an invariant of SchemaArgs, schemaDir and publish.
THEOREM PublishInvariant == Spec => []PublishInv
  <1>1. PublishInv /\ [Next]_vars => PublishInv'
    BY TypeStep, LockStep, AnswerStep, DirStep, ToldStep, LossStep DEF PublishInv
  <1> QED
    BY <1>1, InitPublishInv, PTL DEF Spec

\* The variables keep their types, and no call leaves a temporary file behind.
THEOREM TypeCorrect == Spec => []TypeOK
  <1>1. PublishInv => TypeOK
    BY DEF PublishInv
  <1> QED
    BY <1>1, PublishInvariant, PTL

\* A run that was handed the path finds its schema there, until its own account
\* interferes or a run of another provider value, wherever it lives, clears it away.
THEOREM WhatWasToldHolds == Spec => []ToldHolds
  <1>1. PublishInv => ToldHolds
    BY DEF PublishInv
  <1> QED
    BY <1>1, PublishInvariant, PTL

\* The runs of a provider value publish once between them, and once more for each
\* loss.
THEOREM EachProviderWorksOnce == Spec => []WorkDoneOnce
  <1>1. PublishInv => WorkDoneOnce
    BY DEF PublishInv, LossesMadeGood, WorkDoneOnce
  <1> QED
    BY <1>1, PublishInvariant, PTL

\* No step of a run, of another account or of a crash puts half a document under
\* the name: a power cut does.
THEOREM WholeUntilThePowerFails == Spec => NeverHalfWritten
  <1>1. [Next]_vars => [file' = "torn" /\ file # "torn" => PowerCut]_vars
    <2> SUFFICES ASSUME Next, file' = "torn", file # "torn"
                 PROVE  PowerCut
      OBVIOUS
    <2> USE DEF Goes, Ends, outside, locks, history
    <2>1. \A r \in Runs : ~Step(r)
      BY DEF Step, Begins, Stores, Locks, MakesDir, InspectsDir, Finds, Reads, CannotRead, Clears,
         CreatesTemp, Writes, Renames, Fails, Returns
    <2>2. \A p \in Procs : ~Crash(p)
      BY DEF Crash
    <2>3. ~Stranger /\ ~Meddles
      BY DEF Stranger, Meddles
    <2> QED
      BY <2>1, <2>2, <2>3 DEF Next
  <1> QED
    BY <1>1, PTL DEF Spec, NeverHalfWritten
=============================================================================
