---------------------------- MODULE SchemaPublish ----------------------------
(***************************************************************************)
(* The file a codex run names with --output-schema, shared by every run,   *)
(* goroutine and process of an account that asks for one schema: SchemaArgs,*)
(* schemaDir and publish (codex/provider.go:367-504), against other        *)
(* accounts, a sweeper of the temporary directory, failing calls, processes *)
(* that die and a machine that loses power.                                *)
(*                                                                         *)
(* The name of the file is the digest of the schema, so different schemas  *)
(* have different files and different locks: one schema is modelled.       *)
(***************************************************************************)
EXTENDS Integers, FiniteSets

CONSTANTS
    Runs,       \* calls of SchemaArgs at any one time
    ProviderOf, \* the provider value each is a call of
    ProcOf,     \* the process each provider value lives in
    MaxMeddles, \* bound: interferences of the account itself, read errors, crashes, cuts
    None

\* The lock is a field of the provider value (codex/provider.go:66), which any
\* number of runs may share, and a process may hold any number of values.
Providers == {ProviderOf[r] : r \in Runs}
Procs == {ProcOf[v] : v \in Providers}

ASSUME SchemaAssumption ==
    /\ None \notin Runs \cup {"ok", "error"}
    /\ DOMAIN ProviderOf = Runs
    /\ DOMAIN ProcOf = Providers
    /\ MaxMeddles \in Nat

VARIABLES
    pc,         \* where each run is in SchemaArgs
    answer,     \* what its last call returned
    gate,       \* per provider, the mutex stored for the name, by the run that made it
    lock,       \* the mutex each run goes for or holds
    temp,       \* its temporary file
    dir,        \* the schema directory
    file,       \* what is at the schema's name in it
    meddles,
    disturbed,  \* history: the account interfered since the run saw its directory
    stripped,   \* history: the runs that had a file taken away, since they were told of it
    losses,     \* history: how often the schema went from the name, or could not be read
    published   \* history: renames by the runs of each provider value

outside == <<dir, file>>
vars == <<pc, answer, gate, lock, temp, outside, meddles, disturbed, stripped, losses, published>>

\* The process a run is in.
ProcessOf(r) == ProcOf[ProviderOf[r]]

\* The steps between Lock and the deferred Unlock.
Section == {"making", "inspecting", "finding", "reading", "clearing", "creating", "writing",
            "renaming", "returning"}

\* A temporary file belongs to a call in progress: none is left by a failure.
TypeOK ==
    /\ pc \in [Runs -> Section \cup {"idle", "storing", "locking"}]
    /\ answer \in [Runs -> {None, "ok", "error"}]
    /\ gate \in [Providers -> Runs \cup {None}]
    /\ lock \in [Runs -> Runs \cup {None}]
    /\ temp \in [Runs -> {"none", "part", "full"}]
    /\ \A r \in Runs : temp[r] # "none" => pc[r] \in {"writing", "renaming", "returning"}
    /\ dir \in {"absent", "private", "unsafe"}
    /\ file \in {"absent", "schema", "other", "torn", "obstacle"}
    /\ dir = "absent" => file = "absent"
    /\ meddles \in 0..MaxMeddles
    /\ disturbed \in [Runs -> BOOLEAN]
    /\ stripped \in [Runs -> SUBSET Providers]
    /\ losses \in Nat
    /\ published \in [Providers -> Nat]

Init ==
    /\ pc = [r \in Runs |-> "idle"]
    /\ answer = [r \in Runs |-> None]
    /\ gate = [v \in Providers |-> None]
    /\ lock = [r \in Runs |-> None]
    /\ temp = [r \in Runs |-> "none"]
    /\ dir \in {"absent", "private", "unsafe"}
    /\ file \in IF dir = "absent" THEN {"absent"} ELSE {"absent", "schema", "other", "obstacle"}
    /\ meddles = 0 /\ losses = 0
    /\ disturbed = [r \in Runs |-> FALSE]
    /\ stripped = [r \in Runs |-> {}]
    /\ published = [v \in Providers |-> 0]

Goes(r, s) == pc' = [pc EXCEPT ![r] = s]

\* Counts a change of the file that takes the schema away.
CountsLoss == losses' = IF file = "schema" /\ file' # "schema" THEN losses + 1 ELSE losses

\* The call is about to return with an answer; its deferred functions are left.
Ends(r, a) == Goes(r, "returning") /\ answer' = [answer EXCEPT ![r] = a]

locks == <<gate, lock>>
history == <<disturbed, stripped, losses, published>>
-----------------------------------------------------------------------------
(* SchemaArgs and schemaDir. *)

\* The gate is loaded.
Begins(r) ==
    /\ pc[r] = "idle"
    /\ answer' = [answer EXCEPT ![r] = None]
    /\ disturbed' = [disturbed EXCEPT ![r] = FALSE]
    /\ stripped' = [stripped EXCEPT ![r] = {}]
    /\ lock' = [lock EXCEPT ![r] = gate[ProviderOf[r]]]
    /\ Goes(r, IF gate[ProviderOf[r]] = None THEN "storing" ELSE "locking")
    /\ UNCHANGED <<gate, temp, outside, meddles, losses, published>>

\* Bug: Store, not LoadOrStore.
StoresOver(r) ==
    /\ pc[r] = "storing"
    /\ gate' = [gate EXCEPT ![ProviderOf[r]] = r]
    /\ lock' = [lock EXCEPT ![r] = gate'[ProviderOf[r]]]
    /\ Goes(r, "locking")
    /\ UNCHANGED <<answer, temp, outside, meddles, history>>

\* There was none: LoadOrStore with a new one.
Stores(r) ==
    /\ pc[r] = "storing"
    /\ gate' = [gate EXCEPT ![ProviderOf[r]] = IF @ = None THEN r ELSE @]
    /\ lock' = [lock EXCEPT ![r] = gate'[ProviderOf[r]]]
    /\ Goes(r, "locking")
    /\ UNCHANGED <<answer, temp, outside, meddles, history>>

Locks(r) ==
    /\ pc[r] = "locking"
    /\ \A q \in Runs \ {r} : ProviderOf[q] = ProviderOf[r] /\ lock[q] = lock[r] => pc[q] = "locking"
    /\ Goes(r, "making")
    /\ UNCHANGED <<answer, locks, temp, outside, meddles, history>>

\* MkdirAll.
MakesDir(r) ==
    /\ pc[r] = "making"
    /\ dir' = IF dir = "absent" THEN "private" ELSE dir
    /\ Goes(r, "inspecting")
    /\ UNCHANGED <<answer, locks, temp, file, meddles, history>>

\* Bug: the directory is not inspected.
InspectsNothing(r) ==
    /\ pc[r] = "inspecting"
    /\ disturbed' = [disturbed EXCEPT ![r] = FALSE]
    /\ Goes(r, "finding") /\ UNCHANGED answer
    /\ UNCHANGED <<locks, temp, outside, meddles, stripped, losses, published>>

\* Lstat: only a directory that is this account's and nobody else's will do.
InspectsDir(r) ==
    /\ pc[r] = "inspecting"
    /\ disturbed' = [disturbed EXCEPT ![r] = FALSE]
    /\ \/ dir = "private" /\ Goes(r, "finding") /\ UNCHANGED answer
       \/ dir # "private" /\ Ends(r, "error")
    /\ UNCHANGED <<locks, temp, outside, meddles, stripped, losses, published>>

-----------------------------------------------------------------------------
(* publish. *)

\* Lstat of the file.
Finds(r) ==
    /\ pc[r] = "finding"
    /\ Goes(r, CASE file = "absent" -> "creating"
                 [] file = "obstacle" -> "clearing"
                 [] OTHER -> "reading")
    /\ UNCHANGED <<answer, locks, temp, outside, meddles, history>>

\* ReadFile and the comparison.  A link put there since may lead to the schema.
Reads(r) ==
    /\ pc[r] = "reading"
    /\ \/ file \in {"schema", "obstacle"} /\ Ends(r, "ok")
          /\ stripped' = [stripped EXCEPT ![r] = {}]
       \/ file # "schema" /\ Goes(r, "creating") /\ UNCHANGED <<answer, stripped>>
    /\ UNCHANGED <<locks, temp, outside, meddles, disturbed, losses, published>>

\* The schema is there and cannot be read, which is as good as its loss.
CannotRead(r) ==
    /\ pc[r] = "reading" /\ file = "schema"
    /\ meddles < MaxMeddles
    /\ meddles' = meddles + 1
    /\ losses' = losses + 1
    /\ Goes(r, "creating")
    /\ UNCHANGED <<answer, locks, temp, outside, disturbed, stripped, published>>

\* RemoveAll, of whatever is there by now.
Clears(r) ==
    /\ pc[r] = "clearing"
    /\ file' = "absent"
    /\ CountsLoss
    /\ stripped' = [q \in Runs |-> IF file = "schema" /\ answer[q] = "ok"
                                     THEN stripped[q] \cup {ProviderOf[r]} ELSE stripped[q]]
    /\ Goes(r, "creating")
    /\ UNCHANGED <<answer, locks, temp, dir, meddles, disturbed, published>>

CreatesTemp(r) ==
    /\ pc[r] = "creating" /\ dir # "absent"
    /\ temp' = [temp EXCEPT ![r] = "part"]
    /\ Goes(r, "writing")
    /\ UNCHANGED <<answer, locks, outside, meddles, history>>

\* Bug: the document is written under the name itself.
WritesInPlace(r) ==
    /\ pc[r] = "writing"
    /\ temp' = [temp EXCEPT ![r] = "full"]
    /\ file' = IF dir = "absent" THEN "absent" ELSE "torn"
    /\ CountsLoss
    /\ Goes(r, "renaming")
    /\ UNCHANGED <<answer, locks, dir, meddles, disturbed, stripped, published>>

\* Write and Close, on the open file, wherever its name has gone.
Writes(r) ==
    /\ pc[r] = "writing"
    /\ temp' = [temp EXCEPT ![r] = IF @ = "part" THEN "full" ELSE @]
    /\ Goes(r, "renaming")
    /\ UNCHANGED <<answer, locks, outside, meddles, history>>

\* The rename puts the schema over whatever file or link is there.
Renames(r) ==
    /\ pc[r] = "renaming" /\ temp[r] = "full"
    /\ file' = "schema"
    /\ temp' = [temp EXCEPT ![r] = "none"]
    /\ published' = [published EXCEPT ![ProviderOf[r]] = @ + 1]
    /\ stripped' = [stripped EXCEPT ![r] = {}]
    /\ Ends(r, "ok")
    /\ UNCHANGED <<locks, dir, meddles, disturbed, losses>>

\* Any call fails, a rename onto a directory among them; the file is untouched.
Fails(r) ==
    /\ pc[r] \in Section \ {"reading", "returning"}
    /\ Ends(r, "error")
    /\ UNCHANGED <<locks, temp, outside, meddles, history>>

\* The deferred functions: the temporary name goes, the lock is released.
Returns(r) ==
    /\ pc[r] = "returning"
    /\ temp' = [temp EXCEPT ![r] = "none"]
    /\ lock' = [lock EXCEPT ![r] = None]
    /\ Goes(r, "idle")
    /\ UNCHANGED <<answer, gate, outside, meddles, history>>

-----------------------------------------------------------------------------
(* Everybody else. *)

\* Another account: it can make the directory first, and does as it likes in one
\* it can write.
Stranger ==
    /\ \/ dir = "absent" /\ dir' = "unsafe" /\ UNCHANGED file
       \/ dir = "unsafe" /\ UNCHANGED dir /\ file' \in {"absent", "other", "obstacle"}
    /\ CountsLoss
    /\ UNCHANGED <<pc, answer, locks, temp, meddles, disturbed, stripped, published>>

\* The account itself: another program changes the file or the mode of the
\* directory, or the temporary directory is swept.
Meddles ==
    /\ meddles < MaxMeddles
    /\ meddles' = meddles + 1
    /\ \/ dir # "absent" /\ file' \in {"absent", "other", "obstacle"} /\ UNCHANGED <<dir, temp>>
       \/ dir = "private" /\ dir' = "unsafe" /\ UNCHANGED <<file, temp>>
       \/ dir' = "absent" /\ file' = "absent" /\ temp' = [r \in Runs |-> "none"]
    /\ CountsLoss
    /\ disturbed' = [r \in Runs |-> pc[r] # "idle" \/ answer[r] = "ok"]
    /\ UNCHANGED <<pc, answer, locks, stripped, published>>

\* The runs of some processes vanish where they are.
Die(ps) ==
    /\ meddles < MaxMeddles
    /\ meddles' = meddles + 1
    /\ pc' = [r \in Runs |-> IF ProcessOf(r) \in ps THEN "idle" ELSE pc[r]]
    /\ answer' = [r \in Runs |-> IF ProcessOf(r) \in ps THEN None ELSE answer[r]]
    /\ gate' = [v \in Providers |-> IF ProcOf[v] \in ps THEN None ELSE gate[v]]
    /\ lock' = [r \in Runs |-> IF ProcessOf(r) \in ps THEN None ELSE lock[r]]
    /\ temp' = [r \in Runs |-> IF ProcessOf(r) \in ps THEN "none" ELSE temp[r]]
    /\ disturbed' = [r \in Runs |-> disturbed[r] /\ ProcessOf(r) \notin ps]
    /\ stripped' = [r \in Runs |-> IF ProcessOf(r) \in ps THEN {} ELSE stripped[r]]
    /\ UNCHANGED published

Crash(p) == Die({p}) /\ UNCHANGED <<outside, losses>>

\* Nothing was flushed: the schema may be lost or torn.
PowerCut ==
    /\ Die(Procs)
    /\ \/ dir' = "absent" /\ file' = "absent"
       \/ UNCHANGED dir /\ file' \in IF file = "schema" THEN {"schema", "torn", "absent"}
                                      ELSE {file}
    /\ CountsLoss

-----------------------------------------------------------------------------
Step(r) ==
    \/ Begins(r) \/ Stores(r) \/ Locks(r) \/ MakesDir(r) \/ InspectsDir(r)
    \/ Finds(r) \/ Reads(r) \/ CannotRead(r) \/ Clears(r)
    \/ CreatesTemp(r) \/ Writes(r) \/ Renames(r) \/ Fails(r) \/ Returns(r)

Next ==
    \/ \E r \in Runs : Step(r)
    \/ \E p \in Procs : Crash(p)
    \/ Stranger \/ Meddles \/ PowerCut

Spec == Init /\ [][Next]_vars

-----------------------------------------------------------------------------
(* Properties. *)

\* Only a power cut leaves half a document under the name: "never a half-written
\* document" (codex/provider.go:454-457).
NeverHalfWritten ==
    [][file' = "torn" /\ file # "torn" => PowerCut]_vars

\* A run that was handed the path finds its schema there, whatever was there
\* before, whatever other accounts do and whichever calls failed, until its own
\* account interferes, or until a run of another provider value, in this process
\* or another, never of its own, clears away an obstacle it had seen
\* (codex/provider.go:66, 361-366, 384-394, 480-485).
ToldHolds ==
    \A r \in Runs : answer[r] = "ok" /\ ~disturbed[r] =>
        file = "schema" \/ stripped[r] \ {ProviderOf[r]} # {}

\* The runs of a provider value publish once between them, and again only when
\* the schema has gone from the name (codex/provider.go:374-376, 58-66).
WorkDoneOnce == \A v \in Providers : published[v] <= 1 + losses

-----------------------------------------------------------------------------
(* What the code's own words claim and its steps do not keep. *)

\* "Correctness across concurrent runs comes from publishing through a rename,
\* which is atomic and which converges whichever writer lands last, and that
\* holds between processes too" (codex/provider.go:60-63): no other run takes
\* the file from one that was handed its path.
PeersSpare ==
    \A r \in Runs : answer[r] = "ok" /\ ~disturbed[r] => file = "schema"
=============================================================================
