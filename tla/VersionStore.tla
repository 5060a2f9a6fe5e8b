---------------------------- MODULE VersionStore ----------------------------
(***************************************************************************)
(* The directory of installed versions, shared by every process that uses  *)
(* the same providers root: installOnce, sweepStaging and Prune            *)
(* (codex/install.go:352-446, 481-633), with processes that die and power  *)
(* that fails between any two steps.                                       *)
(*                                                                         *)
(* A tree is the set of its Parts that are there: the binary, and all the  *)
(* rest.  <root>/<version> and a process's staged tree each hold a set of  *)
(* parts, or None where there is no directory.  A process does one         *)
(* operation at a time; two goroutines of one process are two processes    *)
(* here, for nothing below depends on memory they share.                   *)
(***************************************************************************)
EXTENDS Integers, FiniteSets

CONSTANTS
    Procs,      \* the processes
    Versions,   \* the versions, as numbers in semver order
    PinOf,      \* the version each process would execute, and protects
    Keeps,      \* the values of keep that Prune is called with
    Lifetime,   \* stagingLifetime, in ticks
    MaxTicks,   \* bound: ticks of the clock
    MaxCrashes, \* bound: crashes and power cuts
    None        \* no answer, no directory, nothing in hand

Parts == {"binary", "rest"}

\* What there can be at a path: nothing, or a directory with some of the parts.
Trees == {None} \cup SUBSET Parts

\* What Install returns, of a version; any other error is no answer.
Answers == {"installed", "present", "blocked"} \X Versions

ASSUME StoreAssumption ==
    /\ None \notin Procs \cup Versions
    /\ \A t \in Answers \cup SUBSET Parts : t # None
    /\ Procs \cap Versions = {}
    /\ Versions \subseteq Nat /\ IsFiniteSet(Versions)
    /\ PinOf \in [Procs -> Versions]
    /\ Keeps \subseteq Nat
    /\ Lifetime \in Nat \ {0}
    /\ MaxTicks \in Nat /\ MaxCrashes \in Nat

VARIABLES
    pc,         \* where each process is in its operation
    ver,        \* the version it installs
    answer,     \* what its last operation returned
    kept,       \* Prune's keepSet
    doomed,     \* the directories Prune has still to remove
    disk,       \* what is at <root>/<version>
    solid,      \* its contents are on the device
    settled,    \* its entry in <root>, as it stands, is on the device
    staging,    \* a process's staging directory exists
    age,        \* its age, by its mtime
    tree,       \* the tree staged in it
    todo,       \* the parts of it that extract has still to write
    spent,      \* how long the process has been extracting
    prey,       \* what a process's sweep is removing: the staging directory of
                \* a process, or the tree it had open when that was published
    orphans,    \* ages of staging directories no process owns
    ticks, crashes,
    robbed,     \* history: a sweep set upon the directory a process has now
    tainted,    \* history: versions published from such a directory
    removed,    \* history: versions a Prune has begun to remove
    promised    \* history: versions an Install published and flushed

opVars == <<pc, ver, answer>>
pruneVars == <<kept, doomed>>
diskVars == <<disk, solid, settled>>
stageVars == <<staging, age, tree, todo, spent>>
sweepVars == <<prey, orphans>>
boundVars == <<ticks, crashes>>
history == <<robbed, tainted, removed, promised>>
vars == <<opVars, pruneVars, diskVars, stageVars, sweepVars, boundVars, history>>

Extracting == {"extracting", "publishing"}

TypeOK ==
    /\ pc \in [Procs -> {"idle", "sweeping", "fetching", "settling", "listing", "removing"}
                         \cup Extracting]
    /\ ver \in [Procs -> {None} \cup Versions]
    /\ \A p \in Procs : pc[p] \in {"idle", "listing", "removing"} <=> ver[p] = None
    /\ answer \in [Procs -> {None} \cup Answers]
    /\ kept \in [Procs -> SUBSET Versions]
    /\ doomed \in [Procs -> SUBSET Versions]
    /\ \A p \in Procs : PinOf[p] \notin doomed[p] /\ (pc[p] # "removing" => doomed[p] = {})
    /\ disk \in [Versions -> Trees]
    /\ solid \in [Versions -> BOOLEAN]
    /\ settled \in [Versions -> BOOLEAN]
    /\ staging \in [Procs -> BOOLEAN]
    /\ age \in [Procs -> 0..Lifetime]
    /\ tree \in [Procs -> Trees]
    /\ todo \in [Procs -> SUBSET Parts]
    /\ spent \in [Procs -> 0..MaxTicks]
    /\ prey \in [Procs -> Procs \cup Versions \cup {None}]
    /\ orphans \subseteq 0..Lifetime
    /\ ticks \in 0..MaxTicks
    /\ crashes \in 0..MaxCrashes
    /\ robbed \in [Procs -> BOOLEAN]
    /\ tainted \subseteq Versions
    /\ removed \subseteq Versions
    /\ promised \subseteq Versions

Init ==
    /\ pc = [p \in Procs |-> "idle"]
    /\ ver = [p \in Procs |-> None]
    /\ answer = [p \in Procs |-> None]
    /\ kept = [p \in Procs |-> {}]
    /\ doomed = [p \in Procs |-> {}]
    /\ disk = [v \in Versions |-> None]
    /\ solid = [v \in Versions |-> FALSE]
    /\ settled = [v \in Versions |-> TRUE]
    /\ staging = [p \in Procs |-> FALSE]
    /\ age = [p \in Procs |-> 0]
    /\ tree = [p \in Procs |-> None]
    /\ todo = [p \in Procs |-> {}]
    /\ spent = [p \in Procs |-> 0]
    /\ prey = [p \in Procs |-> None]
    /\ orphans = {}
    /\ ticks = 0 /\ crashes = 0
    /\ robbed = [p \in Procs |-> FALSE]
    /\ tainted = {} /\ removed = {} /\ promised = {}

\* usable: what Installed lists and Path can hand out.
Usable(v) == disk[v] # None /\ "binary" \in disk[v]

\* A version directory that misses something.
Damaged(v) == disk[v] \notin {None, Parts}

\* The n newest of a set of versions.
Newest(S, n) == {v \in S : Cardinality({w \in S : w > v}) < n}

Goes(p, s) == pc' = [pc EXCEPT ![p] = s]

\* The staging directories of these processes are gone, or no longer theirs.
Clears(ps) ==
    /\ staging' = [p \in Procs |-> staging[p] /\ p \notin ps]
    /\ age' = [p \in Procs |-> IF p \in ps THEN 0 ELSE age[p]]
    /\ tree' = [p \in Procs |-> IF p \in ps THEN None ELSE tree[p]]
    /\ todo' = [p \in Procs |-> IF p \in ps THEN {} ELSE todo[p]]
    /\ spent' = [p \in Procs |-> IF p \in ps THEN 0 ELSE spent[p]]
    /\ robbed' = [p \in Procs |-> robbed[p] /\ p \notin ps]
    /\ prey' = [q \in Procs |-> IF q \in ps \/ prey[q] \in ps THEN None ELSE prey[q]]

\* The operation returns; deferred functions remove its staging directory.
Returns(p, a) ==
    /\ Goes(p, "idle")
    /\ ver' = [ver EXCEPT ![p] = None]
    /\ answer' = [answer EXCEPT ![p] = a]
    /\ Clears({p})

-----------------------------------------------------------------------------
(* installOnce. *)

\* The version is there, or a staging directory is made for it.
BeginInstall(p, v) ==
    /\ pc[p] = "idle"
    /\ \/ /\ Usable(v)
          /\ answer' = [answer EXCEPT ![p] = <<"present", v>>]
          /\ UNCHANGED <<pc, ver, staging>>
       \/ /\ ~Usable(v)
          /\ answer' = [answer EXCEPT ![p] = None]
          /\ ver' = [ver EXCEPT ![p] = v]
          /\ staging' = [staging EXCEPT ![p] = TRUE]
          /\ Goes(p, "sweeping")
    /\ UNCHANGED <<pruneVars, diskVars, age, tree, todo, spent, sweepVars, boundVars, history>>

\* sweepStaging reads the age of a directory, whoever owns it, and finds it old.
\* (It looks at an entry once; a second look is that of another sweep.)
Looks(q, p) ==
    /\ pc[q] = "sweeping" /\ prey[q] = None
    /\ staging[p] /\ age[p] >= Lifetime
    /\ prey' = [prey EXCEPT ![q] = p]
    /\ robbed' = [robbed EXCEPT ![p] = TRUE]
    /\ UNCHANGED <<opVars, pruneVars, diskVars, stageVars, orphans, boundVars, tainted, removed,
                   promised>>

\* Its RemoveAll, whatever the owner does meanwhile: a part of the tree at a
\* time, then the tree's directory, and last the staging directory, which stays
\* if the owner puts something into it first.
Loots(q, p) ==
    /\ pc[q] = "sweeping" /\ prey[q] = p /\ staging[p]
    /\ \/ /\ tree[p] # None
          /\ \E x \in tree[p] : tree' = [tree EXCEPT ![p] = @ \ {x}]
          /\ UNCHANGED <<staging, age, prey>>
       \/ /\ tree[p] \in {None, {}}
          /\ tree' = [tree EXCEPT ![p] = None]
          /\ age' = [age EXCEPT ![p] = 0]
          /\ staging' \in {[staging EXCEPT ![p] = b] : b \in {FALSE, tree[p] # None}}
          /\ prey' = [prey EXCEPT ![q] = None]
    /\ UNCHANGED <<opVars, pruneVars, diskVars, todo, spent, orphans, boundVars, history>>

\* It has directories of the tree open, and these have been published since: it
\* goes on removing what is in them.
Gnaws(q, v) ==
    /\ pc[q] = "sweeping" /\ prey[q] = v
    /\ disk[v] # None
    /\ \E x \in disk[v] : disk' = [disk EXCEPT ![v] = @ \ {x}]
    /\ settled' = [settled EXCEPT ![v] = FALSE]
    /\ UNCHANGED <<opVars, pruneVars, solid, stageVars, sweepVars, boundVars, history>>

\* Its RemoveAll ends, with an error or with nothing left to remove.
Drops(q) ==
    /\ pc[q] = "sweeping" /\ prey[q] # None
    /\ prey' = [prey EXCEPT ![q] = None]
    /\ UNCHANGED <<opVars, pruneVars, diskVars, stageVars, orphans, boundVars, history>>

\* It removes the old directories that no process owns.
SweepsOrphans(q) ==
    /\ pc[q] = "sweeping" /\ prey[q] = None
    /\ Lifetime \in orphans
    /\ orphans' = orphans \ {Lifetime}
    /\ UNCHANGED <<opVars, pruneVars, diskVars, stageVars, prey, boundVars, history>>

\* The sweep is over; CreateTemp stamps the process's own directory.
Swept(p) ==
    /\ pc[p] = "sweeping" /\ prey[p] = None
    /\ staging[p]
    /\ age' = [age EXCEPT ![p] = 0]
    /\ Goes(p, "fetching")
    /\ UNCHANGED <<ver, answer, pruneVars, diskVars, staging, tree, todo, spent, sweepVars,
                   boundVars, history>>

\* Bug: the directory of the tree is made before the download, not after it.
FetchedUnstamped(p) ==
    /\ pc[p] = "fetching" /\ staging[p]
    /\ tree' = [tree EXCEPT ![p] = {}]
    /\ todo' = [todo EXCEPT ![p] = Parts]
    /\ Goes(p, "extracting")
    /\ UNCHANGED <<ver, answer, pruneVars, diskVars, staging, age, spent, sweepVars, boundVars,
                   history>>

\* release.Fetch succeeds; Mkdir of the tree stamps the staging directory.
Fetched(p) ==
    /\ pc[p] = "fetching" /\ staging[p]
    /\ tree' = [tree EXCEPT ![p] = {}]
    /\ todo' = [todo EXCEPT ![p] = Parts]
    /\ age' = [age EXCEPT ![p] = 0]
    /\ Goes(p, "extracting")
    /\ UNCHANGED <<ver, answer, pruneVars, diskVars, staging, spent, sweepVars, boundVars, history>>

\* extract writes a part of the tree.  MkdirAll makes every directory that is
\* missing on the way to it, the staging directory included.
Extracts(p, x) ==
    /\ pc[p] = "extracting" /\ x \in todo[p]
    /\ todo' = [todo EXCEPT ![p] = @ \ {x}]
    /\ tree' = [tree EXCEPT ![p] = IF @ = None THEN {x} ELSE @ \cup {x}]
    /\ staging' = [staging EXCEPT ![p] = TRUE]
    /\ age' = [age EXCEPT ![p] = IF tree[p] = None THEN 0 ELSE @]
    /\ UNCHANGED <<opVars, pruneVars, diskVars, spent, sweepVars, boundVars, history>>

\* extract has returned, and syncStaged flushes every directory of the tree that
\* is there; writeFile flushed the files.
Flushed(p) ==
    /\ pc[p] = "extracting" /\ todo[p] = {}
    /\ tree[p] # None
    /\ Goes(p, "publishing")
    /\ UNCHANGED <<ver, answer, pruneVars, diskVars, stageVars, sweepVars, boundVars, history>>

\* The staged tree takes effect at <root>/<version>, where nothing is.  A sweep
\* at work on the staging directory may have the tree open.
TreeMoves(p, v) ==
    /\ tree[p] # None /\ disk[v] = None
    /\ disk' = [disk EXCEPT ![v] = tree[p]]
    /\ settled' = [settled EXCEPT ![v] = FALSE]
    /\ tree' = [tree EXCEPT ![p] = None]
    /\ age' = [age EXCEPT ![p] = 0]
    /\ tainted' = IF robbed[p] THEN tainted \cup {v} ELSE tainted
    /\ \E open \in SUBSET {q \in Procs : prey[q] = p} :
          prey' = [q \in Procs |-> IF q \in open THEN v ELSE prey[q]]
    /\ Goes(p, "settling")
    /\ UNCHANGED <<ver, answer, pruneVars, staging, todo, spent, orphans, boundVars, robbed,
                   removed, promised>>

\* Bug: only the root of the tree was flushed before the rename.
RenamesUnflushed(p, v) == TreeMoves(p, v) /\ solid' = [solid EXCEPT ![v] = FALSE]

\* The rename.
Renames(p, v) == TreeMoves(p, v) /\ solid' = [solid EXCEPT ![v] = TRUE]

\* Bug: losing the race is an error.
CollidesBlocked(p, v) ==
    /\ tree[p] # None /\ disk[v] # None
    /\ Returns(p, <<"blocked", v>>)
    /\ UNCHANGED <<pruneVars, diskVars, orphans, boundVars, tainted, removed, promised>>

\* Something is there: another process's copy, or debris.
Collides(p, v) ==
    /\ tree[p] # None /\ disk[v] # None
    /\ Returns(p, <<IF Usable(v) THEN "present" ELSE "blocked", v>>)
    /\ UNCHANGED <<pruneVars, diskVars, orphans, boundVars, tainted, removed, promised>>

Publish(p) ==
    /\ pc[p] = "publishing"
    /\ Renames(p, ver[p]) \/ Collides(p, ver[p])

\* Bug: the result is reported without flushing the rename.
SettlesUnflushed(p) ==
    /\ pc[p] = "settling"
    /\ promised' = promised \cup {ver[p]}
    /\ Returns(p, <<"installed", ver[p]>>)
    /\ UNCHANGED <<pruneVars, diskVars, orphans, boundVars, tainted, removed>>

\* syncDir(root), and the result.  It flushes the entries of root, and nothing
\* inside a directory from which parts were removed.
Settle(p) ==
    /\ pc[p] = "settling"
    /\ settled' = [v \in Versions |-> settled[v] \/ ~Damaged(v)]
    /\ promised' = promised \cup {ver[p]}
    /\ Returns(p, <<"installed", ver[p]>>)
    /\ UNCHANGED <<pruneVars, disk, solid, orphans, boundVars, tainted, removed>>

\* Any step returns an error; after the rename the version stays published.
Fails(p) ==
    /\ pc[p] \in {"sweeping", "fetching", "settling"} \cup Extracting
    /\ prey[p] = None
    /\ Returns(p, None)
    /\ UNCHANGED <<pruneVars, diskVars, orphans, boundVars, tainted, removed, promised>>

-----------------------------------------------------------------------------
(* Prune.  The provider protects the version it would execute. *)

\* Installed() is read, and the versions to keep chosen from it.
BeginPrune(p, k) ==
    /\ pc[p] = "idle"
    /\ kept' = [kept EXCEPT ![p] = Newest({v \in Versions : Usable(v)}, IF k < 1 THEN 1 ELSE k)]
    /\ answer' = [answer EXCEPT ![p] = None]
    /\ Goes(p, "listing")
    /\ UNCHANGED <<ver, doomed, diskVars, stageVars, sweepVars, boundVars, history>>

\* Bug: what is not among the newest goes, pinned or not.
ListDirsUnprotected(p) ==
    /\ pc[p] = "listing"
    /\ doomed' = [doomed EXCEPT ![p] = {v \in Versions : disk[v] # None} \ kept[p]]
    /\ kept' = [kept EXCEPT ![p] = {}]
    /\ Goes(p, "removing")
    /\ UNCHANGED <<ver, answer, diskVars, stageVars, sweepVars, boundVars, history>>

\* versionDirs() is read, later, runnable or not.
ListDirs(p) ==
    /\ pc[p] = "listing"
    /\ doomed' = [doomed EXCEPT ![p] = {v \in Versions : disk[v] # None}
                                         \ (kept[p] \cup {PinOf[p]})]
    /\ kept' = [kept EXCEPT ![p] = {}]
    /\ Goes(p, "removing")
    /\ UNCHANGED <<ver, answer, diskVars, stageVars, sweepVars, boundVars, history>>

\* RemoveAll unlinks a part, in the order the directory gives.
Unlinks(p, v) ==
    /\ pc[p] = "removing" /\ v \in doomed[p]
    /\ disk[v] # None
    /\ \E x \in disk[v] : disk' = [disk EXCEPT ![v] = @ \ {x}]
    /\ settled' = [settled EXCEPT ![v] = FALSE]
    /\ removed' = removed \cup {v}
    /\ UNCHANGED <<opVars, pruneVars, solid, stageVars, sweepVars, boundVars, robbed, tainted,
                   promised>>

\* RemoveAll returns nil: the directory is gone, by this hand or another's.
Removes(p, v) ==
    /\ pc[p] = "removing" /\ v \in doomed[p]
    /\ disk[v] \in {None, {}}
    /\ disk' = [disk EXCEPT ![v] = None]
    /\ settled' = [settled EXCEPT ![v] = @ /\ disk[v] = None]
    /\ solid' = [solid EXCEPT ![v] = FALSE]
    /\ doomed' = [doomed EXCEPT ![p] = @ \ {v}]
    /\ prey' = [q \in Procs |-> IF prey[q] = v THEN None ELSE prey[q]]
    /\ removed' = removed \cup {v}
    /\ UNCHANGED <<opVars, kept, stageVars, orphans, boundVars, robbed, tainted, promised>>

\* Prune returns: when it is done, or when the listing or a RemoveAll fails.
Pruned(p) ==
    /\ pc[p] \in {"listing", "removing"}
    /\ doomed' = [doomed EXCEPT ![p] = {}]
    /\ kept' = [kept EXCEPT ![p] = {}]
    /\ Goes(p, "idle")
    /\ UNCHANGED <<ver, answer, diskVars, stageVars, sweepVars, boundVars, history>>

-----------------------------------------------------------------------------
(* Faults and time. *)

\* Every staging directory grows older, and so does every extraction.
Tick ==
    /\ ticks < MaxTicks
    /\ ticks' = ticks + 1
    /\ age' = [p \in Procs |-> IF staging[p] /\ age[p] < Lifetime THEN age[p] + 1 ELSE age[p]]
    /\ spent' = [p \in Procs |-> IF pc[p] \in Extracting THEN spent[p] + 1 ELSE spent[p]]
    /\ orphans' = {IF a < Lifetime THEN a + 1 ELSE a : a \in orphans}
    /\ UNCHANGED <<opVars, pruneVars, diskVars, staging, tree, todo, prey, crashes, history>>

\* The processes of a set die where they are, leaving their staging directories.
Die(dead) ==
    /\ crashes < MaxCrashes
    /\ crashes' = crashes + 1
    /\ pc' = [p \in Procs |-> IF p \in dead THEN "idle" ELSE pc[p]]
    /\ ver' = [p \in Procs |-> IF p \in dead THEN None ELSE ver[p]]
    /\ answer' = [p \in Procs |-> IF p \in dead THEN None ELSE answer[p]]
    /\ kept' = [p \in Procs |-> IF p \in dead THEN {} ELSE kept[p]]
    /\ doomed' = [p \in Procs |-> IF p \in dead THEN {} ELSE doomed[p]]
    /\ orphans' = orphans \cup {age[p] : p \in {q \in dead : staging[q]}}
    /\ Clears(dead)
    /\ UNCHANGED <<ticks, tainted, removed, promised>>

Crash(p) == pc[p] # "idle" /\ Die({p}) /\ UNCHANGED diskVars

\* What a power cut may leave of a version.  An entry that was not flushed may
\* be lost; one that survives may precede contents that were not flushed; a
\* removal that was not flushed may be undone in part.
AfterCut(v) ==
    IF settled[v] THEN {disk[v]}
    ELSE IF disk[v] = Parts THEN {None, IF solid[v] THEN Parts ELSE {}}
    ELSE Trees

PowerCut ==
    /\ Die(Procs)
    /\ disk' \in {d \in [Versions -> Trees] : \A v \in Versions : d[v] \in AfterCut(v)}
    /\ settled' = [v \in Versions |-> TRUE]
    /\ UNCHANGED solid

-----------------------------------------------------------------------------
Installs(p) ==
    \/ \E v \in Versions : BeginInstall(p, v)
    \/ Swept(p) \/ Fetched(p)
    \/ \E x \in Parts : Extracts(p, x)
    \/ Flushed(p) \/ Publish(p) \/ Settle(p) \/ Fails(p)

Sweeps(q) ==
    \/ \E p \in Procs : Looks(q, p) \/ Loots(q, p)
    \/ \E v \in Versions : Gnaws(q, v)
    \/ Drops(q) \/ SweepsOrphans(q)

Prunes(p) ==
    \/ \E k \in Keeps : BeginPrune(p, k)
    \/ ListDirs(p)
    \/ \E v \in Versions : Unlinks(p, v) \/ Removes(p, v)
    \/ Pruned(p)

Step(p) == Installs(p) \/ Sweeps(p) \/ Prunes(p) \/ Crash(p)

Next == (\E p \in Procs : Step(p)) \/ Tick \/ PowerCut

Spec == Init /\ [][Next]_vars

-----------------------------------------------------------------------------
(* Properties. *)

\* Through races, crashes and power cuts, a version directory holds its whole
\* tree unless a Prune set out to remove it, or a sweep set upon the staging
\* directory it was published from (codex/install.go:57-64, 408-417).
DamageHasACause ==
    \A v \in Versions : Damaged(v) => v \in removed \cup tainted

PinnedByAll(v) == \A p \in Procs : PinOf[p] = v

\* A version that every process is pinned to, published from a directory that
\* no sweep took for abandoned, is there for good once an Install has reported
\* it: no Prune, race, crash or power cut takes it away; and a process that was
\* told it is present has it as long as it runs, flushed or not
\* (codex/install.go:354, 430, 441, 548, 622-627).
PinStays ==
    \A v \in Versions \ tainted : PinnedByAll(v) =>
        \/ disk[v] = Parts
        \/ v \notin promised /\ \A p \in Procs : answer[p] # <<"present", v>>

\* An install is turned away from a directory that holds no usable binary only
\* if a removal or a sweep left it so; a process that merely lost the race to
\* publish is told the version is present (codex/install.go:417-439).
BlockedOnlyByDebris ==
    \A p \in Procs, v \in Versions : answer[p] = <<"blocked", v>> => v \in removed \cup tainted

\* The sweep takes a directory in which a live process is extracting for an
\* abandoned one only if the extraction has lasted a lifetime, however long the
\* download before it took and whatever was recreated in it since
\* (codex/install.go:28-34, 515-522).
LiveIsSpared ==
    [][\A q, p \in Procs : Looks(q, p) /\ pc[p] \in Extracting => spent[p] >= Lifetime]_vars

-----------------------------------------------------------------------------
(* The inductive invariants: StoreInv, and StampedAnew for the sweep.        *)

\* No extraction is older than the clock.
SpentInTime == \A p \in Procs : spent[p] <= ticks

\* What a sweep has in hand is marked as such.
PreyIsMarked ==
    \A q \in Procs :
        /\ prey[q] \in Procs => robbed[prey[q]]
        /\ prey[q] \in Versions => prey[q] \in tainted

\* A staged tree that no sweep set upon is what extract has written of it.
IntactUnlessRobbed ==
    \A p \in Procs : pc[p] \in Extracting /\ ~robbed[p] =>
        /\ tree[p] = Parts \ todo[p]
        /\ pc[p] = "publishing" => todo[p] = {}

\* Where neither a removal nor a sweep has passed, what is not flushed is whole,
\* and what is whole was flushed when it was published: a power cut can spoil
\* nothing else.
OnlyRemovalUnsettles ==
    \A v \in Versions \ (removed \cup tainted) :
        /\ ~settled[v] => disk[v] = Parts
        /\ disk[v] = Parts => solid[v]

\* A version everybody is pinned to stays from the rename on, and its entry is
\* on the device from the flush on.
PinIsHeld ==
    \A v \in Versions \ tainted : PinnedByAll(v) =>
        /\ v \in promised => disk[v] = Parts /\ settled[v]
        /\ \A p \in Procs :
              (pc[p] = "settling" /\ ver[p] = v) \/ answer[p] = <<"present", v>> => disk[v] = Parts
        /\ v \notin removed

StoreInv ==
    /\ TypeOK
    /\ SpentInTime
    /\ PreyIsMarked
    /\ IntactUnlessRobbed
    /\ DamageHasACause
    /\ OnlyRemovalUnsettles
    /\ PinIsHeld
    /\ BlockedOnlyByDebris

\* A staging directory, stamped anew when its extraction begins, is never older
\* than the extraction: behind LiveIsSpared.
StampedAnew ==
    \A p \in Procs : pc[p] \in Extracting => age[p] <= spent[p]

=============================================================================
