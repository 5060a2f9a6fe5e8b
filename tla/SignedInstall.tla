---------------------------- MODULE SignedInstall ----------------------------
(***************************************************************************)
(* The Claude Code installer on disk and the trust it installs by: the     *)
(* release client (claudecode/release.go:120-294), the check of a detached *)
(* signature (claudecode/openpgp.go), and installOnce and Prune            *)
(* (claudecode/install.go:318-553), by several processes, against a server *)
(* that serves what it likes, with processes that die and power that fails.*)
(*                                                                         *)
(* The build of version v is v itself, 0 is any other file and Short a     *)
(* file whose end is missing.  A signature of the release key exists only  *)
(* over what Anthropic released; another key signs anything.               *)
(***************************************************************************)
EXTENDS Integers, FiniteSets, Sequences, SequencesExt

CONSTANTS
    Procs, Versions,
    PinOf,      \* the version each process would execute, and protects
    Keeps,      \* the values of keep that Prune is called with
    KeyFiles,   \* key blocks that could be embedded: sequences of packets
    Documents,  \* the manifests the server can serve
    Released,   \* those that Anthropic released
    Signatures, \* the signatures the server can serve
    Times,      \* the times a signature is checked at
    MaxCrashes, \* bound: crashes and power cuts
    None,
    Absent, Empty, Short \* no directory, one without a file, a file cut short

ASSUME SignedAssumption ==
    /\ {Absent, Empty, Short, None} \cap Nat = {} /\ Short \notin {Absent, Empty, None}
    /\ Versions \subseteq Nat \ {0} /\ IsFiniteSet(Versions)
    /\ PinOf \in [Procs -> Versions]
    /\ Keeps \subseteq Nat /\ MaxCrashes \in Nat /\ Times \subseteq Nat
    /\ Released \subseteq Documents
    /\ None \notin {"installed", "present", "failed", "blocked", "pruned"}
    /\ \A d \in Released : d.build \in {d.version, None}
    /\ \A s \in Signatures : s.by = "release" => s.over \in Released

VARIABLES
    key,        \* the key the release client checks against
    pc, ver, answer,
    manifest,   \* the document an install trusts
    staged,     \* what it has downloaded
    kept, doomed, \* of a Prune: keepSet, and what it has still to remove
    disk,       \* what is at <root>/<version>
    device,     \* what a power cut may leave there
    crashes,
    removed,    \* history: versions whose removal has begun
    promised,   \* history: versions an install has published and flushed
    spared      \* history: no Prune but the last was at work since that began,
                \* and that one found something usable

opVars == <<key, pc, ver, answer, manifest, staged, kept, doomed>>
diskVars == <<disk, device>>
history == <<removed, promised, spared>>
vars == <<opVars, diskVars, crashes, history>>

Files == Versions \cup {0, Short}
Usable(v) == disk[v] \notin {Absent, Empty}

TypeOK ==
    /\ key = "release"
    /\ pc \in [Procs -> {"idle", "asking", "staging", "downloading", "flushing", "publishing",
                         "colliding", "settling", "listing", "removing"}]
    /\ ver \in [Procs -> Versions]
    /\ answer \in [Procs -> {None, "installed", "present", "failed", "blocked", "pruned"}]
    /\ manifest \in [Procs -> Documents \cup {None}]
    /\ staged \in [Procs -> Files \cup {None}]
    /\ kept \in [Procs -> SUBSET Versions] /\ doomed \in [Procs -> SUBSET Versions]
    /\ \A p \in Procs : PinOf[p] \notin doomed[p]
    /\ disk \in [Versions -> Files \cup {Absent, Empty}]
    /\ device \in [Versions -> SUBSET (Files \cup {Absent, Empty})]
    /\ \A v \in Versions : disk[v] \in device[v]
    /\ crashes \in 0..MaxCrashes
    /\ removed \subseteq Versions /\ promised \subseteq Versions /\ spared \in BOOLEAN

-----------------------------------------------------------------------------
(* Whom to trust. *)

Primaries(file) == SelectSeq(file, LAMBDA p : p # "subkey")

\* Bug: the key block need only contain the release key.
ContainsKey(file) == "release" \in ToSet(file)

\* parsePublicKey and assertFingerprint: one primary key, and that one.
ReleaseKey(file) == Primaries(file) = <<"release">>

\* readSubpackets: a later subpacket replaces an earlier one.  What is critical
\* and not understood spoils the lot.
Subpackets(area) ==
    FoldLeft(LAMBDA m, s :
                 CASE s.type = "created" -> [m EXCEPT !.created = s.value]
                   [] s.type = "expires" -> [m EXCEPT !.expires = s.value]
                   [] s.type = "issuer" -> [m EXCEPT !.issuer = s.value]
                   [] OTHER -> [m EXCEPT !.ok = @ /\ ~s.critical],
             [ok |-> TRUE, created |-> None, expires |-> 0, issuer |-> None], area)

\* dearmor, readPackets and the fixed part: one whole v4 RSA signature of a
\* binary document with a strong hash.
WellFormed(sig) == sig.packets = <<"binary">>

\* Bug: a signature whose issuer subpacket names the key is enough.
VerifiedByName(doc, sig, now) ==
    /\ sig.over = doc
    /\ WellFormed(sig)
    /\ LET meta == Subpackets(sig.hashed) IN
          /\ meta.ok /\ meta.created # None
          /\ meta.issuer \in {None, key}
          /\ meta.expires = 0 \/ now <= meta.created + meta.expires

\* verifyDetached; a created of 0 is before the key's own.
Verified(doc, sig, now) ==
    /\ sig.over = doc /\ sig.by = key
    /\ WellFormed(sig)
    /\ LET meta == Subpackets(sig.hashed) IN
          /\ meta.ok /\ meta.created \notin {None, 0}
          /\ meta.expires = 0 \/ now <= meta.created + meta.expires
          /\ meta.issuer \in {None, key}

-----------------------------------------------------------------------------
(* installOnce. *)

Init ==
    /\ key \in {Head(Primaries(f)) : f \in {f \in KeyFiles : ReleaseKey(f)}}
    /\ pc = [p \in Procs |-> "idle"]
    /\ ver = PinOf
    /\ answer = [p \in Procs |-> None]
    /\ manifest = [p \in Procs |-> None] /\ staged = [p \in Procs |-> None]
    /\ kept = [p \in Procs |-> {}] /\ doomed = [p \in Procs |-> {}]
    /\ disk = [v \in Versions |-> Absent] /\ device = [v \in Versions |-> {Absent}]
    /\ crashes = 0
    /\ removed = {} /\ promised = {} /\ spared = FALSE

Goes(p, s) == pc' = [pc EXCEPT ![p] = s]

\* The operation returns; its staging directory is removed.
Returns(p, a) ==
    /\ Goes(p, "idle")
    /\ answer' = [answer EXCEPT ![p] = a]
    /\ manifest' = [manifest EXCEPT ![p] = None]
    /\ staged' = [staged EXCEPT ![p] = None]

BeginInstall(p, v) ==
    /\ pc[p] = "idle"
    /\ ver' = [ver EXCEPT ![p] = v]
    /\ \/ Usable(v) /\ answer' = [answer EXCEPT ![p] = "present"] /\ UNCHANGED pc
       \/ ~Usable(v) /\ answer' = [answer EXCEPT ![p] = None] /\ Goes(p, "asking")
    /\ UNCHANGED <<key, manifest, staged, kept, doomed, diskVars, crashes, history>>

\* The server has a signature for it, that holds when it is checked.
Vouched(doc) == \E sig \in Signatures, now \in Times : Verified(doc, sig, now)

\* Bug: a signed manifest of any version will do.
TrustsReplayed(p, doc) ==
    /\ pc[p] = "asking"
    /\ Vouched(doc)
    /\ manifest' = [manifest EXCEPT ![p] = doc]
    /\ Goes(p, "staging")
    /\ UNCHANGED <<key, ver, answer, staged, kept, doomed, diskVars, crashes, history>>

\* Manifest.
Trusts(p, doc) ==
    /\ pc[p] = "asking"
    /\ doc.version = ver[p] /\ Vouched(doc)
    /\ manifest' = [manifest EXCEPT ![p] = doc]
    /\ Goes(p, "staging")
    /\ UNCHANGED <<key, ver, answer, staged, kept, doomed, diskVars, crashes, history>>

\* MkdirAll of root and staging, MkdirTemp, and an executable file of no bytes.
Stages(p) ==
    /\ pc[p] = "staging"
    /\ staged' = [staged EXCEPT ![p] = Short]
    /\ Goes(p, "downloading")
    /\ UNCHANGED <<key, ver, answer, manifest, kept, doomed, diskVars, crashes, history>>

\* Download: the bytes are written whatever they are, and kept if the manifest
\* describes them for this platform.
Downloads(p, file) ==
    /\ pc[p] = "downloading"
    /\ file = manifest[p].build
    /\ staged' = [staged EXCEPT ![p] = file]
    /\ Goes(p, "flushing")
    /\ UNCHANGED <<key, ver, answer, manifest, kept, doomed, diskVars, crashes, history>>

\* The file and its directory are flushed.
Flushes(p) ==
    /\ pc[p] = "flushing"
    /\ Goes(p, "publishing")
    /\ UNCHANGED <<key, ver, answer, manifest, staged, kept, doomed, diskVars, crashes, history>>

\* Bug: the contents were not flushed before the rename.
RenamesUnflushed(p, v) ==
    /\ disk[v] = Absent
    /\ disk' = [disk EXCEPT ![v] = staged[p]]
    /\ device' = [device EXCEPT ![v] = @ \cup {Absent, Short, staged[p]}]
    /\ Goes(p, "settling")

\* The rename.  os.Rename refuses a directory that is there, an empty one too.
Renames(p, v) ==
    /\ disk[v] = Absent
    /\ disk' = [disk EXCEPT ![v] = staged[p]]
    /\ device' = [device EXCEPT ![v] = @ \cup {Absent, staged[p]}]
    /\ Goes(p, "settling")

Publish(p) ==
    /\ pc[p] = "publishing"
    /\ \/ Renames(p, ver[p])
       \/ disk[ver[p]] # Absent /\ Goes(p, "colliding") /\ UNCHANGED diskVars
    /\ UNCHANGED <<key, ver, answer, manifest, staged, kept, doomed, crashes, history>>

\* Bug: whatever stood in the way is reported as an error.
CollidesBlocked(p) ==
    /\ pc[p] = "colliding"
    /\ Returns(p, "blocked")
    /\ UNCHANGED <<key, ver, kept, doomed, diskVars, crashes, history>>

\* Something was in the way; by now it may have gone.
Collides(p) ==
    /\ pc[p] = "colliding"
    /\ Returns(p, IF Usable(ver[p]) THEN "present" ELSE "blocked")
    /\ UNCHANGED <<key, ver, kept, doomed, diskVars, crashes, history>>

\* Bug: the rename is not flushed.
SettlesNothing(p) ==
    /\ pc[p] = "settling"
    /\ promised' = promised \cup {ver[p]}
    /\ Returns(p, "installed")
    /\ UNCHANGED <<key, ver, kept, doomed, diskVars, crashes, removed, spared>>

\* syncDir(root): the entries of root, not what is inside one of them.
Settles(p) ==
    /\ pc[p] = "settling"
    /\ device' = [v \in Versions |->
                     CASE disk[v] = Absent -> {Absent}
                       [] disk[v] = Empty -> device[v]
                       [] OTHER -> device[v] \cap {disk[v], Short}]
    /\ promised' = promised \cup {ver[p]}
    /\ Returns(p, "installed")
    /\ UNCHANGED <<key, ver, kept, doomed, disk, crashes, removed, spared>>

\* A step fails: the server, a check, the disk, or the context.
Fails(p) ==
    /\ pc[p] \notin {"idle", "colliding", "listing", "removing"}
    /\ Returns(p, "failed")
    /\ UNCHANGED <<key, ver, kept, doomed, diskVars, crashes, history>>

-----------------------------------------------------------------------------
(* Prune. *)

Newest(S, n) == {v \in S : Cardinality({w \in S : w > v}) < n}

\* Bug: a keep of nothing keeps nothing.
KeepNumber(k) == k

\* At least one version is kept.
KeepAtLeast(k) == IF k < 1 THEN 1 ELSE k

\* Installed() is read.
BeginPrune(p, k) ==
    /\ pc[p] = "idle"
    /\ kept' = [kept EXCEPT ![p] = Newest({v \in Versions : Usable(v)}, KeepAtLeast(k))]
    /\ answer' = [answer EXCEPT ![p] = None]
    /\ spared' = ((\E v \in Versions : Usable(v))
                  /\ \A q \in Procs : pc[q] \notin {"listing", "removing"})
    /\ Goes(p, "listing")
    /\ UNCHANGED <<key, ver, manifest, staged, doomed, diskVars, crashes, removed, promised>>

\* versionDirs() is read, runnable or not.
ListsDirs(p) ==
    /\ pc[p] = "listing"
    /\ doomed' = [doomed EXCEPT ![p] = {v \in Versions : disk[v] # Absent}
                                         \ (kept[p] \cup {PinOf[p]})]
    /\ Goes(p, "removing")
    /\ UNCHANGED <<key, ver, answer, manifest, staged, kept, diskVars, crashes, history>>

\* RemoveAll empties the directory,
Unlinks(p, v) ==
    /\ pc[p] = "removing" /\ v \in doomed[p] /\ Usable(v)
    /\ disk' = [disk EXCEPT ![v] = Empty]
    /\ device' = [device EXCEPT ![v] = @ \cup {Empty}]
    /\ removed' = removed \cup {v}
    /\ UNCHANGED <<opVars, crashes, promised, spared>>

\* and removes it.
Removes(p, v) ==
    /\ pc[p] = "removing" /\ v \in doomed[p] /\ ~Usable(v)
    /\ disk' = [disk EXCEPT ![v] = Absent]
    /\ device' = [device EXCEPT ![v] = @ \cup {Absent}]
    /\ doomed' = [doomed EXCEPT ![p] = @ \ {v}]
    /\ removed' = removed \cup {v}
    /\ UNCHANGED <<key, pc, ver, answer, manifest, staged, kept, crashes, promised, spared>>

\* Prune returns: a listing or a RemoveAll may have failed.
Pruned(p) ==
    /\ pc[p] \in {"listing", "removing"}
    /\ Returns(p, IF pc[p] = "removing" /\ doomed[p] = {} THEN "pruned" ELSE "failed")
    /\ kept' = [kept EXCEPT ![p] = {}] /\ doomed' = [doomed EXCEPT ![p] = {}]
    /\ UNCHANGED <<key, ver, diskVars, crashes, history>>

-----------------------------------------------------------------------------
(* Faults. *)

\* Staging directories stay behind, and nothing looks at them again.
Die(dead) ==
    /\ crashes < MaxCrashes
    /\ crashes' = crashes + 1
    /\ pc' = [p \in Procs |-> IF p \in dead THEN "idle" ELSE pc[p]]
    /\ answer' = [p \in Procs |-> IF p \in dead THEN None ELSE answer[p]]
    /\ manifest' = [p \in Procs |-> IF p \in dead THEN None ELSE manifest[p]]
    /\ staged' = [p \in Procs |-> IF p \in dead THEN None ELSE staged[p]]
    /\ kept' = [p \in Procs |-> IF p \in dead THEN {} ELSE kept[p]]
    /\ doomed' = [p \in Procs |-> IF p \in dead THEN {} ELSE doomed[p]]
    /\ UNCHANGED <<key, ver, removed, promised>>

Crash(p) == pc[p] # "idle" /\ Die({p}) /\ UNCHANGED <<diskVars, spared>>

PowerCut ==
    /\ Die(Procs)
    /\ disk' \in {d \in [Versions -> UNION {device[v] : v \in Versions}] :
                     \A v \in Versions : d[v] \in device[v]}
    /\ device' = [v \in Versions |-> {disk'[v]}]
    /\ spared' = FALSE

Step(p) ==
    \/ \E v \in Versions : BeginInstall(p, v) \/ Unlinks(p, v) \/ Removes(p, v)
    \/ \E doc \in Documents : Trusts(p, doc)
    \/ \E file \in Files : Downloads(p, file)
    \/ Stages(p) \/ Flushes(p) \/ Publish(p) \/ Collides(p) \/ Settles(p) \/ Fails(p)
    \/ \E k \in Keeps : BeginPrune(p, k)
    \/ ListsDirs(p) \/ Pruned(p) \/ Crash(p)

Next == (\E p \in Procs : Step(p)) \/ PowerCut

Spec == Init /\ [][Next]_vars

-----------------------------------------------------------------------------
(* Properties. *)

\* What can be run as a version is, byte for byte, what Anthropic released as
\* that version, whatever the server served, whoever lost a race and whenever
\* the power failed (claudecode/install.go:38-39, 215-218, 371-375;
\* claudecode/release.go:181-218).
Authentic == \A v \in Versions : Usable(v) => disk[v] = v

\* A version every process is pinned to, once an install has published and
\* flushed it, stays (claudecode/install.go:411, 432-437, 475-503).
PinStays ==
    \A v \in promised : (\A p \in Procs : PinOf[p] = v) => disk[v] = v

\* An install that found something in its way and then nothing to run has met a
\* removal; what an interrupted install leaves never turns one away
\* (claudecode/install.go:394-408).
BlockedByARemoval ==
    \A p \in Procs : answer[p] = "blocked" => ver[p] \in removed

\* A Prune that found something to run leaves something to run, however little it
\* was asked to keep and whatever installs beside it, unless another Prune is at
\* work as well (claudecode/install.go:438-502).
PruneLeavesSome == spared => \E v \in Versions : Usable(v)
=============================================================================
