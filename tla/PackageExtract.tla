--------------------------- MODULE PackageExtract ---------------------------
(***************************************************************************)
(* What one codex install takes from the network and puts in its staging   *)
(* directory: Fetch, extract and writeFile (codex/release.go:127-138,      *)
(* 181-371).  The server serves what it likes; the archive, though its     *)
(* digest is pinned, is any sequence of headers.                           *)
(*                                                                         *)
(* A name is its components and whether it is absolute.  A file of the     *)
(* tree is its path below the target triple, its size and its execute bit. *)
(***************************************************************************)
EXTENDS Integers, Sequences, FiniteSets, SequencesExt

CONSTANTS
    Names,        \* the names a header may carry
    Sizes,        \* the sizes a header may declare
    MaxExtracted, \* maxExtractedBytes
    MaxEntries    \* bound: headers of an archive

ASSUME ExtractAssumption ==
    /\ \A n \in Names : n.abs \in BOOLEAN /\ n.parts \in Seq(STRING)
    /\ Sizes \subseteq Nat
    /\ MaxExtracted \in Nat /\ MaxEntries \in Nat

VARIABLES
    phase,      \* "fetching", "reading", "done" or "failed"
    triple,     \* the target directory read from the archive, <<>> before that
    budget,     \* bytes the archive may still expand to
    sawBinary,
    files, dirs,\* what is in the tree
    served,     \* history: what the server sent
    archive     \* history: the headers read so far

vars == <<phase, triple, budget, sawBinary, files, dirs, served, archive>>

Headers ==
    [name : Names, kind : {"file"}, size : Sizes, exec : BOOLEAN]
    \cup [name : Names, kind : {"dir", "link"}, size : {0}, exec : {FALSE}]

Init ==
    /\ phase = "fetching"
    /\ triple = <<>> /\ budget = MaxExtracted /\ sawBinary = FALSE
    /\ files = {} /\ dirs = {<<>>}
    /\ served = "nothing" /\ archive = <<>>

Failed ==
    /\ phase' = "failed"
    /\ UNCHANGED <<triple, budget, sawBinary, files, dirs>>

-----------------------------------------------------------------------------
(* Fetch. *)

\* The download, cut at the limit, is hashed whole before anything reads it.
Serves(bytes) ==
    /\ phase = "fetching"
    /\ served' = bytes
    /\ \/ bytes = "pinned" /\ phase' = "reading"
          /\ UNCHANGED <<triple, budget, sawBinary, files, dirs>>
       \/ bytes # "pinned" /\ Failed
    /\ UNCHANGED archive

\* No digest is pinned for the version, or the request fails.
FetchFails == phase = "fetching" /\ Failed /\ UNCHANGED <<served, archive>>

-----------------------------------------------------------------------------
(* Names. *)

\* Bug: a name is taken as it is spelt.
CleanNothing(name) == name.parts

\* path.Clean, a component at a time.
Step(path, c, abs) ==
    CASE c \in {"", "."} -> path
      [] c = ".." /\ path # <<>> /\ Last(path) # ".." -> Front(path)
      [] c = ".." /\ path = <<>> /\ abs -> path
      [] OTHER -> Append(path, c)

\* Where each component leads.
Way(parts, abs) ==
    LET at[i \in 0..Len(parts)] == IF i = 0 THEN <<>> ELSE Step(at[i - 1], parts[i], abs)
    IN  at

Clean(name) == Way(name.parts, name.abs)[Len(name.parts)]

Vendor == <<"package", "vendor">>

\* Bug: only a relative name can be outside.
OutsideUnrooted(name) == Clean(name) # <<>> /\ Head(Clean(name)) = ".."

Outside(name) == name.abs \/ (Clean(name) # <<>> /\ Head(Clean(name)) = "..")

\* The name has a part below a directory of the vendor directory.
InTarget(name) == IsPrefix(Vendor, Clean(name)) /\ Len(Clean(name)) > Len(Vendor) + 1

Target(name) == <<Clean(name)[Len(Vendor) + 1]>>
Inner(name) == SubSeq(Clean(name), Len(Vendor) + 2, Len(Clean(name)))

-----------------------------------------------------------------------------
(* extract and writeFile. *)

Paths(fs) == {f.path : f \in fs}
Parents(path) == {SubSeq(path, 1, n) : n \in 0..(Len(path) - 1)}

\* MkdirAll: no directory can be made where a file is.
CanMake(path) == (Parents(path) \cup {path}) \cap Paths(files) = {}

MakesDir(h) ==
    /\ h.kind = "dir" /\ CanMake(Inner(h.name))
    /\ dirs' = dirs \cup Parents(Inner(h.name)) \cup {Inner(h.name)}
    /\ UNCHANGED <<phase, budget, sawBinary, files>>

\* Bug: an entry is held to the whole budget, not to what is left of it.
WritesUncharged(h) ==
    /\ h.kind = "file" /\ h.size <= budget
    /\ LET path == Inner(h.name) IN
          /\ Parents(path) \cap Paths(files) = {} /\ path \notin Paths(files) \cup dirs
          /\ files' = files \cup {[path |-> path, size |-> h.size, exec |-> h.exec]}
          /\ dirs' = dirs \cup Parents(path)
          /\ sawBinary' = (sawBinary \/ path = <<"bin", "codex">>)
    /\ UNCHANGED <<phase, budget>>

\* Bug: a file that is there already is truncated and written again.
WritesOver(h) ==
    /\ h.kind = "file" /\ h.size <= budget
    /\ budget' = budget - h.size
    /\ LET path == Inner(h.name) IN
          /\ Parents(path) \cap Paths(files) = {} /\ path \notin dirs
          /\ files' = {f \in files : f.path # path}
                      \cup {[path |-> path, size |-> h.size, exec |-> h.exec]}
          /\ dirs' = dirs \cup Parents(path)
          /\ sawBinary' = (sawBinary \/ path = <<"bin", "codex">>)
    /\ UNCHANGED phase

\* The file is new, is charged to the budget and is as long as its header says.
\* A write that fails half way leaves a part of that file; Failed leaves it out.
Writes(h) ==
    /\ h.kind = "file" /\ h.size <= budget
    /\ budget' = budget - h.size
    /\ LET path == Inner(h.name) IN
          /\ Parents(path) \cap Paths(files) = {} /\ path \notin Paths(files) \cup dirs
          /\ files' = files \cup {[path |-> path, size |-> h.size, exec |-> h.exec]}
          /\ dirs' = dirs \cup Parents(path)
          /\ sawBinary' = (sawBinary \/ path = <<"bin", "codex">>)
    /\ UNCHANGED phase

\* An entry of the one target.
Unpacks(h) ==
    /\ triple \in {<<>>, Target(h.name)} /\ triple' = Target(h.name)
    /\ MakesDir(h) \/ Writes(h)

\* One turn of the loop: refused, skipped, unpacked, or failing half way.
Entry(h) ==
    /\ phase = "reading" /\ Len(archive) < MaxEntries
    /\ archive' = Append(archive, h)
    /\ \/ Outside(h.name) /\ Failed
       \/ /\ ~Outside(h.name) /\ ~InTarget(h.name)
          /\ UNCHANGED <<phase, triple, budget, sawBinary, files, dirs>>
       \/ ~Outside(h.name) /\ InTarget(h.name) /\ (Unpacks(h) \/ Failed)
    /\ UNCHANGED served

\* The archive ends, or cannot be read on.
Ends ==
    /\ phase = "reading"
    /\ phase' \in (IF sawBinary THEN {"done", "failed"} ELSE {"failed"})
    /\ UNCHANGED <<triple, budget, sawBinary, files, dirs, served, archive>>

Next ==
    \/ \E bytes \in {"pinned", "other", "truncated"} : Serves(bytes)
    \/ FetchFails
    \/ \E h \in Headers : Entry(h)
    \/ Ends

Spec == Init /\ [][Next]_vars

-----------------------------------------------------------------------------
(* Properties. *)

Wanted == {h \in ToSet(archive) : ~Outside(h.name) /\ InTarget(h.name)}

\* The first n components go up more often than down.
GoesAbove(parts, n) ==
    Cardinality({i \in 1..n : parts[i] = ".."})
        > Cardinality({i \in 1..n : parts[i] \notin {"", ".", ".."}})

\* On the way through the name, ".." goes above where it started.
Escapes(name) == name.abs \/ \E n \in 1..Len(name.parts) : GoesAbove(name.parts, n)

TypeOK ==
    /\ phase \in {"fetching", "reading", "done", "failed"}
    /\ triple = <<>> \/ Len(triple) = 1
    /\ budget \in 0..MaxExtracted
    /\ sawBinary \in BOOLEAN
    /\ served \in {"nothing", "pinned", "other", "truncated"}
    /\ archive \in Seq(Headers) /\ Len(archive) <= MaxEntries
    /\ \A f \in files : Parents(f.path) \subseteq dirs /\ f.path \notin dirs

\* However its names are spelt, an archive puts nothing outside the directory it
\* is expanded into (codex/release.go:225-229, 257-268, 286-291).
Confined ==
    \A path \in Paths(files) \cup dirs :
        /\ ".." \notin ToSet(path)
        /\ path = <<>> => path \notin Paths(files)

\* What is on disk at any moment stays within the limit, entry upon entry
\* (codex/release.go:70-74, 299-303).
WithinBudget == MapThenSumSet(LAMBDA f : f.size, files) <= MaxExtracted

\* An archive that was accepted is on disk in full and nothing else is: each of
\* its files once, with its size and its execute bit, and no other
\* (codex/release.go:215-224, 343-358).
Faithful ==
    phase = "done" =>
        /\ files = {[path |-> Inner(h.name), size |-> h.size, exec |-> h.exec] :
                       h \in {w \in Wanted : w.kind = "file"}}
        /\ \A i, j \in DOMAIN archive :
              (/\ {archive[i], archive[j]} \subseteq Wanted
               /\ archive[i].kind = "file" /\ archive[j].kind = "file"
               /\ Inner(archive[i].name) = Inner(archive[j].name)) => i = j

\* An archive is not accepted if any of its entries names a place outside, or if
\* an entry below a target's directory is anything but a file or a directory or
\* belongs to a second target, wherever it comes; nor one without the binary, nor
\* bytes the pin does not name (codex/release.go:81-98, 267-309).  Entries that are
\* nowhere below a target are skipped unread (270-278).
OnlyTheExpectedShape ==
    phase = "done" =>
        /\ served = "pinned"
        /\ \A h \in ToSet(archive) : ~Escapes(h.name)
        /\ \A h \in Wanted : h.kind # "link" /\ Target(h.name) = triple
        /\ <<"bin", "codex">> \in Paths(files)

=============================================================================
