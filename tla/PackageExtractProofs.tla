------------------------- MODULE PackageExtractProofs -------------------------
(***************************************************************************)
(* Proofs about PackageExtract for any names, any sizes and archives of    *)
(* any length: nothing lands outside the directory, the tree stays within  *)
(* the limit, and an archive that is accepted has the expected shape and   *)
(* is on disk in full.                                                     *)
(***************************************************************************)
EXTENDS PackageExtract, FiniteSetTheorems, SequenceTheorems, WellFoundedInduction, TLAPS

\* Every nonempty set of numbers has a least element.
LEMMA Least ==
    ASSUME NEW S \in SUBSET Nat, S # {}
    PROVE  \E n \in S : \A m \in S : n <= m
  <1>1. IsWellFoundedOn(OpToRel(<, Nat), Nat)
    BY NatLessThanWellFounded
  <1>2. \E n \in S : \A m \in S : ~(<<m, n>> \in OpToRel(<, Nat))
    BY <1>1, WFMin
  <1>3. PICK n \in S : \A m \in S : ~(<<m, n>> \in OpToRel(<, Nat))
    BY <1>2
  <1>4. \A m \in S : ~(m < n)
    BY <1>3 DEF OpToRel
  <1>5. \A m \in S : n <= m
    BY <1>4
  <1> QED
    BY <1>5

\* Induction over the numbers, a set at a time.
LEMMA Inductive ==
    ASSUME NEW S, 0 \in S, \A n \in Nat : n \in S => n + 1 \in S
    PROVE  Nat \subseteq S
  <1> SUFFICES ASSUME Nat \ S # {} PROVE FALSE
    OBVIOUS
  <1>1. PICK n \in Nat \ S : \A m \in Nat \ S : n <= m
    BY Least
  <1>2. n # 0 /\ n - 1 \in Nat
    BY <1>1
  <1>3. n - 1 \in S
    BY <1>1, <1>2
  <1>4. n \in S
    BY <1>2, <1>3, (n - 1) + 1 = n
  <1> QED
    BY <1>1, <1>4

-----------------------------------------------------------------------------
(* What the files of a tree add up to: inductions over a finite set. *)

Total(fs) == MapThenSumSet(LAMBDA f : f.size, fs)
Pick(s) == CHOOSE f \in s : TRUE

\* g adds up the sets of D, an element at a time.
Sums(g, D) == g = [s \in D |-> IF s = {} THEN 0 ELSE Pick(s).size + g[s \ {Pick(s)}]]

\* Some function adds up every subset of a finite set.
LEMMA SumsExist ==
    ASSUME NEW U, IsFiniteSet(U)
    PROVE  \E g : Sums(g, SUBSET U)
  <1> DEFINE Upto(n) == {s \in SUBSET U : Cardinality(s) <= n}
             S == {n \in Nat : \E g : Sums(g, Upto(n))}
  <1>1. \A s \in SUBSET U : IsFiniteSet(s) /\ Cardinality(s) \in Nat /\ Cardinality(s) <= Cardinality(U)
    BY FS_Subset, FS_CardinalityType
  <1>2. 0 \in S
    <2> DEFINE g == [s \in Upto(0) |-> 0]
    <2>1. \A s \in Upto(0) : s = {}
      BY <1>1, FS_EmptySet
    <2>2. Sums(g, Upto(0))
      BY <2>1 DEF Sums
    <2> HIDE DEF g
    <2> QED
      BY <2>2
  <1>3. ASSUME NEW n \in Nat, n \in S PROVE n + 1 \in S
    <2>1. PICK g : Sums(g, Upto(n))
      BY <1>3
    <2> DEFINE next == [s \in Upto(n + 1) |-> IF s = {} THEN 0 ELSE Pick(s).size + g[s \ {Pick(s)}]]
    <2>2. \A s \in Upto(n) : s \in Upto(n + 1) /\ next[s] = g[s]
      <3> SUFFICES ASSUME NEW s \in Upto(n) PROVE s \in Upto(n + 1) /\ next[s] = g[s]
        OBVIOUS
      <3>1. s \in Upto(n + 1)
        BY <1>1
      <3>2. g[s] = IF s = {} THEN 0 ELSE Pick(s).size + g[s \ {Pick(s)}]
        BY <2>1 DEF Sums
      <3> QED
        BY <3>1, <3>2
    <2>3. \A s \in Upto(n + 1) : s # {} => s \ {Pick(s)} \in Upto(n)
      <3> SUFFICES ASSUME NEW s \in Upto(n + 1), s # {} PROVE s \ {Pick(s)} \in Upto(n)
        OBVIOUS
      <3>1. Pick(s) \in s
        BY DEF Pick
      <3>2. Cardinality(s \ {Pick(s)}) = Cardinality(s) - 1
        BY <1>1, <3>1, FS_RemoveElement
      <3> QED
        BY <1>1, <3>2
    <2> HIDE DEF Upto
    <2>4. \A s \in Upto(n + 1) : next[s] = IF s = {} THEN 0 ELSE Pick(s).size + next[s \ {Pick(s)}]
      BY <2>2, <2>3
    <2>5. next = [s \in Upto(n + 1) |-> next[s]]
      OBVIOUS
    <2> HIDE DEF next
    <2>6. Sums(next, Upto(n + 1))
      BY <2>4, <2>5 DEF Sums
    <2> QED
      BY <2>6
  <1> HIDE DEF S
  <1>4. Nat \subseteq S
    BY <1>2, <1>3, Inductive
  <1>5. Cardinality(U) \in S
    BY <1>4, FS_CardinalityType
  <1>6. Upto(Cardinality(U)) = SUBSET U
    BY <1>1
  <1> HIDE DEF Upto
  <1>7. \E g : Sums(g, Upto(Cardinality(U)))
    BY <1>5 DEF S
  <1> QED
    BY <1>6, <1>7

\* A total is the same whatever larger set its elements are counted in.
LEMMA TotalSums ==
    ASSUME NEW U, IsFiniteSet(U), NEW g, Sums(g, SUBSET U), NEW fs \in SUBSET U
    PROVE  Total(fs) = g[fs]
  <1>1. IsFiniteSet(fs)
    BY FS_Subset
  <1>2. \E h : Sums(h, SUBSET fs)
    BY <1>1, SumsExist
  <1>3. PICK h : Sums(h, SUBSET fs) /\ Total(fs) = h[fs]
    BY <1>2 DEF Total, MapThenSumSet, MapThenFoldSet, Pick, Sums
  <1> DEFINE S == {n \in Nat : \A s \in SUBSET fs : Cardinality(s) <= n => h[s] = g[s]}
  <1>4. \A s \in SUBSET fs : IsFiniteSet(s) /\ Cardinality(s) \in Nat
    BY <1>1, FS_Subset, FS_CardinalityType
  <1>5. \A s \in SUBSET fs : /\ h[s] = IF s = {} THEN 0 ELSE Pick(s).size + h[s \ {Pick(s)}]
                             /\ g[s] = IF s = {} THEN 0 ELSE Pick(s).size + g[s \ {Pick(s)}]
    <2> TAKE s \in SUBSET fs
    <2>1. s \in SUBSET U
      OBVIOUS
    <2>2. h[s] = IF s = {} THEN 0 ELSE Pick(s).size + h[s \ {Pick(s)}]
      BY <1>3 DEF Sums
    <2>3. g[s] = IF s = {} THEN 0 ELSE Pick(s).size + g[s \ {Pick(s)}]
      BY <2>1 DEF Sums
    <2> QED
      BY <2>2, <2>3
  <1>6. 0 \in S
    <2>1. \A s \in SUBSET fs : Cardinality(s) <= 0 => s = {}
      BY <1>4, FS_EmptySet
    <2> QED
      BY <1>5, <2>1
  <1>7. ASSUME NEW n \in Nat, n \in S PROVE n + 1 \in S
    <2> SUFFICES ASSUME NEW s \in SUBSET fs, Cardinality(s) <= n + 1, s # {} PROVE h[s] = g[s]
      <3>1. h[{}] = g[{}]
        BY <1>5
      <3> QED
        BY <3>1
    <2>1. Pick(s) \in s
      BY DEF Pick
    <2>2. Cardinality(s \ {Pick(s)}) = Cardinality(s) - 1
      BY <1>4, <2>1, FS_RemoveElement
    <2>3. s \ {Pick(s)} \in SUBSET fs /\ Cardinality(s \ {Pick(s)}) <= n
      BY <1>4, <2>2
    <2>4. h[s \ {Pick(s)}] = g[s \ {Pick(s)}]
      BY <1>7, <2>3
    <2> QED
      BY <1>5, <2>4
  <1> HIDE DEF S
  <1>8. Cardinality(fs) \in S
    BY <1>1, <1>6, <1>7, Inductive, FS_CardinalityType
  <1> QED
    BY <1>3, <1>4, <1>8 DEF S

\* A new file adds its size, whichever file is picked first.
LEMMA TotalAdds ==
    ASSUME NEW fs, IsFiniteSet(fs), \A f \in fs : f.size \in Nat,
           NEW f, f \notin fs, f.size \in Nat
    PROVE  Total(fs \cup {f}) = Total(fs) + f.size
  <1> DEFINE U == fs \cup {f}
  <1>1. IsFiniteSet(U) /\ \A x \in U : x.size \in Nat
    BY FS_AddElement
  <1> HIDE DEF U
  <1>2. PICK g : Sums(g, SUBSET U)
    BY <1>1, SumsExist
  <1> DEFINE Adds(s) == g[s] \in Nat /\ \A x \in U \ s : g[s \cup {x}] = g[s] + x.size
             S == {n \in Nat : \A s \in SUBSET U : Cardinality(s) = n => Adds(s)}
  <1>3. \A s \in SUBSET U : IsFiniteSet(s) /\ Cardinality(s) \in Nat
    BY <1>1, FS_Subset, FS_CardinalityType
  <1>4. \A s \in SUBSET U : g[s] = IF s = {} THEN 0 ELSE Pick(s).size + g[s \ {Pick(s)}]
    BY <1>2 DEF Sums
  <1>5. 0 \in S
    <2>1. g[{}] = 0
      BY <1>4
    <2>2. ASSUME NEW x \in U PROVE g[{} \cup {x}] = g[{}] + x.size
      <3>1. Pick({x}) = x
        BY DEF Pick
      <3>2. g[{x}] = x.size + g[{x} \ {x}]
        BY <1>4, <3>1
      <3>3. {x} \ {x} = {} /\ {} \cup {x} = {x} /\ x.size \in Nat
        BY <1>1
      <3>4. g[{x}] = x.size + 0
        BY <2>1, <3>2, <3>3
      <3> QED
        BY <2>1, <3>3, <3>4
    <2>3. Adds({})
      BY <2>1, <2>2
    <2>4. \A s \in SUBSET U : Cardinality(s) = 0 => s = {}
      BY <1>3, FS_EmptySet
    <2> HIDE DEF Adds
    <2> QED
      BY <2>3, <2>4
  <1>6. ASSUME NEW n \in Nat, n \in S PROVE n + 1 \in S
    <2> SUFFICES ASSUME NEW s \in SUBSET U, Cardinality(s) = n + 1 PROVE Adds(s)
      OBVIOUS
    <2>1. \A y \in s : s \ {y} \in SUBSET U /\ Cardinality(s \ {y}) = n
      BY <1>3, FS_RemoveElement
    <2>2. \A y \in s : Adds(s \ {y})
      BY <1>6, <2>1
    <2>3. \A y \in s : g[s \ {y}] \in Nat /\ g[s] = g[s \ {y}] + y.size
      <3> TAKE y \in s
      <3>1. y \in U \ (s \ {y}) /\ (s \ {y}) \cup {y} = s
        OBVIOUS
      <3> QED
        BY <2>2, <3>1
    <2>4. s # {}
      BY <1>3, FS_EmptySet
    <2>5. g[s] \in Nat
      <3>1. PICK y : y \in s
        BY <2>4
      <3>2. y.size \in Nat /\ g[s \ {y}] \in Nat /\ g[s] = g[s \ {y}] + y.size
        BY <1>1, <2>3, <3>1
      <3> QED
        BY <3>2
    <2>6. ASSUME NEW x \in U \ s PROVE g[s \cup {x}] = g[s] + x.size
      <3> DEFINE t == s \cup {x}
                 y == Pick(t)
      <3>1. y \in t
        BY DEF Pick
      <3> HIDE DEF y
      <3>2. g[t] = y.size + g[t \ {y}]
        BY <1>4 DEF y
      <3>3. CASE y = x
        <4>1. t \ {y} = s
          BY <3>3
        <4> QED
          BY <1>1, <2>5, <3>2, <3>3, <4>1
      <3>4. CASE y # x
        <4>1. y \in s /\ t \ {y} = (s \ {y}) \cup {x} /\ x \in U \ (s \ {y})
          BY <3>1, <3>4
        <4>2. g[t \ {y}] = g[s \ {y}] + x.size
          BY <2>2, <4>1
        <4>3. g[s] = g[s \ {y}] + y.size /\ g[s \ {y}] \in Nat
          BY <2>3, <4>1
        <4> QED
          BY <1>1, <3>2, <4>1, <4>2, <4>3
      <3> QED
        BY <3>3, <3>4
    <2> QED
      BY <2>5, <2>6
  <1> HIDE DEF S
  <1>7. Cardinality(fs) \in S
    BY <1>5, <1>6, Inductive, FS_CardinalityType
  <1>8. fs \in SUBSET U /\ f \in U \ fs /\ fs \cup {f} \in SUBSET U
    BY DEF U
  <1>9. g[fs \cup {f}] = g[fs] + f.size
    BY <1>7, <1>8 DEF S
  <1>10. Total(fs) = g[fs] /\ Total(fs \cup {f}) = g[fs \cup {f}]
    BY <1>1, <1>2, <1>8, TotalSums
  <1> QED
    BY <1>9, <1>10

LEMMA NothingAddsUpToNothing == Total({}) = 0
  <1>1. IsFiniteSet({})
    BY FS_EmptySet
  <1>2. PICK g : Sums(g, SUBSET {})
    BY <1>1, SumsExist
  <1>3. g[{}] = 0
    BY <1>2 DEF Sums
  <1> QED
    BY <1>1, <1>2, <1>3, TotalSums

-----------------------------------------------------------------------------
(* Names: inductions over the components of one. *)

\* Some function walks the components as far as one likes.
LEMMA WayExists ==
    ASSUME NEW parts, Len(parts) \in Nat, NEW abs
    PROVE  \E at : at = [i \in 0..Len(parts) |-> IF i = 0 THEN <<>> ELSE Step(at[i - 1], parts[i], abs)]
  <1> DEFINE Walks(at, n) == at = [i \in 0..n |-> IF i = 0 THEN <<>> ELSE Step(at[i - 1], parts[i], abs)]
             S == {n \in Nat : \E at : Walks(at, n)}
  <1>1. 0 \in S
    <2> DEFINE at == [i \in 0..0 |-> <<>>]
    <2>1. Walks(at, 0)
      OBVIOUS
    <2> HIDE DEF at
    <2> QED
      BY <2>1
  <1>2. ASSUME NEW n \in Nat, n \in S PROVE n + 1 \in S
    <2>1. PICK at : Walks(at, n)
      BY <1>2
    <2> DEFINE next == [i \in 0..(n + 1) |-> IF i = 0 THEN <<>> ELSE Step(at[i - 1], parts[i], abs)]
    <2>2. \A i \in 0..n : next[i] = at[i]
      <3> TAKE i \in 0..n
      <3>1. at[i] = IF i = 0 THEN <<>> ELSE Step(at[i - 1], parts[i], abs)
        BY <2>1
      <3>2. i \in 0..(n + 1)
        OBVIOUS
      <3> QED
        BY <3>1, <3>2
    <2>3. \A i \in 0..(n + 1) : i # 0 => i - 1 \in 0..n
      OBVIOUS
    <2>4. \A i \in 0..(n + 1) : next[i] = IF i = 0 THEN <<>> ELSE Step(at[i - 1], parts[i], abs)
      OBVIOUS
    <2>5. next = [i \in 0..(n + 1) |-> next[i]]
      OBVIOUS
    <2> HIDE DEF next
    <2>6. \A i \in 0..(n + 1) : next[i] = IF i = 0 THEN <<>> ELSE Step(next[i - 1], parts[i], abs)
      BY <2>2, <2>3, <2>4
    <2>7. Walks(next, n + 1)
      BY <2>5, <2>6
    <2> QED
      BY <2>7
  <1> HIDE DEF S
  <1>3. Len(parts) \in S
    BY <1>1, <1>2, Inductive
  <1> QED
    BY <1>3 DEF S

\* The way through a name goes from nowhere, a component at a time.
LEMMA WaySteps ==
    ASSUME NEW parts, Len(parts) \in Nat, NEW abs
    PROVE  /\ Way(parts, abs)[0] = <<>>
           /\ \A i \in 1..Len(parts) : Way(parts, abs)[i] = Step(Way(parts, abs)[i - 1], parts[i], abs)
  <1> DEFINE at == Way(parts, abs)
  <1>1. at = [i \in 0..Len(parts) |-> IF i = 0 THEN <<>> ELSE Step(at[i - 1], parts[i], abs)]
    <2>1. \E f : f = [i \in 0..Len(parts) |-> IF i = 0 THEN <<>> ELSE Step(f[i - 1], parts[i], abs)]
      BY WayExists
    <2> QED
      BY <2>1, Zenon DEF Way
  <1> HIDE DEF at
  <1>2. at[0] = <<>> /\ \A i \in 1..Len(parts) : at[i] = Step(at[i - 1], parts[i], abs)
    BY <1>1
  <1> QED
    BY <1>2 DEF at

\* A path whose first k components, and no others, go up.
Climbs(path, k) ==
    /\ path \in Seq(STRING) /\ k \in 0..Len(path)
    /\ \A j \in 1..Len(path) : path[j] = ".." <=> j <= k

\* What a component is worth: a level up, none, or a level down.
Worth(c) == CASE c = ".." -> -1 [] c \in {"", "."} -> 0 [] OTHER -> 1

\* What Append does, whatever the components are.
LEMMA AppendIs ==
    ASSUME NEW S, NEW path \in Seq(S), NEW c \in S
    PROVE  /\ Append(path, c) \in Seq(S) /\ Len(Append(path, c)) = Len(path) + 1
           /\ \A j \in 1..Len(path) : Append(path, c)[j] = path[j]
           /\ Append(path, c)[Len(path) + 1] = c
  OBVIOUS

\* A step never takes back a level up, and of a relative name it changes the depth
\* by what the component is worth.
LEMMA StepClimbs ==
    ASSUME NEW path, NEW k, Climbs(path, k), NEW c \in STRING, NEW abs \in BOOLEAN
    PROVE  \E m \in Nat :
              /\ Climbs(Step(path, c, abs), m) /\ k <= m
              /\ ~abs => Len(Step(path, c, abs)) - 2 * m = Len(path) - 2 * k + Worth(c)
  <1> DEFINE p == Step(path, c, abs)
             Good(m) == /\ Climbs(p, m) /\ k <= m
                        /\ ~abs => Len(p) - 2 * m = Len(path) - 2 * k + Worth(c)
  <1> HIDE DEF p
  <1> SUFFICES \E m \in Nat : Good(m)
    BY DEF p
  <1>1. path \in Seq(STRING) /\ k \in Nat /\ k <= Len(path) /\ Len(path) \in Nat
    BY DEF Climbs
  <1>2. CASE c \in {"", "."}
    <2>1. p = path /\ Worth(c) = 0
      BY <1>2 DEF Step, Worth, p
    <2>2. Good(k)
      BY <1>1, <2>1
    <2> QED
      BY <1>1, <2>2
  <1>3. CASE c = ".." /\ path # <<>> /\ Last(path) # ".."
    <2>1. p = Front(path) /\ Worth(c) = -1
      BY <1>3 DEF Step, Worth, p
    <2>2. Len(path) >= 1
      BY <1>1, <1>3
    <2>3. k < Len(path)
      BY <1>1, <1>3, <2>2 DEF Climbs, Last
    <2>4. /\ p \in Seq(STRING) /\ Len(p) = Len(path) - 1
          /\ \A j \in 1..Len(p) : p[j] = path[j]
      <3>1. p = SubSeq(path, 1, Len(path) - 1)
        BY <2>1 DEF Front
      <3>2. \A j \in 1..(Len(path) - 1) : path[j] \in STRING
        BY <1>1
      <3>3. Len(path) - 1 \in Nat
        BY <1>1, <2>2
      <3>4. /\ SubSeq(path, 1, Len(path) - 1) \in Seq(STRING)
            /\ Len(SubSeq(path, 1, Len(path) - 1)) = Len(path) - 1
            /\ \A j \in 1..(Len(path) - 1) : SubSeq(path, 1, Len(path) - 1)[j] = path[j]
        <4> DEFINE n == Len(path) - 1
        <4>1. n \in Nat /\ 1 \in Int /\ \A j \in 1..n : path[j] \in STRING
          BY <3>2, <3>3
        <4> HIDE DEF n
        <4>2. /\ SubSeq(path, 1, n) \in Seq(STRING)
              /\ Len(SubSeq(path, 1, n)) = IF 1 <= n THEN n - 1 + 1 ELSE 0
              /\ \A j \in 1..(n - 1 + 1) : SubSeq(path, 1, n)[j] = path[1 + j - 1]
          BY <4>1, SubSeqProperties
        <4>3. Len(SubSeq(path, 1, n)) = n
          BY <4>1, <4>2
        <4>4. \A j \in 1..n : j \in 1..(n - 1 + 1) /\ 1 + j - 1 = j
          BY <4>1
        <4>5. \A j \in 1..n : SubSeq(path, 1, n)[j] = path[j]
          BY <4>2, <4>4
        <4> QED
          BY <4>2, <4>3, <4>5 DEF n
      <3> QED
        BY <3>1, <3>4
    <2>5. Climbs(p, k)
      BY <1>1, <2>3, <2>4 DEF Climbs
    <2>6. Good(k)
      BY <1>1, <2>1, <2>4, <2>5
    <2> QED
      BY <1>1, <2>6
  <1>4. CASE c = ".." /\ path = <<>> /\ abs
    <2>1. p = path
      BY <1>4 DEF Step, p
    <2>2. Good(k)
      BY <1>1, <1>4, <2>1
    <2> QED
      BY <1>1, <2>2
  <1>5. CASE c = ".." /\ ((path = <<>> /\ ~abs) \/ (path # <<>> /\ Last(path) = ".."))
    <2>1. p = Append(path, c) /\ Worth(c) = -1
      BY <1>5 DEF Step, Worth, p
    <2>2. k = Len(path)
      BY <1>1, <1>5 DEF Climbs, Last
    <2>3. /\ p \in Seq(STRING) /\ Len(p) = Len(path) + 1
          /\ \A j \in 1..Len(path) : p[j] = path[j]
          /\ p[Len(path) + 1] = ".."
      BY <1>1, <1>5, <2>1
    <2>4. Climbs(p, k + 1)
      BY <1>1, <2>2, <2>3 DEF Climbs
    <2>5. Len(p) - 2 * (k + 1) = Len(path) - 2 * k + Worth(c)
      BY <1>1, <2>1, <2>3
    <2>6. Good(k + 1) /\ k + 1 \in Nat
      <3>1. k <= k + 1 /\ k + 1 \in Nat
        BY <1>1
      <3> QED
        BY <2>4, <2>5, <3>1
    <2> QED
      BY <2>6
  <1>6. CASE c \notin {"", ".", ".."}
    <2>1. p = Append(path, c) /\ Worth(c) = 1
      BY <1>6 DEF Step, Worth, p
    <2>2. /\ p \in Seq(STRING) /\ Len(p) = Len(path) + 1
          /\ \A j \in 1..Len(path) : p[j] = path[j]
          /\ p[Len(path) + 1] = c
      <3>1. c \in STRING
        OBVIOUS
      <3>2. /\ Append(path, c) \in Seq(STRING) /\ Len(Append(path, c)) = Len(path) + 1
            /\ \A j \in 1..Len(path) : Append(path, c)[j] = path[j]
            /\ Append(path, c)[Len(path) + 1] = c
        BY <1>1, <3>1, AppendIs
      <3> QED
        BY <2>1, <3>2
    <2>3. Climbs(p, k)
      <3>1. \A j \in 1..Len(path) : path[j] = ".." <=> j <= k
        BY DEF Climbs
      <3>2. \A j \in 1..Len(p) : p[j] = ".." <=> j <= k
        <4> TAKE j \in 1..Len(p)
        <4>1. CASE j = Len(path) + 1
          <5>1. p[j] # ".." /\ ~(j <= k)
            <6>1. p[j] = c
              BY <2>2, <4>1
            <6>2. c # ".."
              BY <1>6
            <6>3. ~(j <= k)
              BY <1>1, <4>1
            <6> QED
              BY <6>1, <6>2, <6>3
          <5> QED
            BY <5>1
        <4>2. CASE j # Len(path) + 1
          BY <1>1, <2>2, <3>1, <4>2
        <4> QED
          BY <4>1, <4>2
      <3> QED
        BY <1>1, <2>2, <3>2 DEF Climbs
    <2>4. Good(k)
      BY <1>1, <2>1, <2>2, <2>3
    <2> QED
      BY <1>1, <2>4
  <1> QED
    BY <1>2, <1>3, <1>4, <1>5, <1>6

Ups(parts, n) == Cardinality({i \in 1..n : parts[i] = ".."})
Downs(parts, n) == Cardinality({i \in 1..n : parts[i] \notin {"", ".", ".."}})

\* A component more counts for what it is worth.
LEMMA Counts ==
    ASSUME NEW parts, NEW n \in Nat
    PROVE  /\ Ups(parts, n) \in Nat /\ Downs(parts, n) \in Nat
           /\ Ups(parts, 0) = 0 /\ Downs(parts, 0) = 0
           /\ Downs(parts, n + 1) - Ups(parts, n + 1) = Downs(parts, n) - Ups(parts, n) + Worth(parts[n + 1])
  <1> DEFINE U(m) == {i \in 1..m : parts[i] = ".."}
             D(m) == {i \in 1..m : parts[i] \notin {"", ".", ".."}}
  <1>1. ASSUME NEW m \in Nat
        PROVE  IsFiniteSet(U(m)) /\ IsFiniteSet(D(m)) /\ Cardinality(U(m)) \in Nat /\ Cardinality(D(m)) \in Nat
    <2>1. IsFiniteSet(1..m)
      BY FS_Interval
    <2>2. U(m) \in SUBSET (1..m) /\ D(m) \in SUBSET (1..m)
      OBVIOUS
    <2> QED
      BY <2>1, <2>2, FS_Subset, FS_CardinalityType
  <1>2. U(0) = {} /\ D(0) = {}
    OBVIOUS
  <1>3. U(n + 1) = (IF parts[n + 1] = ".." THEN U(n) \cup {n + 1} ELSE U(n)) /\ n + 1 \notin U(n)
    OBVIOUS
  <1>4. D(n + 1) = (IF parts[n + 1] \notin {"", ".", ".."} THEN D(n) \cup {n + 1} ELSE D(n)) /\ n + 1 \notin D(n)
    <2>1. \A i : i \in 1..(n + 1) <=> i \in 1..n \/ i = n + 1
      OBVIOUS
    <2>2. n + 1 \notin 1..n
      OBVIOUS
    <2> QED
      BY <2>1, <2>2
  <1> HIDE DEF U, D
  <1>5. Cardinality(U(n + 1)) = IF parts[n + 1] = ".." THEN Cardinality(U(n)) + 1 ELSE Cardinality(U(n))
    BY <1>1, <1>3, FS_AddElement
  <1>6. Cardinality(D(n + 1)) = IF parts[n + 1] \notin {"", ".", ".."} THEN Cardinality(D(n)) + 1
                                ELSE Cardinality(D(n))
    BY <1>1, <1>4, FS_AddElement
  <1>7. \A m : Ups(parts, m) = Cardinality(U(m)) /\ Downs(parts, m) = Cardinality(D(m))
    BY DEF Ups, Downs, U, D
  <1>8. Cardinality(U(0)) = 0 /\ Cardinality(D(0)) = 0
    BY <1>2, FS_EmptySet
  <1>9. Cardinality(D(n + 1)) - Cardinality(U(n + 1)) = Cardinality(D(n)) - Cardinality(U(n)) + Worth(parts[n + 1])
    <2>1. /\ Cardinality(U(n)) \in Nat /\ Cardinality(D(n)) \in Nat
          /\ Cardinality(U(n + 1)) \in Nat /\ Cardinality(D(n + 1)) \in Nat
      BY <1>1
    <2>2. CASE parts[n + 1] = ".."
      <3>1. Worth(parts[n + 1]) = -1
        BY <2>2 DEF Worth
      <3> QED
        BY <1>5, <1>6, <2>1, <2>2, <3>1
    <2>3. CASE parts[n + 1] \in {"", "."}
      <3>1. Worth(parts[n + 1]) = 0
        BY <2>3 DEF Worth
      <3> QED
        <4>1. /\ Cardinality(U(n + 1)) = Cardinality(U(n))
              /\ Cardinality(D(n + 1)) = Cardinality(D(n))
          BY <1>5, <1>6, <2>3
        <4> QED
          BY <2>1, <3>1, <4>1
    <2>4. CASE parts[n + 1] \notin {"", ".", ".."}
      <3>1. Worth(parts[n + 1]) = 1
        BY <2>4 DEF Worth
      <3> QED
        <4>1. /\ Cardinality(U(n + 1)) = Cardinality(U(n))
              /\ Cardinality(D(n + 1)) = Cardinality(D(n)) + 1
          BY <1>5, <1>6, <2>4
        <4> QED
          BY <2>1, <3>1, <4>1
    <2> QED
      BY <2>2, <2>3, <2>4
  <1> QED
    BY <1>1, <1>7, <1>8, <1>9

\* Where n components of a name lead: up some levels, then down; of a relative name
\* as deep as they are worth.
LEMMA WayClimbs ==
    ASSUME NEW name \in Names, NEW n \in 0..Len(name.parts)
    PROVE  \E k \in Nat :
              /\ Climbs(Way(name.parts, name.abs)[n], k)
              /\ ~name.abs => Len(Way(name.parts, name.abs)[n]) - 2 * k = Downs(name.parts, n) - Ups(name.parts, n)
  <1> DEFINE parts == name.parts
             At(m) == \E k \in Nat :
                         /\ Climbs(Way(name.parts, name.abs)[m], k)
                         /\ ~name.abs => Len(Way(name.parts, name.abs)[m]) - 2 * k = Downs(parts, m) - Ups(parts, m)
             S == {m \in Nat : m <= Len(parts) => At(m)}
  <1>1. parts \in Seq(STRING) /\ Len(parts) \in Nat /\ name.abs \in BOOLEAN
    BY ExtractAssumption
  <1>2. 0 \in S
    <2>1. Way(name.parts, name.abs)[0] = <<>>
      BY <1>1, WaySteps
    <2>2. Climbs(<<>>, 0) /\ Len(<<>>) = 0
      BY DEF Climbs
    <2>3. Downs(parts, 0) - Ups(parts, 0) = 0
      BY Counts
    <2>4. Len(Way(name.parts, name.abs)[0]) - 2 * 0 = Downs(parts, 0) - Ups(parts, 0)
      BY <2>1, <2>2, <2>3
    <2> QED
      BY <2>1, <2>2, <2>4
  <1>3. ASSUME NEW m \in Nat, m \in S PROVE m + 1 \in S
    <2>0. SUFFICES ASSUME m + 1 <= Len(parts) PROVE At(m + 1)
      <3> HIDE DEF At
      <3> QED
        OBVIOUS
    <2>7. At(m)
      <3> HIDE DEF At
      <3>1. m <= Len(parts)
        BY <1>1, <2>0
      <3> QED
        BY <1>3, <3>1
    <2> DEFINE p == Way(name.parts, name.abs)[m]
               q == Way(name.parts, name.abs)[m + 1]
               c == parts[m + 1]
    <2>1. PICK k \in Nat : Climbs(p, k) /\ (~name.abs => Len(p) - 2 * k = Downs(parts, m) - Ups(parts, m))
      BY <2>7
    <2>2. q = Step(p, c, name.abs)
      <3>1. m + 1 \in 1..Len(parts) /\ (m + 1) - 1 = m
        BY <1>1, <2>0
      <3> QED
        BY <1>1, <3>1, WaySteps
    <2>3. c \in STRING
      BY <1>1, <2>0
    <2>4. Downs(parts, m + 1) - Ups(parts, m + 1) = Downs(parts, m) - Ups(parts, m) + Worth(c)
      BY Counts
    <2> HIDE DEF p, q, c
    <2>5. PICK j \in Nat : /\ Climbs(q, j)
                           /\ ~name.abs => Len(q) - 2 * j = Len(p) - 2 * k + Worth(c)
      BY <1>1, <2>1, <2>2, <2>3, StepClimbs
    <2>6. ~name.abs => Len(q) - 2 * j = Downs(parts, m + 1) - Ups(parts, m + 1)
      BY <2>1, <2>4, <2>5
    <2> QED
      BY <2>5, <2>6 DEF q
  <1> HIDE DEF S
  <1>4. Nat \subseteq S
    BY <1>2, <1>3, Inductive
  <1>5. n \in S /\ n <= Len(parts)
    BY <1>1, <1>4
  <1> HIDE DEF At
  <1>6. At(n)
    BY <1>5 DEF S
  <1> QED
    BY <1>6 DEF At

\* A way that has gone up stays up.
LEMMA UpStaysUp ==
    ASSUME NEW name \in Names, NEW n \in 0..Len(name.parts),
           NEW k \in Nat, Climbs(Way(name.parts, name.abs)[n], k), k > 0
    PROVE  \E j \in Nat : j > 0 /\ Climbs(Clean(name), j)
  <1> DEFINE parts == name.parts
             S == {m \in Nat : n + m <= Len(parts) => \E j \in Nat : j > 0 /\ Climbs(Way(name.parts, name.abs)[n + m], j)}
  <1>1. parts \in Seq(STRING) /\ Len(parts) \in Nat /\ name.abs \in BOOLEAN /\ n \in Nat
    BY ExtractAssumption
  <1>2. 0 \in S
    BY <1>1, n + 0 = n
  <1>3. ASSUME NEW m \in Nat, m \in S PROVE m + 1 \in S
    <2> SUFFICES ASSUME n + (m + 1) <= Len(parts)
                 PROVE  \E j \in Nat : j > 0 /\ Climbs(Way(name.parts, name.abs)[n + (m + 1)], j)
      OBVIOUS
    <2>1. PICK j \in Nat : j > 0 /\ Climbs(Way(name.parts, name.abs)[n + m], j)
      BY <1>1, <1>3
    <2>2. n + (m + 1) \in 1..Len(parts) /\ (n + (m + 1)) - 1 = n + m
      BY <1>1
    <2>3. Way(name.parts, name.abs)[n + (m + 1)] = Step(Way(name.parts, name.abs)[n + m], parts[n + (m + 1)], name.abs)
      BY <1>1, <2>2, WaySteps
    <2>4. parts[n + (m + 1)] \in STRING
      BY <1>1, <2>2
    <2>5. PICK i \in Nat : Climbs(Step(Way(name.parts, name.abs)[n + m], parts[n + (m + 1)], name.abs), i) /\ j <= i
      BY <1>1, <2>1, <2>4, StepClimbs
    <2> QED
      BY <2>1, <2>3, <2>5
  <1> HIDE DEF S
  <1>4. Nat \subseteq S
    BY <1>2, <1>3, Inductive
  <1>5. Len(parts) - n \in Nat /\ n + (Len(parts) - n) = Len(parts)
    BY <1>1
  <1>6. \E j \in Nat : j > 0 /\ Climbs(Way(name.parts, name.abs)[n + (Len(parts) - n)], j)
    BY <1>1, <1>4, <1>5 DEF S
  <1> QED
    BY <1>5, <1>6 DEF Clean

\* A name that goes above where it starts is refused as outside.
LEMMA EscapesAreOutside ==
    ASSUME NEW name \in Names, Escapes(name)
    PROVE  Outside(name)
  <1> DEFINE parts == name.parts
  <1>1. CASE name.abs
    BY <1>1 DEF Outside
  <1>2. CASE ~name.abs
    <2>1. PICK n \in 1..Len(parts) : Ups(parts, n) > Downs(parts, n)
      BY <1>2 DEF Escapes, GoesAbove, Ups, Downs
    <2>2. n \in 0..Len(parts) /\ n \in Nat /\ Ups(parts, n) \in Nat /\ Downs(parts, n) \in Nat
      <3>1. n \in Nat /\ n \in 0..Len(parts)
        BY ExtractAssumption
      <3> QED
        BY <3>1, Counts
    <2>3. PICK k \in Nat : /\ Climbs(Way(name.parts, name.abs)[n], k)
                           /\ Len(Way(name.parts, name.abs)[n]) - 2 * k = Downs(parts, n) - Ups(parts, n)
      BY <1>2, <2>2, WayClimbs
    <2>4. k > 0
      <3>1. Len(Way(name.parts, name.abs)[n]) \in Nat
        BY <2>3 DEF Climbs
      <3>2. SUFFICES ASSUME k = 0 PROVE FALSE
        OBVIOUS
      <3>3. Len(Way(name.parts, name.abs)[n]) = Downs(parts, n) - Ups(parts, n)
        BY <2>2, <2>3, <3>1, <3>2
      <3> QED
        BY <2>1, <2>2, <3>1, <3>3
    <2>5. PICK j \in Nat : j > 0 /\ Climbs(Clean(name), j)
      BY <2>2, <2>3, <2>4, UpStaysUp
    <2>6. Clean(name) # <<>> /\ Head(Clean(name)) = ".."
      BY <2>5 DEF Climbs
    <2> QED
      BY <2>6 DEF Outside
  <1> QED
    BY <1>1, <1>2

Level(path) == path \in Seq(STRING) /\ \A j \in 1..Len(path) : path[j] # ".."

\* A name that is not outside goes up nowhere.
LEMMA InsideIsLevel ==
    ASSUME NEW name \in Names, ~Outside(name)
    PROVE  Level(Clean(name))
  <1>1. Len(name.parts) \in 0..Len(name.parts)
    BY ExtractAssumption
  <1>2. PICK k \in Nat : Climbs(Clean(name), k)
    BY <1>1, WayClimbs DEF Clean
  <1>3. k = 0
    <2> SUFFICES ASSUME k > 0 PROVE FALSE
      OBVIOUS
    <2>1. Clean(name) # <<>> /\ Head(Clean(name)) = ".."
      BY <1>2 DEF Climbs
    <2> QED
      BY <2>1 DEF Outside
  <1> QED
    BY <1>2, <1>3 DEF Climbs, Level

-----------------------------------------------------------------------------
(* The tree. *)

\* A part of a level path is one.
LEMMA PartIsLevel ==
    ASSUME NEW path, Level(path), NEW m \in Nat \ {0}, NEW n \in Nat, n <= Len(path), m <= n + 1
    PROVE  Level(SubSeq(path, m, n)) /\ Len(SubSeq(path, m, n)) = n - m + 1
  <1>1. path \in Seq(STRING) /\ Len(path) \in Nat /\ \A j \in 1..Len(path) : path[j] # ".."
    BY DEF Level
  <1>2. \A i \in m..n : path[i] \in STRING /\ path[i] # ".."
    <2> TAKE i \in m..n
    <2>1. i \in 1..Len(path)
      BY <1>1
    <2> QED
      BY <1>1, <2>1
  <1>3. /\ SubSeq(path, m, n) \in Seq(STRING)
        /\ Len(SubSeq(path, m, n)) = IF m <= n THEN n - m + 1 ELSE 0
        /\ \A i \in 1..(n - m + 1) : SubSeq(path, m, n)[i] = path[m + i - 1]
    BY <1>2, SubSeqProperties
  <1>4. Len(SubSeq(path, m, n)) = n - m + 1
    BY <1>3
  <1>5. \A i \in 1..(n - m + 1) : m + i - 1 \in m..n
    OBVIOUS
  <1>6. \A i \in 1..Len(SubSeq(path, m, n)) : SubSeq(path, m, n)[i] # ".."
    BY <1>2, <1>3, <1>4, <1>5
  <1> QED
    BY <1>3, <1>4, <1>6 DEF Level

\* An entry's header that is unpacked, and what becomes of it on disk.
Wants(h) == ~Outside(h.name) /\ InTarget(h.name)
Leaf(h) == [path |-> Inner(h.name), size |-> h.size, exec |-> h.exec]

\* What is unpacked lies below the directory, and its target is a name.
LEMMA InnerIsLevel ==
    ASSUME NEW name \in Names, ~Outside(name), InTarget(name)
    PROVE  Level(Inner(name)) /\ Inner(name) # <<>> /\ Target(name) # <<>> /\ Len(Target(name)) = 1
  <1>1. Level(Clean(name))
    BY InsideIsLevel
  <1>2. Len(Clean(name)) > 3 /\ Len(Clean(name)) \in Nat /\ Inner(name) = SubSeq(Clean(name), 4, Len(Clean(name)))
    BY <1>1 DEF InTarget, Inner, Vendor, Level
  <1>3. Level(Inner(name)) /\ Len(Inner(name)) = Len(Clean(name)) - 4 + 1
    BY <1>1, <1>2, PartIsLevel
  <1>4. Inner(name) # <<>>
    BY <1>2, <1>3
  <1>5. Target(name) # <<>> /\ Len(Target(name)) = 1
    BY DEF Target
  <1> QED
    BY <1>3, <1>4, <1>5

\* So do the directories above it, each of them shorter.
LEMMA ParentsAreLevel ==
    ASSUME NEW path, Level(path)
    PROVE  path \notin Parents(path) /\ \A q \in Parents(path) : Level(q)
  <1>1. Len(path) \in Nat
    BY DEF Level
  <1>2. ASSUME NEW q \in Parents(path) PROVE Level(q) /\ q # path
    <2>1. PICK n \in 0..(Len(path) - 1) : q = SubSeq(path, 1, n)
      BY DEF Parents
    <2>2. n \in Nat /\ n <= Len(path) /\ 1 <= n + 1 /\ n # Len(path)
      BY <1>1
    <2>3. Level(SubSeq(path, 1, n)) /\ Len(SubSeq(path, 1, n)) = n - 1 + 1
      BY <2>2, PartIsLevel
    <2> QED
      BY <2>1, <2>2, <2>3
  <1> QED
    BY <1>2

\* The tree holds what it should and what it holds has been charged; and as long as
\* nothing was refused, the archive so far is on disk, each file of it once.
Tree ==
    /\ TypeOK
    /\ IsFiniteSet(files)
    /\ \A f \in files : f.size \in Nat /\ Level(f.path) /\ f.path # <<>>
    /\ \A d \in dirs : Level(d)
    /\ Total(files) = MaxExtracted - budget

Accepted ==
    /\ served = "pinned"
    /\ \A i \in DOMAIN archive :
          /\ ~Outside(archive[i].name)
          /\ InTarget(archive[i].name) => archive[i].kind # "link" /\ Target(archive[i].name) = triple
    /\ sawBinary => <<"bin", "codex">> \in Paths(files)
    /\ files = {Leaf(h) : h \in {w \in Wanted : w.kind = "file"}}
    /\ \A i, j \in DOMAIN archive :
          (/\ Wants(archive[i]) /\ Wants(archive[j])
           /\ archive[i].kind = "file" /\ archive[j].kind = "file"
           /\ Inner(archive[i].name) = Inner(archive[j].name)) => i = j

ExtractInv ==
    /\ Tree
    /\ phase = "fetching" => archive = <<>> /\ files = {} /\ ~sawBinary
    /\ phase \in {"reading", "done"} => Accepted
    /\ phase = "done" => sawBinary

LEMMA InitExtractInv == Init => ExtractInv
  <1> SUFFICES ASSUME Init PROVE ExtractInv
    OBVIOUS
  <1>1. TypeOK
    <2>1. budget \in 0..MaxExtracted
      BY ExtractAssumption DEF Init
    <2>2. archive \in Seq(Headers) /\ Len(archive) <= MaxEntries
      <3>1. archive = <<>>
        BY DEF Init
      <3>2. <<>> \in Seq(Headers) /\ Len(<<>>) = 0
        OBVIOUS
      <3> QED
        BY <3>1, <3>2, ExtractAssumption
    <2>3. \A f \in files : Parents(f.path) \subseteq dirs /\ f.path \notin dirs
      BY DEF Init
    <2> QED
      BY <2>1, <2>2, <2>3 DEF Init, TypeOK
  <1>2. files = {} /\ dirs = {<<>>} /\ budget = MaxExtracted
    BY DEF Init
  <1>3. Level(<<>>)
    BY DEF Level
  <1>4. Total(files) = MaxExtracted - budget
    BY <1>2, NothingAddsUpToNothing, ExtractAssumption
  <1>5. IsFiniteSet(files)
    BY <1>2, FS_EmptySet
  <1>6. Tree
    BY <1>1, <1>2, <1>3, <1>4, <1>5 DEF Tree
  <1> QED
    BY <1>6 DEF Init, ExtractInv

\* A header more: it is wanted, or what was wanted is what is.
LEMMA ArchiveGrows ==
    ASSUME archive \in Seq(Headers), NEW h \in Headers, archive' = Append(archive, h)
    PROVE  /\ archive' \in Seq(Headers)
           /\ DOMAIN archive = 1..Len(archive) /\ Len(archive) \in Nat
           /\ DOMAIN archive' = 1..(Len(archive) + 1) /\ Len(archive') = Len(archive) + 1
           /\ \A i \in DOMAIN archive : archive'[i] = archive[i]
           /\ archive'[Len(archive) + 1] = h
           /\ Wanted' = IF Wants(h) THEN Wanted \cup {h} ELSE Wanted
  <1>1. /\ archive' \in Seq(Headers)
        /\ DOMAIN archive = 1..Len(archive) /\ Len(archive) \in Nat
        /\ DOMAIN archive' = 1..(Len(archive) + 1) /\ Len(archive') = Len(archive) + 1
        /\ \A i \in DOMAIN archive : archive'[i] = archive[i]
        /\ archive'[Len(archive) + 1] = h
    OBVIOUS
  <1>2. ToSet(archive') = ToSet(archive) \cup {h}
    <2>1. \A x : x \in ToSet(archive') <=> \E i \in 1..(Len(archive) + 1) : x = archive'[i]
      BY <1>1 DEF ToSet
    <2>2. \A x : x \in ToSet(archive) <=> \E i \in 1..Len(archive) : x = archive[i]
      BY <1>1 DEF ToSet
    <2>3. \A i : i \in 1..(Len(archive) + 1) <=> i \in 1..Len(archive) \/ i = Len(archive) + 1
      BY <1>1
    <2> QED
      BY <1>1, <2>1, <2>2, <2>3
  <1>3. Wanted' = {w \in ToSet(archive') : Wants(w)} /\ Wanted = {w \in ToSet(archive) : Wants(w)}
    BY DEF Wanted, Wants
  <1>4. Wanted' = IF Wants(h) THEN Wanted \cup {h} ELSE Wanted
    BY <1>2, <1>3
  <1> QED
    BY <1>1, <1>4

\* A header that is refused or skipped, or an unpacking that fails, leaves the tree.
LEMMA TreeStays ==
    ASSUME Tree, UNCHANGED <<triple, budget, sawBinary, files, dirs>>,
           phase' \in {"fetching", "reading", "done", "failed"},
           served' \in {"nothing", "pinned", "other", "truncated"},
           archive' \in Seq(Headers), Len(archive') <= MaxEntries
    PROVE  Tree'
  <1>1. TypeOK'
    BY DEF Tree, TypeOK
  <1>2. Total(files)' = Total(files)
    OBVIOUS
  <1>3. Tree
    OBVIOUS
  <1> QED
    BY <1>1, <1>2, <1>3 DEF Tree

\* Unpacking a directory keeps the tree.
LEMMA MakesDirKeepsTree ==
    ASSUME Tree, NEW h \in Headers, Wants(h), MakesDir(h), triple' = Target(h.name),
           UNCHANGED served, archive' \in Seq(Headers), Len(archive') <= MaxEntries
    PROVE  Tree'
  <1> DEFINE path == Inner(h.name)
  <1>1. h.name \in Names
    BY DEF Headers
  <1>2. Level(path) /\ path # <<>> /\ Len(Target(h.name)) = 1
    BY <1>1, InnerIsLevel DEF Wants
  <1>3. \A q \in Parents(path) : Level(q)
    BY <1>2, ParentsAreLevel
  <1>4. /\ UNCHANGED <<phase, budget, sawBinary, files>>
        /\ dirs' = dirs \cup Parents(path) \cup {path}
        /\ (Parents(path) \cup {path}) \cap Paths(files) = {}
    BY DEF MakesDir, CanMake
  <1> HIDE DEF path
  <1>5. \A f \in files : Parents(f.path) \subseteq dirs' /\ f.path \notin dirs'
    BY <1>4 DEF Tree, TypeOK, Paths
  <1>6. TypeOK'
    BY <1>2, <1>4, <1>5 DEF Tree, TypeOK
  <1>7. \A d \in dirs' : Level(d)
    BY <1>2, <1>3, <1>4 DEF Tree
  <1>8. Total(files') = MaxExtracted - budget'
    BY <1>4 DEF Tree
  <1> QED
    BY <1>4, <1>6, <1>7, <1>8 DEF Tree

\* Unpacking a file keeps it, and charges the file.
LEMMA WritesKeepsTree ==
    ASSUME Tree, NEW h \in Headers, Wants(h), Writes(h), triple' = Target(h.name),
           UNCHANGED served, archive' \in Seq(Headers), Len(archive') <= MaxEntries
    PROVE  Tree'
  <1> DEFINE path == Inner(h.name)
             f == Leaf(h)
  <1>1. h.name \in Names /\ h.size \in Nat
    <2>1. h.name \in Names /\ h.size \in Sizes \cup {0}
      BY DEF Headers
    <2>2. Sizes \subseteq Nat
      BY ExtractAssumption
    <2>3. h.size \in Nat
      <3>1. CASE h.size \in Sizes
        BY <2>2, <3>1
      <3>2. CASE h.size = 0
        BY <3>2
      <3> QED
        BY <2>1, <3>1, <3>2
    <2> QED
      BY <2>1, <2>3
  <1>2. Level(path) /\ path # <<>> /\ Len(Target(h.name)) = 1
    BY <1>1, InnerIsLevel DEF Wants
  <1>3. path \notin Parents(path) /\ \A q \in Parents(path) : Level(q)
    BY <1>2, ParentsAreLevel
  <1>4. /\ UNCHANGED phase /\ h.size <= budget /\ budget' = budget - h.size
        /\ dirs' = dirs \cup Parents(path) /\ files' = files \cup {f}
        /\ Parents(path) \cap Paths(files) = {} /\ path \notin Paths(files) \cup dirs
        /\ sawBinary' \in BOOLEAN
    BY DEF Writes, Leaf, Tree, TypeOK
  <1>5. f.path = path /\ f.size = h.size
    BY DEF Leaf
  <1> HIDE DEF path, f
  <1>6. \A g \in files' : Parents(g.path) \subseteq dirs' /\ g.path \notin dirs'
    BY <1>3, <1>4, <1>5 DEF Tree, TypeOK, Paths
  <1>7. budget \in Nat /\ budget <= MaxExtracted /\ MaxExtracted \in Nat
    BY ExtractAssumption DEF Tree, TypeOK
  <1>8. budget' \in 0..MaxExtracted
    BY <1>1, <1>4, <1>7
  <1>9. TypeOK'
    BY <1>2, <1>4, <1>6, <1>8 DEF Tree, TypeOK
  <1>10. IsFiniteSet(files) /\ IsFiniteSet(files')
    BY <1>4, FS_AddElement DEF Tree
  <1>11. f \notin files
    BY <1>4, <1>5 DEF Paths
  <1>12. Total(files') = Total(files) + h.size
    BY <1>1, <1>4, <1>5, <1>10, <1>11, TotalAdds DEF Tree
  <1>13. Total(files') = MaxExtracted - budget'
    BY <1>1, <1>4, <1>7, <1>12 DEF Tree
  <1>14. \A g \in files' : g.size \in Nat /\ Level(g.path) /\ g.path # <<>>
    BY <1>1, <1>2, <1>4, <1>5 DEF Tree
  <1>15. \A d \in dirs' : Level(d)
    BY <1>3, <1>4 DEF Tree
  <1> QED
    BY <1>9, <1>10, <1>13, <1>14, <1>15 DEF Tree

-----------------------------------------------------------------------------
(* What an archive is accepted for. *)

\* A header that is skipped leaves what was accepted.
LEMMA SkipsStayAccepted ==
    ASSUME Accepted, archive \in Seq(Headers), NEW h \in Headers, archive' = Append(archive, h),
           ~Outside(h.name), ~InTarget(h.name),
           UNCHANGED <<triple, sawBinary, files, served>>
    PROVE  Accepted'
  <1>1. /\ DOMAIN archive' = 1..(Len(archive) + 1) /\ DOMAIN archive = 1..Len(archive) /\ Len(archive) \in Nat
        /\ \A i \in DOMAIN archive : archive'[i] = archive[i]
        /\ archive'[Len(archive) + 1] = h
        /\ Wanted' = Wanted
    BY ArchiveGrows DEF Wants
  <1>2. \A i \in DOMAIN archive' : i \in DOMAIN archive \/ i = Len(archive) + 1
    BY <1>1
  <1>3. \A i \in DOMAIN archive' :
           /\ ~Outside(archive'[i].name)
           /\ InTarget(archive'[i].name) => archive'[i].kind # "link" /\ Target(archive'[i].name) = triple'
    BY <1>1, <1>2 DEF Accepted
  <1>4. \A i, j \in DOMAIN archive' :
           (/\ Wants(archive'[i]) /\ Wants(archive'[j])
            /\ archive'[i].kind = "file" /\ archive'[j].kind = "file"
            /\ Inner(archive'[i].name) = Inner(archive'[j].name)) => i = j
    <2> SUFFICES ASSUME NEW i \in DOMAIN archive', NEW j \in DOMAIN archive',
                        Wants(archive'[i]), Wants(archive'[j]),
                        archive'[i].kind = "file", archive'[j].kind = "file",
                        Inner(archive'[i].name) = Inner(archive'[j].name)
                 PROVE  i = j
      OBVIOUS
    <2>1. i \in DOMAIN archive /\ j \in DOMAIN archive
      BY <1>1, <1>2 DEF Wants
    <2> QED
      BY <1>1, <2>1 DEF Accepted
  <1>5. files' = {Leaf(w) : w \in {v \in Wanted' : v.kind = "file"}}
    BY <1>1 DEF Accepted
  <1>6. sawBinary' => <<"bin", "codex">> \in Paths(files')
    BY DEF Accepted
  <1>7. served' = "pinned"
    BY DEF Accepted
  <1> QED
    BY <1>3, <1>4, <1>5, <1>6, <1>7 DEF Accepted

\* An entry that is unpacked is on disk with those before it, and is none of them.
LEMMA UnpacksStayAccepted ==
    ASSUME Accepted, Tree, NEW h \in Headers, archive' = Append(archive, h),
           Wants(h), Unpacks(h), UNCHANGED served
    PROVE  Accepted'
  <1> DEFINE path == Inner(h.name)
  <1>1. /\ DOMAIN archive' = 1..(Len(archive) + 1) /\ DOMAIN archive = 1..Len(archive) /\ Len(archive) \in Nat
        /\ \A i \in DOMAIN archive : archive'[i] = archive[i]
        /\ archive'[Len(archive) + 1] = h
        /\ Wanted' = Wanted \cup {h}
    BY ArchiveGrows DEF Tree, TypeOK
  <1>2. \A i \in DOMAIN archive' : i \in DOMAIN archive \/ i = Len(archive) + 1
    BY <1>1
  <1>3. h.name \in Names /\ triple \in {<<>>, Target(h.name)} /\ triple' = Target(h.name) /\ h.kind # "link"
    BY DEF Headers, Unpacks, MakesDir, Writes
  <1>4. \A i \in DOMAIN archive : archive[i].name \in Names /\ archive[i] \in Headers
    <2>1. \A i \in DOMAIN archive : archive[i] \in Headers
      BY <1>1 DEF Tree, TypeOK
    <2> QED
      BY <2>1 DEF Headers
  <1>5. \A i \in DOMAIN archive : InTarget(archive[i].name) =>
           archive[i].kind # "link" /\ Target(archive[i].name) = triple'
    <2> SUFFICES ASSUME NEW i \in DOMAIN archive, InTarget(archive[i].name)
                 PROVE  archive[i].kind # "link" /\ Target(archive[i].name) = triple'
      OBVIOUS
    <2>1. ~Outside(archive[i].name) /\ archive[i].kind # "link" /\ Target(archive[i].name) = triple
      BY DEF Accepted
    <2>2. Target(archive[i].name) # <<>>
      BY <1>4, <2>1, InnerIsLevel
    <2> QED
      BY <1>3, <2>1, <2>2
  <1>6. \A i \in DOMAIN archive' :
           /\ ~Outside(archive'[i].name)
           /\ InTarget(archive'[i].name) => archive'[i].kind # "link" /\ Target(archive'[i].name) = triple'
    BY <1>1, <1>2, <1>3, <1>5 DEF Accepted, Wants
  <1>7. /\ files' = {Leaf(w) : w \in {v \in Wanted' : v.kind = "file"}}
        /\ sawBinary' => <<"bin", "codex">> \in Paths(files')
        /\ h.kind = "file" => path \notin Paths(files)
    <2>1. files = {Leaf(w) : w \in {v \in Wanted : v.kind = "file"}} /\ (sawBinary => <<"bin", "codex">> \in Paths(files))
      BY DEF Accepted
    <2>2. CASE MakesDir(h)
      <3>1. h.kind = "dir" /\ files' = files /\ sawBinary' = sawBinary
        BY <2>2 DEF MakesDir
      <3>2. {v \in Wanted' : v.kind = "file"} = {v \in Wanted : v.kind = "file"}
        BY <1>1, <3>1
      <3> QED
        BY <2>1, <3>1, <3>2
    <2>3. CASE Writes(h)
      <3>1. /\ h.kind = "file" /\ files' = files \cup {Leaf(h)} /\ path \notin Paths(files)
            /\ sawBinary' = (sawBinary \/ path = <<"bin", "codex">>)
        BY <2>3 DEF Writes, Leaf
      <3>2. {v \in Wanted' : v.kind = "file"} = {v \in Wanted : v.kind = "file"} \cup {h}
        BY <1>1, <3>1
      <3>3. Paths(files') = Paths(files) \cup {path}
        <4>1. Leaf(h).path = path
          BY DEF Leaf
        <4> HIDE DEF path
        <4>2. \A x : x \in Paths(files') <=> x \in Paths(files) \/ x = path
          BY <3>1, <4>1 DEF Paths
        <4> QED
          BY <4>2
      <3>4. files' = {Leaf(w) : w \in {v \in Wanted' : v.kind = "file"}}
        BY <2>1, <3>1, <3>2
      <3> QED
        BY <2>1, <3>1, <3>3, <3>4
    <2> QED
      BY <2>2, <2>3 DEF Unpacks
  <1>8. ASSUME NEW i \in DOMAIN archive, Wants(archive[i]), archive[i].kind = "file", h.kind = "file"
        PROVE  Inner(archive[i].name) # path
    <2>1. archive[i] \in Wanted
      BY <1>8 DEF Wanted, Wants, ToSet
    <2>2. Leaf(archive[i]) \in files
      BY <1>8, <2>1 DEF Accepted
    <2>3. Inner(archive[i].name) \in Paths(files)
      BY <2>2 DEF Paths, Leaf
    <2> QED
      BY <1>7, <1>8, <2>3
  <1> HIDE DEF path
  <1>9. \A i, j \in DOMAIN archive' :
           (/\ Wants(archive'[i]) /\ Wants(archive'[j])
            /\ archive'[i].kind = "file" /\ archive'[j].kind = "file"
            /\ Inner(archive'[i].name) = Inner(archive'[j].name)) => i = j
    <2> SUFFICES ASSUME NEW i \in DOMAIN archive', NEW j \in DOMAIN archive',
                        Wants(archive'[i]), Wants(archive'[j]),
                        archive'[i].kind = "file", archive'[j].kind = "file",
                        Inner(archive'[i].name) = Inner(archive'[j].name)
                 PROVE  i = j
      OBVIOUS
    <2>1. CASE i \in DOMAIN archive /\ j \in DOMAIN archive
      BY <1>1, <2>1 DEF Accepted
    <2>2. CASE i \in DOMAIN archive /\ j = Len(archive) + 1
      BY <1>1, <1>8, <2>2 DEF path
    <2>3. CASE i = Len(archive) + 1 /\ j \in DOMAIN archive
      BY <1>1, <1>8, <2>3 DEF path
    <2> QED
      BY <1>2, <2>1, <2>2, <2>3
  <1>10. served' = "pinned"
    BY DEF Accepted
  <1> QED
    BY <1>6, <1>7, <1>9, <1>10 DEF Accepted

\* Serving bytes or failing to, the headers and the end of an archive keep the invariant.
LEMMA ServesKeeps ==
    ASSUME ExtractInv, NEW bytes \in {"pinned", "other", "truncated"}, Serves(bytes)
    PROVE  ExtractInv'
  <1>1. /\ phase = "fetching" /\ served' = bytes /\ UNCHANGED <<triple, budget, sawBinary, files, dirs, archive>>
        /\ (bytes = "pinned" /\ phase' = "reading") \/ phase' = "failed"
    BY DEF Serves, Failed
  <1>2. Tree'
    BY <1>1, TreeStays DEF ExtractInv, Tree, TypeOK
  <1>3. archive = <<>> /\ files = {} /\ ~sawBinary
    BY <1>1 DEF ExtractInv
  <1>4. ToSet(archive) = {}
    BY <1>3 DEF ToSet
  <1>5. Wanted' = {}
    BY <1>1, <1>4 DEF Wanted, ToSet
  <1>6. DOMAIN archive' = {} /\ files' = {} /\ ~sawBinary'
    BY <1>1, <1>3
  <1>7. phase' = "reading" => Accepted'
    BY <1>1, <1>5, <1>6 DEF Accepted
  <1> QED
    BY <1>1, <1>2, <1>7 DEF ExtractInv

\* A header, whatever becomes of its entry.
LEMMA EntryKeeps ==
    ASSUME ExtractInv, NEW h \in Headers, Entry(h)
    PROVE  ExtractInv'
  <1>1. /\ phase = "reading" /\ Len(archive) < MaxEntries /\ archive' = Append(archive, h) /\ UNCHANGED served
        /\ Tree /\ Accepted /\ archive \in Seq(Headers) /\ served \in {"nothing", "pinned", "other", "truncated"}
    BY DEF Entry, ExtractInv, Tree, TypeOK
  <1>2. archive' \in Seq(Headers) /\ Len(archive') <= MaxEntries
    BY <1>1, ArchiveGrows, ExtractAssumption
  <1>3. CASE Failed
    <2>1. phase' = "failed" /\ UNCHANGED <<triple, budget, sawBinary, files, dirs>>
      BY <1>3 DEF Failed
    <2>2. Tree'
      BY <1>1, <1>2, <2>1, TreeStays
    <2> QED
      BY <2>1, <2>2 DEF ExtractInv
  <1>4. CASE ~Outside(h.name) /\ ~InTarget(h.name) /\ UNCHANGED <<phase, triple, budget, sawBinary, files, dirs>>
    <2>1. Tree'
      BY <1>1, <1>2, <1>4, TreeStays
    <2>2. Accepted'
      BY <1>1, <1>4, SkipsStayAccepted
    <2> QED
      BY <1>1, <1>4, <2>1, <2>2 DEF ExtractInv
  <1>5. CASE Wants(h) /\ Unpacks(h)
    <2>1. Accepted'
      BY <1>1, <1>5, UnpacksStayAccepted
    <2>2. phase' = phase
      BY <1>5 DEF Unpacks, MakesDir, Writes
    <2>3. CASE MakesDir(h)
      BY <1>1, <1>2, <1>5, <2>1, <2>2, <2>3, MakesDirKeepsTree DEF Unpacks, ExtractInv
    <2>4. CASE Writes(h)
      BY <1>1, <1>2, <1>5, <2>1, <2>2, <2>4, WritesKeepsTree DEF Unpacks, ExtractInv
    <2> QED
      BY <1>5, <2>3, <2>4 DEF Unpacks
  <1> QED
    BY <1>3, <1>4, <1>5 DEF Entry, Wants

\* A step that leaves the tree and the archive, and does not resume the reading.
LEMMA QuietKeeps ==
    ASSUME ExtractInv, UNCHANGED <<triple, budget, sawBinary, files, dirs, served, archive>>,
           \/ phase' = "failed" \/ phase' = phase
           \/ phase = "reading" /\ phase' = "done" /\ sawBinary
    PROVE  ExtractInv'
  <1>1. Tree'
    BY TreeStays DEF ExtractInv, Tree, TypeOK
  <1>2. Wanted' = Wanted
    BY DEF Wanted
  <1>3. Accepted => Accepted'
    BY <1>2 DEF Accepted
  <1> QED
    BY <1>1, <1>3 DEF ExtractInv

\* ExtractInv is an invariant of a download and of the archive it delivers.
THEOREM ExtractInvariant == Spec => []ExtractInv
  <1>1. ExtractInv /\ [Next]_vars => ExtractInv'
    <2> SUFFICES ASSUME ExtractInv, [Next]_vars PROVE ExtractInv'
      OBVIOUS
    <2>1. ASSUME NEW bytes \in {"pinned", "other", "truncated"}, Serves(bytes) PROVE ExtractInv'
      BY <2>1, ServesKeeps
    <2>2. CASE FetchFails
      BY <2>2, QuietKeeps DEF FetchFails, Failed
    <2>3. ASSUME NEW h \in Headers, Entry(h) PROVE ExtractInv'
      BY <2>3, EntryKeeps
    <2>4. CASE Ends
      <3>1. phase' = "failed" \/ (phase = "reading" /\ phase' = "done" /\ sawBinary)
        BY <2>4 DEF Ends
      <3> QED
        BY <2>4, <3>1, QuietKeeps DEF Ends
    <2>5. CASE UNCHANGED vars
      BY <2>5, QuietKeeps DEF vars
    <2> QED
      BY <2>1, <2>2, <2>3, <2>4, <2>5 DEF Next
  <1> QED
    BY <1>1, InitExtractInv, PTL DEF Spec

\* The variables keep their types, and no file is where a directory is.
THEOREM TypeInvariant == Spec => []TypeOK
  <1>1. ExtractInv => TypeOK
    BY DEF ExtractInv, Tree
  <1> QED
    BY <1>1, ExtractInvariant, PTL

\* However its names are spelt, an archive puts nothing outside the directory it is
\* expanded into.
THEOREM NothingEscapes == Spec => []Confined
  <1>1. ExtractInv => Confined
    <2> SUFFICES ASSUME ExtractInv, NEW path \in Paths(files) \cup dirs
                 PROVE  ".." \notin ToSet(path) /\ (path = <<>> => path \notin Paths(files))
      BY DEF Confined
    <2>1. Level(path) /\ (path \in Paths(files) => path # <<>>)
      BY DEF ExtractInv, Tree, Paths
    <2>2. ".." \notin ToSet(path)
      BY <2>1 DEF Level, ToSet
    <2> QED
      BY <2>1, <2>2
  <1> QED
    BY <1>1, ExtractInvariant, PTL

\* What is on disk at any moment stays within the limit, entry upon entry.
THEOREM TreeIsWithinBudget == Spec => []WithinBudget
  <1>1. ExtractInv => WithinBudget
    <2> SUFFICES ASSUME ExtractInv PROVE Total(files) <= MaxExtracted
      BY DEF WithinBudget, Total
    <2>1. Total(files) = MaxExtracted - budget /\ budget \in 0..MaxExtracted /\ MaxExtracted \in Nat
      BY ExtractAssumption DEF ExtractInv, Tree, TypeOK
    <2> HIDE DEF Total
    <2> QED
      BY <2>1
  <1> QED
    BY <1>1, ExtractInvariant, PTL

\* An archive that was accepted is on disk in full and nothing else is.
THEOREM AcceptedIsOnDisk == Spec => []Faithful
  <1>1. ExtractInv => Faithful
    <2> SUFFICES ASSUME ExtractInv, phase = "done" PROVE Faithful
      BY DEF Faithful
    <2>1. Accepted
      BY DEF ExtractInv
    <2>2. files = {[path |-> Inner(h.name), size |-> h.size, exec |-> h.exec] :
                      h \in {w \in Wanted : w.kind = "file"}}
      BY <2>1 DEF Accepted, Leaf
    <2>3. \A h \in Wanted : Wants(h)
      BY DEF Wanted, Wants
    <2>4. \A i, j \in DOMAIN archive :
             (/\ {archive[i], archive[j]} \subseteq Wanted
              /\ archive[i].kind = "file" /\ archive[j].kind = "file"
              /\ Inner(archive[i].name) = Inner(archive[j].name)) => i = j
      BY <2>1, <2>3 DEF Accepted
    <2> QED
      BY <2>2, <2>4 DEF Faithful
  <1> QED
    BY <1>1, ExtractInvariant, PTL

\* An archive with an entry that names a place outside, or with one below a target's
\* directory that is no file or directory or is of a second target, is not accepted;
\* nor one without the binary, nor bytes the pin does not name.
THEOREM OnlyTheExpected == Spec => []OnlyTheExpectedShape
  <1>1. ExtractInv => OnlyTheExpectedShape
    <2> SUFFICES ASSUME ExtractInv, phase = "done"
                 PROVE  /\ served = "pinned"
                        /\ \A h \in ToSet(archive) : ~Escapes(h.name)
                        /\ \A h \in Wanted : h.kind # "link" /\ Target(h.name) = triple
                        /\ <<"bin", "codex">> \in Paths(files)
      BY DEF OnlyTheExpectedShape
    <2>1. Accepted /\ sawBinary
      BY DEF ExtractInv
    <2>2. archive \in Seq(Headers)
      BY DEF ExtractInv, Tree, TypeOK
    <2>3. \A h \in ToSet(archive) : h \in Headers /\ \E i \in DOMAIN archive : h = archive[i]
      BY <2>2 DEF ToSet
    <2>4. \A h \in ToSet(archive) : h.name \in Names /\ ~Outside(h.name)
      <3>1. \A h \in Headers : h.name \in Names
        BY DEF Headers
      <3> QED
        BY <2>1, <2>3, <3>1 DEF Accepted
    <2>5. \A h \in ToSet(archive) : ~Escapes(h.name)
      BY <2>4, EscapesAreOutside
    <2>6. \A h \in Wanted : h.kind # "link" /\ Target(h.name) = triple
      BY <2>1, <2>3 DEF Accepted, Wanted
    <2> QED
      BY <2>1, <2>5, <2>6 DEF Accepted
  <1> QED
    BY <1>1, ExtractInvariant, PTL
=============================================================================
