------------------------- MODULE RequestGateProofs --------------------------
(***************************************************************************)
(* Proofs about RequestGate for any drivers, requests and environments.    *)
(* GateInv carries what New, Prepare and StreamCommand have found out to   *)
(* the process they lead to, and the properties follow.  That a tool list  *)
(* is read as written is one induction over the characters of an entry and *)
(* one over the entries of a list.                                         *)
(***************************************************************************)
EXTENDS RequestGate, FiniteSetTheorems, SequenceTheorems, WellFoundedInduction, TLAPS

\* A request that was let through asks for nothing the provider lacks, and its model
\* is no name the provider would resolve.
LetThrough ==
    phase \in {"prepared", "rendered", "spawned"} =>
        Lacking = {} /\ ("resolve" \in Can(driver) => model # "alias")

\* The arguments are the whole rendering of a request the dialect can express.
Rendered ==
    phase \in {"rendered", "spawned"} => argv = ArgvOf(driver, req) /\ Expresses(driver, req)

\* The environment is the one the driver builds.
Environed == phase = "spawned" => env = BuildEnv(driver)

\* New lets no caller isolate a provider that cannot be isolated.
Isolates ==
    phase \notin {"configured", "refused"} /\ driver.isolated => "isolate" \in Can(driver)

GateInv ==
    /\ driver \in Drivers
    /\ Isolates /\ LetThrough /\ Rendered /\ Environed

\* GateInv is an invariant of New, Prepare, StreamCommand and Spawn.
THEOREM GateInvariant == Spec => []GateInv
  <1>1. Init => GateInv
    BY DEF Init, GateInv, Isolates, LetThrough, Rendered, Environed
  <1>2. GateInv /\ [Next]_vars => GateInv'
    <2> SUFFICES ASSUME GateInv, [Next]_vars PROVE GateInv'
      OBVIOUS
    <2>0. UNCHANGED <<driver, req, model>> =>
             Lacking' = Lacking /\ ArgvOf(driver, req)' = ArgvOf(driver, req)
      BY DEF Lacking, Asked, ArgvOf
    <2>6. UNCHANGED <<driver, parent>> => BuildEnv(driver)' = BuildEnv(driver)
      BY DEF BuildEnv, Inherited, Constructed, HomeOf
    <2>7. UNCHANGED driver => Can(driver)' = Can(driver) /\ driver'.isolated = driver.isolated
      BY DEF Can
    <2> USE DEF GateInv, Isolates, LetThrough, Rendered, Environed, Goes, Refuse
    <2>1. CASE New
      BY <2>1 DEF New
    <2>2. CASE Prepare
      <3>1. CASE phase' = "refused"
        BY <2>2, <3>1 DEF Prepare
      <3>2. CASE phase' # "refused"
        <4> DEFINE name == IF req.model = "" THEN driver.model ELSE req.model
        <4>1. /\ phase = "ready" /\ phase' = "prepared" /\ Lacking = {} /\ model' = ResolveModel(driver, name)
              /\ UNCHANGED <<driver, req>>
          BY <2>2, <3>2 DEF Prepare
        <4>2. "resolve" \in Can(driver) => model' # "alias"
          BY <4>1 DEF ResolveModel
        <4>3. Lacking' = Lacking
          BY <4>1 DEF Lacking, Asked
        <4>4. Isolates'
          BY <2>7, <4>1
        <4>5. Rendered' /\ Environed' /\ driver' \in Drivers
          BY <4>1
        <4>6. LetThrough'
          BY <2>7, <4>1, <4>2, <4>3
        <4> QED
          BY <4>4, <4>5, <4>6
      <3> QED
        BY <3>1, <3>2
    <2>3. CASE StreamCommand
      <3>1. CASE phase' = "refused"
        BY <2>3, <3>1 DEF StreamCommand
      <3>2. CASE phase' # "refused"
        <4>1. /\ phase = "prepared" /\ phase' = "rendered" /\ Expresses(driver, req)
              /\ argv' = ArgvOf(driver, req) /\ UNCHANGED <<driver, req, model>>
          BY <2>3, <3>2 DEF StreamCommand
        <4> QED
          BY <2>0, <4>1
      <3> QED
        BY <3>1, <3>2
    <2>4. CASE Spawn
      <3>1. /\ UNCHANGED <<driver, req, parent, model, argv>>
            /\ phase = "rendered" /\ phase' = "spawned" /\ env' = BuildEnv(driver)
        BY <2>4 DEF Spawn
      <3>2. LetThrough' /\ Rendered'
        BY <2>0, <3>1
      <3>3. Environed'
        BY <2>6, <3>1
      <3> QED
        BY <3>1, <3>2, <3>3
    <2>5. CASE UNCHANGED vars
      <3>1. UNCHANGED <<driver, req, parent, model, argv, phase, env>>
        BY <2>5 DEF vars
      <3>2. LetThrough' /\ Rendered'
        BY <2>0, <3>1
      <3>3. Environed'
        BY <2>6, <3>1
      <3> QED
        BY <3>1, <3>2, <3>3
    <2> QED
      BY <2>1, <2>2, <2>3, <2>4, <2>5 DEF Next
  <1> QED
    BY <1>1, <1>2, PTL DEF Spec

-----------------------------------------------------------------------------
(* Nothing is dropped. *)

\* Every field is in Needs, and only the dialects that render it have what it needs:
\* but for an allowlist, which codex refuses by itself.
LEMMA WhatIsAskedIsRendered ==
    ASSUME NEW f \in DOMAIN Unset \cup {"turns"}, f \in Asked(req),
           driver.dialect \in {"codex", "claude", "other"},
           Lacking = {}, Expresses(driver, req)
    PROVE  f \in Renders(driver)
  <1>1. f \in {"session", "agents", "mode", "allowed", "denied", "turns", "schema"}
    BY DEF Unset
  <1>2. Needs[f] \in Can(driver)
    BY DEF Lacking
  <1>3. CASE driver.dialect = "codex"
    <2>1. f \in {"mode", "allowed", "schema"}
      BY <1>1, <1>2, <1>3 DEF Can, Needs
    <2>2. f # "allowed"
      <3>1. req.allowed = <<>>
        BY <1>3 DEF Expresses, CodexExpresses
      <3>2. "allowed" \in Asked(req) => req.allowed # Unset.allowed
        BY DEF Asked
      <3>3. Unset.allowed = <<>>
        BY DEF Unset
      <3> QED
        BY <3>1, <3>2, <3>3
    <2> QED
      BY <1>3, <2>1, <2>2 DEF Renders
  <1>4. CASE driver.dialect = "claude"
    BY <1>1, <1>4 DEF Renders, Needs
  <1>5. CASE driver.dialect = "other"
    BY <1>1, <1>2, <1>5 DEF Can
  <1> QED
    BY <1>3, <1>4, <1>5

\* A process is started only with every field the caller set, and never under a name
\* that the provider knows to stand for another model.
THEOREM ProcessHasAllThatWasAsked == Spec => []NothingDropped
  <1>1. GateInv => NothingDropped
    <2> SUFFICES ASSUME GateInv, Spawned PROVE NothingDropped
      BY DEF NothingDropped
    <2>1. /\ driver.dialect \in {"codex", "claude", "other"}
          /\ Lacking = {} /\ Expresses(driver, req) /\ argv = ArgvOf(driver, req)
          /\ "resolve" \in Can(driver) => model # "alias"
      BY GateAssumption DEF GateInv, LetThrough, Rendered, Spawned
    <2>2. ASSUME NEW f \in DOMAIN Unset \cup {"turns"},
                 IF f = "turns" THEN req.turns > 0 ELSE req[f] # Unset[f]
          PROVE  f \in DOMAIN argv
      <3>1. f \in Asked(req)
        BY <2>2 DEF Asked
      <3>2. f \in Renders(driver)
        BY <2>1, <3>1, WhatIsAskedIsRendered
      <3> QED
        BY <2>1, <3>1, <3>2 DEF ArgvOf
    <2>3. "model" \in DOMAIN argv => argv.model # "alias"
      <3> SUFFICES ASSUME "model" \in DOMAIN argv PROVE argv.model # "alias"
        OBVIOUS
      <3>1. "model" \notin Renders(driver)
        BY <2>1 DEF Renders, Needs
      <3>2. driver.dialect # "other"
        BY <2>1, <3>1 DEF ArgvOf
      <3>3. argv.model = model
        BY <2>1 DEF ArgvOf
      <3>4. "resolve" \in Can(driver)
        BY <2>1, <3>2 DEF Can
      <3> QED
        BY <2>1, <3>3, <3>4
    <2> QED
      BY <2>2, <2>3 DEF NothingDropped
  <1> QED
    BY <1>1, GateInvariant, PTL

-----------------------------------------------------------------------------
(* The environment. *)

LEMMA ExportedGives ==
    ASSUME NEW v, NEW value
    PROVE  /\ DOMAIN Exported(v, value) \subseteq {v}
           /\ value # "" => v \in DOMAIN Exported(v, value)
           /\ \A x \in DOMAIN Exported(v, value) : Exported(v, value)[x] = value
  BY DEF Exported, Nothing

\* All a process gets of the caller's by construction is HOME, where none was set.
LEMMA OnlyHomeInherited ==
    ASSUME NEW d \in Drivers, NEW v \in DOMAIN Constructed(d), Constructed(d)[v] = "inherited"
    PROVE  v = "HOME" /\ d.home = "default"
  <1> DEFINE Clean(f) == \A x \in DOMAIN f : f[x] # "inherited"
             fixed == [x \in {"PATH"} |-> "minimal"]
             rest == Over(Exported("HOME", HomeOf(d)), fixed)
  <1>1. ASSUME NEW f, NEW g, Clean(f), Clean(g)
        PROVE  Clean(Over(f, g))
    BY <1>1 DEF Over
  <1>2. ASSUME NEW x, NEW value, value # "inherited"
        PROVE  Clean(Exported(x, value))
    BY <1>2, ExportedGives
  <1>3. ASSUME NEW S, NEW value, value # "inherited"
        PROVE  Clean([x \in S |-> value])
    BY <1>3
  <1>4. d.configDir # "inherited" /\ d.home # "inherited"
    BY GateAssumption
  <1> HIDE DEF Clean
  <1>5. Clean(DialectEnv(d))
    <2>1. CASE d.dialect = "codex"
      <3>1. DialectEnv(d) = Over(Exported("CODEX_HOME", d.configDir), [x \in {"TERM"} |-> "dumb"])
        BY <2>1, Zenon DEF DialectEnv
      <3>2. Clean(Exported("CODEX_HOME", d.configDir)) /\ Clean([x \in {"TERM"} |-> "dumb"])
        BY <1>2, <1>3, <1>4
      <3> QED
        BY <1>1, <3>1, <3>2
    <2>2. CASE d.dialect = "claude"
      <3> DEFINE profile == Over(Exported("CLAUDE_CONFIG_DIR", d.configDir), Exported("HOME", d.configDir))
                 quiet == [x \in {"TERM", "DISABLE_AUTOUPDATER"} |-> "dumb"]
      <3>1. DialectEnv(d) = Over(profile, quiet)
        BY <2>2 DEF DialectEnv
      <3>2. Clean(profile)
        BY <1>1, <1>2, <1>4
      <3>3. Clean(quiet)
        BY <1>3
      <3> HIDE DEF profile, quiet
      <3> QED
        BY <1>1, <3>1, <3>2, <3>3
    <2>3. CASE d.dialect = "other"
      BY <2>3 DEF DialectEnv, Nothing, Clean
    <2> QED
      BY <2>1, <2>2, <2>3, GateAssumption
  <1>6. Constructed(d) = Over(DialectEnv(d), rest)
    BY DEF Constructed
  <1>7. v \in DOMAIN rest /\ rest[v] = "inherited"
    <2> HIDE DEF rest
    <2> QED
      BY <1>5, <1>6 DEF Over, Clean
  <1>8. v \in DOMAIN Exported("HOME", HomeOf(d)) /\ HomeOf(d) = "inherited"
    <2> DEFINE home == Exported("HOME", HomeOf(d))
    <2>1. rest = Over(home, fixed)
      OBVIOUS
    <2>2. \A x \in DOMAIN fixed : fixed[x] = "minimal"
      OBVIOUS
    <2>3. \A x \in DOMAIN home : home[x] = HomeOf(d)
      BY ExportedGives
    <2> HIDE DEF rest, home, fixed
    <2>4. v \in DOMAIN home
      BY <1>7, <2>1, <2>2 DEF Over
    <2>5. rest[v] = home[v]
      BY <2>1, <2>4 DEF Over
    <2> QED
      BY <1>7, <2>3, <2>4, <2>5 DEF home
  <1>9. v = "HOME"
    BY <1>8, ExportedGives
  <1>10. d.home # "default" => HomeOf(d) = d.home
    BY DEF HomeOf
  <1> QED
    BY <1>4, <1>8, <1>9, <1>10

\* The profile is the dialect's own word for it.
LEMMA DialectNamesProfile ==
    ASSUME NEW d, NEW v, d.configDir # "",
           \/ d.dialect = "codex" /\ v = "CODEX_HOME"
           \/ d.dialect = "claude" /\ v = "CLAUDE_CONFIG_DIR"
    PROVE  v \in DOMAIN DialectEnv(d) /\ DialectEnv(d)[v] = d.configDir
  <1>1. v \in DOMAIN Exported(v, d.configDir) /\ Exported(v, d.configDir)[v] = d.configDir
    BY DEF Exported, Nothing
  <1>2. CASE d.dialect = "codex"
    <2>1. DialectEnv(d) = Over(Exported(v, d.configDir), [x \in {"TERM"} |-> "dumb"])
      BY <1>2 DEF DialectEnv
    <2> QED
      BY <1>1, <2>1 DEF Over
  <1>3. CASE d.dialect = "claude"
    <2> DEFINE profile == Over(Exported(v, d.configDir), Exported("HOME", d.configDir))
               fixed == [x \in {"TERM", "DISABLE_AUTOUPDATER"} |-> "dumb"]
    <2>1. DialectEnv(d) = Over(profile, fixed)
      BY <1>3 DEF DialectEnv
    <2>2. v \in DOMAIN profile /\ profile[v] = d.configDir
      BY <1>1 DEF Over
    <2> HIDE DEF profile, fixed
    <2> QED
      BY <2>1, <2>2 DEF Over
  <1> QED
    BY <1>2, <1>3

\* The driver's environment has the profile its caller nominated.
LEMMA NominationIsBuilt ==
    ASSUME GateInv PROVE NominationStands
  <1> DEFINE v == ProfileVariable(driver)
  <1> SUFFICES ASSUME GateInv, Spawned, driver.dialect # "other", driver.configDir # ""
               PROVE  v \in DOMAIN env /\ env[v] = driver.configDir
    BY DEF NominationStands
  <1>1. env = BuildEnv(driver) /\ driver.dialect \in {"codex", "claude"}
    BY GateAssumption DEF GateInv, Environed, Spawned
  <1>2. v \in DOMAIN DialectEnv(driver) /\ DialectEnv(driver)[v] = driver.configDir
    BY <1>1, DialectNamesProfile DEF ProfileVariable
  <1>3. v \notin DenyEnv(driver) /\ v \notin DOMAIN AuthEnv(driver)
    BY <1>1 DEF DenyEnv, AuthEnv, ProfileVariable
  <1> HIDE DEF v
  <1>4. CASE ~driver.isolated
    BY <1>1, <1>2, <1>4 DEF BuildEnv, Over
  <1>5. CASE driver.isolated
    <2>1. env = Over(AuthEnv(driver), Scrub(Constructed(driver), DenyEnv(driver)))
      BY <1>1, <1>5 DEF BuildEnv
    <2>2. v \in DOMAIN Constructed(driver) /\ Constructed(driver)[v] = driver.configDir
      BY <1>2 DEF Constructed, Over
    <2> QED
      BY <1>3, <2>1, <2>2 DEF Over, Scrub
  <1> QED
    BY <1>4, <1>5

\* An isolated process has its token and no denied variable beside it, inherits HOME
\* at most, where none was set, and has the caller's own profile only where neither a
\* profile nor a home was nominated.
THEOREM IsolatedCredentialStands == Spec => []CredentialStands
  <1>1. GateInv => CredentialStands
    <2> SUFFICES ASSUME GateInv, Spawned, driver.isolated
                 PROVE  /\ \A v \in DOMAIN AuthEnv(driver) : v \in DOMAIN env /\ env[v] = "token"
                        /\ \A v \in DOMAIN env \cap DenyEnv(driver) : env[v] = "token"
                        /\ \A v \in DOMAIN env :
                              env[v] = "inherited" => v = "HOME" /\ driver.home = "default"
                        /\ Profile = "inherited" => driver.home = "default" /\ driver.configDir = ""
      BY DEF CredentialStands
    <2> DEFINE scrubbed == Scrub(Constructed(driver), DenyEnv(driver))
    <2>1. env = Over(AuthEnv(driver), scrubbed) /\ driver \in Drivers
      BY DEF GateInv, Environed, Spawned, BuildEnv
    <2>2. \A v \in DOMAIN AuthEnv(driver) : AuthEnv(driver)[v] = "token"
      BY DEF AuthEnv
    <2>3. \A v \in DOMAIN scrubbed :
             /\ v \notin DenyEnv(driver)
             /\ scrubbed[v] = "inherited" => v = "HOME" /\ driver.home = "default"
      BY <2>1, OnlyHomeInherited DEF Scrub
    <2> HIDE DEF scrubbed
    <2>4. DOMAIN env = DOMAIN AuthEnv(driver) \cup DOMAIN scrubbed
      BY <2>1 DEF Over
    <2>5. \A v \in DOMAIN AuthEnv(driver) : env[v] = "token"
      BY <2>1, <2>2 DEF Over
    <2>6. \A v \in DOMAIN scrubbed \ DOMAIN AuthEnv(driver) : env[v] = scrubbed[v]
      BY <2>1 DEF Over
    <2>7. \A v \in DOMAIN env : env[v] = "inherited" => v = "HOME" /\ driver.home = "default"
      BY <2>3, <2>4, <2>5, <2>6
    <2>8. Profile = "inherited" => \E v \in DOMAIN env : env[v] = "inherited"
      BY DEF Profile
    <2>9. driver.configDir # "" => Profile # "inherited"
      <3> SUFFICES ASSUME driver.configDir # "" PROVE Profile # "inherited"
        OBVIOUS
      <3>1. driver.dialect # "other"
        BY DEF GateInv, Isolates, Can, Spawned
      <3>2. /\ ProfileVariable(driver) \in DOMAIN env
            /\ env[ProfileVariable(driver)] = driver.configDir
        BY <3>1, NominationIsBuilt DEF NominationStands
      <3> QED
        BY <2>1, <3>2, GateAssumption DEF Profile
    <2> QED
      BY <2>3, <2>4, <2>5, <2>6, <2>7, <2>8, <2>9
  <1> QED
    BY <1>1, GateInvariant, PTL

\* The CLI uses the profile its caller nominated, isolated or not.
THEOREM NominatedProfileStands == Spec => []NominationStands
  <1>1. GateInv => NominationStands
    BY NominationIsBuilt
  <1> QED
    BY <1>1, GateInvariant, PTL
-----------------------------------------------------------------------------
(* Induction. *)

\* Every nonempty set of numbers has a least element.
LEMMA Least ==
    ASSUME NEW S \in SUBSET Nat, S # {}
    PROVE  \E n \in S : \A m \in S : n <= m
  <1>1. IsWellFoundedOn(OpToRel(<, Nat), Nat)
    BY NatLessThanWellFounded
  <1>2. \E n \in S : \A m \in S : ~(<<m, n>> \in OpToRel(<, Nat))
    BY <1>1, WFMin
  <1>3. PICK n \in S : \A m \in S : ~(<<m, n>> \in OpToRel(<, Nat))
    BY <1>2
  <1>4. \A m \in S : ~(m < n)
    BY <1>3 DEF OpToRel
  <1>5. \A m \in S : n <= m
    BY <1>4
  <1> QED
    BY <1>5

\* Induction over the numbers, a set at a time.
LEMMA Inductive ==
    ASSUME NEW S, 0 \in S, \A n \in Nat : n \in S => n + 1 \in S
    PROVE  Nat \subseteq S
  <1> SUFFICES ASSUME Nat \ S # {} PROVE FALSE
    OBVIOUS
  <1>1. PICK n \in Nat \ S : \A m \in Nat \ S : n <= m
    BY Least
  <1>2. n # 0 /\ n - 1 \in Nat
    BY <1>1
  <1>3. n - 1 \in S
    BY <1>1, <1>2
  <1>4. n \in S
    BY <1>2, <1>3, (n - 1) + 1 = n
  <1> QED
    BY <1>1, <1>4

\* A function of so many steps from a value, whatever the steps do.
LEMMA Recursion ==
    ASSUME NEW V, NEW b \in V, NEW n \in Nat, NEW F \in [1..n -> [V -> V]]
    PROVE  \E at \in [0..n -> V] : at[0] = b /\ \A i \in 1..n : at[i] = F[i][at[i - 1]]
  <1> DEFINE Follows(at, m) == /\ at \in [0..m -> V]
                             /\ at[0] = b /\ \A i \in 1..m : at[i] = F[i][at[i - 1]]
             S == {m \in Nat : m <= n => \E at : Follows(at, m)}
  <1>1. 0 \in S
    <2> DEFINE at == [i \in 0..0 |-> b]
    <2>1. Follows(at, 0)
      OBVIOUS
    <2> HIDE DEF at
    <2> QED
      BY <2>1
  <1>2. ASSUME NEW m \in Nat, m \in S PROVE m + 1 \in S
    <2> SUFFICES ASSUME m + 1 <= n PROVE \E at : Follows(at, m + 1)
      OBVIOUS
    <2>1. PICK at : Follows(at, m)
      BY <1>2
    <2> DEFINE next == [i \in 0..(m + 1) |-> IF i = m + 1 THEN F[i][at[i - 1]] ELSE at[i]]
    <2>2. m + 1 \in 1..n /\ m \in 0..m /\ (m + 1) - 1 = m
      OBVIOUS
    <2>3. at[m] \in V /\ F[m + 1] \in [V -> V]
      BY <2>1, <2>2
    <2>4. F[m + 1][at[m]] \in V
      BY <2>3
    <2>5. next[m + 1] = F[m + 1][at[m]]
      BY <2>2
    <2>6. \A i \in 0..m : next[i] = at[i]
      OBVIOUS
    <2>7. next \in [0..(m + 1) -> V]
      <3>1. \A i \in 0..(m + 1) : next[i] \in V
        BY <2>1, <2>4, <2>5, <2>6
      <3> HIDE DEF next
      <3>2. next = [i \in 0..(m + 1) |-> next[i]]
        BY DEF next
      <3> QED
        BY <3>1, <3>2
    <2> HIDE DEF next
    <2>8. next[0] = b
      BY <2>1, <2>6
    <2>9. ASSUME NEW i \in 1..(m + 1) PROVE next[i] = F[i][next[i - 1]]
      <3>1. CASE i = m + 1
        BY <2>2, <2>5, <2>6, <3>1
      <3>2. CASE i # m + 1
        <4>1. i \in 1..m /\ i \in 0..m /\ i - 1 \in 0..m
          BY <3>2
        <4> QED
          BY <2>1, <2>6, <4>1
      <3> QED
        BY <3>1, <3>2
    <2>10. Follows(next, m + 1)
      BY <2>7, <2>8, <2>9
    <2> QED
      BY <2>10
  <1> HIDE DEF S
  <1>3. n \in S
    BY <1>1, <1>2, Inductive
  <1> QED
    BY <1>3 DEF S

-----------------------------------------------------------------------------
(* Tool patterns: what the CLI reads of a list the dialect has joined. *)

\* The depth starts at nothing and goes by each character's weight.
LEMMA DepthSteps ==
    ASSUME NEW e, Len(e) \in Nat
    PROVE  /\ Depth(e) \in [0..Len(e) -> Int] /\ Depth(e)[0] = 0
           /\ \A i \in 1..Len(e) : Depth(e)[i] = Depth(e)[i - 1] + Weight(e[i])
  <1> DEFINE n == Len(e)
             F == [i \in 1..n |-> [d \in Int |-> d + Weight(e[i])]]
             at == Depth(e)
  <1>0. \A c : Weight(c) \in Int
    BY DEF Weight
  <1>1. n \in Nat /\ 0 \in Int /\ F \in [1..n -> [Int -> Int]]
    BY <1>0
  <1>2. \A i \in 1..n, d \in Int : F[i][d] = d + Weight(e[i])
    OBVIOUS
  <1> HIDE DEF F, n
  <1>3. PICK f \in [0..n -> Int] : f[0] = 0 /\ \A i \in 1..n : f[i] = F[i][f[i - 1]]
    <2> DEFINE V == Int
               b == 0
    <2>1. b \in V /\ n \in Nat /\ F \in [1..n -> [V -> V]]
      BY <1>1
    <2> HIDE DEF V, b
    <2>2. \E f \in [0..n -> V] : f[0] = b /\ \A i \in 1..n : f[i] = F[i][f[i - 1]]
      BY <2>1, Recursion
    <2> QED
      BY <2>2 DEF V, b
  <1>4. \A i \in 1..n : f[i - 1] \in Int /\ f[i] = f[i - 1] + Weight(e[i])
    <2> TAKE i \in 1..n
    <2>1. i - 1 \in 0..n
      BY <1>1
    <2>2. f[i - 1] \in Int
      BY <2>1
    <2> QED
      BY <1>2, <1>3, <2>2
  <1>5. f = [i \in 0..n |-> IF i = 0 THEN 0 ELSE f[i - 1] + Weight(e[i])]
    <2>1. \A i \in 0..n : f[i] = IF i = 0 THEN 0 ELSE f[i - 1] + Weight(e[i])
      BY <1>1, <1>3, <1>4
    <2>2. f = [i \in 0..n |-> f[i]]
      BY <1>3
    <2> QED
      BY <2>1, <2>2
  <1>6. at = [i \in 0..n |-> IF i = 0 THEN 0 ELSE at[i - 1] + Weight(e[i])]
    BY <1>5, Zenon DEF Depth, n
  <1> HIDE DEF at
  <1>7. at[0] = 0 /\ \A i \in 1..n : at[i] = at[i - 1] + Weight(e[i])
    <2>1. 0 \in 0..n /\ \A i \in 1..n : i \in 0..n /\ i # 0
      BY <1>1
    <2> QED
      BY <1>6, <2>1
  <1> DEFINE S == {i \in Nat : i <= n => at[i] \in Int}
  <1>8. 0 \in S
    BY <1>7
  <1>9. ASSUME NEW i \in Nat, i \in S PROVE i + 1 \in S
    <2> SUFFICES ASSUME i + 1 <= n PROVE at[i + 1] \in Int
      OBVIOUS
    <2>3. i + 1 \in 1..n /\ (i + 1) - 1 = i
      BY <1>1
    <2>1. at[i + 1] = at[i] + Weight(e[i + 1])
      BY <1>7, <2>3
    <2>2. at[i] \in Int
      BY <1>1, <1>9
    <2> QED
      BY <1>0, <2>1, <2>2
  <1> HIDE DEF S
  <1>10. Nat \subseteq S
    BY <1>8, <1>9, Inductive
  <1>11. \A i \in 0..n : at[i] \in Int
    BY <1>10 DEF S
  <1>12. at = [i \in 0..n |-> at[i]]
    BY <1>6
  <1>13. at \in [0..n -> Int]
    BY <1>11, <1>12
  <1> QED
    BY <1>7, <1>13 DEF at, n

\* One character more counts one more, or none.
LEMMA CountSteps ==
    ASSUME NEW e, NEW i \in Nat, NEW c
    PROVE  /\ Count(e, 0, c) = 0 /\ Count(e, i, c) \in Nat
           /\ e[i + 1] = c => Count(e, i + 1, c) = Count(e, i, c) + 1
           /\ e[i + 1] # c => Count(e, i + 1, c) = Count(e, i, c)
  <1> DEFINE N(k) == {j \in 1..k : e[j] = c}
  <1>1. \A k \in Nat : IsFiniteSet(N(k))
    <2> TAKE k \in Nat
    <2>1. IsFiniteSet(1..k)
      BY FS_Interval
    <2> QED
      BY <2>1, FS_Subset
  <1>2. N(0) = {}
    OBVIOUS
  <1>3. N(i + 1) = IF e[i + 1] = c THEN N(i) \cup {i + 1} ELSE N(i)
    OBVIOUS
  <1>4. i + 1 \notin N(i)
    OBVIOUS
  <1>5. \A k \in Nat : Count(e, k, c) = Cardinality(N(k))
    BY DEF Count
  <1> HIDE DEF N
  <1>6. Cardinality(N(0)) = 0
    BY <1>2, FS_EmptySet
  <1>7. Cardinality(N(i)) \in Nat
    BY <1>1, FS_CardinalityType
  <1>8. Cardinality(N(i) \cup {i + 1}) = Cardinality(N(i)) + 1
    BY <1>1, <1>4, FS_AddElement
  <1> QED
    BY <1>3, <1>5, <1>6, <1>7, <1>8

\* The depth is what has been opened less what has been closed: no less than nothing
\* where no parenthesis is closed before it is opened.
LEMMA SteadyStaysOpen ==
    ASSUME NEW C, NEW e \in Seq(C), Steady(e)
    PROVE  \A i \in 0..Len(e) : Depth(e)[i] >= 0
  <1> DEFINE n == Len(e)
             Opened(i) == Count(e, i, "(")
             Closed(i) == Count(e, i, ")")
             S == {i \in Nat : i <= n => Depth(e)[i] = Opened(i) - Closed(i)}
  <1>0. n \in Nat /\ DOMAIN e = 1..n
    OBVIOUS
  <1>1. /\ Depth(e) \in [0..n -> Int] /\ Depth(e)[0] = 0
        /\ \A i \in 1..n : Depth(e)[i] = Depth(e)[i - 1] + Weight(e[i])
    BY <1>0, DepthSteps
  <1>2. \A i \in Nat : Opened(i) \in Nat /\ Closed(i) \in Nat
    BY CountSteps
  <1>3. Opened(0) = 0 /\ Closed(0) = 0
    BY CountSteps, 0 \in Nat
  <1>4. \A i \in Nat :
           /\ e[i + 1] = "(" => Opened(i + 1) = Opened(i) + 1
           /\ e[i + 1] # "(" => Opened(i + 1) = Opened(i)
           /\ e[i + 1] = ")" => Closed(i + 1) = Closed(i) + 1
           /\ e[i + 1] # ")" => Closed(i + 1) = Closed(i)
    BY CountSteps, Zenon
  <1>5. \A i \in DOMAIN e : Closed(i) <= Opened(i)
    BY DEF Steady
  <1> HIDE DEF Opened, Closed, n
  <1>6. 0 \in S
    BY <1>1, <1>3
  <1>7. ASSUME NEW i \in Nat, i \in S PROVE i + 1 \in S
    <2> SUFFICES ASSUME i + 1 <= n PROVE Depth(e)[i + 1] = Opened(i + 1) - Closed(i + 1)
      OBVIOUS
    <2>1. i + 1 \in 1..n /\ (i + 1) - 1 = i
      BY <1>0
    <2>2. Depth(e)[i + 1] = Depth(e)[i] + Weight(e[i + 1])
      BY <1>1, <2>1
    <2>3. Depth(e)[i] = Opened(i) - Closed(i)
      BY <1>0, <1>7
    <2>4. Opened(i) \in Nat /\ Closed(i) \in Nat
      BY <1>2
    <2> DEFINE c == e[i + 1]
    <2>5. /\ c = "(" => Opened(i + 1) = Opened(i) + 1
          /\ c # "(" => Opened(i + 1) = Opened(i)
          /\ c = ")" => Closed(i + 1) = Closed(i) + 1
          /\ c # ")" => Closed(i + 1) = Closed(i)
          /\ Depth(e)[i + 1] = Depth(e)[i] + Weight(c)
      BY <1>4, <2>2
    <2> HIDE DEF c
    <2>6. CASE c = "("
      BY <2>3, <2>4, <2>5, <2>6 DEF Weight
    <2>7. CASE c = ")"
      BY <2>3, <2>4, <2>5, <2>7 DEF Weight
    <2>8. CASE c \notin {"(", ")"}
      BY <2>3, <2>4, <2>5, <2>8 DEF Weight
    <2> QED
      BY <2>6, <2>7, <2>8
  <1> HIDE DEF S
  <1>8. Nat \subseteq S
    BY <1>6, <1>7, Inductive
  <1> SUFFICES ASSUME NEW i \in 0..n PROVE Depth(e)[i] >= 0
    BY DEF n
  <1>9. Depth(e)[i] = Opened(i) - Closed(i)
    BY <1>0, <1>8 DEF S
  <1>10. Closed(i) <= Opened(i)
    <2>1. CASE i = 0
      BY <1>3, <2>1
    <2>2. CASE i # 0
      BY <1>0, <1>5, <2>2
    <2> QED
      BY <2>1, <2>2
  <1>11. Opened(i) \in Nat /\ Closed(i) \in Nat
    <2>1. i \in Nat
      BY <1>0
    <2> QED
      BY <1>2, <2>1
  <1> QED
    BY <1>9, <1>10, <1>11


\* What the CLI can have read of a text.
Readings(C) == [list : Seq(Seq(C)), word : Seq(C), open : Nat]
Unread == [list |-> <<>>, word |-> <<>>, open |-> 0]

\* What it has read at the end of one.
ReadOf(text) == Reading(text)[Len(text)]

\* One character more leaves something the CLI can have read.
LEMMA ReadsMore ==
    ASSUME NEW C, NEW m \in Readings(C), NEW c \in C
    PROVE  Reads(m, c) \in Readings(C)
  <1>1. m.list \in Seq(Seq(C)) /\ m.word \in Seq(C) /\ m.open \in Nat
    BY DEF Readings
  <1>2. CASE Splits(m, c)
    <2>1. Reads(m, c) = [list |-> Append(m.list, m.word), word |-> <<>>, open |-> m.open]
      BY <1>2 DEF Reads
    <2>2. Append(m.list, m.word) \in Seq(Seq(C)) /\ <<>> \in Seq(C)
      BY <1>1, AppendProperties, EmptySeq
    <2> QED
      BY <1>1, <2>1, <2>2 DEF Readings
  <1>3. CASE ~Splits(m, c)
    <2> DEFINE open == CASE c = "(" -> m.open + 1
                         [] c = ")" /\ m.open > 0 -> m.open - 1
                         [] OTHER -> m.open
    <2>1. Reads(m, c) = [list |-> m.list, word |-> Append(m.word, c), open |-> open]
      BY <1>3 DEF Reads
    <2>2. open \in Nat
      BY <1>1
    <2> HIDE DEF open
    <2>3. Append(m.word, c) \in Seq(C)
      BY <1>1, AppendProperties
    <2> QED
      BY <1>1, <2>1, <2>2, <2>3 DEF Readings
  <1> QED
    BY <1>2, <1>3

\* A text is read from its start, a character at a time.
LEMMA ReadingSteps ==
    ASSUME NEW V, Unread \in V, NEW text, Len(text) \in Nat,
           \A i \in 1..Len(text), m \in V : Reads(m, text[i]) \in V
    PROVE  /\ Reading(text)[0] = Unread
           /\ \A i \in 1..Len(text) : Reading(text)[i] = Reads(Reading(text)[i - 1], text[i])
  <1> DEFINE n == Len(text)
             b == Unread
             at == Reading(text)
  <1>0. n \in Nat /\ b \in V /\ \A i \in 1..n, m \in V : Reads(m, text[i]) \in V
    OBVIOUS
  <1> HIDE DEF n, b
  <1> DEFINE F == [i \in 1..n |-> [m \in V |-> Reads(m, text[i])]]
  <1>1. F \in [1..n -> [V -> V]] /\ \A i \in 1..n, m \in V : F[i][m] = Reads(m, text[i])
    BY <1>0
  <1> HIDE DEF F
  <1>6. b \in V /\ n \in Nat /\ F \in [1..n -> [V -> V]]
    BY <1>0, <1>1
  <1>2. PICK f \in [0..n -> V] : f[0] = b /\ \A i \in 1..n : f[i] = F[i][f[i - 1]]
    BY <1>6, Recursion
  <1>3. \A i \in 0..n : f[i] = IF i = 0 THEN b ELSE Reads(f[i - 1], text[i])
    <2> TAKE i \in 0..n
    <2>1. CASE i = 0
      BY <1>2, <2>1
    <2>2. CASE i # 0
      <3>1. i \in 1..n /\ i - 1 \in 0..n
        BY <1>0, <2>2
      <3>2. f[i - 1] \in V
        BY <3>1
      <3> QED
        BY <1>1, <1>2, <2>2, <3>1, <3>2
    <2> QED
      BY <2>1, <2>2
  <1>4. f = [i \in 0..n |-> f[i]]
    OBVIOUS
  <1>5. f = [i \in 0..n |-> IF i = 0 THEN b ELSE Reads(f[i - 1], text[i])]
    BY <1>3, <1>4
  <1>7. at = [i \in 0..n |-> IF i = 0 THEN b ELSE Reads(at[i - 1], text[i])]
    BY <1>5, Zenon DEF Reading, n, b, Unread
  <1> HIDE DEF at
  <1>8. 0 \in 0..n /\ \A i \in 1..n : i \in 0..n /\ i # 0
    BY <1>0
  <1>9. at[0] = b /\ \A i \in 1..n : at[i] = Reads(at[i - 1], text[i])
    BY <1>7, <1>8
  <1> QED
    BY <1>9 DEF at, n, b

\* The same of any sequence of characters.
LEMMA TextIsRead ==
    ASSUME NEW C, NEW text \in Seq(C)
    PROVE  /\ Reading(text)[0] = Unread
           /\ \A i \in 1..Len(text) : Reading(text)[i] = Reads(Reading(text)[i - 1], text[i])
  <1>1. Len(text) \in Nat /\ \A i \in 1..Len(text) : text[i] \in C
    BY LenProperties, ElementOfSeq
  <1>2. Unread \in Readings(C)
    <2>1. <<>> \in Seq(C) /\ <<>> \in Seq(Seq(C))
      BY EmptySeq
    <2> QED
      BY <2>1 DEF Readings, Unread
  <1>3. \A i \in 1..Len(text), m \in Readings(C) : Reads(m, text[i]) \in Readings(C)
    BY <1>1, ReadsMore
  <1> QED
    BY <1>1, <1>2, <1>3, ReadingSteps, Zenon

\* What it reads of a longer text begins with what it reads of the text.
LEMMA ReadsOn ==
    ASSUME NEW C, NEW text \in Seq(C), NEW c \in C
    PROVE  ReadOf(Append(text, c)) = Reads(ReadOf(text), c)
  <1> DEFINE n == Len(text)
             more == Append(text, c)
             S == {i \in Nat : i <= n => Reading(more)[i] = Reading(text)[i]}
  <1>1. /\ n \in Nat /\ more \in Seq(C) /\ Len(more) = n + 1
        /\ \A i \in 1..n : more[i] = text[i]
        /\ more[n + 1] = c
    BY LenProperties, AppendProperties
  <1>2. /\ Reading(text)[0] = Unread
        /\ \A i \in 1..n : Reading(text)[i] = Reads(Reading(text)[i - 1], text[i])
    BY TextIsRead
  <1> HIDE DEF more, n
  <1>3. /\ Reading(more)[0] = Unread
        /\ \A i \in 1..(n + 1) : Reading(more)[i] = Reads(Reading(more)[i - 1], more[i])
    <2>1. /\ Reading(more)[0] = Unread
          /\ \A i \in 1..Len(more) : Reading(more)[i] = Reads(Reading(more)[i - 1], more[i])
      BY <1>1, TextIsRead
    <2> QED
      BY <1>1, <2>1
  <1>4. 0 \in S
    BY <1>2, <1>3
  <1>5. ASSUME NEW i \in Nat, i \in S PROVE i + 1 \in S
    <2> SUFFICES ASSUME i + 1 <= n PROVE Reading(more)[i + 1] = Reading(text)[i + 1]
      OBVIOUS
    <2>1. i + 1 \in 1..n /\ i + 1 \in 1..(n + 1) /\ (i + 1) - 1 = i /\ i <= n
      BY <1>1
    <2>2. Reading(more)[i] = Reading(text)[i]
      BY <1>5, <2>1
    <2>3. Reading(more)[i + 1] = Reads(Reading(more)[i], more[i + 1])
      BY <1>3, <2>1
    <2>4. Reading(text)[i + 1] = Reads(Reading(text)[i], text[i + 1])
      BY <1>2, <2>1
    <2> QED
      BY <1>1, <2>1, <2>2, <2>3, <2>4
  <1> HIDE DEF S
  <1>6. n \in S
    BY <1>1, <1>4, <1>5, Inductive
  <1>7. Reading(more)[n] = Reading(text)[n]
    BY <1>1, <1>6 DEF S
  <1>8. n + 1 \in 1..(n + 1) /\ (n + 1) - 1 = n
    BY <1>1
  <1>9. Reading(more)[n + 1] = Reads(Reading(more)[n], more[n + 1])
    BY <1>3, <1>8
  <1>10. ReadOf(more) = Reading(more)[n + 1] /\ ReadOf(text) = Reading(text)[n]
    BY <1>1 DEF ReadOf, n
  <1>11. ReadOf(more) = Reads(ReadOf(text), c)
    BY <1>1, <1>7, <1>9, <1>10
  <1> QED
    BY <1>11 DEF more


\* A sequence up to a character, and the character.
LEMMA NextCharacter ==
    ASSUME NEW C, NEW e \in Seq(C), NEW k \in Nat, k + 1 <= Len(e)
    PROVE  /\ SubSeq(e, 1, k) \in Seq(C) /\ e[k + 1] \in C
           /\ SubSeq(e, 1, k + 1) = Append(SubSeq(e, 1, k), e[k + 1])
  <1> DEFINE n == k + 1
             head == SubSeq(e, 1, k)
             longer == SubSeq(e, 1, n)
             c == e[n]
             appended == Append(head, c)
  <1>1. Len(e) \in Nat /\ n \in Nat /\ \A i \in 1..Len(e) : e[i] \in C
    BY LenProperties, ElementOfSeq
  <1>2. c \in C
    BY <1>1
  <1>3. /\ head \in Seq(C) /\ Len(head) = k /\ \A i \in 1..k : head[i] = e[i]
        /\ longer \in Seq(C) /\ Len(longer) = n /\ \A i \in 1..n : longer[i] = e[i]
    <2>1. ASSUME NEW m \in Nat, m <= Len(e)
          PROVE  /\ SubSeq(e, 1, m) \in Seq(C) /\ Len(SubSeq(e, 1, m)) = m
                 /\ \A i \in 1..m : SubSeq(e, 1, m)[i] = e[i]
      <3>1. \A i \in 1..m : e[i] \in C
        BY <1>1, <2>1
      <3>2. 1 \in Int /\ m \in Int /\ m - 1 + 1 = m /\ \A i \in 1..m : 1 + i - 1 = i
        OBVIOUS
      <3>3. /\ SubSeq(e, 1, m) \in Seq(C)
            /\ Len(SubSeq(e, 1, m)) = IF 1 <= m THEN m - 1 + 1 ELSE 0
            /\ \A i \in 1..(m - 1 + 1) : SubSeq(e, 1, m)[i] = e[1 + i - 1]
        BY <3>1, <3>2, SubSeqProperties
      <3> QED
        BY <3>2, <3>3
    <2>2. k <= Len(e) /\ n <= Len(e)
      BY <1>1
    <2> QED
      BY <1>1, <2>1, <2>2
  <1> HIDE DEF head, longer, c
  <1>4. /\ appended \in Seq(C) /\ Len(appended) = k + 1
        /\ \A i \in 1..k : appended[i] = head[i]
        /\ appended[k + 1] = c
    <2>1. /\ appended \in Seq(C) /\ Len(appended) = Len(head) + 1
          /\ \A i \in 1..Len(head) : appended[i] = head[i]
          /\ appended[Len(head) + 1] = c
      BY <1>2, <1>3, AppendProperties
    <2> QED
      BY <1>3, <2>1
  <1> HIDE DEF appended
  <1>5. Len(longer) = Len(appended) /\ \A i \in 1..Len(longer) : longer[i] = appended[i]
    <2>1. longer[n] = c
      BY <1>1, <1>3 DEF c
    <2>2. \A i \in 1..k : longer[i] = appended[i]
      BY <1>1, <1>3, <1>4
    <2> QED
      BY <1>1, <1>3, <1>4, <2>1, <2>2
  <1>6. longer = appended
    BY <1>3, <1>4, <1>5, SeqEqual
  <1> QED
    BY <1>2, <1>3, <1>6 DEF longer, appended, head, c

\* An entry that the check accepts, and that closes nothing it has not opened, is read
\* as it is written: none of its characters ends it.
LEMMA EntryIsRead ==
    ASSUME NEW C, NEW text \in Seq(C), NEW e \in Seq(C), NEW deny, NEW l,
           CheckToolPattern(e, deny), Steady(e),
           ReadOf(text) = [list |-> l, word |-> <<>>, open |-> 0]
    PROVE  ReadOf(text \o e) = [list |-> l, word |-> e, open |-> 0]
  <1> DEFINE n == Len(e)
             At(k) == [list |-> l, word |-> SubSeq(e, 1, k), open |-> Depth(e)[k]]
             S == {k \in Nat : k <= n => ReadOf(text \o SubSeq(e, 1, k)) = At(k)}
  <1>0. n \in Nat /\ DOMAIN e = 1..n
    BY LenProperties
  <1>1. /\ Depth(e) \in [0..n -> Int] /\ Depth(e)[0] = 0
        /\ \A i \in 1..n : Depth(e)[i] = Depth(e)[i - 1] + Weight(e[i])
    BY <1>0, DepthSteps
  <1>2. \A i \in 0..n : Depth(e)[i] >= 0
    BY SteadyStaysOpen
  <1>3. /\ \A i \in 1..n : e[i] # "," /\ (e[i] = " " => Depth(e)[i - 1] # 0)
        /\ Depth(e)[n] = 0
    BY <1>0 DEF CheckToolPattern, ToSet
  <1> HIDE DEF n
  <1>4. 0 \in S
    <2>1. SubSeq(e, 1, 0) = <<>>
      BY SubSeqEmpty
    <2>2. text \o <<>> = text
      BY ConcatEmptySeq
    <2> QED
      BY <1>1, <2>1, <2>2
  <1>5. ASSUME NEW k \in Nat, k \in S PROVE k + 1 \in S
    <2> SUFFICES ASSUME k + 1 <= n PROVE ReadOf(text \o SubSeq(e, 1, k + 1)) = At(k + 1)
      OBVIOUS
    <2> DEFINE c == e[k + 1]
               head == SubSeq(e, 1, k)
               m == At(k)
    <2>1. /\ head \in Seq(C) /\ c \in C
          /\ SubSeq(e, 1, k + 1) = Append(head, c)
      BY NextCharacter DEF n
    <2>2. k + 1 \in 1..n /\ (k + 1) - 1 = k /\ k <= n /\ k \in 0..n /\ k + 1 \in 0..n
      BY <1>0
    <2>3. ReadOf(text \o head) = m
      BY <1>5, <2>2
    <2>4. /\ c # "," /\ (c = " " => Depth(e)[k] # 0)
          /\ Depth(e)[k + 1] = Depth(e)[k] + Weight(c)
          /\ Depth(e)[k] \in Int /\ Depth(e)[k + 1] >= 0 /\ Depth(e)[k] >= 0
      BY <1>1, <1>2, <1>3, <2>2
    <2> HIDE DEF c, head
    <2>5. text \o Append(head, c) = Append(text \o head, c) /\ text \o head \in Seq(C)
      <3>1. /\ <<c>> \in Seq(C) /\ text \o head \in Seq(C)
        BY <2>1, ConcatProperties
      <3>2. Append(head, c) = head \o <<c>> /\ Append(text \o head, c) = (text \o head) \o <<c>>
        BY <2>1, <3>1, AppendIsConcat
      <3>3. (text \o head) \o <<c>> = text \o (head \o <<c>>)
        <4>1. head \in Seq(C)
          BY <2>1
        <4> QED
          BY <3>1, <4>1, ConcatAssociative
      <3> QED
        BY <3>1, <3>2, <3>3
    <2>6. ReadOf(text \o SubSeq(e, 1, k + 1)) = Reads(m, c)
      BY <2>1, <2>3, <2>5, ReadsOn
    <2>7. m.list = l /\ m.word = head /\ m.open = Depth(e)[k]
      BY DEF head
    <2> HIDE DEF m
    <2>8. ~Splits(m, c)
      BY <2>4, <2>7 DEF Splits
    <2> DEFINE open == CASE c = "(" -> m.open + 1
                         [] c = ")" /\ m.open > 0 -> m.open - 1
                         [] OTHER -> m.open
    <2>9. Reads(m, c) = [list |-> m.list, word |-> Append(m.word, c), open |-> open]
      BY <2>8 DEF Reads
    <2>10. open = Depth(e)[k + 1]
      <3>1. CASE c = "("
        BY <2>4, <2>7, <3>1 DEF Weight
      <3>2. CASE c = ")"
        <4>1. Depth(e)[k] > 0
          BY <2>4, <3>2 DEF Weight
        <4> QED
          BY <2>4, <2>7, <3>2, <4>1 DEF Weight
      <3>3. CASE c \notin {"(", ")"}
        <4>1. c # "(" /\ c # ")"
          BY <3>3
        <4>2. Weight(c) = 0 /\ open = m.open
          BY <4>1 DEF Weight
        <4> HIDE DEF open
        <4>3. Depth(e)[k + 1] = Depth(e)[k]
          <5>1. Depth(e)[k + 1] = Depth(e)[k] + Weight(c) /\ Depth(e)[k] \in Int
            BY <2>4
          <5>2. Weight(c) = 0
            BY <4>2
          <5> QED
            BY <5>1, <5>2
        <4> QED
          BY <2>7, <4>2, <4>3
      <3> QED
        BY <3>1, <3>2, <3>3
    <2> HIDE DEF open
    <2> QED
      BY <2>1, <2>6, <2>7, <2>9, <2>10
  <1> HIDE DEF S
  <1>6. n \in S
    BY <1>0, <1>4, <1>5, Inductive
  <1>7. ReadOf(text \o SubSeq(e, 1, n)) = At(n)
    BY <1>0, <1>6 DEF S
  <1>8. SubSeq(e, 1, n) = e
    BY SubSeqFull DEF n
  <1> QED
    BY <1>3, <1>7, <1>8


\* A character is a text.
LEMMA OneCharacter ==
    ASSUME NEW C, NEW c \in C
    PROVE  <<c>> \in Seq(C)
  OBVIOUS

\* Entries among texts that, a comma between them, are such texts again.
Joinable(list, V) ==
    /\ <<>> \in V /\ Len(list) \in Nat /\ \A i \in 1..Len(list) : list[i] \in V
    /\ \A s \in V, t \in V : s \o <<",">> \o t \in V

\* Entries are joined from the first, a comma before each other.
LEMMA JoiningSteps ==
    ASSUME NEW V, NEW list, Joinable(list, V)
    PROVE  /\ Joining(list)[0] = <<>>
           /\ Len(list) >= 1 => Joining(list)[1] = list[1]
           /\ \A i \in 2..Len(list) : Joining(list)[i] = Joining(list)[i - 1] \o <<",">> \o list[i]
           /\ \A i \in 0..Len(list) : Joining(list)[i] \in V
  <1> DEFINE n == Len(list)
             b == <<>>
             With(s, i) == CASE i = 0 -> <<>> [] i = 1 -> list[1] [] OTHER -> s \o <<",">> \o list[i]
             F == [i \in 1..n |-> [s \in V |-> With(s, i)]]
             upto == Joining(list)
             S == {i \in Nat : i <= n => upto[i] \in V}
  <1>1. n \in Nat /\ b \in V
    BY DEF Joinable
  <1>2. \A i \in 1..n, s \in V : With(s, i) \in V
    <2> SUFFICES ASSUME NEW i \in 1..n, NEW s \in V PROVE With(s, i) \in V
      OBVIOUS
    <2>1. CASE i = 1
      BY <1>1, <2>1 DEF Joinable
    <2>2. CASE i # 1
      <3>1. s \o <<",">> \o list[i] \in V
        BY DEF Joinable
      <3>2. With(s, i) = s \o <<",">> \o list[i]
        <4>1. i # 0 /\ i # 1
          BY <1>1, <2>2
        <4> QED
          BY <4>1, Zenon
      <3> QED
        BY <3>1, <3>2
    <2> QED
      BY <2>1, <2>2
  <1>3. \A s : With(s, 0) = b /\ With(s, 1) = list[1]
    OBVIOUS
  <1>4. \A i \in 2..n : With(upto[i - 1], i) = upto[i - 1] \o <<",">> \o list[i]
    <2> SUFFICES ASSUME NEW i \in 2..n
                 PROVE  With(upto[i - 1], i) = upto[i - 1] \o <<",">> \o list[i]
      OBVIOUS
    <2>1. i # 0 /\ i # 1
      BY <1>1
    <2> QED
      BY <2>1
  <1>5. ASSUME NEW f, f = [i \in 0..n |-> With(f[i - 1], i)]
        PROVE  upto = [i \in 0..n |-> With(upto[i - 1], i)]
    <2>1. \E g : g = [i \in 0..n |-> With(g[i - 1], i)]
      BY <1>5
    <2> QED
      BY <2>1, Zenon DEF Joining
  <1> HIDE DEF n, b, With, upto
  <1>6. F \in [1..n -> [V -> V]] /\ \A i \in 1..n, s \in V : F[i][s] = With(s, i)
    BY <1>2
  <1> HIDE DEF F
  <1>7. PICK f \in [0..n -> V] : f[0] = b /\ \A i \in 1..n : f[i] = F[i][f[i - 1]]
    <2>1. b \in V /\ n \in Nat /\ F \in [1..n -> [V -> V]]
      BY <1>1, <1>6
    <2> QED
      BY <2>1, Recursion
  <1>8. \A i \in 0..n : f[i] = With(f[i - 1], i)
    <2> TAKE i \in 0..n
    <2>1. CASE i = 0
      BY <1>3, <1>7, <2>1
    <2>2. CASE i # 0
      <3>1. i \in 1..n /\ i - 1 \in 0..n
        BY <1>1, <2>2
      <3>2. f[i - 1] \in V
        BY <3>1
      <3> QED
        BY <1>6, <1>7, <3>1, <3>2
    <2> QED
      BY <2>1, <2>2
  <1>9. f = [i \in 0..n |-> f[i]]
    OBVIOUS
  <1>10. f = [i \in 0..n |-> With(f[i - 1], i)]
    BY <1>8, <1>9
  <1>11. upto = [i \in 0..n |-> With(upto[i - 1], i)]
    BY <1>5, <1>10
  <1>12. \A i \in 0..n : upto[i] = With(upto[i - 1], i)
    BY <1>11
  <1>13. upto[0] = b /\ (n >= 1 => upto[1] = list[1])
    <2>1. 0 \in 0..n /\ (n >= 1 => 1 \in 0..n)
      BY <1>1
    <2> QED
      BY <1>3, <1>12, <2>1
  <1>14. \A i \in 2..n : upto[i] = upto[i - 1] \o <<",">> \o list[i]
    <2>1. \A i \in 2..n : i \in 0..n
      BY <1>1
    <2>2. \A i \in 2..n : upto[i] = With(upto[i - 1], i)
      BY <1>12, <2>1
    <2> QED
      BY <1>4, <2>2, Zenon
  <1>15. 0 \in S
    BY <1>1, <1>13
  <1>16. ASSUME NEW i \in Nat, i \in S PROVE i + 1 \in S
    <2> SUFFICES ASSUME i + 1 <= n PROVE upto[i + 1] \in V
      OBVIOUS
    <2>1. upto[i] \in V /\ i + 1 \in 1..n /\ i + 1 \in 0..n /\ (i + 1) - 1 = i
      BY <1>1, <1>16
    <2>2. upto[i + 1] = With(upto[i], i + 1)
      BY <1>12, <2>1
    <2> QED
      BY <1>2, <2>1, <2>2
  <1> HIDE DEF S
  <1>17. Nat \subseteq S
    BY <1>15, <1>16, Inductive
  <1>18. \A i \in 0..n : upto[i] \in V
    BY <1>1, <1>17 DEF S
  <1> QED
    BY <1>13, <1>14, <1>18 DEF upto, n, b

\* A list of entries in characters of C, accepted, none closing what it has not opened.
Acceptable(list, C, deny) ==
    /\ "," \in C /\ list \in Seq(Seq(C))
    /\ \A e \in ToSet(list) : CheckToolPattern(e, deny) /\ Steady(e)

\* What an acceptable list is, entry by entry.
LEMMA AcceptableIs ==
    ASSUME NEW C, NEW list, NEW deny, Acceptable(list, C, deny)
    PROVE  /\ Len(list) \in Nat /\ "," \in C
           /\ \A i \in 1..Len(list) :
                 list[i] \in Seq(C) /\ CheckToolPattern(list[i], deny) /\ Steady(list[i])
           /\ \A k \in Nat : k + 1 <= Len(list) =>
                 SubSeq(list, 1, k + 1) = Append(SubSeq(list, 1, k), list[k + 1])
  <1> DEFINE V == Seq(C)
  <1>1. /\ "," \in C /\ list \in Seq(V)
        /\ \A e \in ToSet(list) : CheckToolPattern(e, deny) /\ Steady(e)
    BY DEF Acceptable
  <1> HIDE DEF V
  <1>2. Len(list) \in Nat /\ DOMAIN list = 1..Len(list) /\ \A i \in 1..Len(list) : list[i] \in V
    BY <1>1, LenProperties, ElementOfSeq
  <1>3. \A i \in 1..Len(list) : CheckToolPattern(list[i], deny) /\ Steady(list[i])
    BY <1>1, <1>2 DEF ToSet
  <1>4. \A k \in Nat : k + 1 <= Len(list) =>
           SubSeq(list, 1, k + 1) = Append(SubSeq(list, 1, k), list[k + 1])
    BY <1>1, NextCharacter
  <1> QED
    BY <1>1, <1>2, <1>3, <1>4 DEF V

\* Such a list is joined a comma and an entry at a time, and stays a text.
LEMMA JoinedSteps ==
    ASSUME NEW C, NEW list, NEW deny, Acceptable(list, C, deny)
    PROVE  /\ Joining(list)[0] = <<>>
           /\ Len(list) >= 1 => Joining(list)[1] = list[1]
           /\ \A i \in 2..Len(list) : Joining(list)[i] = Joining(list)[i - 1] \o <<",">> \o list[i]
           /\ \A i \in 0..Len(list) : Joining(list)[i] \in Seq(C)
  <1> DEFINE V == Seq(C)
  <1>1. Len(list) \in Nat /\ "," \in C /\ \A i \in 1..Len(list) : list[i] \in V
    BY AcceptableIs
  <1>2. <<>> \in V
    BY EmptySeq
  <1>5. ASSUME NEW s \in V, NEW t \in V PROVE s \o <<",">> \o t \in V
    <2>1. "," \in C
      BY AcceptableIs
    <2>2. <<",">> \in V
      BY <2>1, OneCharacter
    <2>3. s \o <<",">> \in V
      BY <2>2, ConcatProperties
    <2> QED
      BY <2>3, ConcatProperties
  <1> HIDE DEF V
  <1>3. Joinable(list, V)
    BY <1>1, <1>2, <1>5 DEF Joinable
  <1>4. /\ Joining(list)[0] = <<>>
        /\ Len(list) >= 1 => Joining(list)[1] = list[1]
        /\ \A i \in 2..Len(list) : Joining(list)[i] = Joining(list)[i - 1] \o <<",">> \o list[i]
        /\ \A i \in 0..Len(list) : Joining(list)[i] \in V
    BY <1>3, JoiningSteps
  <1> QED
    BY <1>4 DEF V

\* A list of accepted entries is read as far as it is joined: the entries but the last,
\* and the last in hand.
LEMMA JoinedIsRead ==
    ASSUME NEW C, NEW list, NEW deny, Acceptable(list, C, deny)
    PROVE  \A k \in 1..Len(list) :
              ReadOf(Joining(list)[k]) = [list |-> SubSeq(list, 1, k - 1), word |-> list[k], open |-> 0]
  <1> DEFINE n == Len(list)
             J(k) == Joining(list)[k]
             At(k) == [list |-> SubSeq(list, 1, k - 1), word |-> list[k], open |-> 0]
             S == {i \in Nat : i + 1 <= n => ReadOf(J(i + 1)) = At(i + 1)}
  <1>0. n \in Nat
    BY AcceptableIs
  <1>1. "," \in C /\ \A i \in 1..n : list[i] \in Seq(C) /\ CheckToolPattern(list[i], deny) /\ Steady(list[i])
    BY AcceptableIs
  <1>2. \A k \in Nat : k + 1 <= n => SubSeq(list, 1, k + 1) = Append(SubSeq(list, 1, k), list[k + 1])
    BY AcceptableIs
  <1>3. n >= 1 => J(1) = list[1]
    BY JoinedSteps
  <1>4. \A i \in 2..n : J(i) = J(i - 1) \o <<",">> \o list[i]
    BY JoinedSteps
  <1>5. \A i \in 0..n : J(i) \in Seq(C)
    BY JoinedSteps
  <1> HIDE DEF n, J, At
  <1>6. 0 \in S
    <2> SUFFICES ASSUME 1 <= n PROVE ReadOf(J(1)) = At(1)
      OBVIOUS
    <2> DEFINE e == list[1]
               text == <<>>
               l == <<>>
    <2>1. 1 \in 1..n
      BY <1>0
    <2>2. e \in Seq(C) /\ CheckToolPattern(e, deny) /\ Steady(e)
      BY <1>1, <2>1
    <2> HIDE DEF e
    <2>3. text \in Seq(C) /\ Len(text) = 0
      BY EmptySeq
    <2>4. text \o e = e
      BY <2>2, ConcatEmptySeq
    <2>5. ReadOf(text) = [list |-> l, word |-> <<>>, open |-> 0]
      BY <2>3, TextIsRead DEF ReadOf, Unread
    <2>6. SubSeq(list, 1, 0) = l /\ 1 - 1 = 0
      BY SubSeqEmpty
    <2> HIDE DEF text, l
    <2>7. ReadOf(text \o e) = [list |-> l, word |-> e, open |-> 0]
      BY <2>2, <2>3, <2>5, EntryIsRead
    <2>8. J(1) = e
      BY <1>0, <1>3 DEF e
    <2> QED
      BY <2>4, <2>6, <2>7, <2>8 DEF e, At
  <1>7. ASSUME NEW i \in Nat, i \in S PROVE i + 1 \in S
    <2> DEFINE k == i + 1
    <2> SUFFICES ASSUME k + 1 <= n PROVE ReadOf(J(k + 1)) = At(k + 1)
      OBVIOUS
    <2> DEFINE e == list[k + 1]
               text == J(k)
               read == SubSeq(list, 1, i)
               l == SubSeq(list, 1, k)
    <2>1. k \in Nat /\ k \in 1..n /\ k \in 0..n /\ k + 1 \in 2..n /\ k + 1 \in 1..n
      BY <1>0
    <2>2. (k + 1) - 1 = k /\ k - 1 = i /\ k <= n
      BY <2>1
    <2>3. ReadOf(text) = At(k)
      BY <1>7, <2>1
    <2>4. At(k) = [list |-> read, word |-> list[k], open |-> 0]
      BY <2>2 DEF At
    <2>5. text \in Seq(C)
      BY <1>5, <2>1
    <2>6. J(k + 1) = text \o <<",">> \o e
      BY <1>4, <2>1, <2>2
    <2>7. e \in Seq(C) /\ CheckToolPattern(e, deny) /\ Steady(e)
      BY <1>1, <2>1
    <2>8. Append(read, list[k]) = l
      BY <1>2, <2>2
    <2>9. At(k + 1) = [list |-> l, word |-> e, open |-> 0]
      BY <2>2 DEF At
    <2>10. "," \in C
      BY <1>1
    <2> DEFINE word == list[k]
               longer == Append(text, ",")
    <2> HIDE DEF e, text, read, l, word, k
    <2>11. text \o <<",">> = longer
      BY <2>5, <2>10, AppendIsConcat
    <2>12. longer \in Seq(C)
      BY <2>5, <2>10, AppendProperties
    <2>13. ReadOf(longer) = [list |-> l, word |-> <<>>, open |-> 0]
      <3> DEFINE m == [list |-> read, word |-> word, open |-> 0]
      <3>1. ReadOf(text) = m /\ Append(read, word) = l
        BY <2>3, <2>4, <2>8 DEF word
      <3>2. Reads(m, ",") = [list |-> Append(read, word), word |-> <<>>, open |-> 0]
        BY DEF Reads, Splits
      <3> HIDE DEF m
      <3>3. ReadOf(longer) = Reads(m, ",")
        BY <2>5, <2>10, <3>1, ReadsOn
      <3> QED
        BY <3>1, <3>2, <3>3
    <2> HIDE DEF longer
    <2>14. ReadOf(longer \o e) = [list |-> l, word |-> e, open |-> 0]
      BY <2>7, <2>12, <2>13, EntryIsRead
    <2> QED
      BY <2>6, <2>9, <2>11, <2>14
  <1> HIDE DEF S
  <1>8. Nat \subseteq S
    BY <1>6, <1>7, Inductive
  <1>9. ASSUME NEW k \in 1..n PROVE ReadOf(J(k)) = At(k)
    <2>1. k - 1 \in Nat /\ (k - 1) + 1 = k /\ k <= n
      BY <1>0
    <2>2. k - 1 \in S
      BY <1>8, <2>1
    <2> QED
      BY <2>1, <2>2 DEF S
  <1> QED
    BY <1>9 DEF n, J, At

\* So the CLI has the list back.
LEMMA ListIsRead ==
    ASSUME NEW C, NEW list, NEW deny, Acceptable(list, C, deny)
    PROVE  CLIReads(Joined(list)) = list
  <1> DEFINE n == Len(list)
             text == Joined(list)
             end == ReadOf(text)
  <1>0. n \in Nat
    BY AcceptableIs
  <1>4. list = SubSeq(list, 1, n)
    BY SubSeqFull DEF Acceptable
  <1>1. CASE n = 0
    <2>1. list = <<>>
      BY <1>1, <1>4, SubSeqEmpty
    <2>2. text = <<>>
      BY <1>1, JoinedSteps DEF Joined
    <2> QED
      BY <2>1, <2>2 DEF CLIReads
  <1>2. CASE n # 0
    <2>1. n \in 1..n /\ n - 1 \in Nat /\ (n - 1) + 1 = n
      BY <1>0, <1>2
    <2>2. end = [list |-> SubSeq(list, 1, n - 1), word |-> list[n], open |-> 0]
      BY <2>1, JoinedIsRead DEF Joined
    <2>3. list[n] # <<>>
      <3>1. CheckToolPattern(list[n], deny)
        BY <2>1, AcceptableIs
      <3>2. DOMAIN list[n] # {}
        BY <3>1 DEF CheckToolPattern
      <3>3. DOMAIN <<>> = {}
        OBVIOUS
      <3> QED
        BY <3>2, <3>3
    <2>4. text # <<>>
      <3> SUFFICES ASSUME text = <<>> PROVE FALSE
        OBVIOUS
      <3>1. <<>> \in Seq(C) /\ Len(<<>>) = 0
        BY EmptySeq
      <3>2. ReadOf(<<>>) = Unread
        BY <3>1, TextIsRead DEF ReadOf
      <3> QED
        BY <2>2, <2>3, <3>2 DEF Unread
    <2>5. Append(SubSeq(list, 1, n - 1), list[n]) = SubSeq(list, 1, n)
      <3> DEFINE k == n - 1
      <3>1. k \in Nat /\ k + 1 = n /\ k + 1 <= Len(list)
        BY <1>0, <2>1
      <3> HIDE DEF k
      <3>2. SubSeq(list, 1, k + 1) = Append(SubSeq(list, 1, k), list[k + 1])
        BY <3>1, AcceptableIs
      <3> QED
        BY <3>1, <3>2 DEF k
    <2>6. SubSeq(list, 1, n) = list
      BY <1>4
    <2>7. CLIReads(text) = Append(end.list, end.word)
      BY <2>4 DEF CLIReads, ReadOf
    <2> HIDE DEF end, text
    <2>8. CLIReads(text) = list
      BY <2>2, <2>5, <2>6, <2>7
    <2> QED
      BY <2>8 DEF text
  <1> QED
    BY <1>1, <1>2

\* A list of texts is one over more characters, too.
LEMMA MoreCharacters ==
    ASSUME NEW B, NEW C, B \subseteq C, NEW list, list \in Seq(Seq(B))
    PROVE  list \in Seq(Seq(C))
  <1> DEFINE U == Seq(B)
             V == Seq(C)
  <1>1. U \subseteq V
    BY SeqMonotonic
  <1>2. list \in Seq(U)
    OBVIOUS
  <1> HIDE DEF U, V
  <1>3. list \in Seq(V)
    BY <1>1, <1>2, SeqMonotonic
  <1> QED
    BY <1>3 DEF V

\* Whatever entries a list has, so long as none closes what it has not opened, the CLI
\* reads those entries and no others.
THEOREM ToolListsAreReadAsWritten == Spec => []ReadAsWritten
  <1>1. Init => req \in Requests
    BY DEF Init
  <1>2. req \in Requests /\ [Next]_vars => (req \in Requests)'
    BY DEF Next, New, Prepare, StreamCommand, Spawn, Goes, Refuse, vars
  <1>3. GateInv /\ req \in Requests => ReadAsWritten
    <2> SUFFICES ASSUME GateInv, req \in Requests, Spawned,
                        \A e \in ToSet(req.allowed) \cup ToSet(req.denied) : Steady(e),
                        NEW f \in {"allowed", "denied"}, f \in DOMAIN argv
                 PROVE  CLIReads(argv[f]) = req[f]
      BY DEF ReadAsWritten, ReadsBack
    <2>1. /\ driver.dialect \in {"codex", "claude", "other"}
          /\ argv = ArgvOf(driver, req) /\ Expresses(driver, req)
      BY GateAssumption DEF GateInv, Rendered, Spawned
    <2>2. driver.dialect = "claude"
      <3>1. f \in Renders(driver)
        BY <2>1 DEF ArgvOf
      <3> QED
        BY <2>1, <3>1 DEF Renders
    <2>3. argv[f] = Joined(req[f])
      BY <2>1 DEF ArgvOf
    <2>4. /\ \A e \in ToSet(req.allowed) : CheckToolPattern(e, FALSE)
          /\ \A e \in ToSet(req.denied) : CheckToolPattern(e, TRUE)
      BY <2>1, <2>2 DEF Expresses, ClaudeExpresses
    <2> DEFINE list == req[f]
    <2>5. \E C, deny : Acceptable(list, C, deny)
      <3> DEFINE C == STRING \cup {","}
      <3>1. "," \in C /\ STRING \subseteq C
        OBVIOUS
      <3> HIDE DEF C
      <3>2. req.allowed \in Seq(Seq(STRING)) /\ req.denied \in Seq(Seq(STRING))
        BY GateAssumption, Zenon
      <3>3. req.allowed \in Seq(Seq(C)) /\ req.denied \in Seq(Seq(C))
        BY <3>1, <3>2, MoreCharacters, Zenon
      <3>4. f = "allowed" => Acceptable(req.allowed, C, FALSE)
        BY <2>4, <3>1, <3>3, Zenon DEF Acceptable
      <3>5. f = "denied" => Acceptable(req.denied, C, TRUE)
        BY <2>4, <3>1, <3>3, Zenon DEF Acceptable
      <3> QED
        BY <3>4, <3>5
    <2> HIDE DEF list
    <2>6. CLIReads(Joined(list)) = list
      BY <2>5, ListIsRead
    <2> QED
      BY <2>3, <2>6 DEF list
  <1> QED
    BY <1>1, <1>2, <1>3, GateInvariant, PTL DEF Spec
=============================================================================
