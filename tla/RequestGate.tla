----------------------------- MODULE RequestGate -----------------------------
(***************************************************************************)
(* From a request to the process that would answer it: New, prepare and    *)
(* buildEnv of the driver (driver.go:90-150, 333-443; env.go:49-101), and  *)
(* the arguments and variables of the two dialects (codex/provider.go,     *)
(* claudecode/provider.go).                                                *)
(*                                                                         *)
(* An argv is a function from the fields it renders to what it renders     *)
(* them as.  A tool pattern is a sequence of characters, because what the  *)
(* CLI makes of one is the point of checking it.  The dialect "other" is a *)
(* provider of the caller's own that has the mandatory interface only: it  *)
(* ignores every optional field, which is what the driver's gate is for.   *)
(***************************************************************************)
EXTENDS Integers, Sequences, FiniteSets, SequencesExt

CONSTANTS
    Drivers,  \* what a caller can configure
    Requests, \* and ask for
    Parents,  \* what os.Environ() can hold: sets of variables
    Nil       \* no schema

ASSUME GateAssumption ==
    /\ \A d \in Drivers :
          /\ d.dialect \in {"codex", "claude", "other"} /\ d.isolated \in BOOLEAN
          /\ "inherited" \notin {d.configDir, d.home}   \* the mark of a parent's value
    /\ \A r \in Requests :
          /\ r.turns \in Int
          /\ r.allowed \in Seq(Seq(STRING)) /\ r.denied \in Seq(Seq(STRING))

VARIABLES
    driver, req,
    parent,   \* the environment of the calling process
    phase, refusal,
    model,    \* the model the request settles on
    argv, env \* of the process

vars == <<driver, req, parent, phase, refusal, model, argv, env>>

Nothing == [f \in {} |-> Nil]

-----------------------------------------------------------------------------
(* Capabilities and the driver's gate. *)

Can(d) ==
    CASE d.dialect = "codex" -> {"isolate", "permit", "resolve", "schema"}
      [] d.dialect = "claude" -> {"isolate", "permit", "resolve", "schema", "resume", "agents",
                                  "disallow", "turns"}
      [] OTHER -> {}

\* The capability each optional field of a request requires.
Needs == [session |-> "resume", agents |-> "agents", mode |-> "permit", allowed |-> "permit",
          denied |-> "disallow", turns |-> "turns", schema |-> "schema"]

Unset == [session |-> "", agents |-> {}, mode |-> "", allowed |-> <<>>, denied |-> <<>>,
          schema |-> Nil]

Asked(r) == {f \in DOMAIN Unset : r[f] # Unset[f]} \cup (IF r.turns > 0 THEN {"turns"} ELSE {})

\* A document that is valid JSON and an object.
CheckSchema(s) == s \notin {"empty", "broken"} /\ s \notin {"null", "array"}

ResolveModel(d, name) == IF "resolve" \in Can(d) /\ name = "alias" THEN "build" ELSE name

Init ==
    /\ driver \in Drivers /\ req \in Requests /\ parent \in Parents
    /\ phase = "configured" /\ refusal = "none"
    /\ model = "" /\ argv = Nothing /\ env = Nothing

Goes(p) == phase' = p /\ UNCHANGED <<driver, req, parent, refusal>>

Refuse(why) ==
    /\ phase' = "refused" /\ refusal' = why
    /\ UNCHANGED <<driver, req, parent, model, argv, env>>

\* New: a missing binary is found out here unless the provider vendors one.
New ==
    /\ phase = "configured"
    /\ \/ driver.isolated /\ "isolate" \notin Can(driver) /\ Refuse("isolation")
       \/ /\ driver.isolated => "isolate" \in Can(driver)
          /\ \/ ~driver.pinned /\ Refuse("unavailable")
             \/ Goes("ready") /\ UNCHANGED <<model, argv, env>>

Lacking == {f \in Asked(req) : Needs[f] \notin Can(driver)}

\* Bug: what the provider cannot honour is left to the provider.
PrepareUngated ==
    /\ phase = "ready"
    /\ model' = ResolveModel(driver, IF req.model = "" THEN driver.model ELSE req.model)
    /\ Goes("prepared") /\ UNCHANGED <<argv, env>>

Prepare ==
    /\ phase = "ready"
    /\ \/ Lacking # {} /\ Refuse("unsupported")
       \/ Lacking = {} /\ "schema" \in Asked(req) /\ ~CheckSchema(req.schema) /\ Refuse("invalid")
       \/ /\ Lacking = {} /\ ("schema" \in Asked(req) => CheckSchema(req.schema))
          /\ model' = ResolveModel(driver, IF req.model = "" THEN driver.model ELSE req.model)
          /\ Goes("prepared") /\ UNCHANGED <<argv, env>>

-----------------------------------------------------------------------------
(* Tool patterns. *)

\* Bug: whitespace is looked for only ahead of the first parenthesis.
CheckToolPatternHead(e, deny) ==
    /\ \E i \in DOMAIN e : e[i] # " "
    /\ "," \notin ToSet(e)
    /\ \A i \in DOMAIN e : e[i] = " " => "(" \in ToSet(SubSeq(e, 1, i))
    /\ deny \/ \E i \in DOMAIN e : e[i] # "*"

\* depth, after so many characters.
Weight(c) == CASE c = "(" -> 1 [] c = ")" -> -1 [] OTHER -> 0
Depth(e) ==
    LET at[i \in 0..Len(e)] == IF i = 0 THEN 0 ELSE at[i - 1] + Weight(e[i])
    IN  at

\* checkToolPattern: not blank, of one entry, balanced, with whitespace inside its
\* parentheses only, and on an allowlist not all stars.
CheckToolPattern(e, deny) ==
    /\ \E i \in DOMAIN e : e[i] # " "
    /\ "," \notin ToSet(e)
    /\ \A i \in DOMAIN e : e[i] = " " => Depth(e)[i - 1] # 0
    /\ Depth(e)[Len(e)] = 0
    /\ deny \/ \E i \in DOMAIN e : e[i] # "*"

\* One argument: strings.Join with commas.
Joining(list) ==
    LET upto[n \in 0..Len(list)] ==
            CASE n = 0 -> <<>> [] n = 1 -> list[1] [] OTHER -> upto[n - 1] \o <<",">> \o list[n]
    IN  upto

Joined(list) == Joining(list)[Len(list)]

\* The CLI splits at commas, and at whitespace that nothing open encloses.
Splits(m, c) == c = "," \/ (c = " " /\ m.open = 0)

Reads(m, c) ==
    IF Splits(m, c) THEN [list |-> Append(m.list, m.word), word |-> <<>>, open |-> m.open]
    ELSE [list |-> m.list, word |-> Append(m.word, c),
          open |-> CASE c = "(" -> m.open + 1 [] c = ")" /\ m.open > 0 -> m.open - 1 [] OTHER -> m.open]

Reading(text) ==
    LET at[i \in 0..Len(text)] ==
            IF i = 0 THEN [list |-> <<>>, word |-> <<>>, open |-> 0] ELSE Reads(at[i - 1], text[i])
    IN  at

CLIReads(text) ==
    LET end == Reading(text)[Len(text)] IN IF text = <<>> THEN <<>> ELSE Append(end.list, end.word)

-----------------------------------------------------------------------------
(* The invocation a dialect renders. *)

SandboxModes == {"read-only", "workspace-write", "danger-full-access"}
PermissionModes == {"acceptEdits", "auto", "bypassPermissions", "manual", "dontAsk", "plan"}

\* Bug: an allowlist codex has no word for is let go.
CodexExpressesTools(r) ==
    r.prompt /\ r.turns <= 0 /\ r.denied = <<>> /\ r.mode \in SandboxModes \cup {""}

CodexExpresses(r) ==
    /\ r.prompt /\ r.turns <= 0 /\ r.denied = <<>> /\ r.allowed = <<>>
    /\ r.mode \in SandboxModes \cup {""}

ClaudeExpresses(r) ==
    /\ r.prompt
    /\ r.mode \in PermissionModes \cup {""}
    /\ \A e \in ToSet(r.allowed) : CheckToolPattern(e, FALSE)
    /\ \A e \in ToSet(r.denied) : CheckToolPattern(e, TRUE)
    /\ \A a \in r.agents : a.named /\ a.described /\ a.prompted

Expresses(d, r) ==
    CASE d.dialect = "codex" -> CodexExpresses(r)
      [] d.dialect = "claude" -> ClaudeExpresses(r)
      [] OTHER -> TRUE

Renders(d) ==
    CASE d.dialect = "codex" -> {"mode", "schema"}
      [] d.dialect = "claude" -> DOMAIN Needs
      [] OTHER -> {}

ArgvOf(d, r) ==
    [f \in (Asked(r) \cap Renders(d)) \cup (IF d.dialect # "other" /\ model # "" THEN {"model"} ELSE {}) |->
        CASE f \in {"allowed", "denied"} -> Joined(r[f])
          [] f = "model" -> model
          [] OTHER -> r[f]]

\* Codex has the schema in a file, which may be impossible to publish.
StreamCommand ==
    /\ phase = "prepared"
    /\ \/ ~Expresses(driver, req) /\ Refuse("invalid")
       \/ Expresses(driver, req) /\ driver.dialect = "codex" /\ req.schema # Nil /\ Refuse("unavailable")
       \/ /\ Expresses(driver, req)
          /\ argv' = ArgvOf(driver, req)
          /\ Goes("rendered") /\ UNCHANGED <<model, env>>

-----------------------------------------------------------------------------
(* The environment. *)

\* Of two values of one variable os/exec keeps the later, f here.
Over(f, g) == [v \in DOMAIN f \cup DOMAIN g |-> IF v \in DOMAIN f THEN f[v] ELSE g[v]]

Exported(v, value) == IF value = "" THEN Nothing ELSE [x \in {v} |-> value]

DialectEnv(d) ==
    CASE d.dialect = "codex" ->
            Over(Exported("CODEX_HOME", d.configDir), [x \in {"TERM"} |-> "dumb"])
      [] d.dialect = "claude" ->
            Over(Over(Exported("CLAUDE_CONFIG_DIR", d.configDir), Exported("HOME", d.configDir)),
                 [x \in {"TERM", "DISABLE_AUTOUPDATER"} |-> "dumb"])
      [] OTHER -> Nothing

AuthEnv(d) ==
    IF d.dialect = "codex" THEN [v \in {"OPENAI_API_KEY"} |-> "token"]
                           ELSE [v \in {"CLAUDE_CODE_OAUTH_TOKEN"} |-> "token"]

\* Bug: the profile is denied whoever nominated it.
DenyEnvAlways(d) ==
    IF d.dialect = "codex" THEN {"OPENAI_API_KEY", "OPENAI_BASE_URL", "CODEX_HOME"}
                           ELSE {"ANTHROPIC_API_KEY", "ANTHROPIC_BASE_URL"}

\* One name for the many that reroute.  The profile only if the dialect leaves it alone.
DenyEnv(d) ==
    IF d.dialect = "codex"
    THEN {"OPENAI_API_KEY", "OPENAI_BASE_URL"} \cup (IF d.configDir = "" THEN {"CODEX_HOME"} ELSE {})
    ELSE {"ANTHROPIC_API_KEY", "ANTHROPIC_BASE_URL"}

Scrub(f, denied) == [v \in DOMAIN f \ denied |-> f[v]]

Inherited == [v \in parent |-> "inherited"]

\* WithHome, or the HOME of the calling process when New ran, if it had one.
HomeOf(d) == CASE d.home # "default" -> d.home
               [] d.home = "default" /\ "HOME" \in parent -> "inherited"
               [] OTHER -> ""

\* Fixed, and the dialect's own.
Constructed(d) == Over(DialectEnv(d), Over(Exported("HOME", HomeOf(d)), [v \in {"PATH"} |-> "minimal"]))

\* Bug: the credential goes in before the scrub.
BuildEnvScrubbedLast(d) ==
    IF ~d.isolated THEN Over(DialectEnv(d), Inherited)
                   ELSE Scrub(Over(AuthEnv(d), Constructed(d)), DenyEnv(d))

\* buildEnv: the credential goes on last.
BuildEnv(d) ==
    IF ~d.isolated THEN Over(DialectEnv(d), Inherited)
                   ELSE Over(AuthEnv(d), Scrub(Constructed(d), DenyEnv(d)))

Spawn ==
    /\ phase = "rendered"
    /\ env' = BuildEnv(driver)
    /\ Goes("spawned") /\ UNCHANGED <<model, argv>>

Next == New \/ Prepare \/ StreamCommand \/ Spawn

Spec == Init /\ [][Next]_vars

-----------------------------------------------------------------------------
(* Properties. *)

Spawned == phase = "spawned"

\* Whatever the provider and however the fields combine, a process is started only
\* with every field the caller set; a turn bound below one is not a bound, and the
\* model is the build its name means (driver.go:333-405; provider.go:388-390).
NothingDropped ==
    Spawned =>
        /\ \A f \in DOMAIN Unset \cup {"turns"} :
               (IF f = "turns" THEN req.turns > 0 ELSE req[f] # Unset[f]) => f \in DOMAIN argv
        /\ "model" \in DOMAIN argv => argv.model # "alias"

Count(e, i, c) == Cardinality({j \in 1..i : e[j] = c})
Steady(e) == \A i \in DOMAIN e : Count(e, i, ")") <= Count(e, i, "(")

ReadsBack(f) == f \in DOMAIN argv => CLIReads(argv[f]) = req[f]

\* The CLI reads a tool list as the entries the caller wrote, no wider and no
\* narrower, where no entry closes a parenthesis it has not opened
\* (claudecode/provider.go:389-443, 360-363).
ReadAsWritten ==
    Spawned /\ (\A e \in ToSet(req.allowed) \cup ToSet(req.denied) : Steady(e)) =>
        ReadsBack("allowed") /\ ReadsBack("denied")

\* The same of every entry that is accepted (claudecode/provider.go:389-391).
EveryEntryReadAsWritten == Spawned => ReadsBack("allowed") /\ ReadsBack("denied")

\* The variable a dialect's CLI finds its profile by, before it goes by HOME.
ProfileVariable(d) == IF d.dialect = "codex" THEN "CODEX_HOME" ELSE "CLAUDE_CONFIG_DIR"

\* Where the CLI reads its profile, and any session in it.
Profile ==
    LET v == ProfileVariable(driver)
        named == {v, "HOME"} \cap DOMAIN env
    IN  CASE v \in named -> env[v]
          [] named = {"HOME"} -> env["HOME"]
          [] OTHER -> ""

\* An isolated process has the token it was given in the variable its CLI reads, and
\* no denied variable beside it.  All it can inherit is HOME, where the caller set
\* none, and the profile is the calling process's own, whose session would outrank
\* the token, only where the caller nominated neither a profile nor a home
\* (env.go:31-49, 66-88; driver.go:72-75, 101; codex/provider.go:112-132, 555-586).
CredentialStands ==
    Spawned /\ driver.isolated =>
        /\ \A v \in DOMAIN AuthEnv(driver) : v \in DOMAIN env /\ env[v] = "token"
        /\ \A v \in DOMAIN env \cap DenyEnv(driver) : env[v] = "token"
        /\ \A v \in DOMAIN env : env[v] = "inherited" => v = "HOME" /\ driver.home = "default"
        /\ Profile = "inherited" => driver.home = "default" /\ driver.configDir = ""

\* The profile the caller nominated is the one the CLI uses, with the caller's
\* environment or without, whatever it held (codex/provider.go:577-585, 112-132;
\* claudecode/provider.go:460-465).
NominationStands ==
    Spawned /\ driver.dialect # "other" /\ driver.configDir # "" =>
        LET v == ProfileVariable(driver) IN v \in DOMAIN env /\ env[v] = driver.configDir
=============================================================================
