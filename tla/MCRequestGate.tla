---------------------------- MODULE MCRequestGate ----------------------------
(* Every combination of the optional fields, and on its own every tool        *)
(* pattern of up to four characters and every list of two of up to one.       *)
EXTENDS RequestGate

D(dialect, pinned, configDir, isolated, home, m) ==
    [dialect |-> dialect, pinned |-> pinned, configDir |-> configDir, isolated |-> isolated,
     home |-> home, model |-> m]
MCDrivers ==
    {D(x, FALSE, "", FALSE, "", "alias") : x \in {"codex", "claude", "other"}}
        \cup {D(x, TRUE, "nominated", isolated, "home", "") :
                 x \in {"codex", "claude", "other"}, isolated \in BOOLEAN}
        \cup {D(x, TRUE, configDir, TRUE, home, "") :
                 x \in {"codex", "claude"}, configDir \in {"", "nominated"}, home \in {"default", "", "home"}}

Tool == <<"w", "(", "w", " ", "w", ")">>
Plain == [prompt |-> TRUE, model |-> "", turns |-> 0, session |-> "", agents |-> {}, mode |-> "",
          allowed |-> <<>>, denied |-> <<>>, schema |-> Nil]
Agent(named, described) == [named |-> named, described |-> described, prompted |-> TRUE]
Fields ==
    [prompt : BOOLEAN, model : {"", "alias"}, turns : {-1, 0, 1}, session : {"", "s"},
     agents : {{}, {Agent(TRUE, TRUE)}, {Agent(TRUE, TRUE), Agent(TRUE, FALSE)}},
     mode : {"", "read-only", "plan"}, allowed : {<<>>, <<Tool>>}, denied : {<<>>, <<Tool, <<"*">>>>},
     schema : {Nil, "object", "null", "empty"}]

Characters == {"w", "(", ")", " ", ",", "*"}
Patterns(n) == UNION {[1..k -> Characters] : k \in 0..n}
Lists == {<<e>> : e \in Patterns(4)} \cup {<<e, g>> : e, g \in Patterns(1)}
MCRequests ==
    Fields \cup {[Plain EXCEPT !.allowed = l] : l \in Lists} \cup {[Plain EXCEPT !.denied = l] : l \in Lists}
MCParents == {{}, {"CODEX_HOME", "CLAUDE_CONFIG_DIR", "HOME", "OPENAI_API_KEY", "ANTHROPIC_BASE_URL"}}
=============================================================================
