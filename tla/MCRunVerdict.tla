---------------------------- MODULE MCRunVerdict ----------------------------
(* Runs of up to three lines, of every kind either decoder reads. *)
EXTENDS RunVerdict

Message(document, prose, limit) == [document |-> document, prose |-> prose, limit |-> limit]
MCCodexLines ==
    {[type |-> "thread.started", id |-> "thread"], [type |-> "turn.started"], [type |-> "error"],
     [type |-> "malformed"], [type |-> "turn.completed"]}
        \cup {[type |-> t, item |-> "agent_message", text |-> x] :
                 t \in {"item.started", "item.completed"}, x \in {"", "prose", "null", "json", "more"}}
        \cup {[type |-> t, item |-> i, text |-> "prose"] :
                 t \in {"item.started", "item.completed"}, i \in {"command_execution", "reasoning"}}
        \cup {[type |-> "turn.failed", message |-> Message(s, p, l)] :
                 s \in {0, 429, 400}, p \in {None, 401, 1000}, l \in BOOLEAN}

Envelope(x, sub, err, status, structured, usage) ==
    [type |-> "result", text |-> x, subtype |-> sub, isError |-> err, status |-> status,
     structured |-> structured, usage |-> usage, session |-> "session", turns |-> 1]
Usage(k, n, c) == [key |-> k, total |-> n, canonical |-> c]
Usages ==
    {{Usage(k, n[k], c[k]) : k \in 1..3} :
        n \in {<<0, 0, 0>>, <<1, 1, 0>>, <<0, 1, 1>>, <<1, 0, 1>>}, c \in {<<0, 0, 0>>, <<3, 1, 2>>, <<9, 0, 0>>}}
MCClaudeLines ==
    {[type |-> "system"], [type |-> "malformed"]}
        \cup {[type |-> t, shape |-> "unreadable", content |-> ""] : t \in {"assistant", "user"}}
        \cup {[type |-> t, shape |-> "string", content |-> x] : t \in {"assistant", "user"}, x \in {"", "prose"}}
        \cup {[type |-> "assistant", shape |-> "blocks", content |-> c] :
                 c \in {<<<<"thinking", "prose">>, <<"text", "">>>>, <<<<"text", "">>, <<"tool_use", "Read">>>>}}
        \cup {[type |-> "user", shape |-> "blocks", content |-> <<<<"tool_result", "prose">>>>]}
        \cup {Envelope(x, sub, err, status, None, {}) :
                 x \in {"", "prose"}, sub \in {"", "success"}, err \in BOOLEAN, status \in {0, 401, 400}}
        \cup {Envelope("prose", "success", err, 0, structured, {}) :
                 err \in BOOLEAN, structured \in {"null", "json"}}
        \cup {Envelope("prose", "success", FALSE, 0, "json", u) : u \in Usages}
=============================================================================
