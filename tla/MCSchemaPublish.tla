-------------------------- MODULE MCSchemaPublish --------------------------
(* Two goroutines that share a provider value, and one run of another value. *)
EXTENDS SchemaPublish

CONSTANTS r1, r2, r3

MCRuns == {r1, r2, r3}
MCProviderOf == [r \in MCRuns |-> IF r = r3 THEN 2 ELSE 1]

\* The values live in two processes.  Two values of one process do the same
\* steps and differ only in that they die together, as they do in a power cut.
MCProcOf == <<1, 2>>
=============================================================================
