-------------------------- MODULE MCPackageExtract --------------------------
(* Names that are plain, respelt, doubled, outside, and of two targets. *)
EXTENDS PackageExtract

Relative(ps) == [abs |-> FALSE, parts |-> ps]
V == <<"package", "vendor">>

MCNames ==
    {Relative(V \o ps) : ps \in {
        <<"t1">>, <<"t1", "bin", "codex">>, <<"t1", "bin">>, <<"t1", "rg">>,
        <<"t2", "bin", "codex">>, <<"t1", "..", "t2", "rg">>, <<"t1", "x", "..", "rg">>,
        <<"", "t1", ".", "bin", "codex", "">>, <<"t1", "..", "..", "README">>,
        <<"t1", "..", "..", "..", "..", "evil">>, <<"t1", "..", "..", "..", "..">>,
        <<"..", "..", "..", "package", "vendor", "t1", "rg">>}}
    \cup {Relative(<<"package", "package.json">>), Relative(<<"..", "evil">>),
          [abs |-> TRUE, parts |-> <<"..", "evil">>],
          [abs |-> TRUE, parts |-> V \o <<"t1", "rg">>]}
=============================================================================
