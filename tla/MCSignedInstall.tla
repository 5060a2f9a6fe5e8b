-------------------------- MODULE MCSignedInstall --------------------------
(* Two processes, one pin, two versions, and a server with old, foreign and *)
(* misshapen signatures.                                                    *)
EXTENDS SignedInstall

CONSTANTS p1, p2

MCPin == [p \in {p1, p2} |-> 2]
MCKeyFiles ==
    {<<"release">>, <<"release", "subkey">>, <<"other">>, <<"other", "release">>, <<"subkey">>}

Doc(v, b) == [version |-> v, build |-> b]
MCDocuments == {Doc(v, b) : v \in {1, 2}, b \in {1, 2, 0}} \cup {Doc(1, None)}
MCReleased == {Doc(1, 1), Doc(2, 2), Doc(1, None)}

Sub(t, c, x) == [type |-> t, critical |-> c, value |-> x]
Areas ==
    {<<>>, <<Sub("created", TRUE, 1)>>, <<Sub("created", TRUE, 0)>>,
     <<Sub("created", TRUE, 1), Sub("expires", TRUE, 1)>>,
     <<Sub("created", TRUE, 1), Sub("issuer", FALSE, "release")>>,
     <<Sub("created", TRUE, 1), Sub("issuer", FALSE, "other")>>,
     <<Sub("created", TRUE, 1), Sub("policy", TRUE, 0)>>,
     <<Sub("created", TRUE, 1), Sub("policy", FALSE, 0)>>}
MCSignatures ==
    {s \in [packets : {<<"binary">>, <<"binary", "binary">>}, hashed : Areas, by : {"release", "other"},
            over : MCDocuments] : s.by = "release" => s.over \in MCReleased}
=============================================================================
