------------------------------ MODULE MCPatterns ------------------------------
(* Instances of Patterns for TLC. *)
EXTENDS Patterns

UpTo(S, n) == UNION {[1 .. k -> S] : k \in 0 .. n}
Texts(S, n) == {FlattenSeq(x) : x \in UpTo(S, n)}

MCStrings ==
    UpTo({"/", ":", ".", "a", "*"}, 3) \cup
    Texts({<<"/">>, <<"/", ":", "a">>, <<".", ":", "b">>, <<".">>, <<"a">>, <<"/", "*">>}, 4)
MCPaths == UpTo({"/", ".", "a"}, 5)

Atoms == {Char("/"), Char("a"), Fold("a"), Dot, Begin}
Inner == {<<x>> : x \in UpTo({Char("/"), Char("a"), Begin}, 2)} \cup
         {<<<<Char("/")>>, <<Char("/"), Char("a")>>>>, <<<<Begin>>, <<Char("a")>>>>}
Repeats == UNION {{Group(r), Opt(r), Star(r), Plus(r)} : r \in Inner}
MCRegexps ==
    {<<x>> : x \in UpTo(Atoms, 3)} \cup
    {<<x, y>> : x \in UpTo(Atoms, 2), y \in UpTo(Atoms, 2)} \cup
    {<<x \o <<r>> \o y>> : x \in UpTo(Atoms, 1), r \in Repeats, y \in UpTo(Atoms, 1)}
MCRegexpPaths == UpTo({"/", "a", "A"}, 3)
MCBefore == <<"*">> :> <<"old">> @@ <<"a">> :> <<"old">>
===============================================================================
