---------------------------- MODULE RegexpPattern ----------------------------
(***************************************************************************)
(* sketchOnRegex (web/regexp_pattern.go): a regular expression gets \A put *)
(* before it unless it is anchored, and its compiled program is walked for *)
(* a literal prefix.  An expression is the sequence of its alternatives,   *)
(* an alternative the sequence of its items.  The parser, the compiler and *)
(* the matcher are packages regexp and regexp/syntax.                      *)
(***************************************************************************)
EXTENDS Integers, SequencesExt

Item(op, c, re) == [op |-> op, c |-> c, re |-> re]
Char(c) == Item("char", c, <<>>)
Fold(c) == Item("fold", c, <<>>)        \* (?i:c)
Dot == Item("any", "", <<>>)          \* .
Begin == Item("begin", "", <<>>)        \* ^ and \A
Stop == Item("stop", "", <<>>)          \* not in expressions: the program forks
Group(re) == Item("group", "", re)
Opt(re) == Item("opt", "", re)
Star(re) == Item("star", "", re)
Plus(re) == Item("plus", "", re)

Upper(c) == IF c = "a" THEN "A" ELSE c

-----------------------------------------------------------------------------
(* What an expression matches: where a match ends that starts in P.        *)
RECURSIVE Ends(_, _, _), Closure(_, _, _)

Read(path, P, Is(_)) == {p + 1 : p \in {q \in P : q < Len(path) /\ Is(path[q + 1])}}

ItemEnds(i, path, P) ==
    CASE i.op = "char" -> Read(path, P, LAMBDA c : c = i.c)
      [] i.op = "fold" -> Read(path, P, LAMBDA c : c \in {i.c, Upper(i.c)})
      [] i.op = "any" -> Read(path, P, LAMBDA c : TRUE)
      [] i.op = "begin" -> P \cap {0}
      [] i.op = "group" -> Ends(i.re, path, P)
      [] i.op = "opt" -> P \cup Ends(i.re, path, P)
      [] i.op = "star" -> Closure(i.re, path, P)
      [] i.op = "plus" -> Closure(i.re, path, Ends(i.re, path, P))

Ends(re, path, P) ==
    UNION {FoldLeft(LAMBDA Q, i : ItemEnds(i, path, Q), P, re[n]) : n \in DOMAIN re}
Closure(re, path, P) ==
    LET Q == P \cup Ends(re, path, P) IN IF Q = P THEN P ELSE Closure(re, path, Q)

\* regexp.FindStringSubmatch: a match may start anywhere.
MatchesFrom(re, path, start) == Ends(re, path, {start}) # {}
Found(re, path) == \E start \in 0 .. Len(path) : MatchesFrom(re, path, start)

-----------------------------------------------------------------------------
(* syntax.Parse factors what all alternatives begin with: literals, and in *)
(* some releases of Go also ^.                                             *)

Factor(re, factored) ==
    LET shared(n) == \A r \in DOMAIN re, k \in 1 .. n :
                        /\ Len(re[r]) >= n
                        /\ re[r][k] = re[1][k] /\ re[1][k].op \in factored
    IN  SubSeq(re[1], 1, Max({n \in 0 .. Len(re[1]) : shared(n)}))

\* How the program of re begins, up to where it forks.
Leading(re, factored) ==
    IF Len(re) = 1 THEN re[1] ELSE Factor(re, factored) \o <<Stop>>

\* Mutant: the walk goes into what is optional.
Enters_Optional == {"group", "plus", "opt"}
Enters == {"group", "plus"}

RECURSIVE Walk(_, _, _), StartsAtBegin(_, _)

\* prog.StartCond: an anchor comes before everything else.
StartsAtBegin(items, factored) ==
    /\ items # <<>>
    /\ \/ items[1].op = "begin"
       \/ /\ items[1].op \in Enters
          /\ StartsAtBegin(Leading(items[1].re, factored)
                \o IF items[1].op = "group" THEN Tail(items) ELSE <<Stop>>, factored)

\* Mutant: a character of either case is a literal.
Literal_Fold == {"char", "fold"}
Literal == {"char"}

\* The loop Sadness: characters, until the program forks or has none to offer.
Walk(items, factored, atStart) ==
    IF items = <<>> THEN <<>>
    ELSE LET i == items[1] IN
         CASE i.op \in Literal -> <<i.c>> \o Walk(Tail(items), factored, FALSE)
           [] i.op = "begin" /\ atStart -> Walk(Tail(items), factored, TRUE)
           [] i.op = "group" -> Walk(Leading(i.re, factored) \o Tail(items), factored, atStart)
           [] i.op = "plus" -> Walk(Leading(i.re, factored) \o <<Stop>>, factored, atStart)
           [] OTHER -> <<>>

\* `\A` is put before the text, and so before the first alternative only.
Anchor(re) == <<<<Begin>> \o re[1]>> \o Tail(re)

SketchOnRegex(re, factored) ==
    [ re |-> IF StartsAtBegin(Leading(re, factored), factored) THEN re ELSE Anchor(re),
      prefix |-> Walk(Leading(re, factored), factored, TRUE) ]
==============================================================================
