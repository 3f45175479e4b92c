---------------------------- MODULE StringPattern ----------------------------
(***************************************************************************)
(* String patterns (web/string_pattern.go): parsing "/a/:b.:c/*" into its  *)
(* literals, names and break characters, and matching a path.  A string is *)
(* the sequence of its characters.                                         *)
(***************************************************************************)
EXTENDS Integers, SequencesExt

Bc == {"/", ".", ";", ","}      \* characters that end a name

\* The maximal run of path characters from i on that none of stop occurs in.
Until(s, i, stop) ==
    CHOOSE j \in i .. Len(s) + 1 :
        /\ \A k \in i .. j - 1 : s[k] \notin stop
        /\ j = Len(s) + 1 \/ s[j] \in stop

\* The names of patternRe: where they start and end.  A name has no break
\* character and a match starts with one, so that matches do not overlap.
Names(s) ==
    LET starts == {i \in 3 .. Len(s) : s[i - 2] \in Bc /\ s[i - 1] = ":" /\ s[i] \notin Bc} IN
    [n \in 1 .. Cardinality(starts) |->
        LET i == SetToSortSeq(starts, <)[n] IN <<i, Until(s, i, Bc)>>]

\* What ends the name that ends before b.
Break(s, b) == IF b > Len(s) THEN "/" ELSE s[b]

IsWildcard(s) == IsSuffix(<<"/", "*">>, s)

ParseStringPattern(raw) ==
    LET wildcard == IsWildcard(raw)
        s == IF wildcard THEN Front(raw) ELSE raw
        names == Names(s)
        end(n) == IF n = 0 THEN 1 ELSE names[n][2]
    IN
    [ pats |-> [n \in DOMAIN names |-> SubSeq(s, names[n][1], names[n][2] - 1)],
      breaks |-> [n \in DOMAIN names |-> Break(s, names[n][2])],
      literals |-> [n \in 1 .. Len(names) + 1 |->
          SubSeq(s, end(n - 1), IF n <= Len(names) THEN names[n][1] - 2 ELSE Len(s))],
      wildcard |-> wildcard ]

StringPrefix(p) == p.literals[1]

Drop(s, n) == SubSeq(s, n + 1, Len(s))
NoMatch == [ok |-> FALSE, rest |-> <<>>, params |-> <<>>]

\* Mutant: an empty string is a value.
Value_Empty(s, stop) == [ok |-> TRUE, end |-> Until(s, 1, stop)]
Value(s, stop) == [ok |-> Until(s, 1, stop) > 1, end |-> Until(s, 1, stop)]

\* One turn of match's loop: a literal, then what the n-th name is bound to.
Bind(p, n, m) ==
    LET path == Drop(m.rest, Len(p.literals[n]))
        value == Value(path, {p.breaks[n], "/"})
    IN  IF m.ok /\ IsPrefix(p.literals[n], m.rest) /\ value.ok
        THEN [ok |-> TRUE, rest |-> Drop(path, value.end - 1),
              params |-> (p.pats[n] :> SubSeq(path, 1, value.end - 1)) @@ m.params]
        ELSE NoMatch

\* Mutant: the star is bound without its slash.
StarValue_NoSlash(rest, tail) == Drop(rest, Len(tail))
StarValue(rest, tail) == Drop(rest, Len(tail) - 1)

\* match: the answer, and the map that a Run binds.
StringMatch(p, path) ==
    LET m == FoldLeft(LAMBDA acc, n : Bind(p, n, acc),
                      [ok |-> TRUE, rest |-> path, params |-> <<>>],
                      [n \in DOMAIN p.pats |-> n])
        tail == Last(p.literals)
    IN  IF ~m.ok THEN NoMatch
        ELSE IF p.wildcard
        THEN IF IsPrefix(tail, m.rest)
             THEN [m EXCEPT !.params = (<<"*">> :> StarValue(m.rest, tail)) @@ @] ELSE NoMatch
        ELSE IF m.rest = tail THEN m ELSE NoMatch
==============================================================================
