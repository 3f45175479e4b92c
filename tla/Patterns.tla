------------------------------- MODULE Patterns -------------------------------
(***************************************************************************)
(* A route's pattern, as its parsers make it, meets a path: ParsePattern   *)
(* when the route is added, Match and then Run when the router looks a     *)
(* request up.                                                             *)
(***************************************************************************)
EXTENDS StringPattern, RegexpPattern

CONSTANTS Strings, Regexps,     \* what a route may be added with
          Paths, RegexpPaths,   \* the paths that each kind is asked about
          Before                \* the URLParams that an outer mux has left

VARIABLES kind, raw, factored, path,    \* the input; what the regexp parser factors
          pattern, answer, params, pc

vars == <<kind, raw, factored, path, pattern, answer, params, pc>>
input == <<kind, raw, factored, path>>

Init ==
    /\ \/ /\ kind = "string" /\ raw \in Strings /\ path \in Paths /\ factored = {}
       \/ /\ kind = "regexp" /\ raw \in Regexps /\ path \in RegexpPaths
          /\ factored \in {{"char"}, {"char", "begin"}}
    /\ pattern = <<>> /\ answer = FALSE /\ params = Before /\ pc = "parse"

ParsePattern ==
    /\ pc = "parse" /\ pc' = "match"
    /\ pattern' = IF kind = "string" THEN ParseStringPattern(raw) ELSE SketchOnRegex(raw, factored)
    /\ UNCHANGED <<input, answer, params>>

Match ==
    /\ pc = "match"
    /\ answer' = IF kind = "string" THEN StringMatch(pattern, path).ok
                 ELSE Found(pattern.re, path)
    /\ pc' = IF answer' /\ kind = "string" THEN "run" ELSE "done"
    /\ UNCHANGED <<input, pattern, params>>

\* The names and values of a regexp's groups are left to package regexp.
Run ==
    /\ pc = "run" /\ pc' = "done"
    /\ params' = StringMatch(pattern, path).params @@ params
    /\ UNCHANGED <<input, pattern, answer>>

Next == ParsePattern \/ Match \/ Run
Spec == Init /\ [][Next]_vars

-----------------------------------------------------------------------------
(* Properties.                                                             *)

\* The pattern taken apart by its text: name n is what stands between a break
\* character with a colon and the next break character or the end.
IsName(i, j) ==
    /\ i \in 3 .. Len(raw) /\ j \in i .. Len(raw)
    /\ raw[i - 1] = ":" /\ raw[i - 2] \in Bc /\ \A k \in i .. j : raw[k] \notin Bc
    /\ j = Len(raw) \/ raw[j + 1] \in Bc
NameEnd(i) == {j \in i .. Len(raw) : IsName(i, j)}
Wild == Len(raw) > 1 /\ raw[Len(raw)] = "*" /\ raw[Len(raw) - 1] = "/"

(* The places of path[p..] that raw[i..] can end at when every name stands *)
(* for characters of which none ends it, and a final star for anything.    *)
RECURSIVE Fits(_, _)
Fits(i, p) ==
    IF i > Len(raw) THEN p = Len(path) + 1
    ELSE IF Wild /\ i = Len(raw) THEN TRUE
    ELSE IF raw[i] = ":" /\ NameEnd(i + 1) # {}
    THEN \E j \in NameEnd(i + 1), q \in p + 1 .. Len(path) + 1 :
            /\ \A k \in p .. q - 1 :
                  path[k] # "/" /\ (j < Len(raw) => path[k] # raw[j + 1])
            /\ Fits(j + 1, q)
    ELSE p <= Len(path) /\ path[p] = raw[i] /\ Fits(i + 1, p + 1)

(* A string pattern matches the paths that its text describes: names stand *)
(* for non-empty values that end at a slash or the pattern's own break     *)
(* character, and nothing may be left but under a final "/*" (web.go:62-79, *)
(* string_pattern.go:53-54).                                               *)
MatchesItsText == pc \in {"run", "done"} /\ kind = "string" => (answer <=> Fits(1, 1))

\* The text of raw[i..] with every name replaced by its value in params.
RECURSIVE Filled(_)
Filled(i) ==
    IF i > Len(raw) THEN <<>>
    ELSE IF Wild /\ i = Len(raw) - 1 THEN params[<<"*">>]
    ELSE IF raw[i] = ":" /\ NameEnd(i + 1) # {}
    THEN LET j == CHOOSE j \in NameEnd(i + 1) : TRUE IN
         params[SubSeq(raw, i + 1, j)] \o Filled(j + 1)
    ELSE <<raw[i]>> \o Filled(i + 1)

\* Two names of one pattern may be the same, or one be the star's.
Bound == {SubSeq(raw, i, j) : <<i, j>> \in
             {x \in (3 .. Len(raw)) \X (3 .. Len(raw)) : IsName(x[1], x[2])}}
Distinct ==
    /\ Cardinality(Bound) = Cardinality({i \in 3 .. Len(raw) : \E j \in i .. Len(raw) : IsName(i, j)})
    /\ Wild => <<"*">> \notin Bound

(* What Run binds put into the pattern is the path again, whatever an      *)
(* outer mux has bound before.  The star keeps its slash, which SubRouter  *)
(* relies on.                                                              *)
ParamsMakePath ==
    pc = "done" /\ kind = "string" /\ answer /\ Distinct => Filled(1) = path

(* Every path that a pattern matches from its beginning has the prefix by  *)
(* which the compiled router decides whether to ask it at all              *)
(* (pattern.go:17-22, regexp_pattern.go:61-63).                            *)
PrefixTrue ==
    /\ pc # "parse" /\ kind = "string" /\ StringMatch(pattern, path).ok
          => IsPrefix(StringPrefix(pattern), path)
    /\ pc # "parse" /\ kind = "regexp" /\ MatchesFrom(pattern.re, path, 0)
          => IsPrefix(pattern.prefix, path)

\* An alternative after the first one that does not begin with ^.
LooseAlternative ==
    \E n \in 2 .. Len(raw) : raw[n] = <<>> \/ raw[n][1] # Begin

(* The regexp of a route is "just like" the one it was added with, "but    *)
(* left-anchored" (regexp_pattern.go:59-60).  Not with alternatives at the *)
(* top: `\A` goes to the first of them only.                               *)
LeftAnchored ==
    pc = "done" /\ kind = "regexp" /\ ~LooseAlternative
        => (answer <=> MatchesFrom(raw, path, 0))
===============================================================================
