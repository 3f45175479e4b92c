SPECIFICATION Spec
CONSTANTS
  Strings <- MCStrings
  Regexps <- MCRegexps
  Paths <- MCPaths
  RegexpPaths <- MCRegexpPaths
  Before <- MCBefore
\* A lookup ends.
CHECK_DEADLOCK FALSE
INVARIANTS
  MatchesItsText
  ParamsMakePath
  PrefixTrue
  LeftAnchored
