------------------------------- MODULE Ignore -------------------------------
(***************************************************************************)
(* The rules that keep files from being pushed and synced                  *)
(* (internal/ignore): include, .gitignore files, and the project's own     *)
(* ignore list.                                                            *)
(*                                                                         *)
(* A line of a pattern file is [negated, segs]: whether it starts with     *)
(* "!", and the rest of it split at "/".  Blank lines are of the form      *)
(* <<"">>; comments are left out.  Go's maps and slices of a Matcher are   *)
(* one record here: .gitignore files by directory, the order in which they *)
(* are applied, and the project's own list.                                *)
(***************************************************************************)
EXTENDS Names

CONSTANTS
  Globs,   \* the pairs <<glob, name>> for which path.Match is true
  Rank     \* Rank[n]: where name n comes in the byte order of names

ASSUME GlobAssumption == \A g \in Globs : g \in STRING \X STRING
ASSUME RankAssumption ==
  /\ \A n \in DOMAIN Rank : Rank[n] \in Nat
  /\ \A n, m \in DOMAIN Rank : Rank[n] = Rank[m] => n = m

-----------------------------------------------------------------------------
\* compilePattern: a slash at the end asks for a directory; one at the start,
\* or between two segments, ties the pattern to the file's own directory.
CompilePattern(line) ==
  LET dirOnly == Absolute(Reverse(line.segs))
      rest == IF dirOnly THEN Front(line.segs) ELSE line.segs
      leading == Absolute(rest)
      segs == IF leading THEN Tail(rest) ELSE rest
  IN  [negate |-> line.negated, dirOnly |-> dirOnly, segs |-> segs,
       anchored |-> leading \/ Len(segs) > 1, ok |-> ~Blank(rest)]

\* Mutant of MatchSegs: "**" stands for at least one name.
MatchSegsAtLeastOne(pat, pth) ==
  LET match[i \in 1 .. Len(pat) + 1] ==
        [j \in 1 .. Len(pth) + 1 |->
           IF i > Len(pat) THEN j > Len(pth)
           ELSE IF pat[i] = "**"
           THEN \E k \in j + 1 .. Len(pth) + 1 : i = Len(pat) \/ match[i + 1][k]
           ELSE j <= Len(pth) /\ <<pat[i], pth[j]>> \in Globs /\ match[i + 1][j + 1]]
  IN  match[1][1]

\* matchSegs, for what is left of the pattern from i and of the path from j on.
MatchSegs(pat, pth) ==
  LET match[i \in 1 .. Len(pat) + 1] ==
        [j \in 1 .. Len(pth) + 1 |->
           IF i > Len(pat) THEN j > Len(pth)
           ELSE IF pat[i] = "**"
           THEN i = Len(pat) \/ \E k \in j .. Len(pth) + 1 : match[i + 1][k]
           ELSE j <= Len(pth) /\ <<pat[i], pth[j]>> \in Globs /\ match[i + 1][j + 1]]
  IN  match[1][1]

\* pattern.matches: one that is not anchored may start at any depth.
Matches(p, rel, isDir) ==
  /\ p.dirOnly => isDir
  /\ IF p.anchored THEN MatchSegs(p.segs, rel)
     ELSE \E i \in 1 .. Len(rel) : MatchSegs(p.segs, SubSeq(rel, i, Len(rel)))

\* compileLines
WithLine(out, line) ==
  IF CompilePattern(line).ok THEN Append(out, CompilePattern(line)) ELSE out
Compiled(lines) == FoldLeft(LAMBDA out, line : WithLine(out, line), <<>>, lines)

\* applyPatterns: the last match decides.
ApplyPatterns(patterns, rel, isDir, state) ==
  FoldLeft(LAMBDA s, p : IF Matches(p, rel, isDir) THEN ~p.negate ELSE s,
           state, patterns)

-----------------------------------------------------------------------------
\* WalkDir goes through each directory in the order of its names, and finds
\* the .gitignore among them.
Found(dir) == Append(dir, ".gitignore")
WalkedBefore(d, e) ==
  \E i \in 1 .. Len(d) + 1 : /\ i <= Len(e) + 1
                             /\ SubSeq(d, 1, i - 1) = SubSeq(e, 1, i - 1)
                             /\ Rank[Found(d)[i]] < Rank[Found(e)[i]]

\* Mutant of SortedBefore: the order of the walk is kept.
SortedBeforeNot(d, e) == WalkedBefore(d, e)

\* strings.Count(dir, "/"), by which sortByDepth orders what the walk found;
\* ties stay as they are.
Slashes(dir) == IF dir = <<>> THEN 0 ELSE Len(dir) - 1
SortedBefore(d, e) ==
  \/ Slashes(d) < Slashes(e)
  \/ Slashes(d) = Slashes(e) /\ WalkedBefore(d, e)
SortByDepth(dirs) ==
  CHOOSE s \in SetToSeqs(dirs) :
    \A i, j \in DOMAIN s : i < j => SortedBefore(s[i], s[j])

\* ignore.New; gitignores has the lines of every .gitignore, by its directory.
\* One that cannot be read is passed over without a word.
Matcher(gitignores, unreadable, own, useGitignore) ==
  LET dirs == IF useGitignore THEN DOMAIN gitignores \ unreadable ELSE {}
  IN  [gitignoreDirs |-> SortByDepth(dirs),
       gitignoreBy   |-> [d \in dirs |-> Compiled(gitignores[d])],
       ownIgnore     |-> Compiled(own)]

\* ignoredSelf: what the patterns say of rel itself.
IgnoredSelf(m, rel, isDir) ==
  LET byFile(s, d) ==
        IF IsStrictPrefix(d, rel)
        THEN ApplyPatterns(m.gitignoreBy[d], SubSeq(rel, Len(d) + 1, Len(rel)), isDir, s)
        ELSE s
  IN  ApplyPatterns(m.ownIgnore, rel, isDir, FoldLeft(byFile, FALSE, m.gitignoreDirs))

\* Mutant of IgnoredByRules: only the path itself is looked at.
IgnoredByRulesAlone(m, rel, isDir) == IgnoredSelf(m, rel, isDir)

\* Matcher.Ignored: an ignored directory takes all that is in it with it.
IgnoredByRules(m, rel, isDir) ==
  \/ \E i \in 1 .. Len(rel) - 1 : IgnoredSelf(m, SubSeq(rel, 1, i), TRUE)
  \/ IgnoredSelf(m, rel, isDir)

\* strings.Trim(raw, "/")
Trimmed(raw) ==
  LET named == {i \in 1 .. Len(raw) : raw[i] # ""}
  IN  IF named = {} THEN <<"">> ELSE SubSeq(raw, Min(named), Max(named))

\* MatchInclude
Included(includes, rel) ==
  \/ includes = {}
  \/ \E inc \in includes : rel = Trimmed(inc) \/ IsStrictPrefix(Trimmed(inc), rel)

-----------------------------------------------------------------------------
(***************************************************************************)
(* What gitignore(5) promises, without an order of evaluation: of the      *)
(* patterns that match, the one in the deepest .gitignore, and there the   *)
(* last one, decides; the project's own list comes above all of them.      *)
(***************************************************************************)

\* pth is cut into as many pieces as pat has segments: one name for each, and
\* any number of names for a "**", but at least one at the end of a pattern,
\* which means what is inside of a directory.
Fits(pat, pth) ==
  \E cut \in [0 .. Len(pat) -> 0 .. Len(pth)] :
    /\ cut[0] = 0 /\ cut[Len(pat)] = Len(pth)
    /\ \A i \in 1 .. Len(pat) :
         IF pat[i] = "**"
         THEN cut[i - 1] <= cut[i] /\ (i = Len(pat) => cut[i - 1] # cut[i])
         ELSE cut[i] = cut[i - 1] + 1 /\ <<pat[i], pth[cut[i]]>> \in Globs

\* A pattern without a slash but at its end is the same as one after "**/".
GitMatches(p, rel, isDir) ==
  /\ p.dirOnly => isDir
  /\ Fits(IF p.anchored THEN p.segs ELSE <<"**">> \o p.segs, rel)

\* The matches as <<depth of the file, place in it, excludes>>; no .gitignore
\* that has a say on rel is as deep as rel itself.
Hits(m, rel, isDir) ==
  LET of(level, patterns, sub) ==
        {<<level, i, ~patterns[i].negate>> :
           i \in {j \in DOMAIN patterns : GitMatches(patterns[j], sub, isDir)}}
      above == {d \in DOMAIN m.gitignoreBy : IsStrictPrefix(d, rel)}
  IN  of(Len(rel), m.ownIgnore, rel) \cup
      UNION {of(Len(d), m.gitignoreBy[d], SubSeq(rel, Len(d) + 1, Len(rel))) : d \in above}

Decides(h, hits) ==
  \A g \in hits : g[1] < h[1] \/ (g[1] = h[1] /\ g[2] <= h[2])
ExcludedSelf(m, rel, isDir) ==
  LET hits == Hits(m, rel, isDir)
  IN  \E h \in hits : Decides(h, hits) /\ h[3]

ExcludedByGit(m, rel, isDir) ==
  \/ \E i \in 1 .. Len(rel) - 1 : ExcludedSelf(m, SubSeq(rel, 1, i), TRUE)
  \/ ExcludedSelf(m, rel, isDir)
=============================================================================
