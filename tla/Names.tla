-------------------------------- MODULE Names --------------------------------
(***************************************************************************)
(* The arithmetic of path names: the lexical checks that confine push and  *)
(* sync (internal/pathsafe) and the joins of the configuration             *)
(* (internal/config).                                                      *)
(*                                                                         *)
(* A raw path is what strings.Split(p, "/") makes of it: "" is <<"">>,     *)
(* "/a" is <<"", "a">> and "a//" is <<"a", "", "">>.  A clean path is the  *)
(* sequence of its names; of an absolute one the leading slash is implied. *)
(***************************************************************************)
EXTENDS Integers, SequencesExt

Blank(raw) == raw = <<"">>
Absolute(raw) == Len(raw) > 1 /\ raw[1] = ""

hasDotDotSegment(raw) == ".." \in ToSet(raw)

\* path.Clean: a ".." takes back the name before it, if there is one.
CleanStep(absolute, out, name) ==
  CASE name \in {"", "."} -> out
    [] name = ".." /\ out # <<>> /\ Last(out) # ".." -> Front(out)
    [] name = ".." /\ out = <<>> /\ absolute -> out
    [] OTHER -> Append(out, name)

Cleaned(absolute, raw) ==
  FoldLeft(LAMBDA out, name : CleanStep(absolute, out, name), <<>>, raw)

\* A clean path, as a raw one.
Written(clean) == IF clean = <<>> THEN <<".">> ELSE clean
WrittenAbsolute(clean) == <<"">> \o (IF clean = <<>> THEN <<"">> ELSE clean)

\* path.Join(first, second), neither of which is empty, as a raw path.
Joined(first, second) ==
  IF Absolute(first) THEN WrittenAbsolute(Cleaned(TRUE, first \o second))
                     ELSE Written(Cleaned(FALSE, first \o second))

\* filepath.Join(root, relative) for an absolute root.
RemoteJoin(root, relative) == Cleaned(TRUE, root \o relative)

\* The prefix test of all checks.  Of base "/" it asks for "//", so that
\* nothing but "/" itself is inside of it.
Inside(base, clean) ==
  clean = base \/ (base # <<>> /\ IsStrictPrefix(base, clean))

\* splitRel: no empty path, no absolute one, and none with a "..".
SplitRel(raw) == ~Blank(raw) /\ ~Absolute(raw) /\ ~hasDotDotSegment(raw)

\* CheckLocalLexical and CheckRemoteLexical: they only differ on Windows.
Candidate(base, raw) == Cleaned(TRUE, base \o raw)
CheckLexical(base, raw) == SplitRel(raw) /\ Inside(base, Candidate(base, raw))

\* CheckRemoteReal, of what the VM resolved.
CheckReal(canonical, real) == Inside(canonical, Cleaned(TRUE, real))
=============================================================================
