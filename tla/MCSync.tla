------------------------------- MODULE MCSync -------------------------------
(***************************************************************************)
(* Small instances of SyncEngine: a directory a with one place x in it, a  *)
(* second place b, and temporary names next to each of them.               *)
(***************************************************************************)
EXTENDS SyncEngine, TLC

A  == <<"a">>
AX == <<"a", "x">>
B  == <<"b">>
Temp(p, n) == Append(Parent(p), "." \o p[Len(p)] \o n)

\* Paths with the temporary names they get, given how many each.
Temporaries(ns) == [p \in DOMAIN ns |-> {Temp(p, n) : n \in ns[p]}]
PathsOf(ns) == {Base, A} \cup DOMAIN ns \cup UNION {Temporaries(ns)[p] : p \in DOMAIN ns}
TempsOf(ns) == [p \in PathsOf(ns) \ {Base} |->
                  IF p \in DOMAIN ns THEN Temporaries(ns)[p] ELSE {}]

One == {"1"}
Two == {"1", "2"}
Three == {"1", "2", "3"}
Full   == (A :> One) @@ (AX :> One) @@ (B :> One)
Path1   == PathsOf(Full)
TempOf1 == TempsOf(Full)

Contents == {"old", "new"}
Sizes == [d \in {"old", "new", "torn"} |->
            CASE d = "old" -> 1 [] d = "new" -> 2 [] d = "torn" -> 0]

\* Trees over a, a/x and b, b present in few ways, a in all.
Nodes(cs) == {Absent, Dir, Link} \cup {File(d, 0) : d \in cs}
Plant(paths, base, na, nx, nb) ==
  [p \in paths |-> CASE p = Base -> base
                     [] p = A    -> na
                     [] p = AX   -> nx
                     [] p = B    -> nb
                     [] OTHER    -> Absent]
SomeTrees(paths, as, xs, bs) ==
  {Plant(paths, Dir, na, nx, nb) : na \in as \ {Dir}, nx \in {Absent}, nb \in bs}
  \cup (IF Dir \in as THEN {Plant(paths, Dir, Dir, nx, nb) : nx \in xs, nb \in bs}
        ELSE {})
NoBase(paths) == Plant(paths, Absent, Absent, Absent, Absent)

AllLocal1 == SomeTrees(Path1, Nodes(Contents), Nodes(Contents), Nodes(Contents))
AllRemote1 == AllLocal1 \cup {NoBase(Path1)}

NoRules == [include |-> {}, ignored |-> {}]
SomeRules == {NoRules,
              [include |-> {A}, ignored |-> {}],
              [include |-> {AX}, ignored |-> {}],
              [include |-> {}, ignored |-> {<<AX, FALSE>>}],
              [include |-> {}, ignored |-> {<<A, TRUE>>}],
              [include |-> {}, ignored |-> {<<B, TRUE>>, <<B, FALSE>>}]}

New == File("new", 0)
Old == File("old", 0)
RulesF  == {NoRules}

\* Two callers: both replace b, and find each other's temporary file.
PairNames == (AX :> Two) @@ (B :> Two)
Path2   == PathsOf(PairNames)
TempOf2 == TempsOf(PairNames)
Local2  == SomeTrees(Path2, {Dir}, {Absent, New}, {New})
Remote2 == SomeTrees(Path2, {Absent, Dir}, {Old}, {Old})

\* Convergence: a needs two syncs when a directory full of files is in the
\* place of a file.  The contents can only be told apart by their mtimes.
\* A file in the place of a directory, or a link, no sync ever resolves.
SameSize == [d \in {"old", "new", "torn"} |-> IF d = "torn" THEN 0 ELSE 1]
RepeatNames == (A :> Three) @@ (AX :> Three)
PathR   == PathsOf(RepeatNames)
TempOfR == TempsOf(RepeatNames)
LocalR  == SomeTrees(PathR, {Dir, New}, {New}, {Absent})
RemoteR == {NoBase(PathR)} \cup SomeTrees(PathR, {Dir}, {Absent, Old}, {Old})

\* Links on the VM.
LocalL  == SomeTrees(Path1, {Absent, Dir}, {New}, {New})
RemoteL == SomeTrees(Path1, {Absent, Dir, Link}, {Absent, Link}, {Absent, Link})

\* A file to delete, in a directory that is not the only one in its place.
LocalW  == SomeTrees(Path1, {Dir}, {Absent}, {Absent})
RemoteW == SomeTrees(Path1, {Dir}, {Old}, {Absent})

Callers == Permutations(Caller)
=============================================================================
