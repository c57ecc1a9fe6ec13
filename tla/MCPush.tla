------------------------------- MODULE MCPush -------------------------------
(***************************************************************************)
(* Small instances of PushTool: pushes of a/x, and of x to a, and syncs of *)
(* a write the VM's a/x, in a directory they may all have to make.  The    *)
(* rules keep x from the syncs.                                            *)
(***************************************************************************)
EXTENDS PushTool, MCSync

X == <<"x">>
PushNames == (AX :> Two) @@ (X :> {})
PathP   == PathsOf(PushNames)
TempOfP == TempsOf(PushNames)
With(t, nx) == [t EXCEPT ![X] = nx]
LocalP  == {With(t, Old) : t \in SomeTrees(PathP, {Dir}, {New}, {Absent})}
RemoteP == SomeTrees(PathP, {Absent, Dir, Link}, {Old}, {Absent})
RulesP  == {[include |-> {A}, ignored |-> {}]}
Pushes  == {[files |-> {A, AX}, dest |-> Base], [files |-> {X}, dest |-> A]}

\* Disturbances: a crash leaves a temporary file; a pushed file
\* can be a link, to a file or not, and the VM has a file of an excluded name.
DisturbedNames == (AX :> Three) @@ (X :> {})
PathD   == PathsOf(DisturbedNames)
TempOfD == TempsOf(DisturbedNames)
LocalD  == {With(t, nx) : t \in SomeTrees(PathD, {Dir}, {New}, {Absent}),
                          nx \in {Old, Link}}
RemoteD == {NoBase(PathD)} \cup
           {With(t, Old) : t \in SomeTrees(PathD, {Dir, Link}, {Old}, {Absent})}
RulesD  == {[include |-> {A}, ignored |-> {}],
            [include |-> {}, ignored |-> {<<X, FALSE>>}]}

\* Bound: no behaviour has more than two of them, and of faults, in all.
TwoDisturbances ==
  faults + (MaxEdits - budget.edits) + (MaxIntrusions - budget.intrusions)
         + (MaxCrashes - budget.crashes) <= 2
=============================================================================
