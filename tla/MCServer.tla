------------------------------ MODULE MCServer ------------------------------
(***************************************************************************)
(* Small instances of Tools: a project with directories three deep, with   *)
(* .gitignore files in some of them, two VMs, and launches that go wrong   *)
(* in every way main knows.                                                *)
(***************************************************************************)
EXTENDS Tools

Line(negated, segs) == [negated |-> negated, segs |-> segs]

AllNames == <<".ci", ".gitignore", "a", "b", "x.log">>
Ranks == [n \in ToSet(AllNames) |-> SelectInSeq(AllNames, LAMBDA m : m = n)]
MCGlobs == {<<n, n>> : n \in ToSet(AllNames)} \cup {<<"*.log", "x.log">>}

Root == <<"home", "p">>
Logs == <<"x.log">>
A   == <<"a">>
AB  == <<"a", "b">>
ACi == <<"a", ".ci">>
Ci  == <<".ci">>
Directory(dirs, gitignores) ==
  [canonical |-> <<"disk", "p">>, dirs |-> dirs, links |-> {<<"l">>},
   files |-> {d \o Logs : d \in dirs}, gitignores |-> gitignores, unreadable |-> {}]

NoLogs  == <<Line(FALSE, <<"*.log">>)>>
LogsToo == <<Line(FALSE, <<"">>), Line(TRUE, <<"*.log">>)>>
Gitignores ==
  {[d \in {<<>>, A, ACi} |-> CASE d = <<>> -> root [] d = A -> a [] OTHER -> ci] :
     root \in {NoLogs, LogsToo}, a \in {NoLogs, LogsToo}, ci \in {NoLogs, LogsToo}}

OwnLists ==
  {<<>>,
   <<Line(FALSE, <<"", "a", "">>)>>,
   <<Line(FALSE, <<"**", "b", "x.log">>), Line(TRUE, <<"a", "**", "x.log">>)>>,
   <<Line(FALSE, <<"a", "**">>), Line(FALSE, <<"">>), Line(FALSE, <<"", "">>)>>,
   <<Line(FALSE, <<"**", "a", "**", "b", "**">>)>>,
   <<Line(FALSE, <<"b", "">>), Line(TRUE, <<"", "x.log">>)>>}

Project(remote, include, own, git) ==
  [dir |-> <<"home", "conf">>, decodes |-> TRUE, project_root |-> <<"..", "p">>,
   remote_local_root |-> remote, include |-> include, ignore |-> own,
   use_gitignore |-> git]

VM(root, port) ==
  [given |-> {"address", "user", "identity_file", "remote_root"},
   remote_root |-> root, port |-> port]
VMFile(keys, vms) ==
  [dir |-> <<"etc">>, decodes |-> TRUE, hasVMs |-> TRUE, keys |-> keys, vms |-> vms]
\* z is declared before m, and has a table of its own inside.
TwoVMs(root, port) ==
  VMFile(<<<<"vms", "z">>, <<"vms", "z", "port">>, <<"vms", "m">>>>,
         [n \in {"m", "z"} |-> IF n = "z" THEN VM(root, port)
                               ELSE VM(<<"", "srv">>, <<>>)])
NoVMsAtAll == VMFile(<<>>, [n \in {} |-> 0])

Launch(projectFile, vmFile, directory) ==
  [parses |-> TRUE, project |-> "p.toml", vmConfig |-> "vm.toml", env |-> "other.toml",
   projects |-> [f \in {"p.toml"} |-> projectFile],
   vmFiles |-> [f \in {"vm.toml"} |-> vmFile],
   directories |-> [d \in {Root} |-> directory]]

Plain == Project(<<"p">>, {}, <<>>, FALSE)
Srv == <<"", "srv">>
SomeDirs == {<<>>, A, AB, ACi}
Bare == Directory(SomeDirs, [d \in {} |-> <<>>])
Good == Launch(Plain, TwoVMs(Srv, <<2222>>), Bare)

\* Launches for the rules: every list with every choice of .gitignore files.
Ruled(dirs, gitignores) ==
  {Launch(Project(<<"p">>, include, own, git), TwoVMs(Srv, <<>>),
          Directory(dirs, files)) :
     include \in {{}, {<<"a", "b", "">>, <<"x.log">>}}, own \in OwnLists,
     git \in BOOLEAN, files \in gitignores}

\* A .gitignore in the middle that cannot be read.
Unread ==
  {Launch(Project(<<"p">>, {}, <<>>, TRUE), TwoVMs(Srv, <<>>),
          [Directory(SomeDirs, files) EXCEPT !.unreadable = {A}]) : files \in Gitignores}

\* For the names: where the base comes to lie.
Named ==
  {Launch(Project(remote, {}, <<>>, FALSE), TwoVMs(root, <<>>), Bare) :
     remote \in {<<".">>, <<"p", "", "q", "">>, <<"..", "q">>, <<"">>, Srv,
                 <<"p", "..", "..", "q">>},
     root \in {<<"", "">>, Srv, <<"", "srv", "..", "x">>, <<"srv">>, <<"", Quote>>}}

\* For the checks of main and of LoadVMConfig.
Checked ==
  {Good,
   [Good EXCEPT !.parses = FALSE],
   [Good EXCEPT !.project = ""],
   [Good EXCEPT !.vmConfig = ""],
   [Good EXCEPT !.vmConfig = "", !.env = ""],
   [Good EXCEPT !.vmConfig = "", !.env = "vm.toml"],
   Launch(Plain, NoVMsAtAll, Bare),
   Launch(Plain, [NoVMsAtAll EXCEPT !.hasVMs = FALSE], Bare),
   Launch(Plain, [NoVMsAtAll EXCEPT !.decodes = FALSE], Bare),
   Launch([Plain EXCEPT !.decodes = FALSE], NoVMsAtAll, Bare),
   Launch([Plain EXCEPT !.project_root = <<"", "home", "q">>], NoVMsAtAll, Bare)}
  \cup {Launch(Plain, TwoVMs(Srv, <<port>>), Bare) : port \in {0, 1, 65535, 65536}}

Starts == Checked \cup Named \cup Ruled(SomeDirs, Gitignores) \cup Unread
Strings == BoundedSeq({Quote, Backslash, Space}, 2)
Given(c, a, d) ==
  [tool |-> "exec", vm |-> "z", cmd |-> c, args |-> a, cwd |-> d, timeout |-> <<>>]
Execs ==
  {Given(s, <<>>, <<>>) : s \in Strings} \cup {Given(<<"c">>, <<s, s>>, <<>>) : s \in Strings}
  \cup {Given(<<"c">>, <<>>, s) : s \in Strings}
  \cup {[tool |-> "exec", vm |-> v, cmd |-> <<"c">>, args |-> <<>>, cwd |-> <<>>,
         timeout |-> <<t>>] : v \in {"", "m", "y"}, t \in {0, 1, 600, 601}}
PushFiles ==
  <<<<"x.log">>, <<"a", "x.log">>, <<"a", "b">>, <<"..", "p", "x.log">>, <<"">>,
    <<"l", "x.log">>, <<"a", "b", "", "x.log">>, <<"x.log", "x">>>>
PushesOf(files) ==
  {[tool |-> "push", vm |-> "z", files |-> f, dest |-> d] :
     f \in {<<>>} \cup {<<p>> : p \in ToSet(files)} \cup {files},
     d \in {<<"">>, <<"d">>, <<"d", "..", "e">>, <<"..">>, <<"", "d">>, <<"d", "..", "..">>}}
Simple ==
  {[tool |-> "host_list", vm |-> ""]}
  \cup {[tool |-> "path", vm |-> v] : v \in {"", "z", "y"}}
  \cup {[tool |-> "sync", vm |-> v] : v \in {"", "z", "y"}}
Asked == Execs \cup PushesOf(PushFiles) \cup Simple

\* Rules that push and git do not read alike: a directory of the root's, one with
\* an exception from all that is in it, and one whose name comes before .gitignore
\* and that has an exception in a .gitignore of its own.  A push names a file of
\* each.
B == <<"b">>
OddRules ==
  <<Line(FALSE, <<"", "a", "">>), Line(FALSE, <<"b", "**">>), Line(TRUE, <<"b", "x.log">>)>>
OddStart ==
  {Launch(Project(<<"p">>, {}, OddRules, TRUE), TwoVMs(Srv, <<>>),
          [Directory({<<>>, A, B, Ci}, [d \in {<<>>, Ci} |-> IF d = Ci THEN LogsToo ELSE NoLogs])
             EXCEPT !.files = {AB, <<"b", "x.log">>, <<".ci", "x.log">>}])}
OddPush ==
  {[tool |-> "push", vm |-> "z", dest |-> <<"">>,
    files |-> <<<<".", "a", "b">>, <<"b", "x.log">>, <<".ci", "x.log">>>>]}
=============================================================================
