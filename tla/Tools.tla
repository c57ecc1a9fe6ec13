------------------------------- MODULE Tools -------------------------------
(***************************************************************************)
(* The five tools (internal/tools) of a server that has started: what each *)
(* handler checks before it works on a VM, and how it answers.  Beyond     *)
(* that point exec is ExecRun, connections are Connector, and sync and     *)
(* push are SyncEngine and PushTool.                                       *)
(***************************************************************************)
EXTENDS Startup, Ignore, Command

CONSTANTS
  Calls    \* what clients ask for

\* A call is decoded by the library, against the schema of its tool.
CallAssumption ==
  \A call \in Calls :
    /\ call.tool = "push" =>
         call.files \in Seq(Seq(STRING)) /\ call.dest \in Seq(STRING)
    /\ call.tool = "exec" =>
         /\ call.cmd \in Seq(STRING) /\ call.args \in Seq(Seq(STRING))
         /\ call.cwd \in Seq(STRING) /\ call.timeout \in Seq(Int)

ASSUME CallAssumption

\* A project has finitely many directories; a .gitignore lies in one of them,
\* and is a file.
ProjectAssumption ==
  \A l \in Launches : \A d \in Range(l.directories) :
    /\ IsFiniteSet(d.dirs)
    /\ \A p \in d.dirs : ToSet(p) \cup {".gitignore"} \subseteq DOMAIN Rank
    /\ DOMAIN d.gitignores \subseteq d.dirs
    /\ \A p \in DOMAIN d.gitignores :
         /\ Found(p) \notin d.dirs
         /\ d.gitignores[p] \in Seq([negated : BOOLEAN, segs : Seq(STRING) \ {<<>>}])

ASSUME ProjectAssumption

VARIABLES
  answer   \* the last call, and its result

toolVars == <<startVars, answer>>

NoAnswer == [call |-> [tool |-> "none"], code |-> "", vm |-> "", out |-> <<>>]

ToolsInit == StartInit /\ answer = NoAnswer

\* success and failure; vm is the VM that resolved_target names.
Answer(call, errcode, vm, out) ==
  /\ answer' = [call |-> call, code |-> errcode, vm |-> vm, out |-> out]
  /\ UNCHANGED startVars

\* classify: the code of an error of pathsafe or sshlayer, by its type.
Classify ==
  [traversal |-> "E_PATH_TRAVERSAL",   KeyMissing |-> "E_KEY_MISSING",
   KeyEncrypted |-> "E_KEY_ENCRYPTED", KeyUnreadable |-> "E_KEY_UNREADABLE",
   Auth |-> "E_SSH_AUTH_FAILED",       Connect |-> "E_SSH_CONNECT_FAILED",
   ConnectionLost |-> "E_SSH_CONNECTION_LOST",
   SFTP |-> "E_SFTP_FAILED",           other |-> "E_SFTP_FAILED"]

\* What Connect can return: other is a context that ended in the queue.
ConnectErrors == {"KeyMissing", "KeyEncrypted", "KeyUnreadable", "Auth", "Connect",
                  "SFTP", "other"}

-----------------------------------------------------------------------------
HostList(call) ==
  /\ call.tool = "host_list"
  /\ Answer(call, "", "", vmConfig.Order)

Known(name) == name \in DOMAIN vmConfig.VMs

PathOf(call) ==
  /\ call.tool = "path"
  /\ \/ /\ call.vm = ""
        /\ Answer(call, "", "", project.ProjectRoot)
     \/ /\ call.vm # "" /\ ~Known(call.vm)
        /\ Answer(call, "E_UNKNOWN_VM", "", <<>>)
     \/ /\ Known(call.vm)
        /\ Answer(call, "", call.vm, RemoteBase(call.vm))

\* timeout_seconds, for which there is a default of 60.
TimeoutAllowed(t) == t = <<>> \/ (t[1] >= 1 /\ t[1] <= 600)
Timeout(t) == IF t = <<>> THEN 60 ELSE t[1]

\* The arguments the handlers themselves refuse.
Malformed(call) ==
  \/ call.vm = ""
  \/ call.tool = "exec" /\ (call.cmd = <<>> \/ ~TimeoutAllowed(call.timeout))
  \/ call.tool = "push" /\ call.files = <<>>

Connecting == {"exec", "push", "sync"}

Refuse(call) ==
  /\ call.tool \in Connecting
  /\ \/ /\ Malformed(call)
        /\ Answer(call, "E_INVALID_ARGUMENT", "", <<>>)
     \/ /\ ~Malformed(call) /\ ~Known(call.vm)
        /\ Answer(call, "E_UNKNOWN_VM", "", <<>>)

Accepted(call) ==
  call.tool \in Connecting /\ ~Malformed(call) /\ Known(call.vm)

\* connectOrFail
Unreachable(call) ==
  /\ Accepted(call)
  /\ \E err \in ConnectErrors : Answer(call, Classify[err], call.vm, <<>>)

\* A raw path in characters: its names, none of which is spelled out, with
\* slashes between them.
Spelled(raw) ==
  [i \in 1 .. 2 * Len(raw) - 1 |-> IF i % 2 = 1 THEN raw[(i + 1) \div 2] ELSE "/"]

\* exec: Run's result is ExecRun's business; here it is run, or fails.
Exec(call) ==
  LET cwd == IF call.cwd = <<>> THEN Spelled(vmConfig.VMs[call.vm].RemoteRoot)
             ELSE call.cwd
  IN  /\ call.tool = "exec" /\ Accepted(call)
      /\ \E err \in {"", "ConnectionLost", "other"} :
           Answer(call, IF err = "" THEN "" ELSE Classify[err], call.vm,
                  [line |-> BuildCommand(call.cmd, call.args, cwd), cwd |-> cwd,
                   timeout |-> Timeout(call.timeout)])

-----------------------------------------------------------------------------
\* The project: its files, directories, links (all to directories outside of
\* it) and .gitignore files.
Tree == launch.directories[project.ProjectRoot]
Rules == Matcher(Tree.gitignores, Tree.unreadable, project.Ignore, project.UseGitignore)

\* CheckLocalFile: confined by its name, in a directory that is really inside.
LocalFileAllowed(file) ==
  LET rel == Cleaned(FALSE, file)
      above == {SubSeq(rel, 1, i) : i \in 0 .. Len(rel) - 1}
  IN  /\ CheckLexical(project.ProjectRoot, file)
      /\ above \cap Tree.links = {}
      /\ above \subseteq Tree.dirs \cup Tree.files
      /\ rel # <<>>
      /\ Inside(project.ProjectRootCanonical,
                project.ProjectRootCanonical \o Front(rel))

\* Mutant of DestAllowed: the file's name is checked, not where it goes.
DestAllowedByName(base, dest, file) == CheckLexical(base, file)

DestAllowed(base, dest, file) == CheckLexical(base, Joined(dest, file))

\* What becomes of one file of a push, as far as its names decide.
Verdict(vm, dest, file) ==
  IF IgnoredByRules(Rules, file, FALSE) THEN "skipped_by_ignore"
  ELSE IF ~LocalFileAllowed(file) THEN "E_PATH_TRAVERSAL"
  ELSE IF Cleaned(FALSE, file) \notin Tree.files THEN "E_FILE_NOT_FOUND"
  ELSE IF ~DestAllowed(RemoteBase(vm), dest, file) THEN "E_PATH_TRAVERSAL"
  ELSE "sent"

Dest(call) == IF Blank(call.dest) THEN <<".", "">> ELSE call.dest

Push(call) ==
  /\ call.tool = "push" /\ Accepted(call)
  /\ Answer(call, "", call.vm,
            [f \in ToSet(call.files) |-> Verdict(call.vm, Dest(call), f)])

Sync(call) ==
  /\ call.tool = "sync" /\ Accepted(call)
  /\ Answer(call, "", call.vm, RemoteBase(call.vm))

\* mcpserver.New registers the five tools.
Serve(call) ==
  \/ HostList(call)
  \/ PathOf(call)
  \/ Refuse(call)
  \/ Unreachable(call)
  \/ Exec(call)
  \/ Push(call)
  \/ Sync(call)

\* The library sends the result; no handler keeps anything for the next call.
Sent == answer # NoAnswer /\ answer' = NoAnswer /\ UNCHANGED startVars

ToolsNext ==
  \/ StartNext /\ UNCHANGED answer
  \/ Sent
  \/ /\ stage = "serving" /\ answer = NoAnswer
     /\ \E call \in Calls : Serve(call)

ToolsSpec == ToolsInit /\ [][ToolsNext]_toolVars

-----------------------------------------------------------------------------
(***************************************************************************)
(* Properties.  What only depends on the configuration is looked at once,  *)
(* before the first call: nothing of it changes afterwards.                *)
(***************************************************************************)
Started == stage = "serving" /\ answer = NoAnswer

\* Whatever is served went through the checks of the two loaders: ports fit 16
\* bits, VM names are legal, and a project has an absolute root.
ToolsTypeOK ==
  /\ stage \in Stages
  /\ code \in {<<>>, <<0>>, <<1>>, <<2>>}
  /\ stage = "exited" <=> code # <<>>
  /\ ToSet(vmConfig.Order) = DOMAIN vmConfig.VMs
  /\ \A n \in DOMAIN vmConfig.VMs :
       /\ n \in VMNames /\ vmConfig.VMs[n].Name = n
       /\ vmConfig.VMs[n].Port \in Int
       /\ vmConfig.VMs[n].Port >= 1 /\ vmConfig.VMs[n].Port <= 65535
       /\ Absolute(vmConfig.VMs[n].RemoteRoot)
  /\ stage = "serving" => project.ProjectRoot \in DOMAIN launch.directories

\* RemoteBase: the base of every VM lies in its remote_root, whatever "." and
\* ".." the operator wrote in either of them.
BaseConfined ==
  Started => \A n \in DOMAIN vmConfig.VMs :
    IsPrefix(Cleaned(TRUE, vmConfig.VMs[n].RemoteRoot), RemoteBase(n))

\* A file that a push sends is one of the project, and goes to a place below
\* the remote base that is not the base itself, whatever its name and dest are.
PushConfined ==
  answer.call.tool = "push" => \A f \in DOMAIN answer.out :
    answer.out[f] = "sent" =>
      /\ IsStrictPrefix(project.ProjectRoot, Candidate(project.ProjectRoot, f))
      /\ IsStrictPrefix(RemoteBase(answer.vm),
                        Candidate(RemoteBase(answer.vm), Joined(Dest(answer.call), f)))

\* The paths of the projects, and what the plan of a sync makes of the rules:
\* SyncPlan's per-path verdicts, here with the verdicts of the real matcher.
Directories == UNION {Range(l.directories) : l \in Launches}
Paths == UNION {d.dirs \cup d.files : d \in Directories}
Plan == INSTANCE SyncPlan WITH
          Path <- Paths, Content <- {"content"}, Torn <- "torn",
          Size <- [d \in {"content", "torn"} |-> 0], mtimeSlack <- 0
Verdicts == [include |-> {Trimmed(inc) : inc \in project.Include},
             ignored |-> {v \in Plan!Entry \X BOOLEAN : IgnoredSelf(Rules, v[1], v[2])}]

\* BuildPlan is modelled over one verdict per path and kind; the ancestors of a
\* path and the prefixes of include are all that has to be added to those.
VerdictsAreEnough ==
  Started => \A p \in Plan!Entry, isDir \in BOOLEAN :
    Plan!Excluded(Verdicts, p, isDir) <=>
      (~Included(project.Include, p) \/ IgnoredByRules(Rules, p, isDir))

\* "gitignore(5)-compatible": of the patterns that match, the last one of the
\* deepest .gitignore decides, and the project's own list above all; this holds
\* of rules none of which ends in "**".
EndsInStars(p) == p.segs # <<>> /\ Last(p.segs) = "**"
PatternsOf(m) == ToSet(m.ownIgnore) \cup
                 UNION {ToSet(m.gitignoreBy[d]) : d \in DOMAIN m.gitignoreBy}
IgnoresAsGit ==
  Started /\ (\A pat \in PatternsOf(Rules) : ~EndsInStars(pat)) =>
    \A p \in Plan!Entry, isDir \in BOOLEAN :
      IgnoredByRules(Rules, p, isDir) <=> ExcludedByGit(Rules, p, isDir)

\* matchSegs, which backtracks over "**", misses no way to cut a path into the
\* segments of a pattern, and finds none that is not there but one: a "**" at
\* the end may stand for nothing, and then what is before it matches the path.
MatchIsSplit ==
  Started => \A pat \in PatternsOf(Rules), p \in Plan!Entry :
    MatchSegs(pat.segs, p) <=>
      \/ Fits(pat.segs, p)
      \/ EndsInStars(pat) /\ MatchSegs(Front(pat.segs), p)

\* "treat each one as an opaque literal": the login shell sees cd to the working
\* directory, and then the command and its arguments, each as it was given; and
\* no command runs without a limit of at most ten minutes.
ExecAsAsked ==
  answer.call.tool = "exec" /\ DOMAIN answer.out # {} =>
    LET asked == <<answer.call.cmd>> \o answer.call.args
    IN  /\ ShellWords(answer.out.line) =
             <<Word(<<"c", "d">>, FALSE), Word(answer.out.cwd, TRUE),
               Word(<<"&", "&">>, FALSE)>>
             \o [i \in DOMAIN asked |-> Word(asked[i], TRUE)]
        /\ answer.out.timeout >= 1 /\ answer.out.timeout <= 600

\* host_list names each VM that a call can name, once, in the order in which
\* the operator declared them.
ListedAsDeclared ==
  answer.call.tool = "host_list" =>
    LET keys == launch.vmFiles[VMConfigPath].keys
        place(n) == SelectInSeq(keys, LAMBDA k : k = <<"vms", n>>)
    IN  /\ ToSet(answer.out) = DOMAIN vmConfig.VMs
        /\ \A i, j \in DOMAIN answer.out :
             i < j => place(answer.out[i]) < place(answer.out[j])

\* "still subject to `ignore`", which is "gitignore(5)-compatible": of the files
\* named in a push those are skipped that git would ignore, however they are
\* spelled.
PushRespectsIgnore ==
  answer.call.tool = "push" => \A f \in DOMAIN answer.out :
    answer.out[f] = "skipped_by_ignore" <=>
      ExcludedByGit(Rules, Cleaned(FALSE, f), FALSE)
=============================================================================
