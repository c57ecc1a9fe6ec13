------------------------------ MODULE Startup ------------------------------
(***************************************************************************)
(* The server's start (cmd/ssh-mcp-light/main.go) and the two files it     *)
(* reads (internal/config): everything has to be right before the first    *)
(* call is served, and nothing is read again afterwards.                   *)
(*                                                                         *)
(* A launch is what main finds: its flags, VMMCP_CONFIG, the VM and the    *)
(* project configs that can be read, and the directories of the machine.   *)
(* TOML is decoded by a library: a file either does not decode, or is the  *)
(* record its decoder fills.  An optional value is a sequence of at most   *)
(* one.  Warnings, and what only connections use of a VM, are left out.    *)
(***************************************************************************)
EXTENDS Names

CONSTANTS
  Launches,   \* the launches to start from
  VMNames     \* the names that match vmNamePattern

\* What the flags, the system and the decoder of TOML deliver: names are
\* strings, paths and keys are sequences of them, and ports are integers.
LaunchAssumption ==
  \A l \in Launches :
    /\ \A f \in Range(l.projects) :
         /\ {f.dir, f.project_root, f.remote_local_root} \cup f.include \subseteq Seq(STRING)
         /\ f.ignore \in Seq([negated : BOOLEAN, segs : Seq(STRING) \ {<<>>}])
    /\ \A f \in Range(l.vmFiles) :
         /\ f.keys \in Seq(Seq(STRING))
         /\ DOMAIN f.vms \subseteq STRING
         /\ \A vm \in Range(f.vms) : vm.port \in Seq(Int) /\ vm.remote_root \in Seq(STRING)
    /\ \A d \in Range(l.directories) : \A p \in d.dirs \cup d.files :
         /\ p \in Seq(STRING)
         /\ \A i \in 0 .. Len(p) - 1 : SubSeq(p, 1, i) \in d.dirs

ASSUME LaunchAssumption

VARIABLES
  launch,
  stage,      \* what run does next
  code,       \* the exit code, once it exits
  vmConfig,   \* VMConfig
  project     \* ProjectConfig

startVars == <<launch, stage, code, vmConfig, project>>

Stages == {"flags", "statProject", "vmPath", "loadVMs", "loadProject",
           "serving", "exited"}
NoVMs == [Order |-> <<>>, VMs |-> <<>>]
NoProject == <<>>

StartInit ==
  /\ launch \in Launches
  /\ stage = "flags"
  /\ code = <<>>
  /\ vmConfig = NoVMs
  /\ project = NoProject

Exit(n) == stage' = "exited" /\ code' = <<n>>

\* One check of loadConfigs: the next one, or a fatal message and the end.
Check(at, holds, next, n) ==
  /\ stage = at
  /\ IF holds THEN stage' = next /\ UNCHANGED code ELSE Exit(n)
  /\ UNCHANGED launch

\* flag.Parse; -h counts as an error, too.
ParseFlags ==
  /\ Check("flags", launch.parses, "statProject", 2)
  /\ UNCHANGED <<vmConfig, project>>

StatProject ==
  /\ Check("statProject", launch.project \in DOMAIN launch.projects, "vmPath", 1)
  /\ UNCHANGED <<vmConfig, project>>

\* --vm-config wins over VMMCP_CONFIG.
VMConfigPath == IF launch.vmConfig # "" THEN launch.vmConfig ELSE launch.env

StatVMConfig ==
  /\ Check("vmPath", VMConfigPath \in DOMAIN launch.vmFiles, "loadVMs", 1)
  /\ UNCHANGED <<vmConfig, project>>

-----------------------------------------------------------------------------
\* project_root, relative to the directory of the file that names it.
Resolved(dir, raw) ==
  IF Absolute(raw) THEN Cleaned(TRUE, raw) ELSE RemoteJoin(dir, raw)

Port(v) == IF v.port = <<>> THEN 22 ELSE v.port[1]

\* Mutant of ValidVM: port 0 is let through.
ValidVMAnyPort(name, v) ==
  /\ name \in VMNames
  /\ {"address", "user", "identity_file", "remote_root"} \subseteq v.given
  /\ Absolute(v.remote_root)
  /\ Port(v) >= 0 /\ Port(v) <= 65535

ValidVM(name, v) ==
  /\ name \in VMNames
  /\ {"address", "user", "identity_file", "remote_root"} \subseteq v.given
  /\ Absolute(v.remote_root)
  /\ Port(v) >= 1 /\ Port(v) <= 65535

\* Mutant of DeclaredVMs: the order of a Go map, which is any.
DeclaredVMsAnyhow(file) == SetToSeq(DOMAIN file.vms)

\* The tables vms.<name> in the order of the file, each of them once.
Declared(file, out, key) ==
  IF Len(key) = 2 /\ key[1] = "vms" /\ key[2] \in DOMAIN file.vms \ ToSet(out)
  THEN Append(out, key[2]) ELSE out
DeclaredVMs(file) == FoldLeft(LAMBDA out, key : Declared(file, out, key), <<>>, file.keys)

\* LoadVMConfig: the first VM that is not valid is fatal.
ValidVMFile(file) ==
  /\ file.decodes /\ file.hasVMs
  /\ \A n \in ToSet(DeclaredVMs(file)) : ValidVM(n, file.vms[n])

LoadedVMs(file) ==
  [Order |-> DeclaredVMs(file),
   VMs |-> [n \in ToSet(DeclaredVMs(file)) |->
              [Name |-> n, Port |-> Port(file.vms[n]),
               RemoteRoot |-> file.vms[n].remote_root]]]

LoadVMs ==
  LET file == launch.vmFiles[VMConfigPath]
  IN  /\ Check("loadVMs", ValidVMFile(file), "loadProject", 1)
      /\ vmConfig' = IF ValidVMFile(file) THEN LoadedVMs(file) ELSE vmConfig
      /\ UNCHANGED project

-----------------------------------------------------------------------------
\* Mutant of RelativeEntry: remote_local_root and include may go up.
RelativeEntryAny(raw) == ~Absolute(raw)

RelativeEntry(raw) == ~Absolute(raw) /\ ~hasDotDotSegment(raw)

\* LoadProjectConfig.  A root that is there is taken to resolve.
ValidProject(file) ==
  /\ file.decodes
  /\ ~Blank(file.project_root)
  /\ ~Blank(file.remote_local_root) /\ RelativeEntry(file.remote_local_root)
  /\ \A inc \in file.include : RelativeEntry(inc)
  /\ Resolved(file.dir, file.project_root) \in DOMAIN launch.directories

LoadedProject(file) ==
  LET root == Resolved(file.dir, file.project_root)
  IN  [ProjectRoot |-> root,
       ProjectRootCanonical |-> launch.directories[root].canonical,
       RemoteLocalRoot |-> Written(Cleaned(FALSE, file.remote_local_root)),
       Include |-> file.include, Ignore |-> file.ignore,
       UseGitignore |-> file.use_gitignore]

LoadProject ==
  LET file == launch.projects[launch.project]
  IN  /\ Check("loadProject", ValidProject(file), "serving", 1)
      /\ project' = IF ValidProject(file) THEN LoadedProject(file) ELSE project
      /\ UNCHANGED vmConfig

\* server.Run returns: the client has closed its end, or the transport broke.
StopServing ==
  /\ stage = "serving"
  /\ \E n \in {0, 1} : Exit(n)
  /\ UNCHANGED <<launch, vmConfig, project>>

StartNext ==
  \/ ParseFlags
  \/ StatProject
  \/ StatVMConfig
  \/ LoadVMs
  \/ LoadProject
  \/ StopServing

RemoteBase(name) ==
  RemoteJoin(vmConfig.VMs[name].RemoteRoot, project.RemoteLocalRoot)
=============================================================================
