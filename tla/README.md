# ssh-mcp-light: TLA+ specifications and proofs

`ssh-mcp-light` is an MCP server that lets an agent run commands on a few
declared VMs and copy files to them. It keeps no state between tool calls. Most
of what is hard about it happens inside a call, between the SSH/SFTP requests it
makes, and between calls that run at the same time over connections of their
own; the rest is what it decides by names, before a request is made: which files
the rules exclude, and what a path confines. This directory holds TLA+ models of those parts, TLC configurations that
check them on small instances, and TLAPS proofs of what matters most for every
value of the constants.

Paths below are relative to the repository root.

## 1. Inventory

Tool calls are requests of the MCP library, each handled in a goroutine of its
own. A handler resolves its VM and paths from the configuration, has the
*connector* give it a connection, works over that connection, closes it, and
answers with an envelope. Calls share the connector's semaphores, the project
root and the VM's file system, and nothing else.

| Component | Code | State | Operations | Modelled |
|---|---|---|---|---|
| sync planning | `internal/syncengine/plan.go` | none (pure) | `BuildPlan`, `walkLocal`, `needsUpload`, `hasSurvivingDescendant` | yes |
| sync execution | `internal/syncengine/apply.go` | `madeDirs`, the three result lists, the position in two loops | `Apply` | yes |
| sync tool | `internal/tools/sync.go`, `remotebase.go` | the call's plan and result | the `sync` handler, `ensureRemoteBase` | yes |
| file transfer | `internal/sshlayer/sftp.go` | the remote tree, temporary files | `Stat`, `ReadDirRecursive`, `MkdirAll`, `RealPath`, `Remove`, `RemoveDir`, `Rename`, `Upload` | yes |
| connector | `internal/sshlayer/client.go` | a semaphore per VM, made lazily; the open connections | `semaphore`, `Connect`, `dial`, `closeFn` | yes |
| command execution | `internal/sshlayer/exec.go`, `internal/tools/exec.go` | a result shared by two readers, a waiter, a timer and a context | `Run` | yes |
| push tool | `internal/tools/push.go` | result lists, the position in its loop | the `push` handler | yes |
| path confinement | `internal/pathsafe/pathsafe.go` | none (pure) | `CheckLocalLexical`, `CheckRemoteLexical`, `CheckLocalFile`, `CheckRemoteReal` | yes |
| ignore rules | `internal/ignore/ignore.go` | the compiled patterns | `New`, `Ignored`, `MatchInclude` | yes |
| configuration, startup | `internal/config`, `cmd/ssh-mcp-light/main.go` | two files, read once | `loadConfigs`, `LoadVMConfig`, `LoadProjectConfig`, `RemoteBase` | yes |
| host_list, path | `internal/tools/hostlist.go`, `path.go` | none (pure) | reads of the configuration | yes |
| error codes | `internal/errcodes`, `internal/sshlayer/errors.go`, `internal/tools/errors.go` | none (pure) | `classify` | codes by error type, no messages |
| envelope, wiring | `internal/tools/envelope.go`, `types.go`, `internal/mcpserver` | none | JSON and registration | success, code and VM of an answer |
| test SSH server | `internal/sshtest` | | | no: a test double |

What is hard, and what each part has to guarantee:

- **Concurrent calls on one base.** Two syncs of the same project write and list
  the same remote tree, and see each other's temporary files. No user of the VM
  may see a half-written file; a call may only report what it did.
- **A request that fails, or loses the connection, before or after the server
  carried it out.** An upload is five to eight requests; a failure at any of
  them must leave neither a torn file nor an unreported entry.
- **A process that dies in the middle.** Nothing cleans up; the next sync has to.
- **A plan older than the world it is applied to.** The listing and the local
  walk are snapshots, and deletes follow them after a while.
- **`Rename`'s fallbacks**, the last of which removes the destination first.
- **The semaphore.** Every way out of `Connect` (no key, no connection, a failed
  handshake, a failed SFTP session) and of a handler has to give back the slot
  and the connection, once; two first calls must not make two semaphores.
- **Waiting.** A call that waits for a slot has no timer; a call that has one has
  no deadline once the handshake is over.
- **One result, four goroutines.** `Run`'s two readers, its waiter and its select
  share a result and a session that any of them may close. Output that is cut off
  must not look complete, nothing may change the result once it is returned, and
  a stream nobody reads any more must not block the rest.
- **Two tools on one base.** A push works by names while a sync lists, replaces and
  deletes around it.
- **Rules from several files.** A file is excluded or not by the order in which
  patterns of nested `.gitignore` files and of the project's own list are applied,
  by `**` and by the ancestors of the file.
- **Confinement by name.** `dest` and the names of a push come from the agent, and are
  joined, cleaned and compared three times, each time in another spelling.
- **Opaque arguments.** SSH carries one string; what the login shell makes of it must
  be the command that was asked for.
- **Boundaries.** `mtimeSlack`, files in the place of directories and the reverse,
  a directory whose content is only partly deletable, output of exactly the cap,
  links on the VM.

`PROJECT.json` lists these hazards line by line with the properties for each.

## 2. Modules

```
Tree ── SyncPlan ─────────────┐
  ├─── Session ── MkdirAll ───┼── SyncEngine ── PushTool ──┐
  │       └────── Upload ─────┘      │    └──── MCSync ────┴─ MCPush
  └─── Transfer (abstract) <── SyncEngine, PushTool
Names ──┬─ Startup ─┐
        ├─ Ignore ──┼── Tools ── MCServer        (Tools has SyncPlan as an instance)
Command ────────────┘     └───── ToolsProofs
SyncEngine ── SyncEngineProofs ── SyncCallProofs ── TransferProofs ─┬─ MirrorProofs
PushTool ───────────────────────────────────────────── PushProofs ──┘
ConnectionCap (abstract) <── Connector ── ConnectorProofs
ExecRun ── ExecRunProofs
```

### Tree

Paths, nodes, trees, and what an SFTP server does to its tree. A tree is a
function from a fixed set `Path` of paths to nodes (`Absent`, `Dir`, `Link`, or a
file with a content and a modification time). File modes are left out. The server's requests
(`CanCreate`, `CanRemove`, `CanReplace`, `CanRename`, `Moved`) are external: they
say what the client code relies on.
A `Link` leads out of the tree. What lies behind it is not
modelled: a request through a link may or may not succeed and changes nothing
*inside* the base.

### SyncPlan

`BuildPlan` as a pure operator: `LocalAll`, `LocalFiles`, `NeedsUpload`,
`Candidates`, `Eligible`, `HasSurvivingDescendant` and `DeletablePaths` are the
variables and helpers of that function. Sorted slices are sets; the one order the
code relies on, deletes deepest first, is `DeletableNow`. Patterns are reduced to
verdicts per path (`Rules`), with the code's rule that an ignored ancestor ignores
everything in it. The rules are fixed while the model runs: an edit changes no
`.gitignore`.

### Session

Every call's connection (`conn`), the remote tree (`fs`) and the project root
(`local`). `Request` is the one place where a request can fail: the server is not
able to do it; the server refuses it; or the connection is lost, before or after
the request took effect. All later requests over a lost connection fail.

### Transfer

The abstract specification of a call of sync or push: a job of uploads and deletes, and
what was reported of it as landed, gone or missed. Once the job is known (`Commit`) the
base only changes at entries of the job that are still to be reported, by a whole file at a
time (`Put`), by a removal that takes nothing else with it (`Drop`), or by a directory on
the way to an upload (`MakeDir`). `Land` and `Remove` report in the very step that changes
the tree, `Unheard` is a request whose answer was lost, and `Finish` waits for the last
report. It has no requests, connections, temporary files or phases.

`SyncEngine!Implements` and `PushTool!BothImplement` say that the detailed modules
implement it. The mapping shows the base without temporary files (`Shown`) and makes
a job of a call's plan and result (`Job`), or of a push's request (`PushJob`); `BothJobs` has
the one of each call. A job opens when
the call begins and is known when sync has its plan, or push the resolved base; a call that
fails before, or dies, is `broken`.

### MkdirAll, Upload

One action per SFTP request, so that whatever else happens on the VM interleaves
exactly where it can.

| `sftp.go` | Module | Actions |
|---|---|---|
| `MkdirAll` (recursive) | MkdirAll | `MkdirStat` up to the first directory that exists, then `MkdirMake` and `MkdirChmod` down again, `MkdirRecheck` after a failed Mkdir |
| `Upload` | Upload | `UploadStart` (open both files), `WriteTemp` (Chmod, ReadFrom, Close), then the renames, `Cleanup` |
| `Rename` | Upload | `PosixRename`, `PlainRename`, `ClearDestination`, `RenameAgain` |

`mk[c]` and `up[c]` are the program counters and locals of the two
functions. `WriteTemp` is one step because no property depends on how much of a
file has arrived: until the step is done the temporary file is `Torn`, and a
connection lost in the step may leave it torn. A temporary name is fresh among the
names in use and in the tree: the code takes 32 random bits
for it. `TempOf` gives each destination its possible names, and is the bound on
how many uploads of one destination a behaviour can hold (a litter of temporary
files included).

### SyncEngine

The `sync` handler from its connection to its result. `call[c].phase` is the
program counter:

```
idle → stat → [mkbase] → realpath → list → plan → next ⇄ mkdir → upload
                                                     ⇄ check → remove
       any failed request before next → error         next → done
```

`StatBase`, `MakeBase` and `ResolveBase` are `ensureRemoteBase`; `List` reads one
directory per step, so a tree that changes meanwhile is listed inconsistently, as
in the code; `Plan` is `BuildPlan` over the listing and the local tree of that
moment (the local walk is one step); `NextEntry` is the head of both
loops of `Apply`; `MakeParents`, `UploadEntry`, `CheckDelete` and `RemoveEntry` are
their bodies, with `madeDirs` and the `continue` of every failure. Uploads are
taken in any order: the code sorts them, but nothing depends on it.

The environment: `EditLocal` (the user), `ChangeRemote` (whoever else works on the
VM, replacing things by links included), `Tick` (time), `Crash` (the process that
serves a call dies: the remote tree stays as it is, the call's memory is gone).
None of it touches what a call holds (`Environment`).
`ChangeRemote` is possible at any point, also between the two requests of one delete
(`RealPath`, then `Remove`), where a comment claims it harmless: see section 6.
`ResolvesInside` compares no names: the base, which the code resolves once, is no link
in the runs, so that an entry resolves inside exactly when no link is on its path.

### PushTool

The `push` handler, in a model where each call is one of push or of sync
(`BothNext`): SyncEngine's calls, environment and actions are taken as they are.
`push[c].at` says how far a push is:

```
base → next ⇄ mkdir → resolve → upload          next → returned
```

`PushBase` is `ensureRemoteBase` again; `ignore.New` never fails, so that the error path behind it
has no action; `NextFile` is the head of the loop with the ignore rules and the local
checks; `MakeDirs`, `ResolveDir` and `PushFile` are MkdirAll, RealPath with its check,
and Upload. `LocalFile` is `CheckLocalFile` and the `os.Stat` behind it: only the file's
directory is resolved, so a link in the file's own place is followed, wherever it leads, and may
or may not be a file. Each way to fail is a `PushFails`, after which the loop goes on. `Requests`
are the files and destinations callers ask for. The lexical check of a destination is
taken as passed: `RequestAssumption` has every target in the base, which is what
`Tools!PushConfined` shows of the names. A request's
files are a set, so a file named twice, or two files of one target, are not covered.

### ExecRun

`Run` of `exec.go`, one command. `reading` and `read` are the two readers, `at` is
`Run`'s own position, `result` the shared result, `closed` whether the session was
closed from here. Bytes are counted: a stream arrives in order, so the number of
bytes kept says which they are. `ReaderEnds` is the return of `readCapped`; `Finish`,
`TimeOut` and `Abort` are the three cases of the select, any of which may be
taken when several are ready; `Drain` is the `<-waitDone` behind the last two. The waiter
goroutine has no state of its own: it is through when both readers are and the
channel is closed (`WaitDone`).

The command, its server and the channel are external: a command writes, exits, and may
leave children that go on writing (`Over` is when nobody has its output open); its exit
status may arrive before the rest of the output; both streams share the channel's
`Window`, so that a stream that is not read blocks the other; the server closes the
channel when all is said or in answer to a close; the connection may be lost.

### Names

Path names, split at slashes: `path.Clean` (`Cleaned`), `path.Join`, and from these the checks of
`pathsafe` (`SplitRel`, `CheckLexical`, `CheckReal`) and the joins of `config`. A path
is raw, with its empty and dotted segments, until the code cleans it, and stays so
where it does not.

### Ignore

`ignore.go` as operators of the same names: `CompilePattern`, `MatchSegs` (a recursive function,
with the backtracking over `**`), `ApplyPatterns`, `SortByDepth` (the list in the
order of `SortedBefore`: fewer slashes first, then as `WalkDir` finds them), `IgnoredSelf`, `IgnoredByRules` (`Ignored`) and `Included` (`MatchInclude`). A
`.gitignore` that cannot be read (`unreadable`) is passed over by `Matcher`, as in `New`. What
`path.Match` says of one name is the relation `Globs`. Below them is what gitignore(5)
promises, independently of the code: what a pattern matches, as a way to cut the path (`Fits`, where a `**` at the
end of a pattern stands for at least one name; `GitMatches`), and which of the patterns that match decides, without
any order of evaluation (`ExcludedByGit`).

### Command

`BuildCommand` and `quoteArg`, character by character, as the property is about the characters;
and a shell as far as POSIX quoting goes (`ShellWords`, external), which says what becomes
of a line.

### Startup

`main.go` from its flags to `server.Run` and the two loaders, one action per check in the order
of the code (`stage`), each with its exit `code`. A launch is what the process finds:
flags, `VMMCP_CONFIG`, the files that can be read, and the directories of the machine.

### Tools

The five handlers of a server that has started, one call at a time: nothing
but the configuration is shared before a handler has a connection. `Refuse` has the checks of arguments and the
unknown VM, `Unreachable` every way in which `Connect` fails, with `Classify`; `HostList`, `PathOf`,
`Exec`, `Push` and `Sync` are the handlers. What exec, push and sync do on the VM is the matter
of the other modules: here `Exec` has the command line it sends, and `Push` the `Verdict` on each of
its files, from the rules to the check of its destination. A default working directory is `Spelled` in
characters, slashes included, before it is quoted. `Plan` is SyncPlan with the verdicts of the real
matcher.

### ConnectionCap, Connector

`ConnectionCap` says what the connector promises: each call has at most one
connection, and no VM has more than `MaxConcurrentPerVM`. `Connector` is
`client.go`: `sems` (the map under the mutex), `tokens` (the channels' lengths),
`connected`, and `call[c].at`:

```
idle → waiting → key → dial → handshake → sftp → open → closing → release → ended
         ↓        failure: release         failure: closing
       ended (context)
```

A channel is a value of `Channel`; `semaphore()` makes one not yet in the map.
`Cancel` is the end of a request's context; what `select` does when both
cases are ready is left open, as in Go. A dial that succeeds with a cancelled
context is allowed although `DialContext` would mostly refuse it: this only adds
behaviours.

### Mutant operators

An operator introduced by a comment `Mutant of X` (`Mutants of X`) is not part of the model: nothing
refers to it. It is a plausible wrong version of `X`, to be put in its place to see
that a property notices. Each checked property has at least one; `PROJECT.json`
pairs them.

## 3. Properties and runs

One type invariant per state machine (`TypeOK`, `AllTypeOK` of PushTool, `ToolsTypeOK` of
Tools with Startup); the rest:

| Property | Kind | Says |
|---|---|---|
| `NoTornFile` | invariant | no file under a visible name is half-written |
| `WholeWhenMoved` | invariant | uploads in progress have distinct temporary files, and one that is being moved is complete |
| `Accounting` | invariant | when a call is over, each planned entry is in exactly one of uploaded, deleted, failed, with the failed action |
| `CleanMeansMirrored` | invariant | after an undisturbed sync the base is a mirror (stated without `BuildPlan`) exactly if no failure is reported |
| `NoLitter` | invariant | without faults and crashes no temporary file stays |
| `ReportedLanded` | action | what is reported as uploaded is in place and complete at that moment, what is reported as deleted was there and is gone, if it lies behind no link of others |
| `ExcludedFilesUntouched` | action | a call never touches a file that include and ignore exclude |
| `DeletesAreChecked` | action | a call comes to remove what lies behind a link only if the link is planted between the check and the removal of that very delete, however stale its plan is |
| `DeletesStayInside` | action | *violated*: no delete that is reported went through a link |
| `NothingPlannedThroughLinks` | invariant | *violated*: no upload is planned through a link |
| `DryRunWritesNothing` | action | a dry run changes nothing on the VM |
| `OverwriteIsAtomic` | action | with posix-rename, a file of the project never disappears while it is replaced; *violated* by two calls |
| `CallsEnd` | liveness | every call ends |
| `Converges` | liveness | repeated syncs end in a mirror and keep it; all they may miss is a same-size edit not newer than the copy by more than `mtimeSlack` |
| `PushAccounting` | invariant | when a push is over, each file it was asked for is in exactly one of uploaded, skipped, failed |
| `PushedLanded` | action | what a push reports as uploaded is in place and complete at that moment, whatever syncs do beside it |
| `PushStaysInside` | invariant | while nobody plants links, no push uploads through one |
| `LostRacesAreNoErrors` | action | while no request fails by itself, `MkdirAll` never gives up on a directory that is there: of two calls that make it at the same time, neither fails for it |
| `Implements` | refinement | SyncEngine implements Transfer |
| `BothImplement` | refinement | any mix of calls of push and sync implements Transfer |
| `BaseConfined` | invariant | every remote base lies in the `remote_root` of its VM, however the two are written |
| `PushConfined` | invariant | what a push sends is a file of the project, and goes strictly below the base, however file and `dest` are written |
| `IgnoresAsGit` | invariant | rules none of which ends in `**` exclude what gitignore(5) says: of what matches as git has it, the last one of the deepest file that can be read decides, the project's own list above all |
| `PushRespectsIgnore` | invariant | *violated*: a push skips exactly those of its files that gitignore(5) excludes, however they are spelled |
| `MatchIsSplit` | invariant | the backtracking over `**` finds a match exactly when a path can be cut into the pattern's segments, or when a `**` at the end is given nothing and the rest matches |
| `VerdictsAreEnough` | invariant | the verdict per path and kind that SyncPlan takes, with ancestors and include prefixes added, is what the matcher says |
| `ExecAsAsked` | invariant | the shell sees `cd`, the working directory, the command and its arguments, each as it was given; the timeout is within 1 to 600 |
| `ListedAsDeclared` | invariant | host_list names each VM that can be called once, in the order of the file |
| `NoSilentLoss` | invariant | a result with an exit status has the whole output, unless the connection was lost |
| `TruncatedIsTrue` | invariant | a stream marked truncated was longer than the cap, and fills it |
| `ReturnedIsFinal` | action | the result does not change once it is returned |
| `RunReturns` | liveness | `Run` returns once the command is over, the cap is passed, the timer fires or the context ends |
| `SlotsHeld` | invariant | a channel's tokens are exactly the calls between `Acquire` and `Release` on it |
| `ConnectionsCovered` | invariant | whoever has a connection still has the slot it was opened under |
| `OneSemaphore` | invariant | all calls to a VM use one semaphore, and VMs do not share |
| `ConnectionsCapped` | invariant | no VM has more than the maximum of connections |
| `CapSpec` | refinement | `Connector` implements `ConnectionCap` |
| `OnlySilenceBlocks` | liveness | a call waits for a slot forever only if from some time on all slots of its VM are held by calls the VM does not answer |
| `WaitingEnds` | liveness | *violated*: no call waits for a slot forever |

Passing runs, and why their bounds are enough:

| Run | Instance | Shows |
|---|---|---|
| `sync_alone` | one call; every pair of trees over `a`, `a/x`, `b` with two contents, links and no base at all; six rule sets; dry or not | planning and applying are right together when nothing interferes. A directory, an entry in it and a second root entry give every relation the planner distinguishes: same, changed, only here, only there, file for directory, directory for file, surviving descendant, excluded by itself or by an ancestor. Each step is one of Transfer |
| `sync_converge` | one caller that calls again and again; one fault, one crash, one edit; a full directory in the place of a file, but no file in the place of a directory and no link (section 6: no sync resolves these); both contents of one size, clock up to 2, slack 1 | the hardest conflict the planner knows needs two syncs; one of each disturbance before the last calls; edits at, within and beyond `mtimeSlack` of the copy. Every call ends, those with a lost connection included |
| `push_sync` | two calls, each of push or sync, repeated; one fault; no base, or one with `a` absent, a full directory or a link; a push of `a`, `a/x` to the base, and one of `x` to `a`; include `a` | races of two calls of either kind on directories, on one destination and on temporary files, every step a step of Transfer: a push of two files of which one fails, a push to another directory with the same target, a sync that deletes and replaces what they write. Two names for the destination, one per call; once a failure left a file behind under one of them, uploads of it come one at a time |
| `push_disturbed` | one call of push or sync at a time; any two (`TwoDisturbances`) of one failed request, one crash, one edit and one change by others, links included; no posix-rename; no dry runs; three names for the destination; a pushed file that may be a link; include `a`, or ignore `x` | what changes between a check and its request, and between listing, planning and applying, and every failure branch of `Apply`, of the loop of push, of `MkdirAll`, `Upload` and `Rename`. Each decision reads one or two pieces of state, so one change between the reading and the use is enough; a lost connection makes all later requests fail, so that one fault already exercises sequences of failures; the second disturbance is one that finds the first half dealt with |
| `exec_run` | one command; cap 1, window 2, up to 4 bytes on each stream | below, at, one past and further past the cap; one stream alone can fill the window. A run ends, so deadlock is not checked |
| `server` | launches that go wrong in each way `loadConfigs` knows; bases and roots with `.`, `..` and double slashes; directories three deep with every choice of `.gitignore` files in three of them, six lists of the project with and without include, one `.gitignore` that cannot be read; calls of all tools: arguments of up to two quotes, backslashes and blanks, and eight names against six destinations | no check of a loader is passed by; names confine bases and pushes; the matcher agrees with SyncPlan and, but for a `**` at the end, with gitignore(5); the shell gets what was asked for. Patterns of up to five segments with three `**` against paths of four names make the backtracking fail and go on; two characters are enough to make every two quoting states meet |
| `connector_slots` | three calls, two VMs, two slots each; contexts end, and VMs may stay silent after the handshake | both limits are reached while a call waits, calls move from VM to VM, and none is passed over forever while slots come free |

Runs that end in a counterexample, each of what a document or a comment says: `sync_pair_overwrite`, `sync_link_upload`,
`sync_delete_window`, `connector_silence` and `push_rules`; see section 6.

Bounds on the environment are named constants (`MaxFaults`, `MaxNow`, `MaxEdits`,
`MaxIntrusions`, `MaxCrashes`); the proofs hold for every value of them. Deadlock is
checked in every run but `exec_run`, `server` and `push_rules`, where a
process ends: a caller can always begin anew. Symmetry (of
callers, which the code never compares) is used in runs without liveness properties only.

## 4. Fairness

- `SyncEngine!Fairness`: weak fairness of each call's next step. A handler runs in a
  goroutine that nothing blocks but its requests; the model has the server answer, refuse, or the
  connection break. That last assumption is about the network, not about the
  code, which sets no deadline: `CallsEnd` and `Converges` say nothing of a VM that stays silent.
- `Persistent`: a caller that calls sync again and again. Strong, because a `Crash`
  and the calls themselves disable it over and over.
- `Connector!Fairness`: weak fairness of what takes bounded time whatever the VM
  does (`DialContext` and the handshake are under `ConnectTimeout`, the rest is local);
  strong fairness of `Acquire`, because goroutines blocked on a send to a
  channel are served first come, first served. Nothing makes a VM answer what happens after
  the handshake (`Answered`): the code clears the deadline and sets no timer. So `OnlySilenceBlocks` says
  what waiting depends on, and `WaitingEnds` fails under the same specification.
- `ExecRun!FairSpec`: the goroutines run on, the server passes output on while the channel
  has room, and answers a close (or the connection breaks). The command, the timer and
  the client need not do anything: `RunReturns` asks only that one of them ends the run.

## 5. Proofs

All proofs are checked by `tlapm`. They assume only the named assumptions of the
modules: paths are closed under prefixes (`PathAssumption`), `Torn` is no content
(`ContentAssumption`), temporary names lie next to one destination each,
and nothing lies below one (`TempAssumption`), initial trees hold no temporary and no torn file
(`InitAssumption`), bounds are naturals, `ConnectorAssumption`, and that the libraries deliver what
they are declared to: the strings, numbers and lists of a VM file, a project file
(`LaunchAssumption`) and a call (`CallAssumption`), of whatever value. `LaunchAssumption` also says of the
machine that paths are sequences of names, and that what lies in a project lies in a directory of it.

**SyncEngineProofs.** Of one plan, as an operator: `UploadsAndDeletesDisjoint`: no path is both
uploaded and deleted by it. `DeletesAreEligible`: a planned delete is listed, is no link,
has no local counterpart and is not excluded. `DeletedDirsAreEmptied`: all that is
listed under a planned directory, links excepted, is planned for deletion.

Of the machine: `TypeCorrect == Spec => []TypeOK`. `TypeOK` is not inductive:
an upload's record says that its destination is visible, which needs that the entry a
call is working on (`cur`) was planned as an upload while it is in the upload
phases (`CurrentEntry`), that `MkdirAll` is always at a directory on the
way to its target (`MkdirOnTheWay`, so that the next directory is a path), and that
the project root holds no temporary file (`Clean(local)`, so that no plan uploads
one). The conjunction is `TypeInv`.

`NoTornFileEver == Spec => []NoTornFile` and `OnlyWholeFilesMove == Spec => []WholeWhenMoved`.
`NoTornFile` alone is not inductive, as a rename moves whatever its source holds.
`WholeWhenMoved` adds what makes it so: a file being moved is whole, and nobody else
writes to it because temporary files of uploads in progress are distinct. The
conjunction is `TornInv`. One step per action; the requests of
other calls and of the environment preserve it because they write under
visible names, remove, or move a file of their own. This covers any
number of calls, faults, crashes, edits and intrusions.

**SyncCallProofs.** What a call reports: `EveryEntryIsAccounted == Spec => []Accounting`. The inductive part is
`BooksBalance`: from the plan on, each planned upload is in exactly one of the uploads left,
the entry in hand, the uploaded ones and the two kinds of failures, and each planned delete
likewise; before the plan nothing is reported; a call that is done has none left. A delete
is a path with its kind, and what is reported is a path, so the deletes left must have
one kind per path (`OnePerPath`). `DryRunsOnlyRead == Spec => DryRunWritesNothing` from `DryStops`: a
dry run never gets to a phase that writes.

What a call does to the base: `CallStepWrites` shows that each step of a
call is one of those that `Writes` lists: a directory where nothing was, a fresh temporary file, a
write, move or removal of the upload in hand, or the removal of the delete in hand. What
these aim at is `ReachInv`: an upload in progress is of the entry in hand (`Aimed`); no entry
left or in hand is excluded (`AllAllowed`, from `DeletesAreEligible`); `MkdirAll` makes no
directory of a temporary name, and so what is moved is no directory (`MkdirOffTemps`, `PlainTemps`).
`ExcludedIsSafe == Spec => ExcludedFilesUntouched` follows, and with
`TornInv`, which says that what is moved into place is whole, `ReportsAreTrue == Spec =>
ReportedLanded`. As everything else here they hold beside other calls, faults, crashes and changes
by others.

That an entry about to be removed lies behind no link (`Checked`) is *not* an invariant: others can plant
the link after the check. `NoDeleteThroughLinks == Spec => DeletesAreChecked` is what is left, and it is about steps: of a call `c`,
`CheckedStep(c)` says that the step leads it before a removal behind a link only from there, or by a `ChangeRemote` while it is already
before the removal. Calls, its own steps and those of others, make no links (`MakesNoLink`), so that for these the step from the check decides
(`StepsAreChecked`); of the environment only `ChangeRemote` uses up an intrusion (`IntrusionsCount`). No step that leaves a plan to
go stale, a second call or a failed request takes the place of that one change.

**TransferProofs.** The refinement, for syncs. `TreesStayTrees == Spec => []WellFormed(fs)`: whatever
calls and others do to it, what exists lies in a directory (`TreesInv` has it with `PathsInv` and
`TornInv`); what a delete removes is then empty, by taking a shortest path that is not. `Ready` has
of a call what its job is made of: its plan (`MyPlan`), its books (`MyBook`), what its upload and its `MkdirAll` aim at
(`Aim`, `Targets`), and that a dry run does not write (`Stops`); `TransferInv` is both. A step of a call is then
shown to be a step of Transfer by what it does. A request that changes what can be seen of the base is `MakeDir`,
`Land`, `Remove` or, if its answer was lost or it cleared the way, `Unheard`, at the entry in hand, which by the books is
still to be reported. The others are steps of the job alone (`Start`, `Commit`, `Miss`, `Finish`, `Break`),
or stutter, since temporary files do not show.
While nobody else changes the base `Checked` is inductive (`ChecksStay`), so that
what a delete removes is in the tree. `SyncKeepsThePromise == Spec /\ [][~ChangeRemote]_vars => Implements`, for any number of calls, faults, crashes
and edits. The second conjunct is what Transfer is about: it promises that *the tools* change
the base at entries of their jobs only, and has no step for others. Where
`MaxIntrusions = 0`, as in the runs that check it, there is no such change, and `SyncAloneImplements ==
Spec => Implements`.
`NothingIsLeftBehind == Spec => []NoLitter` has `Tidy` as its invariant: a temporary file
belongs to an upload that is running over a connection that is up. It holds while no fault and no
crash has happened, whatever others do to the base.

**MirrorProofs.** What holds of a call that nothing disturbs: `Alone(c)` says that `c` is the only caller, that no
request is refused, and that nobody edits the project or changes the base. Calls may still crash, and later ones find
what the earlier ones left.
`CleanIsMirroredAlone == Spec => []CleanMeansMirrored`. The invariant `AtPeace(c)` says what the call knows in each
phase. While it lists (`PlanningKnows`), each part of the listing it has is what is there. While it carries out its plan
(`Told(c, L)`), the base is the listing `L` it planned with, but that what it reported as uploaded is in place, what it reported as
deleted is gone, directories were made above uploads that had none, and the file in hand is on its way (`Tells`). A
failure has its reason in `L` (`Explained`): a file in the place of a directory that is needed, or a directory in the
place of the file itself; deletes do not fail, since a directory is removed after all that it held (`DeletedDirsAreEmptied`).
At the end (`Settled`) this decides both directions: without failures nothing that is left of `L` differs from the
project (`CleanIsMirrored`), and in a mirror none of the reasons can hold (`MirroredIsClean`). A link that no upload replaces (`Escapes`) stays
one, and the property does not speak of such a base. Two more hypotheses: no two contents have the same size
(`OneCopyPerSize`), as `BuildPlan` compares sizes and times and does not hash, so that an edit of the same size within
`mtimeSlack` is missed, the case that `Converges` exempts; and that the base is not itself a link.
`OverwritesAloneAreAtomic == Spec => OverwriteIsAtomic`, the second result, needs neither of them. Its invariant
`Replacing(c)`: no planned delete is of a file that the project has (`Spared`), and an upload that got beyond its
posix-rename has no file in its way (`Overwrites`), so that the `Remove` among the fallbacks never takes one. Each part of `Alone` is needed: a
posix-rename that is refused is followed by the `Remove`, a plan older than an edit deletes what became a file of the
project, and a second call makes both renames fail (`sync_pair_overwrite`).

**PushProofs.** What TransferProofs and the modules before it show, for `BothSpec`, where each call is one of push or of sync.
`BothInv` adds to `TypeInv` that a push carries out one of the requests, and that the file
in hand and the files left are files of that request, so that each has its place in the
base (`AllTypesCorrect`). Push uses the actions of SyncEngine and MkdirAll and Upload, so
the lemmas about those are cited from SyncEngineProofs: `TornInv` is preserved by them whatever
the call is (`NoTornPush`, `OnlyWholeFilesPushed`). `PushReportsAll == BothSpec => []PushAccounting`:
the ledger (`LedgerInv`) says that each file asked for is in exactly one of those left, the one in
hand, the landed, the skipped and the failed ones, and that a push that is over has none left.
It is inductive because two files of one push never have one target (`TargetsDiffer`).

`BothHold` joins to this what TransferProofs has of syncs, carried over step by step: a step of push is one
of its own or of MkdirAll or Upload, and to the others it is one more writer of the base. From it:
`PushesLand == BothSpec => PushedLanded`; `SyncsReportTruly`: what SyncCallProofs says of the reports and deletes of
syncs (`ReportedLanded`, `DeletesAreChecked`) is as true beside pushes; `PushesStayInside == BothSpec => []PushStaysInside`, where
an upload that has started still lies behind no link (`StayInv`) because tools make no links
and remove only what is in a place of its own; `NeitherLeavesLitter == BothSpec => []NoLitter`; `OnlyAskedIsTouched`, where a push, for which `include` is
not meant, may write over what a sync excludes, but only where it was asked to, so that `BothSpec /\ []NoneExcluded =>
ExcludedFilesUntouched` (`ExcludedIsSafeFromBoth`) has the promise of syncs for both tools where no push is asked to, as in
`push_disturbed`; and the refinement for
both tools at once, `BothToolsKeepThePromise` and `BothToolsImplement`, in the form of those of TransferProofs.

`LostRacesAreHarmless == BothSpec => LostRacesAreNoErrors` is about `MkdirAll` alone, beside any number of calls and any
changes by others. `JoinedInv` says that a call that has begun has its connection as long as there was no fault; so no request fails by itself,
and what `MkdirAll` gives up on, after the second look as after the first, is something that is no directory.

**ConnectorProofs.** The inductive invariant is `TypeOK`, `OneSemaphore`,
`SlotsHeld` and `ConnectionsKnown` (whoever is in `connected[v]` is at a stage with a connection,
and its VM is `v`). `NoSlotLeaks`, `NoConnectionLeaks` and
`Capped` follow, and with them `TypeCorrect` and `SemaphoresApart`: the calls connected to a VM are holders of its one semaphore, and
these are counted by its tokens. `ImplementsCap == Spec => CapSpec`: each step
opens one connection (`Dial`, where the caller holds a token without a connection
and hence the VM has room), closes one (`CloseClient`), or stutters.

**ExecRunProofs.** The inductive invariant `Inv` adds to `TypeOK` that streams are read in
the order they arrive (`InOrder`), what a reader that ended left in the result and
why it ended (`ReadersDone`), that before `Run` made its choice only a reader with too much
closes the session (`ClosedForACause`), that the server closes the channel
when it said all or because it was asked to (`ClosedInTurn`), what an exit status in the result
implies (`Genuine`), and that nothing is left running after the return (`Settled`).
`TypeCorrect`, `NoLossUntold`, `TruncationTrue` and `NoLateWrites` follow, for every cap,
window and amount of output. They need no fairness.

**ToolsProofs.** The start and the tools, for every launch and every call, with names, lists and arguments of any
length. What the code does to them are loops, folds in the model. tlapm cannot instantiate the library's induction
principles, so `Inductive`, induction over the numbers up to one, is derived from `WFMin`: a set of numbers
that is not empty has a least member (`LeastNumber`). `FoldExists` shows in the same way that a fold is a
function, step by step (`FoldRuns`). On these rest:

- Names: `CleanedSteps` and what follows it say what `path.Clean` leaves: `..` only in front, and none in an absolute
  path (`Neat`, `Plain`); that cleaning a path joined below a base stays below it if the rest,
  cleaned by itself, does not begin with `..` (`CleanedBelow`). `BasesAreConfined` needs this of `remote_local_root`,
  `PushesAreConfined` of a file under the project root (`CandidateIsBelow`) and of `dest` and file under the remote
  base (`DestIsBelow`), where the code joins before it checks.
- VMs: `DeclaredAsListed` says that the list has the tables of the file, each once, in the order of the keys, which is
  `HostsAreListed`.
- The shell: read from left to right, `quoteArg` of any word takes the shell from one blank to the next with that
  word as one more, and no quote left open (`QuoteReads`, `AskingEnds`, `LineIsLiteral`). `ArgumentsAreLiteral` says it of the command, its arguments and its
  working directory.

The invariant of the machine is `StartInv`: behind each stage of `loadConfigs`, what the stages before it have checked
(`VMsLoaded`, `ProjectLoaded`); and, once a call is answered, that the server has started (`AnswerInv`).
`ToolsTypes` is a consequence: nothing is served that a loader would refuse.

The ignore rules are in the last part of the module. `matchSegs` goes back and forth over `**`, and is a function on two numbers, how
far it is in the pattern and in the path. `FitsFrom` is a way
to cut the rest of the path from there (`LooselyFits` from the start), in which every `**` may stand for nothing. `FirstPiece` takes such a way apart into what the first segment gets and a way
to cut the rest, and puts one together again. So the table of `FitsFrom` satisfies the recursion of
`matchSegs` (`FittingIsMatch`), and since two tables that satisfy it cannot first differ anywhere, counted from the end
of the pattern (`MatchIsFitting`), it is what `matchSegs` computes (`MatchMeansFits`). What git matches differs at one place only:
a `**` at the end (`FitsIsLoose`, `FitsOrStops`), whence `MatchesAreFound`, which has that case in its statement.
`VerdictsSuffice` goes from the matcher to the verdicts that SyncPlan takes its rules to be. `Included` compares
strings with a slash added, which is the prefix test on names (`UnderIsPrefix`); `Ignored` looks at every prefix of
the path, and these are the ancestors that SyncPlan looks at, since a project holds the directory of whatever it holds.

`RulesDecideAsGit == ToolsSpec => [](RootFirst(DOMAIN Rules.gitignoreBy) => IgnoresAsGit)` compares the folds of `ignoredSelf`
with gitignore(5), which knows no order of evaluation. `IgnoresAsGit` is of rules without a `**` at the end of a pattern; `RootFirst` is another thing that the
code does not see to: no directory of the root that has a `.gitignore` sorts before
`.gitignore` itself. `push_rules` shows that both are needed. The argument: the order of `sortByDepth` is strict and total (`SortedOrders`; for the walk this needs
that a `.gitignore` is a file, `ProjectAssumption`), so that a finite set of directories has a list in it
(`Listable`, by counting what comes before each), which is what `SortByDepth` picks (`SortIs`). In it no directory comes
before one above it (`OutermostFirst`). A fold in which each match overrides what was before gives the last match
(`LastDecides`), within one file (`AppliedIs`) and over the files (`FilesDecide`); of the files above a path the last
in the list is the deepest (`AboveEachOther`), and what is decided so is what git lets decide (`OwnDecides`, `DeepestDecides`).

Only model-checked is liveness (`CallsEnd`, `Converges`, `RunReturns`, `OnlySilenceBlocks`), which the prover does not
reach. Every other property of a run that passes is stated by a theorem, three of them under a condition that they
need: `CleanMeansMirrored` and `OverwriteIsAtomic` of one call that nothing disturbs (`sync_pair_overwrite` is a call
that another one disturbs), `IgnoresAsGit` of a root whose `.gitignore` is walked first (`push_rules`).

## 6. Where the code and its documents differ

Each has a run with the documented statement as its property, and TLC's
counterexample shows the difference.

1. `sync_pair_overwrite` (`OverwriteIsAtomic`). `Rename` removes the destination
   after *any* two failed renames, not only on a server without posix-rename, as
   its comment says. Two concurrent syncs suffice: one lists the other's temporary
   file as remote-only and deletes it; the other's renames then fail, as their
   source is gone, and it removes the file it was to replace. The upload is
   reported as failed, and the next sync repairs it. (A single call never does this:
   `sync_alone`, and the theorem `OverwritesAloneAreAtomic`.)
2. `sync_link_upload` (`NothingPlannedThroughLinks`). `sftp.go` says that sync can
   never plan a write through a link. The files of a local directory in the place
   of a remote link are absent from the listing, so they are planned, and
   `MkdirAll`'s `Stat` follows the link.
3. `sync_delete_window` (`DeletesStayInside`). `apply.go:50-52` says that a link planted after
   planning but before a delete runs cannot route it outside the base, and `README.md:115-118` that
   every delete is confined. The check (`RealPath`) and the removal are two requests, and a link planted between
   them does. What the check does achieve is `DeletesAreChecked`: nothing but such a link, planted in that
   very window, leads a delete out.
4. `connector_silence` (`WaitingEnds`). `client.go:105` clears the deadline of the connection since "per-call
   timeouts are handled by exec/sftp callers from here", and the troubleshooting guide has
   `E_TRANSFER_TIMEOUT` for a call over its 30-minute budget and `E_CONCURRENCY_TIMEOUT` for too many concurrent calls.
   Neither the SFTP session nor the requests of sync and push nor the wait for a slot has a timer, and nothing produces
   these errors: behind calls to a VM that stopped answering, the next one waits without an end.
   What waiting does depend on is `OnlySilenceBlocks`.
5. `push_rules` (`PushRespectsIgnore`), one push of three files, each decided otherwise than by
   gitignore(5), with which `ignore.go:1` claims to be compatible:
   - `./a/b`, with `/a/` ignored, is sent: push asks the matcher about a file as it is spelled, and cleans
     the name afterwards, where the comment at `push.go:138-140` says that naming a file does not get around the rules.
   - `b/x.log`, with the rules `b/**` and `!b/x.log`, is skipped: a `**` at the end also stands for
     no name, so that the directory `b` is ignored, with all that is in it. To git `b/**` is what is inside of `b`.
   - `.ci/x.log`, ignored by the root's `.gitignore` and re-included by that of `.ci`, is skipped: `sortByDepth` takes the root
     and a directory in it for equally deep, and keeps the order of the walk, which enters `.ci` before it
     reads the root's `.gitignore`. The root's patterns then come last, where its comment says that deeper ones win.

Seen while reading, without a run:

- `push` makes the directories of a destination before it resolves them. `MkdirAll` follows a link in the path, so
  that directories are made outside of the base, where `README.md:115-118` and `pathsafe.go:1-3` say that every write is
  confined; the file itself is then refused (`PushStaysInside`). sync makes them through links as well, and writes the files, too
  (`sync_link_upload`). What lies behind a link is not in the models, so that no property can say it.
- A link planted between `ResolveDir` and the upload of a push takes the file out of the base, like that of
  `sync_delete_window` does with a delete, and against the same lines of `README.md`; `PushStaysInside` leaves such links out.
- `ignore.New` drops every error of the walk, of opening and of scanning a `.gitignore` (`ignore.go:134-165`): the rules of a
  file that cannot be read, or of the rest of one with a line too long, are missing without a word, so that files are sent or
  deleted that it excludes. The error path in `push.go:124-126` is never taken.
- Some conflicts no number of syncs resolves: a file on the VM in the place of a directory of the project is no delete
  candidate (`localAll` has directories too) and `MkdirAll` fails on it each time, and a directory in the place of a file stays
  as long as it holds a link or a protected entry. Each such sync reports its failures (`CleanMeansMirrored`), but none converges, so that
  `Converges` is said of the trees that `RemoteR` names and of one edit, which cannot turn a file that was uploaded into a directory.
- A call that gives up waiting for its slot is reported as `E_SFTP_FAILED`.
- The limit of four connections is per name of a VM and per process: two names for one
  machine, or two servers, do not share it.
- An include of `.` or `./src` is accepted at startup and matches nothing
  (`ignore.go:227-241`), so that a sync of it deletes nothing and uploads nothing.
- With `remote_root` `/` and `remote_local_root` `.`, or a project root `/`, the prefix test asks for `//`
  and every push is refused (`pathsafe.go:46`, `:86`).
- Two projects with `remote_local_root` `.` and `p` share a part of one VM, and the sync of
  the first deletes the files of the second.
- exec's working directory defaults to `remote_root`, not to the remote base.

- `plan.go:160-162` says that a remote link is never overwritten as a changed file;
  `needsUpload` asks for just that when a local file is in the link's place.
- `types.go:17-20` says that the session was closed before the remote process reported an
  exit status whenever a run timed out or was truncated; the status may have come
  by then (`Exit` before `Over`), and is dropped.
- `readCapped` drops read errors, so a connection lost after the exit status but before
  the rest of the output looks like a complete run (the exemption in `NoSilentLoss`).
- After its timer `Run` waits until the server answers the close: `timeout_seconds` is no
  bound on a call to a server that does not (an assumption of `RunReturns`).
- A dropped connection in `push` and `sync` is reported as `E_SFTP_FAILED`, not as
  `E_SSH_CONNECTION_LOST`.
- A remote-only directory with a link in it is planned for deletion although the link
  survives, so that its `RemoveDir` fails on every sync.

## 7. Limits

- Links only lead out of the base. What happens behind one is not modelled.
- The local walk is one step; the content of a file that is edited during its upload
  is the old or the new one, never a mixture of the two.
- `OverwriteIsAtomic` takes a posix-rename to be atomic on the server.
- The name of a temporary file is fresh: a collision of 32 random bits is left out.
- File modes, message texts, JSON, logging and argument decoding are left out.
- The rules do not change while sync and push run in the models: a `.gitignore` edited between calls is not covered, and
  what cannot be read of one is a matter of `Tools` only.
- `semaphore()` is one step, as it runs under the mutex from end to end; that the mutex does its work is taken for granted.
- The syntax of a glob inside one name is `path.Match`'s; comments and escapes in pattern
  files, and Windows separators, are left out.
- TOML is decoded by a library; its record is what Startup begins with. Warnings are left out.
- A crash ends a sync or push call, not the process of a connector: after a crash of the
  process the semaphores are gone together with the calls.

## 8. Plan

Done: every component but the test server, the refinement of Transfer, and a theorem for every property
but those of liveness. What could be added: a run, and a component, for the test server, if its faults are ever
to be trusted as a model of a VM's; what a link leads to, which the trees leave out; and comments and
escapes in pattern files.

## 9. How to run

```
tlc -config sync_alone.cfg MCSync.tla        # any run of PROJECT.json
tlapm SyncEngineProofs.tla                    # any *Proofs module
```
