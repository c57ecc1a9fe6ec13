------------------------------ MODULE PushTool ------------------------------
(***************************************************************************)
(* The push tool (internal/tools/push.go) beside the sync tool: a caller   *)
(* calls either, and all calls work on one project and one remote base.    *)
(* push shares ensureRemoteBase, MkdirAll and Upload with sync; it takes   *)
(* files by name, and resolves the directory of each on the VM once it is  *)
(* made.                                                                   *)
(***************************************************************************)
EXTENDS SyncEngine

CONSTANTS
  Requests    \* what callers push: files of the project, and where to

Target(dest, p) == dest \o p

ASSUME RequestAssumption ==
  /\ Requests \subseteq [files : (SUBSET Visible) \ {{}}, dest : Path]
  /\ \A r \in Requests : \A p \in r.files : Target(r.dest, p) \in Visible

VARIABLES
  push,    \* push[c]: c's push, if its call is one, and how far it is
  pushed   \* pushed[c]: what it did (pushOutput)

pushVars == <<push, pushed>>
allVars == <<vars, pushVars>>

NoPush == [at |-> "none", asked |-> {}, left |-> {}, dest |-> Base, cur |-> Base]
NothingPushed == [uploaded |-> {}, skipped |-> {}, failed |-> {}]

AllTypeOK ==
  /\ TypeOK
  /\ push \in [Caller -> [at : {"none", "base", "next", "mkdir", "resolve", "upload"},
                          asked : SUBSET Visible, left : SUBSET Visible,
                          dest : Path, cur : Path]]
  /\ pushed \in [Caller -> [uploaded : SUBSET Visible, skipped : SUBSET Visible,
                            failed : SUBSET Visible]]

PushInit ==
  /\ Init
  /\ push = [c \in Caller |-> NoPush]
  /\ pushed = [c \in Caller |-> NothingPushed]

Pushing(c, stage) == call[c].phase \in Active /\ push[c].at = stage
PushGoto(c, stage) == push' = [push EXCEPT ![c].at = stage]
Where(c) == Target(push[c].dest, push[c].cur)

-----------------------------------------------------------------------------
\* A call of push up to its connection.
BeginPush(c, r) ==
  /\ Begin(c, FALSE)
  /\ push' = [push EXCEPT ![c] = [NoPush EXCEPT !.at = "base", !.asked = r.files,
                                                !.left = r.files, !.dest = r.dest]]
  /\ pushed' = [pushed EXCEPT ![c] = NothingPushed]

\* ensureRemoteBase, after which sync would list and push takes its files.
PushBase(c) ==
  /\ Pushing(c, "base")
  /\ StatBase(c) \/ MakeBase(c) \/ ResolveBase(c)
  /\ IF call'[c].phase = "list" THEN PushGoto(c, "next") ELSE UNCHANGED push
  /\ UNCHANGED pushed

\* CheckLocalFile resolves the directory of p and os.Stat p itself: a link on the
\* way is refused, and one in p's own place is taken for what it points to.
LocalFile(p) == IF LeadsOut(local, p) THEN {FALSE}
                ELSE IF local[p] = Link THEN BOOLEAN
                ELSE {IsFile(local[p])}

\* A file that is not pushed is reported, and the loop goes on.
PushFails(c) ==
  /\ pushed' = [pushed EXCEPT ![c].failed = @ \cup {push[c].cur}]
  /\ PushGoto(c, "next")

\* The head of the loop: ignore and the local checks.  ignore.New never fails:
\* what it cannot read of the .gitignore files is missing in the rules.
NextFile(c) ==
  /\ Pushing(c, "next")
  /\ \E p \in push[c].left :
       LET dir == Parent(Target(push[c].dest, p))
           taken(stage) ==
             push' = [push EXCEPT ![c] = [push[c] EXCEPT !.left = @ \ {p}, !.cur = p,
                                                         !.at = stage]]
       IN  \/ /\ Ignored(rules, p, FALSE)
              /\ taken("next")
              /\ pushed' = [pushed EXCEPT ![c].skipped = @ \cup {p}]
              /\ UNCHANGED <<mk, up>>
           \/ /\ ~Ignored(rules, p, FALSE) /\ FALSE \in LocalFile(p)
              /\ taken("next")
              /\ pushed' = [pushed EXCEPT ![c].failed = @ \cup {p}]
              /\ UNCHANGED <<mk, up>>
           \/ /\ ~Ignored(rules, p, FALSE) /\ TRUE \in LocalFile(p)
              /\ taken("mkdir")
              /\ mk' = [mk EXCEPT ![c] = MkdirAt("stat", dir, dir)]
              /\ up' = [up EXCEPT ![c] = NotStarted]
              /\ UNCHANGED pushed
  /\ UNCHANGED <<session, now, rules, budget, call, plan, result>>

MakeDirs(c) ==
  /\ Pushing(c, "mkdir")
  /\ MkdirStep(c)
  /\ CASE mk'[c].at = "done"   -> PushGoto(c, "resolve") /\ UNCHANGED pushed
       [] mk'[c].at = "failed" -> PushFails(c)
       [] OTHER                -> UNCHANGED pushVars
  /\ UNCHANGED <<now, rules, budget, up, call, plan, result>>

\* Mutant of ResolveDir: the directory is taken for what its name says.
ResolveDirByName(c) ==
  /\ Pushing(c, "resolve")
  /\ \E ok \in BOOLEAN :
       /\ Ask(c, ok, TRUE)
       /\ IF ok THEN PushGoto(c, "upload") /\ UNCHANGED pushed ELSE PushFails(c)
  /\ UNCHANGED <<env, own>>

\* RealPath and CheckRemoteReal, of the directory just made.
ResolveDir(c) ==
  /\ Pushing(c, "resolve")
  /\ \E ok \in BOOLEAN :
       /\ Ask(c, ok, TRUE)
       /\ IF ok /\ ResolvesInside(Parent(Where(c)))
          THEN PushGoto(c, "upload") /\ UNCHANGED pushed
          ELSE PushFails(c)
  /\ UNCHANGED <<env, own>>

\* Mutants of PushFile: a failure is taken for a success; it is not reported.
PushFileAnyhow(c) ==
  /\ Pushing(c, "upload")
  /\ \/ up[c].at = "idle" /\ UploadStart(c, push[c].cur, Where(c))
     \/ UploadStep(c)
  /\ IF up'[c].at \in {"done", "failed"}
     THEN /\ pushed' = [pushed EXCEPT ![c].uploaded = @ \cup {Where(c)}]
          /\ PushGoto(c, "next")
     ELSE UNCHANGED pushVars
  /\ UNCHANGED <<rules, budget, mk, call, plan, result>>
PushFileSilently(c) ==
  /\ Pushing(c, "upload")
  /\ \/ up[c].at = "idle" /\ UploadStart(c, push[c].cur, Where(c))
     \/ UploadStep(c)
  /\ CASE up'[c].at = "done" ->
            /\ pushed' = [pushed EXCEPT ![c].uploaded = @ \cup {Where(c)}]
            /\ PushGoto(c, "next")
       [] up'[c].at = "failed" -> PushGoto(c, "next") /\ UNCHANGED pushed
       [] OTHER -> UNCHANGED pushVars
  /\ UNCHANGED <<rules, budget, mk, call, plan, result>>

PushFile(c) ==
  /\ Pushing(c, "upload")
  /\ \/ up[c].at = "idle" /\ UploadStart(c, push[c].cur, Where(c))
     \/ UploadStep(c)
  /\ CASE up'[c].at = "done" ->
            /\ pushed' = [pushed EXCEPT ![c].uploaded = @ \cup {Where(c)}]
            /\ PushGoto(c, "next")
       [] up'[c].at = "failed" -> PushFails(c)
       [] OTHER -> UNCHANGED pushVars
  /\ UNCHANGED <<rules, budget, mk, call, plan, result>>

PushReturns(c) ==
  /\ Pushing(c, "next")
  /\ push[c].left = {}
  /\ Goto(c, "done")
  /\ UNCHANGED <<session, env, mk, up, plan, result, pushVars>>

PushStep(c) ==
  \/ PushBase(c)
  \/ NextFile(c)
  \/ MakeDirs(c)
  \/ ResolveDir(c)
  \/ PushFile(c)
  \/ PushReturns(c)

-----------------------------------------------------------------------------
\* Both tools.  A call of sync is as SyncEngine has it.
BeginSync(c, dry) ==
  /\ Begin(c, dry)
  /\ push' = [push EXCEPT ![c] = NoPush]
  /\ pushed' = [pushed EXCEPT ![c] = NothingPushed]

SyncStep(c) ==
  /\ push[c].at = "none"
  /\ CallStep(c)
  /\ UNCHANGED pushVars

BothNext ==
  \/ \E c \in Caller :
       \/ \E r \in Requests : BeginPush(c, r)
       \/ \E dry \in DryRuns : BeginSync(c, dry)
       \/ PushStep(c)
       \/ SyncStep(c)
       \/ Crash(c) /\ UNCHANGED pushVars
  \/ Environment /\ UNCHANGED pushVars

BothSpec == PushInit /\ [][BothNext]_allVars

-----------------------------------------------------------------------------
(***************************************************************************)
(* Properties.                                                             *)
(***************************************************************************)

\* pushOutput: a push that is over has every file it was asked for in exactly
\* one of Uploaded, SkippedByIgnore and Failed.
PushAccounting ==
  \A c \in Caller : call[c].phase = "done" /\ push[c].at # "none" =>
    LET r == pushed[c]
        landed == {p \in push[c].asked : Target(push[c].dest, p) \in r.uploaded}
    IN  /\ landed \cup r.skipped \cup r.failed = push[c].asked
        /\ landed \cap r.skipped = {}
        /\ landed \cap r.failed = {}
        /\ r.skipped \cap r.failed = {}

\* What a push reports as uploaded is in place at that moment, complete, also
\* while a sync deletes and replaces what it finds on the VM.
PushedLanded ==
  [][\A c \in Caller : \A t \in pushed'[c].uploaded \ pushed[c].uploaded :
       LeadsOut(fs, t) \/ (IsFile(fs'[t]) /\ fs'[t].data # Torn)]_allVars

\* A push keeps the promise of a sync: once it has resolved the base, its job is
\* the files it was given, each under its destination.
PushJob(c) ==
  LET alive == push[c].at # "base" /\ JobState(c) \in {"open", "working", "done"}
      Landing(S) == IF alive THEN {Target(push[c].dest, p) : p \in S} ELSE {}
  IN  [state   |-> IF JobState(c) = "open" /\ alive THEN "working" ELSE JobState(c),
       dry     |-> FALSE,
       uploads |-> Landing(push[c].asked),
       deletes |-> {},
       landed  |-> IF alive THEN pushed[c].uploaded ELSE {},
       gone    |-> {},
       missed  |-> Landing(pushed[c].skipped \cup pushed[c].failed)]

TheJob(c) == IF push[c].at = "none" THEN Job(c) ELSE PushJob(c)

\* Every step of any mix of the two is one that Transfer has, or changes nothing
\* that can be seen.
BothJobs == [c \in Caller |-> TheJob(c)]
BothPromise == INSTANCE Transfer WITH tree <- Shown, job <- BothJobs
BothImplement == BothPromise!TransferSpec

\* Two calls that make the same directories at the same time do not fail for it:
\* MkdirAll looks again after a Mkdir that failed, so while requests do not fail
\* by themselves it never gives up on a directory that is there.
LostRacesAreNoErrors ==
  [][\A c \in Caller :
       /\ mk[c].at \in MkdirStages /\ mk'[c].at = "failed"
       /\ faults' = 0 /\ ~LeadsOut(fs, mk[c].dir)
       => fs[mk[c].dir] # Dir]_allVars

\* While nobody plants links, no file is pushed through one: MkdirAll goes
\* through it, but the check after it does not let the upload.
PushStaysInside ==
  budget.intrusions = MaxIntrusions =>
    \A c \in Caller : Busy(c) /\ push[c].at = "upload" => ~LeadsOut(fs, up[c].dst)
=============================================================================
