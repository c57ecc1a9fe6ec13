----------------------------- MODULE SyncEngine -----------------------------
(***************************************************************************)
(* The sync tool: its handler (internal/tools/sync.go), ensureRemoteBase   *)
(* (internal/tools/remotebase.go), ReadDirRecursive (internal/sshlayer/    *)
(* sftp.go) and Apply (internal/syncengine/apply.go), over BuildPlan,      *)
(* MkdirAll and Upload.  Several calls run at the same time, each over a   *)
(* connection of its own, while the user edits the project and something   *)
(* else on the VM changes the remote base.                                 *)
(***************************************************************************)
EXTENDS SyncPlan, MkdirAll, Upload

CONSTANTS
  InitLocal,   \* the project roots to start from
  InitRemote,  \* the remote bases to start from
  InitRules,   \* the include / ignore rules to choose from
  DryRuns,     \* the values callers give dry_run
  MaxNow,      \* bound: the local clock
  MaxEdits,    \* bound: changes of the project root while calls run
  MaxIntrusions, \* bound: changes of the remote base by others
  MaxCrashes   \* bound: calls that die on their way

\* A tree nobody has a temporary or an unfinished file in.
Clean(t) == /\ t \in [Path -> Node]
            /\ \A p \in Path : IsFile(t[p]) => p \in Visible /\ ~IsTorn(t[p])

ASSUME InitAssumption ==
  /\ \A t \in InitLocal \cup InitRemote : WellFormed(t) /\ Clean(t)
  /\ \A t \in InitRemote : \A p \in Temps : t[p] = Absent
  /\ InitRules \subseteq Rules
  /\ DryRuns \subseteq BOOLEAN
  /\ {MaxNow, MaxEdits, MaxIntrusions, MaxCrashes} \subseteq Nat

VARIABLES
  rules,   \* the include / ignore rules, fixed at startup
  call,    \* call[c]: how far c is, and its local variables
  plan,    \* plan[c]: what BuildPlan returned to c
  result,  \* result[c]: what c did with it (ApplyResult)
  budget   \* how often the environment may still intervene

own == <<mk, up, call, plan, result>>
env == <<local, now, rules, budget>>
vars == <<session, now, rules, budget, own>>

Planning == {"stat", "mkbase", "realpath", "list", "plan"}
Active == Planning \cup {"next", "mkdir", "upload", "check", "remove"}
Ended  == {"idle", "done", "error", "crashed"}

NothingListed == [p \in Path |-> Absent]
NoResult  == [uploaded |-> {}, deleted |-> {}, failed |-> {}]
Idle == [phase |-> "idle", dry |-> FALSE, listing |-> NothingListed, todo |-> {},
         uploads |-> {}, deletes |-> {}, cur |-> Base, isDir |-> FALSE,
         made |-> {}]

DeleteEntry == [path : Entry, isDir : BOOLEAN]
CallRecord ==
  [phase : Active \cup Ended, dry : BOOLEAN, listing : [Path -> Node],
   todo : SUBSET Path, uploads : SUBSET Visible, deletes : SUBSET DeleteEntry,
   cur : Path, isDir : BOOLEAN, made : SUBSET Path]
PlanRecord ==
  [ToUpload : SUBSET Visible, ToDelete : SUBSET DeleteEntry,
   SkippedSymlinks : SUBSET Entry, ProtectedByIgnore : SUBSET Entry]
ResultRecord ==
  [uploaded : SUBSET Entry, deleted : SUBSET Entry,
   failed : SUBSET (Entry \X {"mkdir", "upload", "delete"})]
Budget == [edits : 0 .. MaxEdits, intrusions : 0 .. MaxIntrusions,
           crashes : 0 .. MaxCrashes]

TypeOK ==
  /\ UploadTypeOK
  /\ MkdirTypeOK
  /\ rules \in Rules
  /\ call \in [Caller -> CallRecord]
  /\ plan \in [Caller -> PlanRecord]
  /\ result \in [Caller -> ResultRecord]
  /\ budget \in Budget

Init ==
  /\ local \in InitLocal
  /\ fs \in InitRemote
  /\ rules \in InitRules
  /\ now = 0
  /\ conn = [c \in Caller |-> FALSE]
  /\ faults = 0
  /\ up = [c \in Caller |-> NotStarted]
  /\ mk = [c \in Caller |-> MkdirIdle]
  /\ call = [c \in Caller |-> Idle]
  /\ plan = [c \in Caller |-> EmptyPlan]
  /\ result = [c \in Caller |-> NoResult]
  /\ budget = [edits |-> MaxEdits, intrusions |-> MaxIntrusions,
               crashes |-> MaxCrashes]

-----------------------------------------------------------------------------
\* The handler: connect, make sure of the base, list, plan.

Goto(c, next) == call' = [call EXCEPT ![c].phase = next]

\* connectOrFail succeeded; a call that gets no connection changes nothing.
Begin(c, dry) ==
  /\ call[c].phase \in Ended
  /\ conn' = [conn EXCEPT ![c] = TRUE]
  /\ call' = [call EXCEPT ![c] = [Idle EXCEPT !.phase = "stat", !.dry = dry]]
  /\ mk' = [mk EXCEPT ![c] = MkdirIdle]
  /\ up' = [up EXCEPT ![c] = NotStarted]
  /\ plan' = [plan EXCEPT ![c] = EmptyPlan]
  /\ result' = [result EXCEPT ![c] = NoResult]
  /\ UNCHANGED <<fs, faults, env>>

\* ensureRemoteBase: Stat.  A dry run over no base lists nothing.
StatBase(c) ==
  /\ call[c].phase = "stat"
  /\ \E ok \in BOOLEAN :
       /\ Ask(c, ok, TRUE)
       /\ IF ~ok THEN Goto(c, "error") /\ UNCHANGED mk
          ELSE IF fs[Base] # Absent THEN Goto(c, "realpath") /\ UNCHANGED mk
          ELSE IF call[c].dry THEN Goto(c, "plan") /\ UNCHANGED mk
          ELSE /\ Goto(c, "mkbase")
               /\ mk' = [mk EXCEPT ![c] = MkdirAt("stat", Base, Base)]
  /\ UNCHANGED <<up, plan, result, env>>

\* ensureRemoteBase: MkdirAll of the base.
MakeBase(c) ==
  /\ call[c].phase = "mkbase"
  /\ MkdirStep(c)
  /\ CASE mk'[c].at = "done"   -> Goto(c, "realpath")
       [] mk'[c].at = "failed" -> Goto(c, "error")
       [] OTHER                -> UNCHANGED call
  /\ UNCHANGED <<now, up, plan, result, rules, budget>>

ResolveBase(c) ==
  /\ call[c].phase = "realpath"
  /\ \E ok \in BOOLEAN :
       /\ Ask(c, ok, TRUE)
       /\ call' = IF ok THEN [call EXCEPT ![c].phase = "list",
                                          ![c].todo = {Base}]
                        ELSE [call EXCEPT ![c].phase = "error"]
  /\ UNCHANGED <<mk, up, plan, result, env>>

Children(d) == {p \in Entry : Parent(p) = d}

\* What ReadDir(d) can report of d's children: through a link, anything.
ReadDirReplies(d) ==
  IF fs[d] = Link \/ LeadsOut(fs, d)
  THEN [Children(d) -> {Absent, Dir} \cup {File(x, 0) : x \in Content}]
  ELSE {[p \in Children(d) |-> fs[p]]}

Readable(d) == IF IsFile(fs[d]) THEN {FALSE}
               ELSE IF fs[d] = Link \/ LeadsOut(fs, d) THEN BOOLEAN
               ELSE {TRUE}

\* ReadDirRecursive, one directory: one that is gone lists as empty, one that
\* cannot be read fails the call, links are listed and not descended into.
List(c) ==
  LET k == call[c]
      Listed(d, reply) ==
        LET more == {p \in DOMAIN reply : reply[p] = Dir}
            left == (k.todo \ {d}) \cup more
        IN  [k EXCEPT !.listing = [p \in Path |-> IF p \in DOMAIN reply
                                                  THEN reply[p] ELSE @[p]],
                      !.todo = left,
                      !.phase = IF left = {} THEN "plan" ELSE "list"]
  IN  /\ k.phase = "list"
      /\ \E d \in k.todo : \E reply \in ReadDirReplies(d), ok \in BOOLEAN :
           /\ \E able \in Readable(d) : Ask(c, ok, able)
           /\ call' = [call EXCEPT ![c] = IF ok THEN Listed(d, reply)
                                          ELSE [k EXCEPT !.phase = "error"]]
      /\ UNCHANGED <<mk, up, plan, result, env>>

\* Apply starts with the whole plan.
Applying(k, p) == [k EXCEPT !.phase = "next", !.listing = NothingListed,
                            !.uploads = p.ToUpload, !.deletes = p.ToDelete]

\* Mutant of Planned: dry_run is not looked at.
PlannedRegardless(k, p) == Applying(k, p)

\* A dry run returns the plan and is over.
Planned(k, p) ==
  IF k.dry THEN [k EXCEPT !.phase = "done", !.listing = NothingListed]
           ELSE Applying(k, p)

Plan(c) ==
  LET k == call[c]
      p == BuildPlan(local, k.listing, rules)
  IN  /\ k.phase = "plan"
      /\ plan' = [plan EXCEPT ![c] = p]
      /\ call' = [call EXCEPT ![c] = Planned(k, p)]
      /\ UNCHANGED <<session, mk, up, result, now, rules, budget>>

\* The project root could not be read while it was walked.
PlanFails(c) ==
  /\ call[c].phase = "plan"
  /\ faults < MaxFaults
  /\ faults' = faults + 1
  /\ Goto(c, "error")
  /\ UNCHANGED <<fs, conn, mk, up, plan, result, env>>

-----------------------------------------------------------------------------
\* Apply: every upload, then every delete; a failure does not stop the loop.

\* Mutants of Fail: the entry goes unreported; it is recorded with the request
\* that failed instead of its action.
FailUnreported(c, action) == Goto(c, "next") /\ UNCHANGED result
FailWithRequest(c, action) ==
  /\ result' = [result EXCEPT ![c].failed = @ \cup {<<call[c].cur, call[c].phase>>}]
  /\ Goto(c, "next")

Fail(c, action) ==
  /\ result' = [result EXCEPT ![c].failed = @ \cup {<<call[c].cur, action>>}]
  /\ Goto(c, "next")

\* The head of both loops.  madeDirs spares an upload its MkdirAll.
NextEntry(c) ==
  LET k == call[c]
  IN  /\ k.phase = "next"
      /\ \/ \E p \in k.uploads :
              /\ call' = [call EXCEPT ![c] =
                   [k EXCEPT !.uploads = @ \ {p}, !.cur = p,
                             !.phase = IF Parent(p) \in k.made THEN "upload"
                                       ELSE "mkdir"]]
              /\ up' = [up EXCEPT ![c] = NotStarted]
              /\ mk' = [mk EXCEPT ![c] = MkdirAt("stat", Parent(p), Parent(p))]
         \/ /\ k.uploads = {}
            /\ \E d \in DeletableNow(k.deletes) :
                 call' = [call EXCEPT ![c] =
                   [k EXCEPT !.deletes = @ \ {d}, !.cur = d.path,
                             !.isDir = d.isDir, !.phase = "check"]]
            /\ UNCHANGED <<mk, up>>
         \/ /\ k.uploads = {} /\ k.deletes = {}
            /\ Goto(c, "done")
            /\ UNCHANGED <<mk, up>>
      /\ UNCHANGED <<session, now, rules, budget, plan, result>>

MakeParents(c) ==
  /\ call[c].phase = "mkdir"
  /\ MkdirStep(c)
  /\ CASE mk'[c].at = "done" ->
            /\ call' = [call EXCEPT ![c].phase = "upload",
                                    ![c].made = @ \cup {Parent(call[c].cur)}]
            /\ UNCHANGED result
       [] mk'[c].at = "failed" -> Fail(c, "mkdir")
       [] OTHER -> UNCHANGED <<call, result>>
  /\ UNCHANGED <<now, up, plan, rules, budget>>

UploadEntry(c) ==
  LET p == call[c].cur
  IN  /\ call[c].phase = "upload"
      /\ \/ up[c].at = "idle" /\ UploadStart(c, p, p)
         \/ UploadStep(c)
      /\ CASE up'[c].at = "done" ->
                /\ result' = [result EXCEPT ![c].uploaded = @ \cup {p}]
                /\ Goto(c, "next")
           [] up'[c].at = "failed" -> Fail(c, "upload")
           [] OTHER -> UNCHANGED <<call, result>>
      /\ UNCHANGED <<mk, plan, rules, budget>>

\* Mutant of ResolvesInside: the path itself is all that is looked at.
ResolvesInsideByName(p) == TRUE

\* RealPath and CheckRemoteReal: the entry still resolves inside the base.  The
\* base itself is resolved once, and is no link in these trees.
ResolvesInside(p) == fs[p] # Link /\ ~LeadsOut(fs, p)

CheckDelete(c) ==
  /\ call[c].phase = "check"
  /\ \E ok \in BOOLEAN :
       /\ Ask(c, ok, TRUE)
       /\ IF ok /\ ResolvesInside(call[c].cur)
          THEN Goto(c, "remove") /\ UNCHANGED result
          ELSE Fail(c, "delete")
  /\ UNCHANGED <<mk, up, plan, env>>

RemoveEntry(c) ==
  LET p == call[c].cur
      able == IF call[c].isDir THEN IsEmptyDir(fs, p) ELSE CanRemove(fs, p)
  IN  /\ call[c].phase = "remove"
      /\ \E ok \in BOOLEAN :
           /\ RequestAt(c, ok, p, able, Without(fs, p))
           /\ IF ok
              THEN /\ result' = [result EXCEPT ![c].deleted = @ \cup {p}]
                   /\ Goto(c, "next")
              ELSE Fail(c, "delete")
      /\ UNCHANGED <<mk, up, plan, env>>

-----------------------------------------------------------------------------
\* The environment.

\* The process serving c dies: nothing cleans up after it.
Crash(c) ==
  /\ call[c].phase \in Active
  /\ budget.crashes > 0
  /\ budget' = [budget EXCEPT !.crashes = @ - 1]
  /\ call' = [call EXCEPT ![c] = [Idle EXCEPT !.phase = "crashed"]]
  /\ up' = [up EXCEPT ![c] = NotStarted]
  /\ mk' = [mk EXCEPT ![c] = MkdirIdle]
  /\ UNCHANGED <<session, now, rules, plan, result>>

\* Somebody changes a tree: writes a file, makes a directory, removes an entry.
\* Files only come where an upload would have a name for them.
Changes(t, t2, stamp) ==
  \E p \in Visible :
    \/ /\ CanCreate(t, p) /\ t[p] # Dir /\ TempOf[p] # {}
       /\ \E d \in Content : t2 = [t EXCEPT ![p] = File(d, stamp)]
    \/ /\ CanCreate(t, p) /\ t[p] = Absent
       /\ t2 = [t EXCEPT ![p] = Dir]
    \/ /\ CanRemove(t, p)
       /\ t2 = Without(t, p)

EditLocal ==
  /\ budget.edits > 0
  /\ budget' = [budget EXCEPT !.edits = @ - 1]
  /\ Changes(local, local', now)
  /\ UNCHANGED <<fs, conn, faults, now, rules, own>>

\* A directory or a file moves away and a link takes its place.
Relocates(t, t2) ==
  \E p \in Visible :
    /\ t[p].kind \in {"file", "dir"}
    /\ t2 = [q \in Path |-> IF q = p THEN Link
                            ELSE IF Under(q, p) THEN Absent ELSE t[q]]

ChangeRemote ==
  /\ budget.intrusions > 0
  /\ budget' = [budget EXCEPT !.intrusions = @ - 1]
  /\ \/ Changes(fs, fs', Stamp)
     \/ Relocates(fs, fs')
  /\ UNCHANGED <<local, conn, faults, now, rules, own>>

Tick ==
  /\ now < MaxNow
  /\ now' = now + 1
  /\ UNCHANGED <<session, rules, budget, own>>

-----------------------------------------------------------------------------
CallStep(c) ==
  \/ StatBase(c)
  \/ MakeBase(c)
  \/ ResolveBase(c)
  \/ List(c)
  \/ Plan(c)
  \/ PlanFails(c)
  \/ NextEntry(c)
  \/ MakeParents(c)
  \/ UploadEntry(c)
  \/ CheckDelete(c)
  \/ RemoveEntry(c)

\* What goes on around the calls: none of it touches what a call holds.
Environment ==
  /\ EditLocal \/ ChangeRemote \/ Tick
  /\ UNCHANGED <<rules, own>>

Next ==
  \/ \E c \in Caller : \/ \E dry \in DryRuns : Begin(c, dry)
                       \/ CallStep(c)
                       \/ Crash(c)
  \/ Environment

Spec == Init /\ [][Next]_vars

\* A call runs on; the server answers or the connection is lost.
Fairness == \A c \in Caller : WF_vars(CallStep(c))
FairSpec == Spec /\ Fairness

-----------------------------------------------------------------------------
(***************************************************************************)
(* Properties.                                                             *)
(***************************************************************************)

\* A file that a user of the VM can see is never a half-written one: Upload
\* writes under a temporary name, whatever fails, dies or runs beside it.
NoTornFile == \A p \in Visible : ~IsTorn(fs[p])

\* Why that is so: the temporary files of the uploads in progress are distinct,
\* and a rename only ever moves one that was written to its end.
WholeWhenMoved ==
  /\ \A c, d \in Caller :
       Busy(c) /\ Busy(d) /\ up[c].tmp = up[d].tmp => c = d
  /\ \A c \in Caller :
       up[c].at \in {"posix", "plain", "clear", "again"} => ~IsTorn(fs[up[c].tmp])

\* ApplyResult: when a call is over, every entry of its plan is in exactly
\* one of Uploaded, Deleted and Failed, so an empty Failed means that the
\* whole plan was carried out.
FailedPaths(c, actions) ==
  {p \in Entry : \E a \in actions : <<p, a>> \in result[c].failed}
Accounting ==
  \A c \in Caller : call[c].phase = "done" /\ ~call[c].dry =>
    LET r == result[c]
        notUploaded == FailedPaths(c, {"mkdir", "upload"})
        notDeleted  == FailedPaths(c, {"delete"})
        toDelete    == {d.path : d \in plan[c].ToDelete}
    IN  /\ r.uploaded \cup notUploaded = plan[c].ToUpload
        /\ r.deleted \cup notDeleted = toDelete
        /\ r.uploaded \cap notUploaded = {}
        /\ r.deleted \cap notDeleted = {}
        /\ FailedPaths(c, {"mkdir"}) \cap FailedPaths(c, {"upload"}) = {}

\* What sync is for, stated without BuildPlan: no eligible file that is not
\* local is there, an eligible directory that is not local is only there for
\* the sake of what survives, and every eligible local file is there ...
NothingElse ==
  LET free(p) == ~Excluded(rules, p, fs[p] = Dir) /\ p \notin LocalAll(local, rules)
  IN  /\ \A p \in Entry : IsFile(fs[p]) => ~free(p)
      /\ \A p \in Entry : fs[p] = Dir /\ free(p) =>
           \E q \in Entry : Under(q, p) /\ fs[q] # Absent /\ ~free(q)

\* ... with its content.
Mirrored ==
  /\ NothingElse
  /\ \A p \in LocalFiles(local, rules) : IsFile(fs[p]) /\ fs[p].data = local[p].data

\* A sync that nothing disturbs reports no failure exactly when the base is a
\* mirror of the project afterwards, unless there are links on the VM.
CleanMeansMirrored ==
  \A c \in Caller :
    /\ call[c].phase = "done" /\ ~call[c].dry
    /\ \A p \in Entry : fs[p] # Link
    =>
    (result[c].failed = {} <=> Mirrored)

\* Files that include and ignore put out of sync's reach are never removed,
\* replaced or rewritten by a call, however stale its plan is.
Moves(c) == <<call[c], mk[c], up[c]>>' # <<call[c], mk[c], up[c]>>
ExcludedFilesUntouched ==
  [][\A c \in Caller, p \in Visible :
       Moves(c) /\ IsFile(fs[p]) /\ Excluded(rules, p, FALSE) => fs'[p] = fs[p]]_vars

\* "no writes happen": a dry run changes nothing on the VM.
DryRunWritesNothing ==
  [][\A c \in Caller : call[c].dry /\ call[c].phase \in Active /\ Moves(c)
                       => fs' = fs]_vars

\* What a call reports as uploaded is in place at that moment, complete; what
\* it reports as deleted was there and is gone.  Of what lies behind a link of
\* others nothing is known.
ReportedLanded ==
  [][\A c \in Caller, p \in Entry :
       /\ p \in result'[c].uploaded \ result[c].uploaded =>
            LeadsOut(fs, p) \/ (IsFile(fs'[p]) /\ fs'[p].data # Torn)
       /\ p \in result'[c].deleted \ result[c].deleted =>
            LeadsOut(fs, p) \/ (fs[p] # Absent /\ fs'[p] = Absent)]_vars

\* Temporary files do not pile up: without faults and crashes there is none
\* but those of the uploads in progress, however the uploads end.
NoLitter ==
  faults = 0 /\ budget.crashes = MaxCrashes =>
    \A t \in Temps : fs[t] # Absent => t \in InUse

\* On a server with posix-rename a file of the project is replaced in one step:
\* a reader on the VM finds the old or the new one, never none.
OverwriteIsAtomic ==
  [][\A p \in LocalFiles(local, rules) :
       HasPosixRename /\ IsFile(fs[p]) => IsFile(fs'[p])]_vars

\* "so sync can never plan a write or delete through one": a planned upload of
\* an undisturbed call lies under no link.
NothingPlannedThroughLinks ==
  \A c \in Caller : call[c].phase = "next" =>
    \A p \in plan[c].ToUpload : ~LeadsOut(fs, p)

\* "a symlink planted on the remote side after planning but before this delete
\* runs still can't route a delete outside the base": no delete is carried out
\* through a link.
DeletesStayInside ==
  [][\A c \in Caller : \A p \in result'[c].deleted \ result[c].deleted :
       ~LeadsOut(fs, p)]_vars

\* What the check before each delete does achieve: however stale the plan is, a
\* call comes to remove what lies behind a link only if somebody plants the link
\* at the very time between that check and the removal.
DeletesAreChecked ==
  [][\A c \in Caller :
       LeadsOut(fs', call'[c].cur) /\ call'[c].phase = "remove" =>
         \/ LeadsOut(fs, call[c].cur) /\ call[c].phase = "remove"
         \/ call[c].phase = "remove" /\ budget'.intrusions < budget.intrusions]_vars

\* What the user of the VM sees, and what a call has been asked for and has
\* reported: nothing any more once it failed or died.
Shown == [p \in Path |-> IF p \in Temps THEN Absent ELSE fs[p]]
JobState(c) == CASE call[c].phase = "idle" -> "idle"
                 [] call[c].phase = "done" -> "done"
                 [] call[c].phase \in {"error", "crashed"} -> "broken"
                 [] call[c].phase \in Planning -> "open"
                 [] OTHER -> "working"
Job(c) ==
  LET alive == JobState(c) \in {"open", "working", "done"}
      asks  == alive /\ ~call[c].dry
      If(S) == IF asks THEN S ELSE {}
  IN  [state   |-> JobState(c),
       dry     |-> alive /\ call[c].dry,
       uploads |-> If(plan[c].ToUpload),
       deletes |-> If({d.path : d \in plan[c].ToDelete}),
       landed  |-> If(result[c].uploaded),
       gone    |-> If(result[c].deleted),
       missed  |-> If(FailedPaths(c, {"mkdir", "upload", "delete"}))]

\* Every step of a sync is one that Transfer has, or changes nothing that can
\* be seen: whatever fails or dies, the base changes only where the plan says,
\* a whole file at a time, and the plan is reported entry by entry.
Promise == INSTANCE Transfer WITH tree <- Shown, job <- [c \in Caller |-> Job(c)]
Implements == Promise!TransferSpec

\* Every call comes to an end, also when its connection is lost on the way.
CallsEnd == \A c \in Caller : call[c].phase \in Active ~> call[c].phase \in Ended

\* Sync called again and again, by at least one caller.
Persistent == \A c \in Caller : SF_vars(Begin(c, FALSE))
RepeatSpec == FairSpec /\ Persistent

\* BuildPlan's comment names what it trades for not hashing: a same-size edit
\* whose mtime is not newer than the copy's, by more than mtimeSlack.
Undetected(p) == /\ Size[fs[p].data] = Size[local[p].data]
                 /\ local[p].mtime <= fs[p].mtime + mtimeSlack

\* Whatever failed, died or was edited on the way, repeated syncs end up with
\* a mirror of the project, and keep it; nothing but such an edit is missed.
Converges ==
  <>[](/\ NothingElse
       /\ \A p \in LocalFiles(local, rules) :
            IsFile(fs[p]) /\ (fs[p].data = local[p].data \/ Undetected(p)))
=============================================================================
