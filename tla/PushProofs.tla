----------------------------- MODULE PushProofs -----------------------------
(***************************************************************************)
(* Proofs about PushTool, where each call is one of push or of sync: its   *)
(* types, that no visible file is ever half-written, and that a push has   *)
(* reported every file it was asked for.                                   *)
(***************************************************************************)
EXTENDS PushTool, TransferProofs

-----------------------------------------------------------------------------
(***************************************************************************)
(* A push in progress carries out one of the requests; what it has in hand *)
(* and what is left are files of that request.                             *)
(***************************************************************************)
Working == {"mkdir", "resolve", "upload"}

PushRecord ==
  [at : {"none", "base", "next", "mkdir", "resolve", "upload"},
   asked : SUBSET Visible, left : SUBSET Visible, dest : Path, cur : Path]
PushedRecord ==
  [uploaded : SUBSET Visible, skipped : SUBSET Visible, failed : SUBSET Visible]

GoodPush(q) == /\ q \in PushRecord
               /\ q.at # "none" => [files |-> q.asked, dest |-> q.dest] \in Requests
               /\ q.left \subseteq q.asked
               /\ q.at \in Working => q.cur \in q.asked

PushInv == /\ push \in [Caller -> PushRecord]
           /\ \A c \in Caller : GoodPush(push[c])
BothInv == TypeInv /\ PushInv /\ pushed \in [Caller -> PushedRecord]

LEMMA PushUpdate ==
  ASSUME PushInv, NEW c \in Caller, NEW q, GoodPush(q), push' = [push EXCEPT ![c] = q]
  PROVE  PushInv'
BY DEF PushInv, GoodPush

LEMMA PushGotoKeeps ==
  ASSUME PushInv, NEW c \in Caller, push[c].at \in {"base", "next"} \cup Working,
         NEW stage \in {"base", "next"} \cup Working, PushGoto(c, stage),
         stage \in Working => push[c].at \in Working
  PROVE  PushInv'
<1> DEFINE q == [push[c] EXCEPT !.at = stage]
<1>1. push[c] \in PushRecord /\ GoodPush(push[c])
  BY DEF PushInv
<1>2. /\ q \in PushRecord /\ q.at = stage
      /\ q.asked = push[c].asked /\ q.left = push[c].left
      /\ q.dest = push[c].dest /\ q.cur = push[c].cur
  BY <1>1 DEF PushRecord, Working
<1>3. GoodPush(q)
  BY <1>1, <1>2 DEF GoodPush, Working
<1>4. push' = [push EXCEPT ![c] = q]
  BY DEF PushGoto
<1> QED
  BY <1>3, <1>4, PushUpdate

LEMMA Reports ==
  ASSUME pushed \in [Caller -> PushedRecord], NEW c \in Caller, NEW p \in Visible,
         \/ pushed' = [pushed EXCEPT ![c].uploaded = @ \cup {p}]
         \/ pushed' = [pushed EXCEPT ![c].skipped = @ \cup {p}]
         \/ pushed' = [pushed EXCEPT ![c].failed = @ \cup {p}]
  PROVE  pushed' \in [Caller -> PushedRecord]
<1>1. /\ [pushed[c] EXCEPT !.uploaded = @ \cup {p}] \in PushedRecord
      /\ [pushed[c] EXCEPT !.skipped = @ \cup {p}] \in PushedRecord
      /\ [pushed[c] EXCEPT !.failed = @ \cup {p}] \in PushedRecord
  BY DEF PushedRecord
<1> QED
  BY <1>1

\* What a push has in hand is a file of the project with a place in the base.
LEMMA InHandIsAsked ==
  ASSUME PushInv, NEW c \in Caller, push[c].at \in Working
  PROVE  push[c].cur \in Visible /\ Where(c) \in Visible
<1>1. GoodPush(push[c]) /\ push[c].at # "none"
  BY DEF PushInv, Working
<1> QED
  BY <1>1, RequestAssumption DEF GoodPush, Where

LEMMA AskedHasAPlace ==
  ASSUME PushInv, NEW c \in Caller, push[c].at # "none", NEW p \in push[c].left
  PROVE  /\ p \in push[c].asked /\ p \in Visible
         /\ Target(push[c].dest, p) \in Visible
<1>1. GoodPush(push[c])
  BY DEF PushInv
<1> QED
  BY <1>1, RequestAssumption DEF GoodPush

-----------------------------------------------------------------------------
\* The steps of a push, one by one.

LEMMA PushFailsTypes ==
  ASSUME BothInv, NEW c \in Caller, push[c].at \in Working, PushFails(c)
  PROVE  PushInv' /\ pushed' \in [Caller -> PushedRecord]
<1>1. PushInv'
  BY PushGotoKeeps DEF PushFails, BothInv, Working
<1>2. pushed' \in [Caller -> PushedRecord]
  BY Reports, InHandIsAsked DEF PushFails, BothInv
<1> QED
  BY <1>1, <1>2

LEMMA PushBaseTypes ==
  ASSUME BothInv, NEW c \in Caller, PushBase(c)
  PROVE  BothInv'
<1>1. TypeInv'
  BY StatBaseTypes, MakeBaseTypes, ResolveBaseTypes DEF PushBase, BothInv
<1>2. PushInv'
  <2>1. CASE UNCHANGED push
    BY <2>1 DEF BothInv, PushInv
  <2>2. CASE PushGoto(c, "next")
    BY <2>2, PushGotoKeeps DEF BothInv, PushBase, Pushing, Working
  <2> QED
    BY <2>1, <2>2 DEF PushBase
<1> QED
  BY <1>1, <1>2 DEF BothInv, PushBase

Taken(q, p, stage) == [q EXCEPT !.left = @ \ {p}, !.cur = p, !.at = stage]

LEMMA NextFileTypes ==
  ASSUME BothInv, NEW c \in Caller, NextFile(c)
  PROVE  BothInv'
<1>1. UNCHANGED <<fs, local, conn, faults, now, rules, budget, call, plan, result>>
  BY DEF NextFile, session
<1>2. PICK p \in push[c].left, stage \in {"next", "mkdir"} :
        /\ push' = [push EXCEPT ![c] = Taken(push[c], p, stage)]
        /\ \/ /\ UNCHANGED <<mk, up>>
              /\ \/ pushed' = [pushed EXCEPT ![c].skipped = @ \cup {p}]
                 \/ pushed' = [pushed EXCEPT ![c].failed = @ \cup {p}]
           \/ /\ mk' = [mk EXCEPT ![c] =
                          MkdirAt("stat", Parent(Target(push[c].dest, p)),
                                          Parent(Target(push[c].dest, p)))]
              /\ up' = [up EXCEPT ![c] = NotStarted]
              /\ UNCHANGED pushed
  BY DEF NextFile, Taken
<1>3. /\ push[c].at # "none"
      /\ p \in push[c].asked /\ p \in Visible /\ p \in Path
      /\ Target(push[c].dest, p) \in Visible /\ Target(push[c].dest, p) \in Entry
  BY AskedHasAPlace, TempsAreEntries DEF BothInv, NextFile, Pushing
<1>4. PushInv'
  <2> DEFINE q == Taken(push[c], p, stage)
  <2>2. push[c] \in PushRecord /\ GoodPush(push[c])
    BY DEF BothInv, PushInv
  <2>3. /\ q \in PushRecord /\ q.at = stage /\ q.cur = p
        /\ q.left = push[c].left \ {p}
        /\ q.asked = push[c].asked /\ q.dest = push[c].dest
    BY <1>3, <2>2 DEF PushRecord, Taken
  <2>4. GoodPush(q)
    BY <1>3, <2>2, <2>3 DEF GoodPush
  <2> QED
    BY <1>2, <2>4, PushUpdate DEF BothInv
<1>5. pushed' \in [Caller -> PushedRecord]
  BY <1>2, <1>3, Reports DEF BothInv
<1>6. MkdirTypeOK' /\ MkdirOnTheWay'
  <2>1. CASE UNCHANGED mk
    BY <2>1, TypeInvParts DEF BothInv, MkdirTypeOK, MkdirOnTheWay
  <2> DEFINE dir == Parent(Target(push[c].dest, p))
  <2>2. CASE mk' = [mk EXCEPT ![c] = MkdirAt("stat", dir, dir)]
    <3>1. dir \in Path
      BY <1>3, ParentInPath
    <3>2. GoodMkdir(MkdirAt("stat", dir, dir))
      BY <3>1, GoodMkdirAt, OnTheWayToItself DEF MkdirStages
    <3> QED
      BY <2>2, <3>2, TypeInvParts, GoodMkdirUpdate DEF BothInv
  <2> QED
    BY <1>2, <2>1, <2>2
<1>7. UploadTypeOK'
  BY <1>1, <1>2, TypeInvParts, UploadEndsAreRecords
     DEF BothInv, UploadTypeOK, SessionTypeOK
<1> QED
  BY <1>1, <1>4, <1>5, <1>6, <1>7, TypeInvParts
     DEF BothInv, TypeInv, TypeOK, CallInv, CurrentEntry, Clean

LEMMA MakeDirsTypes ==
  ASSUME BothInv, NEW c \in Caller, MakeDirs(c)
  PROVE  BothInv'
<1>1. UNCHANGED <<now, rules, budget, up, call, plan, result>>
  BY DEF MakeDirs
<1>2. /\ SessionTypeOK' /\ MkdirTypeOK' /\ MkdirOnTheWay'
      /\ UNCHANGED local
  BY TypeInvParts, MkdirStepTypes DEF MakeDirs, UploadTypeOK, BothInv
<1>3. push[c].at \in Working
  BY DEF MakeDirs, Pushing, Working
<1>4. PushInv' /\ pushed' \in [Caller -> PushedRecord]
  <2>1. CASE UNCHANGED pushVars
    BY <2>1 DEF BothInv, PushInv, pushVars
  <2>2. CASE PushGoto(c, "resolve") /\ UNCHANGED pushed
    BY <1>3, <2>2, PushGotoKeeps DEF BothInv, Working
  <2>3. CASE PushFails(c)
    BY <1>3, <2>3, PushFailsTypes
  <2> QED
    BY <2>1, <2>2, <2>3 DEF MakeDirs
<1> QED
  BY <1>1, <1>2, <1>4, TypeInvParts
     DEF BothInv, UploadTypeOK, TypeInv, TypeOK, CallInv, CurrentEntry, Clean

LEMMA ResolveDirTypes ==
  ASSUME BothInv, NEW c \in Caller, ResolveDir(c)
  PROVE  BothInv'
<1>1. UNCHANGED <<local, now, rules, budget, mk, up, call, plan, result>>
  BY DEF ResolveDir, env, own
<1>2. UploadTypeOK'
  BY <1>1, AskKeepsUpload, TypeInvParts DEF ResolveDir, BothInv
<1>3. push[c].at \in Working
  BY DEF ResolveDir, Pushing, Working
<1>4. PushInv' /\ pushed' \in [Caller -> PushedRecord]
  <2>1. CASE PushGoto(c, "upload") /\ UNCHANGED pushed
    BY <1>3, <2>1, PushGotoKeeps DEF BothInv, Working
  <2>2. CASE PushFails(c)
    BY <1>3, <2>2, PushFailsTypes
  <2>3. (PushGoto(c, "upload") /\ UNCHANGED pushed) \/ PushFails(c)
    <3>1. PICK ok \in BOOLEAN :
            IF ok /\ ResolvesInside(Parent(Where(c)))
            THEN PushGoto(c, "upload") /\ UNCHANGED pushed
            ELSE PushFails(c)
      BY DEF ResolveDir
    <3> QED
      BY <3>1
  <2> QED
    BY <2>1, <2>2, <2>3
<1> QED
  BY <1>1, <1>2, <1>4, TypeInvParts
     DEF BothInv, TypeInv, TypeOK, CallInv, CurrentEntry, MkdirTypeOK, MkdirOnTheWay, Clean

LEMMA PushFileTypes ==
  ASSUME BothInv, NEW c \in Caller, PushFile(c)
  PROVE  BothInv'
<1>1. UNCHANGED <<rules, budget, mk, call, plan, result>>
  BY DEF PushFile
<1>2. /\ push[c].at \in Working
      /\ push[c].cur \in Visible /\ Where(c) \in Visible
  BY InHandIsAsked DEF PushFile, Pushing, Working, BothInv
<1>3. UploadTypeOK' /\ UNCHANGED local
  BY <1>2, TypeInvParts, UploadStartTypes, UploadStepTypes DEF PushFile, BothInv
<1>4. PushInv' /\ pushed' \in [Caller -> PushedRecord]
  <2>1. CASE UNCHANGED pushVars
    BY <2>1 DEF BothInv, PushInv, pushVars
  <2>2. CASE /\ pushed' = [pushed EXCEPT ![c].uploaded = @ \cup {Where(c)}]
             /\ PushGoto(c, "next")
    BY <1>2, <2>2, PushGotoKeeps, Reports DEF BothInv, Working
  <2>3. CASE PushFails(c)
    BY <1>2, <2>3, PushFailsTypes
  <2> QED
    BY <2>1, <2>2, <2>3 DEF PushFile
<1> QED
  BY <1>1, <1>3, <1>4, TypeInvParts
     DEF BothInv, TypeInv, TypeOK, CallInv, CurrentEntry, MkdirTypeOK, MkdirOnTheWay, Clean

LEMMA PushReturnsTypes ==
  ASSUME BothInv, NEW c \in Caller, PushReturns(c)
  PROVE  BothInv'
<1>1. UNCHANGED <<fs, conn, faults, local, now, rules, budget, mk, up, plan, result,
                  push, pushed>>
  BY DEF PushReturns, session, env, pushVars
<1>2. CallInv'
  BY TypeInvParts, GotoTypes DEF PushReturns, Elsewhere, Ended, BothInv
<1> QED
  BY <1>1, <1>2, TypeInvParts
     DEF BothInv, PushInv, TypeInv, TypeOK, CallInv, CurrentEntry, UploadTypeOK,
         SessionTypeOK, MkdirTypeOK, MkdirOnTheWay, Clean

LEMMA BeginPushTypes ==
  ASSUME BothInv, NEW c \in Caller, NEW r \in Requests, BeginPush(c, r)
  PROVE  BothInv'
<1>1. TypeInv'
  BY BeginTypes DEF BeginPush, BothInv
<1>2. GoodPush([NoPush EXCEPT !.at = "base", !.asked = r.files, !.left = r.files,
                              !.dest = r.dest])
  <2>1. /\ r.files \subseteq Visible /\ r.dest \in Path
        /\ r = [files |-> r.files, dest |-> r.dest]
    BY RequestAssumption
  <2> QED
    BY <2>1, PathAssumption DEF GoodPush, PushRecord, NoPush, Working
<1>3. NothingPushed \in PushedRecord
  BY DEF NothingPushed, PushedRecord
<1> QED
  BY <1>1, <1>2, <1>3, PushUpdate DEF BeginPush, BothInv

LEMMA BeginSyncTypes ==
  ASSUME BothInv, NEW c \in Caller, NEW dry \in DryRuns, BeginSync(c, dry)
  PROVE  BothInv'
<1>1. TypeInv'
  BY BeginTypes, InitAssumption DEF BeginSync, BothInv
<1>2. GoodPush(NoPush)
  BY PathAssumption DEF GoodPush, PushRecord, NoPush, Working
<1>3. NothingPushed \in PushedRecord
  BY DEF NothingPushed, PushedRecord
<1> QED
  BY <1>1, <1>2, <1>3, PushUpdate DEF BeginSync, BothInv

LEMMA InitBoth == PushInit => BothInv
<1> SUFFICES ASSUME PushInit PROVE BothInv
  OBVIOUS
<1>1. TypeInv
  BY InitTypes DEF PushInit
<1>2. GoodPush(NoPush)
  BY PathAssumption DEF GoodPush, PushRecord, NoPush, Working
<1>3. NothingPushed \in PushedRecord
  BY DEF NothingPushed, PushedRecord
<1> QED
  BY <1>1, <1>2, <1>3 DEF PushInit, BothInv, PushInv, GoodPush

LEMMA BothNextTypes == BothInv /\ [BothNext]_allVars => BothInv'
<1> SUFFICES ASSUME BothInv, [BothNext]_allVars PROVE BothInv'
  OBVIOUS
<1>1. ASSUME [Next]_vars, UNCHANGED pushVars PROVE BothInv'
  BY <1>1, NextTypes DEF BothInv, PushInv, pushVars
<1>2. ASSUME NEW c \in Caller, PushStep(c) PROVE BothInv'
  BY <1>2, PushBaseTypes, NextFileTypes, MakeDirsTypes,
     ResolveDirTypes, PushFileTypes, PushReturnsTypes DEF PushStep
<1>3. ASSUME NEW c \in Caller, NEW r \in Requests, BeginPush(c, r) PROVE BothInv'
  BY <1>3, BeginPushTypes
<1>4. ASSUME NEW c \in Caller, NEW dry \in DryRuns, BeginSync(c, dry) PROVE BothInv'
  BY <1>4, BeginSyncTypes
<1>5. ASSUME NEW c \in Caller, SyncStep(c) \/ (Crash(c) /\ UNCHANGED pushVars)
      PROVE  BothInv'
  <2>1. (CallStep(c) \/ Crash(c)) /\ UNCHANGED pushVars
    BY <1>5 DEF SyncStep
  <2>2. Next
    BY <2>1 DEF Next
  <2> QED
    BY <1>1, <2>1, <2>2
<1>6. CASE Environment /\ UNCHANGED pushVars
  <2>1. Next
    BY <1>6 DEF Next
  <2> QED
    BY <1>1, <1>6, <2>1
<1>7. CASE UNCHANGED allVars
  BY <1>1, <1>7 DEF allVars
<1> QED
  BY <1>2, <1>3, <1>4, <1>5, <1>6, <1>7 DEF BothNext

LEMMA BothInvariant == BothSpec => []BothInv
BY InitBoth, BothNextTypes, PTL DEF BothSpec

\* AllTypeOK holds for any callers, requests and disturbances.
THEOREM AllTypesCorrect == BothSpec => []AllTypeOK
<1>1. BothInv => AllTypeOK
  BY DEF BothInv, TypeInv, PushInv, AllTypeOK, PushRecord, PushedRecord
<1> QED
  BY <1>1, BothInvariant, PTL

-----------------------------------------------------------------------------
(***************************************************************************)
(* No visible file is half-written, whichever tools are at work.           *)
(***************************************************************************)
LEMMA PushStepKeepsTorn ==
  ASSUME BothInv, TornInv, NEW c \in Caller, PushStep(c)
  PROVE  TornInv'
<1>0. TypeInv /\ UploadTypeOK /\ Clean(local)
  BY TypeInvParts DEF BothInv
<1>1. CASE PushBase(c)
  BY <1>0, <1>1, CallStepKeepsTorn DEF PushBase, CallStep
<1>2. CASE MakeDirs(c)
  BY <1>0, <1>2, MkdirKeepsTorn DEF MakeDirs
<1>3. CASE PushFile(c)
  <2>1. push[c].cur \in Visible /\ Where(c) \in Visible
    BY <1>3, InHandIsAsked DEF PushFile, Pushing, Working, BothInv
  <2> QED
    BY <1>0, <1>3, <2>1, StartKeepsTorn, UploadStepKeepsTorn DEF PushFile
<1>4. CASE NextFile(c) \/ ResolveDir(c) \/ PushReturns(c)
  <2>1. fs' = fs /\ (UNCHANGED up \/ up' = [up EXCEPT ![c] = NotStarted])
    BY <1>4 DEF NextFile, ResolveDir, PushReturns, Ask, Request, own, session
  <2> QED
    BY <1>0, <2>1, SameTreeTearsNothing, UploadsUnchanged, Harmless
<1> QED
  BY <1>1, <1>2, <1>3, <1>4 DEF PushStep

LEMMA BothKeepTorn == BothInv /\ TornInv /\ [BothNext]_allVars => TornInv'
<1> SUFFICES ASSUME BothInv, TornInv, [BothNext]_allVars PROVE TornInv'
  OBVIOUS
<1>1. CASE [Next]_vars
  BY <1>1, NextKeepsTorn DEF BothInv
<1>2. ASSUME NEW c \in Caller, PushStep(c) PROVE TornInv'
  BY <1>2, PushStepKeepsTorn
<1>3. ASSUME NEW c \in Caller, NEW dry \in BOOLEAN, Begin(c, dry) PROVE TornInv'
  <2>1. fs' = fs /\ up' = [up EXCEPT ![c] = NotStarted]
    BY <1>3 DEF Begin
  <2> QED
    BY <2>1, TypeInvParts, SameTreeTearsNothing, UploadsUnchanged, Harmless DEF BothInv
<1>4. CASE \E c \in Caller : \/ \E r \in Requests : BeginPush(c, r)
                             \/ \E dry \in DryRuns : BeginSync(c, dry)
  BY <1>3, <1>4, InitAssumption DEF BeginPush, BeginSync
<1>5. CASE \/ \E c \in Caller : SyncStep(c) \/ Crash(c)
           \/ Environment
  <2>1. Next
    BY <1>5 DEF SyncStep, Next
  <2> QED
    BY <1>1, <2>1
<1>6. CASE UNCHANGED allVars
  BY <1>1, <1>6 DEF allVars
<1> QED
  BY <1>2, <1>4, <1>5, <1>6 DEF BothNext

LEMMA BothTornInvariant == BothSpec => []TornInv
<1>1. PushInit => BothInv /\ TornInv
  BY InitBoth, InitTorn DEF PushInit
<1>2. BothInv /\ TornInv /\ [BothNext]_allVars => BothInv' /\ TornInv'
  BY BothNextTypes, BothKeepTorn
<1> QED
  BY <1>1, <1>2, PTL DEF BothSpec

\* No file a user of the VM can see is ever half-written (NoTornFile), for any
\* number of pushes and syncs on one base.
THEOREM NoTornPush == BothSpec => []NoTornFile
<1>1. TornInv => NoTornFile
  BY DEF TornInv
<1> QED
  BY <1>1, BothTornInvariant, PTL

\* Nor do they share a temporary file, or move an incomplete one (WholeWhenMoved).
THEOREM OnlyWholeFilesPushed == BothSpec => []WholeWhenMoved
<1>1. TornInv => WholeWhenMoved
  BY DEF TornInv
<1> QED
  BY <1>1, BothTornInvariant, PTL

-----------------------------------------------------------------------------
(***************************************************************************)
(* Every file of a push is in one place: left, in hand, or in one of the   *)
(* three lists.                                                            *)
(***************************************************************************)
InHand(q) == IF q.at \in Working THEN {q.cur} ELSE {}
Landed(q, r) == {p \in q.asked : Target(q.dest, p) \in r.uploaded}

Ledger(q, r) ==
  /\ q.asked = q.left \cup InHand(q) \cup Landed(q, r) \cup r.skipped \cup r.failed
  /\ q.left \cap (InHand(q) \cup Landed(q, r) \cup r.skipped \cup r.failed) = {}
  /\ InHand(q) \cap (Landed(q, r) \cup r.skipped \cup r.failed) = {}
  /\ Landed(q, r) \cap (r.skipped \cup r.failed) = {}
  /\ r.skipped \cap r.failed = {}

LedgerInv == \A c \in Caller :
  push[c].at # "none" =>
    /\ Ledger(push[c], pushed[c])
    /\ call[c].phase = "done" => push[c].at = "next" /\ push[c].left = {}

\* Below one destination different files have different targets.
LEMMA TargetsDiffer ==
  ASSUME NEW dest \in Path, NEW p \in Path, NEW q \in Path,
         Target(dest, p) = Target(dest, q)
  PROVE  p = q
<1>1. dest \in Seq(STRING) /\ p \in Seq(STRING) /\ q \in Seq(STRING)
  BY PathAssumption
<1>2. Len(p) = Len(q)
  BY <1>1 DEF Target
<1>3. ASSUME NEW i \in 1 .. Len(p) PROVE p[i] = q[i]
  <2>1. /\ (dest \o p)[Len(dest) + i] = p[i]
        /\ (dest \o q)[Len(dest) + i] = q[i]
    BY <1>1, <1>2
  <2> QED
    BY <2>1 DEF Target
<1> QED
  BY <1>1, <1>2, <1>3

\* What taking a file, and what its end, do to the ledger.
LEMMA TakenInHand ==
  ASSUME NEW q \in PushRecord, NEW r \in PushedRecord, Ledger(q, r), q.at = "next",
         NEW p \in q.left, p \in Path
  PROVE  Ledger(Taken(q, p, "mkdir"), r)
<1> DEFINE t == Taken(q, p, "mkdir")
<1>1. /\ t.at = "mkdir" /\ t.cur = p /\ t.left = q.left \ {p}
      /\ t.asked = q.asked /\ t.dest = q.dest
  BY DEF PushRecord, Taken
<1>2. InHand(q) = {} /\ InHand(t) = {p} /\ Landed(t, r) = Landed(q, r)
  BY <1>1 DEF InHand, Landed, Working
<1> QED
  BY <1>1, <1>2 DEF Ledger

LEMMA TakenAndReported ==
  ASSUME NEW q \in PushRecord, NEW r \in PushedRecord, Ledger(q, r), q.at = "next",
         NEW p \in q.left, p \in Path
  PROVE  /\ Ledger(Taken(q, p, "next"), [r EXCEPT !.skipped = @ \cup {p}])
         /\ Ledger(Taken(q, p, "next"), [r EXCEPT !.failed = @ \cup {p}])
<1> DEFINE t == Taken(q, p, "next")
           sk == [r EXCEPT !.skipped = @ \cup {p}]
           fl == [r EXCEPT !.failed = @ \cup {p}]
<1>1. /\ t.at = "next" /\ t.left = q.left \ {p}
      /\ t.asked = q.asked /\ t.dest = q.dest
  BY DEF PushRecord, Taken
<1>2. /\ sk.uploaded = r.uploaded /\ sk.failed = r.failed
      /\ sk.skipped = r.skipped \cup {p}
      /\ fl.uploaded = r.uploaded /\ fl.skipped = r.skipped
      /\ fl.failed = r.failed \cup {p}
  BY DEF PushedRecord
<1>3. /\ InHand(q) = {} /\ InHand(t) = {}
      /\ Landed(t, sk) = Landed(q, r) /\ Landed(t, fl) = Landed(q, r)
  BY <1>1, <1>2 DEF InHand, Landed, Working
<1>4. Ledger(t, sk)
  BY <1>1, <1>2, <1>3 DEF Ledger
<1>5. Ledger(t, fl)
  BY <1>1, <1>2, <1>3 DEF Ledger
<1> QED
  BY <1>4, <1>5

LEMMA EndedAndReported ==
  ASSUME NEW q \in PushRecord, GoodPush(q), NEW r \in PushedRecord, Ledger(q, r),
         q.at \in Working
  PROVE  /\ Ledger([q EXCEPT !.at = "next"], [r EXCEPT !.failed = @ \cup {q.cur}])
         /\ Ledger([q EXCEPT !.at = "next"],
                   [r EXCEPT !.uploaded = @ \cup {Target(q.dest, q.cur)}])
<1> DEFINE n == [q EXCEPT !.at = "next"]
           fl == [r EXCEPT !.failed = @ \cup {q.cur}]
           upl == [r EXCEPT !.uploaded = @ \cup {Target(q.dest, q.cur)}]
<1>1. /\ n.at = "next" /\ n.left = q.left
      /\ n.asked = q.asked /\ n.dest = q.dest
  BY DEF PushRecord
<1>2. /\ fl.uploaded = r.uploaded /\ fl.skipped = r.skipped
      /\ fl.failed = r.failed \cup {q.cur}
      /\ upl.uploaded = r.uploaded \cup {Target(q.dest, q.cur)}
      /\ upl.skipped = r.skipped /\ upl.failed = r.failed
  BY DEF PushedRecord
<1>3. InHand(q) = {q.cur} /\ InHand(n) = {} /\ Landed(n, fl) = Landed(q, r)
  BY <1>1, <1>2 DEF InHand, Landed, Working
<1>4. Landed(n, upl) = Landed(q, r) \cup {q.cur}
  <2>1. q.cur \in q.asked /\ q.asked \subseteq Path /\ q.dest \in Path
    BY TempsAreEntries DEF GoodPush, PushRecord
  <2>2. \A p \in q.asked : Target(q.dest, p) = Target(q.dest, q.cur) => p = q.cur
    BY <2>1, TargetsDiffer
  <2> QED
    BY <1>1, <1>2, <2>1, <2>2 DEF Landed
<1>5. Ledger(n, fl)
  BY <1>1, <1>2, <1>3 DEF Ledger
<1>6. Ledger(n, upl)
  BY <1>1, <1>2, <1>3, <1>4 DEF Ledger
<1> QED
  BY <1>5, <1>6

\* A push that goes on with the same file, or has none in hand yet.
LEMMA GoesOn ==
  ASSUME NEW q \in PushRecord, NEW r, Ledger(q, r), NEW stage,
         \/ q.at \in Working /\ stage \in Working
         \/ q.at \notin Working /\ stage \notin Working
  PROVE  Ledger([q EXCEPT !.at = stage], r)
<1> DEFINE n == [q EXCEPT !.at = stage]
<1>1. /\ n.at = stage /\ n.left = q.left /\ n.cur = q.cur
      /\ n.asked = q.asked /\ n.dest = q.dest
  BY DEF PushRecord
<1>2. InHand(n) = InHand(q) /\ Landed(n, r) = Landed(q, r)
  BY <1>1 DEF InHand, Landed
<1> QED
  BY <1>1, <1>2 DEF Ledger

-----------------------------------------------------------------------------
\* The ledger over the steps.  A step of c concerns the ledger of c alone.
OtherPushes(c) == \A d \in Caller \ {c} : /\ push'[d] = push[d] /\ pushed'[d] = pushed[d]
                                           /\ call'[d] = call[d]
LedgerOf(c) ==
  push[c].at # "none" =>
    /\ Ledger(push[c], pushed[c])
    /\ call[c].phase = "done" => push[c].at = "next" /\ push[c].left = {}

LEMMA LedgerUpdate ==
  ASSUME LedgerInv, NEW c \in Caller, OtherPushes(c), LedgerOf(c)'
  PROVE  LedgerInv'
BY DEF LedgerInv, OtherPushes, LedgerOf

LEMMA PushStepLedger ==
  ASSUME BothInv, LedgerInv, NEW c \in Caller, PushStep(c)
  PROVE  LedgerInv'
<1> DEFINE q == push[c]
           r == pushed[c]
<1>0. /\ q \in PushRecord /\ GoodPush(q) /\ r \in PushedRecord
      /\ DOMAIN push = Caller /\ DOMAIN pushed = Caller
      /\ call \in [Caller -> CallRecord]
  BY DEF BothInv, PushInv, TypeInv, TypeOK
<1>1. /\ q.at # "none" /\ Ledger(q, r)
      /\ call[c].phase \in Active /\ call[c].phase # "done"
  BY DEF LedgerInv, PushStep, PushBase, NextFile, MakeDirs, ResolveDir,
         PushFile, PushReturns, Pushing, Active, Planning
<1>2. CASE PushBase(c)
  <2>1. OtherPushes(c)
    <3>1. CallStep(c) /\ UNCHANGED pushed /\ (UNCHANGED push \/ PushGoto(c, "next"))
      BY <1>2 DEF PushBase, CallStep
    <3> QED
      BY <1>0, <3>1, CallStepOfOne DEF OtherPushes, Others, PushGoto, BothInv
  <2>2. call'[c].phase # "done"
    <3>1. CASE ResolveBase(c)
      BY <1>0, <1>1, <3>1 DEF ResolveBase
    <3>2. CASE StatBase(c) \/ MakeBase(c)
      <4>1. call' = call \/ \E n \in {"error", "realpath", "plan", "mkbase"} : Goto(c, n)
        BY <3>2 DEF StatBase, MakeBase
      <4> QED
        BY <1>0, <1>1, <4>1 DEF Goto, CallRecord
    <3> QED
      BY <1>2, <3>1, <3>2 DEF PushBase
  <2>3. Ledger(push[c], pushed[c])'
    BY <1>0, <1>1, <1>2, GoesOn DEF PushBase, Pushing, PushGoto, Working
  <2> QED
    BY <2>1, <2>2, <2>3, LedgerUpdate DEF LedgerOf
<1>4. CASE PushReturns(c)
  BY <1>0, <1>1, <1>4 DEF PushReturns, Pushing, Goto, pushVars, LedgerInv
<1>5. CASE NextFile(c)
  <2>1. PICK p \in q.left :
          \/ /\ push' = [push EXCEPT ![c] = Taken(q, p, "next")]
             /\ \/ pushed' = [pushed EXCEPT ![c] = [r EXCEPT !.skipped = @ \cup {p}]]
                \/ pushed' = [pushed EXCEPT ![c] = [r EXCEPT !.failed = @ \cup {p}]]
          \/ push' = [push EXCEPT ![c] = Taken(q, p, "mkdir")] /\ UNCHANGED pushed
    BY <1>5 DEF NextFile, Taken
  <2>2. UNCHANGED call /\ q.at = "next"
    BY <1>5 DEF NextFile, Pushing
  <2>3. p \in Path
    BY <1>0, TempsAreEntries DEF PushRecord
  <2>4. Ledger(push[c], pushed[c])'
    <3>1. CASE push' = [push EXCEPT ![c] = Taken(q, p, "mkdir")] /\ UNCHANGED pushed
      BY <1>0, <1>1, <2>2, <2>3, <3>1, TakenInHand
    <3>2. CASE /\ push' = [push EXCEPT ![c] = Taken(q, p, "next")]
               /\ pushed' = [pushed EXCEPT ![c] = [r EXCEPT !.skipped = @ \cup {p}]]
      BY <1>0, <1>1, <2>2, <2>3, <3>2, TakenAndReported
    <3>3. CASE /\ push' = [push EXCEPT ![c] = Taken(q, p, "next")]
               /\ pushed' = [pushed EXCEPT ![c] = [r EXCEPT !.failed = @ \cup {p}]]
      BY <1>0, <1>1, <2>2, <2>3, <3>3, TakenAndReported
    <3> QED
      BY <2>1, <3>1, <3>2, <3>3
  <2>5. OtherPushes(c)
    BY <1>0, <2>1, <2>2 DEF OtherPushes
  <2> QED
    BY <1>1, <2>2, <2>4, <2>5, LedgerUpdate DEF LedgerOf
<1>6. CASE MakeDirs(c) \/ ResolveDir(c) \/ PushFile(c)
  <2>1. /\ UNCHANGED call /\ q.at \in Working
        /\ \/ UNCHANGED <<push, pushed>>
           \/ UNCHANGED pushed /\ \E s \in Working : PushGoto(c, s)
           \/ PushFails(c)
           \/ /\ pushed' = [pushed EXCEPT ![c].uploaded = @ \cup {Where(c)}]
              /\ PushGoto(c, "next")
    BY <1>6 DEF MakeDirs, ResolveDir, PushFile, Pushing, Working, own, pushVars
  <2>2. Ledger(push[c], pushed[c])'
    <3>1. CASE UNCHANGED <<push, pushed>>
      BY <1>1, <3>1
    <3>2. CASE UNCHANGED pushed /\ \E s \in Working : PushGoto(c, s)
      BY <1>0, <1>1, <2>1, <3>2, GoesOn DEF PushGoto
    <3>3. CASE PushFails(c)
      <4>1. /\ push'[c] = [q EXCEPT !.at = "next"]
            /\ pushed'[c] = [r EXCEPT !.failed = @ \cup {q.cur}]
        BY <1>0, <3>3 DEF PushFails, PushGoto
      <4>2. Ledger([q EXCEPT !.at = "next"], [r EXCEPT !.failed = @ \cup {q.cur}])
        BY <1>0, <1>1, <2>1, EndedAndReported
      <4> QED
        BY <4>1, <4>2
    <3>4. CASE /\ pushed' = [pushed EXCEPT ![c].uploaded = @ \cup {Where(c)}]
               /\ PushGoto(c, "next")
      <4>1. /\ push'[c] = [q EXCEPT !.at = "next"]
            /\ pushed'[c] = [r EXCEPT !.uploaded = @ \cup {Target(q.dest, q.cur)}]
        BY <1>0, <3>4 DEF PushGoto, Where
      <4>2. Ledger([q EXCEPT !.at = "next"],
                   [r EXCEPT !.uploaded = @ \cup {Target(q.dest, q.cur)}])
        BY <1>0, <1>1, <2>1, EndedAndReported
      <4> QED
        BY <4>1, <4>2
    <3> QED
      BY <2>1, <3>1, <3>2, <3>3, <3>4
  <2>3. OtherPushes(c)
    BY <1>0, <2>1 DEF OtherPushes, PushFails, PushGoto
  <2> QED
    BY <1>1, <2>1, <2>2, <2>3, LedgerUpdate DEF LedgerOf
<1> QED
  BY <1>2, <1>4, <1>5, <1>6 DEF PushStep

LEMMA BothKeepLedgers == BothInv /\ LedgerInv /\ [BothNext]_allVars => LedgerInv'
<1> SUFFICES ASSUME BothInv, LedgerInv, [BothNext]_allVars PROVE LedgerInv'
  OBVIOUS
<1>0. /\ call \in [Caller -> CallRecord]
      /\ DOMAIN push = Caller /\ DOMAIN pushed = Caller
  BY DEF BothInv, PushInv, TypeInv, TypeOK
<1>1. ASSUME NEW c \in Caller, PushStep(c) PROVE LedgerInv'
  BY <1>1, PushStepLedger
<1>2. ASSUME NEW c \in Caller, NEW r \in Requests, BeginPush(c, r) PROVE LedgerInv'
  <2> DEFINE q == [NoPush EXCEPT !.at = "base", !.asked = r.files, !.left = r.files,
                                 !.dest = r.dest]
  <2>1. push'[c] = q /\ pushed'[c] = NothingPushed /\ call'[c].phase = "stat"
    BY <1>0, <1>2 DEF BeginPush, Begin, Idle
  <2>2. /\ q.asked = r.files /\ q.left = r.files /\ q.at = "base"
        /\ NothingPushed.uploaded = {} /\ NothingPushed.skipped = {}
        /\ NothingPushed.failed = {}
    BY DEF NoPush, NothingPushed
  <2>3. InHand(q) = {} /\ Landed(q, NothingPushed) = {}
    BY <2>2 DEF InHand, Landed, Working
  <2>4. Ledger(q, NothingPushed)
    BY <2>2, <2>3 DEF Ledger
  <2>5. OtherPushes(c)
    BY <1>0, <1>2 DEF OtherPushes, BeginPush, Begin
  <2> QED
    BY <2>1, <2>4, <2>5, LedgerUpdate DEF LedgerOf
<1>3. ASSUME NEW c \in Caller, NEW dry \in DryRuns, BeginSync(c, dry) PROVE LedgerInv'
  <2>1. push'[c].at = "none" /\ OtherPushes(c)
    BY <1>0, <1>3 DEF OtherPushes, BeginSync, Begin, NoPush
  <2> QED
    BY <2>1, LedgerUpdate DEF LedgerOf
<1>4. ASSUME NEW c \in Caller, SyncStep(c) PROVE LedgerInv'
  <2>1. OtherPushes(c)
    BY <1>4, CallStepOfOne DEF OtherPushes, Others, SyncStep, BothInv, pushVars
  <2>2. push'[c].at = "none"
    BY <1>4 DEF SyncStep, pushVars
  <2> QED
    BY <2>1, <2>2, LedgerUpdate DEF LedgerOf
<1>5. ASSUME NEW c \in Caller, Crash(c), UNCHANGED pushVars PROVE LedgerInv'
  <2>1. OtherPushes(c) /\ call'[c].phase = "crashed"
    BY <1>0, <1>5 DEF OtherPushes, Crash, pushVars, Idle
  <2> QED
    BY <1>5, <2>1, LedgerUpdate DEF LedgerOf, LedgerInv, pushVars
<1>6. CASE UNCHANGED <<call, push, pushed>>
  BY <1>6 DEF LedgerInv
<1>7. CASE (Environment /\ UNCHANGED pushVars) \/ UNCHANGED allVars
  <2>1. UNCHANGED <<call, push, pushed>>
    BY <1>7 DEF Environment, EditLocal, ChangeRemote, Tick, allVars, vars, own, pushVars
  <2> QED
    BY <1>6, <2>1
<1> QED
  BY <1>1, <1>2, <1>3, <1>4, <1>5, <1>7 DEF BothNext

\* A push that is over has reported every file it was asked for, once
\* (PushAccounting), whatever failed on the way and whatever syncs did beside it.
THEOREM PushReportsAll == BothSpec => []PushAccounting
<1>1. PushInit => BothInv /\ LedgerInv
  BY InitBoth DEF PushInit, LedgerInv, NoPush
<1>2. BothInv /\ LedgerInv /\ [BothNext]_allVars => BothInv' /\ LedgerInv'
  BY BothNextTypes, BothKeepLedgers
<1>3. LedgerInv => PushAccounting
  <2> SUFFICES ASSUME LedgerInv, NEW c \in Caller,
                      call[c].phase = "done", push[c].at # "none"
               PROVE  LET r == pushed[c]
                          landed == {p \in push[c].asked :
                                       Target(push[c].dest, p) \in r.uploaded}
                      IN  /\ landed \cup r.skipped \cup r.failed = push[c].asked
                          /\ landed \cap r.skipped = {}
                          /\ landed \cap r.failed = {}
                          /\ r.skipped \cap r.failed = {}
    BY DEF PushAccounting
  <2>1. Ledger(push[c], pushed[c]) /\ push[c].at = "next" /\ push[c].left = {}
    BY DEF LedgerInv
  <2>2. InHand(push[c]) = {}
    BY <2>1 DEF InHand, Working
  <2> QED
    BY <2>1, <2>2 DEF Ledger, Landed
<1> QED
  BY <1>1, <1>2, <1>3, PTL DEF BothSpec

-----------------------------------------------------------------------------
(***************************************************************************)
(* What a call of push is at.  While it runs its phase is that of a sync   *)
(* up to its first listing, and where it is with its files is told by      *)
(* push; its upload is of the file in hand, its MkdirAll of that file's    *)
(* directory.                                                              *)
(***************************************************************************)
BasePhases == {"stat", "mkbase", "realpath"}
PushPhases == BasePhases \cup {"list", "done", "error", "crashed"}

Aims(c) ==
  /\ ~call[c].dry /\ call[c].phase \in PushPhases
  /\ call[c].phase \in BasePhases => push[c].at = "base"
  /\ call[c].phase = "list" => push[c].at \in {"next"} \cup Working
  /\ Busy(c) => call[c].phase = "list" /\ push[c].at = "upload" /\ up[c].dst = Where(c)
  /\ Targets(c)
  /\ Pushing(c, "mkdir") /\ mk[c].at \in MkdirStages => mk[c].target = Parent(Where(c))

\* A call is of one of the two tools.
AtWork(c) == IF push[c].at = "none" THEN Ready(c) ELSE Aims(c)
AllAtWork == \A c \in Caller : AtWork(c)

Alone(c) == Others(c) /\ \A d \in Caller \ {c} : push'[d] = push[d] /\ pushed'[d] = pushed[d]

LEMMA AtWorkUpdate ==
  ASSUME AllAtWork, NEW c \in Caller, Alone(c), AtWork(c)'
  PROVE  AllAtWork'
<1> SUFFICES ASSUME NEW d \in Caller, d # c PROVE AtWork(d)'
  BY DEF AllAtWork
<1>1. /\ call'[d] = call[d] /\ plan'[d] = plan[d] /\ result'[d] = result[d]
      /\ mk'[d] = mk[d] /\ up'[d] = up[d] /\ push'[d] = push[d]
  BY DEF Alone, Others
<1>2. AtWork(d)
  BY DEF AllAtWork
<1>3. Ready(d)' <=> Ready(d)
  BY <1>1 DEF Ready, MyPlan, MyBook, Aim, Targets, Busy
<1>4. Aims(d)' <=> Aims(d)
  BY <1>1 DEF Aims, Busy, Targets, Pushing, Where
<1> QED
  BY <1>1, <1>2, <1>3, <1>4 DEF AtWork

\* What the steps of push on its files do to the other variables of its call.
LEMMA FilesOnly ==
  ASSUME NEW c \in Caller, NextFile(c) \/ MakeDirs(c) \/ ResolveDir(c) \/ PushFile(c)
  PROVE  UNCHANGED <<call, plan, result>>
BY DEF NextFile, MakeDirs, ResolveDir, PushFile, own

LEMMA PushGoes ==
  ASSUME BothInv, NEW c \in Caller, NEW stage, PushGoto(c, stage)
  PROVE  /\ push'[c].at = stage /\ push'[c].dest = push[c].dest /\ push'[c].cur = push[c].cur
         /\ push' = [push EXCEPT ![c] = push'[c]]
         /\ Where(c)' = Where(c)
<1>1. push \in [Caller -> PushRecord] /\ push[c] \in PushRecord
  BY DEF BothInv, PushInv
<1>2. /\ push'[c].at = stage /\ push'[c].dest = push[c].dest /\ push'[c].cur = push[c].cur
      /\ push' = [push EXCEPT ![c] = push'[c]]
  BY <1>1 DEF PushGoto, PushRecord
<1> QED
  BY <1>2 DEF Where

LEMMA TakenFields ==
  ASSUME NEW q \in PushRecord, NEW p, NEW stage
  PROVE  /\ Taken(q, p, stage).at = stage /\ Taken(q, p, stage).cur = p
         /\ Taken(q, p, stage).dest = q.dest /\ Taken(q, p, stage).asked = q.asked
         /\ Taken(q, p, stage).left = q.left \ {p}
BY DEF Taken, PushRecord

\* The head of push's loop, with the record it leaves.
LEMMA NextFileDoes ==
  ASSUME NEW c \in Caller, NextFile(c)
  PROVE  \E p \in push[c].left :
           \/ /\ push' = [push EXCEPT ![c] = Taken(push[c], p, "next")]
              /\ \/ pushed' = [pushed EXCEPT ![c].skipped = @ \cup {p}]
                 \/ pushed' = [pushed EXCEPT ![c].failed = @ \cup {p}]
              /\ UNCHANGED <<mk, up>>
           \/ /\ push' = [push EXCEPT ![c] = Taken(push[c], p, "mkdir")]
              /\ mk' = [mk EXCEPT ![c] = MkdirAt("stat", Parent(Target(push[c].dest, p)),
                                                         Parent(Target(push[c].dest, p)))]
              /\ up' = [up EXCEPT ![c] = NotStarted]
              /\ UNCHANGED pushed
BY DEF NextFile, Taken

LEMMA PushStepOfOne ==
  ASSUME BothInv, NEW c \in Caller, PushStep(c)
  PROVE  Alone(c)
<1>1. /\ push \in [Caller -> PushRecord] /\ pushed \in [Caller -> PushedRecord]
      /\ call \in [Caller -> CallRecord] /\ mk \in [Caller -> MkdirRecord]
      /\ up \in [Caller -> UploadRecord] /\ TypeInv /\ DOMAIN mk = Caller
  BY DEF BothInv, PushInv, TypeInv, TypeOK, MkdirTypeOK, UploadTypeOK
<1> SUFFICES ASSUME NEW d \in Caller \ {c}
             PROVE  /\ call'[d] = call[d] /\ plan'[d] = plan[d] /\ result'[d] = result[d]
                    /\ mk'[d] = mk[d] /\ up'[d] = up[d]
                    /\ push'[d] = push[d] /\ pushed'[d] = pushed[d]
  BY DEF Alone, Others
<1>2. push'[d] = push[d] /\ pushed'[d] = pushed[d]
  <2>1. ASSUME NEW s, PushGoto(c, s) PROVE push'[d] = push[d]
    BY <1>1, <2>1 DEF PushGoto
  <2>2. ASSUME PushFails(c) PROVE push'[d] = push[d] /\ pushed'[d] = pushed[d]
    BY <1>1, <2>1, <2>2 DEF PushFails
  <2>3. CASE NextFile(c)
    BY <1>1, <2>3, NextFileDoes
  <2>4. CASE PushBase(c) \/ PushReturns(c)
    BY <2>1, <2>4 DEF PushBase, PushReturns, pushVars
  <2>5. CASE MakeDirs(c) \/ ResolveDir(c)
    BY <2>1, <2>2, <2>5 DEF MakeDirs, ResolveDir, pushVars
  <2>6. CASE PushFile(c)
    <3>1. \/ UNCHANGED pushVars \/ PushFails(c)
          \/ /\ pushed' = [pushed EXCEPT ![c].uploaded = @ \cup {Where(c)}]
             /\ PushGoto(c, "next")
      BY <2>6 DEF PushFile
    <3> QED
      BY <1>1, <2>1, <2>2, <3>1 DEF pushVars
  <2> QED
    BY <2>3, <2>4, <2>5, <2>6 DEF PushStep
<1>3. CASE PushBase(c)
  BY <1>1, <1>2, <1>3, CallStepOfOne DEF PushBase, CallStep, Others
<1>4. CASE PushReturns(c)
  BY <1>1, <1>2, <1>4 DEF PushReturns, Goto
<1>5. CASE NextFile(c)
  BY <1>1, <1>2, <1>5, NextFileDoes, FilesOnly
<1>6. CASE MakeDirs(c)
  BY <1>1, <1>2, <1>6, MkdirStepOfOne, FilesOnly DEF MakeDirs
<1>7. CASE ResolveDir(c)
  BY <1>2, <1>7 DEF ResolveDir, own
<1>8. CASE PushFile(c)
  <2>1. push[c].cur \in Entry /\ Where(c) \in Entry
    BY <1>8, InHandIsAsked, TempsAreEntries DEF PushFile, Pushing, Working, BothInv
  <2> QED
    BY <1>1, <1>2, <1>8, <2>1, UploadStepOfOne, FilesOnly DEF PushFile
<1> QED
  BY <1>3, <1>4, <1>5, <1>6, <1>7, <1>8 DEF PushStep

\* Making sure of the base leaves push where sync would list.
LEMMA PushBaseKeepsAims ==
  ASSUME BothInv, NEW c \in Caller, Aims(c), PushBase(c)
  PROVE  Aims(c)'
<1>1. /\ call \in [Caller -> CallRecord] /\ call[c] \in CallRecord /\ TypeInv
      /\ push \in [Caller -> PushRecord] /\ push[c].at = "base"
  BY DEF BothInv, PushInv, TypeInv, TypeOK, PushBase, Pushing
<1>2. /\ call'[c].phase \in BasePhases \cup {"list", "error"}
      /\ ~call'[c].dry
  <2>1. CASE StatBase(c) \/ MakeBase(c)
    <3>1. \/ UNCHANGED call /\ call[c].phase = "mkbase"
          \/ \E n \in {"error", "realpath", "mkbase"} : Goto(c, n)
      BY <2>1 DEF Aims, StatBase, MakeBase
    <3> QED
      BY <1>1, <3>1 DEF Aims, Goto, CallRecord, BasePhases
  <2>2. CASE ResolveBase(c)
    <3>1. PICK ok \in BOOLEAN :
            call' = IF ok THEN [call EXCEPT ![c].phase = "list", ![c].todo = {Base}]
                          ELSE [call EXCEPT ![c].phase = "error"]
      BY <2>2 DEF ResolveBase
    <3> QED
      BY <1>1, <3>1 DEF Aims, CallRecord
  <2> QED
    BY <2>1, <2>2 DEF PushBase
<1>3. /\ call'[c].phase = "list" => push'[c].at = "next"
      /\ call'[c].phase # "list" => push'[c].at = "base"
  BY <1>1, PushGoes DEF PushBase
<1>4. ~Busy(c)'
  BY <1>1 DEF Aims, PushBase, StatBase, MakeBase, ResolveBase, Busy
<1>5. Targets(c)'
  BY <1>1, CallStepKeepsTargets DEF Aims, PushBase, CallStep
<1> QED
  BY <1>2, <1>3, <1>4, <1>5 DEF Aims, BasePhases, PushPhases, Pushing

LEMMA FilesKeepAims ==
  ASSUME BothInv, NEW c \in Caller, Aims(c),
         NextFile(c) \/ MakeDirs(c) \/ ResolveDir(c) \/ PushFile(c)
  PROVE  Aims(c)'
<1>1. /\ push \in [Caller -> PushRecord] /\ push[c] \in PushRecord /\ UNCHANGED call
      /\ mk \in [Caller -> MkdirRecord] /\ up \in [Caller -> UploadRecord]
      /\ MkdirTypeOK /\ UploadTypeOK
  BY FilesOnly DEF BothInv, PushInv, TypeInv, TypeOK, MkdirTypeOK, UploadTypeOK
<1>2. /\ call[c].phase = "list" /\ ~call[c].dry /\ push[c].at \in {"next"} \cup Working
      /\ Targets(c)'
  BY <1>1 DEF Aims, NextFile, MakeDirs, ResolveDir, PushFile, Pushing, Working, PushPhases,
     BasePhases, Active, Targets, Planning
<1> SUFFICES
      /\ push'[c].at \in {"next"} \cup Working
      /\ Busy(c)' => push'[c].at = "upload" /\ up'[c].dst = Where(c)'
      /\ push'[c].at = "mkdir" /\ mk'[c].at \in MkdirStages
           => mk'[c].target = Parent(Where(c)')
  BY <1>1, <1>2 DEF Aims, Pushing, PushPhases, BasePhases
<1>3. CASE NextFile(c)
  <2>1. PICK p \in push[c].left :
           \/ push' = [push EXCEPT ![c] = Taken(push[c], p, "next")] /\ UNCHANGED <<mk, up>>
           \/ /\ push' = [push EXCEPT ![c] = Taken(push[c], p, "mkdir")]
              /\ mk' = [mk EXCEPT ![c] = MkdirAt("stat", Parent(Target(push[c].dest, p)),
                                                         Parent(Target(push[c].dest, p)))]
              /\ up' = [up EXCEPT ![c] = NotStarted]
    BY <1>3, NextFileDoes
  <2>2. ~Busy(c)
    BY <1>3 DEF Aims, NextFile, Pushing
  <2>3. CASE push' = [push EXCEPT ![c] = Taken(push[c], p, "next")] /\ UNCHANGED <<mk, up>>
    <3>1. push'[c].at = "next"
      BY <1>1, <2>3, TakenFields
    <3> QED
      BY <2>2, <2>3, <3>1 DEF Busy
  <2>4. CASE /\ push' = [push EXCEPT ![c] = Taken(push[c], p, "mkdir")]
             /\ mk' = [mk EXCEPT ![c] = MkdirAt("stat", Parent(Target(push[c].dest, p)),
                                                        Parent(Target(push[c].dest, p)))]
             /\ up' = [up EXCEPT ![c] = NotStarted]
    <3>1. push'[c].at = "mkdir" /\ push'[c].cur = p /\ push'[c].dest = push[c].dest
      BY <1>1, <2>4, TakenFields
    <3>2. mk'[c].target = Parent(Where(c)') /\ ~Busy(c)'
      BY <1>1, <2>4, <3>1 DEF MkdirAt, Where, Busy, NotStarted, Stages
    <3> QED
      BY <3>1, <3>2 DEF Working
  <2> QED
    BY <2>1, <2>3, <2>4
<1>4. CASE MakeDirs(c)
  <2>1. ~Busy(c)' /\ push[c].at = "mkdir"
    BY <1>4 DEF Aims, MakeDirs, Pushing, Busy
  <2>2. CASE UNCHANGED push
    <3>1. UNCHANGED Where(c)
      BY <2>2 DEF Where
    <3> QED
      BY <1>1, <1>4, <2>1, <2>2, <3>1, MkdirKeepsTarget DEF Aims, MakeDirs, Working
  <2>3. CASE push'[c].at \in {"next", "resolve"}
    BY <2>1, <2>3 DEF Working
  <2> QED
    BY <1>4, <2>2, <2>3, PushGoes DEF MakeDirs, PushFails, pushVars
<1>5. CASE ResolveDir(c)
  <2>1. ~Busy(c)' /\ push'[c].at \in {"next", "upload"}
    BY <1>5, PushGoes DEF Aims, ResolveDir, PushFails, Pushing, Busy, own
  <2> QED
    BY <2>1 DEF Working
<1>6. CASE PushFile(c)
  <2>1. /\ push[c].at = "upload"
        /\ push[c].cur \in Visible /\ Where(c) \in Visible
    BY <1>6, InHandIsAsked DEF PushFile, Pushing, Working, BothInv
  <2>2. Busy(c)' => up'[c].dst = Where(c)
    BY <1>1, <1>6, <2>1, UploadStartAims, UploadStepGoesOn DEF Aims, PushFile
  <2>3. CASE up'[c].at \in {"done", "failed"}
    <3>1. ~Busy(c)' /\ push'[c].at = "next"
      BY <1>6, <2>3, PushGoes DEF PushFile, PushFails, Busy, Stages
    <3> QED
      BY <3>1
  <2>4. CASE up'[c].at \notin {"done", "failed"}
    <3>1. UNCHANGED push
      BY <1>6, <2>4 DEF PushFile, pushVars
    <3> QED
      BY <2>1, <2>2, <3>1 DEF Where, Working
  <2> QED
    BY <2>3, <2>4
<1> QED
  BY <1>3, <1>4, <1>5, <1>6

LEMMA PushStepKeepsAims ==
  ASSUME BothInv, NEW c \in Caller, Aims(c), PushStep(c)
  PROVE  Aims(c)'
<1>1. CASE PushReturns(c)
  <2>1. call \in [Caller -> CallRecord] /\ call[c] \in CallRecord
    BY DEF BothInv, TypeInv, TypeOK
  <2>2. /\ UNCHANGED <<mk, up, push>> /\ push[c].at = "next"
        /\ call'[c].phase \in {"error", "done"} /\ call'[c].dry = call[c].dry
    BY <1>1, <2>1 DEF PushReturns, Pushing, Goto, pushVars, CallRecord
  <2>3. ~Busy(c)'
    BY <2>2 DEF Aims, Busy
  <2> QED
    BY <2>2, <2>3 DEF Aims, PushPhases, BasePhases, Targets, Pushing
<1> QED
  BY <1>1, PushBaseKeepsAims, FilesKeepAims DEF PushStep

\* A call that begins is at work, whatever the last one of its caller was.
LEMMA BeginFields ==
  ASSUME TypeInv, NEW c \in Caller, NEW dry, Begin(c, dry)
  PROVE  /\ call'[c].phase = "stat" /\ call'[c].dry = dry
         /\ plan'[c] = EmptyPlan /\ result'[c] = NoResult
         /\ mk'[c] = MkdirIdle /\ up'[c] = NotStarted
<1>1. /\ call \in [Caller -> CallRecord] /\ mk \in [Caller -> MkdirRecord]
      /\ up \in [Caller -> UploadRecord] /\ plan \in [Caller -> PlanRecord]
      /\ result \in [Caller -> ResultRecord]
  BY DEF TypeInv, TypeOK, UploadTypeOK, MkdirTypeOK
<1>2. call'[c] = [Idle EXCEPT !.phase = "stat", !.dry = dry]
  BY <1>1 DEF Begin
<1> QED
  BY <1>1, <1>2 DEF Begin, Idle

LEMMA BeginsAtWork ==
  ASSUME BothInv, NEW c \in Caller,
         \/ \E r \in Requests : BeginPush(c, r)
         \/ \E dry \in DryRuns : BeginSync(c, dry)
  PROVE  AtWork(c)' /\ Alone(c)
<1>1. /\ TypeInv /\ push \in [Caller -> PushRecord] /\ pushed \in [Caller -> PushedRecord]
  BY DEF BothInv, PushInv
<1>2. CASE \E r \in Requests : BeginPush(c, r)
  <2>1. PICK r \in Requests : BeginPush(c, r)
    BY <1>2
  <2>2. /\ Begin(c, FALSE)
        /\ push'[c] = [NoPush EXCEPT !.at = "base", !.asked = r.files, !.left = r.files,
                                     !.dest = r.dest]
        /\ \A d \in Caller \ {c} : push'[d] = push[d] /\ pushed'[d] = pushed[d]
    BY <1>1, <2>1 DEF BeginPush
  <2>3. push'[c].at = "base"
    BY <2>2 DEF NoPush
  <2>6. PICK dry : dry = FALSE
    OBVIOUS
  <2>7. /\ call'[c].phase = "stat" /\ call'[c].dry = dry
        /\ mk'[c] = MkdirIdle /\ up'[c] = NotStarted
    BY <1>1, <2>2, <2>6, BeginFields
  <2>4. Aims(c)'
    BY <2>3, <2>6, <2>7
    DEF Aims, PushPhases, BasePhases, Busy, NotStarted, Stages, Targets, MkdirIdle,
        MkdirStages, Pushing
  <2>5. Others(c)
    BY <1>1, <2>2, BeginAndCrashOfOne
  <2> QED
    BY <2>2, <2>3, <2>4, <2>5 DEF AtWork, Alone
<1>3. CASE \E dry \in DryRuns : BeginSync(c, dry)
  <2>1. PICK dry \in DryRuns : BeginSync(c, dry)
    BY <1>3
  <2>2. /\ Begin(c, dry) /\ push'[c].at = "none"
        /\ \A d \in Caller \ {c} : push'[d] = push[d] /\ pushed'[d] = pushed[d]
    BY <1>1, <2>1 DEF BeginSync, NoPush
  <2>3. Ready(c)'
    BY <1>1, <2>2, BeginFields
    DEF Ready, Stops, MyPlan, Plans, MyBook, Book, Aim, Targets, Busy, NotStarted, Stages,
        MkdirIdle, MkdirStages, Planning, Applies, EmptyPlan
  <2>4. Others(c)
    BY <1>1, <2>2, BeginAndCrashOfOne, InitAssumption
  <2> QED
    BY <2>2, <2>3, <2>4 DEF AtWork, Alone
<1> QED
  BY <1>2, <1>3

LEMMA CrashAtWork ==
  ASSUME BothInv, NEW c \in Caller, AtWork(c), Crash(c), UNCHANGED pushVars
  PROVE  AtWork(c)' /\ Alone(c)
<1>1. TypeInv /\ call \in [Caller -> CallRecord] /\ UNCHANGED <<push, pushed>>
  BY DEF BothInv, TypeInv, TypeOK, pushVars
<1>2. Alone(c)
  BY <1>1, BeginAndCrashOfOne DEF Alone
<1>3. CASE push[c].at = "none"
  BY <1>1, <1>2, <1>3, BeginAndCrashKeepReady DEF AtWork
<1>4. CASE push[c].at # "none"
  <2>1. call'[c] = [Idle EXCEPT !.phase = "crashed"]
    BY <1>1 DEF Crash
  <2>2. call'[c].phase = "crashed" /\ ~call'[c].dry
    BY <2>1 DEF Idle
  <2>3. ~Busy(c)'
    BY <1>1, NoUploadLeft
  <2>4. Aims(c)'
    BY <2>2, <2>3 DEF Aims, PushPhases, BasePhases, Targets, Pushing, Active, Planning
  <2> QED
    BY <1>1, <1>2, <1>4, <2>4 DEF AtWork
<1> QED
  BY <1>3, <1>4

LEMMA BothKeepAtWork == BothInv /\ AllAtWork /\ [BothNext]_allVars => AllAtWork'
<1> SUFFICES ASSUME BothInv, AllAtWork, [BothNext]_allVars PROVE AllAtWork'
  OBVIOUS
<1>1. TypeInv /\ push \in [Caller -> PushRecord] /\ \A c \in Caller : AtWork(c)
  BY DEF BothInv, PushInv, AllAtWork
<1>2. ASSUME NEW c \in Caller, PushStep(c) PROVE AllAtWork'
  <2>1. push[c].at # "none" /\ push'[c].at # "none"
    <3>1. push[c].at # "none"
      BY <1>2 DEF PushStep, PushBase, NextFile, MakeDirs, ResolveDir,
         PushFile, PushReturns, Pushing
    <3>2. push'[c].at # "none"
      <4>1. CASE NextFile(c)
        BY <1>1, <4>1, NextFileDoes, TakenFields
      <4>2. CASE UNCHANGED push \/ \E s \in {"next"} \cup Working : PushGoto(c, s)
        BY <3>1, <4>2, PushGoes DEF Working
      <4> QED
        BY <1>2, <4>1, <4>2 DEF PushStep, PushBase, MakeDirs, ResolveDir,
           PushFile, PushReturns, PushFails, pushVars, Working
    <3> QED
      BY <3>1, <3>2
  <2>2. AtWork(c)'
    BY <1>1, <1>2, <2>1, PushStepKeepsAims DEF AtWork
  <2> QED
    BY <1>2, <2>2, PushStepOfOne, AtWorkUpdate
<1>3. ASSUME NEW c \in Caller, SyncStep(c) PROVE AllAtWork'
  <2>1. push[c].at = "none" /\ CallStep(c) /\ UNCHANGED <<push, pushed>>
    BY <1>3 DEF SyncStep, pushVars
  <2>2. AtWork(c)'
    BY <1>1, <2>1, CallStepKeepsReady DEF AtWork
  <2>3. Alone(c)
    BY <1>1, <2>1, CallStepOfOne DEF Alone
  <2> QED
    BY <2>2, <2>3, AtWorkUpdate
<1>4. ASSUME NEW c \in Caller, Crash(c), UNCHANGED pushVars PROVE AllAtWork'
  BY <1>1, <1>4, CrashAtWork, AtWorkUpdate
<1>5. ASSUME NEW c \in Caller, \/ \E r \in Requests : BeginPush(c, r)
                               \/ \E dry \in DryRuns : BeginSync(c, dry)
      PROVE  AllAtWork'
  BY <1>5, BeginsAtWork, AtWorkUpdate
<1>6. CASE (Environment /\ UNCHANGED pushVars) \/ UNCHANGED allVars
  <2>1. UNCHANGED <<own, push>>
    BY <1>6 DEF Environment, EditLocal, ChangeRemote, Tick, allVars, vars, pushVars
  <2> QED
    BY <2>1 DEF own, AllAtWork, AtWork, Ready, Aims, Stops, MyPlan, MyBook, Aim, Targets, Busy,
       Pushing, Where
<1> QED
  BY <1>2, <1>3, <1>4, <1>5, <1>6 DEF BothNext

-----------------------------------------------------------------------------
(***************************************************************************)
(* The remote base under both tools: temporary names keep to their         *)
(* uploads, no call makes a link, and the tree stays one that a file       *)
(* system can hold.                                                        *)
(***************************************************************************)
LEMMA PushStepWrites ==
  ASSUME BothInv, NEW c \in Caller, PushStep(c)
  PROVE  Writes(c) /\ KeepsNames(c)
<1>1. TypeInv /\ UploadTypeOK /\ up \in [Caller -> UploadRecord]
  BY DEF BothInv, TypeInv, TypeOK, UploadTypeOK
<1>2. CASE PushBase(c)
  BY <1>1, <1>2, CallStepWrites, UploadGoesOn DEF PushBase, CallStep, KeepsNames
<1>3. CASE MakeDirs(c)
  BY <1>3, MkdirWrites DEF MakeDirs, KeepsNames, Busy
<1>4. CASE PushFile(c)
  <2>1. push[c].cur \in Visible /\ Where(c) \in Visible
    BY <1>4, InHandIsAsked DEF PushFile, Pushing, Working, BothInv
  <2>2. CASE UploadStart(c, push[c].cur, Where(c))
    BY <1>1, <2>1, <2>2, StartWrites, UploadStartAims DEF KeepsNames
  <2>3. CASE UploadStep(c)
    BY <1>1, <2>3, UploadWrites, UploadStepGoesOn DEF Writes, KeepsNames
  <2> QED
    BY <1>4, <2>2, <2>3 DEF PushFile
<1>5. CASE NextFile(c) \/ ResolveDir(c) \/ PushReturns(c)
  <2>1. fs' = fs /\ (UNCHANGED up \/ up' = [up EXCEPT ![c] = NotStarted])
    BY <1>5 DEF NextFile, ResolveDir, PushReturns, Ask, Request, own, session
  <2> QED
    BY <1>1, <2>1 DEF Writes, KeepsNames, Busy, NotStarted, Stages
<1> QED
  BY <1>2, <1>3, <1>4, <1>5 DEF PushStep

LEMMA PushStepOffTemps ==
  ASSUME BothInv, NEW c \in Caller, OffTemps(c), PushStep(c)
  PROVE  OffTemps(c)'
<1>1. TypeInv /\ MkdirTypeOK /\ mk \in [Caller -> MkdirRecord]
  BY DEF BothInv, TypeInv, TypeOK, MkdirTypeOK
<1>2. CASE UNCHANGED mk
  BY <1>2 DEF OffTemps
<1>3. CASE PushBase(c)
  BY <1>1, <1>3, CallStepOffTemps DEF PushBase, CallStep
<1>4. CASE MakeDirs(c)
  BY <1>1, <1>4, MkdirStepOffTemps DEF MakeDirs
<1>5. CASE NextFile(c)
  <2>1. PICK p \in push[c].left :
          \/ UNCHANGED mk
          \/ mk' = [mk EXCEPT ![c] = MkdirAt("stat", Parent(Target(push[c].dest, p)),
                                                     Parent(Target(push[c].dest, p)))]
    BY <1>5, NextFileDoes
  <2>2. Target(push[c].dest, p) \in Entry
    BY <1>5, AskedHasAPlace, TempsAreEntries DEF BothInv, NextFile, Pushing
  <2> QED
    BY <1>1, <1>2, <2>1, <2>2, ParentIsNoTemp DEF MkdirAt, OffTemps
<1> QED
  BY <1>2, <1>3, <1>4, <1>5 DEF PushStep, ResolveDir, PushFile, PushReturns, own

LEMMA PushStepKeepsReach ==
  ASSUME BothInv, PathsInv, AllAtWork, NEW c \in Caller, PushStep(c)
  PROVE  /\ MkdirOffTemps' /\ PlainTemps' /\ MakesNoLink /\ Others(c)
         /\ call'[c].phase # "remove"
<1>1. /\ TypeInv /\ UploadTypeOK /\ UploadTypeOK' /\ Others(c)
      /\ \A d \in Caller : OffTemps(d)
  <2>1. BothNext
    BY DEF BothNext
  <2>2. BothInv'
    BY <2>1, BothNextTypes
  <2> QED
    BY <2>2, PushStepOfOne DEF BothInv, TypeInv, TypeOK, Alone, PathsInv, MkdirOffTemps
<1>2. KeepsPlain /\ MakesNoLink
  BY <1>1, PushStepWrites, WritesPlainly DEF PathsInv
<1>3. KeepsNames(c)
  BY PushStepWrites
<1>4. call'[c].phase # "remove"
  <2>1. Aims(c)
    BY DEF AllAtWork, AtWork, PushStep, PushBase, NextFile, MakeDirs, ResolveDir,
       PushFile, PushReturns, Pushing
  <2>2. Aims(c)'
    BY <2>1, PushStepKeepsAims
  <2> QED
    BY <2>2 DEF Aims, PushPhases, BasePhases
<1>5. PlainTemps'
  BY <1>1, <1>2, <1>3, NamesOfOthers, NamesStayPlain DEF PathsInv
<1>6. MkdirOffTemps'
  BY <1>1, PushStepOffTemps DEF MkdirOffTemps, OffTemps, Others
<1> QED
  BY <1>1, <1>2, <1>4, <1>5, <1>6

\* The steps of both tools, for what concerns the remote base: push's own, those
\* of a sync, what begins or ends a call, and what others do.
LEMMA BothSteps ==
  ASSUME [BothNext]_allVars
  PROVE  \/ \E c \in Caller : PushStep(c)
         \/ \E c \in Caller : push[c].at = "none" /\ CallStep(c) /\ UNCHANGED pushVars
         \/ \E c \in Caller : Crash(c) /\ UNCHANGED pushVars
         \/ \E c \in Caller : \/ \E r \in Requests : BeginPush(c, r)
                              \/ \E dry \in DryRuns : BeginSync(c, dry)
         \/ ChangeRemote /\ UNCHANGED pushVars
         \/ (EditLocal \/ Tick \/ UNCHANGED vars) /\ UNCHANGED pushVars
BY DEF BothNext, SyncStep, Environment, allVars

\* Each of these has the frame that Environment asks for.
LEMMA AroundTheCalls == EditLocal \/ ChangeRemote \/ Tick => Environment
BY DEF EditLocal, ChangeRemote, Tick, Environment, own

LEMMA BothBegin ==
  ASSUME NEW c \in Caller, \/ \E r \in Requests : BeginPush(c, r)
                           \/ \E dry \in DryRuns : BeginSync(c, dry)
  PROVE  \E dry \in BOOLEAN : Begin(c, dry)
BY InitAssumption DEF BeginPush, BeginSync

LEMMA BothKeepPaths == BothInv /\ PathsInv /\ AllAtWork /\ [BothNext]_allVars => PathsInv'
<1> SUFFICES ASSUME BothInv, PathsInv, AllAtWork, [BothNext]_allVars
             PROVE  PathsInv'
  OBVIOUS
<1>0. TypeInv /\ TypeInv' /\ mk \in [Caller -> MkdirRecord]
  BY BothNextTypes DEF BothInv, TypeInv, TypeOK, MkdirTypeOK
<1>1. ASSUME NEW c \in Caller, PushStep(c)
      PROVE  MkdirOffTemps' /\ PlainTemps'
  BY <1>1, PushStepKeepsReach
<1>2. CASE [Next]_vars
  BY <1>2, NextKeepsPaths
<1>3. ASSUME NEW c \in Caller, NEW dry \in BOOLEAN, Begin(c, dry)
      PROVE  MkdirOffTemps' /\ PlainTemps'
  <2>1. mk' = [mk EXCEPT ![c] = MkdirIdle]
    BY <1>3 DEF Begin
  <2>2. MkdirOffTemps'
    BY <1>0, <2>1 DEF PathsInv, MkdirOffTemps, OffTemps, MkdirIdle, MkdirStages
  <2> QED
    BY <1>3, <2>2, BeginAndCrashKeepPaths
<1> QED
  BY <1>0, <1>1, <1>2, <1>3, BothSteps, BothBegin, AroundTheCalls DEF PathsInv, Next

LEMMA BothStepsAreChecked ==
  ASSUME BothInv, PathsInv, AllAtWork, [BothNext]_allVars, NEW c \in Caller
  PROVE  CheckedStep(c)
<1>1. ASSUME NEW d \in Caller, PushStep(d) PROVE CheckedStep(c)
  BY <1>1, PushStepKeepsReach, LinksComeFromOthers
<1>2. CASE [Next]_vars
  BY <1>2, StepsAreChecked
<1>3. ASSUME NEW d \in Caller, NEW dry \in BOOLEAN, Begin(d, dry) PROVE CheckedStep(c)
  BY <1>3, BeginAndCrashKeepPaths DEF CheckedStep, Others, LeadsOut
<1> QED
  BY <1>1, <1>2, <1>3, BothSteps, BothBegin, AroundTheCalls DEF Next

LEMMA PushStepKeepsTree ==
  ASSUME BothInv, TreesInv, NEW c \in Caller, PushStep(c)
  PROVE  WellFormed(fs')
<1>1. CASE PushBase(c)
  BY <1>1, CallStepKeepsTree DEF PushBase, CallStep
<1>2. CASE MakeDirs(c)
  BY <1>2, MkdirKeepsTree DEF MakeDirs
<1>3. CASE PushFile(c)
  <2>1. Where(c) \in Visible
    BY <1>3, InHandIsAsked DEF PushFile, Pushing, Working, BothInv
  <2> QED
    BY <1>3, <2>1, StartKeepsTree, UploadKeepsTree DEF PushFile
<1>4. CASE NextFile(c) \/ ResolveDir(c) \/ PushReturns(c)
  <2>1. fs' = fs
    BY <1>4 DEF NextFile, ResolveDir, PushReturns, Ask, Request, session
  <2> QED
    BY <2>1 DEF TreesInv
<1> QED
  BY <1>1, <1>2, <1>3, <1>4 DEF PushStep

\* What holds of both tools on one base.
BothHold == BothInv /\ TreesInv /\ AllAtWork

LEMMA BothKeepTree == BothHold /\ [BothNext]_allVars => WellFormed(fs')
<1> SUFFICES ASSUME BothHold, [BothNext]_allVars
             PROVE  WellFormed(fs')
  OBVIOUS
<1>1. ASSUME NEW c \in Caller, PushStep(c)
      PROVE  WellFormed(fs')
  BY <1>1, PushStepKeepsTree DEF BothHold
<1>2. CASE [Next]_vars
  BY <1>2, NextKeepsTree DEF BothHold
<1>3. ASSUME NEW c \in Caller, NEW dry \in BOOLEAN, Begin(c, dry)
      PROVE  WellFormed(fs')
  BY <1>3 DEF BothHold, TreesInv, Begin
<1> QED
  BY <1>1, <1>2, <1>3, BothSteps, BothBegin, AroundTheCalls DEF Next

LEMMA BothHoldAlways == BothSpec => []BothHold
<1>1. PushInit => BothHold
  <2> SUFFICES ASSUME PushInit PROVE BothHold
    OBVIOUS
  <2>1. Init /\ \A c \in Caller : push[c].at = "none"
    BY DEF PushInit, NoPush
  <2>2. WellFormed(fs)
    BY <2>1, InitAssumption DEF Init
  <2>3. AllAtWork
    BY <2>1, InitReady DEF AllAtWork, AtWork, AllReady
  <2> QED
    BY <2>1, <2>2, <2>3, InitBoth, InitReach, InitTorn DEF BothHold, TreesInv, ReachInv
<1>2. BothHold /\ [BothNext]_allVars => BothHold'
  BY BothNextTypes, BothKeepPaths, BothKeepTorn, BothKeepTree, BothKeepAtWork
  DEF BothHold, TreesInv
<1> QED
  BY <1>1, <1>2, PTL DEF BothSpec

-----------------------------------------------------------------------------
(***************************************************************************)
(* What the two tools report is so, whichever of them runs beside it.      *)
(***************************************************************************)

\* The only step that reports a file as uploaded is the last of its upload.
LEMMA OnlyPushFileReports ==
  ASSUME BothHold, [BothNext]_allVars, NEW c \in Caller,
         NEW t \in pushed'[c].uploaded \ pushed[c].uploaded
  PROVE  /\ UploadStep(c) /\ up'[c].at = "done"
         /\ t = up[c].dst
<1>1. /\ pushed \in [Caller -> PushedRecord] /\ up \in [Caller -> UploadRecord] /\ UploadTypeOK
      /\ BothInv
  BY DEF BothHold, BothInv, TypeInv, TypeOK, UploadTypeOK
<1>2. PushStep(c)
  <2>1. ASSUME NEW d \in Caller, PushStep(d) PROVE d = c
    BY <1>1, <2>1, PushStepOfOne DEF Alone
  <2>2. ASSUME NEW d \in Caller, \/ \E r \in Requests : BeginPush(d, r)
                                 \/ \E dry \in DryRuns : BeginSync(d, dry)
        PROVE FALSE
    <3>1. pushed' = [pushed EXCEPT ![d] = NothingPushed]
      BY <2>2 DEF BeginPush, BeginSync
    <3> QED
      BY <1>1, <3>1 DEF NothingPushed
  <2> QED
    BY <2>1, <2>2, BothSteps DEF pushVars
<1>3. /\ PushFile(c)
      /\ up'[c].at = "done" /\ pushed' = [pushed EXCEPT ![c].uploaded = @ \cup {Where(c)}]
  <2>1. CASE NextFile(c)
    BY <1>1, <2>1, NextFileDoes DEF PushedRecord
  <2>2. CASE PushFails(c)
    BY <1>1, <2>2 DEF PushFails, PushedRecord
  <2>3. CASE PushFile(c)
    BY <1>1, <2>2, <2>3 DEF PushFile, pushVars
  <2> QED
    BY <1>2, <2>1, <2>2, <2>3
    DEF PushStep, PushBase, MakeDirs, ResolveDir, PushReturns, pushVars
<1>4. t = Where(c)
  BY <1>1, <1>3 DEF PushedRecord
<1>5. UploadStep(c)
  BY <1>1, <1>3, UploadStartAims DEF PushFile
<1>6. up[c].dst = Where(c)
  <2>1. Aims(c)
    BY <1>3 DEF BothHold, AllAtWork, AtWork, PushFile, Pushing
  <2>2. Busy(c)
    BY <1>1, <1>5, UploadWrites
  <2> QED
    BY <2>1, <2>2 DEF Aims
<1> QED
  BY <1>3, <1>4, <1>5, <1>6

\* What push reports as uploaded is in place and complete at that moment, also
\* while syncs delete and replace what they find on the VM (PushedLanded).
THEOREM PushesLand == BothSpec => PushedLanded
<1>1. BothHold /\ [BothNext]_allVars =>
        [\A c \in Caller : \A t \in pushed'[c].uploaded \ pushed[c].uploaded :
           LeadsOut(fs, t) \/ (IsFile(fs'[t]) /\ fs'[t].data # Torn)]_allVars
  <2> SUFFICES ASSUME BothHold, [BothNext]_allVars, NEW c \in Caller,
                      NEW t \in pushed'[c].uploaded \ pushed[c].uploaded
               PROVE  LeadsOut(fs, t) \/ (IsFile(fs'[t]) /\ fs'[t].data # Torn)
    OBVIOUS
  <2> QED
    BY OnlyPushFileReports, RenameLands DEF BothHold, TreesInv
<1> QED
  BY <1>1, BothHoldAlways, PTL DEF BothSpec, PushedLanded

\* A sync's reports come from its own steps, whatever pushes do.
LEMMA OnlySyncReports ==
  ASSUME BothHold, [BothNext]_allVars, NEW c \in Caller, NEW p,
         p \in (result'[c].uploaded \ result[c].uploaded)
                 \cup (result'[c].deleted \ result[c].deleted)
  PROVE  CallStep(c) /\ Aim(c)
<1>1. TypeInv /\ result \in [Caller -> ResultRecord]
  BY DEF BothHold, BothInv, TypeInv, TypeOK
<1>2. ASSUME NEW d \in Caller, push[d].at = "none", CallStep(d) PROVE CallStep(c) /\ Aim(c)
  BY <1>1, <1>2, CallStepOfOne DEF Others, BothHold, AllAtWork, AtWork, Ready
<1>3. ASSUME NEW d \in Caller, NEW dry \in BOOLEAN, Begin(d, dry) PROVE FALSE
  BY <1>1, <1>3 DEF Begin, NoResult
<1>4. ASSUME NEW d \in Caller, PushStep(d) PROVE UNCHANGED result
  BY <1>4
  DEF PushStep, PushBase, StatBase, MakeBase, ResolveBase, NextFile, MakeDirs,
      ResolveDir, PushFile, PushReturns, own
<1>5. ASSUME (\E d \in Caller : Crash(d)) \/ ChangeRemote \/ EditLocal \/ Tick \/ UNCHANGED vars
      PROVE  UNCHANGED result
  BY <1>5 DEF Crash, EditLocal, ChangeRemote, Tick, vars, own
<1> QED
  BY <1>2, <1>3, <1>4, <1>5, BothSteps, BothBegin

\* What sync reports is so with pushes beside it as well: uploads are in place and
\* complete, and deletes are done and were checked (ReportedLanded,
\* DeletesAreChecked).
THEOREM SyncsReportTruly == BothSpec => ReportedLanded /\ DeletesAreChecked
<1>1. ASSUME BothHold, [BothNext]_allVars, NEW c \in Caller, NEW p
      PROVE  /\ p \in result'[c].uploaded \ result[c].uploaded =>
                  LeadsOut(fs, p) \/ (IsFile(fs'[p]) /\ fs'[p].data # Torn)
             /\ p \in result'[c].deleted \ result[c].deleted =>
                  LeadsOut(fs, p) \/ (fs[p] # Absent /\ fs'[p] = Absent)
  BY <1>1, OnlySyncReports, UploadsReported, DeletesReported DEF BothHold, TreesInv
<1>2. BothHold /\ [BothNext]_allVars =>
        [\A c \in Caller, p \in Entry :
           /\ p \in result'[c].uploaded \ result[c].uploaded =>
                LeadsOut(fs, p) \/ (IsFile(fs'[p]) /\ fs'[p].data # Torn)
           /\ p \in result'[c].deleted \ result[c].deleted =>
                LeadsOut(fs, p) \/ (fs[p] # Absent /\ fs'[p] = Absent)]_vars
  BY <1>1
<1>3. BothHold /\ [BothNext]_allVars =>
        [\A c \in Caller :
           LeadsOut(fs', call'[c].cur) /\ call'[c].phase = "remove" =>
             \/ LeadsOut(fs, call[c].cur) /\ call[c].phase = "remove"
             \/ call[c].phase = "remove" /\ budget'.intrusions < budget.intrusions]_vars
  BY BothStepsAreChecked, IntrusionsCount DEF BothHold, TreesInv, PathsInv, CheckedStep
<1> QED
  BY <1>2, <1>3, BothHoldAlways, PTL DEF BothSpec, ReportedLanded, DeletesAreChecked

-----------------------------------------------------------------------------
(***************************************************************************)
(* Files that include and ignore exclude.  A push goes by the names it was *)
(* given, and include is not for it: it may write at what a sync excludes, *)
(* but only where it was asked to.                                         *)
(***************************************************************************)
AskedOf(c) ==
  IF push[c].at = "none" THEN {} ELSE {Target(push[c].dest, p) : p \in push[c].asked}

LEMMA BothKeepAllowed == BothHold /\ AllAllowed /\ [BothNext]_allVars => AllAllowed'
<1> SUFFICES ASSUME BothHold, AllAllowed, [BothNext]_allVars PROVE AllAllowed'
  OBVIOUS
<1>0. TypeInv /\ call \in [Caller -> CallRecord] /\ \A c \in Caller : Allowed(call[c])
  BY DEF BothHold, BothInv, TypeInv, TypeOK, AllAllowed
<1>1. ASSUME NEW c \in Caller, PushStep(c) PROVE AllAllowed'
  <2>1. UNCHANGED rules
    BY <1>1 DEF PushStep, PushBase, StatBase, MakeBase, ResolveBase, NextFile,
       MakeDirs, ResolveDir, PushFile, PushReturns, env
  <2>2. ASSUME PushBase(c) PROVE Allowed(call'[c])
    BY <1>0, <2>2, CallStepAllowed DEF PushBase, CallStep
  <2>3. ASSUME PushReturns(c) PROVE Allowed(call'[c])
    BY <1>0, <2>3, GotoKeepsAllowed DEF PushReturns
  <2>4. ASSUME NextFile(c) \/ MakeDirs(c) \/ ResolveDir(c) \/ PushFile(c) PROVE Allowed(call'[c])
    BY <1>0, <2>4, FilesOnly
  <2>5. Others(c)
    BY <1>1, PushStepOfOne DEF BothHold, Alone
  <2> QED
    BY <1>1, <2>1, <2>2, <2>3, <2>4, <2>5, AllowedUpdate DEF PushStep
<1>2. CASE [Next]_vars
  BY <1>0, <1>2, NextKeepsAllowed
<1>3. ASSUME NEW c \in Caller, NEW dry \in BOOLEAN, Begin(c, dry) PROVE AllAllowed'
  <2>1. call'[c] = [Idle EXCEPT !.phase = "stat", !.dry = dry] /\ UNCHANGED rules
    BY <1>0, <1>3 DEF Begin, env
  <2>2. Allowed(call'[c])
    BY <2>1 DEF Allowed, Idle
  <2> QED
    BY <1>0, <1>3, <2>1, <2>2, BeginAndCrashOfOne, AllowedUpdate
<1> QED
  BY <1>1, <1>2, <1>3, BothSteps, BothBegin, AroundTheCalls DEF Next

LEMMA PushWritesAsked ==
  ASSUME BothHold, NEW c \in Caller, PushStep(c),
         NEW p \in Visible, IsFile(fs[p]), p \notin AskedOf(c)
  PROVE  fs'[p] = fs[p]
<1>0. /\ BothInv /\ TypeInv /\ UploadTypeOK /\ fs \in [Path -> Node]
      /\ p \in Path /\ p \notin Temps
      /\ Aims(c) /\ Writes(c)
  <2>1. push[c].at # "none"
    BY DEF PushStep, PushBase, NextFile, MakeDirs, ResolveDir, PushFile,
       PushReturns, Pushing
  <2> QED
    BY <2>1, PushStepWrites, TempsAreEntries
    DEF BothHold, BothInv, TypeInv, TypeOK, UploadTypeOK, SessionTypeOK, AllAtWork, AtWork
<1>1. fs[p] # Absent /\ fs[p] # Dir
  BY DEF IsFile, Absent, Dir
<1>2. CASE fs' = fs
  BY <1>2
<1>3. CASE fs[mk[c].dir] = Absent /\ fs' = [fs EXCEPT ![mk[c].dir] = Dir]
  BY <1>0, <1>1, <1>3
<1>4. ASSUME NEW t \in Temps, fs' = [fs EXCEPT ![t] = File(Torn, Stamp)]
      PROVE  fs'[p] = fs[p]
  BY <1>0, <1>4
<1>5. CASE Busy(c) /\ WritesUpload(c)
  <2>1. up[c].tmp \in Temps /\ up[c].dst \in Path
    BY <1>0, <1>5, BusyRecord, TempsAreEntries
  <2>2. push[c].at = "upload" /\ up[c].dst = Where(c) /\ push[c].cur \in push[c].asked
    BY <1>0, <1>5 DEF Aims, BothInv, PushInv, GoodPush, Working
  <2>3. up[c].dst # p
    BY <2>2 DEF AskedOf, Where
  <2> QED
    BY <1>0, <1>5, <2>1, <2>3 DEF WritesUpload, Moved, Without
<1>6. call[c].phase # "remove"
  BY <1>0 DEF Aims, PushPhases, BasePhases
<1> QED
  BY <1>0, <1>2, <1>3, <1>4, <1>5, <1>6 DEF Writes

\* A call's step is its own: another one's steps move nothing of it.
LEMMA BothTouchOnlyAsked ==
  ASSUME BothHold, AllAllowed, [BothNext]_allVars, NEW c \in Caller, NEW p \in Visible,
         Moves(c), IsFile(fs[p]), Excluded(rules, p, FALSE), p \notin AskedOf(c)
  PROVE  fs'[p] = fs[p]
<1>1. ASSUME NEW d \in Caller, PushStep(d) PROVE fs'[p] = fs[p]
  <2>1. d = c
    BY <1>1, PushStepOfOne DEF BothHold, Alone, Others, Moves
  <2> QED
    BY <1>1, <2>1, PushWritesAsked
<1>2. ASSUME NEW d \in Caller, push[d].at = "none", CallStep(d) PROVE fs'[p] = fs[p]
  <2>1. TypeInv /\ UploadTypeOK /\ up \in [Caller -> UploadRecord]
    BY DEF BothHold, BothInv, TypeInv, TypeOK, UploadTypeOK
  <2>2. Writes(d)
    BY <1>2, <2>1, CallStepWrites
  <2>3. Aim(d)
    BY <1>2 DEF BothHold, AllAtWork, AtWork, Ready
  <2> QED
    BY <2>2, <2>3, WritesOnlyAllowed DEF BothHold, TreesInv, AllAllowed
<1>3. ASSUME NEW d \in Caller, Crash(d) \/ \E dry \in BOOLEAN : Begin(d, dry)
      PROVE  fs'[p] = fs[p]
  BY <1>3 DEF Crash, Begin, session
<1>4. ASSUME ChangeRemote \/ EditLocal \/ Tick \/ UNCHANGED vars PROVE FALSE
  BY <1>4 DEF EditLocal, ChangeRemote, Tick, vars, own, Moves
<1> QED
  BY <1>1, <1>2, <1>3, <1>4, BothSteps, BothBegin

\* A file that include or ignore put out of sync's reach is touched by no call of
\* either tool, except by a push that was asked to put a file there.
THEOREM OnlyAskedIsTouched ==
  BothSpec => [][\A c \in Caller, p \in Visible :
                   Moves(c) /\ IsFile(fs[p]) /\ Excluded(rules, p, FALSE) /\ p \notin AskedOf(c)
                   => fs'[p] = fs[p]]_vars
<1>1. PushInit => AllAllowed
  BY InitReach DEF PushInit, ReachInv
<1>2. BothHold /\ AllAllowed /\ [BothNext]_allVars =>
        [\A c \in Caller, p \in Visible :
           Moves(c) /\ IsFile(fs[p]) /\ Excluded(rules, p, FALSE) /\ p \notin AskedOf(c)
           => fs'[p] = fs[p]]_vars
  BY BothTouchOnlyAsked
<1> QED
  BY <1>1, <1>2, BothHoldAlways, BothKeepAllowed, PTL DEF BothSpec

\* So where no push is asked to write at what syncs exclude, such files are as safe
\* from both tools as they are from syncs alone (ExcludedFilesUntouched).
NoneExcluded ==
  \A r \in Requests : \A p \in r.files : ~Excluded(rules, Target(r.dest, p), FALSE)

THEOREM ExcludedIsSafeFromBoth == BothSpec /\ []NoneExcluded => ExcludedFilesUntouched
<1>1. ASSUME BothHold, NoneExcluded, NEW c \in Caller, NEW p, Excluded(rules, p, FALSE)
      PROVE  p \notin AskedOf(c)
  <2>1. GoodPush(push[c])
    BY <1>1 DEF BothHold, BothInv, PushInv
  <2>2. CASE push[c].at # "none"
    <3>1. PICK r \in Requests : r.files = push[c].asked /\ r.dest = push[c].dest
      BY <2>1, <2>2 DEF GoodPush
    <3>2. \A f \in push[c].asked : ~Excluded(rules, Target(push[c].dest, f), FALSE)
      BY <1>1, <3>1, Zenon DEF NoneExcluded
    <3> QED
      BY <1>1, <3>2, Zenon DEF AskedOf
  <2> QED
    BY <2>2 DEF AskedOf
<1>2. BothHold /\ NoneExcluded /\
      [\A c \in Caller, p \in Visible :
         Moves(c) /\ IsFile(fs[p]) /\ Excluded(rules, p, FALSE) /\ p \notin AskedOf(c)
         => fs'[p] = fs[p]]_vars
      => [\A c \in Caller, p \in Visible :
            Moves(c) /\ IsFile(fs[p]) /\ Excluded(rules, p, FALSE) => fs'[p] = fs[p]]_vars
  BY <1>1
<1> QED
  BY <1>2, OnlyAskedIsTouched, BothHoldAlways, PTL DEF ExcludedFilesUntouched

-----------------------------------------------------------------------------
(***************************************************************************)
(* Where push puts a file.  The check of its directory holds until the     *)
(* file is in place: calls make no links.                                  *)
(***************************************************************************)
StaysInside(c) == Pushing(c, "upload") => ~LeadsOut(fs, Where(c))
StayInv == budget.intrusions = MaxIntrusions => \A c \in Caller : StaysInside(c)

LEMMA ParentInside ==
  ASSUME NEW p \in Entry, ResolvesInside(Parent(p))
  PROVE  ~LeadsOut(fs, p)
<1> SUFFICES ASSUME NEW a \in Path, Under(p, a), fs[a] = Link
             PROVE  FALSE
  BY DEF LeadsOut
<1>1. a # Parent(p)
  BY DEF ResolvesInside
<1>2. Under(Parent(p), a)
  BY <1>1, UnderParent DEF Entry
<1> QED
  BY <1>2 DEF ResolvesInside, LeadsOut

\* A push that has a file to put somewhere has just checked where, or had it before.
LEMMA PushStepChecks ==
  ASSUME BothInv, NEW c \in Caller, PushStep(c), Pushing(c, "upload")'
  PROVE  \/ Pushing(c, "upload") /\ Where(c)' = Where(c)
         \/ fs' = fs /\ ~LeadsOut(fs, Where(c)')
<1>1. push \in [Caller -> PushRecord] /\ push'[c].at = "upload"
  BY DEF BothInv, PushInv, Pushing
<1>2. ASSUME NEW stage, PushGoto(c, stage) PROVE stage = "upload" /\ Where(c)' = Where(c)
  BY <1>1, <1>2, PushGoes
<1>3. CASE ResolveDir(c)
  <2>1. /\ fs' = fs
        /\ ResolvesInside(Parent(Where(c))) \/ PushFails(c)
        /\ push[c].at = "resolve"
    BY <1>3 DEF ResolveDir, Ask, Request, Pushing
  <2>2. ResolvesInside(Parent(Where(c))) /\ PushGoto(c, "upload")
    BY <1>2, <1>3, <2>1 DEF ResolveDir, PushFails
  <2>3. Where(c) \in Entry
    BY <2>1, InHandIsAsked DEF BothInv, Working, Visible
  <2> QED
    BY <1>2, <2>1, <2>2, <2>3, ParentInside
<1>4. CASE PushFile(c)
  <2>1. UNCHANGED push
    BY <1>2, <1>4 DEF PushFile, PushFails, pushVars
  <2> QED
    BY <1>4, <2>1 DEF PushFile, Where
<1>5. CASE NextFile(c)
  BY <1>1, <1>5, NextFileDoes, TakenFields
<1>6. CASE PushBase(c) \/ MakeDirs(c) \/ PushReturns(c)
  <2>1. UNCHANGED push
    BY <1>2, <1>6 DEF PushBase, MakeDirs, PushReturns, PushFails, pushVars
  <2> QED
    BY <1>1, <1>6, <2>1 DEF PushBase, MakeDirs, PushReturns, Pushing
<1> QED
  BY <1>3, <1>4, <1>5, <1>6 DEF PushStep

LEMMA BothKeepStay == BothHold /\ StayInv /\ [BothNext]_allVars => StayInv'
<1> SUFFICES ASSUME BothHold, StayInv, [BothNext]_allVars,
                    budget'.intrusions = MaxIntrusions, NEW c \in Caller,
                    Pushing(c, "upload")'
             PROVE  ~LeadsOut(fs, Where(c))'
  BY DEF StayInv, StaysInside
<1>1. /\ BothInv /\ TypeInv /\ budget \in Budget /\ MaxIntrusions \in Nat /\ PathsInv
      /\ push \in [Caller -> PushRecord]
  BY InitAssumption DEF BothHold, BothInv, TypeInv, TypeOK, PushInv, TreesInv
<1>2. ~ChangeRemote /\ budget.intrusions = MaxIntrusions
  <2>1. ~ChangeRemote
    BY <1>1 DEF ChangeRemote, Budget
  <2>2. ASSUME NEW d \in Caller, PushStep(d) PROVE UNCHANGED budget
    BY <2>2
    DEF PushStep, PushBase, StatBase, MakeBase, ResolveBase, NextFile, MakeDirs,
        ResolveDir, PushFile, PushReturns, env
  <2>3. ASSUME NEW d \in Caller, CallStep(d) PROVE UNCHANGED budget
    BY <2>3
    DEF CallStep, StatBase, MakeBase, ResolveBase, List, Plan, PlanFails, NextEntry,
        MakeParents, UploadEntry, CheckDelete, RemoveEntry, env
  <2>4. ASSUME NEW d \in Caller, NEW dry \in BOOLEAN, Begin(d, dry) PROVE UNCHANGED budget
    BY <2>4 DEF Begin, env
  <2>5. ASSUME (\E d \in Caller : Crash(d)) \/ EditLocal \/ Tick \/ UNCHANGED vars
        PROVE  budget'.intrusions = budget.intrusions
    BY <1>1, <2>5 DEF Crash, EditLocal, Tick, vars, Budget
  <2> QED
    BY <2>1, <2>2, <2>3, <2>4, <2>5, BothSteps, BothBegin
<1>3. ASSUME MakesNoLink, Pushing(c, "upload"), Where(c)' = Where(c)
      PROVE  ~LeadsOut(fs, Where(c))'
  <2>1. ~LeadsOut(fs, Where(c))
    BY <1>2, <1>3 DEF StayInv, StaysInside
  <2> QED
    BY <1>3, <2>1, LinksStayAway DEF LeadsOut
<1>4. ASSUME NEW d \in Caller, PushStep(d) PROVE ~LeadsOut(fs, Where(c))'
  <2>1. MakesNoLink
    BY <1>1, <1>4, PushStepKeepsReach DEF BothHold
  <2>2. CASE c # d
    BY <1>1, <1>3, <1>4, <2>1, <2>2, PushStepOfOne DEF Alone, Others, Pushing, Where
  <2>3. CASE c = d
    BY <1>1, <1>3, <1>4, <2>1, <2>3, PushStepChecks DEF LeadsOut
  <2> QED
    BY <2>2, <2>3
<1>5. ASSUME NEW d \in Caller, push[d].at = "none", CallStep(d), UNCHANGED pushVars
      PROVE  ~LeadsOut(fs, Where(c))'
  <2>1. MakesNoLink
    BY <1>1, <1>5, CallStepWrites, WritesPlainly DEF PathsInv, MkdirOffTemps
  <2>2. c # d
    BY <1>5 DEF pushVars, Pushing
  <2> QED
    BY <1>1, <1>3, <1>5, <2>1, <2>2, CallStepOfOne DEF Others, Pushing, Where, pushVars
<1>6. ASSUME NEW d \in Caller, Crash(d), UNCHANGED pushVars
      PROVE  ~LeadsOut(fs, Where(c))'
  <2>1. fs' = fs /\ Others(d) /\ call'[d].phase \notin Active
    BY <1>1, <1>6, BeginAndCrashOfOne
    DEF Crash, session, Idle, Active, Planning, TypeInv, TypeOK
  <2> QED
    BY <1>3, <1>6, <2>1 DEF Others, Pushing, Where, pushVars, MakesNoLink
<1>7. ASSUME NEW d \in Caller, \/ \E r \in Requests : BeginPush(d, r)
                               \/ \E dry \in DryRuns : BeginSync(d, dry)
      PROVE  ~LeadsOut(fs, Where(c))'
  <2>1. fs' = fs /\ Others(d)
    BY <1>1, <1>7, BothBegin, BeginAndCrashOfOne DEF Begin
  <2>2. push'[d].at \in {"base", "none"} /\ \A e \in Caller \ {d} : push'[e] = push[e]
    <3>1. CASE \E r \in Requests : BeginPush(d, r)
      <4>1. PICK r \in Requests : BeginPush(d, r)
        BY <3>1
      <4>2. /\ push'[d] = [NoPush EXCEPT !.at = "base", !.asked = r.files,
                                         !.left = r.files, !.dest = r.dest]
            /\ \A e \in Caller \ {d} : push'[e] = push[e]
        BY <1>1, <4>1 DEF BeginPush
      <4> QED
        BY <4>2 DEF NoPush
    <3>2. CASE \E dry \in DryRuns : BeginSync(d, dry)
      <4>1. push'[d] = NoPush /\ \A e \in Caller \ {d} : push'[e] = push[e]
        BY <1>1, <3>2 DEF BeginSync
      <4> QED
        BY <4>1 DEF NoPush
    <3> QED
      BY <1>7, <3>1, <3>2
  <2> QED
    BY <1>3, <2>1, <2>2 DEF Others, Pushing, Where, MakesNoLink
<1>8. CASE (EditLocal \/ Tick \/ UNCHANGED vars) /\ UNCHANGED pushVars
  <2>1. UNCHANGED <<fs, call, push>>
    BY <1>8 DEF EditLocal, Tick, vars, own, session, pushVars
  <2> QED
    BY <1>3, <2>1 DEF Pushing, Where, MakesNoLink
<1> QED
  BY <1>2, <1>4, <1>5, <1>6, <1>7, <1>8, BothSteps

\* While nobody plants links, no file is pushed through one (PushStaysInside):
\* neither calls of sync nor other pushes undo what RealPath said of its directory.
THEOREM PushesStayInside == BothSpec => []PushStaysInside
<1>1. PushInit => StayInv
  BY DEF PushInit, NoPush, StayInv, StaysInside, Pushing
<1>2. BothHold /\ StayInv => PushStaysInside
  <2> SUFFICES ASSUME BothHold, StayInv, budget.intrusions = MaxIntrusions,
                      NEW c \in Caller, Busy(c), push[c].at = "upload"
               PROVE  ~LeadsOut(fs, up[c].dst)
    BY DEF PushStaysInside
  <2>1. Aims(c)
    BY DEF BothHold, AllAtWork, AtWork
  <2>2. call[c].phase = "list" /\ up[c].dst = Where(c)
    BY <2>1 DEF Aims
  <2> QED
    BY <2>2 DEF StayInv, StaysInside, Pushing, Active, Planning
<1> QED
  BY <1>1, <1>2, BothKeepStay, BothHoldAlways, PTL DEF BothSpec

-----------------------------------------------------------------------------
(***************************************************************************)
(* Temporary files, with pushes.                                           *)
(***************************************************************************)
LEMMA PushStepTidy ==
  ASSUME BothHold, Tidy, Connected, NEW c \in Caller, PushStep(c), faults' = 0
  PROVE  faults = 0 => Tidy' /\ Connected'
<1> HAVE faults = 0
<1>1. /\ TypeInv /\ TreesInv /\ OffTemps(c) /\ SessionTypeOK /\ BothInv
  BY DEF BothHold, TreesInv, PathsInv, MkdirOffTemps, TypeInv, TypeOK, UploadTypeOK
<1>2. Aims(c)
  BY DEF BothHold, AllAtWork, AtWork, PushStep, PushBase, NextFile, MakeDirs,
     ResolveDir, PushFile, PushReturns, Pushing
<1>3. CASE PushBase(c)
  <2>1. CallStep(c) /\ push[c].at = "base"
    BY <1>3 DEF PushBase, CallStep, Pushing
  <2>2. Aim(c)
    BY <1>2, <2>1 DEF Aims, Aim
  <2> QED
    BY <1>1, <2>1, <2>2, CallStepTidy DEF BothHold
<1>5. CASE NextFile(c)
  <2>1. UNCHANGED <<conn, fs>>
    BY <1>5 DEF NextFile, session
  <2>2. ~Busy(c)
    BY <1>2, <1>5 DEF NextFile, Pushing, Aims
  <2>3. UNCHANGED up \/ up' = [up EXCEPT ![c] = NotStarted]
    BY <1>5, NextFileDoes
  <2> QED
    BY <1>1, <2>1, <2>2, <2>3, QuietTidy
<1>6. CASE MakeDirs(c)
  <2>1. MkdirStep(c) /\ UNCHANGED up
    BY <1>6 DEF MakeDirs
  <2> QED
    BY <1>1, <2>1, MkdirTidy
<1>7. CASE ResolveDir(c)
  <2>1. /\ \E ok \in BOOLEAN : \E able : Ask(c, ok, able)
        /\ UNCHANGED up
    BY <1>7 DEF ResolveDir, own
  <2>2. UNCHANGED conn /\ fs' = fs
    BY <1>1, <2>1, CalmAsk DEF Ask, Request
  <2> QED
    BY <1>1, <2>1, <2>2, QuietTidy
<1>8. CASE PushFile(c)
  <2>1. push[c].cur \in Visible /\ Where(c) \in Visible
    BY <1>1, <1>8, InHandIsAsked DEF PushFile, Pushing, Working, BothInv
  <2>2. CASE UploadStart(c, push[c].cur, Where(c))
    BY <1>1, <2>1, <2>2, UploadStartTidy
  <2>3. CASE UploadStep(c)
    BY <1>1, <2>3, UploadStepTidy
  <2> QED
    BY <1>8, <2>2, <2>3 DEF PushFile
<1>9. CASE PushReturns(c)
  <2>1. UNCHANGED <<conn, fs, up>>
    BY <1>9 DEF PushReturns, session
  <2> QED
    BY <1>1, <2>1, QuietTidy
<1> QED
  BY <1>3, <1>5, <1>6, <1>7, <1>8, <1>9 DEF PushStep

LEMMA PushStepCalm ==
  ASSUME SessionTypeOK, NEW c \in Caller, PushStep(c)
  PROVE  (faults' = 0 => faults = 0) /\ UNCHANGED budget
<1>1. CASE PushBase(c)
  BY <1>1, CallStepCalm DEF PushBase, CallStep, StatBase, MakeBase, ResolveBase, env
<1>3. CASE NextFile(c) \/ PushReturns(c)
  BY <1>3 DEF NextFile, PushReturns, session, env
<1>4. CASE ResolveDir(c)
  BY <1>4, FaultsStay DEF ResolveDir, env
<1>5. CASE MakeDirs(c)
  BY <1>5, FaultsStay
  DEF MakeDirs, MkdirStep, MkdirStat, MkdirMake, MkdirChmod, MkdirRecheck
<1>6. CASE PushFile(c)
  BY <1>6, FaultsStay
  DEF PushFile, UploadStart, UploadStep, WriteTemp, PosixRename, PlainRename, RenameBy,
      ClearDestination, RenameAgain, Cleanup
<1> QED
  BY <1>1, <1>3, <1>4, <1>5, <1>6 DEF PushStep

LEMMA BothKeepLitter == BothHold /\ LitterInv /\ [BothNext]_allVars => LitterInv'
<1> SUFFICES ASSUME BothHold, LitterInv, [BothNext]_allVars, Undisturbed'
             PROVE  Tidy' /\ Connected'
  BY DEF LitterInv
<1>1. /\ TypeInv /\ TreesInv /\ faults \in Nat /\ budget \in Budget /\ MaxCrashes \in Nat
      /\ SessionTypeOK /\ faults' = 0 /\ budget'.crashes = MaxCrashes
  BY InitAssumption, MaxFaultsAssumption
  DEF BothHold, BothInv, TypeInv, TypeOK, UploadTypeOK, SessionTypeOK, Undisturbed
<1>2. ASSUME faults = 0, budget'.crashes = budget.crashes PROVE Tidy /\ Connected
  BY <1>1, <1>2 DEF LitterInv, Undisturbed
<1>3. ASSUME NEW c \in Caller, PushStep(c) PROVE Tidy' /\ Connected'
  <2>1. faults = 0 /\ UNCHANGED budget
    BY <1>1, <1>3, PushStepCalm
  <2> QED
    BY <1>1, <1>2, <1>3, <2>1, PushStepTidy
<1>4. ASSUME NEW c \in Caller, push[c].at = "none", CallStep(c) PROVE Tidy' /\ Connected'
  <2>1. UNCHANGED budget
    BY <1>4 DEF CallStep, StatBase, MakeBase, ResolveBase, List, Plan, PlanFails, NextEntry,
       MakeParents, UploadEntry, CheckDelete, RemoveEntry, env
  <2>2. faults = 0
    BY <1>1, <1>4, CallStepCalm
  <2>3. Aim(c)
    BY <1>4 DEF BothHold, AllAtWork, AtWork, Ready
  <2> QED
    BY <1>1, <1>2, <1>4, <2>1, <2>2, <2>3, CallStepTidy
<1>5. ASSUME NEW c \in Caller, NEW dry \in BOOLEAN, Begin(c, dry) PROVE Tidy' /\ Connected'
  <2>1. UNCHANGED <<faults, budget>>
    BY <1>5 DEF Begin, env
  <2>2. ~Busy(c)
    BY <1>5 DEF BothHold, AllAtWork, AtWork, Ready, Aims, Aim, Begin, Ended
  <2> QED
    BY <1>1, <1>2, <1>5, <2>1, <2>2, BeginTidy
<1>6. ASSUME NEW c \in Caller, Crash(c) PROVE FALSE
  BY <1>1, <1>6 DEF Crash, Budget
<1>7. CASE ChangeRemote
  <2>1. UNCHANGED <<faults, conn, up>> /\ budget'.crashes = budget.crashes
    BY <1>1, <1>7 DEF ChangeRemote, own, Budget
  <2>2. Connected'  <=> Connected
    BY <2>1 DEF Connected, Busy
  <2> QED
    BY <1>1, <1>2, <1>7, <2>1, <2>2, ChangeTidy
<1>8. CASE EditLocal \/ Tick \/ UNCHANGED vars
  <2>1. UNCHANGED <<fs, faults, conn, up>> /\ budget'.crashes = budget.crashes
    BY <1>1, <1>8 DEF EditLocal, Tick, vars, own, session, Budget
  <2> QED
    BY <1>1, <1>2, <2>1 DEF Tidy, Connected, InUse, Busy
<1> QED
  BY <1>3, <1>4, <1>5, <1>6, <1>7, <1>8, BothSteps, BothBegin

\* No temporary file is left behind by either tool, where no request fails and no
\* call dies (NoLitter).
THEOREM NeitherLeavesLitter == BothSpec => []NoLitter
<1>1. PushInit => LitterInv
  BY InitAssumption DEF PushInit, Init, LitterInv, Tidy, Connected, Busy, NotStarted, Stages
<1>2. LitterInv => NoLitter
  BY DEF LitterInv, Undisturbed, Tidy, NoLitter
<1> QED
  BY <1>1, <1>2, BothKeepLitter, BothHoldAlways, PTL DEF BothSpec

-----------------------------------------------------------------------------
(***************************************************************************)
(* Races for a directory.  Without a fault a call that has begun keeps its *)
(* connection, so what MkdirAll learns of a directory is so.               *)
(***************************************************************************)
JoinedTo(c) == conn[c] \/ call[c].phase = "idle"
JoinedInv == faults = 0 => \A c \in Caller : JoinedTo(c)

LEMMA CalmMeans ==
  ASSUME SessionTypeOK, faults' = 0, NEW c \in Caller, NEW ok \in BOOLEAN, NEW p, NEW able,
         NEW new,
         Ask(c, ok, able) \/ Request(c, ok, able, new) \/ RequestAt(c, ok, p, able, new)
  PROVE  faults = 0 /\ UNCHANGED conn
BY CalmRequest, CalmRequestAt, CalmAsk

LEMMA CalmKeepsConnections ==
  ASSUME SessionTypeOK, faults' = 0, NEW c \in Caller, CallStep(c) \/ PushStep(c)
  PROVE  faults = 0 /\ UNCHANGED conn
<1>1. faults \in Nat
  BY MaxFaultsAssumption DEF SessionTypeOK
<1>2. ASSUME MkdirStep(c) PROVE faults = 0 /\ UNCHANGED conn
  <2>1. \E ok \in BOOLEAN : \E able, p, new :
          Ask(c, ok, able) \/ RequestAt(c, ok, p, able, new)
    BY <1>2 DEF MkdirStep, MkdirStat, MkdirMake, MkdirChmod, MkdirRecheck
  <2> QED
    BY <2>1, CalmMeans
<1>3. ASSUME NEW src, NEW dst, UploadStart(c, src, dst) \/ UploadStep(c)
      PROVE  faults = 0 /\ UNCHANGED conn
  <2>1. \/ UNCHANGED <<faults, conn>>
        \/ \E ok \in BOOLEAN : \E able, p, new :
             Request(c, ok, able, new) \/ RequestAt(c, ok, p, able, new)
    BY <1>3 DEF UploadStart, UploadStep, WriteTemp, PosixRename, PlainRename,
       ClearDestination, RenameAgain, RenameBy, Cleanup
  <2> QED
    BY <2>1, CalmMeans
<1>4. CASE StatBase(c) \/ ResolveBase(c) \/ List(c) \/ CheckDelete(c) \/ RemoveEntry(c)
           \/ ResolveDir(c)
  <2>1. \E ok \in BOOLEAN : \E able, p, new :
          Ask(c, ok, able) \/ RequestAt(c, ok, p, able, new)
    BY <1>4 DEF StatBase, ResolveBase, List, CheckDelete, RemoveEntry, ResolveDir
  <2> QED
    BY <2>1, CalmMeans
<1>5. CASE Plan(c) \/ PlanFails(c) \/ NextEntry(c) \/ NextFile(c) \/ PushReturns(c)
  <2>1. UNCHANGED conn /\ (faults' = faults \/ faults' = faults + 1)
    BY <1>5 DEF Plan, PlanFails, NextEntry, NextFile, PushReturns, session
  <2> QED
    BY <1>1, <2>1
<1>6. CASE MakeBase(c) \/ MakeParents(c) \/ MakeDirs(c)
  BY <1>2, <1>6 DEF MakeBase, MakeParents, MakeDirs
<1>7. CASE UploadEntry(c) \/ PushFile(c)
  BY <1>3, <1>7 DEF UploadEntry, PushFile
<1> QED
  BY <1>4, <1>5, <1>6, <1>7 DEF CallStep, PushStep, PushBase

LEMMA StepsAreOfCalls ==
  ASSUME NEW c \in Caller, CallStep(c) \/ PushStep(c)
  PROVE  call[c].phase # "idle"
BY DEF CallStep, StatBase, MakeBase, ResolveBase, List, Plan, PlanFails, NextEntry, MakeParents,
   UploadEntry, CheckDelete, RemoveEntry, PushStep, PushBase, NextFile, MakeDirs, ResolveDir,
   PushFile, PushReturns, Pushing, Active, Planning

LEMMA BothKeepJoined == BothHold /\ JoinedInv /\ [BothNext]_allVars => JoinedInv'
<1> SUFFICES ASSUME BothHold, JoinedInv, [BothNext]_allVars, faults' = 0, NEW d \in Caller
             PROVE  JoinedTo(d)'
  BY DEF JoinedInv
<1>1. TypeInv /\ BothInv /\ SessionTypeOK /\ conn \in [Caller -> BOOLEAN]
  BY DEF BothHold, BothInv, TypeInv, TypeOK, UploadTypeOK, SessionTypeOK
<1>2. ASSUME NEW c \in Caller, Others(c), CallStep(c) \/ PushStep(c) PROVE JoinedTo(d)'
  <2>1. faults = 0 /\ UNCHANGED conn /\ call[c].phase # "idle"
    BY <1>1, <1>2, CalmKeepsConnections, StepsAreOfCalls
  <2> QED
    BY <1>2, <2>1 DEF JoinedInv, JoinedTo, Others
<1>3. ASSUME NEW c \in Caller, PushStep(c) PROVE JoinedTo(d)'
  BY <1>1, <1>2, <1>3, PushStepOfOne DEF Alone
<1>4. ASSUME NEW c \in Caller, CallStep(c) PROVE JoinedTo(d)'
  BY <1>1, <1>2, <1>4, CallStepOfOne
<1>5. ASSUME NEW c \in Caller, Crash(c) \/ \E dry \in BOOLEAN : Begin(c, dry)
      PROVE  JoinedTo(d)'
  <2>1. /\ UNCHANGED faults /\ Others(c)
        /\ conn'[d] = conn[d] \/ conn'[d] = TRUE
        /\ call[c].phase # "idle" \/ conn'[c] = TRUE
    BY <1>1, <1>5, BeginAndCrashOfOne DEF Crash, Begin, session, Active, Planning
  <2> QED
    BY <2>1 DEF JoinedInv, JoinedTo, Others
<1>6. CASE Environment \/ UNCHANGED vars
  <2>1. UNCHANGED <<faults, conn, call>>
    BY <1>6 DEF Environment, EditLocal, ChangeRemote, Tick, vars, own, session
  <2> QED
    BY <2>1 DEF JoinedInv, JoinedTo
<1> QED
  BY <1>3, <1>4, <1>5, <1>6, BothSteps, BothBegin, AroundTheCalls

\* MkdirAll gives up on a directory that is there only for a fault.
LEMMA GivesUpForAReason ==
  ASSUME SessionTypeOK, MkdirTypeOK, NEW c \in Caller, conn[c], MkdirStep(c),
         mk'[c].at = "failed", faults' = 0, ~LeadsOut(fs, mk[c].dir)
  PROVE  fs[mk[c].dir] # Dir
<1> DEFINE m == mk[c]
<1> SUFFICES ASSUME fs[m.dir] = Dir PROVE FALSE
  OBVIOUS
<1>1. Looks(m.dir) = {"dir"} /\ fs[m.dir] # Absent
  <2>1. fs[m.dir] # Link /\ fs[m.dir] # Absent /\ ~IsFile(fs[m.dir])
    BY DEF Dir, Link, Absent, IsFile
  <2> QED
    BY <2>1 DEF Looks
<1>2. DOMAIN mk = Caller /\ mk[c] \in MkdirRecord
  BY DEF MkdirTypeOK
<1>3. ASSUME NEW ok \in BOOLEAN, Ask(c, ok, TRUE) PROVE ok
  BY <1>3, CalmRequest DEF Ask
<1>4. MkdirFailed # MkdirDone /\ Above(m.dir, m.target).at # "failed"
      /\ Below(m.dir, m.target).at # "failed"
  BY DEF MkdirFailed, MkdirDone, Above, Below, MkdirAt
<1>5. CASE MkdirStat(c)
  <2>1. PICK ok \in BOOLEAN :
          /\ Ask(c, ok, TRUE)
          /\ mk' = [mk EXCEPT ![c] = IF ~ok THEN Above(m.dir, m.target)
                                     ELSE Below(m.dir, m.target)]
    BY <1>1, <1>5 DEF MkdirStat
  <2> QED
    BY <1>2, <1>4, <2>1
<1>6. CASE MkdirMake(c)
  <2>1. mk[c].at = "mkdir" /\ \E s \in {"chmod", "recheck"} : mk' = [mk EXCEPT ![c].at = s]
    BY <1>6 DEF MkdirMake
  <2>2. mk[c] = MkdirAt("mkdir", mk[c].dir, mk[c].target)
    BY <2>1, MkdirFields DEF MkdirStages
  <2> QED
    BY <1>2, <2>1, <2>2 DEF MkdirAt
<1>7. CASE MkdirChmod(c)
  <2>1. PICK ok \in BOOLEAN :
          /\ Request(c, ok, TRUE, fs)
          /\ mk' = [mk EXCEPT ![c] = IF ok THEN Below(m.dir, m.target) ELSE MkdirFailed]
    BY <1>1, <1>7 DEF MkdirChmod, RequestAt
  <2>2. ok
    BY <2>1, CalmRequest
  <2> QED
    BY <1>2, <1>4, <2>1, <2>2
<1>8. CASE MkdirRecheck(c)
  <2>1. PICK ok \in BOOLEAN :
          /\ Ask(c, ok, TRUE)
          /\ mk' = [mk EXCEPT ![c] = IF ok THEN Below(m.dir, m.target) ELSE MkdirFailed]
    BY <1>1, <1>8 DEF MkdirRecheck
  <2>2. ok
    BY <1>3, <2>1
  <2> QED
    BY <1>2, <1>4, <2>1, <2>2
<1> QED
  BY <1>5, <1>6, <1>7, <1>8 DEF MkdirStep

LEMMA OnlyMkdirGivesUp ==
  ASSUME BothHold, [BothNext]_allVars, NEW c \in Caller,
         mk[c].at \in MkdirStages, mk'[c].at = "failed"
  PROVE  MkdirStep(c) /\ (CallStep(c) \/ PushStep(c))
<1>1. TypeInv /\ BothInv /\ DOMAIN mk = Caller
  BY DEF BothHold, BothInv, TypeInv, TypeOK, MkdirTypeOK
<1>2. ASSUME UNCHANGED mk \/ mk'[c] = mk[c] PROVE FALSE
  BY <1>2 DEF MkdirStages
<1>3. ASSUME NEW d, NEW e, NEW f \in Caller,
             mk' = [mk EXCEPT ![f] = MkdirAt("stat", d, e)] \/ mk' = [mk EXCEPT ![f] = MkdirIdle]
      PROVE  FALSE
  BY <1>1, <1>2, <1>3 DEF MkdirAt, MkdirIdle
<1>4. ASSUME NEW d \in Caller, CallStep(d) PROVE d = c /\ MkdirStep(c)
  <2>1. d = c
    BY <1>1, <1>2, <1>4, CallStepOfOne DEF Others
  <2>2. ~StatBase(c) /\ ~NextEntry(c)
    <3>1. ASSUME NEW p, mk' = [mk EXCEPT ![c] = MkdirAt("stat", Parent(p), Parent(p))]
          PROVE  FALSE
      BY <1>3, <3>1
    <3>2. ~StatBase(c)
      BY <1>2, <1>3 DEF StatBase
    <3>3. ~NextEntry(c)
      BY <1>2, <3>1 DEF NextEntry
    <3> QED
      BY <3>2, <3>3
  <2>3. MakeBase(c) \/ MakeParents(c)
    BY <1>2, <1>4, <2>1, <2>2 DEF CallStep, ResolveBase, List, Plan, PlanFails, UploadEntry,
       CheckDelete, RemoveEntry
  <2> QED
    BY <2>1, <2>3 DEF MakeBase, MakeParents
<1>5. ASSUME NEW d \in Caller, PushStep(d) PROVE d = c /\ MkdirStep(c)
  <2>1. d = c
    BY <1>1, <1>2, <1>5, PushStepOfOne DEF Alone, Others
  <2>2. ~StatBase(c)
    BY <1>2, <1>3 DEF StatBase
  <2>3. ~NextFile(c)
    <3>1. ASSUME NEW p, mk' = [mk EXCEPT ![c] = MkdirAt("stat", Parent(Target(push[c].dest, p)),
                                                 Parent(Target(push[c].dest, p)))]
          PROVE  FALSE
      BY <1>3, <3>1
    <3> QED
      BY <1>2, <3>1 DEF NextFile
  <2>4. ~ResolveBase(c) /\ ~ResolveDir(c) /\ ~PushFile(c) /\ ~PushReturns(c)
    BY <1>2 DEF ResolveBase, ResolveDir, PushFile, PushReturns, own
  <2>5. MakeBase(c) \/ MakeDirs(c)
    BY <1>5, <2>1, <2>2, <2>3, <2>4 DEF PushStep, PushBase
  <2> QED
    BY <2>1, <2>5 DEF MakeBase, MakeDirs
<1>6. ASSUME NEW d \in Caller, Crash(d) \/ \E dry \in BOOLEAN : Begin(d, dry) PROVE FALSE
  BY <1>3, <1>6 DEF Crash, Begin
<1>7. ASSUME ChangeRemote \/ EditLocal \/ Tick \/ UNCHANGED vars PROVE FALSE
  BY <1>2, <1>7 DEF EditLocal, ChangeRemote, Tick, vars, own
<1> QED
  BY <1>4, <1>5, <1>6, <1>7, BothSteps, BothBegin

\* Two calls that make the same directory at the same time do not fail for that,
\* whatever others do (LostRacesAreNoErrors): the one that comes second finds the
\* directory when it looks again.
THEOREM LostRacesAreHarmless == BothSpec => LostRacesAreNoErrors
<1>1. PushInit => JoinedInv
  BY DEF PushInit, Init, JoinedInv, JoinedTo, Idle
<1>2. ASSUME BothHold, JoinedInv, [BothNext]_allVars, NEW c \in Caller,
             mk[c].at \in MkdirStages, mk'[c].at = "failed", faults' = 0,
             ~LeadsOut(fs, mk[c].dir)
      PROVE  fs[mk[c].dir] # Dir
  <2>1. SessionTypeOK /\ MkdirTypeOK
    BY <1>2 DEF BothHold, BothInv, TypeInv, TypeOK, UploadTypeOK
  <2>2. MkdirStep(c) /\ (CallStep(c) \/ PushStep(c))
    BY <1>2, OnlyMkdirGivesUp
  <2>3. faults = 0 /\ call[c].phase # "idle"
    BY <1>2, <2>1, <2>2, CalmKeepsConnections, StepsAreOfCalls
  <2>4. conn[c]
    BY <1>2, <2>3 DEF JoinedInv, JoinedTo
  <2> QED
    BY <1>2, <2>1, <2>2, <2>4, GivesUpForAReason
<1>3. BothHold /\ JoinedInv /\ [BothNext]_allVars =>
        [\A c \in Caller :
           /\ mk[c].at \in MkdirStages /\ mk'[c].at = "failed"
           /\ faults' = 0 /\ ~LeadsOut(fs, mk[c].dir)
           => fs[mk[c].dir] # Dir]_allVars
  BY <1>2
<1> QED
  BY <1>1, <1>3, BothKeepJoined, BothHoldAlways, PTL DEF BothSpec, LostRacesAreNoErrors

-----------------------------------------------------------------------------
(***************************************************************************)
(* The promise of both tools.  The job of a push, stage by stage.          *)
(***************************************************************************)
LEMMA BothPromiseTree ==
  /\ BothPromise!Base = Base /\ BothPromise!Entry = Entry
  /\ BothPromise!Absent = Absent /\ BothPromise!Dir = Dir /\ BothPromise!Link = Link
  /\ BothPromise!NoJob = Jobless
  /\ \A p, q : BothPromise!Under(p, q) = Under(p, q)
  /\ \A n : BothPromise!IsFile(n) = IsFile(n)
  /\ \A t, p : /\ BothPromise!CanCreate(t, p) = CanCreate(t, p)
               /\ BothPromise!LeadsOut(t, p) = LeadsOut(t, p)
               /\ BothPromise!Without(t, p) = Without(t, p)
  /\ \A j : BothPromise!Todo(j) = Open(j)
BY DEF BothPromise!Base, Base, BothPromise!Entry, Entry, BothPromise!Absent, Absent, BothPromise!Dir,
       Dir, BothPromise!Link, Link, BothPromise!NoJob, Jobless, Fresh, JobRec, No, BothPromise!Under, Under,
       BothPromise!IsFile, IsFile, BothPromise!CanCreate, CanCreate, BothPromise!Parent, Parent,
       BothPromise!LeadsOut, LeadsOut, BothPromise!Without, Without, BothPromise!Todo, Open

LEMMA BothBridgeTurns ==
  ASSUME NEW c \in Caller, Shown' = Shown, Turns(TheJob(c), TheJob(c)'),
         \A d \in Caller \ {c} : TheJob(d)' = TheJob(d)
  PROVE  BothPromise!TransferNext
<1> DEFINE j == TheJob(c)
           j2 == TheJob(c)'
<1>1. /\ BothJobs[c] = j /\ BothJobs' = [BothJobs EXCEPT ![c] = j2] /\ BothJobs'[c] = j2
  BY DEF BothJobs
<1>2. CASE j.state \in {"idle", "done", "broken"} 
     /\ \E dry \in BOOLEAN : j2 = Opened(dry)
  <2>1. BothPromise!Start(c)
    BY <1>1, <1>2, BothPromiseTree DEF BothPromise!Start, BothJobs, BothPromise!Replace, Opened
  <2> QED
    BY <2>1 DEF BothPromise!TransferNext
<1>3. CASE j.state = "open" /\ j.dry
     /\ j2 = Over(j)
  <2>1. BothPromise!Commit(c)
    BY <1>1, <1>3, BothPromiseTree DEF BothPromise!Commit, BothJobs, Over
  <2> QED
    BY <2>1 DEF BothPromise!TransferNext
<1>4. CASE j.state = "open" /\ ~j.dry
     /\ \E U \in SUBSET Entry : \E D \in SUBSET (Entry \ U) :
          j2 = Asked(U, D)
  <2>1. BothPromise!Commit(c)
    <3>1. j2.uploads \subseteq Entry /\ j2.deletes \subseteq Entry \ j2.uploads
      BY <1>4, AskedFields
    <3>2. j2 = Asked(j2.uploads, j2.deletes)
      BY <1>4, AskedFields
    <3> QED
    BY <1>1, <1>4, <3>1, <3>2, BothPromiseTree DEF BothPromise!Commit, BothJobs, BothPromise!Replace, Asked
  <2> QED
    BY <2>1 DEF BothPromise!TransferNext
<1>5. CASE j.state = "working" /\ Open(j) = {}
     /\ j2 = Over(j)
  <2>1. BothPromise!Finish(c)
    BY <1>1, <1>5, BothPromiseTree DEF BothPromise!Finish, BothJobs, Over
  <2> QED
    BY <2>1 DEF BothPromise!TransferNext
<1>6. CASE j.state \in {"open", "working"}
     /\ j2 = Broken
  <2>1. BothPromise!Break(c)
    BY <1>1, <1>6, BothPromiseTree DEF BothPromise!Break, BothJobs, BothPromise!Replace, Broken
  <2> QED
    BY <2>1 DEF BothPromise!TransferNext
<1> QED
  BY <1>2, <1>3, <1>4, <1>5, <1>6 DEF Turns

LEMMA BothBridgeAnswers ==
  ASSUME NEW c \in Caller, NEW p \in Open(TheJob(c)),
         Answers(Shown, Shown', TheJob(c), TheJob(c)', p),
         \A d \in Caller \ {c} : TheJob(d)' = TheJob(d)
  PROVE  BothPromise!TransferNext
<1> DEFINE j == TheJob(c)
           j2 == TheJob(c)'
<1>1. BothJobs[c] = j /\ BothJobs' = [BothJobs EXCEPT ![c] = j2]
  BY DEF BothJobs
<1>2. p \in BothPromise!Todo(BothJobs[c])
  BY <1>1, BothPromiseTree
<1>3. ASSUME PutAt(Shown, Shown', p) PROVE BothPromise!Put(p)
  BY <1>3, BothPromiseTree DEF PutAt, BothPromise!Put
<1>4. ASSUME DropAt(Shown, Shown', p) PROVE BothPromise!Drop(p)
  BY <1>4, BothPromiseTree DEF DropAt, BothPromise!Drop
<1>5. CASE /\ PutAt(Shown, Shown', p) \/ (LeadsOut(Shown, p) /\ Shown' = Shown)
           /\ p \in j.uploads
           /\ j2 = Landing(j, p)
  <2>1. BothPromise!Land(c, p)
    BY <1>1, <1>3, <1>5, BothPromiseTree DEF BothPromise!Land, BothJobs, Landing
  <2> QED
    BY <1>2, <2>1 DEF BothPromise!TransferNext, BothJobs
<1>6. CASE /\ ~LeadsOut(Shown, p) /\ DropAt(Shown, Shown', p)
           /\ p \in j.deletes
           /\ j2 = Going(j, p)
  <2>1. BothPromise!Remove(c, p)
    BY <1>1, <1>4, <1>6, BothPromiseTree DEF BothPromise!Remove, BothJobs, Going
  <2> QED
    BY <1>2, <2>1 DEF BothPromise!TransferNext, BothJobs
<1>7. CASE /\ PutAt(Shown, Shown', p) \/ DropAt(Shown, Shown', p)
           /\ p \in j.uploads
           /\ j2 = j
  <2>1. BothJobs' = BothJobs
    BY <1>1, <1>7 DEF BothJobs
  <2>2. BothPromise!Unheard(c, p)
    BY <1>1, <1>3, <1>4, <1>7, <2>1, BothPromiseTree DEF BothPromise!Unheard, BothJobs
  <2> QED
    BY <1>2, <2>2 DEF BothPromise!TransferNext, BothJobs
<1>8. CASE /\ Shown' = Shown \/ (p \in j.deletes /\ DropAt(Shown, Shown', p))
           /\ j2 = Missing(j, p)
  <2>1. BothPromise!Miss(c, p)
    BY <1>1, <1>4, <1>8, BothPromiseTree DEF BothPromise!Miss, BothJobs, Missing
  <2> QED
    BY <1>2, <2>1 DEF BothPromise!TransferNext, BothJobs
<1> QED
  BY <1>5, <1>6, <1>7, <1>8 DEF Answers

LEMMA BothBridgeMakesDir ==
  ASSUME NEW c \in Caller, NEW d \in Path, MakesDir(Shown, Shown', TheJob(c), d),
         TheJob(c)' = TheJob(c), \A e \in Caller \ {c} : TheJob(e)' = TheJob(e)
  PROVE  BothPromise!TransferNext
<1>1. BothJobs[c] = TheJob(c) /\ BothJobs' = BothJobs
  BY DEF BothJobs
<1>2. BothPromise!MakeDir(c, d)
  BY <1>1, BothPromiseTree DEF MakesDir, BothPromise!MakeDir, BothJobs
<1> QED
  BY <1>2 DEF BothPromise!TransferNext

LEMMA BothBridge ==
  ASSUME NEW c \in Caller, Kept(Shown, Shown', TheJob(c), TheJob(c)'),
         \A d \in Caller \ {c} : TheJob(d)' = TheJob(d)
  PROVE  [BothPromise!TransferNext]_<<Shown, BothJobs>>
<1>1. CASE Shown' = Shown /\ TheJob(c)' = TheJob(c)
  <2>1. BothJobs' = BothJobs
    BY <1>1 DEF BothJobs
  <2> QED
    BY <1>1, <2>1
<1> QED
  BY <1>1, BothBridgeTurns, BothBridgeAnswers, BothBridgeMakesDir DEF Kept

HandedTo(q, S) == {Target(q.dest, p) : p \in S}
Handing(state, q, r) == JobRec(state, No, HandedTo(q, q.asked), {}, r.uploaded, {},
                              HandedTo(q, r.skipped \cup r.failed))
PushAlive(k, q) == q.at # "base" /\ StateOf(k.phase) \in {"open", "working", "done"}
PushState(k, q) == IF StateOf(k.phase) = "open" /\ PushAlive(k, q) THEN "working"
                   ELSE StateOf(k.phase)
PushJobOf(k, q, r) ==
  IF PushAlive(k, q) THEN Handing(PushState(k, q), q, r) ELSE Fresh(PushState(k, q), No)

LEMMA PushJobIsOf ==
  ASSUME NEW c \in Caller
  PROVE  /\ PushJob(c) = PushJobOf(call[c], push[c], pushed[c])
         /\ PushJob(c)' = PushJobOf(call'[c], push'[c], pushed'[c])
<1>1. PushJob(c) = PushJobOf(call[c], push[c], pushed[c])
  BY DEF PushJob, JobState, PushJobOf, PushAlive, PushState, StateOf, Handing, HandedTo,
     Fresh, JobRec, No
<1>2. PushJob(c)' = PushJobOf(call'[c], push'[c], pushed'[c])
  BY DEF PushJob, JobState, PushJobOf, PushAlive, PushState, StateOf, Handing, HandedTo,
     Fresh, JobRec, No
<1> QED
  BY <1>1, <1>2

LEMMA PushJobPhases ==
  ASSUME NEW k, NEW q, NEW r
  PROVE  LET j == PushJobOf(k, q, r)
         IN  /\ k.phase \in BasePhases /\ q.at = "base" => j = Fresh("open", No)
             /\ k.phase = "list" /\ q.at # "base" => j = Handing("working", q, r)
             /\ k.phase = "done" /\ q.at # "base" => j = Handing("done", q, r)
             /\ k.phase \in {"error", "crashed"} => j = Fresh("broken", No)
BY DEF PushJobOf, PushAlive, PushState, StateOf, BasePhases, Planning

LEMMA HandingFields ==
  ASSUME NEW state, NEW q, NEW r
  PROVE  LET j == Handing(state, q, r)
         IN  /\ j.state = state /\ j.uploads = HandedTo(q, q.asked) /\ j.dry = No
             /\ Open(j) = HandedTo(q, q.asked)
                            \ (r.uploaded \cup HandedTo(q, r.skipped \cup r.failed))
<1>1. PICK U : U = HandedTo(q, q.asked)
  OBVIOUS
<1>2. PICK M : M = HandedTo(q, r.skipped \cup r.failed)
  OBVIOUS
<1>3. PICK j : j = JobRec(state, No, U, {}, r.uploaded, {}, M)
  OBVIOUS
<1>4. /\ j.state = state /\ j.uploads = U /\ j.deletes = {} /\ j.landed = r.uploaded
      /\ j.gone = {} /\ j.missed = M /\ j.dry = No
  BY <1>3 DEF JobRec
<1>5. Open(j) = U \ (r.uploaded \cup M)
  BY <1>4 DEF Open
<1>6. j = Handing(state, q, r)
  BY <1>1, <1>2, <1>3 DEF Handing
<1> QED
  BY <1>1, <1>2, <1>4, <1>5, <1>6

\* r2 reports what r does, and landed and missed besides.
Adds(r, r2, landed, missed) ==
  /\ r2.uploaded = r.uploaded \cup landed
  /\ r2.skipped \cup r2.failed = r.skipped \cup r.failed \cup missed

LEMMA ReportsAdd ==
  ASSUME pushed \in [Caller -> PushedRecord], NEW c \in Caller, NEW p
  PROVE  /\ pushed' = [pushed EXCEPT ![c].uploaded = @ \cup {p}]
              => Adds(pushed[c], pushed'[c], {p}, {})
         /\ pushed' = [pushed EXCEPT ![c].skipped = @ \cup {p}]
              => Adds(pushed[c], pushed'[c], {}, {p})
         /\ pushed' = [pushed EXCEPT ![c].failed = @ \cup {p}]
              => Adds(pushed[c], pushed'[c], {}, {p})
BY DEF PushedRecord, Adds

\* What a push that goes on, reports a file or ends makes of its job.
LEMMA HandingGoes ==
  ASSUME NEW q, NEW q2, q2.asked = q.asked, q2.dest = q.dest, NEW r, NEW r2, NEW p
  PROVE  /\ r2 = r => Handing("working", q2, r2) = Handing("working", q, r)
         /\ Handing("done", q2, r) = Over(Handing("working", q, r))
         /\ Adds(r, r2, {Target(q.dest, p)}, {})
            => Handing("working", q2, r2)
                 = Landing(Handing("working", q, r), Target(q.dest, p))
         /\ Adds(r, r2, {}, {p})
            => Handing("working", q2, r2)
                 = Missing(Handing("working", q, r), Target(q.dest, p))
<1>1. \A S : HandedTo(q2, S) = HandedTo(q, S)
  BY DEF HandedTo
<1>2. HandedTo(q, r.skipped \cup r.failed \cup {p})
        = HandedTo(q, r.skipped \cup r.failed) \cup {Target(q.dest, p)}
  BY DEF HandedTo
<1>3. PICK j : j = Handing("working", q, r)
  OBVIOUS
<1>4. j = JobRec("working", No, HandedTo(q, q.asked), {}, r.uploaded, {},
                 HandedTo(q, r.skipped \cup r.failed))
  BY <1>3 DEF Handing
<1>5. Over(j) = JobRec("done", No, HandedTo(q, q.asked), {}, r.uploaded, {},
                       HandedTo(q, r.skipped \cup r.failed))
  BY <1>4 DEF Over, JobRec
<1>6. Landing(j, Target(q.dest, p))
        = JobRec("working", No, HandedTo(q, q.asked), {},
                 r.uploaded \cup {Target(q.dest, p)}, {},
                 HandedTo(q, r.skipped \cup r.failed))
  BY <1>4 DEF Landing, JobRec
<1>7. Missing(j, Target(q.dest, p))
        = JobRec("working", No, HandedTo(q, q.asked), {}, r.uploaded, {},
                 HandedTo(q, r.skipped \cup r.failed) \cup {Target(q.dest, p)})
  BY <1>4 DEF Missing, JobRec
<1>8. ASSUME NEW state, NEW r3
      PROVE  Handing(state, q2, r3) = JobRec(state, No, HandedTo(q, q.asked), {}, r3.uploaded, {},
                                             HandedTo(q, r3.skipped \cup r3.failed))
  BY <1>1 DEF Handing
<1>9. ASSUME r2 = r PROVE Handing("working", q2, r2) = j
  BY <1>4, <1>8, <1>9
<1>10. Handing("done", q2, r) = Over(j)
  BY <1>5, <1>8
<1>11. ASSUME Adds(r, r2, {Target(q.dest, p)}, {})
       PROVE  Handing("working", q2, r2) = Landing(j, Target(q.dest, p))
  <2>1. /\ r2.uploaded = r.uploaded \cup {Target(q.dest, p)}
        /\ r2.skipped \cup r2.failed = r.skipped \cup r.failed
    BY <1>11 DEF Adds
  <2> QED
    BY <1>6, <1>8, <2>1
<1>12. ASSUME Adds(r, r2, {}, {p})
       PROVE  Handing("working", q2, r2) = Missing(j, Target(q.dest, p))
  <2>1. /\ r2.uploaded = r.uploaded
        /\ r2.skipped \cup r2.failed = r.skipped \cup r.failed \cup {p}
    BY <1>12 DEF Adds
  <2> QED
    BY <1>2, <1>7, <1>8, <2>1
<1> QED
  BY <1>3, <1>9, <1>10, <1>11, <1>12

\* A file that is not reported yet is still open, and when all are none is.
LEMMA HandedIsOpen ==
  ASSUME NEW q \in PushRecord, NEW r \in PushedRecord, Ledger(q, r)
  PROVE  LET j == Handing("working", q, r)
         IN  /\ \A p \in q.left \cup InHand(q) : p \in q.asked =>
                  Target(q.dest, p) \in Open(j) \cap j.uploads
             /\ q.left = {} /\ InHand(q) = {} => Open(j) = {}
<1>1. /\ q.dest \in Path /\ q.asked \subseteq Path
      /\ r.skipped \subseteq Path /\ r.failed \subseteq Path
  BY TempsAreEntries DEF PushRecord, PushedRecord
<1>2. ASSUME NEW p \in q.left \cup InHand(q), p \in q.asked
      PROVE  /\ Target(q.dest, p) \in HandedTo(q, q.asked)
             /\ Target(q.dest, p) \notin r.uploaded
             /\ Target(q.dest, p) \notin HandedTo(q, r.skipped \cup r.failed)
  <2>1. p \notin Landed(q, r) \cup r.skipped \cup r.failed
    BY DEF Ledger
  <2>2. Target(q.dest, p) \notin HandedTo(q, r.skipped \cup r.failed)
    BY <1>1, <1>2, <2>1, TargetsDiffer DEF HandedTo
  <2> QED
    BY <1>2, <2>1, <2>2 DEF HandedTo, Landed
<1>3. ASSUME q.left = {}, InHand(q) = {}
      PROVE  HandedTo(q, q.asked) \subseteq r.uploaded \cup HandedTo(q, r.skipped \cup r.failed)
  BY <1>3 DEF Ledger, Landed, HandedTo
<1> QED
  BY <1>2, <1>3, HandingFields

\* Until a push knows its base it has reported nothing.
Unreported(r) == r.uploaded = {} /\ r.skipped = {} /\ r.failed = {}
FreshInv == \A c \in Caller : push[c].at = "base" => Unreported(pushed[c])

LEMMA PushStepLeavesBase ==
  ASSUME BothInv, NEW c \in Caller, PushStep(c), push'[c].at = "base"
  PROVE  push[c].at = "base" /\ pushed' = pushed
<1>1. push \in [Caller -> PushRecord]
  BY DEF BothInv, PushInv
<1>2. ASSUME NEW stage, PushGoto(c, stage) PROVE stage = "base"
  BY <1>1, <1>2, PushGoes
<1>3. CASE PushBase(c)
  BY <1>3 DEF PushBase, Pushing
<1>4. CASE NextFile(c)
  BY <1>1, <1>4, NextFileDoes, TakenFields
<1>5. CASE MakeDirs(c) \/ ResolveDir(c) \/ PushFile(c) \/ PushReturns(c)
  <2>1. push' = push /\ push[c].at # "base"
    BY <1>2, <1>5
    DEF MakeDirs, ResolveDir, PushFile, PushReturns, PushFails, pushVars, Pushing
  <2> QED
    BY <2>1
<1> QED
  BY <1>3, <1>4, <1>5 DEF PushStep

LEMMA BothKeepFresh == BothInv /\ FreshInv /\ [BothNext]_allVars => FreshInv'
<1> SUFFICES ASSUME BothInv, FreshInv, [BothNext]_allVars,
                    NEW c \in Caller, push'[c].at = "base"
             PROVE  Unreported(pushed'[c])
  BY DEF FreshInv, Unreported
<1>1. pushed \in [Caller -> PushedRecord] /\ push \in [Caller -> PushRecord]
  BY DEF BothInv, PushInv
<1>2. ASSUME NEW d \in Caller, PushStep(d) PROVE Unreported(pushed'[c])
  <2>1. CASE d = c
    BY <1>2, <2>1, PushStepLeavesBase DEF FreshInv
  <2>2. CASE d # c
    BY <1>2, <2>2, PushStepOfOne DEF Alone, FreshInv
  <2> QED
    BY <2>1, <2>2
<1>3. ASSUME NEW d \in Caller, \/ \E r \in Requests : BeginPush(d, r)
                               \/ \E dry \in DryRuns : BeginSync(d, dry)
      PROVE  Unreported(pushed'[c])
  <2>1. pushed' = [pushed EXCEPT ![d] = NothingPushed]
    BY <1>3 DEF BeginPush, BeginSync
  <2>2. CASE d = c
    BY <1>1, <2>1, <2>2 DEF NothingPushed, Unreported
  <2>3. CASE d # c
    <3>1. push'[c] = push[c] /\ pushed'[c] = pushed[c]
      BY <1>1, <1>3, <2>3, BeginsAtWork DEF Alone
    <3> QED
      BY <3>1 DEF FreshInv
  <2> QED
    BY <2>2, <2>3
<1>4. CASE UNCHANGED pushVars
  BY <1>4 DEF pushVars, FreshInv
<1> QED
  BY <1>2, <1>3, <1>4, BothSteps

\* The job of a push that has its base is to hand over its files; the one in hand,
\* and those left, are still to be reported.
LEMMA PushJobInList ==
  ASSUME BothInv, LedgerInv, NEW c \in Caller, call[c].phase = "list",
         push[c].at \in {"next"} \cup Working
  PROVE  /\ PushJob(c) = Handing("working", push[c], pushed[c])
         /\ push[c].at \in Working => Where(c) \in Open(PushJob(c)) \cap PushJob(c).uploads
         /\ \A p \in push[c].left : Target(push[c].dest, p) \in Open(PushJob(c))
         /\ push[c].at = "next" /\ push[c].left = {} => Open(PushJob(c)) = {}
<1>1. PushJob(c) = Handing("working", push[c], pushed[c])
  BY PushJobIsOf, PushJobPhases DEF Working
<1>2. /\ push[c] \in PushRecord /\ pushed[c] \in PushedRecord /\ GoodPush(push[c])
      /\ Ledger(push[c], pushed[c])
  BY DEF BothInv, PushInv, LedgerInv, Working
<1>3. /\ push[c].left \subseteq push[c].asked
      /\ push[c].at \in Working => push[c].cur \in push[c].asked
                                    /\ InHand(push[c]) = {push[c].cur}
      /\ push[c].at = "next" => InHand(push[c]) = {}
  BY <1>2 DEF GoodPush, InHand, Working
<1>4. PICK j : j = Handing("working", push[c], pushed[c])
  OBVIOUS
<1>5. /\ \A p \in push[c].left \cup InHand(push[c]) : p \in push[c].asked =>
           Target(push[c].dest, p) \in Open(j) \cap j.uploads
      /\ push[c].left = {} /\ InHand(push[c]) = {} => Open(j) = {}
  BY <1>2, <1>4, HandedIsOpen
<1> QED
  BY <1>1, <1>3, <1>4, <1>5 DEF Where

\* The job after a step of push on its files that goes on or reports one.
LEMMA PushJobGoes ==
  ASSUME BothInv, NEW c \in Caller, call[c].phase = "list", call' = call,
         push[c].at \in {"next"} \cup Working, push'[c].at \in {"next"} \cup Working,
         push'[c].asked = push[c].asked, push'[c].dest = push[c].dest, NEW p
  PROVE  /\ pushed'[c] = pushed[c] => PushJob(c)' = PushJob(c)
         /\ Adds(pushed[c], pushed'[c], {Target(push[c].dest, p)}, {})
              => PushJob(c)' = Landing(PushJob(c), Target(push[c].dest, p))
         /\ Adds(pushed[c], pushed'[c], {}, {p})
              => PushJob(c)' = Missing(PushJob(c), Target(push[c].dest, p))
<1>1. PICK q, q2, r, r2 : q = push[c] /\ q2 = push'[c] /\ r = pushed[c] /\ r2 = pushed'[c]
  OBVIOUS
<1>2. PushJob(c) = Handing("working", q, r) /\ PushJob(c)' = Handing("working", q2, r2)
  BY <1>1, PushJobIsOf, PushJobPhases DEF Working
<1>3. q2.asked = q.asked /\ q2.dest = q.dest
  BY <1>1
<1>4. PICK t : t = Target(q.dest, p)
  OBVIOUS
<1>5. /\ r2 = r => Handing("working", q2, r2) = Handing("working", q, r)
      /\ Adds(r, r2, {t}, {}) => Handing("working", q2, r2) = Landing(Handing("working", q, r), t)
      /\ Adds(r, r2, {}, {p}) => Handing("working", q2, r2) = Missing(Handing("working", q, r), t)
  BY <1>3, <1>4, HandingGoes
<1> QED
  BY <1>1, <1>2, <1>4, <1>5

\* A file that is not pushed is reported as that.
LEMMA PushFailsKept ==
  ASSUME BothInv, LedgerInv, NEW c \in Caller, call[c].phase = "list", call' = call,
         push[c].at \in Working, PushFails(c), Shown' = Shown
  PROVE  Kept(Shown, Shown', PushJob(c), PushJob(c)')
<1>1. PushGoto(c, "next") /\ pushed' = [pushed EXCEPT ![c].failed = @ \cup {push[c].cur}]
  BY DEF PushFails
<1>2. /\ push'[c].at = "next" /\ push'[c].asked = push[c].asked
      /\ push'[c].dest = push[c].dest
  BY <1>1 DEF PushGoto, BothInv, PushInv, PushRecord
<1>3. PushJob(c)' = Missing(PushJob(c), Where(c))
  <2>1. Adds(pushed[c], pushed'[c], {}, {push[c].cur})
    BY <1>1, ReportsAdd DEF BothInv
  <2> QED
    BY <1>2, <2>1, PushJobGoes DEF Where
<1>4. Where(c) \in Open(PushJob(c))
  BY PushJobInList
<1> QED
  BY <1>3, <1>4 DEF Kept, Answers

LEMMA NextFileKept ==
  ASSUME BothInv, LedgerInv, NEW c \in Caller, call[c].phase = "list", NextFile(c)
  PROVE  Kept(Shown, Shown', PushJob(c), PushJob(c)')
<1>1. /\ push \in [Caller -> PushRecord] /\ push[c].at = "next" /\ call' = call
      /\ Shown' = Shown
  BY ShownIsShow DEF BothInv, PushInv, NextFile, Pushing, session
<1>2. PICK p \in push[c].left :
        \/ /\ push' = [push EXCEPT ![c] = Taken(push[c], p, "next")]
           /\ \/ pushed' = [pushed EXCEPT ![c].skipped = @ \cup {p}]
              \/ pushed' = [pushed EXCEPT ![c].failed = @ \cup {p}]
        \/ /\ push' = [push EXCEPT ![c] = Taken(push[c], p, "mkdir")]
           /\ pushed' = pushed
  BY NextFileDoes
<1>3. /\ push'[c].at \in {"next"} \cup Working
      /\ push'[c].asked = push[c].asked /\ push'[c].dest = push[c].dest
  BY <1>1, <1>2, TakenFields DEF Working
<1>4. CASE pushed' = pushed
  <2>1. PushJob(c)' = PushJob(c)
    BY <1>1, <1>3, <1>4, PushJobGoes
  <2> QED
    BY <1>1, <2>1 DEF Kept
<1>5. CASE \/ pushed' = [pushed EXCEPT ![c].skipped = @ \cup {p}]
           \/ pushed' = [pushed EXCEPT ![c].failed = @ \cup {p}]
  <2>1. PushJob(c)' = Missing(PushJob(c), Target(push[c].dest, p))
    <3>1. Adds(pushed[c], pushed'[c], {}, {p})
      <4>1. CASE pushed' = [pushed EXCEPT ![c].skipped = @ \cup {p}]
        BY <4>1, ReportsAdd DEF BothInv
      <4>2. CASE pushed' = [pushed EXCEPT ![c].failed = @ \cup {p}]
        BY <4>2, ReportsAdd DEF BothInv
      <4> QED
        BY <1>5, <4>1, <4>2
    <3> QED
      BY <1>1, <1>3, <3>1, PushJobGoes
  <2>2. Target(push[c].dest, p) \in Open(PushJob(c))
    BY <1>1, PushJobInList
  <2> QED
    BY <1>1, <2>1, <2>2 DEF Kept, Answers
<1> QED
  BY <1>2, <1>4, <1>5

LEMMA MakeDirsKept ==
  ASSUME BothHold, LedgerInv, NEW c \in Caller, call[c].phase = "list", MakeDirs(c)
  PROVE  Kept(Shown, Shown', PushJob(c), PushJob(c)')
<1> DEFINE d == mk[c].dir
<1>1. /\ BothInv /\ TypeInv /\ fs \in [Path -> Node] /\ OffTemps(c) /\ MkdirTypeOK
      /\ mk \in [Caller -> MkdirRecord] /\ push \in [Caller -> PushRecord]
      /\ push[c].at = "mkdir" /\ call' = call
  BY DEF BothHold, BothInv, TreesInv, PathsInv, MkdirOffTemps, TypeInv, TypeOK, MkdirTypeOK,
     UploadTypeOK, SessionTypeOK, PushInv, MakeDirs, Pushing
<1>2. ASSUME \/ UNCHANGED pushVars
             \/ PushGoto(c, "resolve") /\ UNCHANGED pushed
      PROVE  PushJob(c)' = PushJob(c)
  <2>1. /\ push'[c].at \in Working /\ push'[c].asked = push[c].asked
        /\ push'[c].dest = push[c].dest /\ pushed'[c] = pushed[c]
    BY <1>1, <1>2 DEF PushGoto, pushVars, PushRecord, Working
  <2> QED
    BY <1>1, <2>1, PushJobGoes DEF Working
<1>3. CASE fs' = fs
  <2>1. Shown' = Shown
    BY <1>3, ShownIsShow
  <2>2. CASE PushFails(c)
    BY <1>1, <2>1, <2>2, PushFailsKept DEF Working
  <2>3. CASE UNCHANGED pushVars \/ (PushGoto(c, "resolve") /\ UNCHANGED pushed)
    BY <1>2, <2>1, <2>3 DEF Kept
  <2> QED
    BY <2>2, <2>3 DEF MakeDirs
<1>4. CASE /\ mk[c].at \in MkdirStages
           /\ CanMkdir(d) /\ fs' = [fs EXCEPT ![d] = Dir]
           /\ \E at \in MkdirStages : mk' = [mk EXCEPT ![c].at = at]
  <2>1. mk[c].target = Parent(Where(c)) /\ d \in Path /\ OnTheWay(d, mk[c].target)
    <3>1. Aims(c) /\ Pushing(c, "mkdir")
      BY <1>1 DEF BothHold, AllAtWork, AtWork, MakeDirs
    <3> QED
      BY <1>1, <1>4, <3>1, MkdirFields DEF Aims, TypeInv, MkdirOnTheWay
  <2>2. Where(c) \in Entry
    BY <1>1, InHandIsAsked DEF BothInv, Working, Visible
  <2>3. Under(Where(c), d)
    BY <2>1, <2>2, OnTheWayUp
  <2>4. /\ Shown' = [Shown EXCEPT ![d] = Dir] /\ Shown[d] = Absent
        /\ d # Base => CanCreate(Shown, d)
    <3>1. d \notin Temps
      BY <1>1, <1>4, MkdirDirIsNoTemp
    <3> QED
      BY <1>1, <1>4, <2>1, <3>1, DirSeen
  <2>5. PushJob(c)' = PushJob(c)
    <3>1. mk'[c].at \in MkdirStages
      BY <1>1, <1>4, MkdirFields DEF MkdirAt
    <3>2. UNCHANGED pushVars
      BY <3>1 DEF MakeDirs, MkdirStages
    <3> QED
      BY <1>2, <3>2
  <2>6. Where(c) \in Open(PushJob(c)) \cap PushJob(c).uploads
    BY <1>1, PushJobInList DEF Working
  <2>7. MakesDir(Shown, Shown', PushJob(c), d)
    BY <2>3, <2>4, <2>6 DEF MakesDir
  <2> QED
    BY <2>1, <2>5, <2>7 DEF Kept
<1> QED
  BY <1>3, <1>4, MkdirMakes DEF MakeDirs

LEMMA ResolveDirKept ==
  ASSUME BothInv, LedgerInv, NEW c \in Caller, call[c].phase = "list", ResolveDir(c)
  PROVE  Kept(Shown, Shown', PushJob(c), PushJob(c)')
<1>1. /\ push \in [Caller -> PushRecord] /\ push[c].at = "resolve" /\ call' = call
      /\ Shown' = Shown
  BY ShownIsShow DEF BothInv, PushInv, ResolveDir, Pushing, Ask, Request, own
<1>2. CASE PushFails(c)
  BY <1>1, <1>2, PushFailsKept DEF Working
<1>3. CASE PushGoto(c, "upload") /\ UNCHANGED pushed
  <2>1. /\ push'[c].at \in Working /\ push'[c].asked = push[c].asked
        /\ push'[c].dest = push[c].dest
    BY <1>1, <1>3 DEF PushGoto, PushRecord, Working
  <2>2. PushJob(c)' = PushJob(c)
    BY <1>1, <1>3, <2>1, PushJobGoes DEF Working
  <2> QED
    BY <1>1, <2>2 DEF Kept
<1>4. (PushGoto(c, "upload") /\ UNCHANGED pushed) \/ PushFails(c)
  <2>1. PICK ok \in BOOLEAN :
          IF ok /\ ResolvesInside(Parent(Where(c)))
          THEN PushGoto(c, "upload") /\ UNCHANGED pushed
          ELSE PushFails(c)
    BY DEF ResolveDir
  <2> QED
    BY <2>1
<1> QED
  BY <1>2, <1>3, <1>4

LEMMA PushFileKept ==
  ASSUME BothHold, LedgerInv, NEW c \in Caller, call[c].phase = "list", PushFile(c)
  PROVE  Kept(Shown, Shown', PushJob(c), PushJob(c)')
<1> DEFINE p == Where(c)
<1>1. /\ BothInv /\ push \in [Caller -> PushRecord] /\ push[c].at = "upload" /\ call' = call
      /\ UploadTypeOK /\ TreesInv
  BY DEF BothHold, BothInv, PushInv, TypeInv, TypeOK, PushFile, Pushing
<1>2. p \in Visible /\ p = Target(push[c].dest, push[c].cur)
  BY <1>1, InHandIsAsked DEF BothInv, Working, Where
<1>3. UploadStep(c) => up[c].dst = p
  <2>1. Aims(c)
    BY <1>1 DEF BothHold, AllAtWork, AtWork
  <2>2. UploadStep(c) => Busy(c)
    BY <1>1, UploadWrites
  <2> QED
    BY <2>1, <2>2 DEF Aims
<1>4. /\ \/ Shown' = Shown
         \/ PutAt(Shown, Shown', p)
         \/ DropAt(Shown, Shown', p)
      /\ up'[c].at = "done" => \/ PutAt(Shown, Shown', p)
                               \/ LeadsOut(Shown, p) /\ Shown' = Shown
      /\ up'[c].at = "failed" => Shown' = Shown
  BY <1>1, <1>2, <1>3, UploadSeen DEF PushFile
<1>5. p \in Open(PushJob(c)) \cap PushJob(c).uploads
  BY <1>1, PushJobInList DEF Working
<1>6. CASE up'[c].at = "done"
  <2>1. /\ pushed' = [pushed EXCEPT ![c].uploaded = @ \cup {p}]
        /\ PushGoto(c, "next")
    BY <1>6 DEF PushFile
  <2>2. /\ push'[c].at = "next" /\ push'[c].asked = push[c].asked
        /\ push'[c].dest = push[c].dest
    BY <1>1, <2>1 DEF PushGoto, PushRecord
  <2>3. PushJob(c)' = Landing(PushJob(c), p)
    <3>1. Adds(pushed[c], pushed'[c], {p}, {})
      BY <1>1, <2>1, ReportsAdd DEF BothInv
    <3> QED
      BY <1>1, <1>2, <2>2, <3>1, PushJobGoes DEF Working
  <2> QED
    BY <1>4, <1>5, <1>6, <2>3 DEF Kept, Answers
<1>7. CASE up'[c].at = "failed"
  <2>1. PushFails(c)
    BY <1>7 DEF PushFile
  <2> QED
    BY <1>1, <1>4, <1>7, <2>1, PushFailsKept DEF Working
<1>8. CASE up'[c].at \notin {"done", "failed"}
  <2>1. push' = push /\ pushed' = pushed
    BY <1>8 DEF PushFile, pushVars
  <2>2. PushJob(c)' = PushJob(c)
    BY <1>1, <2>1, PushJobGoes DEF Working
  <2> QED
    BY <1>4, <1>5, <2>2 DEF Kept, Answers
<1> QED
  BY <1>6, <1>7, <1>8

\* A push fails as a whole with its base or its .gitignore, and ends with its files.
LEMMA PushReturnsKept ==
  ASSUME BothInv, LedgerInv, NEW c \in Caller, call[c].phase = "list", PushReturns(c)
  PROVE  Kept(Shown, Shown', PushJob(c), PushJob(c)')
<1>1. /\ push[c].at = "next" /\ push[c].left = {} /\ Shown' = Shown
      /\ push' = push /\ pushed' = pushed
  BY ShownIsShow DEF PushReturns, Pushing, session, pushVars
<1>2. call'[c].phase = "done"
  BY DEF PushReturns, Goto, BothInv, TypeInv, TypeOK, CallRecord
<1>3. PICK q, r : q = push[c] /\ r = pushed[c]
  OBVIOUS
<1>4. PushJob(c)' = Handing("done", q, r)
  BY <1>1, <1>2, <1>3, PushJobIsOf, PushJobPhases
<1>5. PushJob(c) = Handing("working", q, r) /\ Open(PushJob(c)) = {}
  BY <1>1, <1>3, PushJobInList
<1>6. PushJob(c)' = Over(PushJob(c))
  <2>1. Handing("done", q, r) = Over(Handing("working", q, r))
    BY HandingGoes
  <2> QED
    BY <1>4, <1>5, <2>1
<1>7. PushJob(c).state = "working"
  <2>1. Handing("working", q, r).state = "working"
    BY HandingFields
  <2> QED
    BY <1>5, <2>1
<1>8. Turns(PushJob(c), PushJob(c)')
  BY <1>5, <1>6, <1>7 DEF Turns
<1> QED
  BY <1>1, <1>8 DEF Kept

\* Making sure of the base: once it is there, push knows what it is asked for.
LEMMA PushBaseKept ==
  ASSUME BothHold, FreshInv, NEW c \in Caller, Aims(c), Aims(c)', PushBase(c)
  PROVE  Kept(Shown, Shown', PushJob(c), PushJob(c)')
<1> DEFINE d == mk[c].dir
<1>1. /\ BothInv /\ TypeInv /\ fs \in [Path -> Node] /\ MkdirTypeOK
      /\ mk \in [Caller -> MkdirRecord] /\ push \in [Caller -> PushRecord]
      /\ call \in [Caller -> CallRecord]
      /\ push[c].at = "base" /\ pushed' = pushed /\ ~call[c].dry
  BY DEF BothHold, BothInv, TypeInv, TypeOK, MkdirTypeOK, UploadTypeOK, SessionTypeOK,
     PushInv, PushBase, Pushing, Aims
<1>2. call[c].phase \in BasePhases
  BY DEF PushBase, StatBase, MakeBase, ResolveBase, BasePhases
<1>3. PushJob(c) = Fresh("open", No)
  BY <1>1, <1>2, PushJobIsOf, PushJobPhases
<1>4. PushJob(c).state = "open" /\ PushJob(c).dry = No
  BY <1>3, JobForms
<1>5. CASE fs' = fs /\ call'[c].phase \in BasePhases
  <2>1. push'[c].at = "base"
    BY <1>5 DEF Aims
  <2>2. PushJob(c)' = Fresh("open", No)
    BY <1>5, <2>1, PushJobIsOf, PushJobPhases
  <2> QED
    BY <1>3, <1>5, <2>2, ShownIsShow DEF Kept
<1>6. CASE fs' = fs /\ call'[c].phase = "error"
  <2>1. PushJob(c)' = Broken
    BY <1>6, PushJobIsOf, PushJobPhases, JobForms
  <2>2. Turns(PushJob(c), PushJob(c)')
    BY <1>4, <2>1 DEF Turns
  <2> QED
    BY <1>6, <2>2, ShownIsShow DEF Kept
<1>7. CASE fs' = fs /\ call'[c].phase = "list"
  <2>1. /\ push'[c].at = "next" /\ push'[c].asked = push[c].asked
        /\ push'[c].dest = push[c].dest
    BY <1>1, <1>7 DEF PushBase, PushGoto, PushRecord
  <2>2. PICK q2, r : q2 = push'[c] /\ r = pushed[c]
    OBVIOUS
  <2>3. PushJob(c)' = Handing("working", q2, r)
    BY <1>1, <1>7, <2>1, <2>2, PushJobIsOf, PushJobPhases
  <2>4. Unreported(r)
    BY <1>1, <2>2 DEF FreshInv
  <2>5. PICK U : U = HandedTo(q2, q2.asked)
    OBVIOUS
  <2>6. HandedTo(q2, {}) = {}
    BY DEF HandedTo
  <2>7. Handing("working", q2, r) = JobRec("working", No, U, {}, {}, {}, {})
    BY <2>4, <2>5, <2>6 DEF Handing, Unreported
  <2>8. PushJob(c)' = Asked(U, {})
    BY <2>3, <2>7, JobForms
  <2>9. U \in SUBSET Entry
    <3>1. \A p \in push[c].asked : Target(push[c].dest, p) \in Visible
      <4>1. GoodPush(push[c])
        BY <1>1 DEF BothInv, PushInv
      <4>2. [files |-> push[c].asked, dest |-> push[c].dest] \in Requests
        BY <1>1, <4>1 DEF GoodPush
      <4> QED
        BY <4>2, RequestAssumption
    <3> QED
      BY <2>1, <2>2, <2>5, <3>1 DEF HandedTo, Visible
  <2>10. Turns(PushJob(c), PushJob(c)')
    BY <1>4, <2>8, <2>9 DEF Turns, No
  <2> QED
    BY <1>7, <2>10, ShownIsShow DEF Kept
<1>8. CASE /\ MakeBase(c)
           /\ mk[c].at \in MkdirStages
           /\ CanMkdir(d) /\ fs' = [fs EXCEPT ![d] = Dir]
           /\ \E at \in MkdirStages : mk' = [mk EXCEPT ![c].at = at]
  <2>1. d = Base
    BY <1>1, <1>8, OnTheWayToBase DEF MakeBase, Aims, Targets, TypeInv, MkdirOnTheWay
  <2>2. Shown' = [Shown EXCEPT ![Base] = Dir] /\ Shown[Base] = Absent
    BY <1>1, <1>8, <2>1, DirSeen, PathAssumption, TempsAreEntries DEF Entry
  <2>3. call'[c] = call[c]
    <3>1. mk'[c].at \in MkdirStages
      BY <1>1, <1>8, MkdirFields DEF MkdirAt
    <3> QED
      BY <1>8, <3>1 DEF MakeBase, MkdirStages
  <2>4. PushJob(c)' = PushJob(c)
    <3>1. push'[c].at = "base"
      BY <1>2, <2>3 DEF Aims
    <3> QED
      BY <1>2, <1>3, <2>3, <3>1, PushJobIsOf, PushJobPhases
  <2>5. MakesDir(Shown, Shown', PushJob(c), Base)
    BY <1>4, <2>2 DEF MakesDir, No
  <2> QED
    BY <2>4, <2>5, PathAssumption DEF Kept
<1>9. call'[c].phase \in BasePhases \cup {"error", "list"}
  <2>1. call'[c] = call[c] \/ \E n \in {"error", "realpath", "mkbase", "list"} : call'[c].phase = n
    <3>1. CASE ResolveBase(c)
      BY <1>1, <3>1 DEF ResolveBase, CallRecord
    <3>2. CASE StatBase(c) \/ MakeBase(c)
      <4>1. call' = call \/ \E n \in {"error", "realpath", "mkbase"} : Goto(c, n)
        BY <1>1, <3>2 DEF StatBase, MakeBase
      <4> QED
        BY <1>1, <4>1 DEF Goto, CallRecord
    <3> QED
      BY <3>1, <3>2 DEF PushBase
  <2> QED
    BY <1>2, <2>1 DEF BasePhases
<1>10. \/ fs' = fs
       \/ /\ MakeBase(c)
          /\ mk[c].at \in MkdirStages
          /\ CanMkdir(d) /\ fs' = [fs EXCEPT ![d] = Dir]
          /\ \E at \in MkdirStages : mk' = [mk EXCEPT ![c].at = at]
  <2>1. CASE StatBase(c) \/ ResolveBase(c)
    BY <2>1 DEF StatBase, ResolveBase, Ask, Request
  <2>2. CASE MakeBase(c)
    BY <2>2, MkdirMakes DEF MakeBase
  <2> QED
    BY <2>1, <2>2 DEF PushBase
<1> QED
  BY <1>5, <1>6, <1>7, <1>8, <1>9, <1>10

\* The job of a caller is that of its sync or that of its push.
LEMMA TheJobIs ==
  ASSUME NEW c \in Caller
  PROVE  /\ push[c].at = "none" => TheJob(c) = Job(c)
         /\ push[c].at # "none" => TheJob(c) = PushJob(c)
         /\ push'[c].at = "none" => TheJob(c)' = Job(c)'
         /\ push'[c].at # "none" => TheJob(c)' = PushJob(c)'
<1>1. /\ push[c].at = "none" => TheJob(c) = Job(c)
      /\ push[c].at # "none" => TheJob(c) = PushJob(c)
  BY DEF TheJob
<1>2. ASSUME push'[c].at = "none" PROVE TheJob(c)' = Job(c)'
  BY <1>2 DEF TheJob, Job, PushJob, JobState, FailedPaths
<1>3. ASSUME push'[c].at # "none" PROVE TheJob(c)' = PushJob(c)'
  BY <1>3 DEF TheJob, Job, PushJob, JobState, FailedPaths
<1> QED
  BY <1>1, <1>2, <1>3

LEMMA PushStepKept ==
  ASSUME BothHold, LedgerInv, FreshInv, NEW c \in Caller, PushStep(c)
  PROVE  Kept(Shown, Shown', TheJob(c), TheJob(c)')
<1>1. BothInv /\ push[c].at # "none" /\ Aims(c)
  BY DEF BothHold, AllAtWork, AtWork, PushStep, PushBase, NextFile, MakeDirs,
     ResolveDir, PushFile, PushReturns, Pushing
<1>2. Aims(c)'
  BY <1>1, PushStepKeepsAims
<1>3. push'[c].at # "none"
  <2>1. LedgerInv /\ GoodPush(push[c]) /\ push \in [Caller -> PushRecord]
    BY <1>1 DEF BothInv, PushInv
  <2>2. ASSUME NEW stage, PushGoto(c, stage) PROVE push'[c].at = stage
    BY <1>1, <2>2, PushGoes
  <2>3. CASE NextFile(c)
    BY <1>1, <2>1, <2>3, NextFileDoes, TakenFields
  <2>4. CASE PushBase(c) \/ MakeDirs(c) \/ ResolveDir(c) \/ PushFile(c)
             \/ PushReturns(c)
    <3>1. push' = push \/ \E stage \in {"next", "resolve", "upload"} : PushGoto(c, stage)
      BY <2>4 DEF PushBase, MakeDirs, ResolveDir, PushFile, PushReturns,
         PushFails, pushVars
    <3> QED
      BY <1>1, <2>2, <3>1
  <2> QED
    BY <2>3, <2>4 DEF PushStep
<1>4. TheJob(c) = PushJob(c) /\ TheJob(c)' = PushJob(c)'
  BY <1>1, <1>3, TheJobIs
<1>5. CASE PushBase(c)
  BY <1>1, <1>2, <1>4, <1>5, PushBaseKept
<1>6. CASE ~PushBase(c)
  <2>1. call[c].phase = "list"
    BY <1>1, <1>6
    DEF Aims, PushPhases, Active, Planning, BasePhases, PushStep, NextFile,
        MakeDirs, ResolveDir, PushFile, PushReturns, Pushing
  <2> QED
    BY <1>1, <1>4, <1>6, <2>1, NextFileKept, MakeDirsKept, ResolveDirKept,
       PushFileKept, PushReturnsKept DEF PushStep
<1> QED
  BY <1>5, <1>6

\* A call that begins has no job to be done, and one that dies leaves one.
LEMMA EndedJob ==
  ASSUME NEW c \in Caller, call[c].phase \in Ended
  PROVE  TheJob(c).state \in {"idle", "done", "broken"}
<1>1. StateOf(call[c].phase) \in {"idle", "done", "broken"}
  BY DEF StateOf, Ended, Planning
<1>2. Job(c).state = StateOf(call[c].phase)
  BY JobIsOf, StateOfJob
<1>3. PushJob(c).state = StateOf(call[c].phase)
  <2>1. PushState(call[c], push[c]) = StateOf(call[c].phase)
    BY <1>1 DEF PushState
  <2>2. PICK s, q, r : s = PushState(call[c], push[c]) /\ q = push[c] /\ r = pushed[c]
    OBVIOUS
  <2>3. PushJob(c) = Handing(s, q, r) \/ PushJob(c) = Fresh(s, No)
    BY <2>2, PushJobIsOf DEF PushJobOf
  <2>4. Handing(s, q, r).state = s
    BY HandingFields
  <2>5. Fresh(s, No).state = s
    BY JobForms
  <2> QED
    BY <2>1, <2>2, <2>3, <2>4, <2>5
<1> QED
  BY <1>1, <1>2, <1>3, TheJobIs

LEMMA BothBeginKept ==
  ASSUME BothHold, BothHold', NEW c \in Caller,
         \/ \E r \in Requests : BeginPush(c, r)
         \/ \E dry \in DryRuns : BeginSync(c, dry)
  PROVE  Kept(Shown, Shown', TheJob(c), TheJob(c)')
<1>1. /\ BothInv /\ TypeInv /\ TypeInv' /\ push \in [Caller -> PushRecord]
      /\ AtWork(c) /\ AtWork(c)'
  BY DEF BothHold, BothInv, PushInv, AllAtWork
<1>2. Shown' = Shown /\ TheJob(c).state \in {"idle", "done", "broken"}
  BY BothBegin, EndedJob, ShownIsShow DEF Begin
<1>3. CASE \E dry \in DryRuns : BeginSync(c, dry)
  <2>1. PICK dry \in BOOLEAN : BeginSync(c, dry)
    BY <1>3, InitAssumption
  <2>2. Begin(c, dry) /\ push'[c] = NoPush
    BY <1>1, <2>1 DEF BeginSync
  <2>3. TheJob(c)' = Job(c)' /\ Ready(c)'
    BY <1>1, <2>2, TheJobIs DEF NoPush, AtWork
  <2>4. call'[c].phase = "stat" /\ call'[c].dry = dry
    BY <1>1, <2>2, BeginFields
  <2>5. Sound(call'[c], plan'[c], result'[c])
    BY <1>1, <2>3 DEF Sound, Ready, MyPlan, MyBook, TypeInv, TypeOK
  <2>6. TheJob(c)' = Opened(dry)
    BY <2>3, <2>4, <2>5, JobIsOf, JobPhases, JobForms DEF Planning
  <2> QED
    BY <1>2, <2>6 DEF Kept, Turns
<1>4. CASE \E r \in Requests : BeginPush(c, r)
  <2>1. PICK r \in Requests : BeginPush(c, r)
    BY <1>4
  <2>2. /\ Begin(c, FALSE)
        /\ push'[c] = [NoPush EXCEPT !.at = "base", !.asked = r.files, !.left = r.files,
                                     !.dest = r.dest]
    BY <1>1, <2>1 DEF BeginPush
  <2>3. push'[c].at = "base"
    BY <2>2 DEF NoPush
  <2>4. PICK dry : dry = FALSE
    OBVIOUS
  <2>5. call'[c].phase = "stat"
    BY <1>1, <2>2, <2>4, BeginFields
  <2>6. TheJob(c)' = PushJob(c)'
    BY <2>3, TheJobIs
  <2>7. TheJob(c)' = Opened(No)
    BY <2>3, <2>5, <2>6, PushJobIsOf, PushJobPhases, JobForms DEF BasePhases
  <2> QED
    BY <1>2, <2>7 DEF Kept, Turns, No
<1> QED
  BY <1>3, <1>4

LEMMA BothCrashKept ==
  ASSUME BothHold, BothHold', NEW c \in Caller, Crash(c), UNCHANGED pushVars
  PROVE  Kept(Shown, Shown', TheJob(c), TheJob(c)')
<1>1. /\ TypeInv /\ TypeInv' /\ AtWork(c) /\ AtWork(c)' /\ push' = push
  BY DEF BothHold, BothInv, AllAtWork, pushVars
<1>2. CASE push[c].at = "none"
  BY <1>1, <1>2, CrashKept, TheJobIs DEF AtWork
<1>3. CASE push[c].at # "none"
  <2>1. TheJob(c) = PushJob(c) /\ TheJob(c)' = PushJob(c)'
    BY <1>1, <1>3, TheJobIs
  <2>2. /\ call'[c] = [Idle EXCEPT !.phase = "crashed"] /\ fs' = fs
        /\ call[c].phase \in Active
    BY <1>1 DEF Crash, session, TypeInv, TypeOK
  <2>3. call'[c].phase = "crashed"
    BY <2>2 DEF Idle
  <2>4. PushJob(c)' = Broken
    BY <2>3, PushJobIsOf, PushJobPhases, JobForms
  <2>5. PushJob(c).state \in {"open", "working"}
    <3>1. PICK q, r : q = push[c] /\ r = pushed[c]
      OBVIOUS
    <3>2. PushJob(c) = Fresh("open", No) \/ PushJob(c) = Handing("working", q, r)
      BY <1>1, <1>3, <2>2, <3>1, PushJobIsOf, PushJobPhases
      DEF AtWork, Aims, PushPhases, BasePhases, Active, Planning, Working
    <3>3. Handing("working", q, r).state = "working"
      BY HandingFields
    <3>4. Fresh("open", No).state = "open"
      BY JobForms
    <3> QED
      BY <3>2, <3>3, <3>4
  <2> QED
    BY <2>1, <2>2, <2>4, <2>5, ShownIsShow DEF Kept, Turns
<1> QED
  BY <1>2, <1>3

LEMMA OthersKeepTheirJobs ==
  ASSUME NEW c \in Caller, Alone(c), NEW d \in Caller \ {c}
  PROVE  TheJob(d)' = TheJob(d)
<1>1. push'[d] = push[d] /\ pushed'[d] = pushed[d] /\ call'[d] = call[d] /\ Others(c)
  BY DEF Alone, Others
<1>2. Job(d)' = Job(d)
  BY <1>1, OtherJobs
<1>3. PushJob(d)' = PushJob(d)
  BY <1>1, PushJobIsOf
<1> QED
  BY <1>1, <1>2, <1>3, TheJobIs

JobsInv == BothHold /\ LedgerInv /\ FreshInv

LEMMA BothNextKeepsPromise ==
  JobsInv /\ JobsInv' /\ Checked /\ [BothNext]_allVars /\ ~ChangeRemote
    => [BothPromise!TransferNext]_<<Shown, BothJobs>>
<1> SUFFICES ASSUME JobsInv, JobsInv', Checked, [BothNext]_allVars, ~ChangeRemote
             PROVE  [BothPromise!TransferNext]_<<Shown, BothJobs>>
  OBVIOUS
<1>1. /\ BothHold /\ BothHold' /\ LedgerInv /\ FreshInv /\ BothInv /\ TypeInv /\ TypeInv'
      /\ TreesInv /\ push \in [Caller -> PushRecord]
  BY DEF JobsInv, BothHold, BothInv, PushInv
<1>2. ASSUME NEW c \in Caller, Alone(c), Kept(Shown, Shown', TheJob(c), TheJob(c)')
      PROVE  [BothPromise!TransferNext]_<<Shown, BothJobs>>
  <2>1. \A d \in Caller \ {c} : TheJob(d)' = TheJob(d)
    BY <1>2, OthersKeepTheirJobs
  <2> QED
    BY <1>2, <2>1, BothBridge
<1>3. ASSUME NEW c \in Caller, PushStep(c)
      PROVE  [BothPromise!TransferNext]_<<Shown, BothJobs>>
  BY <1>1, <1>2, <1>3, PushStepOfOne, PushStepKept
<1>4. ASSUME NEW c \in Caller, push[c].at = "none", CallStep(c), UNCHANGED pushVars
      PROVE  [BothPromise!TransferNext]_<<Shown, BothJobs>>
  <2>1. push' = push /\ pushed' = pushed
    BY <1>4 DEF pushVars
  <2>2. Ready(c) /\ Ready(c)'
    BY <1>1, <1>4, <2>1 DEF BothHold, AllAtWork, AtWork
  <2>3. Kept(Shown, Shown', Job(c), Job(c)')
    BY <1>1, <1>4, <2>2, CallStepKept
  <2>4. Alone(c)
    BY <1>1, <1>4, <2>1, CallStepOfOne DEF Alone
  <2>5. TheJob(c) = Job(c) /\ TheJob(c)' = Job(c)'
    BY <1>4, <2>1, TheJobIs
  <2> QED
    BY <1>2, <2>3, <2>4, <2>5
<1>5. ASSUME NEW c \in Caller, Crash(c), UNCHANGED pushVars
      PROVE  [BothPromise!TransferNext]_<<Shown, BothJobs>>
  BY <1>1, <1>2, <1>5, CrashAtWork, BothCrashKept DEF BothHold, AllAtWork
<1>6. ASSUME NEW c \in Caller, \/ \E r \in Requests : BeginPush(c, r)
                               \/ \E dry \in DryRuns : BeginSync(c, dry)
      PROVE  [BothPromise!TransferNext]_<<Shown, BothJobs>>
  BY <1>1, <1>2, <1>6, BeginsAtWork, BothBeginKept
<1>7. CASE (EditLocal \/ Tick \/ UNCHANGED vars) /\ UNCHANGED pushVars
  <2>1. UNCHANGED <<fs, call, plan, result, push, pushed>>
    BY <1>7 DEF EditLocal, Tick, vars, own, session, pushVars
  <2>2. Shown' = Shown
    BY <2>1, ShownIsShow
  <2>3. \A c \in Caller : TheJob(c)' = TheJob(c)
    BY <2>1, JobIsOf, PushJobIsOf, TheJobIs
  <2> QED
    BY <2>2, <2>3 DEF BothJobs
<1> QED
  BY <1>3, <1>4, <1>5, <1>6, <1>7, BothSteps

LEMMA InitKeepsBothPromise == PushInit => BothPromise!TransferInit
<1> SUFFICES ASSUME PushInit PROVE BothPromise!TransferInit
  OBVIOUS
<1>1. Init /\ \A c \in Caller : push[c].at = "none"
  BY DEF PushInit, NoPush
<1>2. Promise!TransferInit
  BY <1>1, InitKeepsPromise
<1>3. Shown \in Promise!Trees /\ \A c \in Caller : Job(c) = Promise!NoJob
  BY <1>2 DEF Promise!TransferInit
<1>4. BothPromise!Trees = Promise!Trees
  BY DEF BothPromise!Trees, Promise!Trees, BothPromise!Node, Promise!Node,
     BothPromise!FileNode, Promise!FileNode, BothPromise!Absent, Promise!Absent,
     BothPromise!Dir, Promise!Dir, BothPromise!Link, Promise!Link, BothPromise!WellFormed,
     Promise!WellFormed, BothPromise!Entry, Promise!Entry, BothPromise!Base, Promise!Base,
     BothPromise!Parent, Promise!Parent
<1>5. BothPromise!NoJob = Promise!NoJob
  BY PromiseTree, BothPromiseTree
<1>6. BothJobs = [c \in Caller |-> BothPromise!NoJob]
  BY <1>1, <1>3, <1>5, TheJobIs DEF BothJobs
<1> QED
  BY <1>3, <1>4, <1>6 DEF BothPromise!TransferInit

\* As long as nobody else writes to the remote base, whatever mix of syncs and
\* pushes works on it keeps the promise of Transfer: a push too changes it only
\* where it was asked to, by whole files, and reports every file once.
THEOREM BothToolsKeepThePromise == BothSpec /\ [][~ChangeRemote]_allVars => BothImplement
<1>1. PushInit => LedgerInv /\ FreshInv
  BY DEF PushInit, LedgerInv, FreshInv, NoPush
<1>2. BothHold /\ LedgerInv /\ FreshInv /\ [BothNext]_allVars => LedgerInv' /\ FreshInv'
  BY BothKeepLedgers, BothKeepFresh DEF BothHold
<1>3. BothHold /\ [~ChangeRemote]_allVars => ~ChangeRemote
  <2>1. BothHold /\ UNCHANGED allVars => ~ChangeRemote
    BY DEF allVars, vars, ChangeRemote, BothHold, BothInv, TypeInv, TypeOK, Budget
  <2> QED
    BY <2>1
<1>4. PushInit => Checked
  BY InitChecked DEF PushInit
<1>5. BothHold /\ Checked /\ [BothNext]_allVars /\ [~ChangeRemote]_allVars => Checked'
  BY <1>3, BothStepsAreChecked, ChecksStay DEF BothHold, TreesInv
<1>6. BothHold /\ BothHold' /\ LedgerInv /\ LedgerInv' /\ FreshInv /\ FreshInv'
      /\ Checked /\ [BothNext]_allVars /\ [~ChangeRemote]_allVars
        => [BothPromise!TransferNext]_<<Shown, BothJobs>>
  <2> SUFFICES ASSUME BothHold, BothHold', LedgerInv, LedgerInv', FreshInv, FreshInv',
                      Checked, [BothNext]_allVars, [~ChangeRemote]_allVars
               PROVE  [BothPromise!TransferNext]_<<Shown, BothJobs>>
    OBVIOUS
  <2>1. JobsInv /\ JobsInv' /\ ~ChangeRemote
    BY <1>3 DEF JobsInv
  <2> QED
    BY <2>1, BothNextKeepsPromise
<1> QED
  BY <1>1, <1>2, <1>4, <1>5, <1>6, BothHoldAlways, InitKeepsBothPromise, PTL
  DEF BothSpec, BothImplement, BothPromise!TransferSpec

\* In particular where there are no others, as in the run that checks it.
COROLLARY BothToolsImplement ==
  ASSUME MaxIntrusions = 0
  PROVE  BothSpec => BothImplement
<1>1. BothHold => ~ChangeRemote
  BY DEF BothHold, BothInv, TypeInv, TypeOK, Budget, ChangeRemote
<1>2. BothHold /\ [BothNext]_allVars => [~ChangeRemote]_allVars
  BY <1>1
<1> QED
  BY <1>2, BothHoldAlways, BothToolsKeepThePromise, PTL DEF BothSpec
=============================================================================
