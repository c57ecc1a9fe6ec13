-------------------------- MODULE SyncEngineProofs --------------------------
(***************************************************************************)
(* Proofs about SyncEngine: what BuildPlan never does, the types, and that *)
(* a visible file is never a half-written one.                             *)
(***************************************************************************)
EXTENDS SyncEngine, TLAPS

-----------------------------------------------------------------------------
(***************************************************************************)
(* What BuildPlan never does, for every pair of trees and all rules.       *)
(***************************************************************************)
\* "Lies under" is transitive: what is under a directory under d is under d.
LEMMA UnderTransitive ==
  ASSUME NEW p \in Path, NEW q \in Path, NEW d \in Path,
         Under(p, q), Under(q, d)
  PROVE  Under(p, d)
<1>1. Len(p) \in Nat /\ Len(q) \in Nat /\ Len(d) \in Nat
  BY PathAssumption
<1>2. \A i \in 1 .. Len(d) : i \in 1 .. Len(q)
  BY <1>1 DEF Under
<1> QED
  BY <1>1, <1>2 DEF Under

\* A planned delete names a deletable path, as what it was listed.
LEMMA PlannedDelete ==
  ASSUME NEW project, NEW listing, NEW verdicts,
         NEW d \in BuildPlan(project, listing, verdicts).ToDelete
  PROVE  /\ d.path \in DeletablePaths(listing, Eligible(project, listing, verdicts))
         /\ d.isDir = (listing[d.path] = Dir)
<1> DEFINE paths == DeletablePaths(listing, Eligible(project, listing, verdicts))
<1>1. d \in {[path |-> p, isDir |-> listing[p] = Dir] : p \in paths}
  BY DEF BuildPlan
<1>2. PICK p \in paths : d = [path |-> p, isDir |-> listing[p] = Dir]
  BY <1>1, Zenon
<1> QED
  BY <1>2

\* A plan deletes and uploads different paths, so no delete of a call can
\* remove what the same call uploaded (plan.go: candidates are what localAll
\* does not hold).
THEOREM UploadsAndDeletesDisjoint ==
  ASSUME NEW project \in [Path -> Node], NEW listing \in [Path -> Node],
         NEW verdicts \in Rules,
         NEW d \in BuildPlan(project, listing, verdicts).ToDelete
  PROVE  d.path \notin BuildPlan(project, listing, verdicts).ToUpload
<1>1. d.path \notin LocalFiles(project, verdicts)
  BY PlannedDelete DEF DeletablePaths, Eligible, Candidates, LocalFiles
<1> QED
  BY <1>1 DEF BuildPlan

\* A plan never deletes a link, a path that include or ignore exclude, or one
\* that is local and eligible; and it deletes only what was listed, as what it
\* was listed.
THEOREM DeletesAreEligible ==
  ASSUME NEW project \in [Path -> Node], NEW listing \in [Path -> Node],
         NEW verdicts \in Rules,
         NEW d \in BuildPlan(project, listing, verdicts).ToDelete
  PROVE  /\ listing[d.path].kind \in {"file", "dir"}
         /\ d.isDir = (listing[d.path] = Dir)
         /\ ~Excluded(verdicts, d.path, d.isDir)
         /\ d.path \notin LocalAll(project, verdicts)
         /\ d.path \notin BuildPlan(project, listing, verdicts).ProtectedByIgnore
<1>1. d.path \in Eligible(project, listing, verdicts)
  BY PlannedDelete DEF DeletablePaths
<1>2. d.path \notin BuildPlan(project, listing, verdicts).ProtectedByIgnore
  BY <1>1 DEF BuildPlan
<1>3. /\ listing[d.path].kind \in {"file", "dir"}
      /\ d.path \notin LocalAll(project, verdicts)
  BY <1>1 DEF Eligible, Candidates
<1>4. ~Excluded(verdicts, d.path, listing[d.path] = Dir)
  BY <1>1, Zenon DEF Eligible
<1>5. d.isDir = (listing[d.path] = Dir)
  BY PlannedDelete
<1> QED
  BY <1>2, <1>3, <1>4, <1>5, Zenon

\* When a plan deletes a directory it deletes all that was listed under it, but
\* for links: the code's promise that a directory is deleted only if nothing
\* under it survives, with the exception the code makes of links.
THEOREM DeletedDirsAreEmptied ==
  ASSUME NEW project \in [Path -> Node], NEW listing \in [Path -> Node],
         NEW verdicts \in Rules,
         NEW d \in BuildPlan(project, listing, verdicts).ToDelete, d.isDir,
         NEW q \in Entry, Under(q, d.path), listing[q].kind \in {"file", "dir"}
  PROVE  \E e \in BuildPlan(project, listing, verdicts).ToDelete : e.path = q
<1> DEFINE eligible == Eligible(project, listing, verdicts)
<1>1. d.path \in eligible /\ listing[d.path] = Dir
  BY PlannedDelete DEF DeletablePaths
<1>2. ~HasSurvivingDescendant(d.path, listing, eligible)
  BY <1>1, PlannedDelete DEF DeletablePaths
<1>3. q \in eligible
  BY <1>2 DEF HasSurvivingDescendant
<1>4. ASSUME HasSurvivingDescendant(q, listing, eligible) PROVE FALSE
  <2>1. PICK r \in Entry : /\ Under(r, q)
                           /\ listing[r].kind \in {"file", "dir"}
                           /\ r \notin eligible
    BY <1>4 DEF HasSurvivingDescendant
  <2>2. Under(r, d.path)
    BY <1>1, <2>1, UnderTransitive DEF Eligible, Candidates, Entry
  <2> QED
    BY <1>2, <2>1, <2>2 DEF HasSurvivingDescendant
<1>5. q \in DeletablePaths(listing, eligible)
  BY <1>3, <1>4 DEF DeletablePaths
<1>6. [path |-> q, isDir |-> listing[q] = Dir]
        \in BuildPlan(project, listing, verdicts).ToDelete
  BY <1>5 DEF BuildPlan
<1> QED
  BY <1>6

-----------------------------------------------------------------------------
(***************************************************************************)
(* What the type invariant rests on: the current entry is an entry, MkdirAll*)
(* walks the prefixes of its target, and nobody edits temporary files.     *)
(***************************************************************************)
CurrentEntry ==
  \A c \in Caller :
    /\ call[c].phase \in {"mkdir", "upload"} => call[c].cur \in Visible
    /\ call[c].phase \in {"check", "remove"} => call[c].cur \in Entry

OnTheWay(dir, target) ==
  \E n \in 0 .. Len(target) : dir = SubSeq(target, 1, n)
MkdirOnTheWay ==
  \A c \in Caller :
    mk[c].at \in MkdirStages => OnTheWay(mk[c].dir, mk[c].target)

TypeInv == TypeOK /\ CurrentEntry /\ MkdirOnTheWay /\ Clean(local)

-----------------------------------------------------------------------------
\* Lemmas about paths and trees.

LEMMA PathPrefix ==
  ASSUME NEW p \in Path, NEW n \in 0 .. Len(p)
  PROVE  /\ Len(p) \in Nat
         /\ SubSeq(p, 1, n) \in Path
         /\ Len(SubSeq(p, 1, n)) = n
BY PathAssumption

LEMMA ParentInPath ==
  ASSUME NEW p \in Entry
  PROVE  Parent(p) \in Path
<1>1. p \in Path /\ p \in Seq(STRING) /\ p # << >>
  BY PathAssumption DEF Entry, Base
<1>2. Len(p) - 1 \in 0 .. Len(p)
  BY <1>1
<1> QED
  BY <1>1, <1>2, PathAssumption DEF Parent

LEMMA ParentOnTheWay ==
  ASSUME NEW t \in Path, NEW d \in Path, d # Base, OnTheWay(d, t)
  PROVE  OnTheWay(Parent(d), t)
<1>1. PICK n \in 0 .. Len(t) : d = SubSeq(t, 1, n)
  BY DEF OnTheWay
<1>2. t \in Seq(STRING) /\ n # 0 /\ Len(d) = n
  BY <1>1, PathAssumption DEF Base
<1>3. SubSeq(d, 1, n - 1) = SubSeq(t, 1, n - 1)
  BY <1>1, <1>2
<1> QED
  BY <1>2, <1>3 DEF OnTheWay, Parent

LEMMA ChildOnTheWay ==
  ASSUME NEW t \in Path, NEW d \in Path, d # t, OnTheWay(d, t)
  PROVE  /\ SubSeq(t, 1, Len(d) + 1) \in Path
         /\ OnTheWay(SubSeq(t, 1, Len(d) + 1), t)
<1>1. PICK n \in 0 .. Len(t) : d = SubSeq(t, 1, n)
  BY DEF OnTheWay
<1>2. t \in Seq(STRING) /\ Len(d) = n
  BY <1>1, PathAssumption
<1>3. n # Len(t)
  BY <1>1, <1>2
<1>4. n + 1 \in 0 .. Len(t)
  BY <1>2, <1>3
<1> QED
  BY <1>2, <1>4, PathAssumption DEF OnTheWay

LEMMA OnTheWayToItself ==
  ASSUME NEW p \in Path
  PROVE  OnTheWay(p, p)
<1>1. p \in Seq(STRING)
  BY PathAssumption
<1>2. Len(p) \in 0 .. Len(p) /\ p = SubSeq(p, 1, Len(p))
  BY <1>1
<1> QED
  BY <1>2 DEF OnTheWay

LEMMA NodeKinds ==
  /\ Absent \in Node /\ Dir \in Node /\ Link \in Node
  /\ \A d \in Content \cup {Torn}, m \in Int : File(d, m) \in Node
BY DEF Node, FileNode, File

-----------------------------------------------------------------------------
\* Lemmas about requests.

\* A request leaves the tree as it was or as it was to become; one that
\* succeeds was carried out.
LEMMA RequestEffect ==
  ASSUME NEW c \in Caller, NEW ok \in BOOLEAN, NEW able \in BOOLEAN, NEW new,
         Request(c, ok, able, new)
  PROVE  /\ fs' = fs \/ (fs' = new /\ able)
         /\ ok => able /\ fs' = new
BY DEF Request

LEMMA RequestTypes ==
  ASSUME SessionTypeOK,
         NEW c \in Caller, NEW ok \in BOOLEAN, NEW able \in BOOLEAN,
         NEW new \in [Path -> Node],
         Request(c, ok, able, new), UNCHANGED local
  PROVE  SessionTypeOK'
<1>1. fs' \in [Path -> Node]
  BY RequestEffect DEF SessionTypeOK
<1>2. conn' \in [Caller -> BOOLEAN]
  BY Zenon DEF Request, SessionTypeOK
<1>3. faults' \in 0 .. MaxFaults
  BY MaxFaultsAssumption DEF Request, SessionTypeOK
<1> QED
  BY <1>1, <1>2, <1>3 DEF SessionTypeOK

LEMMA RequestAtEffect ==
  ASSUME NEW c \in Caller, NEW ok \in BOOLEAN, NEW p, NEW able \in BOOLEAN, NEW new,
         RequestAt(c, ok, p, able, new)
  PROVE  /\ fs' = fs \/ (fs' = new /\ able)
         /\ ok => fs' = new \/ fs' = fs
BY DEF RequestAt, Request

LEMMA RequestAtTypes ==
  ASSUME SessionTypeOK,
         NEW c \in Caller, NEW ok \in BOOLEAN, NEW p, NEW able \in BOOLEAN,
         NEW new \in [Path -> Node],
         RequestAt(c, ok, p, able, new), UNCHANGED local
  PROVE  SessionTypeOK'
<1>1. CASE LeadsOut(fs, p)
  <2>1. PICK there \in BOOLEAN : Request(c, ok, there, fs)
    BY <1>1 DEF RequestAt
  <2>2. fs \in [Path -> Node]
    BY DEF SessionTypeOK
  <2> QED
    BY <2>1, <2>2, RequestTypes
<1>2. CASE ~LeadsOut(fs, p)
  BY <1>2, RequestTypes DEF RequestAt
<1> QED
  BY <1>1, <1>2

LEMMA AskTypes ==
  ASSUME SessionTypeOK,
         NEW c \in Caller, NEW ok \in BOOLEAN, NEW able \in BOOLEAN,
         Ask(c, ok, able), UNCHANGED local
  PROVE  SessionTypeOK' /\ fs' = fs
<1>1. fs \in [Path -> Node]
  BY DEF SessionTypeOK
<1>2. Request(c, ok, able, fs)
  BY DEF Ask
<1> QED
  BY <1>1, <1>2, RequestTypes, RequestEffect

-----------------------------------------------------------------------------
\* Lemmas about MkdirAll.

GoodMkdir(m) == /\ m \in MkdirRecord
                /\ m.at \in MkdirStages => OnTheWay(m.dir, m.target)

LEMMA GoodMkdirEnds == GoodMkdir(MkdirIdle) /\ GoodMkdir(MkdirDone) /\ GoodMkdir(MkdirFailed)
BY DEF GoodMkdir, MkdirRecord, MkdirIdle, MkdirDone, MkdirFailed, MkdirStages

LEMMA GoodMkdirAt ==
  ASSUME NEW at \in MkdirStages, NEW dir \in Path, NEW target \in Path,
         OnTheWay(dir, target)
  PROVE  GoodMkdir(MkdirAt(at, dir, target))
BY DEF GoodMkdir, MkdirRecord, MkdirAt

LEMMA BelowIsGood ==
  ASSUME NEW dir \in Path, NEW target \in Path, OnTheWay(dir, target)
  PROVE  GoodMkdir(Below(dir, target))
<1>1. CASE dir = target
  BY <1>1, GoodMkdirEnds DEF Below
<1>2. CASE dir # target
  BY <1>2, ChildOnTheWay, GoodMkdirAt DEF Below, MkdirStages
<1> QED
  BY <1>1, <1>2

LEMMA AboveIsGood ==
  ASSUME NEW dir \in Path, NEW target \in Path, OnTheWay(dir, target)
  PROVE  GoodMkdir(Above(dir, target))
<1>1. CASE dir = Base
  BY <1>1, GoodMkdirAt DEF Above, MkdirStages
<1>2. CASE dir # Base
  BY <1>2, ParentOnTheWay, ParentInPath, GoodMkdirAt DEF Above, MkdirStages, Entry
<1> QED
  BY <1>1, <1>2

LEMMA GoodMkdirUpdate ==
  ASSUME MkdirTypeOK, MkdirOnTheWay, NEW c \in Caller, NEW m, GoodMkdir(m),
         mk' = [mk EXCEPT ![c] = m]
  PROVE  MkdirTypeOK' /\ MkdirOnTheWay'
BY DEF MkdirTypeOK, MkdirOnTheWay, GoodMkdir

\* A step of MkdirAll changes the tree by the directory it makes, at most.
LEMMA MkdirStepTypes ==
  ASSUME SessionTypeOK, MkdirTypeOK, MkdirOnTheWay, NEW c \in Caller, MkdirStep(c)
  PROVE  /\ SessionTypeOK' /\ MkdirTypeOK' /\ MkdirOnTheWay'
         /\ UNCHANGED local
         /\ fs' = fs \/ \E p \in Path : fs' = [fs EXCEPT ![p] = Dir]
<1> DEFINE m == mk[c]
<1>0. m.at \in MkdirStages
  BY DEF MkdirStep, MkdirStat, MkdirMake, MkdirChmod, MkdirRecheck, MkdirStages
<1>1. /\ m.dir \in Path /\ m.target \in Path /\ OnTheWay(m.dir, m.target)
      /\ m = MkdirAt(m.at, m.dir, m.target)
  BY <1>0 DEF MkdirTypeOK, MkdirRecord, MkdirOnTheWay, MkdirIdle, MkdirDone,
              MkdirFailed, MkdirStages, MkdirAt
<1>2. GoodMkdir(Below(m.dir, m.target)) /\ GoodMkdir(Above(m.dir, m.target))
  BY <1>1, BelowIsGood, AboveIsGood
<1>3. CASE MkdirStat(c)
  <2>1. PICK seen \in Looks(m.dir), ok \in BOOLEAN :
           /\ Ask(c, ok, seen # "error")
           /\ mk' = [mk EXCEPT ![c] =
                       IF ~ok THEN Above(m.dir, m.target)
                       ELSE IF seen = "dir" THEN Below(m.dir, m.target)
                       ELSE MkdirFailed]
    BY <1>3 DEF MkdirStat
  <2>2. UNCHANGED local
    BY <1>3 DEF MkdirStat
  <2>3. MkdirTypeOK' /\ MkdirOnTheWay'
    BY <1>2, <2>1, GoodMkdirUpdate, GoodMkdirEnds
  <2> QED
    BY <2>1, <2>2, <2>3, AskTypes
<1>4. CASE MkdirMake(c)
  <2>1. PICK ok \in BOOLEAN :
           /\ RequestAt(c, ok, m.dir, CanMkdir(m.dir), [fs EXCEPT ![m.dir] = Dir])
           /\ mk' = [mk EXCEPT ![c].at = IF ok THEN "chmod" ELSE "recheck"]
    BY <1>4 DEF MkdirMake
  <2>2. UNCHANGED local /\ CanMkdir(m.dir) \in BOOLEAN
    BY <1>4 DEF MkdirMake, CanMkdir
  <2>3. [fs EXCEPT ![m.dir] = Dir] \in [Path -> Node]
    BY NodeKinds DEF SessionTypeOK
  <2>4. SessionTypeOK'
    BY <2>1, <2>2, <2>3, RequestAtTypes
  <2>5. fs' = fs \/ fs' = [fs EXCEPT ![m.dir] = Dir]
    BY <2>1, <2>2, RequestAtEffect
  <2>6. PICK s \in {"chmod", "recheck"} : mk' = [mk EXCEPT ![c].at = s]
    BY <2>1
  <2>7. mk' = [mk EXCEPT ![c] = MkdirAt(s, m.dir, m.target)]
    <3>1. [m EXCEPT !.at = s] = MkdirAt(s, m.dir, m.target)
      BY <1>1 DEF MkdirAt
    <3>2. mk' = [mk EXCEPT ![c] = [m EXCEPT !.at = s]]
      BY <2>6
    <3> QED
      BY <3>1, <3>2
  <2>8. MkdirTypeOK' /\ MkdirOnTheWay'
    BY <1>1, <2>7, GoodMkdirAt, GoodMkdirUpdate DEF MkdirStages
  <2> QED
    BY <1>1, <2>2, <2>4, <2>5, <2>8
<1>5. CASE MkdirChmod(c)
  <2>1. PICK ok \in BOOLEAN :
           /\ RequestAt(c, ok, m.dir, fs[m.dir] # Absent, fs)
           /\ mk' = [mk EXCEPT ![c] = IF ok THEN Below(m.dir, m.target)
                                            ELSE MkdirFailed]
    BY <1>5 DEF MkdirChmod
  <2>2. UNCHANGED local /\ fs \in [Path -> Node]
    BY <1>5 DEF MkdirChmod, SessionTypeOK
  <2>3. SessionTypeOK' /\ fs' = fs
    BY <2>1, <2>2, RequestAtTypes, RequestAtEffect
  <2>4. MkdirTypeOK' /\ MkdirOnTheWay'
    BY <1>2, <2>1, GoodMkdirUpdate, GoodMkdirEnds
  <2> QED
    BY <2>2, <2>3, <2>4
<1>6. CASE MkdirRecheck(c)
  <2>1. PICK seen \in Looks(m.dir), ok \in BOOLEAN :
           /\ Ask(c, ok, seen # "error")
           /\ mk' = [mk EXCEPT ![c] = IF ok /\ seen = "dir"
                                      THEN Below(m.dir, m.target)
                                      ELSE MkdirFailed]
    BY <1>6 DEF MkdirRecheck
  <2>2. UNCHANGED local
    BY <1>6 DEF MkdirRecheck
  <2>3. MkdirTypeOK' /\ MkdirOnTheWay'
    BY <1>2, <2>1, GoodMkdirUpdate, GoodMkdirEnds
  <2> QED
    BY <2>1, <2>2, <2>3, AskTypes
<1> QED
  BY <1>3, <1>4, <1>5, <1>6 DEF MkdirStep

-----------------------------------------------------------------------------
\* Lemmas about Upload.

LEMMA TempsAreEntries ==
  /\ Visible \subseteq Entry
  /\ Temps \subseteq Entry
  /\ Visible \cap Temps = {}
  /\ \A p \in Entry : TempOf[p] \subseteq Temps
  /\ Entry \subseteq Path
BY TempAssumption DEF Visible, Temps, Entry

LEMMA UploadEndsAreRecords ==
  NotStarted \in UploadRecord /\ Succeeded \in UploadRecord /\ GaveUp \in UploadRecord
BY DEF UploadRecord

LEMMA BusyRecord ==
  ASSUME UploadTypeOK, NEW c \in Caller, Busy(c)
  PROVE  /\ up[c].at \in Stages
         /\ up[c].src \in Visible /\ up[c].dst \in Visible /\ up[c].tmp \in Temps
         /\ up[c].data \in Content \cup {Torn}
         /\ \A s \in Stages : [up[c] EXCEPT !.at = s] \in UploadRecord
BY DEF UploadTypeOK, UploadRecord, NotStarted, Succeeded, GaveUp, Busy, Stages

LEMMA BusyPaths ==
  ASSUME UploadTypeOK, NEW c \in Caller, Busy(c)
  PROVE  up[c].src \in Path /\ up[c].dst \in Path /\ up[c].tmp \in Path
BY BusyRecord, TempsAreEntries

LEMMA MoveOnTypes ==
  ASSUME UploadTypeOK, NEW c \in Caller, Busy(c), NEW s \in Stages, MoveOn(c, s)
  PROVE  /\ up' \in [Caller -> UploadRecord]
         /\ up' = [up EXCEPT ![c] = [up[c] EXCEPT !.at = s]]
<1>1. up' = [up EXCEPT ![c] = [up[c] EXCEPT !.at = s]]
  BY DEF MoveOn
<1>2. [up[c] EXCEPT !.at = s] \in UploadRecord
  BY BusyRecord
<1> QED
  BY <1>1, <1>2 DEF UploadTypeOK

LEMMA StampInt ==
  ASSUME UploadTypeOK PROVE Stamp \in Int
BY ServerAssumption DEF UploadTypeOK, Stamp

LEMMA FileWrittenTypes ==
  ASSUME NEW t \in [Path -> Node], NEW p \in Path, NEW d \in Content \cup {Torn},
         NEW m \in Int
  PROVE  [t EXCEPT ![p] = File(d, m)] \in [Path -> Node]
BY NodeKinds

LEMMA MovedTypes ==
  ASSUME NEW t \in [Path -> Node], NEW p \in Path, NEW q \in Path
  PROVE  Moved(t, p, q) \in [Path -> Node] /\ Without(t, p) \in [Path -> Node]
BY NodeKinds DEF Moved, Without

LEMMA SourcesAreContents ==
  ASSUME Clean(local), NEW p \in Path
  PROVE  Sources(p) \subseteq Content \cup {Torn}
BY DEF Sources, Clean, Node, FileNode, IsFile, IsTorn, Absent, Dir, Link

LEMMA UploadStartTypes ==
  ASSUME UploadTypeOK, Clean(local), NEW c \in Caller,
         NEW src \in Visible, NEW dst \in Visible, UploadStart(c, src, dst)
  PROVE  UploadTypeOK' /\ UNCHANGED local
<1>0. UNCHANGED <<local, now>>
  BY DEF UploadStart
<1>1. CASE UNCHANGED <<fs, conn, faults>> /\ up' = [up EXCEPT ![c] = GaveUp]
  BY <1>0, <1>1, UploadEndsAreRecords DEF UploadTypeOK, SessionTypeOK
<1>2. ASSUME NEW d \in Sources(src), NEW t \in FreshTemps(dst), NEW ok \in BOOLEAN,
             RequestAt(c, ok, t, CanCreate(fs, t), [fs EXCEPT ![t] = File(Torn, Stamp)]),
             up' = [up EXCEPT ![c] =
                      IF ok THEN [at |-> "write", src |-> src, dst |-> dst,
                                  tmp |-> t, data |-> d]
                            ELSE GaveUp]
      PROVE  UploadTypeOK'
  <2>1. t \in Temps /\ t \in Path /\ src \in Path
    BY TempsAreEntries DEF FreshTemps
  <2>2. d \in Content \cup {Torn}
    BY <2>1, SourcesAreContents
  <2>3. [fs EXCEPT ![t] = File(Torn, Stamp)] \in [Path -> Node]
    BY <2>1, StampInt, FileWrittenTypes DEF UploadTypeOK, SessionTypeOK
  <2>4. SessionTypeOK'
    BY <1>0, <1>2, <2>3, RequestAtTypes DEF UploadTypeOK, CanCreate
  <2>5. [at |-> "write", src |-> src, dst |-> dst, tmp |-> t, data |-> d] \in UploadRecord
    BY <2>1, <2>2 DEF UploadRecord, Stages
  <2>6. up' \in [Caller -> UploadRecord]
    BY <1>2, <2>5, UploadEndsAreRecords DEF UploadTypeOK
  <2> QED
    BY <1>0, <2>4, <2>6 DEF UploadTypeOK
<1> QED
  BY <1>0, <1>1, <1>2 DEF UploadStart

LEMMA RenameTypes ==
  ASSUME UploadTypeOK, NEW c \in Caller, Busy(c), NEW able \in BOOLEAN,
         NEW next \in Stages, RenameBy(c, able, next)
  PROVE  UploadTypeOK' /\ UNCHANGED local
<1>1. PICK ok \in BOOLEAN :
        /\ RequestAt(c, ok, up[c].dst, able, Moved(fs, up[c].tmp, up[c].dst))
        /\ IF ok THEN up' = [up EXCEPT ![c] = Succeeded] ELSE MoveOn(c, next)
  BY DEF RenameBy
<1>2. UNCHANGED <<local, now>>
  BY DEF RenameBy
<1>5. Moved(fs, up[c].tmp, up[c].dst) \in [Path -> Node]
  BY BusyPaths, MovedTypes DEF UploadTypeOK, SessionTypeOK
<1>3. SessionTypeOK'
  BY <1>1, <1>2, <1>5, RequestAtTypes DEF UploadTypeOK
<1>4. up' \in [Caller -> UploadRecord]
  BY <1>1, MoveOnTypes, UploadEndsAreRecords DEF UploadTypeOK
<1> QED
  BY <1>2, <1>3, <1>4 DEF UploadTypeOK

LEMMA UploadStepTypes ==
  ASSUME UploadTypeOK, Clean(local), NEW c \in Caller, UploadStep(c)
  PROVE  UploadTypeOK' /\ UNCHANGED local
<1>0. Busy(c)
  BY DEF UploadStep, WriteTemp, PosixRename, PlainRename, ClearDestination,
         RenameAgain, Cleanup, Busy, Stages
<1>1. CASE WriteTemp(c)
  <2> DEFINE u == up[c]
             contents == {u.data} \cup (IF IsFile(local[u.src])
                                        THEN {local[u.src].data} ELSE {})
             new(d) == IF fs[u.tmp] = Absent THEN fs
                       ELSE [fs EXCEPT ![u.tmp] = File(d, Stamp)]
  <2>1. PICK d \in contents, ok \in BOOLEAN :
          /\ Request(c, ok, u.data # Torn, new(d))
          /\ MoveOn(c, IF ok THEN "posix" ELSE "cleanup")
    BY <1>1 DEF WriteTemp, AfterWrite
  <2>2. UNCHANGED <<local, now>>
    BY <1>1 DEF WriteTemp
  <2>3. u.src \in Path /\ u.tmp \in Path /\ u.data \in Content \cup {Torn}
    BY <1>0, BusyRecord, TempsAreEntries
  <2>4. d \in Content \cup {Torn}
    BY <2>1, <2>3 DEF Clean, Node, FileNode, IsFile, Absent, Dir, Link
  <2>5. new(d) \in [Path -> Node]
    BY <2>3, <2>4, StampInt, FileWrittenTypes DEF UploadTypeOK, SessionTypeOK
  <2>6. SessionTypeOK'
    BY <2>1, <2>2, <2>5, RequestTypes DEF UploadTypeOK
  <2>7. up' \in [Caller -> UploadRecord]
    BY <1>0, <2>1, MoveOnTypes DEF Stages
  <2> QED
    BY <2>2, <2>6, <2>7 DEF UploadTypeOK
<1>2. CASE PosixRename(c)
  BY <1>0, <1>2, RenameTypes, ServerAssumption DEF PosixRename, CanReplace, Stages
<1>3. CASE PlainRename(c)
  BY <1>0, <1>3, RenameTypes DEF PlainRename, CanRename, Stages
<1>4. CASE ClearDestination(c)
  <2>1. PICK ok \in BOOLEAN :
          RequestAt(c, ok, up[c].dst, CanRemove(fs, up[c].dst), Without(fs, up[c].dst))
    BY <1>4 DEF ClearDestination
  <2>2. MoveOn(c, "again") /\ UNCHANGED <<local, now>>
    BY <1>4 DEF ClearDestination
  <2>5. Without(fs, up[c].dst) \in [Path -> Node]
    BY <1>0, BusyPaths, MovedTypes DEF UploadTypeOK, SessionTypeOK
  <2>6. CanRemove(fs, up[c].dst) \in BOOLEAN
    BY DEF CanRemove
  <2>3. SessionTypeOK'
    BY <2>1, <2>2, <2>5, <2>6, RequestAtTypes DEF UploadTypeOK
  <2>4. up' \in [Caller -> UploadRecord]
    BY <1>0, <2>2, MoveOnTypes DEF Stages
  <2> QED
    BY <2>2, <2>3, <2>4 DEF UploadTypeOK
<1>5. CASE RenameAgain(c)
  BY <1>0, <1>5, RenameTypes DEF RenameAgain, CanRename, Stages
<1>6. CASE Cleanup(c)
  <2>1. PICK ok \in BOOLEAN :
          RequestAt(c, ok, up[c].tmp, CanRemove(fs, up[c].tmp), Without(fs, up[c].tmp))
    BY <1>6 DEF Cleanup
  <2>2. up' = [up EXCEPT ![c] = GaveUp] /\ UNCHANGED <<local, now>>
    BY <1>6 DEF Cleanup
  <2>5. Without(fs, up[c].tmp) \in [Path -> Node]
    BY <1>0, BusyPaths, MovedTypes DEF UploadTypeOK, SessionTypeOK
  <2>6. CanRemove(fs, up[c].tmp) \in BOOLEAN
    BY DEF CanRemove
  <2>3. SessionTypeOK'
    BY <2>1, <2>2, <2>5, <2>6, RequestAtTypes DEF UploadTypeOK
  <2>4. up' \in [Caller -> UploadRecord]
    BY <2>2, UploadEndsAreRecords DEF UploadTypeOK
  <2> QED
    BY <2>2, <2>3, <2>4 DEF UploadTypeOK
<1> QED
  BY <1>1, <1>2, <1>3, <1>4, <1>5, <1>6 DEF UploadStep

-----------------------------------------------------------------------------
\* Lemmas about the local variables of a call.

GoodCall(k) == /\ k \in CallRecord
               /\ k.phase \in {"mkdir", "upload"} => k.cur \in Visible
               /\ k.phase \in {"check", "remove"} => k.cur \in Entry
CallInv == call \in [Caller -> CallRecord] /\ CurrentEntry

\* The invariant, variable by variable.
LEMMA TypeInvParts ==
  TypeInv <=> /\ UploadTypeOK
              /\ MkdirTypeOK /\ MkdirOnTheWay
              /\ CallInv
              /\ rules \in Rules
              /\ plan \in [Caller -> PlanRecord]
              /\ result \in [Caller -> ResultRecord]
              /\ budget \in Budget
              /\ Clean(local)
BY DEF TypeInv, TypeOK, CallInv

LEMMA CallIsGood ==
  ASSUME CallInv, NEW c \in Caller PROVE GoodCall(call[c])
BY DEF CallInv, CurrentEntry, GoodCall

LEMMA CallUpdate ==
  ASSUME CallInv, NEW c \in Caller, NEW k, GoodCall(k), call' = [call EXCEPT ![c] = k]
  PROVE  CallInv'
BY DEF CallInv, CurrentEntry, GoodCall

Elsewhere == (Active \cup Ended) \ {"mkdir", "upload", "check", "remove"}

LEMMA GotoTypes ==
  ASSUME CallInv, NEW c \in Caller, NEW next \in Active \cup Ended, Goto(c, next),
         \/ next \in Elsewhere
         \/ next = "remove" /\ call[c].phase = "check"
  PROVE  CallInv'
<1> DEFINE k == [call[c] EXCEPT !.phase = next]
<1>1. call' = [call EXCEPT ![c] = k]
  BY DEF Goto
<1>2. call[c] \in CallRecord
  BY DEF CallInv
<1>3. k \in CallRecord /\ k.phase = next /\ k.cur = call[c].cur
  BY <1>2 DEF CallRecord
<1>4. GoodCall(k)
  BY <1>3, CallIsGood DEF GoodCall, Elsewhere
<1> QED
  BY <1>1, <1>4, CallUpdate

LEMMA NothingListedTypes == NothingListed \in [Path -> Node]
BY NodeKinds DEF NothingListed

LEMMA IdleIsGood == GoodCall(Idle)
BY NothingListedTypes, PathAssumption
   DEF GoodCall, Idle, CallRecord, Active, Planning, Ended

LEMMA PlanTypes ==
  ASSUME Clean(local), NEW listing \in [Path -> Node]
  PROVE  BuildPlan(local, listing, rules) \in PlanRecord
<1> DEFINE p == BuildPlan(local, listing, rules)
           eligible == Eligible(local, listing, rules)
<1>1. p.ToUpload \subseteq Visible
  BY DEF BuildPlan, LocalFiles, LocalAll, Clean, Entry
<1>2. DeletablePaths(listing, eligible) \subseteq Entry
  BY DEF DeletablePaths, Eligible, Candidates
<1>3. \A q \in Entry : [path |-> q, isDir |-> listing[q] = Dir] \in DeleteEntry
  BY DEF DeleteEntry
<1>4. p.ToDelete \subseteq DeleteEntry
  BY <1>2, <1>3 DEF BuildPlan
<1>5. p.SkippedSymlinks \subseteq Entry /\ p.ProtectedByIgnore \subseteq Entry
  BY DEF BuildPlan, Candidates
<1>6. p = [ToUpload |-> p.ToUpload, ToDelete |-> p.ToDelete,
           SkippedSymlinks |-> p.SkippedSymlinks,
           ProtectedByIgnore |-> p.ProtectedByIgnore]
  BY DEF BuildPlan
<1>7. SUFFICES p \in PlanRecord
  OBVIOUS
<1> HIDE DEF p
<1> QED
  BY <1>1, <1>4, <1>5, <1>6 DEF PlanRecord

LEMMA EmptyResultsTypes == EmptyPlan \in PlanRecord /\ NoResult \in ResultRecord
BY DEF EmptyPlan, PlanRecord, NoResult, ResultRecord

LEMMA FailTypes ==
  ASSUME CallInv, result \in [Caller -> ResultRecord], NEW c \in Caller,
         call[c].cur \in Entry, NEW action \in {"mkdir", "upload", "delete"},
         Fail(c, action)
  PROVE  CallInv' /\ result' \in [Caller -> ResultRecord]
<1>1. CallInv'
  BY GotoTypes DEF Fail, Elsewhere, Active, Planning
<1>2. [result[c] EXCEPT !.failed = @ \cup {<<call[c].cur, action>>}] \in ResultRecord
  BY DEF ResultRecord
<1> QED
  BY <1>1, <1>2 DEF Fail

-----------------------------------------------------------------------------
\* Every action keeps the type invariant.

LEMMA InitTypes == Init => TypeInv
<1> SUFFICES ASSUME Init PROVE TypeInv
  OBVIOUS
<1>1. Clean(local) /\ Clean(fs) /\ rules \in Rules
  BY InitAssumption DEF Init
<1>2. UploadTypeOK
  BY <1>1, MaxFaultsAssumption, UploadEndsAreRecords
     DEF Init, UploadTypeOK, SessionTypeOK, Clean
<1>3. MkdirTypeOK /\ MkdirOnTheWay
  BY DEF Init, MkdirTypeOK, MkdirRecord, MkdirOnTheWay, MkdirIdle, MkdirStages
<1>4. CallInv
  BY IdleIsGood DEF Init, CallInv, CurrentEntry, GoodCall
<1>5. plan \in [Caller -> PlanRecord] /\ result \in [Caller -> ResultRecord]
  BY EmptyResultsTypes DEF Init
<1>6. budget \in Budget
  BY InitAssumption DEF Init, Budget
<1> QED
  BY <1>1, <1>2, <1>3, <1>4, <1>5, <1>6, TypeInvParts

LEMMA BeginTypes ==
  ASSUME TypeInv, NEW c \in Caller, NEW dry \in BOOLEAN, Begin(c, dry)
  PROVE  TypeInv'
<1> USE TypeInvParts
<1> DEFINE k == [Idle EXCEPT !.phase = "stat", !.dry = dry]
<1>2. GoodCall(k)
  BY IdleIsGood DEF GoodCall, CallRecord, Active, Planning
<1>3. CallInv'
  BY <1>2, CallUpdate DEF Begin
<1>4. UploadTypeOK'
  BY UploadEndsAreRecords DEF Begin, UploadTypeOK, SessionTypeOK, env
<1>5. MkdirTypeOK' /\ MkdirOnTheWay'
  BY GoodMkdirEnds, GoodMkdirUpdate DEF Begin
<1>6. plan' \in [Caller -> PlanRecord] /\ result' \in [Caller -> ResultRecord]
  BY EmptyResultsTypes DEF Begin
<1>7. UNCHANGED <<rules, budget, local>>
  BY DEF Begin, env
<1> QED
  BY <1>3, <1>4, <1>5, <1>6, <1>7 DEF Clean, TypeInv, TypeOK, CallInv

\* A step that asks and changes nothing but the call, mk and result.
LEMMA AskKeepsUpload ==
  ASSUME UploadTypeOK, NEW c \in Caller, NEW ok \in BOOLEAN, NEW able \in BOOLEAN,
         Ask(c, ok, able), UNCHANGED <<local, now, up>>
  PROVE  UploadTypeOK'
BY AskTypes DEF UploadTypeOK

LEMMA StatBaseTypes ==
  ASSUME TypeInv, NEW c \in Caller, StatBase(c)
  PROVE  TypeInv'
<1> USE TypeInvParts
<1>1. UNCHANGED <<up, plan, result, local, now, rules, budget>>
  BY DEF StatBase, env
<1>2. UploadTypeOK'
  BY <1>1, AskKeepsUpload DEF StatBase
<1>3. CallInv'
  BY GotoTypes DEF StatBase, Elsewhere, Active, Planning, Ended
<1>4. MkdirTypeOK' /\ MkdirOnTheWay'
  <2>1. GoodMkdir(MkdirAt("stat", Base, Base))
    BY PathAssumption, OnTheWayToItself, GoodMkdirAt DEF MkdirStages
  <2>2. CASE UNCHANGED mk
    BY <2>2 DEF MkdirTypeOK, MkdirOnTheWay
  <2>3. CASE mk' = [mk EXCEPT ![c] = MkdirAt("stat", Base, Base)]
    BY <2>1, <2>3, GoodMkdirUpdate
  <2> QED
    BY <2>2, <2>3 DEF StatBase
<1> QED
  BY <1>1, <1>2, <1>3, <1>4 DEF Clean, TypeInv, TypeOK, CallInv

LEMMA MakeBaseTypes ==
  ASSUME TypeInv, NEW c \in Caller, MakeBase(c)
  PROVE  TypeInv'
<1> USE TypeInvParts
<1>1. UNCHANGED <<now, up, plan, result, rules, budget>>
  BY DEF MakeBase
<1>2. /\ SessionTypeOK' /\ MkdirTypeOK' /\ MkdirOnTheWay'
      /\ UNCHANGED local
  BY MkdirStepTypes DEF MakeBase, UploadTypeOK
<1>3. CallInv'
  <2>1. CASE UNCHANGED call
    BY <2>1 DEF CallInv, CurrentEntry
  <2>2. CASE Goto(c, "realpath") \/ Goto(c, "error")
    BY <2>2, GotoTypes DEF Elsewhere, Active, Planning, Ended
  <2> QED
    BY <2>1, <2>2 DEF MakeBase
<1> QED
  BY <1>1, <1>2, <1>3 DEF Clean, UploadTypeOK, TypeInv, TypeOK, CallInv

LEMMA ResolveBaseTypes ==
  ASSUME TypeInv, NEW c \in Caller, ResolveBase(c)
  PROVE  TypeInv'
<1> USE TypeInvParts
<1>1. UNCHANGED <<mk, up, plan, result, local, now, rules, budget>>
  BY DEF ResolveBase, env
<1>2. UploadTypeOK'
  BY <1>1, AskKeepsUpload DEF ResolveBase
<1>3. CallInv'
  <2> DEFINE k == call[c]
  <2>1. GoodCall([k EXCEPT !.phase = "list", !.todo = {Base}])
    BY CallIsGood, PathAssumption DEF GoodCall, CallRecord, Active, Planning
  <2>2. GoodCall([k EXCEPT !.phase = "error"])
    BY CallIsGood DEF GoodCall, CallRecord, Ended
  <2>3. \/ call' = [call EXCEPT ![c] = [k EXCEPT !.phase = "list", !.todo = {Base}]]
        \/ call' = [call EXCEPT ![c] = [k EXCEPT !.phase = "error"]]
    BY DEF ResolveBase
  <2> QED
    BY <2>1, <2>2, <2>3, CallUpdate
<1> QED
  BY <1>1, <1>2, <1>3 DEF Clean, MkdirTypeOK, MkdirOnTheWay, TypeInv,
                              TypeOK, CallInv

LEMMA RepliesTypes ==
  ASSUME fs \in [Path -> Node], NEW d \in Path, NEW reply \in ReadDirReplies(d)
  PROVE  /\ DOMAIN reply = Children(d) /\ Children(d) \subseteq Path
         /\ \A p \in Children(d) : reply[p] \in Node
<1>1. Children(d) \subseteq Path
  BY DEF Children, Entry
<1>2. \A x \in Content : File(x, 0) \in Node
  BY NodeKinds
<1>3. CASE fs[d] = Link \/ LeadsOut(fs, d)
  BY <1>1, <1>2, <1>3, NodeKinds DEF ReadDirReplies
<1>4. CASE ~(fs[d] = Link \/ LeadsOut(fs, d))
  BY <1>1, <1>4 DEF ReadDirReplies
<1> QED
  BY <1>1, <1>3, <1>4

LEMMA ListTypes ==
  ASSUME TypeInv, NEW c \in Caller, List(c)
  PROVE  TypeInv'
<1> USE TypeInvParts
<1> DEFINE k == call[c]
           more(reply) == {p \in DOMAIN reply : reply[p] = Dir}
           left(d, reply) == (k.todo \ {d}) \cup more(reply)
           seen(reply) == [p \in Path |-> IF p \in DOMAIN reply THEN reply[p]
                                                               ELSE k.listing[p]]
           next(d, reply) ==
             [k EXCEPT !.listing = seen(reply), !.todo = left(d, reply),
                       !.phase = IF left(d, reply) = {} THEN "plan" ELSE "list"]
<1>1. UNCHANGED <<mk, up, plan, result, local, now, rules, budget>>
  BY DEF List, env
<1>2. k \in CallRecord /\ GoodCall(k)
  BY CallIsGood DEF CallInv
<1>3. PICK d \in k.todo : \E reply \in ReadDirReplies(d), ok \in BOOLEAN :
        /\ \E able \in Readable(d) : Ask(c, ok, able)
        /\ call' = [call EXCEPT ![c] = IF ok THEN next(d, reply)
                                       ELSE [k EXCEPT !.phase = "error"]]
  BY DEF List
<1>4. PICK reply \in ReadDirReplies(d), ok \in BOOLEAN :
        /\ \E able \in Readable(d) : Ask(c, ok, able)
        /\ call' = [call EXCEPT ![c] = IF ok THEN next(d, reply)
                                       ELSE [k EXCEPT !.phase = "error"]]
  BY <1>3
<1>5. Readable(d) \subseteq BOOLEAN
  BY DEF Readable
<1>6. UploadTypeOK'
  BY <1>1, <1>4, <1>5, AskKeepsUpload
<1>7. d \in Path /\ fs \in [Path -> Node]
  BY <1>2 DEF CallRecord, UploadTypeOK, SessionTypeOK
<1>8. seen(reply) \in [Path -> Node]
  BY <1>2, <1>7, RepliesTypes DEF CallRecord
<1>9. left(d, reply) \subseteq Path
  BY <1>2, <1>7, RepliesTypes DEF CallRecord
<1>10. GoodCall(next(d, reply))
  <2> DEFINE sn == seen(reply)
             lf == left(d, reply)
             n == [k EXCEPT !.listing = sn, !.todo = lf,
                            !.phase = IF lf = {} THEN "plan" ELSE "list"]
  <2>1. sn \in [Path -> Node] /\ lf \in SUBSET Path
    BY <1>8, <1>9
  <2> HIDE DEF sn, lf
  <2>2. n \in CallRecord /\ n.phase \in {"plan", "list"}
    BY <1>2, <2>1 DEF CallRecord, Active, Planning
  <2>3. GoodCall(n)
    BY <2>2 DEF GoodCall
  <2> QED
    BY <2>3 DEF sn, lf
<1>11. GoodCall([k EXCEPT !.phase = "error"])
  BY <1>2 DEF GoodCall, CallRecord, Ended
<1>12. CallInv'
  BY <1>4, <1>10, <1>11, CallUpdate
<1> QED
  BY <1>1, <1>6, <1>12 DEF Clean, MkdirTypeOK, MkdirOnTheWay, TypeInv, TypeOK, CallInv

LEMMA PlanStepTypes ==
  ASSUME TypeInv, NEW c \in Caller, Plan(c)
  PROVE  TypeInv'
<1> USE TypeInvParts
<1> DEFINE k == call[c]
           p == BuildPlan(local, k.listing, rules)
<1>1. UNCHANGED <<session, mk, up, result, now, rules, budget>>
  BY DEF Plan
<1>2. k \in CallRecord /\ GoodCall(k)
  BY CallIsGood DEF CallInv
<1>3. p \in PlanRecord
  BY <1>2, PlanTypes DEF CallRecord
<1>4. /\ plan' = [plan EXCEPT ![c] = p]
      /\ call' = [call EXCEPT ![c] =
           IF k.dry THEN [k EXCEPT !.phase = "done", !.listing = NothingListed]
           ELSE [k EXCEPT !.phase = "next", !.listing = NothingListed,
                          !.uploads = p.ToUpload, !.deletes = p.ToDelete]]
  BY DEF Plan, Planned, Applying
<1> HIDE DEF p
<1>5. GoodCall([k EXCEPT !.phase = "done", !.listing = NothingListed])
  BY <1>2, NothingListedTypes DEF GoodCall, CallRecord, Ended
<1>6. GoodCall([k EXCEPT !.phase = "next", !.listing = NothingListed,
                         !.uploads = p.ToUpload, !.deletes = p.ToDelete])
  BY <1>2, <1>3, NothingListedTypes DEF GoodCall, CallRecord, PlanRecord, Active, Planning
<1>7. CallInv'
  BY <1>4, <1>5, <1>6, CallUpdate
<1>8. plan' \in [Caller -> PlanRecord]
  BY <1>3, <1>4
<1> QED
  BY <1>1, <1>7, <1>8 DEF Clean, MkdirTypeOK, MkdirOnTheWay, UploadTypeOK,
     SessionTypeOK, session, TypeInv, TypeOK, CallInv

LEMMA PlanFailsTypes ==
  ASSUME TypeInv, NEW c \in Caller, PlanFails(c)
  PROVE  TypeInv'
<1> USE TypeInvParts
<1>1. UNCHANGED <<fs, conn, mk, up, plan, result, local, now, rules, budget>>
  BY DEF PlanFails, env
<1>2. CallInv'
  BY GotoTypes DEF PlanFails, Elsewhere, Ended
<1>3. faults' \in 0 .. MaxFaults
  BY MaxFaultsAssumption DEF PlanFails, UploadTypeOK, SessionTypeOK
<1> QED
  BY <1>1, <1>2, <1>3 DEF Clean, MkdirTypeOK, MkdirOnTheWay, UploadTypeOK,
     SessionTypeOK, TypeInv, TypeOK, CallInv

LEMMA NextEntryTypes ==
  ASSUME TypeInv, NEW c \in Caller, NextEntry(c)
  PROVE  TypeInv'
<1> USE TypeInvParts
<1> DEFINE k == call[c]
<1>1. UNCHANGED <<session, now, rules, budget, plan, result>>
  BY DEF NextEntry
<1>2. k \in CallRecord /\ GoodCall(k)
  BY CallIsGood DEF CallInv
<1>3. ASSUME NEW p \in k.uploads,
             call' = [call EXCEPT ![c] =
               [k EXCEPT !.uploads = @ \ {p}, !.cur = p,
                         !.phase = IF Parent(p) \in k.made THEN "upload" ELSE "mkdir"]],
             up' = [up EXCEPT ![c] = NotStarted],
             mk' = [mk EXCEPT ![c] = MkdirAt("stat", Parent(p), Parent(p))]
      PROVE  /\ CallInv' /\ MkdirTypeOK' /\ MkdirOnTheWay'
             /\ up' \in [Caller -> UploadRecord]
  <2>1. p \in Visible /\ p \in Entry /\ p \in Path
    BY <1>2, TempsAreEntries DEF CallRecord
  <2>2. ASSUME NEW s \in {"upload", "mkdir"}
        PROVE  GoodCall([k EXCEPT !.uploads = @ \ {p}, !.cur = p, !.phase = s])
    BY <1>2, <2>1 DEF GoodCall, CallRecord, Active, Planning
  <2>3. CallInv'
    <3> DEFINE s == IF Parent(p) \in k.made THEN "upload" ELSE "mkdir"
    <3>1. s \in {"upload", "mkdir"}
      OBVIOUS
    <3>2. call' = [call EXCEPT ![c] = [k EXCEPT !.uploads = @ \ {p}, !.cur = p, !.phase = s]]
      BY <1>3
    <3> HIDE DEF s
    <3> QED
      BY <2>2, <3>1, <3>2, CallUpdate
  <2>4. GoodMkdir(MkdirAt("stat", Parent(p), Parent(p)))
    BY <2>1, ParentInPath, OnTheWayToItself, GoodMkdirAt DEF MkdirStages
  <2>5. MkdirTypeOK' /\ MkdirOnTheWay'
    BY <1>3, <2>4, GoodMkdirUpdate
  <2> QED
    BY <1>3, <2>3, <2>5, UploadEndsAreRecords DEF UploadTypeOK
<1>4. ASSUME NEW d \in DeletableNow(k.deletes),
             call' = [call EXCEPT ![c] =
               [k EXCEPT !.deletes = @ \ {d}, !.cur = d.path, !.isDir = d.isDir,
                         !.phase = "check"]]
      PROVE  CallInv'
  <2>1. d \in DeleteEntry
    BY <1>2 DEF CallRecord, DeletableNow
  <2>2. d.path \in Entry /\ d.isDir \in BOOLEAN
    BY <2>1 DEF DeleteEntry
  <2>3. GoodCall([k EXCEPT !.deletes = @ \ {d}, !.cur = d.path, !.isDir = d.isDir,
                           !.phase = "check"])
    BY <1>2, <2>2 DEF GoodCall, CallRecord, Active, Planning, Entry
  <2> QED
    BY <1>4, <2>3, CallUpdate
<1>5. ASSUME Goto(c, "done") PROVE CallInv'
  BY <1>5, GotoTypes DEF Elsewhere, Ended
<1>6. CallInv'
  BY <1>3, <1>4, <1>5 DEF NextEntry
<1>7. /\ MkdirTypeOK' /\ MkdirOnTheWay'
      /\ up' \in [Caller -> UploadRecord]
  <2>1. CASE UNCHANGED <<mk, up>>
    BY <2>1 DEF MkdirTypeOK, MkdirOnTheWay, UploadTypeOK
  <2> QED
    BY <1>3, <2>1 DEF NextEntry
<1> QED
  BY <1>1, <1>6, <1>7 DEF Clean, UploadTypeOK, SessionTypeOK, session,
     TypeInv, TypeOK, CallInv

LEMMA MakeParentsTypes ==
  ASSUME TypeInv, NEW c \in Caller, MakeParents(c)
  PROVE  TypeInv'
<1> USE TypeInvParts
<1> DEFINE k == call[c]
<1>1. UNCHANGED <<now, up, plan, rules, budget>>
  BY DEF MakeParents
<1>2. /\ SessionTypeOK' /\ MkdirTypeOK' /\ MkdirOnTheWay'
      /\ UNCHANGED local
  BY MkdirStepTypes DEF MakeParents, UploadTypeOK
<1>3. k \in CallRecord /\ k.cur \in Visible /\ k.cur \in Entry
  BY CallIsGood, TempsAreEntries DEF CallInv, GoodCall, MakeParents
<1>4. CASE UNCHANGED <<call, result>>
  BY <1>1, <1>2, <1>4 DEF Clean, UploadTypeOK, TypeInv, TypeOK, CallInv, CurrentEntry
<1>5. CASE Fail(c, "mkdir")
  <2>1. CallInv' /\ result' \in [Caller -> ResultRecord]
    BY <1>3, <1>5, FailTypes
  <2> QED
    BY <1>1, <1>2, <2>1 DEF Clean, UploadTypeOK, TypeInv, TypeOK, CallInv
<1>6. CASE /\ call' = [call EXCEPT ![c].phase = "upload",
                                   ![c].made = @ \cup {Parent(call[c].cur)}]
           /\ UNCHANGED result
  <2> DEFINE n == [k EXCEPT !.phase = "upload", !.made = @ \cup {Parent(k.cur)}]
  <2>1. Parent(k.cur) \in Path
    BY <1>3, ParentInPath
  <2>2. GoodCall(n)
    BY <1>3, <2>1 DEF GoodCall, CallRecord, Active, Planning
  <2>3. call' = [call EXCEPT ![c] = n]
    BY <1>6
  <2>4. CallInv'
    BY <2>2, <2>3, CallUpdate
  <2> QED
    BY <1>1, <1>2, <1>6, <2>4 DEF Clean, UploadTypeOK, TypeInv, TypeOK, CallInv
<1> QED
  BY <1>4, <1>5, <1>6 DEF MakeParents

LEMMA ReportTypes ==
  ASSUME result \in [Caller -> ResultRecord], NEW c \in Caller, NEW p \in Entry,
         \/ result' = [result EXCEPT ![c].uploaded = @ \cup {p}]
         \/ result' = [result EXCEPT ![c].deleted = @ \cup {p}]
  PROVE  result' \in [Caller -> ResultRecord]
<1>1. /\ [result[c] EXCEPT !.uploaded = @ \cup {p}] \in ResultRecord
      /\ [result[c] EXCEPT !.deleted = @ \cup {p}] \in ResultRecord
  BY DEF ResultRecord
<1> QED
  BY <1>1

LEMMA UploadEntryTypes ==
  ASSUME TypeInv, NEW c \in Caller, UploadEntry(c)
  PROVE  TypeInv'
<1> USE TypeInvParts
<1> DEFINE p == call[c].cur
<1>1. UNCHANGED <<mk, plan, rules, budget>>
  BY DEF UploadEntry
<1>2. p \in Visible /\ p \in Entry
  BY CallIsGood, TempsAreEntries DEF GoodCall, UploadEntry
<1>3. UploadTypeOK' /\ UNCHANGED local
  BY <1>2, UploadStartTypes, UploadStepTypes DEF UploadEntry
<1>4. CASE UNCHANGED <<call, result>>
  BY <1>1, <1>3, <1>4 DEF Clean, MkdirTypeOK, MkdirOnTheWay, TypeInv, TypeOK,
     CallInv, CurrentEntry
<1>5. CASE Fail(c, "upload")
  <2>1. CallInv' /\ result' \in [Caller -> ResultRecord]
    BY <1>2, <1>5, FailTypes
  <2> QED
    BY <1>1, <1>3, <2>1 DEF Clean, MkdirTypeOK, MkdirOnTheWay, TypeInv, TypeOK, CallInv
<1>6. CASE /\ result' = [result EXCEPT ![c].uploaded = @ \cup {p}]
           /\ Goto(c, "next")
  <2>1. result' \in [Caller -> ResultRecord]
    BY <1>2, <1>6, ReportTypes
  <2>2. CallInv'
    BY <1>6, GotoTypes DEF Elsewhere, Active, Planning
  <2> QED
    BY <1>1, <1>3, <2>1, <2>2 DEF Clean, MkdirTypeOK, MkdirOnTheWay, TypeInv, TypeOK, CallInv
<1> QED
  BY <1>4, <1>5, <1>6 DEF UploadEntry

LEMMA CheckDeleteTypes ==
  ASSUME TypeInv, NEW c \in Caller, CheckDelete(c)
  PROVE  TypeInv'
<1> USE TypeInvParts
<1>1. UNCHANGED <<mk, up, plan, local, now, rules, budget>>
  BY DEF CheckDelete, env
<1>2. UploadTypeOK'
  BY <1>1, AskKeepsUpload DEF CheckDelete
<1>3. call[c].cur \in Entry
  BY CallIsGood DEF GoodCall, CheckDelete
<1>4. CallInv' /\ result' \in [Caller -> ResultRecord]
  <2>1. CASE Fail(c, "delete")
    BY <1>3, <2>1, FailTypes
  <2>2. CASE Goto(c, "remove") /\ UNCHANGED result
    BY <2>2, GotoTypes DEF CheckDelete, Active, Planning
  <2> QED
    BY <2>1, <2>2 DEF CheckDelete
<1> QED
  BY <1>1, <1>2, <1>4 DEF Clean, MkdirTypeOK, MkdirOnTheWay, TypeInv, TypeOK, CallInv

LEMMA RemoveEntryTypes ==
  ASSUME TypeInv, NEW c \in Caller, RemoveEntry(c)
  PROVE  TypeInv'
<1> USE TypeInvParts
<1> DEFINE p == call[c].cur
           able == IF call[c].isDir THEN IsEmptyDir(fs, p) ELSE CanRemove(fs, p)
<1>1. UNCHANGED <<mk, up, plan, local, now, rules, budget>>
  BY DEF RemoveEntry, env
<1>2. p \in Entry /\ p \in Path
  BY CallIsGood DEF GoodCall, RemoveEntry, Entry
<1>3. PICK ok \in BOOLEAN :
        /\ RequestAt(c, ok, p, able, Without(fs, p))
        /\ IF ok THEN /\ result' = [result EXCEPT ![c].deleted = @ \cup {p}]
                      /\ Goto(c, "next")
                 ELSE Fail(c, "delete")
  BY DEF RemoveEntry
<1>4. able \in BOOLEAN
  BY DEF IsEmptyDir, CanRemove
<1>5. Without(fs, p) \in [Path -> Node]
  BY <1>2, MovedTypes DEF UploadTypeOK, SessionTypeOK
<1>6. UploadTypeOK'
  BY <1>1, <1>3, <1>4, <1>5, RequestAtTypes DEF UploadTypeOK
<1>7. CallInv' /\ result' \in [Caller -> ResultRecord]
  <2>1. CASE Fail(c, "delete")
    BY <1>2, <2>1, FailTypes
  <2>2. CASE result' = [result EXCEPT ![c].deleted = @ \cup {p}] /\ Goto(c, "next")
    BY <1>2, <2>2, ReportTypes, GotoTypes DEF Elsewhere, Active, Planning
  <2> QED
    BY <1>3, <2>1, <2>2
<1> QED
  BY <1>1, <1>6, <1>7 DEF Clean, MkdirTypeOK, MkdirOnTheWay, TypeInv, TypeOK, CallInv

LEMMA CrashTypes ==
  ASSUME TypeInv, NEW c \in Caller, Crash(c)
  PROVE  TypeInv'
<1> USE TypeInvParts
<1>1. UNCHANGED <<session, now, rules, plan, result>>
  BY DEF Crash
<1>2. GoodCall([Idle EXCEPT !.phase = "crashed"])
  BY IdleIsGood DEF GoodCall, CallRecord, Ended
<1>3. CallInv'
  BY <1>2, CallUpdate DEF Crash
<1>4. MkdirTypeOK' /\ MkdirOnTheWay'
  BY GoodMkdirEnds, GoodMkdirUpdate DEF Crash
<1>5. UploadTypeOK'
  BY <1>1, UploadEndsAreRecords DEF Crash, UploadTypeOK, SessionTypeOK, session
<1>6. budget' \in Budget
  BY InitAssumption DEF Crash, Budget
<1> QED
  BY <1>1, <1>3, <1>4, <1>5, <1>6 DEF Clean, session, TypeInv, TypeOK, CallInv

\* One change by somebody puts a node that is not half-written at a visible
\* path, or turns a part of the tree into a link.
LEMMA ChangeIsWhole ==
  ASSUME NEW t \in [Path -> Node], NEW stamp \in Int, NEW t2, Changes(t, t2, stamp)
  PROVE  \E p \in Visible, n \in Node : ~IsTorn(n) /\ t2 = [t EXCEPT ![p] = n]
<1>1. /\ ~IsTorn(Absent) /\ ~IsTorn(Dir)
      /\ \A d \in Content : ~IsTorn(File(d, stamp)) /\ File(d, stamp) \in Node
  BY ContentAssumption, NodeKinds DEF IsTorn, IsFile, Absent, Dir, File
<1>2. \/ \E p \in Visible, d \in Content : t2 = [t EXCEPT ![p] = File(d, stamp)]
      \/ \E p \in Visible : t2 = [t EXCEPT ![p] = Dir]
      \/ \E p \in Visible : t2 = [t EXCEPT ![p] = Absent]
  BY DEF Changes, Without
<1> QED
  BY <1>1, <1>2, NodeKinds

LEMMA RelocationOnlyRemoves ==
  ASSUME NEW t \in [Path -> Node], NEW t2, Relocates(t, t2)
  PROVE  /\ t2 \in [Path -> Node]
         /\ \A q \in Path : t2[q] \in {Link, Absent, t[q]}
<1>1. PICK p \in Visible :
        t2 = [q \in Path |-> IF q = p THEN Link
                             ELSE IF Under(q, p) THEN Absent ELSE t[q]]
  BY DEF Relocates
<1> QED
  BY <1>1, NodeKinds

LEMMA EditLocalTypes ==
  ASSUME TypeInv, EditLocal
  PROVE  TypeInv'
<1> USE TypeInvParts
<1>1. UNCHANGED <<fs, conn, faults, now, rules, mk, up, call, plan, result>>
  BY DEF EditLocal, own
<1>2. local \in [Path -> Node] /\ now \in Int
  BY DEF UploadTypeOK, SessionTypeOK
<1>3. PICK p \in Visible, n \in Node : ~IsTorn(n) /\ local' = [local EXCEPT ![p] = n]
  BY <1>2, ChangeIsWhole DEF EditLocal
<1>4. local' \in [Path -> Node] /\ Clean(local')
  BY <1>2, <1>3 DEF Clean
<1>5. budget' \in Budget
  BY InitAssumption DEF EditLocal, Budget
<1> QED
  BY <1>1, <1>4, <1>5 DEF MkdirTypeOK, MkdirOnTheWay, UploadTypeOK,
     SessionTypeOK, TypeInv, TypeOK, CallInv, CurrentEntry

LEMMA ChangeRemoteTypes ==
  ASSUME TypeInv, ChangeRemote
  PROVE  TypeInv'
<1> USE TypeInvParts
<1>1. UNCHANGED <<local, conn, faults, now, rules, mk, up, call, plan, result>>
  BY DEF ChangeRemote, own
<1>2. fs \in [Path -> Node] /\ Stamp \in Int
  BY StampInt DEF UploadTypeOK, SessionTypeOK
<1>3. fs' \in [Path -> Node]
  BY <1>2, ChangeIsWhole, RelocationOnlyRemoves DEF ChangeRemote
<1>4. budget' \in Budget
  BY InitAssumption DEF ChangeRemote, Budget
<1> QED
  BY <1>1, <1>3, <1>4 DEF Clean, MkdirTypeOK, MkdirOnTheWay, UploadTypeOK,
     SessionTypeOK, TypeInv, TypeOK, CallInv, CurrentEntry

LEMMA TickTypes ==
  ASSUME TypeInv, Tick
  PROVE  TypeInv'
<1> USE TypeInvParts
<1>1. UNCHANGED <<session, rules, budget, mk, up, call, plan, result>>
  BY DEF Tick, own
<1>2. now' \in Nat
  BY DEF Tick, UploadTypeOK
<1> QED
  BY <1>1, <1>2 DEF Clean, MkdirTypeOK, MkdirOnTheWay, UploadTypeOK,
     SessionTypeOK, session, TypeInv, TypeOK, CallInv, CurrentEntry

LEMMA StutterTypes ==
  ASSUME TypeInv, UNCHANGED vars
  PROVE  TypeInv'
<1> USE TypeInvParts
<1> QED
  BY DEF vars, own, session, Clean, MkdirTypeOK, MkdirOnTheWay, UploadTypeOK,
     SessionTypeOK, TypeInv, TypeOK, CallInv, CurrentEntry

LEMMA CallStepTypes ==
  ASSUME TypeInv, NEW c \in Caller, CallStep(c)
  PROVE  TypeInv'
BY StatBaseTypes, MakeBaseTypes, ResolveBaseTypes, ListTypes,
   PlanStepTypes, PlanFailsTypes, NextEntryTypes, MakeParentsTypes,
   UploadEntryTypes, CheckDeleteTypes, RemoveEntryTypes DEF CallStep

LEMMA NextTypes == TypeInv /\ [Next]_vars => TypeInv'
<1> SUFFICES ASSUME TypeInv, [Next]_vars PROVE TypeInv'
  OBVIOUS
<1>1. ASSUME NEW c \in Caller, CallStep(c) PROVE TypeInv'
  BY <1>1, CallStepTypes
<1>2. ASSUME NEW c \in Caller, NEW dry \in DryRuns, Begin(c, dry) PROVE TypeInv'
  BY <1>2, BeginTypes, InitAssumption
<1>3. ASSUME NEW c \in Caller, Crash(c) PROVE TypeInv'
  BY <1>3, CrashTypes
<1>4. ASSUME Environment PROVE TypeInv'
  BY <1>4, EditLocalTypes, ChangeRemoteTypes, TickTypes DEF Environment
<1>5. ASSUME UNCHANGED vars PROVE TypeInv'
  BY <1>5, StutterTypes
<1> QED
  BY <1>1, <1>2, <1>3, <1>4, <1>5 DEF Next

\* The variables of every call, and both trees, keep their types.
THEOREM TypeCorrect == Spec => []TypeOK
<1>1. TypeInv => TypeOK
  BY DEF TypeInv
<1> QED
  BY InitTypes, NextTypes, <1>1, PTL DEF Spec

-----------------------------------------------------------------------------
(***************************************************************************)
(* No visible file is half-written.                                        *)
(***************************************************************************)
TornInv == WholeWhenMoved /\ NoTornFile

Moving == {"posix", "plain", "clear", "again"}

\* A step tears no file, and every upload it does not end keeps its temporary
\* name and does not get to moving it.
TearsNothing == \A q \in Path : IsTorn(fs'[q]) => IsTorn(fs[q])
KeepsUploads ==
  \A d \in Caller :
    \/ ~Busy(d)'
    \/ /\ Busy(d) /\ up'[d].tmp = up[d].tmp
       /\ up'[d].at \in Moving => up[d].at \in Moving

LEMMA Harmless ==
  ASSUME UploadTypeOK, TornInv, TearsNothing, KeepsUploads
  PROVE  TornInv'
<1>1. NoTornFile'
  BY TempsAreEntries DEF TornInv, NoTornFile, TearsNothing
<1>2. ASSUME NEW c \in Caller, NEW d \in Caller,
             Busy(c)', Busy(d)', up'[c].tmp = up'[d].tmp
      PROVE  c = d
  BY <1>2 DEF KeepsUploads, TornInv, WholeWhenMoved
<1>3. ASSUME NEW c \in Caller, up'[c].at \in Moving
      PROVE  ~IsTorn(fs'[up'[c].tmp])
  <2>1. Busy(c)'
    BY <1>3 DEF Busy, Stages, Moving
  <2>2. Busy(c) /\ up'[c].tmp = up[c].tmp /\ up[c].at \in Moving
    BY <1>3, <2>1 DEF KeepsUploads
  <2>3. up[c].tmp \in Path
    BY <2>2, BusyPaths
  <2> QED
    BY <2>2, <2>3 DEF TornInv, WholeWhenMoved, TearsNothing, Moving
<1> QED
  BY <1>1, <1>2, <1>3 DEF TornInv, WholeWhenMoved, Moving

LEMMA TornlessNodes == ~IsTorn(Absent) /\ ~IsTorn(Dir) /\ ~IsTorn(Link)
BY DEF IsTorn, IsFile, Absent, Dir, Link

\* Steps that leave all uploads as they are, or end some.
LEMMA UploadsUnchanged ==
  ASSUME NEW c, \/ UNCHANGED up
                \/ up' = [up EXCEPT ![c] = NotStarted]
                \/ up' = [up EXCEPT ![c] = Succeeded]
                \/ up' = [up EXCEPT ![c] = GaveUp],
         UploadTypeOK
  PROVE  KeepsUploads
BY DEF KeepsUploads, Busy, Stages, NotStarted, Succeeded, GaveUp, UploadTypeOK

LEMMA StartKeepsTorn ==
  ASSUME UploadTypeOK, TornInv, NEW c \in Caller,
         NEW src \in Visible, NEW dst \in Visible, UploadStart(c, src, dst)
  PROVE  TornInv'
<1>1. CASE UNCHANGED fs /\ up' = [up EXCEPT ![c] = GaveUp]
  <2>1. TearsNothing /\ KeepsUploads
    BY <1>1, UploadsUnchanged DEF TearsNothing
  <2> QED
    BY <2>1, Harmless
<1>2. ASSUME NEW d \in Sources(src), NEW t \in FreshTemps(dst), NEW ok \in BOOLEAN,
             RequestAt(c, ok, t, CanCreate(fs, t), [fs EXCEPT ![t] = File(Torn, Stamp)]),
             up' = [up EXCEPT ![c] =
                      IF ok THEN [at |-> "write", src |-> src, dst |-> dst,
                                  tmp |-> t, data |-> d]
                            ELSE GaveUp]
      PROVE  TornInv'
  <2>1. t \in Temps /\ t \in Path /\ t \notin Visible /\ t \notin InUse
    BY TempsAreEntries DEF FreshTemps
  <2>2. fs' = fs \/ fs' = [fs EXCEPT ![t] = File(Torn, Stamp)]
    <3>1. CanCreate(fs, t) \in BOOLEAN
      BY DEF CanCreate
    <3> QED
      BY <1>2, <3>1, RequestAtEffect
  <2>3. \A q \in Path : q # t => fs'[q] = fs[q]
    BY <2>2 DEF UploadTypeOK, SessionTypeOK
  <2>4. NoTornFile'
    BY <2>1, <2>3, TempsAreEntries DEF TornInv, NoTornFile
  <2>5. ASSUME NEW e \in Caller, e # c PROVE up'[e] = up[e]
    BY <1>2, <2>5 DEF UploadTypeOK
  <2>6. Busy(c)' => up'[c].tmp = t /\ up'[c].at = "write"
    BY <1>2 DEF UploadTypeOK, Busy, Stages, GaveUp
  <2>7. ASSUME NEW e \in Caller, e # c, Busy(e)' PROVE Busy(e) /\ up[e].tmp # t
    BY <2>1, <2>5, <2>7 DEF Busy, InUse
  <2>8. ASSUME NEW e \in Caller, NEW f \in Caller,
               Busy(e)', Busy(f)', up'[e].tmp = up'[f].tmp
        PROVE  e = f
    BY <2>5, <2>6, <2>7, <2>8 DEF TornInv, WholeWhenMoved
  <2>9. ASSUME NEW e \in Caller, up'[e].at \in Moving
        PROVE  ~IsTorn(fs'[up'[e].tmp])
    <3>1. Busy(e)'
      BY <2>9 DEF Busy, Stages, Moving
    <3>2. e # c
      BY <2>6, <2>9, <3>1 DEF Moving
    <3>3. Busy(e) /\ up[e].tmp # t /\ up'[e] = up[e]
      BY <2>5, <2>7, <3>1, <3>2
    <3>4. up[e].tmp \in Path
      BY <3>3, BusyPaths
    <3> QED
      BY <2>3, <2>9, <3>3, <3>4 DEF TornInv, WholeWhenMoved, Moving
  <2> QED
    BY <2>4, <2>8, <2>9 DEF TornInv, WholeWhenMoved, Moving
<1> QED
  BY <1>1, <1>2 DEF UploadStart

LEMMA WriteKeepsTorn ==
  ASSUME UploadTypeOK, Clean(local), TornInv, NEW c \in Caller, WriteTemp(c)
  PROVE  TornInv'
<1> DEFINE u == up[c]
           contents == {u.data} \cup (IF IsFile(local[u.src])
                                      THEN {local[u.src].data} ELSE {})
           new(d) == IF fs[u.tmp] = Absent THEN fs
                     ELSE [fs EXCEPT ![u.tmp] = File(d, Stamp)]
<1>1. PICK d \in contents, ok \in BOOLEAN :
        /\ Request(c, ok, u.data # Torn, new(d))
        /\ MoveOn(c, IF ok THEN "posix" ELSE "cleanup")
  BY DEF WriteTemp, AfterWrite
<1>2. Busy(c)
  BY DEF WriteTemp, Busy, Stages
<1>3. /\ u.src \in Path /\ u.tmp \in Path /\ u.tmp \in Temps /\ u.tmp \notin Visible
      /\ u.data \in Content \cup {Torn}
  BY <1>2, BusyRecord, BusyPaths, TempsAreEntries
<1>4. fs \in [Path -> Node]
  BY DEF UploadTypeOK, SessionTypeOK
<1>5. /\ fs' = fs \/ (fs' = new(d) /\ u.data # Torn)
      /\ ok => u.data # Torn /\ fs' = new(d)
  BY <1>1, RequestEffect
<1>6. u.data # Torn => ~IsTorn(File(d, Stamp))
  <2>1. IsFile(local[u.src]) => local[u.src].data # Torn
    BY <1>3 DEF Clean, IsTorn
  <2> QED
    BY <2>1 DEF IsTorn, IsFile, File
<1>7. TearsNothing
  BY <1>4, <1>3, <1>5, <1>6 DEF TearsNothing
<1>8. ok => ~IsTorn(fs'[u.tmp])
  BY <1>3, <1>4, <1>5, <1>6, TornlessNodes
<1>9. PICK s \in {"posix", "cleanup"} :
        /\ up' = [up EXCEPT ![c] = [u EXCEPT !.at = s]]
        /\ s = "posix" => ok
  BY <1>1, <1>2, MoveOnTypes DEF Stages
<1>10. /\ up'[c].tmp = u.tmp /\ up'[c].at = s
       /\ \A e \in Caller : e # c => up'[e] = up[e]
  <2>1. up'[c] = [u EXCEPT !.at = s]
    BY <1>9 DEF UploadTypeOK
  <2>2. u \in [at : Stages, src : Visible, dst : Visible, tmp : Temps,
                data : Content \cup {Torn}]
    BY <1>2 DEF UploadTypeOK, UploadRecord, Busy, Stages, NotStarted, Succeeded, GaveUp
  <2> QED
    BY <1>9, <2>1, <2>2 DEF UploadTypeOK
<1>11. NoTornFile'
  BY <1>7, TempsAreEntries DEF TornInv, NoTornFile, TearsNothing
<1>12. \A e \in Caller : Busy(e)' => Busy(e) /\ up'[e].tmp = up[e].tmp
  BY <1>2, <1>10 DEF Busy
<1>13. ASSUME NEW e \in Caller, up'[e].at \in Moving
       PROVE  ~IsTorn(fs'[up'[e].tmp])
  <2>1. CASE e = c
    BY <1>8, <1>9, <1>10, <1>13, <2>1 DEF Moving
  <2>2. CASE e # c
    <3>1. up'[e] = up[e] /\ Busy(e) /\ up[e].at \in Moving
      BY <1>10, <1>13, <2>2 DEF Busy, Stages, Moving
    <3>2. up[e].tmp \in Path
      BY <3>1, BusyPaths
    <3> QED
      BY <1>7, <3>1, <3>2 DEF TornInv, WholeWhenMoved, TearsNothing, Moving
  <2> QED
    BY <2>1, <2>2
<1> QED
  BY <1>11, <1>12, <1>13 DEF TornInv, WholeWhenMoved, Moving

\* Giving up on a way to rename, or on the upload, starts no move.
LEMMA MoveOnKeepsUploads ==
  ASSUME UploadTypeOK, NEW c \in Caller, Busy(c), NEW s \in Stages, MoveOn(c, s),
         s \in Moving => up[c].at \in Moving
  PROVE  KeepsUploads
<1>1. up' = [up EXCEPT ![c] = [up[c] EXCEPT !.at = s]]
  BY MoveOnTypes
<1>2. up[c] \in [at : Stages, src : Visible, dst : Visible, tmp : Temps,
                 data : Content \cup {Torn}]
  BY DEF UploadTypeOK, UploadRecord, Busy, Stages, NotStarted, Succeeded, GaveUp
<1>3. up'[c] = [up[c] EXCEPT !.at = s]
  BY <1>1 DEF UploadTypeOK
<1>4. up'[c].tmp = up[c].tmp /\ up'[c].at = s
  BY <1>2, <1>3
<1>5. \A d \in Caller : d # c => up'[d] = up[d]
  BY <1>1 DEF UploadTypeOK
<1> QED
  BY <1>4, <1>5 DEF KeepsUploads, Busy

LEMMA RenameKeepsTorn ==
  ASSUME UploadTypeOK, TornInv, NEW c \in Caller, up[c].at \in Moving,
         NEW able \in BOOLEAN, NEW next \in Stages, RenameBy(c, able, next)
  PROVE  TornInv'
<1> DEFINE u == up[c]
<1>1. PICK ok \in BOOLEAN :
        /\ RequestAt(c, ok, u.dst, able, Moved(fs, u.tmp, u.dst))
        /\ IF ok THEN up' = [up EXCEPT ![c] = Succeeded] ELSE MoveOn(c, next)
  BY DEF RenameBy
<1>2. Busy(c)
  BY DEF Moving, Busy, Stages
<1>3. u.tmp \in Path /\ u.dst \in Path /\ ~IsTorn(fs[u.tmp]) /\ fs \in [Path -> Node]
  BY <1>2, BusyPaths DEF TornInv, WholeWhenMoved, Moving, UploadTypeOK, SessionTypeOK
<1>4. fs' = fs \/ fs' = Moved(fs, u.tmp, u.dst)
  BY <1>1, RequestAtEffect
<1>5. TearsNothing
  BY <1>3, <1>4, TornlessNodes DEF TearsNothing, Moved
<1>6. KeepsUploads
  BY <1>1, <1>2, UploadsUnchanged, MoveOnKeepsUploads
<1> QED
  BY <1>5, <1>6, Harmless

LEMMA RemovalTearsNothing ==
  ASSUME UploadTypeOK, NEW c \in Caller, NEW ok \in BOOLEAN, NEW p \in Path,
         NEW able \in BOOLEAN, RequestAt(c, ok, p, able, Without(fs, p))
  PROVE  TearsNothing
<1>1. fs' = fs \/ fs' = Without(fs, p)
  BY RequestAtEffect
<1> QED
  BY <1>1, TornlessNodes DEF TearsNothing, Without, UploadTypeOK, SessionTypeOK

LEMMA UploadStepKeepsTorn ==
  ASSUME UploadTypeOK, Clean(local), TornInv, NEW c \in Caller, UploadStep(c)
  PROVE  TornInv'
<1>1. CASE WriteTemp(c)
  BY <1>1, WriteKeepsTorn
<1>2. CASE PosixRename(c)
  <2>1. (HasPosixRename /\ CanReplace(fs, up[c].tmp, up[c].dst)) \in BOOLEAN
    BY DEF CanReplace
  <2> QED
    BY <1>2, <2>1, RenameKeepsTorn DEF PosixRename, Moving, Stages
<1>3. CASE PlainRename(c) \/ RenameAgain(c)
  <2>1. CanRename(fs, up[c].tmp, up[c].dst) \in BOOLEAN
    BY DEF CanRename
  <2> QED
    BY <1>3, <2>1, RenameKeepsTorn DEF PlainRename, RenameAgain, Moving, Stages
<1>4. CASE ClearDestination(c)
  <2>1. Busy(c) /\ up[c].at \in Moving
    BY <1>4 DEF ClearDestination, Busy, Stages, Moving
  <2>2. up[c].dst \in Path /\ CanRemove(fs, up[c].dst) \in BOOLEAN
    BY <2>1, BusyPaths DEF CanRemove, IsEmptyDir
  <2>3. PICK ok \in BOOLEAN : RequestAt(c, ok, up[c].dst, CanRemove(fs, up[c].dst),
                                        Without(fs, up[c].dst))
    BY <1>4 DEF ClearDestination
  <2>4. MoveOn(c, "again") /\ "again" \in Stages
    BY <1>4 DEF ClearDestination, Stages
  <2>5. TearsNothing
    BY <2>2, <2>3, RemovalTearsNothing
  <2>6. KeepsUploads
    BY <2>1, <2>4, MoveOnKeepsUploads
  <2> QED
    BY <2>5, <2>6, Harmless
<1>5. CASE Cleanup(c)
  <2>1. Busy(c)
    BY <1>5 DEF Cleanup, Busy, Stages
  <2>2. up[c].tmp \in Path /\ CanRemove(fs, up[c].tmp) \in BOOLEAN
    BY <2>1, BusyPaths DEF CanRemove, IsEmptyDir
  <2>3. PICK ok \in BOOLEAN : RequestAt(c, ok, up[c].tmp, CanRemove(fs, up[c].tmp),
                                        Without(fs, up[c].tmp))
    BY <1>5 DEF Cleanup
  <2>4. TearsNothing
    BY <2>2, <2>3, RemovalTearsNothing
  <2>5. KeepsUploads
    BY <1>5, UploadsUnchanged DEF Cleanup
  <2> QED
    BY <2>4, <2>5, Harmless
<1> QED
  BY <1>1, <1>2, <1>3, <1>4, <1>5 DEF UploadStep

LEMMA SameTreeTearsNothing == fs' = fs => TearsNothing
BY DEF TearsNothing

LEMMA MkdirKeepsTorn ==
  ASSUME TypeInv, TornInv, NEW c \in Caller, MkdirStep(c), UNCHANGED up
  PROVE  TornInv'
<1> USE TypeInvParts
<1>1. fs' = fs \/ \E p \in Path : fs' = [fs EXCEPT ![p] = Dir]
  BY MkdirStepTypes DEF UploadTypeOK
<1>2. TearsNothing
  BY <1>1, TornlessNodes DEF TearsNothing, UploadTypeOK, SessionTypeOK
<1>3. KeepsUploads
  BY UploadsUnchanged
<1> QED
  BY <1>2, <1>3, Harmless

LEMMA CallStepKeepsTorn ==
  ASSUME TypeInv, TornInv, NEW c \in Caller, CallStep(c)
  PROVE  TornInv'
<1> USE TypeInvParts
<1>1. CASE fs' = fs /\ (UNCHANGED up \/ up' = [up EXCEPT ![c] = NotStarted])
  <2>1. TearsNothing
    BY <1>1, SameTreeTearsNothing
  <2>2. KeepsUploads
    BY <1>1, UploadsUnchanged
  <2> QED
    BY <2>1, <2>2, Harmless
<1>2. CASE StatBase(c) \/ ResolveBase(c) \/ List(c) \/ CheckDelete(c)
  <2>1. UNCHANGED up /\ \E ok, able \in BOOLEAN : Ask(c, ok, able)
    <3>1. Readable(call[c].cur) \subseteq BOOLEAN /\ \A d : Readable(d) \subseteq BOOLEAN
      BY DEF Readable
    <3> QED
      BY <1>2, <3>1 DEF StatBase, ResolveBase, List, CheckDelete
  <2>2. fs' = fs
    BY <2>1 DEF Ask, Request
  <2> QED
    BY <1>1, <2>1, <2>2
<1>3. CASE Plan(c) \/ PlanFails(c) \/ NextEntry(c)
  <2>1. fs' = fs /\ (UNCHANGED up \/ up' = [up EXCEPT ![c] = NotStarted])
    BY <1>3 DEF Plan, PlanFails, NextEntry, session
  <2> QED
    BY <1>1, <2>1
<1>4. CASE MakeBase(c) \/ MakeParents(c)
  BY <1>4, MkdirKeepsTorn DEF MakeBase, MakeParents
<1>5. CASE UploadEntry(c)
  <2>1. CASE up[c].at = "idle" /\ UploadStart(c, call[c].cur, call[c].cur)
    <3>1. call[c].cur \in Visible
      BY <1>5 DEF UploadEntry, CallInv, CurrentEntry
    <3> QED
      BY <2>1, <3>1, StartKeepsTorn
  <2>2. CASE UploadStep(c)
    BY <2>2, UploadStepKeepsTorn
  <2> QED
    BY <1>5, <2>1, <2>2 DEF UploadEntry
<1>6. CASE RemoveEntry(c)
  <2> DEFINE p == call[c].cur
             able == IF call[c].isDir THEN IsEmptyDir(fs, p) ELSE CanRemove(fs, p)
  <2>1. UNCHANGED up /\ \E ok \in BOOLEAN : RequestAt(c, ok, p, able, Without(fs, p))
    BY <1>6 DEF RemoveEntry
  <2>2. p \in Path /\ able \in BOOLEAN
    BY CallIsGood DEF GoodCall, CallRecord, CanRemove, IsEmptyDir
  <2>3. TearsNothing
    BY <2>1, <2>2, RemovalTearsNothing
  <2>4. KeepsUploads
    BY <2>1, UploadsUnchanged
  <2> QED
    BY <2>3, <2>4, Harmless
<1> QED
  BY <1>2, <1>3, <1>4, <1>5, <1>6 DEF CallStep

LEMMA NextKeepsTorn == TypeInv /\ TornInv /\ [Next]_vars => TornInv'
<1> SUFFICES ASSUME TypeInv, TornInv, [Next]_vars PROVE TornInv'
  OBVIOUS
<1> USE TypeInvParts
<1>1. ASSUME NEW c \in Caller, CallStep(c) PROVE TornInv'
  BY <1>1, CallStepKeepsTorn
<1>2. ASSUME NEW c \in Caller, Crash(c) \/ \E dry \in DryRuns : Begin(c, dry)
      PROVE  TornInv'
  <2>1. fs' = fs /\ up' = [up EXCEPT ![c] = NotStarted]
    BY <1>2 DEF Begin, Crash, session
  <2> QED
    BY <2>1, SameTreeTearsNothing, UploadsUnchanged, Harmless
<1>4. CASE EditLocal \/ Tick \/ UNCHANGED vars
  <2>1. fs' = fs /\ UNCHANGED up
    BY <1>4 DEF EditLocal, Tick, vars, own, session
  <2> QED
    BY <2>1, SameTreeTearsNothing, UploadsUnchanged, Harmless
<1>3. CASE ChangeRemote
  <2>1. UNCHANGED up /\ (Changes(fs, fs', Stamp) \/ Relocates(fs, fs'))
    BY <1>3 DEF ChangeRemote, own
  <2>2. fs \in [Path -> Node] /\ Stamp \in Int
    BY StampInt DEF UploadTypeOK, SessionTypeOK
  <2>3. TearsNothing
    BY <2>1, <2>2, ChangeIsWhole, RelocationOnlyRemoves, TornlessNodes DEF TearsNothing
  <2>4. KeepsUploads
    BY <2>1, UploadsUnchanged
  <2> QED
    BY <2>3, <2>4, Harmless
<1> QED
  BY <1>1, <1>2, <1>3, <1>4 DEF Next, Environment

LEMMA InitTorn == Init => TornInv
BY InitAssumption, TempsAreEntries
   DEF Init, Clean, TornInv, NoTornFile, WholeWhenMoved, Busy, Stages, NotStarted, IsTorn

LEMMA TornInvariant == Spec => []TornInv
<1>1. Init => TypeInv /\ TornInv
  BY InitTypes, InitTorn
<1>2. TypeInv /\ TornInv /\ [Next]_vars => TypeInv' /\ TornInv'
  BY NextTypes, NextKeepsTorn
<1> QED
  BY <1>1, <1>2, PTL DEF Spec

\* Whatever fails, dies, or runs beside it: Upload moves nothing but complete
\* files to where a user of the VM sees them.
THEOREM NoTornFileEver == Spec => []NoTornFile
<1>1. TornInv => NoTornFile
  BY DEF TornInv
<1> QED
  BY <1>1, TornInvariant, PTL

\* Uploads in progress have temporary files of their own, and one that is about
\* to be renamed is written to its end.
THEOREM OnlyWholeFilesMove == Spec => []WholeWhenMoved
<1>1. TornInv => WholeWhenMoved
  BY DEF TornInv
<1> QED
  BY <1>1, TornInvariant, PTL
=============================================================================
