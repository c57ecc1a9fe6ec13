---------------------------- MODULE MirrorProofs ----------------------------
(***************************************************************************)
(* What sync is for, proved for every tree, rule set and place of a crash: *)
(* a call that nothing disturbs reports no failure exactly when the base   *)
(* has become a mirror of the project (CleanMeansMirrored), and on a       *)
(* server with posix-rename it replaces every file in one step             *)
(* (OverwriteIsAtomic).                                                    *)
(***************************************************************************)
EXTENDS TransferProofs

\* A single caller, no fault, and nobody else at work on either tree.  It may
\* crash, and call again over what it left behind.
Alone(c) ==
  Caller = {c} /\ MaxFaults = 0 /\ MaxEdits = 0 /\ MaxIntrusions = 0

-----------------------------------------------------------------------------
(***************************************************************************)
(* The plan, as a function of the two trees.                               *)
(***************************************************************************)

\* What lies above something present is a directory.
LEMMA DirsAbove ==
  ASSUME NEW t \in [Path -> Node], WellFormed(t),
         NEW p \in Path, t[p] # Absent, NEW a \in Path, Under(p, a)
  PROVE  t[a] = Dir
  BY Rooted

\* No link is above something in a directory.
LEMMA NoLinkAbove ==
  ASSUME NEW t \in [Path -> Node], WellFormed(t), NEW p \in Entry,
         t[Parent(p)] = Dir \/ t[p] # Absent
  PROVE  ~LeadsOut(t, p)
<1>1. Parent(p) \in Path /\ Under(p, Parent(p)) /\ Parent(p) # p /\ p \in Path
  BY ParentFacts DEF Entry
<1>2. t[Parent(p)] = Dir
  BY <1>1, DirsAbove
<1>3. LeadsOut(t, p) => LeadsOut(t, Parent(p)) \/ t[Parent(p)] = Link
  <2>1. ASSUME NEW a \in Path, Under(p, a), t[a] = Link
        PROVE  Under(Parent(p), a) \/ a = Parent(p)
    BY <1>1, <2>1, UnderParent
  <2> QED
    BY <2>1 DEF LeadsOut
<1>4. ~LeadsOut(t, Parent(p))
  BY <1>1, <1>2, BehindALink DEF Dir, Absent
<1> QED
  BY <1>2, <1>3, <1>4 DEF Dir, Link

\* A directory above a local file sync carries over is local too, and none of
\* the files; on the VM, whatever has its name there stays.
LEMMA AboveALocal ==
  ASSUME local \in [Path -> Node], WellFormed(local),
         NEW u \in LocalAll(local, rules), NEW a \in Entry, Under(u, a),
         NEW L
  PROVE  /\ local[a] = Dir /\ a \notin LocalFiles(local, rules)
         /\ a \notin Eligible(local, L, rules)
<1>1. u \in Entry /\ u \in Path /\ a \in Path /\ local[u] # Absent
  BY DEF LocalAll, Entry, Absent
<1>2. local[a] = Dir
  BY <1>1, DirsAbove
<1>3. a \notin LocalFiles(local, rules)
  BY <1>2 DEF LocalFiles, IsFile, Dir
<1>4. ASSUME a \in Eligible(local, L, rules) PROVE FALSE
  <2>1. a \notin LocalAll(local, rules) /\ ~Excluded(rules, a, L[a] = Dir)
    BY <1>4 DEF Eligible, Candidates
  <2>2. Excluded(rules, a, TRUE)
    <3>1. local[a].kind \in {"file", "dir"} /\ (local[a] = Dir) = TRUE
      BY <1>2 DEF Dir
    <3>2. Excluded(rules, a, local[a] = Dir)
      BY <2>1, <3>1 DEF LocalAll
    <3> QED
      BY <3>1, <3>2
  <2>3. Ignored(rules, a, TRUE)
    BY <2>1, <2>2 DEF Excluded
  <2>4. \E b \in Entry : Under(u, b) /\ <<b, TRUE>> \in rules.ignored
    BY <1>1, <2>3, UnderTransitive DEF Ignored, Entry
  <2>5. ~Excluded(rules, u, local[u] = Dir)
    BY DEF LocalAll
  <2> QED
    BY <2>4, <2>5 DEF Excluded, Ignored
<1> QED
  BY <1>2, <1>3, <1>4

\* The same of the plan.
LEMMA AboveAnUpload ==
  ASSUME local \in [Path -> Node], WellFormed(local), NEW L,
         NEW u \in BuildPlan(local, L, rules).ToUpload,
         NEW a \in Entry, Under(u, a)
  PROVE  /\ a \notin BuildPlan(local, L, rules).ToUpload
         /\ a \notin Paths(BuildPlan(local, L, rules).ToDelete)
<1>1. u \in LocalAll(local, rules)
  BY DEF BuildPlan, LocalFiles
<1>2. a \notin LocalFiles(local, rules) /\ a \notin Eligible(local, L, rules)
  BY <1>1, AboveALocal
<1> QED
  BY <1>2, PlannedDelete DEF BuildPlan, Paths, DeletablePaths

-----------------------------------------------------------------------------
(***************************************************************************)
(* What a call knows of the base.  While it carries out its plan the base  *)
(* is still the listing L it planned with, but for what it did itself:     *)
(* every entry is as reported, as listed, or on its way.                   *)
(***************************************************************************)
InPlace(c, p) ==
  /\ p \in result[c].uploaded => IsFile(fs[p]) /\ fs[p].data = local[p].data
  /\ p \in result[c].deleted => fs[p] = Absent

MadeFor(c, L, p) ==
  L[p] = Absent /\ fs[p] = Dir /\ \E u \in plan[c].ToUpload : Under(u, p)

InHand(c, L, p) ==
  /\ call[c].phase = "upload"
  /\ \/ up[c].at = "again" /\ p = up[c].dst /\ fs[p] = Absent
     \/ Busy(c) /\ p = up[c].tmp /\ L[p] = Absent

Tells(c, L, p) ==
  /\ InPlace(c, p)
  /\ p \notin result[c].uploaded \cup result[c].deleted =>
       fs[p] = L[p] \/ MadeFor(c, L, p) \/ InHand(c, L, p)

\* Why an entry failed: a file was in the way of its directory, or a directory
\* in its own; deletes never do.
Explained(r, L) ==
  /\ \A p \in FailedAs(r, "mkdir") : \E a \in Entry : Under(p, a) /\ IsFile(L[a])
  /\ \A p \in FailedAs(r, "upload") : L[p] = Dir
  /\ FailedAs(r, "delete") = {}

PlannedWith(c, L) ==
  /\ L \in [Path -> Node] /\ \A p \in Visible : ~IsTorn(L[p])
  /\ plan[c] = BuildPlan(local, L, rules)

OneCopyPerSize == \A d, e \in Content : Size[d] = Size[e] => d = e

\* When the call is over, that settles whether the base is a mirror.
Settled(c, L) ==
  /\ PlannedWith(c, L) /\ Explained(result[c], L)
  /\ \A p \in Entry : Tells(c, L, p)
  /\ Balanced(call[c], plan[c], result[c])
  /\ call[c].phase = "done" /\ call[c].uploads = {} /\ call[c].deletes = {}

LEMMA SettledFacts ==
  ASSUME NEW c \in Caller, NEW L, Settled(c, L)
  PROVE  LET r == result[c]
         IN  /\ LocalFiles(local, rules) \cap r.deleted = {}
             /\ r.uploaded \subseteq LocalFiles(local, rules)
             /\ r.uploaded \cap FailedAs(r, "mkdir") = {}
             /\ r.uploaded \cap FailedAs(r, "upload") = {}
             /\ r.uploaded \cup FailedAs(r, "mkdir") \cup FailedAs(r, "upload") =
                  {p \in LocalFiles(local, rules) : NeedsUpload(local[p], L[p])}
             /\ r.deleted = DeletablePaths(L, Eligible(local, L, rules))
             /\ \A p \in Entry : /\ p \notin r.uploaded \cup r.deleted =>
                                      fs[p] = L[p] \/ MadeFor(c, L, p)
                                 /\ InPlace(c, p)
<1> DEFINE r == result[c]
           D == DeletablePaths(L, Eligible(local, L, rules))
<1>1. /\ plan[c].ToUpload = {p \in LocalFiles(local, rules) : NeedsUpload(local[p], L[p])}
      /\ plan[c].ToDelete = {[path |-> p, isDir |-> L[p] = Dir] : p \in D}
  BY DEF Settled, PlannedWith, BuildPlan
<1>2. Paths(plan[c].ToDelete) = D
  <2> HIDE DEF D
  <2>1. ASSUME NEW p \in D PROVE p \in Paths(plan[c].ToDelete)
    <3>1. [path |-> p, isDir |-> L[p] = Dir] \in plan[c].ToDelete
      BY <1>1
    <3> QED
      BY <3>1 DEF Paths
  <2>2. ASSUME NEW e \in plan[c].ToDelete PROVE e.path \in D
    BY <1>1
  <2> QED
    BY <2>1, <2>2 DEF Paths
<1>3. /\ Split(plan[c].ToUpload, {}, {}, r.uploaded, FailedAs(r, "mkdir"), FailedAs(r, "upload"))
      /\ Split(D, {}, {}, r.deleted, {}, {})
  BY <1>2 DEF Settled, Explained, Balanced, Hand, Paths
<1>4. D \cap LocalFiles(local, rules) = {}
  BY DEF DeletablePaths, Eligible, Candidates, LocalFiles
<1> QED
  BY <1>1, <1>3, <1>4 DEF Split, Settled, Tells, InHand

\* No failure: every file is there, and nothing else that should not be.
LEMMA CleanIsMirrored ==
  ASSUME TypeInv, WellFormed(fs), WellFormed(local), OneCopyPerSize,
         NEW c \in Caller, NEW L, Settled(c, L), \A p \in Entry : fs[p] # Link,
         result[c].failed = {}
  PROVE  Mirrored
<1> DEFINE r == result[c]
           E == Eligible(local, L, rules)
           free(p) == ~Excluded(rules, p, fs[p] = Dir) /\ p \notin LocalAll(local, rules)
<1>1. /\ local \in [Path -> Node] /\ fs \in [Path -> Node] /\ L \in [Path -> Node]
      /\ Clean(local) /\ Entry \subseteq Path
  BY DEF TypeInv, TypeOK, UploadTypeOK, SessionTypeOK, Settled, PlannedWith, Entry
<1>2. /\ r.uploaded = {p \in LocalFiles(local, rules) : NeedsUpload(local[p], L[p])}
      /\ LocalFiles(local, rules) \cap r.deleted = {}
      /\ r.deleted = DeletablePaths(L, E)
      /\ \A p \in Entry : p \notin r.uploaded \cup r.deleted => fs[p] = L[p] \/ MadeFor(c, L, p)
      /\ \A p \in Entry : InPlace(c, p)
  BY SettledFacts DEF FailedAs
<1>3. LocalFiles(local, rules) \subseteq LocalAll(local, rules)
      /\ LocalAll(local, rules) \subseteq Entry
  BY DEF LocalFiles, LocalAll
<1>4. ASSUME NEW p \in LocalFiles(local, rules)
      PROVE  IsFile(fs[p]) /\ fs[p].data = local[p].data
  <2>1. CASE p \in r.uploaded
    BY <1>2, <1>3, <2>1 DEF InPlace
  <2>2. CASE p \notin r.uploaded
    <3>1. ~NeedsUpload(local[p], L[p]) /\ p \in Entry /\ p \in Visible
      BY <1>1, <1>2, <1>3, <2>2 DEF LocalFiles, Clean
    <3>2. L[p] \in FileNode /\ local[p] \in FileNode /\ Size[L[p].data] = Size[local[p].data]
      BY <1>1, <3>1 DEF NeedsUpload, Node, LocalFiles, IsFile, FileNode, Absent, Dir, Link
    <3>3. L[p].data \in Content /\ local[p].data \in Content
      BY <1>1, <3>1, <3>2 DEF Settled, PlannedWith, Clean, IsTorn, IsFile, FileNode
    <3>4. fs[p] = L[p]
      BY <1>2, <2>2, <3>1, <3>2 DEF MadeFor, FileNode, Absent
    <3> QED
      BY <3>2, <3>3, <3>4 DEF OneCopyPerSize, IsFile, FileNode
  <2> QED
    BY <2>1, <2>2
<1>5. ASSUME NEW p \in Entry, free(p), fs[p] = L[p], L[p].kind \in {"file", "dir"}
      PROVE  p \in E
  BY <1>5 DEF Eligible, Candidates
<1>6. ASSUME NEW p \in Entry, IsFile(fs[p]), free(p) PROVE FALSE
  <2>1. p \notin r.uploaded /\ p \notin r.deleted
    BY <1>2, <1>3, <1>6 DEF InPlace, IsFile, Absent
  <2>2. fs[p] = L[p]
    BY <1>2, <1>6, <2>1 DEF MadeFor, IsFile, Dir
  <2>3. p \in E /\ L[p] # Dir
    BY <1>5, <1>6, <2>2 DEF IsFile, Dir
  <2> QED
    BY <1>2, <2>1, <2>3 DEF DeletablePaths
<1>7. ASSUME NEW p \in Entry, fs[p] = Dir, free(p)
      PROVE  \E q \in Entry : Under(q, p) /\ fs[q] # Absent /\ ~free(q)
  <2>1. p \notin r.uploaded /\ p \notin r.deleted
    BY <1>2, <1>3, <1>7 DEF InPlace, Dir, Absent
  <2>2. CASE MadeFor(c, L, p)
    <3>1. PICK u \in r.uploaded : Under(u, p)
      BY <1>2, <2>2 DEF MadeFor, Settled, PlannedWith, BuildPlan
    <3>2. u \in Entry /\ u \in LocalAll(local, rules) /\ IsFile(fs[u])
      BY <1>2, <1>3, <1>4
    <3> QED
      BY <3>1, <3>2 DEF IsFile, Absent
  <2>3. CASE fs[p] = L[p]
    <3>1. p \in E
      BY <1>5, <1>7, <2>3 DEF Dir
    <3>2. PICK q \in Entry : Under(q, p) /\ L[q].kind \in {"file", "dir"} /\ q \notin E
      BY <1>2, <2>1, <3>1 DEF DeletablePaths, HasSurvivingDescendant
    <3>3. q \notin r.deleted
      BY <1>2, <3>2 DEF DeletablePaths
    <3>4. CASE q \in r.uploaded
      BY <1>2, <1>3, <1>4, <3>2, <3>4 DEF IsFile, Absent
    <3>5. CASE q \notin r.uploaded
      <4>1. fs[q] = L[q] /\ fs[q] # Absent
        BY <1>2, <3>2, <3>3, <3>5 DEF MadeFor, Absent
      <4> QED
        BY <1>5, <3>2, <4>1
    <3> QED
      BY <3>4, <3>5
  <2> QED
    BY <1>2, <2>1, <2>2, <2>3
<1> QED
  BY <1>4, <1>6, <1>7 DEF Mirrored, NothingElse

\* A failure: what was in the way still is, so a file is missing.
LEMMA MirroredIsClean ==
  ASSUME TypeInv, WellFormed(fs), NEW c \in Caller, NEW L, Settled(c, L), Mirrored
  PROVE  result[c].failed = {}
<1> DEFINE r == result[c]
<1>1. /\ fs \in [Path -> Node] /\ Entry \subseteq Path /\ result[c] \in ResultRecord
  BY DEF TypeInv, TypeOK, UploadTypeOK, SessionTypeOK, Entry
<1>2. \A p \in Entry : /\ p \notin r.uploaded \cup r.deleted =>
                            fs[p] = L[p] \/ MadeFor(c, L, p)
                       /\ InPlace(c, p)
  BY SettledFacts
<1>3. ASSUME NEW p \in FailedAs(r, "mkdir") PROVE FALSE
  <2>1. p \in LocalFiles(local, rules) /\ p \in Entry /\ IsFile(fs[p])
    BY SettledFacts DEF FailedAs, Mirrored
  <2>2. PICK a \in Entry : Under(p, a) /\ IsFile(L[a])
    BY DEF Settled, Explained
  <2>3. fs[a] = Dir
    BY <1>1, <2>1, <2>2, DirsAbove DEF IsFile, Absent
  <2> QED
    BY <1>2, <2>2, <2>3 DEF InPlace, MadeFor, IsFile, Dir, Absent
<1>4. ASSUME NEW p \in FailedAs(r, "upload") PROVE FALSE
  <2>1. /\ p \in LocalFiles(local, rules) /\ p \in Entry /\ IsFile(fs[p])
        /\ p \notin r.uploaded /\ p \notin r.deleted
    BY SettledFacts DEF FailedAs, Mirrored
  <2>2. L[p] = Dir
    BY DEF Settled, Explained
  <2> QED
    BY <1>2, <2>1, <2>2 DEF MadeFor, IsFile, Dir, Absent
<1>5. FailedAs(r, "delete") = {}
  BY DEF Settled, Explained
<1> QED
  BY <1>1, <1>3, <1>4, <1>5 DEF FailedAs, ResultRecord

-----------------------------------------------------------------------------
(***************************************************************************)
(* Requests that cannot fail for an outside reason.                        *)
(***************************************************************************)
LEMMA SureRequest ==
  ASSUME SessionTypeOK, faults' = 0, NEW c \in Caller, conn[c],
         NEW ok \in BOOLEAN, NEW able \in BOOLEAN, NEW new,
         Request(c, ok, able, new)
  PROVE  /\ ok = able /\ UNCHANGED conn
         /\ fs' = IF able THEN new ELSE fs
  BY MaxFaultsAssumption DEF Request, SessionTypeOK

LEMMA SureRequestAt ==
  ASSUME SessionTypeOK, faults' = 0, NEW c \in Caller, conn[c],
         NEW ok \in BOOLEAN, NEW p, ~LeadsOut(fs, p), NEW able \in BOOLEAN, NEW new,
         RequestAt(c, ok, p, able, new)
  PROVE  /\ ok = able /\ UNCHANGED conn
         /\ fs' = IF able THEN new ELSE fs
  BY SureRequest DEF RequestAt

LEMMA SureAsk ==
  ASSUME SessionTypeOK, faults' = 0, NEW c \in Caller, conn[c],
         NEW ok \in BOOLEAN, NEW able \in BOOLEAN, Ask(c, ok, able)
  PROVE  ok = able /\ UNCHANGED <<conn, fs>>
  BY SureRequest DEF Ask

-----------------------------------------------------------------------------
(***************************************************************************)
(* MkdirAll, undisturbed: it only fails at a file.                         *)
(***************************************************************************)
MkdirKnows(c) ==
  LET m == mk[c]
  IN  /\ m.at = "mkdir" => m.dir = Base \/ fs[Parent(m.dir)] = Dir
      /\ m.at = "chmod" => fs[m.dir] = Dir
      /\ m.at = "recheck" => fs[m.dir] # Absent

LEMMA ParentOfBelow ==
  ASSUME NEW t \in Path, NEW d \in Path, d # t, OnTheWay(d, t)
  PROVE  Parent(SubSeq(t, 1, Len(d) + 1)) = d
<1>1. PICK n \in 0 .. Len(t) : d = SubSeq(t, 1, n)
  BY DEF OnTheWay
<1>2. /\ t \in Seq(STRING) /\ Len(t) \in Nat /\ n \in Nat /\ n <= Len(t)
      /\ Len(d) = n /\ SubSeq(t, 1, Len(t)) = t
  BY <1>1, PathAssumption, PathPrefix
<1>3. n < Len(t)
  <2>1. n # Len(t)
    BY <1>1, <1>2
  <2>2. n \in Nat /\ Len(t) \in Nat /\ n <= Len(t)
    BY <1>2
  <2> QED
    BY <2>1, <2>2
<1>4. /\ SubSeq(t, 1, n + 1) \in Seq(STRING) /\ Len(SubSeq(t, 1, n + 1)) = n + 1
      /\ \A i \in 1 .. n : SubSeq(t, 1, n + 1)[i] = t[i]
  BY <1>2, <1>3
<1>5. SubSeq(SubSeq(t, 1, n + 1), 1, n) = SubSeq(t, 1, n)
  BY <1>2, <1>3, <1>4
<1> QED
  BY <1>1, <1>2, <1>4, <1>5 DEF Parent

\* The two ways on from a directory that is there.
LEMMA BelowKnows ==
  ASSUME NEW c \in Caller, mk \in [Caller -> MkdirRecord], NEW d \in Path, NEW t \in Path,
         OnTheWay(d, t), mk' = [mk EXCEPT ![c] = Below(d, t)], fs'[d] = Dir
  PROVE  /\ MkdirKnows(c)'
         /\ mk'[c].at = "done" => fs'[t] = Dir
         /\ mk'[c].at # "failed"
<1>1. mk'[c] = Below(d, t)
  OBVIOUS
<1>2. CASE d = t
  BY <1>1, <1>2 DEF Below, MkdirDone, MkdirKnows
<1>3. CASE d # t
  <2>1. mk'[c] = MkdirAt("mkdir", SubSeq(t, 1, Len(d) + 1), t)
    BY <1>1, <1>3 DEF Below
  <2>2. Parent(SubSeq(t, 1, Len(d) + 1)) = d
    BY <1>3, ParentOfBelow
  <2>3. mk'[c].at = "mkdir" /\ mk'[c].dir = SubSeq(t, 1, Len(d) + 1)
    BY <2>1 DEF MkdirAt
  <2>4. fs'[Parent(mk'[c].dir)] = Dir
    BY <2>2, <2>3
  <2> QED
    BY <2>3, <2>4 DEF MkdirKnows
<1> QED
  BY <1>2, <1>3

LEMMA MkdirGoesOn ==
  ASSUME TypeInv, faults' = 0, NEW c \in Caller, conn[c], MkdirStep(c), MkdirKnows(c),
         ~LeadsOut(fs, mk[c].dir), fs[mk[c].dir] # Link
  PROVE  /\ MkdirKnows(c)' /\ UNCHANGED conn
         /\ \/ fs' = fs
            \/ /\ fs[mk[c].dir] = Absent
               /\ fs' = [fs EXCEPT ![mk[c].dir] = Dir]
         /\ mk'[c].at = "done" => fs'[mk[c].target] = Dir
         /\ mk'[c].at = "failed" => fs' = fs /\ IsFile(fs[mk[c].dir])
<1> DEFINE d == mk[c].dir
           t == mk[c].target
<1>1. /\ SessionTypeOK /\ MkdirTypeOK /\ fs \in [Path -> Node] /\ mk \in [Caller -> MkdirRecord]
      /\ mk[c].at \in MkdirStages
  BY DEF TypeInv, TypeOK, UploadTypeOK, SessionTypeOK, MkdirTypeOK, MkdirStep, MkdirStat,
         MkdirMake, MkdirChmod, MkdirRecheck, MkdirStages
<1>2. d \in Path /\ t \in Path /\ OnTheWay(d, t) /\ fs[d] \in {Absent, Dir} \cup FileNode
  BY <1>1, MkdirFields DEF TypeInv, MkdirOnTheWay, Node
<1>3. \A seen \in Looks(d) : /\ seen = "dir" <=> fs[d] = Dir
                             /\ seen = "error" <=> fs[d] = Absent
                             /\ seen # "dir" /\ seen # "error" => IsFile(fs[d])
  BY <1>2 DEF Looks, IsFile, FileNode, Absent, Dir, Link
<1> HIDE DEF d, t
<1>4. CASE MkdirStat(c)
  <2>1. PICK seen \in Looks(d), ok \in BOOLEAN :
          /\ Ask(c, ok, seen # "error")
          /\ mk' = [mk EXCEPT ![c] = IF ~ok THEN Above(d, t)
                                     ELSE IF seen = "dir" THEN Below(d, t)
                                     ELSE MkdirFailed]
    BY <1>4 DEF MkdirStat, d, t
  <2>2. ok = (seen # "error") /\ UNCHANGED <<conn, fs>>
    BY <1>1, <2>1, SureAsk
  <2>3. CASE seen = "error"
    <3>1. mk'[c] = Above(d, t)
      BY <1>1, <2>1, <2>2, <2>3
    <3> QED
      BY <2>2, <3>1 DEF Above, MkdirAt, MkdirKnows
  <2>4. CASE seen = "dir"
    <3>1. mk' = [mk EXCEPT ![c] = Below(d, t)] /\ fs'[d] = Dir
      BY <1>3, <2>1, <2>2, <2>4
    <3> QED
      BY <1>1, <1>2, <2>2, <3>1, BelowKnows DEF t
  <2>5. CASE seen # "error" /\ seen # "dir"
    <3>1. mk'[c] = MkdirFailed
      BY <1>1, <2>1, <2>2, <2>5
    <3> QED
      BY <1>3, <2>2, <2>5, <3>1 DEF MkdirFailed, MkdirKnows, d
  <2> QED
    BY <2>3, <2>4, <2>5
<1>5. CASE MkdirMake(c)
  <2>1. PICK ok \in BOOLEAN :
          /\ RequestAt(c, ok, d, CanMkdir(d), [fs EXCEPT ![d] = Dir])
          /\ mk' = [mk EXCEPT ![c].at = IF ok THEN "chmod" ELSE "recheck"]
    BY <1>5 DEF MkdirMake, d
  <2>2. /\ ok = CanMkdir(d) /\ UNCHANGED conn
        /\ fs' = IF CanMkdir(d) THEN [fs EXCEPT ![d] = Dir] ELSE fs
    BY <1>1, <2>1, SureRequestAt DEF d, CanMkdir
  <2>3. mk'[c] = [mk[c] EXCEPT !.at = IF ok THEN "chmod" ELSE "recheck"]
    BY <1>1, <2>1
  <2>4. mk[c] = MkdirAt(mk[c].at, d, t)
    BY <1>1, MkdirFields DEF d, t
  <2>5. mk'[c].at = (IF ok THEN "chmod" ELSE "recheck") /\ mk'[c].dir = d
    BY <2>3, <2>4 DEF MkdirAt
  <2>6. CASE CanMkdir(d)
    BY <1>1, <1>2, <2>2, <2>5, <2>6 DEF MkdirKnows, CanMkdir, d
  <2>7. CASE ~CanMkdir(d)
    <3>1. fs[d] # Absent
      BY <1>5, <2>7 DEF CanMkdir, CanCreate, MkdirKnows, MkdirMake, d
    <3> QED
      BY <2>2, <2>5, <2>7, <3>1 DEF MkdirKnows
  <2> QED
    BY <2>6, <2>7
<1>6. CASE MkdirChmod(c)
  <2>1. PICK ok \in BOOLEAN :
          /\ RequestAt(c, ok, d, fs[d] # Absent, fs)
          /\ mk' = [mk EXCEPT ![c] = IF ok THEN Below(d, t) ELSE MkdirFailed]
    BY <1>6 DEF MkdirChmod, d, t
  <2>2. fs[d] = Dir /\ (fs[d] # Absent) = TRUE
    BY <1>6 DEF MkdirKnows, MkdirChmod, d, Dir, Absent
  <2>3. ok = TRUE /\ UNCHANGED <<conn, fs>>
    BY <1>1, <2>1, <2>2, SureRequestAt DEF d
  <2> QED
    BY <1>1, <1>2, <2>1, <2>2, <2>3, BelowKnows DEF t
<1>7. CASE MkdirRecheck(c)
  <2>1. PICK seen \in Looks(d), ok \in BOOLEAN :
          /\ Ask(c, ok, seen # "error")
          /\ mk' = [mk EXCEPT ![c] = IF ok /\ seen = "dir" THEN Below(d, t)
                                     ELSE MkdirFailed]
    BY <1>7 DEF MkdirRecheck, d, t
  <2>2. ok = (seen # "error") /\ UNCHANGED <<conn, fs>> /\ fs[d] # Absent
    BY <1>1, <1>7, <2>1, SureAsk DEF MkdirKnows, MkdirRecheck, d
  <2>3. CASE seen = "dir"
    <3>1. mk' = [mk EXCEPT ![c] = Below(d, t)] /\ fs'[d] = Dir
      BY <1>3, <2>1, <2>2, <2>3
    <3> QED
      BY <1>1, <1>2, <2>2, <3>1, BelowKnows DEF t
  <2>4. CASE seen # "dir"
    <3>1. mk'[c] = MkdirFailed /\ IsFile(fs[d])
      BY <1>1, <1>3, <2>1, <2>2, <2>4
    <3> QED
      BY <2>2, <3>1 DEF MkdirFailed, MkdirKnows, d
  <2> QED
    BY <2>3, <2>4
<1> QED
  BY <1>4, <1>5, <1>6, <1>7 DEF MkdirStep

-----------------------------------------------------------------------------
(***************************************************************************)
(* Upload, undisturbed: it only fails at a directory.                      *)
(***************************************************************************)
UploadKnows(c, p) ==
  LET u == up[c]
  IN  /\ fs[Parent(p)] = Dir
      /\ Busy(c) =>
           /\ u.dst = p /\ u.src = p /\ u.data = local[p].data
           /\ IsFile(fs[u.tmp])
           /\ u.at # "write" => fs[u.tmp].data = local[p].data
           /\ u.at = "clear" => fs[p] # Absent
           /\ u.at = "again" => fs[p] \in {Absent, Dir}
           /\ u.at = "cleanup" => fs[p] = Dir

\* One request on, in the same upload.
StaysAt(c, s) ==
  /\ Busy(c)' /\ up'[c].at = s
  /\ up'[c].src = up[c].src /\ up'[c].dst = up[c].dst
  /\ up'[c].tmp = up[c].tmp /\ up'[c].data = up[c].data

LEMMA MovedOn ==
  ASSUME UploadTypeOK, NEW c \in Caller, Busy(c), NEW s \in Stages, MoveOn(c, s)
  PROVE  StaysAt(c, s)
<1>1. up' = [up EXCEPT ![c] = [up[c] EXCEPT !.at = s]] /\ up \in [Caller -> UploadRecord]
  BY MoveOnTypes DEF UploadTypeOK
<1>2. up[c] \in [at : Stages, src : Visible, dst : Visible, tmp : Temps,
                 data : Content \cup {Torn}]
  BY <1>1 DEF UploadRecord, NotStarted, GaveUp, Succeeded, Busy, Stages
<1>3. up'[c] = [up[c] EXCEPT !.at = s]
  BY <1>1
<1> QED
  BY <1>2, <1>3 DEF StaysAt, Busy

\* The names of an upload: two in one directory, which no link is above.
LEMMA UploadNames ==
  ASSUME TreesInv, NEW c \in Caller, Busy(c), NEW p, UploadKnows(c, p)
  PROVE  LET x == up[c].tmp
         IN  /\ x \in Temps /\ x \in Path /\ p \in Visible /\ p \in Entry /\ p \in Path
             /\ x # p /\ Parent(p) # p /\ Parent(p) # x /\ Parent(p) \in Path
             /\ fs[Parent(p)] = Dir /\ IsFile(fs[x])
             /\ ~LeadsOut(fs, p) /\ ~LeadsOut(fs, x)
<1> DEFINE x == up[c].tmp
<1>1. UploadTypeOK /\ PlainTemps /\ fs \in [Path -> Node] /\ WellFormed(fs)
  BY DEF TreesInv, PathsInv, TypeInv, TypeOK, UploadTypeOK, SessionTypeOK
<1>2. up[c].dst = p /\ IsFile(fs[x]) /\ fs[Parent(p)] = Dir
  BY DEF UploadKnows
<1>3. x \in Temps /\ x \in Entry /\ p \in Visible /\ p \in Entry /\ x # p /\ Entry \subseteq Path
  BY <1>1, <1>2, BusyRecord, TempsAreEntries
<1>4. Parent(x) = Parent(p)
  BY <1>1, <1>2, <1>3, TempAssumption DEF PlainTemps
<1>5. ~LeadsOut(fs, p) /\ ~LeadsOut(fs, x)
  BY <1>1, <1>2, <1>3, <1>4, NoLinkAbove
<1> QED
  BY <1>2, <1>3, <1>5, ParentFacts, ParentIsNoTemp

\* What one request of it does: the file lands, the upload gives up in front of
\* a directory, or it goes on.
LEMMA UploadGoesWell ==
  ASSUME TreesInv, faults' = 0, NEW c \in Caller, conn[c], UploadStep(c),
         NEW p, UploadKnows(c, p), IsFile(local[p])
  PROVE  LET x == up[c].tmp
         IN  /\ Busy(c) /\ UNCHANGED conn
             /\ \/ /\ up'[c].at = "done" /\ fs' = Moved(fs, x, p)
                   /\ fs[x].data = local[p].data
                   /\ fs[p] # Dir
                \/ up'[c].at = "failed" /\ fs' = Without(fs, x) /\ fs[p] = Dir
                \/ /\ StaysAt(c, "posix") /\ up[c].at = "write"
                   /\ \E m : fs' = [fs EXCEPT ![x] = File(local[p].data, m)]
                \/ /\ StaysAt(c, "plain") /\ fs' = fs /\ up[c].at = "posix"
                   /\ HasPosixRename => fs[p] = Dir
                \/ /\ StaysAt(c, "clear") /\ fs' = fs /\ fs[p] # Absent
                   /\ up[c].at = "plain"
                \/ /\ StaysAt(c, "again") /\ up[c].at = "clear"
                   /\ \/ fs' = Without(fs, p)
                      \/ fs' = fs /\ fs[p] = Dir
                \/ /\ StaysAt(c, "cleanup") /\ fs' = fs /\ fs[p] = Dir
                   /\ up[c].at = "again"
<1> DEFINE x == up[c].tmp
<1>1. /\ UploadTypeOK /\ SessionTypeOK /\ Busy(c) /\ fs \in [Path -> Node]
      /\ Clean(local) /\ up \in [Caller -> UploadRecord]
  BY UploadDoes DEF TreesInv, PathsInv, TypeInv, TypeOK, UploadTypeOK, SessionTypeOK
<1>2. /\ x \in Path /\ p \in Path /\ p \in Visible /\ ~LeadsOut(fs, p) /\ ~LeadsOut(fs, x)
      /\ IsFile(fs[x]) /\ fs[x] # Absent /\ fs[p] \in Node
  BY <1>1, UploadNames DEF IsFile, Absent
<1>3. /\ up[c].dst = p /\ up[c].src = p /\ up[c].data = local[p].data
      /\ up[c].at # "write" => fs[x].data = local[p].data
      /\ up[c].at = "clear" => fs[p] # Absent
      /\ up[c].at = "again" => fs[p] \in {Absent, Dir}
      /\ up[c].at = "cleanup" => fs[p] = Dir
  BY <1>1 DEF UploadKnows
<1>4. local[p].data # Torn
  BY <1>1, <1>2 DEF Clean, IsTorn
<1>5. ASSUME NEW s \in Stages, MoveOn(c, s) PROVE StaysAt(c, s)
  BY <1>1, <1>5, MovedOn
<1>6. ASSUME NEW able \in BOOLEAN, NEW next \in Stages, RenameBy(c, able, next)
      PROVE  /\ UNCHANGED conn
             /\ able => up'[c].at = "done" /\ fs' = Moved(fs, x, p)
             /\ ~able => StaysAt(c, next) /\ fs' = fs
  <2>1. PICK ok \in BOOLEAN :
          /\ RequestAt(c, ok, p, able, Moved(fs, x, p))
          /\ IF ok THEN up' = [up EXCEPT ![c] = Succeeded] ELSE MoveOn(c, next)
    BY <1>3, <1>6 DEF RenameBy
  <2>2. /\ ok = able /\ UNCHANGED conn
        /\ fs' = IF able THEN Moved(fs, x, p) ELSE fs
    BY <1>1, <1>2, <2>1, SureRequestAt
  <2>3. CASE able
    BY <1>1, <2>1, <2>2, <2>3 DEF Succeeded
  <2>4. CASE ~able
    BY <1>5, <2>1, <2>2, <2>4
  <2> QED
    BY <2>3, <2>4
<1>7. CASE WriteTemp(c)
  <2>1. PICK d \in {local[p].data}, ok \in BOOLEAN :
          /\ Request(c, ok, local[p].data # Torn, [fs EXCEPT ![x] = File(d, Stamp)])
          /\ MoveOn(c, AfterWrite(ok))
    BY <1>2, <1>3, <1>7 DEF WriteTemp
  <2>2. (local[p].data # Torn) = TRUE
    BY <1>4
  <2>3. ok = TRUE /\ UNCHANGED conn /\ fs' = [fs EXCEPT ![x] = File(d, Stamp)]
    BY <1>1, <2>1, <2>2, SureRequest
  <2>4. StaysAt(c, "posix") /\ up[c].at = "write"
    BY <1>5, <1>7, <2>1, <2>3 DEF AfterWrite, Stages, WriteTemp
  <2> QED
    BY <1>1, <2>1, <2>3, <2>4
<1>8. CASE PosixRename(c)
  <2> DEFINE able == HasPosixRename /\ CanReplace(fs, x, p)
  <2>1. RenameBy(c, able, "plain") /\ able \in BOOLEAN
    BY <1>3, <1>8 DEF PosixRename
  <2>2. able <=> HasPosixRename /\ fs[p] # Dir
    BY <1>2, ServerAssumption DEF CanReplace
  <2>3. fs[x].data = local[p].data /\ up[c].at = "posix"
    BY <1>3, <1>8 DEF PosixRename
  <2> HIDE DEF able
  <2> QED
    BY <1>1, <1>6, <2>1, <2>2, <2>3, ServerAssumption DEF Stages
<1>9. CASE PlainRename(c)
  <2> DEFINE able == CanRename(fs, x, p)
  <2>1. RenameBy(c, able, "clear") /\ able \in BOOLEAN
    BY <1>3, <1>9 DEF PlainRename, CanRename
  <2>2. able <=> fs[p] = Absent
    BY <1>2 DEF CanRename
  <2>3. fs[x].data = local[p].data /\ up[c].at = "plain"
    BY <1>3, <1>9 DEF PlainRename
  <2> HIDE DEF able
  <2> QED
    BY <1>1, <1>6, <2>1, <2>2, <2>3 DEF Stages, Absent, Dir
<1>10. CASE RenameAgain(c)
  <2> DEFINE able == CanRename(fs, x, p)
  <2>1. RenameBy(c, able, "cleanup") /\ able \in BOOLEAN
    BY <1>3, <1>10 DEF RenameAgain, CanRename
  <2>2. able <=> fs[p] = Absent
    BY <1>2 DEF CanRename
  <2>3. fs[x].data = local[p].data /\ fs[p] \in {Absent, Dir} /\ up[c].at = "again"
    BY <1>3, <1>10 DEF RenameAgain
  <2> HIDE DEF able
  <2> QED
    BY <1>1, <1>6, <2>1, <2>2, <2>3 DEF Stages, Absent, Dir
<1>11. CASE ClearDestination(c)
  <2>1. PICK ok \in BOOLEAN : RequestAt(c, ok, p, CanRemove(fs, p), Without(fs, p))
    BY <1>3, <1>11 DEF ClearDestination
  <2>2. UNCHANGED conn /\ fs' = IF CanRemove(fs, p) THEN Without(fs, p) ELSE fs
    BY <1>1, <1>2, <2>1, SureRequestAt DEF CanRemove, IsEmptyDir
  <2>3. ~CanRemove(fs, p) => fs[p] = Dir
    BY <1>2, <1>3, <1>11 DEF ClearDestination, CanRemove, Node, FileNode, Link
  <2>4. StaysAt(c, "again") /\ up[c].at = "clear"
    BY <1>5, <1>11 DEF ClearDestination, Stages
  <2> QED
    BY <1>1, <2>2, <2>3, <2>4
<1>12. CASE Cleanup(c)
  <2>1. PICK ok \in BOOLEAN : RequestAt(c, ok, x, CanRemove(fs, x), Without(fs, x))
    BY <1>12 DEF Cleanup
  <2>2. CanRemove(fs, x) = TRUE
    BY <1>2 DEF CanRemove, IsFile
  <2>3. UNCHANGED conn /\ fs' = Without(fs, x)
    BY <1>1, <1>2, <2>1, <2>2, SureRequestAt
  <2>4. up'[c].at = "failed" /\ fs[p] = Dir
    BY <1>1, <1>3, <1>12 DEF Cleanup, GaveUp
  <2> QED
    BY <1>1, <2>3, <2>4
<1> QED
  BY <1>7, <1>8, <1>9, <1>10, <1>11, <1>12 DEF UploadStep

\* ... and what it knows it still knows.
LEMMA UploadKeepsKnowing ==
  ASSUME TreesInv, faults' = 0, NEW c \in Caller, conn[c], UploadStep(c),
         NEW p, UploadKnows(c, p), IsFile(local[p]), Busy(c)'
  PROVE  UploadKnows(c, p)'
<1> DEFINE x == up[c].tmp
<1>1. /\ Busy(c) /\ UNCHANGED local /\ fs \in [Path -> Node]
  BY UploadStepTypes, UploadDoes
  DEF TreesInv, PathsInv, TypeInv, TypeOK, UploadTypeOK, SessionTypeOK
<1>2. /\ x \in Path /\ p \in Path /\ x # p /\ Parent(p) # p /\ Parent(p) # x
      /\ Parent(p) \in Path /\ fs[Parent(p)] = Dir /\ IsFile(fs[x])
  BY <1>1, UploadNames
<1>3. PICK s \in Stages : StaysAt(c, s)
  BY <1>1, UploadStepGoesOn, UploadGoesWell DEF Busy, Stages
<1>4. /\ up[c].dst = p /\ up[c].src = p /\ up[c].data = local[p].data
      /\ up[c].at # "write" => fs[x].data = local[p].data
  BY <1>1 DEF UploadKnows
<1>5. /\ up'[c].at = s /\ up'[c].dst = p /\ up'[c].src = p /\ up'[c].tmp = x
      /\ up'[c].data = local'[p].data
  BY <1>1, <1>3, <1>4 DEF StaysAt
<1>6. ASSUME fs'[Parent(p)] = Dir, IsFile(fs'[x]),
             s # "write" => fs'[x].data = local'[p].data,
             s = "clear" => fs'[p] # Absent,
             s = "again" => fs'[p] \in {Absent, Dir},
             s = "cleanup" => fs'[p] = Dir
      PROVE  UploadKnows(c, p)'
  BY <1>5, <1>6 DEF UploadKnows
<1>7. CASE /\ StaysAt(c, "posix") /\ up[c].at = "write"
           /\ \E m : fs' = [fs EXCEPT ![x] = File(local[p].data, m)]
  <2>1. s = "posix"
    BY <1>3, <1>7 DEF StaysAt
  <2>2. PICK m : fs' = [fs EXCEPT ![x] = File(local[p].data, m)]
    BY <1>7
  <2>3. fs'[x] = File(local[p].data, m) /\ fs'[Parent(p)] = Dir
    BY <1>1, <1>2, <2>2
  <2> QED
    BY <1>1, <1>6, <2>1, <2>3 DEF File, IsFile
<1>8. CASE StaysAt(c, "plain") /\ fs' = fs /\ up[c].at = "posix"
  BY <1>1, <1>2, <1>3, <1>4, <1>6, <1>8 DEF StaysAt
<1>9. CASE StaysAt(c, "clear") /\ fs' = fs /\ fs[p] # Absent /\ up[c].at = "plain"
  BY <1>1, <1>2, <1>3, <1>4, <1>6, <1>9 DEF StaysAt
<1>10. CASE /\ StaysAt(c, "again") /\ up[c].at = "clear"
            /\ \/ fs' = Without(fs, p)
               \/ fs' = fs /\ fs[p] = Dir
  <2>1. s = "again" /\ fs[x].data = local'[p].data
    BY <1>1, <1>3, <1>4, <1>10 DEF StaysAt
  <2>2. fs'[Parent(p)] = Dir /\ fs'[x] = fs[x] /\ fs'[p] \in {Absent, Dir}
    BY <1>1, <1>2, <1>10 DEF Without
  <2> QED
    BY <1>2, <1>6, <2>1, <2>2
<1>11. CASE /\ StaysAt(c, "cleanup") /\ fs' = fs /\ fs[p] = Dir /\ up[c].at = "again"
  BY <1>1, <1>2, <1>3, <1>4, <1>6, <1>11 DEF StaysAt
<1> QED
  BY <1>3, <1>7, <1>8, <1>9, <1>10, <1>11, UploadGoesWell DEF StaysAt, Stages

\* It starts with a temporary file.
LEMMA UploadStartsWell ==
  ASSUME TreesInv, faults' = 0, NEW c \in Caller, conn[c],
         NEW p \in Visible, UploadStart(c, p, p), UploadKnows(c, p), IsFile(local[p])
  PROVE  /\ UNCHANGED conn /\ Busy(c)' /\ up'[c].at = "write"
         /\ \E t \in FreshTemps(p) : /\ up'[c].tmp = t
                                     /\ fs' = [fs EXCEPT ![t] = File(Torn, Stamp)]
         /\ UploadKnows(c, p)'
<1>1. /\ SessionTypeOK /\ fs \in [Path -> Node] /\ WellFormed(fs) /\ UNCHANGED local
      /\ up \in [Caller -> UploadRecord] /\ fs[Parent(p)] = Dir
  BY DEF TreesInv, PathsInv, TypeInv, TypeOK, UploadTypeOK, SessionTypeOK, UploadStart,
         UploadKnows
<1>2. Sources(p) = {local[p].data}
  BY DEF Sources, IsFile, Link, Dir, Absent
<1>3. PICK t \in FreshTemps(p), ok \in BOOLEAN :
        /\ RequestAt(c, ok, t, CanCreate(fs, t), [fs EXCEPT ![t] = File(Torn, Stamp)])
        /\ up' = [up EXCEPT ![c] =
                    IF ok THEN [at |-> "write", src |-> p, dst |-> p, tmp |-> t,
                                data |-> local[p].data]
                          ELSE GaveUp]
  BY <1>2 DEF UploadStart
<1>4. /\ t \in Temps /\ t \in Entry /\ t \in Path /\ p \in Entry /\ p \in Path /\ t # p
      /\ t \in TempOf[p]
  BY <1>3, TempsAreEntries DEF FreshTemps
<1>5. Parent(t) = Parent(p) /\ Parent(p) \in Path /\ Parent(p) # t
  BY <1>4, TempAssumption, ParentFacts, ParentIsNoTemp
<1>6. ~LeadsOut(fs, t) /\ CanCreate(fs, t) = TRUE
  BY <1>1, <1>4, <1>5, NoLinkAbove DEF CanCreate
<1>7. ok = TRUE /\ UNCHANGED conn /\ fs' = [fs EXCEPT ![t] = File(Torn, Stamp)]
  <2>1. RequestAt(c, ok, t, TRUE, [fs EXCEPT ![t] = File(Torn, Stamp)])
    BY <1>3, <1>6
  <2> QED
    BY <1>1, <1>6, <2>1, SureRequestAt
<1>8. up'[c] = [at |-> "write", src |-> p, dst |-> p, tmp |-> t, data |-> local[p].data]
  BY <1>1, <1>3, <1>7
<1>9. fs'[t] = File(Torn, Stamp) /\ fs'[Parent(p)] = Dir
  BY <1>1, <1>4, <1>5, <1>7
<1>10. /\ up'[c].at = "write" /\ up'[c].src = p /\ up'[c].dst = p /\ up'[c].tmp = t
       /\ up'[c].data = local'[p].data
  BY <1>1, <1>8
<1>11. Busy(c)' /\ IsFile(fs'[t])
  BY <1>9, <1>10 DEF Busy, Stages, File, IsFile
<1>12. UploadKnows(c, p)'
  BY <1>9, <1>10, <1>11 DEF UploadKnows
<1> QED
  BY <1>3, <1>7, <1>10, <1>11, <1>12

-----------------------------------------------------------------------------
(***************************************************************************)
(* Apply, undisturbed.                                                     *)
(***************************************************************************)
Uploading(c) ==
  /\ result[c].deleted = {}
  /\ \A d \in call[c].made : fs[d] = Dir /\ \E u \in plan[c].ToUpload : d = Parent(u)

Deleting(c) ==
  LET k == call[c]
  IN  /\ k.uploads = {}
      /\ [path |-> k.cur, isDir |-> k.isDir] \in plan[c].ToDelete
      /\ \A e \in k.deletes : Len(e.path) <= Len(k.cur)

Told(c, L) ==
  LET k == call[c]
  IN  /\ PlannedWith(c, L) /\ fs[Base] = Dir
      /\ \A p \in Entry : Tells(c, L, p)
      /\ Explained(result[c], L)
      /\ k.deletes \subseteq plan[c].ToDelete
      /\ k.uploads # {} \/ k.phase \in {"mkdir", "upload"} => Uploading(c)
      /\ k.phase = "mkdir" => MkdirKnows(c)
      /\ k.phase = "upload" => /\ UploadKnows(c, k.cur)
                               /\ Busy(c) => L[up[c].tmp] = Absent
      /\ k.phase \in {"check", "remove"} => Deleting(c)

\* A link that no upload is going to replace: all promises are off.
Escapes(c) == \E a \in Entry : fs[a] = Link /\ a \notin plan[c].ToUpload

Watched(c) == TransferInv /\ WellFormed(local) /\ call[c].phase \in Applies

LEMMA WatchedFacts ==
  ASSUME NEW c \in Caller, Watched(c), NEW L, PlannedWith(c, L)
  PROVE  /\ TypeInv /\ SessionTypeOK /\ UploadTypeOK /\ MkdirTypeOK /\ PathsInv /\ TreesInv
         /\ fs \in [Path -> Node] /\ WellFormed(fs) /\ local \in [Path -> Node]
         /\ call \in [Caller -> CallRecord] /\ call[c] \in CallRecord
         /\ result \in [Caller -> ResultRecord] /\ result[c] \in ResultRecord
         /\ plan \in [Caller -> PlanRecord] /\ plan[c] \in PlanRecord
         /\ mk \in [Caller -> MkdirRecord] /\ up \in [Caller -> UploadRecord]
         /\ Aim(c) /\ Targets(c) /\ OffTemps(c) /\ ~call[c].dry
         /\ Balanced(call[c], plan[c], result[c])
<1>1. TypeInv /\ Ready(c) /\ PathsInv /\ TreesInv /\ WellFormed(fs)
  BY DEF Watched, TransferInv, TreesInv, PathsInv, AllReady
<1>2. Book(call[c], plan[c], result[c]) /\ Stops(call[c]) /\ Aim(c) /\ Targets(c) /\ OffTemps(c)
  BY <1>1 DEF Ready, MyBook, PathsInv, MkdirOffTemps
<1> QED
  BY <1>1, <1>2
  DEF Watched, Book, Stops, TypeInv, TypeOK, UploadTypeOK, SessionTypeOK, MkdirTypeOK

LEMMA PlanFacts ==
  ASSUME NEW c \in Caller, Watched(c), NEW L, PlannedWith(c, L)
  PROVE  /\ \A u \in plan[c].ToUpload :
              /\ u \in Visible /\ u \in Entry /\ u \in Path /\ IsFile(local[u])
              /\ \A a \in Entry : Under(u, a) =>
                   a \notin plan[c].ToUpload /\ a \notin Paths(plan[c].ToDelete)
         /\ \A d \in plan[c].ToDelete :
              /\ d.path \in Entry /\ d.path \in Path
              /\ L[d.path].kind \in {"file", "dir"}
              /\ d.isDir = (L[d.path] = Dir)
<1>1. /\ local \in [Path -> Node] /\ plan[c] \in PlanRecord /\ WellFormed(local)
      /\ L \in [Path -> Node] /\ rules \in Rules /\ plan[c] = BuildPlan(local, L, rules)
  BY WatchedFacts DEF Watched, PlannedWith, TypeInv, TypeOK
<1>2. ASSUME NEW u \in plan[c].ToUpload
      PROVE  u \in Visible /\ u \in Entry /\ u \in Path /\ IsFile(local[u])
  <2>1. u \in Visible
    BY <1>1 DEF PlanRecord
  <2>2. IsFile(local[u])
    BY <1>1 DEF BuildPlan, LocalFiles
  <2> QED
    BY <2>1, <2>2, TempsAreEntries
<1>3. ASSUME NEW u \in plan[c].ToUpload, NEW a \in Entry, Under(u, a)
      PROVE  a \notin plan[c].ToUpload /\ a \notin Paths(plan[c].ToDelete)
  BY <1>1, <1>3, AboveAnUpload
<1>4. ASSUME NEW d \in plan[c].ToDelete
      PROVE  /\ d.path \in Entry /\ d.path \in Path
             /\ L[d.path].kind \in {"file", "dir"}
             /\ d.isDir = (L[d.path] = Dir)
  <2>1. d.path \in Entry
    BY <1>1 DEF PlanRecord, DeleteEntry
  <2> QED
    BY <1>1, <2>1, DeletesAreEligible, TempsAreEntries
<1> QED
  BY <1>2, <1>3, <1>4

\* Without such a link there is none at or above the way to an upload.
LEMMA NoLinkOnTheWay ==
  ASSUME NEW c \in Caller, Watched(c), NEW L, Told(c, L), ~Escapes(c),
         NEW u \in plan[c].ToUpload
  PROVE  /\ \A d \in Path : Under(u, d) => fs[d] # Link /\ ~LeadsOut(fs, d)
         /\ ~LeadsOut(fs, u)
<1>1. u \in Path /\ PlannedWith(c, L) /\ fs[Base] = Dir
  BY PlanFacts DEF Told
<1>2. ASSUME NEW d \in Path, Under(u, d) PROVE fs[d] # Link
  <2>1. CASE d = Base
    BY <1>1, <2>1 DEF Dir, Link
  <2>2. CASE d # Base
    BY <1>1, <1>2, <2>2, PlanFacts DEF Entry, Escapes
  <2> QED
    BY <2>1, <2>2
<1>3. ~LeadsOut(fs, u)
  BY <1>2 DEF LeadsOut
<1>4. ASSUME NEW d \in Path, Under(u, d) PROVE ~LeadsOut(fs, d)
  BY <1>1, <1>2, <1>4, UnderTransitive DEF LeadsOut
<1> QED
  BY <1>2, <1>3, <1>4

\* What a step leaves alone it still tells.
LEMMA TellsStill ==
  ASSUME NEW c \in Caller, NEW L, NEW p \in Entry, Tells(c, L, p),
         fs'[p] = fs[p], UNCHANGED local, plan'[c] = plan[c],
         p \in result'[c].uploaded <=> p \in result[c].uploaded,
         p \in result'[c].deleted <=> p \in result[c].deleted,
         InHand(c, L, p) => InHand(c, L, p)'
  PROVE  Tells(c, L, p)'
  BY DEF Tells, InPlace, MadeFor

LEMMA NextEntryTold ==
  ASSUME NEW c \in Caller, Watched(c), NEW L, Told(c, L), NextEntry(c)
  PROVE  Told(c, L)'
<1> DEFINE k == call[c]
<1>1. /\ UNCHANGED <<local, fs, rules, plan, result>> /\ k.phase = "next"
      /\ PlannedWith(c, L) /\ fs[Base] = Dir /\ Explained(result[c], L)
      /\ k.deletes \subseteq plan[c].ToDelete
      /\ k.uploads # {} => Uploading(c)
  BY DEF NextEntry, session, Told
<1>2. /\ call \in [Caller -> CallRecord] /\ k \in CallRecord /\ plan[c] \in PlanRecord
      /\ mk \in [Caller -> MkdirRecord] /\ up \in [Caller -> UploadRecord]
  BY <1>1, WatchedFacts
<1>3. ASSUME NEW p \in Entry PROVE Tells(c, L, p)'
  <2>1. ~InHand(c, L, p) /\ Tells(c, L, p)
    BY <1>1 DEF InHand, Told
  <2> QED
    BY <1>1, <2>1, TellsStill
<1>4. PlannedWith(c, L)' /\ fs'[Base] = Dir /\ Explained(result'[c], L)
  BY <1>1 DEF PlannedWith
<1>5. CASE \E p \in k.uploads :
             /\ call' = [call EXCEPT ![c] =
                  [k EXCEPT !.uploads = @ \ {p}, !.cur = p,
                            !.phase = IF Parent(p) \in k.made THEN "upload"
                                      ELSE "mkdir"]]
             /\ up' = [up EXCEPT ![c] = NotStarted]
             /\ mk' = [mk EXCEPT ![c] = MkdirAt("stat", Parent(p), Parent(p))]
  <2>1. PICK p \in k.uploads :
             /\ call' = [call EXCEPT ![c] =
                  [k EXCEPT !.uploads = @ \ {p}, !.cur = p,
                            !.phase = IF Parent(p) \in k.made THEN "upload"
                                      ELSE "mkdir"]]
             /\ up' = [up EXCEPT ![c] = NotStarted]
             /\ mk' = [mk EXCEPT ![c] = MkdirAt("stat", Parent(p), Parent(p))]
    BY <1>5
  <2>2. /\ call'[c].cur = p /\ call'[c].made = k.made /\ call'[c].deletes = k.deletes
        /\ call'[c].phase = IF Parent(p) \in k.made THEN "upload" ELSE "mkdir"
    BY <1>2, <2>1 DEF CallRecord
  <2>3. up'[c].at = "idle" /\ mk'[c].at = "stat"
    BY <1>2, <2>1 DEF NotStarted, MkdirAt
  <2>4. Uploading(c)
    BY <1>1, <2>1
  <2>5. Uploading(c)'
    BY <1>1, <2>2, <2>4 DEF Uploading
  <2>6. MkdirKnows(c)'
    BY <2>3 DEF MkdirKnows
  <2>7. ~Busy(c)' /\ (call'[c].phase = "upload" => UploadKnows(c, call[c].cur)')
    <3>1. ASSUME Parent(p) \in k.made PROVE fs'[Parent(p)] = Dir
      BY <1>1, <2>4, <3>1 DEF Uploading
    <3> QED
      BY <2>2, <2>3, <3>1 DEF UploadKnows, Busy, Stages
  <2>8. call'[c].phase \notin {"check", "remove"}
    BY <2>2
  <2> QED
    BY <1>1, <1>3, <1>4, <2>2, <2>5, <2>6, <2>7, <2>8 DEF Told
<1>6. CASE /\ k.uploads = {}
           /\ \E d \in DeletableNow(k.deletes) :
                call' = [call EXCEPT ![c] =
                  [k EXCEPT !.deletes = @ \ {d}, !.cur = d.path,
                            !.isDir = d.isDir, !.phase = "check"]]
  <2>1. PICK d \in DeletableNow(k.deletes) :
             call' = [call EXCEPT ![c] =
               [k EXCEPT !.deletes = @ \ {d}, !.cur = d.path,
                         !.isDir = d.isDir, !.phase = "check"]]
    BY <1>6
  <2>2. /\ call'[c].cur = d.path /\ call'[c].isDir = d.isDir /\ call'[c].phase = "check"
        /\ call'[c].deletes = k.deletes \ {d} /\ call'[c].uploads = {}
    BY <1>2, <1>6, <2>1 DEF CallRecord
  <2>3. d \in plan[c].ToDelete /\ \A e \in k.deletes : Len(e.path) <= Len(d.path)
    BY <1>1, <2>1 DEF DeletableNow
  <2>4. d = [path |-> d.path, isDir |-> d.isDir]
    BY <1>2, <2>3 DEF PlanRecord, DeleteEntry
  <2>5. Deleting(c)'
    BY <1>1, <2>2, <2>3, <2>4 DEF Deleting
  <2> QED
    BY <1>1, <1>3, <1>4, <2>2, <2>5 DEF Told
<1>7. CASE k.uploads = {} /\ k.deletes = {} /\ Goto(c, "done")
  <2>1. call'[c].phase = "done" /\ call'[c].uploads = {} /\ call'[c].deletes = {}
    BY <1>2, <1>7 DEF Goto, CallRecord
  <2> QED
    BY <1>3, <1>4, <2>1 DEF Told
<1> QED
  BY <1>5, <1>6, <1>7 DEF NextEntry

\* What is in hand is in the plan, and not settled yet.
LEMMA HandFacts ==
  ASSUME NEW k, NEW toDo, NEW r, Balanced(k, toDo, r)
  PROVE  /\ r.uploaded \subseteq toDo.ToUpload
         /\ k.phase \in {"mkdir", "upload"} =>
              /\ k.cur \in toDo.ToUpload /\ k.cur \notin r.uploaded
         /\ k.phase \in {"check", "remove"} =>
              /\ k.cur \in Paths(toDo.ToDelete) /\ k.cur \notin r.deleted
         /\ Paths(toDo.ToDelete) =
              Paths(k.deletes) \cup Hand(k, {"check", "remove"})
                \cup r.deleted \cup FailedAs(r, "delete")
  BY DEF Balanced, Split, Hand

LEMMA FailReports ==
  ASSUME call \in [Caller -> CallRecord], result \in [Caller -> ResultRecord],
         NEW c \in Caller, call[c].cur \in Entry,
         NEW action \in {"mkdir", "upload", "delete"}, Fail(c, action)
  PROVE  LET k == call[c]
             r == result'[c]
         IN  /\ r.uploaded = result[c].uploaded /\ r.deleted = result[c].deleted
             /\ FailedAs(r, action) = FailedAs(result[c], action) \cup {k.cur}
             /\ \A a \in {"mkdir", "upload", "delete"} \ {action} :
                  FailedAs(r, a) = FailedAs(result[c], a)
             /\ call'[c].phase = "next" /\ call'[c].uploads = k.uploads
             /\ call'[c].deletes = k.deletes /\ call'[c].made = k.made
<1> DEFINE k == call[c]
           r == result'[c]
<1>1. /\ r.uploaded = result[c].uploaded /\ r.deleted = result[c].deleted
      /\ r.failed = result[c].failed \cup {<<k.cur, action>>}
  BY DEF Fail, ResultRecord
<1>2. /\ call'[c].phase = "next" /\ call'[c].uploads = k.uploads
      /\ call'[c].deletes = k.deletes /\ call'[c].made = k.made
  BY DEF Fail, Goto, CallRecord
<1>3. \A p \in Entry, a \in {"mkdir", "upload", "delete"} :
        <<p, a>> \in r.failed <=> \/ <<p, a>> \in result[c].failed
                                  \/ p = k.cur /\ a = action
  BY <1>1
<1> QED
  BY <1>1, <1>2, <1>3 DEF FailedAs

LEMMA MakeParentsTold ==
  ASSUME NEW c \in Caller, Watched(c), NEW L, Told(c, L), ~Escapes(c),
         faults' = 0, conn[c], MakeParents(c)
  PROVE  Told(c, L)' /\ UNCHANGED conn
<1> DEFINE k == call[c]
           r == result[c]
           d == mk[c].dir
<1>1. /\ k.phase = "mkdir" /\ MkdirStep(c) /\ UNCHANGED <<local, rules, plan, up>>
      /\ MkdirKnows(c) /\ Uploading(c) /\ PlannedWith(c, L) /\ fs[Base] = Dir
      /\ Explained(r, L) /\ k.deletes \subseteq plan[c].ToDelete
      /\ \A p \in Entry : Tells(c, L, p)
  BY MkdirStepTypes, WatchedFacts DEF MakeParents, Told, TypeInv, TypeOK, UploadTypeOK
<1>2. /\ TypeInv /\ fs \in [Path -> Node] /\ MkdirTypeOK /\ Targets(c) /\ Aim(c)
      /\ call \in [Caller -> CallRecord] /\ k \in CallRecord
      /\ result \in [Caller -> ResultRecord] /\ Balanced(k, plan[c], r)
  BY <1>1, WatchedFacts
<1>3. mk[c].at \in MkdirStages
  BY <1>1 DEF MkdirStep, MkdirStat, MkdirMake, MkdirChmod, MkdirRecheck, MkdirStages
<1>4. k.cur \in plan[c].ToUpload /\ r.uploaded \subseteq plan[c].ToUpload /\ k.cur \in Entry
  BY <1>1, <1>2, HandFacts, PlanFacts
<1>5. /\ d \in Path /\ mk[c].target = Parent(k.cur) /\ Parent(k.cur) \in Path
      /\ OnTheWay(d, Parent(k.cur))
  BY <1>1, <1>2, <1>3, <1>4, MkdirFields, ParentFacts DEF Targets, TypeInv, MkdirOnTheWay
<1>6. Under(k.cur, d)
  BY <1>4, <1>5, OnTheWayUp
<1>7. ~LeadsOut(fs, d) /\ fs[d] # Link
  BY <1>4, <1>5, <1>6, NoLinkOnTheWay
<1>8. /\ MkdirKnows(c)' /\ UNCHANGED conn
      /\ fs' = fs \/ (fs[d] = Absent /\ fs' = [fs EXCEPT ![d] = Dir])
      /\ mk'[c].at = "done" => fs'[Parent(k.cur)] = Dir
      /\ mk'[c].at = "failed" => fs' = fs /\ IsFile(fs[d])
  BY <1>1, <1>2, <1>5, <1>7, MkdirGoesOn
<1> HIDE DEF d
<1>9. d # Base => /\ d \in Entry /\ d \notin r.uploaded
                  /\ d \notin r.deleted /\ ~InHand(c, L, d)
  BY <1>1, <1>4, <1>5, <1>6, PlanFacts DEF Entry, Uploading, InHand
<1>10. ASSUME r.uploaded = result'[c].uploaded, r.deleted = result'[c].deleted
       PROVE  \A p \in Entry : Tells(c, L, p)'
  <2> SUFFICES ASSUME NEW p \in Entry PROVE Tells(c, L, p)'
    OBVIOUS
  <2>1. ~InHand(c, L, p) /\ p \in Path
    BY <1>1 DEF InHand, Entry
  <2>2. CASE fs'[p] = fs[p]
    BY <1>1, <1>10, <2>1, <2>2, TellsStill
  <2>3. CASE fs'[p] # fs[p]
    <3>1. p = d /\ fs[p] = Absent /\ fs'[p] = Dir
      BY <1>2, <1>8, <2>1, <2>3
    <3>2. L[p] = Absent
      BY <1>1, <1>9, <3>1, Zenon DEF Tells, MadeFor, Entry, Dir, Absent
    <3>3. MadeFor(c, L, p)'
      BY <1>1, <1>4, <1>6, <3>1, <3>2 DEF MadeFor
    <3> QED
      BY <1>9, <1>10, <3>1, <3>3 DEF Tells, InPlace, Entry
  <2> QED
    BY <2>2, <2>3
<1>11. fs'[Base] = Dir /\ PlannedWith(c, L)'
  BY <1>1, <1>2, <1>5, <1>8, PathAssumption DEF PlannedWith
<1>12. ASSUME result'[c].deleted = r.deleted,
              call'[c].made \subseteq k.made \cup {Parent(k.cur)},
              call'[c].made \subseteq k.made \/ fs'[Parent(k.cur)] = Dir
       PROVE  Uploading(c)'
  <2>1. ASSUME NEW e \in call'[c].made
        PROVE  fs'[e] = Dir /\ \E u \in plan[c].ToUpload : e = Parent(u)
    <3>1. CASE e \in k.made
      <4>1. e \in Path /\ fs[e] = Dir
        BY <1>1, <1>2, <3>1 DEF Uploading, CallRecord
      <4> QED
        BY <1>1, <1>2, <1>8, <3>1, <4>1 DEF Uploading
    <3>2. CASE e = Parent(k.cur) /\ e \notin k.made
      BY <1>4, <1>12, <3>2
    <3> QED
      BY <1>12, <3>1, <3>2
  <2> QED
    BY <1>1, <1>12, <2>1 DEF Uploading
<1>13. CASE mk'[c].at = "done"
  <2>1. /\ call' = [call EXCEPT ![c].phase = "upload",
                                ![c].made = @ \cup {Parent(k.cur)}]
        /\ UNCHANGED result
    BY <1>13 DEF MakeParents
  <2>2. /\ call'[c].phase = "upload" /\ call'[c].made = k.made \cup {Parent(k.cur)}
        /\ call'[c].deletes = k.deletes /\ call'[c].cur = k.cur
    BY <1>2, <2>1 DEF CallRecord
  <2>3. ~Busy(c)' /\ fs'[Parent(k.cur)] = Dir
    BY <1>1, <1>2, <1>8, <1>13 DEF Aim, Busy
  <2>4. UploadKnows(c, call[c].cur)'
    BY <2>2, <2>3 DEF UploadKnows
  <2> QED
    BY <1>1, <1>8, <1>10, <1>11, <1>12, <2>1, <2>2, <2>3, <2>4 DEF Told
<1>14. CASE mk'[c].at = "failed"
  <2>1. Fail(c, "mkdir")
    BY <1>14 DEF MakeParents
  <2>2. /\ result'[c].uploaded = r.uploaded /\ result'[c].deleted = r.deleted
        /\ FailedAs(result'[c], "mkdir") = FailedAs(r, "mkdir") \cup {k.cur}
        /\ FailedAs(result'[c], "upload") = FailedAs(r, "upload")
        /\ FailedAs(result'[c], "delete") = FailedAs(r, "delete")
        /\ call'[c].phase = "next" /\ call'[c].deletes = k.deletes /\ call'[c].made = k.made
    BY <1>2, <1>4, <2>1, FailReports
  <2>3. d # Base /\ IsFile(fs[d])
    BY <1>1, <1>8, <1>14 DEF IsFile, Dir
  <2>4. d \in Entry /\ IsFile(L[d])
    BY <1>1, <1>9, <2>3 DEF Tells, MadeFor, IsFile, Dir
  <2>5. Explained(result'[c], L)
    BY <1>1, <1>6, <2>2, <2>4 DEF Explained
  <2> QED
    BY <1>1, <1>8, <1>10, <1>11, <1>12, <2>2, <2>5 DEF Told
<1>15. CASE mk'[c].at \notin {"done", "failed"}
  <2>1. UNCHANGED <<call, result>>
    BY <1>15 DEF MakeParents
  <2> QED
    BY <1>1, <1>8, <1>10, <1>11, <1>12, <2>1 DEF Told
<1> QED
  BY <1>8, <1>13, <1>14, <1>15

\* One request of an upload: it starts, goes on, or ends.
LEMMA UploadMoves ==
  ASSUME NEW c \in Caller, Watched(c), NEW L, Told(c, L), faults' = 0, conn[c],
         UploadEntry(c)
  PROVE  LET p == call[c].cur
             x == up'[c].tmp
         IN  /\ UNCHANGED <<conn, local, rules, plan>> /\ call[c].phase = "upload"
             /\ p \in plan[c].ToUpload /\ p \notin result[c].uploaded
             /\ \/ /\ ~Busy(c) /\ UploadStart(c, p, p) /\ UNCHANGED <<call, result>>
                   /\ Busy(c)' /\ up'[c].at = "write" /\ UploadKnows(c, p)'
                   /\ x \in Temps /\ fs[x] = Absent
                   /\ fs' = [fs EXCEPT ![x] = File(Torn, Stamp)]
                \/ /\ UploadStep(c) /\ Busy(c)' /\ UploadKnows(c, p)' /\ x = up[c].tmp
                   /\ UNCHANGED <<call, result>>
                \/ /\ UploadStep(c) /\ up'[c].at = "done"
                   /\ result' = [result EXCEPT ![c].uploaded = @ \cup {p}]
                   /\ Goto(c, "next")
                \/ /\ UploadStep(c) /\ up'[c].at = "failed"
                   /\ Fail(c, "upload")
<1>0. PICK p : p = call[c].cur
  OBVIOUS
<1>1. /\ call[c].phase = "upload" /\ PlannedWith(c, L) /\ UploadKnows(c, p)
      /\ UNCHANGED <<rules, plan>>
  BY <1>0 DEF UploadEntry, Told
<1>2. /\ TreesInv /\ TypeInv /\ UploadTypeOK /\ Clean(local)
      /\ Balanced(call[c], plan[c], result[c])
  BY <1>1, WatchedFacts DEF TypeInv
<1>3. p \in plan[c].ToUpload /\ p \notin result[c].uploaded
  BY <1>0, <1>1, <1>2, HandFacts
<1>4. p \in Visible /\ IsFile(local[p])
  BY <1>1, <1>3, PlanFacts
<1>5. CASE up[c].at = "idle" /\ UploadStart(c, p, p)
  <2>0. UNCHANGED local /\ ~Busy(c)
    BY <1>5 DEF UploadStart
  <2>1. /\ UNCHANGED conn /\ Busy(c)' /\ up'[c].at = "write"
        /\ UploadKnows(c, p)'
    BY <1>1, <1>2, <1>4, <1>5, UploadStartsWell
  <2>2. up'[c].tmp \in FreshTemps(p) /\ fs' = [fs EXCEPT ![up'[c].tmp] = File(Torn, Stamp)]
    BY <1>1, <1>2, <1>4, <1>5, UploadStartsWell
  <2>3. up'[c].tmp \in Temps /\ fs[up'[c].tmp] = Absent
    BY <1>4, <2>2, TempsAreEntries DEF FreshTemps
  <2>4. UNCHANGED <<call, result>>
    BY <2>1 DEF UploadEntry
  <2>5. UploadKnows(c, call[c].cur)'
    BY <1>0, <2>1, <2>4
  <2> QED
    BY <1>0, <1>1, <1>3, <1>5, <2>0, <2>1, <2>2, <2>3, <2>4, <2>5
<1>6. CASE UploadStep(c)
  <2>1. UNCHANGED <<conn, local>>
    BY <1>1, <1>2, <1>4, <1>6, UploadGoesWell, UploadStepTypes
  <2>2. CASE up'[c].at = "done"
    BY <1>0, <1>1, <1>3, <1>6, <2>1, <2>2 DEF UploadEntry
  <2>3. CASE up'[c].at = "failed"
    BY <1>0, <1>1, <1>3, <1>6, <2>1, <2>3 DEF UploadEntry
  <2>4. CASE up'[c].at \notin {"done", "failed"}
    <3>1. Busy(c)'
      BY <1>2, <1>6, <2>4, UploadDoes
    <3>2. up'[c].tmp = up[c].tmp
      BY <1>2, <1>6, <3>1, UploadStepGoesOn
    <3>4. UploadKnows(c, p)'
      BY <1>1, <1>2, <1>4, <1>6, <3>1, UploadKeepsKnowing
    <3>3. UNCHANGED <<call, result>>
      BY <2>4 DEF UploadEntry
    <3>5. UploadKnows(c, call[c].cur)'
      BY <1>0, <3>3, <3>4
    <3> QED
      BY <1>0, <1>1, <1>3, <1>6, <2>1, <3>1, <3>2, <3>3, <3>5
  <2> QED
    BY <2>2, <2>3, <2>4
<1> QED
  BY <1>0, <1>5, <1>6 DEF UploadEntry

\* It touches its temporary file and its destination; nothing else.
LEMMA UploadTouches ==
  ASSUME NEW c \in Caller, Watched(c), NEW L, Told(c, L), UNCHANGED <<plan, result>>,
         call'[c].made = call[c].made, call[c].phase = "upload",
         NEW x \in Temps, \A q \in Path : q # x /\ q # call[c].cur => fs'[q] = fs[q],
         call[c].cur \in plan[c].ToUpload
  PROVE  Uploading(c)' /\ fs'[Base] = Dir
<1> DEFINE p == call[c].cur
<1>1. /\ Uploading(c) /\ PlannedWith(c, L) /\ fs[Base] = Dir /\ call[c] \in CallRecord
      /\ p \in Entry /\ x \in Entry
  BY WatchedFacts, PlanFacts, TempsAreEntries DEF Told
<1>2. ASSUME NEW d \in call[c].made
      PROVE  fs'[d] = Dir /\ \E u \in plan[c].ToUpload : d = Parent(u)
  <2>1. PICK u \in plan[c].ToUpload : d = Parent(u)
    BY <1>1 DEF Uploading
  <2>2. u \in Entry /\ d \in Path /\ Under(u, d) /\ d # x
    BY <1>1, <2>1, PlanFacts, ParentFacts, ParentIsNoTemp
  <2>3. d # p
    BY <1>1, <2>1, <2>2, PlanFacts
  <2> QED
    BY <1>1, <2>1, <2>2, <2>3 DEF Uploading
<1>3. Base \in Path /\ Base # x /\ Base # p
  BY <1>1, PathAssumption DEF Entry
<1> QED
  BY <1>1, <1>2, <1>3 DEF Uploading

\* Nothing is under its temporary name in the listing.
LEMMA TempIsNew ==
  ASSUME NEW c \in Caller, Watched(c), NEW L, Told(c, L), call[c].phase = "upload",
         NEW x \in Temps
  PROVE  /\ x \notin result[c].uploaded \cup result[c].deleted
         /\ ~Busy(c) /\ fs[x] = Absent => L[x] = Absent
<1>1. /\ result[c].deleted = {} /\ result[c].uploaded \subseteq Visible
      /\ x \in Entry /\ x \notin Visible
  BY WatchedFacts, HandFacts, PlanFacts, TempsAreEntries DEF Told, Uploading
<1>2. Tells(c, L, x)
  BY <1>1 DEF Told
<1> QED
  BY <1>1, <1>2 DEF Tells, MadeFor, InHand, Busy, Stages, Dir, Absent

LEMMA UploadStartTold ==
  ASSUME NEW c \in Caller, Watched(c), NEW L, Told(c, L),
         UNCHANGED <<local, rules, plan, call, result>>, call[c].phase = "upload",
         call[c].cur \in plan[c].ToUpload,
         ~Busy(c), Busy(c)', up'[c].at = "write",
         UploadKnows(c, call[c].cur)',
         up'[c].tmp \in Temps, fs[up'[c].tmp] = Absent,
         fs' = [fs EXCEPT ![up'[c].tmp] = File(Torn, Stamp)]
  PROVE  Told(c, L)'
<1> DEFINE x == up'[c].tmp
<1>1. /\ PlannedWith(c, L) /\ Explained(result[c], L) /\ call[c].deletes \subseteq plan[c].ToDelete
      /\ \A q \in Entry : Tells(c, L, q)
  BY DEF Told
<1>2. fs \in [Path -> Node] /\ x \in Entry /\ x \in Path
  BY <1>1, WatchedFacts, TempsAreEntries
<1>3. L[x] = Absent /\ x \notin result[c].uploaded \cup result[c].deleted
  BY TempIsNew
<1>4. \A q \in Path : q # x => fs'[q] = fs[q]
  BY <1>2
<1>5. Uploading(c)' /\ fs'[Base] = Dir
  BY <1>4, UploadTouches
<1>6. ASSUME NEW q \in Entry PROVE Tells(c, L, q)'
  <2>1. CASE q = x
    BY <1>3, <2>1 DEF Tells, InPlace, InHand
  <2>2. CASE q # x
    <3>1. ~InHand(c, L, q) /\ fs'[q] = fs[q]
      BY <1>4, <2>2 DEF InHand, Busy, Stages, Entry
    <3> QED
      BY <1>1, <3>1, TellsStill
  <2> QED
    BY <2>1, <2>2
<1>7. PlannedWith(c, L)'
  BY <1>1 DEF PlannedWith
<1> QED
  BY <1>1, <1>3, <1>5, <1>6, <1>7 DEF Told

LEMMA UploadStepTold ==
  ASSUME NEW c \in Caller, Watched(c), NEW L, Told(c, L), faults' = 0, conn[c],
         UNCHANGED <<local, rules, plan, call, result>>, call[c].phase = "upload",
         call[c].cur \in plan[c].ToUpload, call[c].cur \notin result[c].uploaded,
         UploadStep(c), Busy(c)', UploadKnows(c, call[c].cur)'
  PROVE  Told(c, L)'
<1>0. PICK p : p = call[c].cur
  OBVIOUS
<1> DEFINE x == up[c].tmp
<1>1. /\ PlannedWith(c, L) /\ Explained(result[c], L) /\ call[c].deletes \subseteq plan[c].ToDelete
      /\ \A q \in Entry : Tells(c, L, q)
      /\ UploadKnows(c, p) /\ (Busy(c) => L[x] = Absent) /\ result[c].deleted = {}
  BY <1>0 DEF Told, Uploading
<1>2. /\ fs \in [Path -> Node] /\ TreesInv /\ IsFile(local[p]) /\ UploadTypeOK
  BY <1>0, <1>1, WatchedFacts, PlanFacts
<1>3. Busy(c)
  BY <1>2, UploadDoes
<1>4. x \in Temps /\ x \in Path /\ x \in Entry /\ p \in Path /\ x # p /\ up[c].dst = p
  BY <1>1, <1>2, <1>3, UploadNames, TempsAreEntries DEF UploadKnows
<1>5. /\ x \notin result[c].uploaded \cup result[c].deleted
      /\ p \notin result[c].uploaded \cup result[c].deleted
  BY <1>0, <1>1, <1>4, TempIsNew
<1>6. up'[c].tmp = x /\ up'[c].dst = p /\ up'[c].at \notin {"done", "failed"}
  BY <1>2, <1>4, UploadStepGoesOn DEF Busy, Stages
<1>7. /\ \/ /\ up'[c].at # "again" /\ fs' = fs
         \/ /\ up'[c].at # "again" /\ \E n : fs' = [fs EXCEPT ![x] = n]
         \/ /\ up'[c].at = "again" /\ fs' = Without(fs, p)
         \/ /\ up'[c].at = "again" /\ fs' = fs
      /\ up[c].at = "again" => fs[p] = Dir
      /\ up'[c].at = "again" => up[c].at = "clear"
  <2>1. PICK s : s = up'[c].at
    OBVIOUS
  <2> QED
    BY <1>1, <1>2, <1>6, UploadGoesWell DEF StaysAt
<1>8. \A q \in Path : q # x /\ q # p => fs'[q] = fs[q]
  BY <1>2, <1>4, <1>7 DEF Without
<1>9. Uploading(c)' /\ fs'[Base] = Dir
  BY <1>0, <1>4, <1>8, UploadTouches
<1>10. ASSUME NEW q \in Entry PROVE Tells(c, L, q)'
  <2>1. CASE q = x
    BY <1>1, <1>3, <1>5, <1>6, <2>1 DEF Tells, InPlace, InHand
  <2>2. CASE q # x /\ ~(q = p /\ fs'[q] # fs[q])
    <3>1. fs'[q] = fs[q]
      BY <1>8, <2>2 DEF Entry
    <3>2. ~InHand(c, L, q)
      BY <1>4, <1>7, <2>2 DEF InHand, Dir, Absent
    <3> QED
      BY <1>1, <3>1, <3>2, TellsStill
  <2>3. CASE q = p /\ fs'[q] # fs[q]
    <3>1. fs'[p] = Absent /\ up'[c].at = "again"
      BY <1>2, <1>4, <1>7, <2>3 DEF Without
    <3>2. InHand(c, L, q)'
      BY <1>6, <2>3, <3>1 DEF InHand
    <3> QED
      BY <1>5, <2>3, <3>2 DEF Tells, InPlace
  <2> QED
    BY <2>1, <2>2, <2>3
<1>11. PlannedWith(c, L)'
  BY <1>1 DEF PlannedWith
<1> QED
  BY <1>1, <1>3, <1>6, <1>9, <1>10, <1>11 DEF Told

LEMMA UploadEndTold ==
  ASSUME NEW c \in Caller, Watched(c), NEW L, Told(c, L), faults' = 0, conn[c],
         UNCHANGED <<local, rules, plan>>, call[c].phase = "upload",
         call[c].cur \in plan[c].ToUpload, call[c].cur \notin result[c].uploaded,
         UploadStep(c),
         \/ /\ up'[c].at = "done"
            /\ result' = [result EXCEPT ![c].uploaded = @ \cup {call[c].cur}]
            /\ Goto(c, "next")
         \/ up'[c].at = "failed" /\ Fail(c, "upload")
  PROVE  Told(c, L)'
<1>0. PICK p, x : p = call[c].cur /\ x = up[c].tmp
  OBVIOUS
<1> DEFINE k == call[c]
           r == result[c]
<1>1. /\ PlannedWith(c, L) /\ Explained(r, L) /\ k.deletes \subseteq plan[c].ToDelete
      /\ \A q \in Entry : Tells(c, L, q)
      /\ UploadKnows(c, p) /\ (Busy(c) => L[x] = Absent)
      /\ r.deleted = {} /\ Uploading(c) /\ fs[Base] = Dir
  BY <1>0 DEF Told, Uploading
<1>2. /\ fs \in [Path -> Node] /\ TreesInv /\ IsFile(local[p]) /\ UploadTypeOK
      /\ call \in [Caller -> CallRecord] /\ k \in CallRecord
      /\ result \in [Caller -> ResultRecord] /\ r \in ResultRecord
  BY <1>0, <1>1, WatchedFacts, PlanFacts
<1>3. Busy(c)
  BY <1>2, UploadDoes
<1>4. /\ x \in Temps /\ x \in Path /\ x \in Entry /\ p \in Path /\ p \in Entry /\ x # p
      /\ up[c].dst = p /\ IsFile(fs[x])
  BY <1>0, <1>1, <1>2, <1>3, UploadNames, TempsAreEntries DEF UploadKnows
<1>5. /\ x \notin r.uploaded \cup r.deleted
      /\ p \notin r.uploaded \cup r.deleted
  BY <1>0, <1>1, <1>4, TempIsNew
<1>6. \/ /\ up'[c].at = "done" /\ fs' = Moved(fs, x, p) /\ fs[x].data = local[p].data
      \/ /\ up'[c].at = "failed" /\ fs' = Without(fs, x) /\ fs[p] = Dir
  BY <1>0, <1>1, <1>2, UploadGoesWell DEF StaysAt, Busy, Stages
<1>7. /\ call'[c].phase = "next" /\ call'[c].deletes = k.deletes /\ call'[c].made = k.made
      /\ result'[c].deleted = {}
  <2>1. CASE up'[c].at = "done"
    BY <1>1, <1>2, <2>1 DEF Goto, CallRecord, ResultRecord
  <2>2. CASE up'[c].at = "failed"
    BY <1>0, <1>1, <1>2, <1>4, <2>2, FailReports
  <2> QED
    BY <2>1, <2>2
<1>8. Uploading(c)'
  <2>1. ASSUME NEW d \in k.made
        PROVE  fs'[d] = Dir /\ \E u \in plan[c].ToUpload : d = Parent(u)
    <3>1. PICK u \in plan[c].ToUpload : d = Parent(u)
      BY <1>1 DEF Uploading
    <3>2. u \in Entry /\ d \in Path /\ Under(u, d) /\ d # x
      BY <1>1, <1>4, <3>1, PlanFacts, ParentFacts, ParentIsNoTemp
    <3>3. d # p
      BY <1>0, <1>1, <1>4, <3>1, <3>2, PlanFacts
    <3> QED
      BY <1>1, <1>2, <1>4, <1>6, <3>1, <3>2, <3>3 DEF Uploading, Moved, Without
  <2> QED
    BY <1>7, <2>1 DEF Uploading
<1>9. PlannedWith(c, L)' /\ fs'[Base] = Dir
  BY <1>1, <1>2, <1>4, <1>6, PathAssumption DEF PlannedWith, Moved, Without, Entry
<1>10. ASSUME NEW q \in Entry, q # x, q # p,
              q \in result'[c].uploaded <=> q \in r.uploaded
       PROVE  Tells(c, L, q)'
  <2>1. fs'[q] = fs[q]
    BY <1>2, <1>4, <1>6, <1>10 DEF Moved, Without, Entry
  <2>2. ~InHand(c, L, q)
    BY <1>0, <1>4, <1>10 DEF InHand
  <2> QED
    BY <1>1, <1>7, <1>10, <2>1, <2>2, TellsStill
<1>11. CASE up'[c].at = "done"
  <2>1. fs' = Moved(fs, x, p) /\ fs[x].data = local[p].data
    BY <1>6, <1>11
  <2>2. /\ result'[c].uploaded = r.uploaded \cup {p} /\ result'[c].failed = r.failed
    BY <1>0, <1>2, <1>11 DEF ResultRecord, Fail
  <2>3. fs'[p] = fs[x] /\ fs'[x] = Absent
    BY <1>2, <1>4, <2>1 DEF Moved
  <2>4. Tells(c, L, p)'
    BY <1>4, <1>7, <2>1, <2>2, <2>3 DEF Tells, InPlace
  <2>5. Tells(c, L, x)'
    BY <1>1, <1>3, <1>4, <1>5, <1>7, <2>2, <2>3 DEF Tells, InPlace
  <2>6. \A q \in Entry : Tells(c, L, q)'
    BY <1>10, <2>2, <2>4, <2>5
  <2>7. Explained(result'[c], L)
    BY <1>1, <2>2 DEF Explained, FailedAs
  <2> QED
    BY <1>1, <1>7, <1>8, <1>9, <2>6, <2>7 DEF Told
<1>12. CASE up'[c].at = "failed"
  <2>1. fs' = Without(fs, x) /\ fs[p] = Dir
    BY <1>6, <1>12
  <2>2. /\ result'[c].uploaded = r.uploaded
        /\ FailedAs(result'[c], "upload") = FailedAs(r, "upload") \cup {p}
        /\ FailedAs(result'[c], "mkdir") = FailedAs(r, "mkdir")
        /\ FailedAs(result'[c], "delete") = FailedAs(r, "delete")
    BY <1>0, <1>2, <1>4, <1>12, FailReports
  <2>3. fs'[p] = fs[p] /\ fs'[x] = Absent
    BY <1>2, <1>4, <2>1 DEF Without
  <2>4. ~InHand(c, L, p) /\ Tells(c, L, p)
    BY <1>0, <1>1, <1>4, <2>1 DEF InHand, Dir, Absent
  <2>5. Tells(c, L, p)'
    BY <1>1, <1>4, <1>7, <2>2, <2>3, <2>4, TellsStill
  <2>6. Tells(c, L, x)'
    BY <1>1, <1>3, <1>4, <1>5, <1>7, <2>2, <2>3 DEF Tells, InPlace
  <2>7. \A q \in Entry : Tells(c, L, q)'
    BY <1>10, <2>2, <2>5, <2>6
  <2>8. L[p] = Dir
    <3>1. ~MadeFor(c, L, p)
      BY <1>0, <1>1, <1>4, PlanFacts DEF MadeFor
    <3> QED
      BY <1>5, <2>1, <2>4, <3>1 DEF Tells
  <2>9. Explained(result'[c], L)
    BY <1>1, <2>2, <2>8 DEF Explained
  <2> QED
    BY <1>1, <1>7, <1>8, <1>9, <2>7, <2>9 DEF Told
<1> QED
  BY <1>6, <1>11, <1>12

LEMMA UploadEntryTold ==
  ASSUME NEW c \in Caller, Watched(c), NEW L, Told(c, L), faults' = 0, conn[c],
         UploadEntry(c)
  PROVE  Told(c, L)' /\ UNCHANGED conn
  BY UploadMoves, UploadStartTold, UploadStepTold, UploadEndTold

\* What is to be deleted is there, as it was listed.
LEMMA DeleteInHand ==
  ASSUME NEW c \in Caller, Watched(c), NEW L, Told(c, L),
         call[c].phase \in {"check", "remove"}
  PROVE  LET k == call[c]
         IN  /\ k.cur \in Entry /\ k.cur \in Path
             /\ k.cur \notin result[c].uploaded \cup result[c].deleted
             /\ fs[k.cur] = L[k.cur] /\ L[k.cur].kind \in {"file", "dir"}
             /\ k.isDir = (L[k.cur] = Dir)
             /\ ~LeadsOut(fs, k.cur)
<1> DEFINE k == call[c]
<1>1. /\ PlannedWith(c, L) /\ Deleting(c) /\ \A p \in Entry : Tells(c, L, p)
  BY DEF Told
<1>2. /\ fs \in [Path -> Node] /\ WellFormed(fs) /\ local \in [Path -> Node] /\ rules \in Rules
      /\ Balanced(k, plan[c], result[c])
  BY <1>1, WatchedFacts DEF TypeInv, TypeOK
<1>3. PICK d \in plan[c].ToDelete : d.path = k.cur /\ d.isDir = k.isDir
  BY <1>1 DEF Deleting
<1>4. /\ k.cur \in Entry /\ k.cur \in Path /\ L[k.cur].kind \in {"file", "dir"}
      /\ k.isDir = (L[k.cur] = Dir)
  BY <1>1, <1>3, PlanFacts
<1>5. k.cur \notin plan[c].ToUpload
  BY <1>1, <1>2, <1>3, UploadsAndDeletesDisjoint DEF PlannedWith
<1>6. k.cur \notin result[c].uploaded /\ k.cur \notin result[c].deleted
  BY <1>2, <1>5, HandFacts
<1>7. fs[k.cur] = L[k.cur]
  BY <1>1, <1>4, <1>6 DEF Tells, MadeFor, InHand, Absent
<1>8. ~LeadsOut(fs, k.cur)
  BY <1>2, <1>4, <1>7, NoLinkAbove DEF Absent
<1> QED
  BY <1>4, <1>6, <1>7, <1>8

LEMMA CheckDeleteTold ==
  ASSUME NEW c \in Caller, Watched(c), NEW L, Told(c, L), faults' = 0, conn[c],
         CheckDelete(c)
  PROVE  Told(c, L)' /\ UNCHANGED conn /\ fs'[call'[c].cur] # Link
<1> DEFINE k == call[c]
<1>1. /\ k.phase = "check" /\ UNCHANGED <<local, rules, plan>>
      /\ PlannedWith(c, L) /\ Explained(result[c], L) /\ k.deletes \subseteq plan[c].ToDelete
      /\ Deleting(c) /\ fs[Base] = Dir /\ \A p \in Entry : Tells(c, L, p)
  BY DEF CheckDelete, Told, env
<1>2. SessionTypeOK /\ call \in [Caller -> CallRecord] /\ k \in CallRecord
  BY <1>1, WatchedFacts
<1>3. fs[k.cur] # Link /\ ResolvesInside(k.cur)
  BY <1>1, DeleteInHand DEF ResolvesInside, Link
<1>4. PICK ok \in BOOLEAN :
        /\ Ask(c, ok, TRUE)
        /\ IF ok /\ ResolvesInside(k.cur) THEN Goto(c, "remove") /\ UNCHANGED result
           ELSE Fail(c, "delete")
  BY DEF CheckDelete
<1>5. ok = TRUE /\ UNCHANGED <<conn, fs>>
  BY <1>2, <1>4, SureAsk
<1>6. UNCHANGED result /\ Goto(c, "remove")
  BY <1>3, <1>4, <1>5
<1>7. /\ call'[c].phase = "remove" /\ call'[c].cur = k.cur /\ call'[c].isDir = k.isDir
      /\ call'[c].uploads = k.uploads /\ call'[c].deletes = k.deletes
  BY <1>2, <1>6 DEF Goto, CallRecord
<1>8. ASSUME NEW p \in Entry PROVE Tells(c, L, p)'
  BY <1>1, <1>5, <1>6, TellsStill DEF InHand
<1>9. PlannedWith(c, L)' /\ Deleting(c)' /\ fs'[Base] = Dir
  BY <1>1, <1>5, <1>7 DEF PlannedWith, Deleting
<1> QED
  BY <1>1, <1>3, <1>5, <1>6, <1>7, <1>8, <1>9 DEF Told, Deleting

\* A directory that is to be deleted is empty by then: the plan names all that
\* was in it, deeper paths first, and nothing was put there.
LEMMA EmptyByThen ==
  ASSUME NEW c \in Caller, Watched(c), NEW L, Told(c, L), ~Escapes(c),
         call[c].phase = "remove", L[call[c].cur] = Dir,
         NEW q \in Path, Under(q, call[c].cur)
  PROVE  fs[q] = Absent
<1> DEFINE k == call[c]
           r == result[c]
<1> SUFFICES ASSUME fs[q] # Absent PROVE FALSE
  OBVIOUS
<1>1. /\ PlannedWith(c, L) /\ Explained(r, L) /\ Deleting(c)
      /\ \A p \in Entry : Tells(c, L, p)
  BY DEF Told
<1>2. /\ local \in [Path -> Node] /\ rules \in Rules /\ L \in [Path -> Node]
      /\ Balanced(k, plan[c], r) /\ plan[c] \in PlanRecord
      /\ plan[c] = BuildPlan(local, L, rules)
  BY <1>1, WatchedFacts DEF TypeInv, TypeOK, PlannedWith
<1>3. PICK d \in plan[c].ToDelete : d.path = k.cur /\ d.isDir = k.isDir
  BY <1>1 DEF Deleting
<1>4. k.cur \in Entry /\ k.cur \in Paths(plan[c].ToDelete) /\ d.isDir
  BY <1>3, DeleteInHand DEF Paths
<1>5. q \in Entry /\ Len(k.cur) < Len(q)
  BY PathAssumption DEF Entry, Base, Under
<1>6. ASSUME NEW u \in plan[c].ToUpload, Under(u, k.cur) PROVE FALSE
  BY <1>1, <1>4, <1>6, PlanFacts
<1>7. q \notin plan[c].ToUpload /\ q \notin r.uploaded
  BY <1>2, <1>6, HandFacts
<1>8. q \notin r.deleted
  BY <1>1, <1>5 DEF Tells, InPlace
<1>9. ~MadeFor(c, L, q)
  <2>1. ASSUME NEW u \in plan[c].ToUpload, Under(u, q) PROVE FALSE
    <3>1. u \in Path /\ k.cur \in Path
      BY <1>1, <1>4, PlanFacts DEF Entry
    <3> QED
      BY <1>6, <2>1, <3>1, UnderTransitive
  <2> QED
    BY <2>1 DEF MadeFor
<1>10. fs[q] = L[q]
  BY <1>1, <1>5, <1>7, <1>8, <1>9 DEF Tells, InHand
<1>11. L[q].kind \in {"file", "dir"}
  BY <1>2, <1>5, <1>7, <1>10 DEF Escapes, Node, FileNode, Dir
<1>12. PICK e \in plan[c].ToDelete : e.path = q
  BY <1>2, <1>3, <1>4, <1>5, <1>11, DeletedDirsAreEmptied
<1>13. q \in Paths(k.deletes)
  BY <1>1, <1>2, <1>5, <1>8, <1>12, HandFacts DEF Paths, Hand, Explained
<1>14. Len(q) <= Len(k.cur)
  BY <1>1, <1>13 DEF Deleting, Paths
<1> QED
  BY <1>4, <1>5, <1>14, PathAssumption DEF Entry

LEMMA RemoveEntryTold ==
  ASSUME NEW c \in Caller, Watched(c), NEW L, Told(c, L), ~Escapes(c),
         faults' = 0, conn[c], RemoveEntry(c)
  PROVE  Told(c, L)' /\ UNCHANGED conn
<1>0. PICK p : p = call[c].cur
  OBVIOUS
<1> DEFINE k == call[c]
           r == result[c]
           able == IF k.isDir THEN IsEmptyDir(fs, p) ELSE CanRemove(fs, p)
<1>1. /\ k.phase = "remove" /\ UNCHANGED <<local, rules, plan>>
      /\ PlannedWith(c, L) /\ Explained(r, L) /\ k.deletes \subseteq plan[c].ToDelete
      /\ k.uploads = {} /\ fs[Base] = Dir /\ \A q \in Entry : Tells(c, L, q)
  BY DEF RemoveEntry, Told, env, Deleting
<1>2. /\ SessionTypeOK /\ fs \in [Path -> Node] /\ call \in [Caller -> CallRecord]
      /\ k \in CallRecord /\ result \in [Caller -> ResultRecord] /\ r \in ResultRecord
  BY <1>1, WatchedFacts
<1>3. /\ p \in Entry /\ p \in Path /\ p \notin r.uploaded \cup r.deleted
      /\ fs[p] = L[p] /\ L[p].kind \in {"file", "dir"}
      /\ k.isDir = (L[p] = Dir) /\ ~LeadsOut(fs, p)
  BY <1>0, <1>1, DeleteInHand
<1>4. able = TRUE
  <2>1. CASE L[p] = Dir
    <3>1. IsEmptyDir(fs, p)
      BY <1>0, <1>1, <1>3, <2>1, EmptyByThen DEF IsEmptyDir
    <3> QED
      BY <1>3, <2>1, <3>1 DEF IsEmptyDir
  <2>2. CASE L[p] # Dir
    <3>1. fs[p].kind = "file"
      BY <1>2, <1>3, <2>2 DEF Node, FileNode, Absent, Link
    <3> QED
      BY <1>3, <2>2, <3>1 DEF CanRemove
  <2> QED
    BY <2>1, <2>2
<1>5. PICK ok \in BOOLEAN :
        /\ RequestAt(c, ok, p, able, Without(fs, p))
        /\ IF ok THEN /\ result' = [result EXCEPT ![c].deleted = @ \cup {p}]
                      /\ Goto(c, "next")
                 ELSE Fail(c, "delete")
  BY <1>0 DEF RemoveEntry
<1> HIDE DEF able
<1>6. ok = TRUE /\ UNCHANGED conn /\ fs' = Without(fs, p)
  <2>1. RequestAt(c, ok, p, TRUE, Without(fs, p))
    BY <1>4, <1>5
  <2> QED
    BY <1>2, <1>3, <2>1, SureRequestAt
<1>7. /\ result'[c].uploaded = r.uploaded /\ result'[c].deleted = r.deleted \cup {p}
      /\ result'[c].failed = r.failed
      /\ call'[c].phase = "next" /\ call'[c].uploads = {} /\ call'[c].deletes = k.deletes
  <2>1. result' = [result EXCEPT ![c].deleted = @ \cup {p}] /\ Goto(c, "next")
    BY <1>5, <1>6
  <2>2. result'[c] = [r EXCEPT !.deleted = @ \cup {p}]
    BY <1>2, <2>1
  <2>3. call'[c] = [k EXCEPT !.phase = "next"]
    BY <1>2, <2>1 DEF Goto
  <2>4. /\ result'[c].uploaded = r.uploaded /\ result'[c].deleted = r.deleted \cup {p}
        /\ result'[c].failed = r.failed
    BY <1>2, <2>2 DEF ResultRecord
  <2>5. /\ call'[c].phase = "next" /\ call'[c].uploads = k.uploads
        /\ call'[c].deletes = k.deletes
    BY <1>2, <2>3 DEF CallRecord
  <2> QED
    BY <1>1, <2>4, <2>5
<1>8. ASSUME NEW q \in Entry PROVE Tells(c, L, q)'
  <2>1. CASE q = p
    BY <1>2, <1>3, <1>6, <1>7, <2>1 DEF Tells, InPlace, Without
  <2>2. CASE q # p
    <3>1. fs'[q] = fs[q] /\ ~InHand(c, L, q)
      BY <1>1, <1>2, <1>6, <2>2 DEF Without, InHand, Entry
    <3> QED
      BY <1>1, <1>7, <2>2, <3>1, TellsStill
  <2> QED
    BY <2>1, <2>2
<1>9. PlannedWith(c, L)' /\ fs'[Base] = Dir /\ Explained(result'[c], L)
  BY <1>1, <1>2, <1>3, <1>6, <1>7, PathAssumption
  DEF PlannedWith, Without, Entry, Explained, FailedAs
<1> QED
  BY <1>1, <1>6, <1>7, <1>8, <1>9 DEF Told

\* A link that no upload replaces stays: deletes are checked for links first.
LEMMA EscapesStay ==
  ASSUME NEW c \in Caller, Watched(c), CallStep(c), Escapes(c),
         call[c].phase = "remove" => fs[call[c].cur] # Link
  PROVE  Escapes(c)'
<1>1. PICK a \in Entry : fs[a] = Link /\ a \notin plan[c].ToUpload
  BY DEF Escapes
<1>2. /\ TypeInv /\ UploadTypeOK /\ Aim(c) /\ PlainTemps /\ fs \in [Path -> Node]
      /\ Book(call[c], plan[c], result[c])
  BY DEF Watched, TransferInv, TreesInv, PathsInv, AllReady, Ready, MyBook, TypeInv, TypeOK,
         UploadTypeOK, SessionTypeOK
<1>3. Balanced(call[c], plan[c], result[c])
  BY <1>2 DEF Watched, Book
<1>4. UNCHANGED plan
  BY DEF Watched, Applies, CallStep, StatBase, MakeBase, ResolveBase, List, Plan, PlanFails,
         NextEntry, MakeParents, UploadEntry, CheckDelete, RemoveEntry
<1>5. Writes(c)
  BY <1>2, CallStepWrites
<1>6. Busy(c) => /\ up[c].dst # a /\ up[c].tmp # a
                 /\ up[c].dst \in Path /\ up[c].tmp \in Path
  <2>1. Busy(c) => up[c].dst \in plan[c].ToUpload
    BY <1>2, <1>3, HandFacts DEF Aim
  <2> QED
    BY <1>1, <1>2, <2>1, BusyPaths DEF PlainTemps
<1>7. fs'[a] = Link
  BY <1>1, <1>2, <1>5, <1>6, TempsAreEntries
  DEF Writes, WritesUpload, Moved, Without, Entry, Absent, Link
<1> QED
  BY <1>1, <1>4, <1>7 DEF Escapes

\* So Apply never loses track.
LEMMA ApplyTold ==
  ASSUME NEW c \in Caller, Watched(c), CallStep(c), faults' = 0, conn[c],
         call[c].phase = "remove" => fs[call[c].cur] # Link,
         Escapes(c) \/ \E L : Told(c, L)
  PROVE  Escapes(c)' \/ \E L : Told(c, L)'
<1>1. CASE Escapes(c)
  BY <1>1, EscapesStay
<1>2. CASE ~Escapes(c) /\ \E L : Told(c, L)
  <2>1. PICK L : Told(c, L)
    BY <1>2
  <2>2. NextEntry(c) \/ MakeParents(c) \/ UploadEntry(c) \/ CheckDelete(c) \/ RemoveEntry(c)
    BY DEF Watched, Applies, CallStep, StatBase, MakeBase, ResolveBase, List, Plan, PlanFails
  <2>3. Told(c, L)'
    BY <1>2, <2>1, <2>2, NextEntryTold, MakeParentsTold, UploadEntryTold, CheckDeleteTold,
       RemoveEntryTold
  <2> QED
    BY <2>3
<1> QED
  BY <1>1, <1>2

-----------------------------------------------------------------------------
(***************************************************************************)
(* The listing, undisturbed: what is not listed yet lies under a directory *)
(* that is still to be read.                                               *)
(***************************************************************************)
ListKnows(c) ==
  LET k == call[c]
  IN  /\ \A p \in Entry : k.listing[p] \in {Absent, fs[p]}
      /\ \A p \in Entry : k.listing[p] = fs[p] \/ \E d \in k.todo : Under(p, d)
      /\ \A d \in k.todo : d = Base \/ fs[d] = Dir
      /\ Base \in k.todo \/ fs[Base] = Dir

PlanningKnows(c) ==
  LET k == call[c]
  IN  /\ k.phase \in {"stat", "mkbase", "realpath"} => k.listing = NothingListed
      /\ k.phase = "mkbase" => MkdirKnows(c)
      /\ k.phase \in {"realpath", "list"} => fs[Base] # Absent
      /\ k.phase = "list" => ListKnows(c)
      /\ k.phase = "plan" => fs[Base] = Dir /\ \A p \in Entry : k.listing[p] = fs[p]

Planner(c) ==
  /\ TransferInv /\ call[c].phase \in Planning /\ ~call[c].dry
  /\ fs[Base] # Link /\ PlanningKnows(c)

LEMMA PlannerFacts ==
  ASSUME NEW c \in Caller, Planner(c)
  PROVE  /\ TypeInv /\ SessionTypeOK /\ MkdirTypeOK /\ Targets(c)
         /\ fs \in [Path -> Node] /\ WellFormed(fs) /\ local \in [Path -> Node]
         /\ call \in [Caller -> CallRecord] /\ call[c] \in CallRecord
         /\ mk \in [Caller -> MkdirRecord] /\ plan \in [Caller -> PlanRecord]
         /\ result \in [Caller -> ResultRecord] /\ result[c] = NoResult
         /\ NoTornFile
<1>1. TypeInv /\ Ready(c) /\ NoTornFile /\ WellFormed(fs)
  BY DEF Planner, TransferInv, TreesInv, PathsInv, TornInv, AllReady
<1>2. Targets(c) /\ result[c] = NoResult
  BY <1>1 DEF Ready, MyBook, Book, Planner
<1> QED
  BY <1>1, <1>2 DEF TypeInv, TypeOK, UploadTypeOK, SessionTypeOK, MkdirTypeOK

\* Nothing leads out of the base itself.
LEMMA BaseIsInside == \A t : ~LeadsOut(t, Base)
BY PathAssumption DEF LeadsOut, Under, Base

LEMMA StatBaseKnows ==
  ASSUME NEW c \in Caller, Planner(c), faults' = 0, conn[c], StatBase(c)
  PROVE  PlanningKnows(c)' /\ UNCHANGED <<conn, fs>>
         /\ call'[c].phase \in Planning /\ ~call'[c].dry
<1>1. PICK ok \in BOOLEAN :
        /\ Ask(c, ok, TRUE)
        /\ IF ~ok THEN Goto(c, "error")
           ELSE IF fs[Base] # Absent THEN Goto(c, "realpath")
           ELSE IF call[c].dry THEN Goto(c, "plan")
           ELSE /\ Goto(c, "mkbase")
                /\ mk' = [mk EXCEPT ![c] = MkdirAt("stat", Base, Base)]
  BY DEF StatBase
<1>2. ok = TRUE /\ UNCHANGED <<conn, fs>>
  BY <1>1, PlannerFacts, SureAsk
<1>3. call[c].phase = "stat" /\ call[c].listing = NothingListed /\ ~call[c].dry
  BY DEF StatBase, Planner, PlanningKnows
<1>4. CASE fs[Base] # Absent
  <2>1. call'[c] = [call[c] EXCEPT !.phase = "realpath"]
    BY <1>1, <1>2, <1>4, PlannerFacts DEF Goto
  <2>2. /\ call'[c].phase = "realpath" /\ call'[c].listing = NothingListed
        /\ call'[c].dry = call[c].dry
    BY <1>3, <2>1, PlannerFacts DEF CallRecord
  <2> QED
    BY <1>2, <1>3, <1>4, <2>2 DEF PlanningKnows, Planning
<1>5. CASE fs[Base] = Absent
  <2>1. /\ call'[c] = [call[c] EXCEPT !.phase = "mkbase"]
        /\ mk'[c] = MkdirAt("stat", Base, Base)
    BY <1>1, <1>2, <1>3, <1>5, PlannerFacts DEF Goto
  <2>2. /\ call'[c].phase = "mkbase" /\ call'[c].listing = NothingListed
        /\ call'[c].dry = call[c].dry
    BY <1>3, <2>1, PlannerFacts DEF CallRecord
  <2>3. MkdirKnows(c)'
    BY <2>1 DEF MkdirKnows, MkdirAt
  <2> QED
    BY <1>2, <1>3, <2>2, <2>3 DEF PlanningKnows, Planning
<1> QED
  BY <1>4, <1>5

LEMMA MakeBaseKnows ==
  ASSUME NEW c \in Caller, Planner(c), faults' = 0, conn[c], MakeBase(c)
  PROVE  /\ call'[c].phase # "error" => PlanningKnows(c)'
         /\ UNCHANGED conn /\ fs'[Base] # Link
         /\ call'[c].phase \in Planning \cup {"error"} /\ ~call'[c].dry
<1>1. /\ call[c].phase = "mkbase" /\ call[c].listing = NothingListed /\ ~call[c].dry
      /\ MkdirStep(c) /\ MkdirKnows(c)
  BY DEF MakeBase, Planner, PlanningKnows
<1>2. mk[c].at \in MkdirStages
  BY <1>1 DEF MkdirStep, MkdirStat, MkdirMake, MkdirChmod, MkdirRecheck, MkdirStages
<1>3. mk[c].target = Base /\ mk[c].dir = Base
  <2>1. mk[c].target = Base /\ OnTheWay(mk[c].dir, mk[c].target) /\ mk[c].dir \in Path
    BY <1>1, <1>2, PlannerFacts, MkdirFields DEF Targets, TypeInv, MkdirOnTheWay
  <2>2. Len(Base) = 0
    BY DEF Base
  <2>3. mk[c].dir = SubSeq(Base, 1, 0)
    BY <2>1, <2>2 DEF OnTheWay
  <2> QED
    BY <2>1, <2>3 DEF Base
<1>4. /\ MkdirKnows(c)' /\ UNCHANGED conn
      /\ fs' = fs \/ fs' = [fs EXCEPT ![Base] = Dir]
      /\ mk'[c].at = "done" => fs'[Base] = Dir
  BY <1>1, <1>3, PlannerFacts, MkdirGoesOn, BaseIsInside DEF Planner
<1>5. fs'[Base] # Link
  BY <1>4, PlannerFacts, PathAssumption DEF Planner, Dir, Link
<1>6. CASE mk'[c].at = "done"
  <2>1. call'[c] = [call[c] EXCEPT !.phase = "realpath"]
    BY <1>6, PlannerFacts DEF MakeBase, Goto
  <2>2. /\ call'[c].phase = "realpath" /\ call'[c].listing = NothingListed
        /\ call'[c].dry = call[c].dry
    BY <1>1, <2>1, PlannerFacts DEF CallRecord
  <2> QED
    BY <1>1, <1>4, <1>5, <1>6, <2>2 DEF PlanningKnows, Planning, Dir, Absent
<1>7. CASE mk'[c].at = "failed"
  <2>1. call'[c] = [call[c] EXCEPT !.phase = "error"]
    BY <1>7, PlannerFacts DEF MakeBase, Goto
  <2>2. call'[c].phase = "error" /\ call'[c].dry = call[c].dry
    BY <2>1, PlannerFacts DEF CallRecord
  <2> QED
    BY <1>1, <1>4, <1>5, <2>2
<1>8. CASE mk'[c].at \notin {"done", "failed"}
  BY <1>1, <1>4, <1>5, <1>8 DEF MakeBase, PlanningKnows, Planning
<1> QED
  BY <1>6, <1>7, <1>8

LEMMA ResolveBaseKnows ==
  ASSUME NEW c \in Caller, Planner(c), faults' = 0, conn[c], ResolveBase(c)
  PROVE  PlanningKnows(c)' /\ UNCHANGED <<conn, fs>>
         /\ call'[c].phase \in Planning /\ ~call'[c].dry
<1>1. PICK ok \in BOOLEAN :
        /\ Ask(c, ok, TRUE)
        /\ call' = IF ok THEN [call EXCEPT ![c].phase = "list", ![c].todo = {Base}]
                         ELSE [call EXCEPT ![c].phase = "error"]
  BY DEF ResolveBase
<1>2. ok = TRUE /\ UNCHANGED <<conn, fs>>
  BY <1>1, PlannerFacts, SureAsk
<1>3. /\ call[c].phase = "realpath" /\ call[c].listing = NothingListed /\ ~call[c].dry
      /\ fs[Base] # Absent
  BY DEF ResolveBase, Planner, PlanningKnows
<1>4. call'[c] = [call[c] EXCEPT !.phase = "list", !.todo = {Base}]
  BY <1>1, <1>2, PlannerFacts
<1>5. /\ call'[c].phase = "list" /\ call'[c].listing = NothingListed
      /\ call'[c].dry = call[c].dry /\ call'[c].todo = {Base}
  BY <1>3, <1>4, PlannerFacts DEF CallRecord
<1>6. \A p \in Entry : p \in Path /\ Under(p, Base)
  BY PathAssumption DEF Entry, Under, Base
<1>7. ListKnows(c)'
  BY <1>2, <1>5, <1>6 DEF ListKnows, NothingListed
<1> QED
  BY <1>2, <1>3, <1>5, <1>7 DEF PlanningKnows, Planning

\* A directory that is read is one, and what is read is what it holds.
LEMMA ReadsWhatIsThere ==
  ASSUME NEW t \in [Path -> Node], t = fs, WellFormed(t), NEW d \in Path,
         d = Base \/ t[d] = Dir, t[Base] \notin {Absent, Link},
         NEW able \in Readable(d)
  PROVE  /\ able => t[d] = Dir
         /\ \A reply \in ReadDirReplies(d) : reply = [p \in Children(d) |-> t[p]]
<1>1. ~LeadsOut(t, d)
  BY BaseIsInside, BehindALink DEF Dir, Absent
<1>2. t[d] # Link /\ t[d] \in {Dir} \cup FileNode
  BY PathAssumption DEF Node, Dir, Link
<1>3. able => t[d] = Dir
  BY <1>1, <1>2 DEF Readable, FileNode, IsFile
<1> QED
  BY <1>1, <1>2, <1>3 DEF ReadDirReplies

\* Below a directory that is not one of its children lies something that is.
LEMMA ReadsItsBranch ==
  ASSUME NEW p \in Path, NEW d \in Path, Under(p, d), Parent(p) # d
  PROVE  \E q \in Children(d) : Under(p, q)
<1> DEFINE q == SubSeq(p, 1, Len(d) + 1)
<1>1. /\ p \in Seq(STRING) /\ d \in Seq(STRING) /\ Len(p) \in Nat /\ Len(d) \in Nat
      /\ Len(d) < Len(p) /\ \A i \in 1 .. Len(d) : p[i] = d[i]
  BY PathAssumption DEF Under
<1>2. Len(d) + 1 \in 0 .. Len(p)
  BY <1>1
<1>3. q \in Path /\ Len(q) = Len(d) + 1
  BY <1>2, PathPrefix
<1>4. q \in Seq(STRING) /\ \A i \in 1 .. Len(d) + 1 : q[i] = p[i]
  BY <1>1, <1>2
<1>5. q # Base
  BY <1>1, <1>3 DEF Base
<1>6. Parent(q) = d
  <2>1. SubSeq(q, 1, Len(d)) = d
    BY <1>1, <1>3, <1>4
  <2> QED
    BY <1>1, <1>3, <2>1 DEF Parent
<1>7. Len(d) + 1 # Len(p)
  <2>1. CASE Len(d) + 1 = Len(p)
    <3>1. SubSeq(p, 1, Len(p)) = p
      BY <1>1
    <3>2. q = p
      BY <2>1, <3>1
    <3> QED
      BY <1>6, <3>2
  <2> QED
    BY <2>1
<1>8. Under(p, q)
  BY <1>1, <1>3, <1>4, <1>7 DEF Under
<1> QED
  BY <1>3, <1>5, <1>6, <1>8 DEF Children, Entry

LEMMA ListStepKnows ==
  ASSUME NEW c \in Caller, Planner(c), faults' = 0, conn[c], List(c)
  PROVE  /\ call'[c].phase # "error" => PlanningKnows(c)'
         /\ UNCHANGED <<conn, fs>>
         /\ call'[c].phase \in Planning \cup {"error"} /\ ~call'[c].dry
<1> DEFINE k == call[c]
           more(reply) == {p \in DOMAIN reply : reply[p] = Dir}
           left(d, reply) == (k.todo \ {d}) \cup more(reply)
           seen(reply) == [p \in Path |-> IF p \in DOMAIN reply THEN reply[p]
                                                               ELSE k.listing[p]]
           next(d, reply) ==
             [k EXCEPT !.listing = seen(reply), !.todo = left(d, reply),
                       !.phase = IF left(d, reply) = {} THEN "plan" ELSE "list"]
<1>1. /\ k.phase = "list" /\ ~k.dry /\ ListKnows(c) /\ fs[Base] \notin {Absent, Link}
  BY DEF List, Planner, PlanningKnows
<1>2. PICK d \in k.todo :
        \E reply \in ReadDirReplies(d), ok \in BOOLEAN, able \in Readable(d) :
          /\ Ask(c, ok, able)
          /\ call' = [call EXCEPT ![c] = IF ok THEN next(d, reply)
                                         ELSE [k EXCEPT !.phase = "error"]]
  BY DEF List
<1>a. PICK reply \in ReadDirReplies(d), ok \in BOOLEAN, able \in Readable(d) :
          /\ Ask(c, ok, able)
          /\ call'[c] = IF ok THEN next(d, reply) ELSE [k EXCEPT !.phase = "error"]
  BY <1>2, PlannerFacts
<1>3. ok = able /\ UNCHANGED <<conn, fs>>
  BY <1>a, PlannerFacts, SureAsk DEF Readable
<1>4. CASE ~ok
  <2>1. call'[c] = [k EXCEPT !.phase = "error"]
    BY <1>a, <1>4
  <2>2. call'[c].phase = "error" /\ call'[c].dry = k.dry
    BY <2>1, PlannerFacts DEF CallRecord
  <2> QED
    BY <1>1, <1>3, <2>2
<1>5. CASE ok
  <2>1. d \in Path /\ k.todo \subseteq Path /\ k.listing \in [Path -> Node]
    BY PlannerFacts DEF CallRecord
  <2>2. fs[d] = Dir /\ reply = [p \in Children(d) |-> fs[p]]
    BY <1>1, <1>3, <1>5, <2>1, PlannerFacts, ReadsWhatIsThere DEF ListKnows
  <2>3. PICK sn : sn = seen(reply)
    OBVIOUS
  <2>4. PICK lf : lf = left(d, reply)
    OBVIOUS
  <2>5. call'[c] = [k EXCEPT !.listing = sn, !.todo = lf,
                             !.phase = IF lf = {} THEN "plan" ELSE "list"]
    BY <1>a, <1>5, <2>3, <2>4
  <2>6. /\ call'[c].listing = sn /\ call'[c].todo = lf /\ call'[c].dry = k.dry
        /\ call'[c].phase = IF lf = {} THEN "plan" ELSE "list"
    BY <2>5, PlannerFacts DEF CallRecord
  <2>7. \A p \in Entry : sn[p] = IF p \in Children(d) THEN fs[p] ELSE k.listing[p]
    BY <2>2, <2>3 DEF Entry
  <2>8. lf = (k.todo \ {d}) \cup {p \in Children(d) : fs[p] = Dir}
    BY <2>2, <2>4
  <2>9. ASSUME NEW p \in Entry PROVE sn[p] = fs[p] \/ \E e \in lf : Under(p, e)
    <3>1. CASE p \in Children(d) \/ k.listing[p] = fs[p]
      BY <2>7, <3>1
    <3>2. CASE p \notin Children(d) /\ k.listing[p] # fs[p]
      <4>1. PICK e \in k.todo : Under(p, e)
        BY <1>1, <3>2 DEF ListKnows
      <4>2. CASE e # d
        BY <2>8, <4>1, <4>2
      <4>3. CASE e = d
        <5>1. p \in Path /\ Parent(p) # d
          BY <3>2 DEF Children, Entry
        <5>2. PICK q \in Children(d) : Under(p, q)
          BY <2>1, <4>1, <4>3, <5>1, ReadsItsBranch
        <5>3. CASE fs[q] = Dir
          BY <2>8, <5>2, <5>3
        <5>4. CASE fs[q] # Dir
          <6>1. fs[p] = Absent
            BY <5>1, <5>2, <5>4, PlannerFacts, Rooted DEF Children, Entry
          <6> QED
            BY <1>1, <3>2, <6>1 DEF ListKnows
        <5> QED
          BY <5>3, <5>4
      <4> QED
        BY <4>2, <4>3
    <3> QED
      BY <3>1, <3>2
  <2>10. \A p \in Entry : sn[p] \in {Absent, fs[p]}
    BY <1>1, <2>7 DEF ListKnows
  <2>11. \A e \in lf : e = Base \/ fs[e] = Dir
    BY <1>1, <2>8 DEF ListKnows
  <2>12. Base \in lf \/ fs[Base] = Dir
    BY <1>1, <2>2, <2>8 DEF ListKnows
  <2>13. CASE lf = {}
    BY <1>1, <1>3, <2>6, <2>9, <2>12, <2>13 DEF PlanningKnows, Planning
  <2>14. CASE lf # {}
    <3>1. ListKnows(c)'
      BY <1>3, <2>6, <2>9, <2>10, <2>11, <2>12 DEF ListKnows
    <3> QED
      BY <1>1, <1>3, <2>6, <2>14, <3>1 DEF PlanningKnows, Planning
  <2> QED
    BY <2>13, <2>14
<1> QED
  BY <1>4, <1>5

\* The plan is made with the base as it is.
LEMMA PlanTold ==
  ASSUME NEW c \in Caller, Planner(c), Plan(c), call[c].made = {}
  PROVE  /\ \E L : Told(c, L)'
         /\ UNCHANGED <<conn, fs, local>>
         /\ call'[c].phase = "next" /\ ~call'[c].dry
<1> DEFINE k == call[c]
<1>0. PICK L : L = k.listing
  OBVIOUS
<1>1. /\ k.phase = "plan" /\ ~k.dry /\ fs[Base] = Dir /\ \A p \in Entry : L[p] = fs[p]
      /\ UNCHANGED <<local, fs, conn, rules, result>>
  BY <1>0 DEF Plan, session, Planner, PlanningKnows
<1>2. PICK b : b = BuildPlan(local, L, rules)
  OBVIOUS
<1>3. plan'[c] = b /\ call'[c] = Applying(k, b)
  BY <1>0, <1>1, <1>2, PlannerFacts DEF Plan, Planned
<1>4. /\ call'[c].phase = "next" /\ call'[c].dry = k.dry /\ call'[c].made = k.made
      /\ call'[c].uploads = b.ToUpload /\ call'[c].deletes = b.ToDelete
  BY <1>3, PlannerFacts DEF Applying, CallRecord
<1>5. PlannedWith(c, L)'
  <2>1. L \in [Path -> Node] /\ Visible \subseteq Entry
    BY <1>0, PlannerFacts DEF CallRecord, Visible
  <2>2. \A p \in Visible : ~IsTorn(L[p])
    BY <1>1, <2>1, PlannerFacts DEF NoTornFile
  <2> QED
    BY <1>0, <1>1, <1>2, <1>3, <2>1, <2>2 DEF PlannedWith
<1>6. result'[c] = NoResult
  BY <1>1, PlannerFacts
<1>7. \A p \in Entry : Tells(c, L, p)'
  BY <1>1, <1>6 DEF Tells, InPlace, NoResult
<1>8. Explained(result'[c], L)
  BY <1>6 DEF Explained, FailedAs, NoResult
<1>9. Uploading(c)'
  BY <1>4, <1>6 DEF Uploading, NoResult
<1>10. Told(c, L)'
  BY <1>0, <1>1, <1>3, <1>4, <1>5, <1>7, <1>8, <1>9 DEF Told
<1> QED
  BY <1>1, <1>4, <1>10

-----------------------------------------------------------------------------
(***************************************************************************)
(* What every step of a call leaves alone.                                 *)
(***************************************************************************)
LEMMA CalmSteps ==
  ASSUME SessionTypeOK, faults' = 0, NEW c \in Caller, CallStep(c)
  PROVE  faults = 0 /\ UNCHANGED <<conn, local, rules, budget>>
<1> SUFFICES UNCHANGED <<conn, local, rules, budget>>
  BY CallStepCalm
<1>1. /\ \A ok \in BOOLEAN : \A able : Ask(c, ok, able) => UNCHANGED conn
      /\ \A ok \in BOOLEAN : \A able, new : Request(c, ok, able, new) => UNCHANGED conn
      /\ \A ok \in BOOLEAN : \A p, able, new : RequestAt(c, ok, p, able, new) => UNCHANGED conn
  BY CalmAsk, CalmRequest, CalmRequestAt
<1>2. CASE StatBase(c) \/ ResolveBase(c) \/ List(c) \/ CheckDelete(c)
  BY <1>1, <1>2 DEF StatBase, ResolveBase, List, CheckDelete, env
<1>3. CASE Plan(c) \/ PlanFails(c) \/ NextEntry(c)
  BY <1>3 DEF Plan, PlanFails, NextEntry, session, env
<1>4. CASE MakeBase(c) \/ MakeParents(c)
  <2>1. MkdirStep(c) /\ UNCHANGED <<rules, budget>>
    BY <1>4 DEF MakeBase, MakeParents
  <2> QED
    BY <1>1, <2>1 DEF MkdirStep, MkdirStat, MkdirMake, MkdirChmod, MkdirRecheck
<1>5. CASE UploadEntry(c)
  <2>1. UNCHANGED <<rules, budget>> /\ (UploadStep(c) \/ \E p : UploadStart(c, p, p))
    BY <1>5 DEF UploadEntry
  <2>2. CASE UploadStep(c)
    BY <1>1, <2>1, <2>2 DEF UploadStep, WriteTemp, PosixRename, PlainRename,
       ClearDestination, RenameAgain, RenameBy, Cleanup
  <2>3. CASE \E p : UploadStart(c, p, p)
    BY <1>1, <2>1, <2>3 DEF UploadStart
  <2> QED
    BY <2>1, <2>2, <2>3
<1>6. CASE RemoveEntry(c)
  BY <1>1, <1>6 DEF RemoveEntry, env
<1> QED
  BY <1>2, <1>3, <1>4, <1>5, <1>6 DEF CallStep

\* A delete goes ahead only where there is no link.
LEMMA RemovesNoLink ==
  ASSUME call \in [Caller -> CallRecord], NEW c \in Caller, CallStep(c),
         call'[c].phase = "remove", call[c].phase \in Applies
  PROVE  fs'[call'[c].cur] # Link
<1> DEFINE k == call[c]
<1>1. ASSUME NEW next, next # "remove", Goto(c, next) PROVE FALSE
  BY <1>1 DEF Goto, CallRecord
<1>2. ASSUME NEW action, Fail(c, action) PROVE FALSE
  BY <1>1, <1>2 DEF Fail
<1>3. ~NextEntry(c)
  <2>1. ASSUME k.phase # "remove", call'[c] = [k EXCEPT !.phase = "done"] PROVE FALSE
    BY <2>1 DEF CallRecord
  <2> QED
    BY <2>1, NextEntryGoesOn DEF NextEntry
<1>4. ~MakeParents(c)
  <2>1. call' # [call EXCEPT ![c].phase = "upload", ![c].made = @ \cup {Parent(call[c].cur)}]
    BY DEF CallRecord
  <2> QED
    BY <1>2, <2>1 DEF MakeParents
<1>5. ~UploadEntry(c)
  BY <1>1, <1>2 DEF UploadEntry
<1>6. ~RemoveEntry(c)
  BY <1>1, <1>2 DEF RemoveEntry
<1>7. CheckDelete(c)
  BY <1>3, <1>4, <1>5, <1>6
  DEF CallStep, Applies, StatBase, MakeBase, ResolveBase, List, Plan, PlanFails
<1>8. ResolvesInside(k.cur) /\ Goto(c, "remove") /\ fs' = fs
  BY <1>2, <1>7 DEF CheckDelete, Ask, Request
<1>9. call'[c].cur = k.cur
  BY <1>8 DEF Goto, CallRecord
<1> QED
  BY <1>8, <1>9 DEF ResolvesInside

LEMMA PlanningEnds ==
  ASSUME TypeInv, NEW c \in Caller, CallStep(c), call[c].phase \in Planning
  PROVE  call'[c].phase \in Planning \cup {"next", "done", "error"}
<1>1. call \in [Caller -> CallRecord] /\ call[c] \in CallRecord
  BY DEF TypeInv, TypeOK
<1>2. ASSUME NEW n, Goto(c, n) PROVE call'[c].phase = n
  BY <1>1, <1>2 DEF Goto, CallRecord
<1>3. CASE StatBase(c) \/ MakeBase(c) \/ PlanFails(c)
  <2>1. UNCHANGED call \/ \E n \in {"error", "realpath", "plan", "mkbase"} : Goto(c, n)
    BY <1>3 DEF StatBase, MakeBase, PlanFails
  <2> QED
    BY <1>2, <2>1 DEF Planning
<1>4. CASE ResolveBase(c)
  BY <1>1, <1>4 DEF ResolveBase, CallRecord, Planning
<1>5. CASE List(c)
  BY <1>5, ListGoesOn DEF Planning
<1>6. CASE Plan(c)
  BY <1>1, <1>6 DEF Plan, Planned, Applying, CallRecord
<1> QED
  BY <1>3, <1>4, <1>5, <1>6
  DEF CallStep, Planning, NextEntry, MakeParents, UploadEntry, CheckDelete, RemoveEntry

\* A call is a dry run or not from its beginning, and makes no parents before
\* it has a plan.
LEMMA SameJob ==
  ASSUME call \in [Caller -> CallRecord], NEW c \in Caller, CallStep(c)
  PROVE  /\ call'[c].dry = call[c].dry
         /\ call'[c].phase \in Planning => /\ call[c].phase \in Planning
                                           /\ call'[c].made = call[c].made
<1> DEFINE k == call[c]
<1>1. ASSUME NEW n, Goto(c, n)
      PROVE  call'[c].dry = k.dry /\ call'[c].made = k.made /\ call'[c].phase = n
  BY <1>1 DEF Goto, CallRecord
<1>2. CASE StatBase(c) \/ MakeBase(c) \/ PlanFails(c)
  <2>1. k.phase \in Planning
    BY <1>2 DEF StatBase, MakeBase, PlanFails, Planning
  <2>2. UNCHANGED call \/ \E n : Goto(c, n)
    BY <1>2 DEF StatBase, MakeBase, PlanFails
  <2> QED
    BY <1>1, <2>1, <2>2
<1>3. CASE ResolveBase(c)
  BY <1>3 DEF ResolveBase, Planning, CallRecord
<1>4. CASE List(c)
  <2>1. k.phase \in Planning
    BY <1>4 DEF List, Planning
  <2> DEFINE left(d, reply) == (k.todo \ {d}) \cup {p \in DOMAIN reply : reply[p] = Dir}
             seen(reply) == [p \in Path |-> IF p \in DOMAIN reply THEN reply[p]
                                                                 ELSE k.listing[p]]
             next(d, reply) ==
               [k EXCEPT !.listing = seen(reply), !.todo = left(d, reply),
                         !.phase = IF left(d, reply) = {} THEN "plan" ELSE "list"]
  <2>2. PICK d \in k.todo : \E reply \in ReadDirReplies(d), ok \in BOOLEAN :
          call' = [call EXCEPT ![c] = IF ok THEN next(d, reply)
                                      ELSE [k EXCEPT !.phase = "error"]]
    BY <1>4 DEF List
  <2>3. PICK reply \in ReadDirReplies(d), ok \in BOOLEAN :
          call'[c] = IF ok THEN next(d, reply) ELSE [k EXCEPT !.phase = "error"]
    BY <2>2
  <2>4. next(d, reply).dry = k.dry /\ next(d, reply).made = k.made
    <3> DEFINE sn == seen(reply)
               lf == left(d, reply)
               n == [k EXCEPT !.listing = sn, !.todo = lf,
                              !.phase = IF lf = {} THEN "plan" ELSE "list"]
    <3> HIDE DEF sn, lf
    <3>1. n.dry = k.dry /\ n.made = k.made
      BY DEF CallRecord
    <3> QED
      BY <3>1 DEF sn, lf
  <2> QED
    BY <2>1, <2>3, <2>4 DEF CallRecord
<1>5. CASE Plan(c)
  <2>1. PICK b : call'[c] = Planned(k, b)
    BY <1>5 DEF Plan
  <2>2. call'[c].dry = k.dry /\ call'[c].phase \notin Planning
    BY <2>1 DEF Planned, Applying, CallRecord, Planning
  <2> QED
    BY <2>2
<1>6. CASE NextEntry(c)
  <2>1. ASSUME NEW p, NEW n,
               call'[c] = [k EXCEPT !.uploads = @ \ {p}, !.cur = p, !.phase = n]
        PROVE  call'[c].dry = k.dry
    BY <2>1 DEF CallRecord
  <2>2. ASSUME NEW d, call'[c] = [k EXCEPT !.deletes = @ \ {d}, !.cur = d.path,
                                           !.isDir = d.isDir, !.phase = "check"]
        PROVE  call'[c].dry = k.dry
    BY <2>2 DEF CallRecord
  <2> DEFINE ph(p) == IF Parent(p) \in k.made THEN "upload" ELSE "mkdir"
  <2>3. \/ \E p : call'[c] = [k EXCEPT !.uploads = @ \ {p}, !.cur = p, !.phase = ph(p)]
        \/ \E d : call'[c] = [k EXCEPT !.deletes = @ \ {d}, !.cur = d.path,
                                       !.isDir = d.isDir, !.phase = "check"]
        \/ Goto(c, "done")
    BY <1>6 DEF NextEntry
  <2> HIDE DEF ph
  <2>4. call'[c].dry = k.dry
    BY <1>1, <2>1, <2>2, <2>3
  <2>5. call'[c].phase \notin Planning
    BY <1>6, NextEntryGoesOn DEF Planning
  <2> QED
    BY <2>4, <2>5
<1>7. CASE MakeParents(c) \/ UploadEntry(c) \/ CheckDelete(c) \/ RemoveEntry(c)
  <2>1. ASSUME NEW x, call'[c] = [k EXCEPT !.phase = "upload", !.made = @ \cup {x}]
        PROVE  call'[c].dry = k.dry
    BY <2>1 DEF CallRecord
  <2>2. \/ \E x : call'[c] = [k EXCEPT !.phase = "upload", !.made = @ \cup {x}]
        \/ UNCHANGED call \/ \E n : Goto(c, n)
    BY <1>7 DEF MakeParents, UploadEntry, CheckDelete, RemoveEntry, Fail
  <2>3. call'[c].dry = k.dry
    BY <1>1, <2>1, <2>2
  <2>4. call'[c].phase \notin Planning
    BY <1>7, BodyGoesOn DEF Planning
  <2> QED
    BY <2>3, <2>4
<1> QED
  BY <1>2, <1>3, <1>4, <1>5, <1>6, <1>7 DEF CallStep

-----------------------------------------------------------------------------
(***************************************************************************)
(* The invariant: what the call knows in every phase.                      *)
(***************************************************************************)
Knows(c) ==
  LET k == call[c]
  IN  /\ k.phase \in Planning => PlanningKnows(c)
      /\ k.phase \in Applies => Escapes(c) \/ \E L : Told(c, L)
      /\ k.phase = "done" => Escapes(c) \/ \E L : Settled(c, L)

AtPeace(c) ==
  LET k == call[c]
  IN  /\ WellFormed(local) /\ fs[Base] # Link
      /\ k.phase \in Active => conn[c]
      /\ k.phase \in Planning => k.made = {}
      /\ k.phase = "remove" => fs[k.cur] # Link
      /\ ~k.dry => Knows(c)

LEMMA NoNewLinks ==
  ASSUME TransferInv, NEW c \in Caller, CallStep(c), fs[Base] # Link
  PROVE  fs'[Base] # Link
<1>1. Writes(c) /\ TypeInv /\ PlainTemps /\ OffTemps(c)
  BY CallStepWrites DEF TransferInv, TreesInv, PathsInv, MkdirOffTemps
<1> QED
  BY <1>1, WritesPlainly, PathAssumption DEF MakesNoLink

\* A dry run, and a call that is listing the base.
LEMMA PlanningStep ==
  ASSUME TransferInv, TransferInv', NEW c \in Caller, AtPeace(c), CallStep(c),
         faults' = 0, call[c].phase \in Planning, ~call[c].dry
  PROVE  Knows(c)'
<1>1. Planner(c) /\ conn[c] /\ call[c].made = {}
  BY DEF AtPeace, Knows, Planner, Active
<1>2. ~PlanFails(c)
  BY <1>1, PlannerFacts, CalmSteps DEF PlanFails
<1>3. CASE Plan(c)
  BY <1>1, <1>3, PlanTold DEF Knows, Planning, Applies
<1>4. CASE StatBase(c) \/ MakeBase(c) \/ ResolveBase(c) \/ List(c)
  <2>1. /\ call'[c].phase \in Planning \cup {"error"}
        /\ call'[c].phase # "error" => PlanningKnows(c)'
    BY <1>1, <1>4, StatBaseKnows, MakeBaseKnows, ResolveBaseKnows, ListStepKnows
  <2> QED
    BY <2>1 DEF Knows, Planning, Applies
<1> QED
  BY <1>2, <1>3, <1>4
  DEF CallStep, Planning, NextEntry, MakeParents, UploadEntry, CheckDelete, RemoveEntry

LEMMA ApplyingStep ==
  ASSUME TransferInv, TransferInv', NEW c \in Caller, AtPeace(c), CallStep(c),
         faults' = 0, call[c].phase \in Applies, ~call[c].dry
  PROVE  Knows(c)'
<1>1. Watched(c) /\ conn[c] /\ (call[c].phase = "remove" => fs[call[c].cur] # Link)
      /\ (Escapes(c) \/ \E L : Told(c, L)) /\ call \in [Caller -> CallRecord]
  BY DEF AtPeace, Knows, Watched, Active, Applies, TransferInv, TreesInv, PathsInv,
     TypeInv, TypeOK
<1>2. Escapes(c)' \/ \E L : Told(c, L)'
  BY <1>1, ApplyTold
<1>3. call'[c].phase \notin Planning /\ ~call'[c].dry
  BY <1>1, SameJob DEF Planning, Applies
<1>4. ASSUME call'[c].phase = "done", NEW L, Told(c, L)' PROVE Settled(c, L)'
  <2>1. Book(call[c], plan[c], result[c])'
    BY DEF TransferInv, AllReady, Ready, MyBook
  <2>2. (Balanced(call[c], plan[c], result[c]) /\ call[c].uploads = {} /\ call[c].deletes = {})'
    BY <1>3, <1>4, <2>1 DEF Book
  <2> QED
    BY <1>4, <2>2 DEF Told, Settled
<1> QED
  BY <1>2, <1>3, <1>4 DEF Knows

LEMMA CallStepUndisturbed ==
  ASSUME TransferInv, TransferInv', NEW c \in Caller, AtPeace(c), CallStep(c), faults' = 0
  PROVE  AtPeace(c)'
<1>1. /\ TypeInv /\ SessionTypeOK /\ call \in [Caller -> CallRecord] /\ Stops(call[c])
      /\ Stops(call'[c])
  BY DEF TransferInv, TreesInv, PathsInv, TypeInv, TypeOK, UploadTypeOK, AllReady, Ready
<1>2. UNCHANGED <<conn, local>> /\ faults = 0
  BY <1>1, CalmSteps
<1>3. call[c].phase \in Active
  BY DEF CallStep, StatBase, MakeBase, ResolveBase, List, Plan, PlanFails, NextEntry,
     MakeParents, UploadEntry, CheckDelete, RemoveEntry, Active, Planning
<1>4. call[c].phase \in Planning \/ call[c].phase \in Applies
  BY <1>3 DEF Active, Applies
<1>5. fs'[Base] # Link /\ WellFormed(local')
  BY <1>2, NoNewLinks DEF AtPeace
<1>6. call'[c].phase \in Planning => call'[c].made = {}
  BY <1>1, SameJob DEF AtPeace
<1>7. call'[c].dry = call[c].dry
  BY <1>1, SameJob
<1>8. call'[c].phase = "remove" => fs'[call'[c].cur] # Link
  <2>1. CASE call[c].phase \in Applies
    BY <1>1, <2>1, RemovesNoLink
  <2>2. CASE call[c].phase \in Planning
    <3>1. call'[c].phase \in Planning \cup {"next", "done", "error"}
      BY <1>1, <2>2, PlanningEnds
    <3> QED
      BY <3>1 DEF Planning
  <2> QED
    BY <1>4, <2>1, <2>2
<1>9. ~call'[c].dry => Knows(c)'
  BY <1>4, <1>7, PlanningStep, ApplyingStep
<1> QED
  BY <1>2, <1>3, <1>5, <1>6, <1>8, <1>9 DEF AtPeace

LEMMA StartUndisturbed ==
  ASSUME TypeInv, NEW c \in Caller, AtPeace(c), Crash(c) \/ \E dry \in DryRuns : Begin(c, dry)
  PROVE  AtPeace(c)'
<1>1. call \in [Caller -> CallRecord] /\ conn \in [Caller -> BOOLEAN]
  BY DEF TypeInv, TypeOK, UploadTypeOK, SessionTypeOK
<1>2. UNCHANGED <<local, fs>>
  BY DEF Crash, Begin, session, env
<1>3. CASE Crash(c)
  <2>1. call'[c] = [Idle EXCEPT !.phase = "crashed"]
    BY <1>1, <1>3 DEF Crash
  <2>2. call'[c].phase = "crashed"
    BY <2>1 DEF Idle
  <2> QED
    BY <1>2, <2>2 DEF AtPeace, Knows, Active, Planning, Applies
<1>4. ASSUME NEW dry \in DryRuns, Begin(c, dry) PROVE AtPeace(c)'
  <2>1. call'[c] = [Idle EXCEPT !.phase = "stat", !.dry = dry] /\ conn'[c] = TRUE
    BY <1>1, <1>4 DEF Begin
  <2>2. call'[c].phase = "stat" /\ call'[c].made = {} /\ call'[c].listing = NothingListed
    BY <2>1 DEF Idle
  <2> QED
    BY <1>2, <2>1, <2>2 DEF AtPeace, Knows, PlanningKnows, Active, Planning, Applies
<1> QED
  BY <1>3, <1>4

\* The clock alone changes nothing a call knows.
LEMMA StillUndisturbed ==
  ASSUME NEW c \in Caller, AtPeace(c), UNCHANGED <<session, rules, own>>
  PROVE  AtPeace(c)'
<1>1. UNCHANGED <<local, fs, conn, faults, rules, mk, up, call, plan, result>>
  BY DEF session, own
<1>2. Escapes(c)' = Escapes(c) /\ PlanningKnows(c)' = PlanningKnows(c)
  BY <1>1 DEF Escapes, PlanningKnows, MkdirKnows, ListKnows
<1>3. ASSUME NEW L PROVE Told(c, L)' = Told(c, L) /\ Settled(c, L)' = Settled(c, L)
  BY <1>1 DEF Told, Settled, PlannedWith, Tells, InPlace, MadeFor, InHand, Uploading, Deleting,
     UploadKnows, MkdirKnows, Busy
<1> QED
  BY <1>1, <1>2, <1>3 DEF AtPeace, Knows

LEMMA NextUndisturbed ==
  ASSUME NEW c, Alone(c)
  PROVE  TransferInv /\ TransferInv' /\ AtPeace(c) /\ [Next]_vars => AtPeace(c)'
<1> SUFFICES ASSUME TransferInv, TransferInv', AtPeace(c), [Next]_vars PROVE AtPeace(c)'
  OBVIOUS
<1>1. TypeInv /\ TypeInv'
  BY DEF TransferInv, TreesInv, PathsInv
<1>2. /\ c \in Caller /\ Caller = {c} /\ faults' = 0 /\ faults = 0
      /\ budget.edits = 0 /\ budget.intrusions = 0
  BY <1>1, MaxFaultsAssumption
  DEF Alone, TypeInv, TypeOK, UploadTypeOK, SessionTypeOK, Budget
<1>3. ~EditLocal /\ ~ChangeRemote
  BY <1>2 DEF EditLocal, ChangeRemote
<1>4. CASE CallStep(c)
  BY <1>2, <1>4, CallStepUndisturbed
<1>5. CASE Crash(c) \/ \E dry \in DryRuns : Begin(c, dry)
  BY <1>1, <1>2, <1>5, StartUndisturbed
<1>6. CASE UNCHANGED <<session, rules, own>>
  BY <1>2, <1>6, StillUndisturbed
<1> QED
  BY <1>2, <1>3, <1>4, <1>5, <1>6 DEF Next, Environment, Tick, vars

LEMMA InitUndisturbed ==
  ASSUME NEW c, Alone(c), \A t \in InitRemote : t[Base] # Link, Init
  PROVE  AtPeace(c)
<1>1. c \in Caller /\ call[c] = Idle
  BY DEF Alone, Init
<1>2. call[c].phase = "idle"
  BY <1>1 DEF Idle
<1>3. WellFormed(local) /\ fs[Base] # Link
  BY InitAssumption DEF Init
<1> QED
  BY <1>2, <1>3 DEF AtPeace, Knows, Active, Planning, Applies

LEMMA UndisturbedSettles ==
  ASSUME NEW c, Alone(c), OneCopyPerSize, TransferInv, AtPeace(c)
  PROVE  CleanMeansMirrored
<1> SUFFICES ASSUME call[c].phase = "done", ~call[c].dry, \A p \in Entry : fs[p] # Link
             PROVE  result[c].failed = {} <=> Mirrored
  BY DEF CleanMeansMirrored, Alone
<1>1. c \in Caller /\ TypeInv /\ WellFormed(fs) /\ WellFormed(local)
  BY DEF Alone, TransferInv, TreesInv, PathsInv, AtPeace
<1>2. ~Escapes(c)
  BY DEF Escapes
<1>3. PICK L : Settled(c, L)
  BY <1>2 DEF AtPeace, Knows
<1> QED
  BY <1>1, <1>3, CleanIsMirrored, MirroredIsClean

\* A sync of a single caller whose requests all get through, with nobody else at
\* work on either tree, reports no failure exactly when the base is a mirror of
\* the project (CleanMeansMirrored): for every pair of trees and every rules, and
\* also after calls that crashed, whatever they left behind.  As BuildPlan does
\* not hash, no two contents of the same size may be about.
THEOREM CleanIsMirroredAlone ==
  ASSUME NEW c, Alone(c), OneCopyPerSize, \A t \in InitRemote : t[Base] # Link
  PROVE  Spec => []CleanMeansMirrored
<1>1. Init => AtPeace(c)
  BY InitUndisturbed
<1>2. TransferInv /\ TransferInv' /\ AtPeace(c) /\ [Next]_vars => AtPeace(c)'
  BY NextUndisturbed
<1>3. TransferInv /\ AtPeace(c) => CleanMeansMirrored
  BY UndisturbedSettles
<1> QED
  BY <1>1, <1>2, <1>3, TransferInvariant, PTL DEF Spec

-----------------------------------------------------------------------------
(***************************************************************************)
(* Overwriting.  On a server with posix-rename, the later ways to rename   *)
(* only see what posix-rename cannot replace.                              *)
(***************************************************************************)
Overwrites(c) ==
  Busy(c) => /\ IsFile(fs[up[c].tmp]) \/ LeadsOut(fs, up[c].dst)
             /\ HasPosixRename /\ up[c].at \in {"plain", "clear", "again"}
                  => ~IsFile(fs[up[c].dst])

Lasts(p) == HasPosixRename /\ IsFile(fs[p]) => IsFile(fs'[p])

\* The two names of an upload: no link is above one and not the other.
LEMMA NamesOfUpload ==
  ASSUME TreesInv, NEW c \in Caller, Busy(c)
  PROVE  LET x == up[c].tmp
             p == up[c].dst
         IN  /\ x \in Temps /\ x \in Path /\ p \in Visible /\ p \in Path /\ x # p
             /\ fs[x] \notin {Dir, Link}
             /\ LeadsOut(fs, p) => fs[p] = Absent
<1>1. UploadTypeOK /\ PlainTemps /\ fs \in [Path -> Node] /\ WellFormed(fs)
  BY DEF TreesInv, PathsInv, TypeInv, TypeOK, UploadTypeOK, SessionTypeOK
<1>2. up[c].tmp \in Temps /\ up[c].dst \in Visible
  BY <1>1, BusyRecord
<1> QED
  BY <1>1, <1>2, TempsAreEntries, BehindALink DEF PlainTemps

\* A rename of an upload whose connection is up.
LEMMA RenameOverwrites ==
  ASSUME TreesInv, faults' = 0, NEW c \in Caller, conn[c], Overwrites(c), Busy(c),
         NEW able \in BOOLEAN, NEW next \in Stages, RenameBy(c, able, next),
         able => fs[up[c].tmp] # Absent,
         HasPosixRename /\ next \in {"plain", "clear", "again"}
           /\ ~LeadsOut(fs, up[c].dst) /\ ~able => ~IsFile(fs[up[c].dst])
  PROVE  Overwrites(c)' /\ \A p \in Visible : Lasts(p)
<1> DEFINE x == up[c].tmp
           d == up[c].dst
<1>1. /\ SessionTypeOK /\ UploadTypeOK /\ fs \in [Path -> Node] /\ up \in [Caller -> UploadRecord]
  BY DEF TreesInv, PathsInv, TypeInv, TypeOK, UploadTypeOK, SessionTypeOK
<1>2. /\ x \in Path /\ d \in Path /\ x # d /\ x \in Temps /\ fs[x] \notin {Dir, Link}
      /\ LeadsOut(fs, d) => fs[d] = Absent
  BY NamesOfUpload
<1>3. PICK ok \in BOOLEAN :
        /\ RequestAt(c, ok, d, able, Moved(fs, x, d))
        /\ IF ok THEN up' = [up EXCEPT ![c] = Succeeded] ELSE MoveOn(c, next)
  BY DEF RenameBy
<1>4. ok => ~Busy(c)'
  BY <1>1, <1>3 DEF Busy, Succeeded, Stages
<1>5. ~ok => StaysAt(c, next)
  BY <1>1, <1>3, MovedOn
<1>6. CASE LeadsOut(fs, d)
  <2>1. fs' = fs
    BY <1>1, <1>3, <1>6, CalmRequestAt
  <2>2. Overwrites(c)'
    BY <1>2, <1>4, <1>5, <1>6, <2>1 DEF Overwrites, StaysAt, IsFile, Absent
  <2> QED
    BY <2>1, <2>2 DEF Lasts
<1>7. CASE ~LeadsOut(fs, d)
  <2>1. ok = able /\ fs' = IF able THEN Moved(fs, x, d) ELSE fs
    BY <1>1, <1>3, <1>7, SureRequestAt
  <2>2. CASE able
    <3>1. IsFile(fs[x])
      BY <1>1, <1>2, <2>2 DEF Node, FileNode, IsFile
    <3>2. \A p \in Visible : Lasts(p)
      BY <1>1, <1>2, <2>1, <2>2, <3>1, TempsAreEntries DEF Moved, Lasts
    <3>3. Overwrites(c)'
      BY <1>4, <2>1, <2>2 DEF Overwrites
    <3> QED
      BY <3>2, <3>3
  <2>3. CASE ~able
    <3>1. Overwrites(c)'
      BY <1>5, <1>7, <2>1, <2>3 DEF Overwrites, StaysAt
    <3> QED
      BY <2>1, <2>3, <3>1 DEF Lasts
  <2> QED
    BY <2>2, <2>3
<1> QED
  BY <1>6, <1>7

LEMMA UploadStepOverwrites ==
  ASSUME TreesInv, faults' = 0, NEW c \in Caller, conn[c], Overwrites(c), UploadStep(c)
  PROVE  Overwrites(c)' /\ \A p \in Visible : Lasts(p)
<1> DEFINE x == up[c].tmp
           d == up[c].dst
<1>1. /\ SessionTypeOK /\ UploadTypeOK /\ fs \in [Path -> Node] /\ up \in [Caller -> UploadRecord]
      /\ Busy(c) /\ Visible \subseteq Path
  BY UploadDoes, TempsAreEntries
  DEF TreesInv, PathsInv, TypeInv, TypeOK, UploadTypeOK, SessionTypeOK
<1>2. /\ x \in Path /\ d \in Path /\ x # d /\ x \in Temps /\ x \notin Visible /\ d \in Visible
      /\ fs[x] \notin {Dir, Link}
      /\ LeadsOut(fs, d) => fs[d] = Absent
      /\ IsFile(fs[x]) \/ LeadsOut(fs, d)
  BY <1>1, NamesOfUpload, TempsAreEntries DEF Overwrites
<1>3. CASE WriteTemp(c)
  <2>a. PICK able \in BOOLEAN : able = (up[c].data # Torn)
    OBVIOUS
  <2>1. PICK e \in {up[c].data} \cup (IF IsFile(local[up[c].src])
                                     THEN {local[up[c].src].data} ELSE {}), ok \in BOOLEAN :
          /\ Request(c, ok, up[c].data # Torn,
                     IF fs[x] = Absent THEN fs ELSE [fs EXCEPT ![x] = File(e, Stamp)])
          /\ MoveOn(c, AfterWrite(ok))
    BY <1>3 DEF WriteTemp
  <2>2. fs' = fs \/ (IsFile(fs[x]) /\ fs' = [fs EXCEPT ![x] = File(e, Stamp)])
    BY <1>1, <1>2, <2>a, <2>1, CalmRequest DEF Node, FileNode, IsFile
  <2>3. StaysAt(c, AfterWrite(ok)) /\ AfterWrite(ok) \in {"posix", "cleanup"}
    BY <1>1, <2>1, MovedOn DEF AfterWrite, Stages
  <2>4. IsFile(fs'[x]) \/ LeadsOut(fs', d)
    BY <1>1, <1>2, <2>2 DEF IsFile, File
  <2>5. Overwrites(c)'
    BY <2>3, <2>4 DEF Overwrites, StaysAt
  <2> QED
    BY <1>1, <1>2, <2>2, <2>5 DEF Lasts
<1>4. CASE PosixRename(c)
  <2>1. PICK able \in BOOLEAN : able = (HasPosixRename /\ CanReplace(fs, x, d))
    BY ServerAssumption DEF CanReplace
  <2>2. RenameBy(c, able, "plain")
    BY <1>4, <2>1 DEF PosixRename
  <2>3. HasPosixRename /\ ~LeadsOut(fs, d) /\ ~able => ~IsFile(fs[d])
    <3>1. ASSUME HasPosixRename, ~LeadsOut(fs, d), ~able PROVE ~IsFile(fs[d])
      <4>1. fs[x] # Absent
        BY <1>2, <3>1 DEF IsFile, Absent
      <4>2. ~CanReplace(fs, x, d)
        BY <2>1, <3>1, Zenon
      <4>3. fs[d] = Dir
        BY <4>1, <4>2 DEF CanReplace
      <4> QED
        BY <4>3 DEF IsFile, Dir
    <3> QED
      BY <3>1
  <2> QED
    BY <1>1, <2>1, <2>2, <2>3, RenameOverwrites DEF CanReplace, Stages
<1>5. CASE PlainRename(c) \/ RenameAgain(c)
  <2>1. PICK able \in BOOLEAN : able = CanRename(fs, x, d)
    BY DEF CanRename
  <2>2. PICK next \in {"clear", "cleanup"} : RenameBy(c, able, next)
    BY <1>5, <2>1 DEF PlainRename, RenameAgain
  <2>3. HasPosixRename => ~IsFile(fs[d])
    BY <1>1, <1>5 DEF Overwrites, PlainRename, RenameAgain
  <2> QED
    BY <1>1, <2>1, <2>2, <2>3, RenameOverwrites DEF CanRename, Stages
<1>6. CASE ClearDestination(c)
  <2>1. /\ \E ok \in BOOLEAN : RequestAt(c, ok, d, CanRemove(fs, d), Without(fs, d))
        /\ MoveOn(c, "again")
    BY <1>6 DEF ClearDestination
  <2>2. /\ fs' = fs \/ fs' = Without(fs, d)
        /\ LeadsOut(fs, d) => fs' = fs
    BY <1>1, <2>1, CalmRequestAt
  <2>3. StaysAt(c, "again")
    BY <1>1, <2>1, MovedOn DEF Stages
  <2>4. HasPosixRename => ~IsFile(fs[d])
    BY <1>1, <1>6 DEF Overwrites, ClearDestination
  <2>5. /\ IsFile(fs'[x]) \/ LeadsOut(fs', d)
        /\ HasPosixRename => ~IsFile(fs'[d])
    BY <1>1, <1>2, <2>2, <2>4 DEF Without, IsFile, Absent
  <2>6. Overwrites(c)'
    BY <2>3, <2>5 DEF Overwrites, StaysAt
  <2> QED
    BY <1>1, <1>2, <2>2, <2>4, <2>6 DEF Lasts, Without
<1>7. CASE Cleanup(c)
  <2>1. fs' = fs \/ fs' = Without(fs, x)
    BY <1>1, <1>7, CalmRequestAt DEF Cleanup
  <2>2. ~Busy(c)'
    BY <1>1, <1>7 DEF Cleanup, Busy, GaveUp, Stages
  <2> QED
    BY <1>1, <1>2, <2>1, <2>2 DEF Overwrites, Lasts, Without
<1> QED
  BY <1>3, <1>4, <1>5, <1>6, <1>7 DEF UploadStep

LEMMA UploadStartOverwrites ==
  ASSUME TreesInv, faults' = 0, NEW c \in Caller, conn[c],
         NEW src, NEW p \in Visible, UploadStart(c, src, p)
  PROVE  Overwrites(c)' /\ \A q \in Visible : Lasts(q)
<1>1. /\ SessionTypeOK /\ fs \in [Path -> Node] /\ up \in [Caller -> UploadRecord]
      /\ Visible \subseteq Path
  BY TempsAreEntries DEF TreesInv, PathsInv, TypeInv, TypeOK, UploadTypeOK, SessionTypeOK
<1>2. CASE up' = [up EXCEPT ![c] = GaveUp] /\ fs' = fs
  <2>1. ~Busy(c)'
    BY <1>1, <1>2 DEF Busy, GaveUp, Stages
  <2> QED
    BY <1>2, <2>1 DEF Overwrites, Lasts
<1>3. CASE \E e \in Sources(src), t \in FreshTemps(p), ok \in BOOLEAN :
             /\ RequestAt(c, ok, t, CanCreate(fs, t), [fs EXCEPT ![t] = File(Torn, Stamp)])
             /\ up' = [up EXCEPT ![c] =
                         IF ok THEN [at |-> "write", src |-> src, dst |-> p, tmp |-> t,
                                     data |-> e]
                               ELSE GaveUp]
  <2>1. PICK e \in Sources(src), t \in FreshTemps(p), ok \in BOOLEAN :
          /\ RequestAt(c, ok, t, CanCreate(fs, t), [fs EXCEPT ![t] = File(Torn, Stamp)])
          /\ up'[c] = IF ok THEN [at |-> "write", src |-> src, dst |-> p, tmp |-> t, data |-> e]
                            ELSE GaveUp
    BY <1>1, <1>3
  <2>2. /\ t \in Temps /\ t \in Entry /\ t \in Path /\ p \in Entry /\ t \notin Visible
        /\ Parent(t) = Parent(p)
    BY TempsAreEntries, TempAssumption DEF FreshTemps
  <2>3. /\ fs' = fs \/ fs' = [fs EXCEPT ![t] = File(Torn, Stamp)]
        /\ ok => \/ LeadsOut(fs, t) /\ fs' = fs
                 \/ fs' = [fs EXCEPT ![t] = File(Torn, Stamp)]
    <3>1. CanCreate(fs, t) \in BOOLEAN
      BY DEF CanCreate
    <3>2. CASE LeadsOut(fs, t)
      BY <1>1, <2>1, <3>2, CalmRequestAt
    <3>3. CASE ~LeadsOut(fs, t)
      BY <1>1, <2>1, <3>1, <3>3, SureRequestAt
    <3> QED
      BY <3>2, <3>3
  <2>4. \A q \in Visible : Lasts(q)
    BY <1>1, <2>2, <2>3 DEF Lasts
  <2>5. CASE ok
    <3>1. up'[c].at = "write" /\ up'[c].dst = p /\ up'[c].tmp = t
      BY <2>1, <2>5
    <3>2. IsFile(fs'[t]) \/ LeadsOut(fs', p)
      BY <1>1, <2>2, <2>3, <2>5, LinksOfSiblings DEF IsFile, File
    <3> QED
      BY <2>4, <3>1, <3>2 DEF Overwrites
  <2>6. CASE ~ok
    BY <2>1, <2>4, <2>6 DEF Overwrites, Busy, GaveUp, Stages
  <2> QED
    BY <2>5, <2>6
<1> QED
  BY <1>2, <1>3 DEF UploadStart

\* No delete of its plan is of a file the project has.
Spared(c) == \A e \in plan[c].ToDelete : e.path \notin LocalFiles(local, rules)

Replacing(c) ==
  /\ call[c].phase \in Active => conn[c]
  /\ Spared(c) /\ Overwrites(c)

LEMMA LocalFilesAreVisible ==
  ASSUME TypeInv
  PROVE  LocalFiles(local, rules) \subseteq Visible
<1>1. local \in [Path -> Node] /\ Clean(local)
  BY DEF TypeInv, TypeOK, UploadTypeOK, SessionTypeOK
<1> QED
  BY <1>1 DEF Clean, LocalFiles, LocalAll, Entry

LEMMA PlanSpares ==
  ASSUME NEW L
  PROVE  \A e \in BuildPlan(local, L, rules).ToDelete : e.path \notin LocalFiles(local, rules)
<1> DEFINE b == BuildPlan(local, L, rules)
<1> SUFFICES ASSUME NEW e \in b.ToDelete PROVE e.path \notin LocalAll(local, rules)
  BY DEF LocalFiles
<1>1. e.path \in Eligible(local, L, rules)
  BY PlannedDelete DEF DeletablePaths
<1> QED
  BY <1>1 DEF Eligible, Candidates

LEMMA StepSpares ==
  ASSUME TypeInv, NEW c \in Caller, Spared(c), CallStep(c), UNCHANGED <<local, rules>>
  PROVE  Spared(c)'
<1>1. plan \in [Caller -> PlanRecord]
  BY DEF TypeInv, TypeOK
<1>2. CASE Plan(c)
  <2>1. plan'[c] = BuildPlan(local, call[c].listing, rules)
    BY <1>1, <1>2 DEF Plan
  <2> QED
    BY <2>1, PlanSpares DEF Spared
<1>3. CASE UNCHANGED plan
  BY <1>3 DEF Spared
<1> QED
  BY <1>2, <1>3 DEF CallStep, StatBase, MakeBase, ResolveBase, List, PlanFails, NextEntry,
     MakeParents, UploadEntry, CheckDelete, RemoveEntry

\* An upload in progress is in the phase of uploads: other steps end none.
LEMMA OtherStepsOverwrite ==
  ASSUME TypeInv, NEW c \in Caller, Aim(c), CallStep(c), ~UploadEntry(c)
  PROVE  Overwrites(c)'
<1>1. up \in [Caller -> UploadRecord]
  BY DEF TypeInv, TypeOK, UploadTypeOK
<1>2. ~Busy(c)
  BY DEF Aim, CallStep, StatBase, MakeBase, ResolveBase, List, Plan, PlanFails, NextEntry,
     MakeParents, CheckDelete, RemoveEntry
<1>3. UNCHANGED up \/ up' = [up EXCEPT ![c] = NotStarted]
  BY DEF CallStep, StatBase, MakeBase, ResolveBase, List, Plan, PlanFails, NextEntry,
     MakeParents, CheckDelete, RemoveEntry, MkdirStep, MkdirStat, MkdirMake, MkdirChmod,
     MkdirRecheck
<1>4. ~Busy(c)'
  BY <1>1, <1>2, <1>3 DEF Busy, NotStarted, Stages
<1> QED
  BY <1>4 DEF Overwrites

\* A call without an upload step only makes directories where nothing is, and
\* removes what its plan deletes.
LEMMA OtherStepsLast ==
  ASSUME TransferInv, NEW c \in Caller, Spared(c), CallStep(c), ~UploadEntry(c),
         NEW p \in LocalFiles(local, rules)
  PROVE  Lasts(p)
<1>1. TypeInv /\ fs \in [Path -> Node] /\ p \in Path
  BY LocalFilesAreVisible, TempsAreEntries
  DEF TransferInv, TreesInv, PathsInv, TypeInv, TypeOK, UploadTypeOK, SessionTypeOK
<1>2. CASE fs' = fs
  BY <1>2 DEF Lasts
<1>3. CASE MakeBase(c) \/ MakeParents(c)
  <2>1. MkdirStep(c)
    BY <1>3 DEF MakeBase, MakeParents
  <2>2. fs' = fs \/ (fs[mk[c].dir] = Absent /\ fs' = [fs EXCEPT ![mk[c].dir] = Dir])
    BY <2>1, MkdirMakes DEF CanMkdir
  <2> QED
    BY <1>1, <2>2 DEF Lasts, IsFile, Absent
<1>4. CASE RemoveEntry(c)
  <2>1. Book(call[c], plan[c], result[c]) /\ call[c].phase = "remove"
    BY <1>4 DEF TransferInv, AllReady, Ready, MyBook, RemoveEntry
  <2>2. call[c].cur \in Paths(plan[c].ToDelete)
    BY <2>1, HandFacts DEF Book, Applies
  <2>3. call[c].cur # p
    BY <2>2 DEF Paths, Spared
  <2>4. fs' = fs \/ fs' = Without(fs, call[c].cur)
    BY <1>4 DEF RemoveEntry, RequestAt, Request
  <2> QED
    BY <1>1, <2>3, <2>4 DEF Lasts, Without
<1>5. fs' = fs \/ MakeBase(c) \/ MakeParents(c) \/ RemoveEntry(c)
  BY DEF CallStep, StatBase, ResolveBase, List, Plan, PlanFails, NextEntry, CheckDelete,
     session, Ask, Request
<1> QED
  BY <1>2, <1>3, <1>4, <1>5

LEMMA CallStepReplaces ==
  ASSUME TransferInv, NEW c \in Caller, Replacing(c), CallStep(c), faults' = 0
  PROVE  Replacing(c)' /\ \A p \in LocalFiles(local, rules) : Lasts(p)
<1>1. /\ TypeInv /\ TreesInv /\ SessionTypeOK /\ call \in [Caller -> CallRecord] /\ Aim(c)
      /\ Book(call[c], plan[c], result[c]) /\ plan[c] \in PlanRecord
  BY DEF TransferInv, TreesInv, PathsInv, TypeInv, TypeOK, UploadTypeOK, AllReady, Ready, MyBook
<1>2. UNCHANGED <<conn, local, rules>>
  BY <1>1, CalmSteps
<1>3. call[c].phase \in Active /\ conn[c]
  BY DEF CallStep, StatBase, MakeBase, ResolveBase, List, Plan, PlanFails, NextEntry,
     MakeParents, UploadEntry, CheckDelete, RemoveEntry, Active, Planning, Replacing
<1>4. Spared(c)'
  BY <1>1, <1>2, StepSpares DEF Replacing
<1>5. Overwrites(c)' /\ \A p \in LocalFiles(local, rules) : Lasts(p)
  <2>1. CASE UploadEntry(c)
    <3>1. call[c].cur \in Visible
      BY <1>1, <2>1, HandFacts DEF UploadEntry, Book, Applies, PlanRecord
    <3>2. UploadStart(c, call[c].cur, call[c].cur) \/ UploadStep(c)
      BY <2>1 DEF UploadEntry
    <3>3. Overwrites(c)' /\ \A p \in Visible : Lasts(p)
      BY <1>1, <1>3, <3>1, <3>2, UploadStepOverwrites, UploadStartOverwrites DEF Replacing
    <3> QED
      BY <1>1, <3>3, LocalFilesAreVisible
  <2>2. CASE ~UploadEntry(c)
    BY <1>1, <2>2, OtherStepsOverwrite, OtherStepsLast DEF Replacing
  <2> QED
    BY <2>1, <2>2
<1> QED
  BY <1>2, <1>3, <1>4, <1>5 DEF Replacing

LEMMA StartReplaces ==
  ASSUME TypeInv, NEW c \in Caller, Replacing(c),
         Crash(c) \/ \E dry \in DryRuns : Begin(c, dry)
  PROVE  Replacing(c)' /\ fs' = fs
<1>1. /\ call \in [Caller -> CallRecord] /\ conn \in [Caller -> BOOLEAN]
      /\ plan \in [Caller -> PlanRecord]
  BY DEF TypeInv, TypeOK, UploadTypeOK, SessionTypeOK
<1>2. UNCHANGED <<local, rules, fs>>
  BY DEF Crash, Begin, session, env
<1>3. ~Busy(c)'
  BY NoUploadLeft, InitAssumption
<1>4. CASE Crash(c)
  <2>1. call'[c] = [Idle EXCEPT !.phase = "crashed"] /\ plan' = plan
    BY <1>1, <1>4 DEF Crash
  <2>2. call'[c].phase = "crashed"
    BY <2>1 DEF Idle
  <2> QED
    BY <1>2, <1>3, <2>1, <2>2 DEF Replacing, Spared, Overwrites, Active, Planning
<1>5. ASSUME NEW dry \in DryRuns, Begin(c, dry) PROVE Replacing(c)'
  <2>1. conn'[c] = TRUE /\ plan'[c] = EmptyPlan
    BY <1>1, <1>5 DEF Begin
  <2> QED
    BY <1>3, <2>1 DEF Replacing, Spared, Overwrites, EmptyPlan
<1> QED
  BY <1>2, <1>4, <1>5

LEMMA NextReplaces ==
  ASSUME NEW c, Alone(c)
  PROVE  TransferInv /\ TransferInv' /\ Replacing(c) /\ [Next]_vars =>
           /\ Replacing(c)'
           /\ \A p \in LocalFiles(local, rules) : Lasts(p)
<1> SUFFICES ASSUME TransferInv, TransferInv', Replacing(c), [Next]_vars
             PROVE  Replacing(c)' /\ \A p \in LocalFiles(local, rules) : Lasts(p)
  OBVIOUS
<1>1. TypeInv /\ TypeInv'
  BY DEF TransferInv, TreesInv, PathsInv
<1>2. /\ c \in Caller /\ Caller = {c} /\ faults' = 0
      /\ budget.edits = 0 /\ budget.intrusions = 0
  BY <1>1, MaxFaultsAssumption
  DEF Alone, TypeInv, TypeOK, UploadTypeOK, SessionTypeOK, Budget
<1>3. ~EditLocal /\ ~ChangeRemote
  BY <1>2 DEF EditLocal, ChangeRemote
<1>4. CASE CallStep(c)
  BY <1>2, <1>4, CallStepReplaces
<1>5. CASE Crash(c) \/ \E dry \in DryRuns : Begin(c, dry)
  BY <1>1, <1>2, <1>5, StartReplaces DEF Lasts
<1>6. CASE UNCHANGED <<session, rules, own>>
  BY <1>6 DEF session, own, Replacing, Spared, Overwrites, Busy, Lasts
<1> QED
  BY <1>2, <1>3, <1>4, <1>5, <1>6 DEF Next, Environment, Tick, vars

LEMMA InitReplaces ==
  ASSUME NEW c, Alone(c), Init
  PROVE  Replacing(c)
<1>1. c \in Caller /\ call[c] = Idle /\ up[c] = NotStarted /\ plan[c] = EmptyPlan
  BY DEF Alone, Init
<1> QED
  BY <1>1 DEF Replacing, Spared, Overwrites, Busy, Stages, NotStarted, Idle, EmptyPlan,
     Active, Planning

\* On a server with posix-rename, a file of the project that is on the VM is
\* there after every step of a sync that nothing disturbs (OverwriteIsAtomic):
\* for every pair of trees and every rules, links on the VM included, and also
\* where calls crash.  Faults, edits, intrusions and a second call are left out
\* because each of them breaks it: a refused posix-rename is followed by a
\* Remove, a stale plan deletes, and two renames meet (run sync_pair_overwrite).
THEOREM OverwritesAloneAreAtomic ==
  ASSUME NEW c, Alone(c)
  PROVE  Spec => OverwriteIsAtomic
<1>1. Init => Replacing(c)
  BY InitReplaces
<1>2. TransferInv /\ TransferInv' /\ Replacing(c) /\ [Next]_vars => Replacing(c)'
  BY NextReplaces
<1>3. TransferInv /\ TransferInv' /\ Replacing(c) /\ [Next]_vars =>
        [\A p \in LocalFiles(local, rules) :
           HasPosixRename /\ IsFile(fs[p]) => IsFile(fs'[p])]_vars
  BY NextReplaces DEF Lasts
<1> QED
  BY <1>1, <1>2, <1>3, TransferInvariant, PTL DEF Spec, OverwriteIsAtomic
=============================================================================
