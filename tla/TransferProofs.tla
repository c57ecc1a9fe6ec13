--------------------------- MODULE TransferProofs ---------------------------
(***************************************************************************)
(* Proofs that a call of sync keeps the promise of Transfer: whatever its  *)
(* requests do, the tree that a user of the VM sees only changes where the *)
(* plan says, a whole file at a time, and the plan is reported entry by    *)
(* entry.                                                                  *)
(***************************************************************************)
EXTENDS SyncCallProofs, WellFoundedInduction

-----------------------------------------------------------------------------
(***************************************************************************)
(* A set of numbers has a least one.  Induction is done with it: there is  *)
(* no shortest path, and no smallest position, where something goes wrong. *)
(***************************************************************************)
Smaller == {ss \in Nat \X Nat : ss[1] < ss[2]}

LEMMA SmallerIsWellFounded == IsWellFoundedOn(Smaller, Nat)
BY NatLessThanWellFounded DEF OpToRel, Smaller

LEMMA LeastNumber ==
  ASSUME NEW T \in SUBSET Nat, T # {}
  PROVE  \E m \in T : \A n \in T : m <= n
<1>1. PICK m \in T : \A n \in T : ~(<<n, m>> \in Smaller)
  BY WFMin, SmallerIsWellFounded
<1>2. ASSUME NEW n \in T PROVE m <= n
  <2>1. <<n, m>> \in Nat \X Nat /\ <<n, m>>[1] = n /\ <<n, m>>[2] = m
    OBVIOUS
  <2>2. ~(<<n, m>>[1] < <<n, m>>[2])
    BY <1>1, <2>1 DEF Smaller
  <2> QED
    BY <2>1, <2>2
<1> QED
  BY <1>2

-----------------------------------------------------------------------------
(***************************************************************************)
(* Trees that a file system can hold.                                      *)
(***************************************************************************)

\* What is directly in d is its children; the rest lies under one of them.
LEMMA UnderParent ==
  ASSUME NEW q \in Path, NEW p \in Path, Under(q, p), Parent(q) # p
  PROVE  q \in Entry /\ Under(Parent(q), p)
<1>1. /\ Len(p) \in Nat /\ Len(q) \in Nat /\ Len(p) < Len(q)
      /\ p \in Seq(STRING) /\ q \in Seq(STRING)
  BY PathAssumption DEF Under
<1>2. q \in Entry
  BY <1>1 DEF Entry, Base
<1>3. Parent(q) \in Path /\ Len(Parent(q)) = Len(q) - 1 /\ Parent(q) \in Seq(STRING)
  BY <1>2, ParentFacts, PathAssumption
<1>4. \A i \in 1 .. Len(q) - 1 : Parent(q)[i] = q[i]
  BY <1>1 DEF Parent
<1>5. \A i \in 1 .. Len(p) : Parent(q)[i] = p[i]
  BY <1>1, <1>4 DEF Under
<1>6. Len(p) # Len(q) - 1
  BY <1>1, <1>3, <1>5
<1> QED
  BY <1>1, <1>2, <1>3, <1>5, <1>6 DEF Under

\* Nothing lies under what is no directory, however deep.
LEMMA Rooted ==
  ASSUME NEW t \in [Path -> Node], WellFormed(t),
         NEW p \in Path, t[p] # Dir, NEW q \in Path, Under(q, p)
  PROVE  t[q] = Absent
<1> DEFINE Bad == {r \in Path : Under(r, p) /\ t[r] # Absent}
           T == {Len(r) : r \in Bad}
<1> SUFFICES ASSUME q \in Bad PROVE FALSE
  OBVIOUS
<1>1. T \in SUBSET Nat /\ T # {}
  <2>1. \A r \in Bad : Len(r) \in Nat
    BY PathAssumption
  <2> HIDE DEF Bad
  <2> QED
    BY <2>1
<1> HIDE DEF T
<1>2. PICK m \in T : \A n \in T : m <= n
  BY <1>1, LeastNumber
<1> USE DEF T
<1>3. PICK r \in Bad : m = Len(r)
  BY <1>2
<1>4. r \in Entry /\ t[Parent(r)] = Dir
  <2>1. r # Base
    BY PathAssumption DEF Under, Base
  <2> QED
    BY <2>1 DEF WellFormed, Entry
<1>5. Parent(r) \in Bad
  <2>1. Under(Parent(r), p)
    BY <1>4, UnderParent
  <2> QED
    BY <1>4, <2>1, ParentFacts DEF Dir, Absent
<1>6. Len(r) <= Len(Parent(r))
  BY <1>2, <1>3, <1>5
<1> QED
  BY <1>4, <1>6, ParentFacts

\* What keeps a tree one that a file system can hold: something comes into a
\* directory in place of what is no directory ...
LEMMA WriteKeepsForm ==
  ASSUME NEW t \in [Path -> Node], WellFormed(t),
         NEW p \in Entry, t[Parent(p)] = Dir, t[p] # Dir, NEW n
  PROVE  WellFormed([t EXCEPT ![p] = n])
<1> DEFINE t2 == [t EXCEPT ![p] = n]
<1> SUFFICES ASSUME NEW q \in Entry, t2[q] # Absent PROVE t2[Parent(q)] = Dir
  BY DEF WellFormed
<1>1. p \in Path /\ q \in Path /\ Parent(q) \in Path /\ Parent(q) # q
  BY ParentFacts DEF Entry
<1>2. t[Parent(q)] = Dir
  BY <1>1 DEF WellFormed
<1> QED
  BY <1>1, <1>2

\* ... a directory comes where nothing is ...
LEMMA MkdirKeepsForm ==
  ASSUME NEW t \in [Path -> Node], WellFormed(t),
         NEW p \in Path, p # Base => t[Parent(p)] = Dir
  PROVE  WellFormed([t EXCEPT ![p] = Dir])
<1> DEFINE t2 == [t EXCEPT ![p] = Dir]
<1> SUFFICES ASSUME NEW q \in Entry, t2[q] # Absent PROVE t2[Parent(q)] = Dir
  BY DEF WellFormed
<1>1. q \in Path /\ Parent(q) \in Path
  BY ParentFacts DEF Entry
<1>2. t[Parent(q)] = Dir
  BY <1>1 DEF WellFormed, Entry
<1> QED
  BY <1>1, <1>2

\* ... or something goes that nothing lies in.
LEMMA RemoveKeepsForm ==
  ASSUME NEW t \in [Path -> Node], WellFormed(t),
         NEW p \in Path, \A q \in Path : Under(q, p) => t[q] = Absent
  PROVE  WellFormed(Without(t, p))
<1> SUFFICES ASSUME NEW q \in Entry, Without(t, p)[q] # Absent
             PROVE  Without(t, p)[Parent(q)] = Dir
  BY DEF WellFormed
<1>1. q \in Path /\ Parent(q) \in Path /\ Under(q, Parent(q))
  BY ParentFacts DEF Entry
<1>2. t[q] # Absent /\ q # p
  BY <1>1 DEF Without
<1>3. Parent(q) # p
  BY <1>1, <1>2
<1>4. t[Parent(q)] = Dir
  BY <1>2 DEF WellFormed
<1> QED
  BY <1>1, <1>3, <1>4 DEF Without

LEMMA RemovableIsEmpty ==
  ASSUME NEW t \in [Path -> Node], WellFormed(t), NEW p \in Path,
         CanRemove(t, p) \/ IsEmptyDir(t, p) \/ t[p] # Dir
  PROVE  \A q \in Path : Under(q, p) => t[q] = Absent
<1>1. CASE IsEmptyDir(t, p)
  BY <1>1 DEF IsEmptyDir
<1>2. CASE t[p] # Dir
  BY <1>2, Rooted
<1>3. CASE t[p].kind \in {"file", "link"}
  BY <1>2, <1>3 DEF Dir
<1> QED
  BY <1>1, <1>2, <1>3 DEF CanRemove

-----------------------------------------------------------------------------
(***************************************************************************)
(* Trees as a user of the VM sees them, without temporary files.           *)
(***************************************************************************)
Show(t) == [p \in Path |-> IF p \in Temps THEN Absent ELSE t[p]]

LEMMA ShownIsShow == Shown = Show(fs) /\ Shown' = Show(fs')
BY DEF Shown, Show

LEMMA SeenTypes ==
  ASSUME NEW t \in [Path -> Node]
  PROVE  Show(t) \in [Path -> Node]
BY NodeKinds DEF Show

LEMMA WriteSeen ==
  ASSUME NEW t \in [Path -> Node], NEW p \in Path, NEW n
  PROVE  /\ p \in Temps => Show([t EXCEPT ![p] = n]) = Show(t)
         /\ p \notin Temps => Show([t EXCEPT ![p] = n]) = [Show(t) EXCEPT ![p] = n]
BY DEF Show

LEMMA RemovalSeen ==
  ASSUME NEW t \in [Path -> Node], NEW p \in Path
  PROVE  /\ Show(Without(t, p)) = Without(Show(t), p)
         /\ p \in Temps => Show(Without(t, p)) = Show(t)
BY DEF Show, Without

LEMMA MoveSeen ==
  ASSUME NEW t \in [Path -> Node], NEW x \in Temps, NEW p \in Visible
  PROVE  Show(Moved(t, x, p)) = [Show(t) EXCEPT ![p] = t[x]]
<1>1. x \in Path /\ p \in Path /\ p \notin Temps
  BY TempsAreEntries
<1> QED
  BY <1>1 DEF Show, Moved

LEMMA LinksSeen ==
  ASSUME NEW t \in [Path -> Node], NEW p \in Path
  PROVE  LeadsOut(Show(t), p) = LeadsOut(t, p)
<1>1. \A a \in Path : Under(p, a) => Show(t)[a] = t[a]
  BY TempAssumption DEF Show
<1> QED
  BY <1>1 DEF LeadsOut

\* Nothing lies in a temporary file, so a tree that a file system can hold is
\* still one without them.
LEMMA FormSeen ==
  ASSUME NEW t \in [Path -> Node], WellFormed(t)
  PROVE  WellFormed(Show(t))
<1> SUFFICES ASSUME NEW p \in Entry, Show(t)[p] # Absent
             PROVE  Show(t)[Parent(p)] = Dir
  BY DEF WellFormed
<1>1. p \in Path /\ Parent(p) \in Path /\ Parent(p) \notin Temps
  BY ParentFacts, ParentIsNoTemp DEF Entry
<1>2. t[Parent(p)] = Dir
  BY <1>1 DEF Show, WellFormed
<1> QED
  BY <1>1, <1>2 DEF Show

-----------------------------------------------------------------------------
(***************************************************************************)
(* What a request does to a tree, and that it leaves a tree that a file    *)
(* system can hold.                                                        *)
(***************************************************************************)
TreesInv == PathsInv /\ TornInv /\ WellFormed(fs)

\* A whole file comes to p; p goes, and nothing goes with it.
PutAt(t, t2, p) ==
  /\ CanCreate(t, p) /\ t[p] # Dir
  /\ IsFile(t2[p]) /\ t2[p].data \in Content
  /\ t2 = [t EXCEPT ![p] = t2[p]]
DropAt(t, t2, p) ==
  /\ \A q \in Path : Under(q, p) => t[q] = Absent
  /\ t2 = Without(t, p)

\* A step of MkdirAll makes the directory it is at, where there is none, or
\* changes nothing; then it is not over.
LEMMA MkdirMakes ==
  ASSUME NEW c \in Caller, MkdirStep(c)
  PROVE  \/ fs' = fs
         \/ /\ mk[c].at \in MkdirStages
            /\ ~LeadsOut(fs, mk[c].dir) /\ CanMkdir(mk[c].dir)
            /\ fs' = [fs EXCEPT ![mk[c].dir] = Dir]
            /\ \E at \in MkdirStages : mk' = [mk EXCEPT ![c].at = at]
<1> DEFINE m == mk[c]
<1>1. CASE MkdirMake(c)
  <2>1. PICK ok \in BOOLEAN :
          /\ RequestAt(c, ok, m.dir, CanMkdir(m.dir), [fs EXCEPT ![m.dir] = Dir])
          /\ mk' = [mk EXCEPT ![c].at = IF ok THEN "chmod" ELSE "recheck"]
    BY <1>1 DEF MkdirMake
  <2>2. \/ fs' = fs
        \/ ~LeadsOut(fs, m.dir) /\ CanMkdir(m.dir) /\ fs' = [fs EXCEPT ![m.dir] = Dir]
    BY <2>1 DEF RequestAt, Request
  <2>3. \E at \in MkdirStages : mk' = [mk EXCEPT ![c].at = at]
    BY <2>1 DEF MkdirStages
  <2> QED
    BY <1>1, <2>2, <2>3 DEF MkdirMake, MkdirStages
<1>2. CASE MkdirStat(c) \/ MkdirRecheck(c)
  BY <1>2 DEF MkdirStat, MkdirRecheck, Ask, Request
<1>3. CASE MkdirChmod(c)
  BY <1>3 DEF MkdirChmod, RequestAt, Request
<1> QED
  BY <1>1, <1>2, <1>3 DEF MkdirStep

LEMMA MkdirKeepsTree ==
  ASSUME TreesInv, NEW c \in Caller, MkdirStep(c)
  PROVE  WellFormed(fs')
<1>1. fs \in [Path -> Node] /\ WellFormed(fs) /\ MkdirTypeOK
  BY DEF TreesInv, PathsInv, TypeInv, TypeOK, UploadTypeOK, SessionTypeOK
<1>2. CASE fs' = fs
  BY <1>1, <1>2
<1>3. CASE /\ mk[c].at \in MkdirStages /\ CanMkdir(mk[c].dir)
           /\ fs' = [fs EXCEPT ![mk[c].dir] = Dir]
  <2>1. mk[c].dir \in Path
    BY <1>1, <1>3, MkdirFields
  <2> QED
    BY <1>1, <1>3, <2>1, MkdirKeepsForm DEF CanMkdir, CanCreate
<1> QED
  BY <1>2, <1>3, MkdirMakes

\* What starts an upload changes the tree by a temporary file.
LEMMA StartCreates ==
  ASSUME NEW c \in Caller, NEW src, NEW dst \in Visible, UploadStart(c, src, dst)
  PROVE  \/ fs' = fs
         \/ \E t \in Temps : /\ fs[t] = Absent /\ CanCreate(fs, t)
                            /\ fs' = [fs EXCEPT ![t] = File(Torn, Stamp)]
<1>1. CASE UNCHANGED fs
  BY <1>1
<1>2. CASE \E d \in Sources(src), t \in FreshTemps(dst), ok \in BOOLEAN :
             RequestAt(c, ok, t, CanCreate(fs, t), [fs EXCEPT ![t] = File(Torn, Stamp)])
  <2>1. PICK d \in Sources(src), t \in FreshTemps(dst), ok \in BOOLEAN :
          RequestAt(c, ok, t, CanCreate(fs, t), [fs EXCEPT ![t] = File(Torn, Stamp)])
    BY <1>2
  <2>2. t \in Temps /\ fs[t] = Absent
    BY TempsAreEntries DEF FreshTemps
  <2>3. \/ fs' = fs
        \/ CanCreate(fs, t) /\ fs' = [fs EXCEPT ![t] = File(Torn, Stamp)]
    BY <2>1 DEF RequestAt, Request
  <2> QED
    BY <2>2, <2>3
<1> QED
  BY <1>1, <1>2 DEF UploadStart

LEMMA StartKeepsTree ==
  ASSUME TreesInv, NEW c \in Caller, NEW src, NEW dst \in Visible,
         UploadStart(c, src, dst)
  PROVE  WellFormed(fs') /\ Show(fs') = Show(fs)
<1>1. fs \in [Path -> Node] /\ WellFormed(fs)
  BY DEF TreesInv, PathsInv, TypeInv, TypeOK, UploadTypeOK, SessionTypeOK
<1>2. ASSUME NEW t \in Temps, fs[t] = Absent, CanCreate(fs, t),
             fs' = [fs EXCEPT ![t] = File(Torn, Stamp)]
      PROVE  WellFormed(fs') /\ Show(fs') = Show(fs)
  <2>1. t \in Entry /\ t \in Path
    BY TempsAreEntries
  <2>2. fs[t] # Dir
    BY <1>2, FilesAreFiles
  <2>3. WellFormed(fs')
    BY <1>1, <1>2, <2>1, <2>2, WriteKeepsForm DEF CanCreate
  <2> QED
    BY <1>1, <1>2, <2>1, <2>3, WriteSeen
<1> QED
  BY <1>1, <1>2, StartCreates

\* One request of an upload: what it does to the tree, and where it leaves the
\* upload.  The file is moved into place, or out of the base through a link;
\* or what is in its place goes; or only its temporary file changes.
MovesInPlace(c) ==
  /\ ~LeadsOut(fs, up[c].dst) /\ up[c].at \in {"posix", "plain", "again"}
  /\ fs[up[c].tmp] # Absent /\ fs[up[c].dst] # Dir
  /\ fs' = Moved(fs, up[c].tmp, up[c].dst)
Clears(c) ==
  /\ up[c].at = "clear"
  /\ CanRemove(fs, up[c].dst) /\ fs' = Without(fs, up[c].dst)
OnlyTemp(c) ==
  \/ fs' = fs
  \/ /\ fs[up[c].tmp] # Absent
     /\ \E d, m : fs' = [fs EXCEPT ![up[c].tmp] = File(d, m)]
  \/ fs' = Without(fs, up[c].tmp)

LEMMA RenameDoes ==
  ASSUME UploadTypeOK, NEW c \in Caller, up[c].at \in {"posix", "plain", "again"},
         NEW able \in BOOLEAN, NEW next \in Stages, RenameBy(c, able, next),
         able => fs[up[c].tmp] # Absent /\ fs[up[c].dst] # Dir
  PROVE  /\ MovesInPlace(c) \/ fs' = fs
         /\ up'[c].at = "done" => MovesInPlace(c) \/ (LeadsOut(fs, up[c].dst) /\ fs' = fs)
         /\ up'[c].at # "failed"
         /\ up'[c].at # "done" => Busy(c)'
<1>1. PICK ok \in BOOLEAN :
        /\ RequestAt(c, ok, up[c].dst, able, Moved(fs, up[c].tmp, up[c].dst))
        /\ IF ok THEN up' = [up EXCEPT ![c] = Succeeded] ELSE MoveOn(c, next)
  BY DEF RenameBy
<1>2. /\ MovesInPlace(c) \/ fs' = fs
      /\ ok => MovesInPlace(c) \/ (LeadsOut(fs, up[c].dst) /\ fs' = fs)
  BY <1>1 DEF RequestAt, Request, MovesInPlace
<1>3. /\ ok => up'[c].at = "done"
      /\ ~ok => up'[c].at = next
  <2>1. up \in [Caller -> UploadRecord] /\ Busy(c)
    BY DEF UploadTypeOK, Busy, Stages
  <2>2. CASE ok
    BY <1>1, <2>1, <2>2 DEF Succeeded
  <2>3. CASE ~ok
    <3>1. up' = [up EXCEPT ![c] = [up[c] EXCEPT !.at = next]]
      BY <1>1, <2>3, <2>1, MoveOnTypes
    <3>2. [up[c] EXCEPT !.at = next].at = next
      BY <2>1, BusyRecord DEF UploadRecord, NotStarted, Succeeded, GaveUp
    <3> QED
      BY <2>1, <2>3, <3>1, <3>2
  <2> QED
    BY <2>2, <2>3
<1> QED
  BY <1>2, <1>3 DEF Busy, Stages

LEMMA UploadDoes ==
  ASSUME UploadTypeOK, NEW c \in Caller, UploadStep(c)
  PROVE  /\ Busy(c)
         /\ MovesInPlace(c) \/ Clears(c) \/ OnlyTemp(c)
         /\ up'[c].at = "done" => MovesInPlace(c) \/ (LeadsOut(fs, up[c].dst) /\ fs' = fs)
         /\ up'[c].at = "failed" => OnlyTemp(c) /\ Cleanup(c)
         /\ up'[c].at \in {"done", "failed"} \/ Busy(c)'
<1>0. Busy(c) /\ up \in [Caller -> UploadRecord]
  BY DEF UploadStep, WriteTemp, PosixRename, PlainRename, ClearDestination, RenameAgain,
         Cleanup, Busy, Stages, UploadTypeOK
<1>1. CASE WriteTemp(c)
  <2>1. PICK ok \in BOOLEAN :
          /\ \E d : Request(c, ok, up[c].data # Torn,
                            IF fs[up[c].tmp] = Absent THEN fs
                            ELSE [fs EXCEPT ![up[c].tmp] = File(d, Stamp)])
          /\ MoveOn(c, AfterWrite(ok))
    BY <1>1 DEF WriteTemp
  <2>2. OnlyTemp(c)
    BY <2>1 DEF Request, OnlyTemp
  <2>3. up'[c].at = AfterWrite(ok) /\ AfterWrite(ok) \in Stages
    BY <1>0, <2>1, MoveOnTypes, BusyRecord DEF AfterWrite, Stages, UploadRecord, MoveOn,
       NotStarted, Succeeded, GaveUp
  <2> QED
    BY <1>0, <2>2, <2>3 DEF Busy, Stages
<1>2. CASE PosixRename(c)
  <2>1. RenameBy(c, HasPosixRename /\ CanReplace(fs, up[c].tmp, up[c].dst), "plain")
        /\ up[c].at = "posix"
    BY <1>2 DEF PosixRename
  <2> QED
    BY <1>0, <2>1, RenameDoes, ServerAssumption DEF CanReplace, Stages, OnlyTemp
<1>3. CASE PlainRename(c) \/ RenameAgain(c)
  <2>1. PICK next \in Stages :
          RenameBy(c, CanRename(fs, up[c].tmp, up[c].dst), next)
          /\ up[c].at \in {"plain", "again"}
    BY <1>3 DEF PlainRename, RenameAgain, Stages
  <2>2. CanRename(fs, up[c].tmp, up[c].dst)
          => fs[up[c].tmp] # Absent /\ fs[up[c].dst] # Dir
    BY FilesAreFiles DEF CanRename
  <2> QED
    BY <1>0, <2>1, <2>2, RenameDoes DEF CanRename, OnlyTemp
<1>4. CASE ClearDestination(c)
  <2>1. Clears(c) \/ fs' = fs
    BY <1>4 DEF ClearDestination, RequestAt, Request, Clears
  <2>2. up'[c].at = "again"
    BY <1>0, <1>4, MoveOnTypes, BusyRecord DEF ClearDestination, Stages, UploadRecord,
       MoveOn, NotStarted, Succeeded, GaveUp
  <2> QED
    BY <1>0, <2>1, <2>2 DEF Busy, Stages, OnlyTemp
<1>5. CASE Cleanup(c)
  <2>1. OnlyTemp(c)
    BY <1>5 DEF Cleanup, RequestAt, Request, OnlyTemp
  <2>2. up'[c].at = "failed"
    BY <1>0, <1>5 DEF Cleanup, GaveUp
  <2> QED
    BY <1>0, <1>5, <2>1, <2>2
<1> QED
  BY <1>1, <1>2, <1>3, <1>4, <1>5 DEF UploadStep

\* The file that is moved into place is whole, and what is cleared has nothing
\* in it.
LEMMA UploadShows ==
  ASSUME TreesInv, NEW c \in Caller, Busy(c)
  PROVE  /\ OnlyTemp(c) => WellFormed(fs') /\ Show(fs') = Show(fs)
         /\ MovesInPlace(c) => WellFormed(fs') /\ PutAt(Show(fs), Show(fs'), up[c].dst)
         /\ Clears(c) => WellFormed(fs') /\ DropAt(Show(fs), Show(fs'), up[c].dst)
<1> DEFINE tmp == up[c].tmp
           dst == up[c].dst
<1>1. /\ fs \in [Path -> Node] /\ WellFormed(fs) /\ UploadTypeOK /\ PlainTemps
      /\ WholeWhenMoved
  BY DEF TreesInv, PathsInv, TornInv, TypeInv, TypeOK, UploadTypeOK, SessionTypeOK
<1>2. /\ tmp \in Temps /\ tmp \in Path /\ tmp \in Entry
      /\ dst \in Visible /\ dst \in Entry /\ dst \in Path /\ dst \notin Temps
      /\ tmp # dst
  BY <1>1, BusyRecord, TempsAreEntries
<1>3. /\ Parent(tmp) = Parent(dst) /\ Parent(dst) \in Path /\ Parent(dst) \notin Temps
      /\ fs[tmp] \notin {Dir, Link}
  BY <1>1, <1>2, ParentFacts, ParentIsNoTemp, TempAssumption DEF PlainTemps
<1>4. /\ \A q \in Path : ~Under(q, tmp)
      /\ WellFormed(Without(fs, tmp)) /\ Show(Without(fs, tmp)) = Show(fs)
  <2>1. \A q \in Path : ~Under(q, tmp)
    BY <1>2, TempAssumption
  <2> QED
    BY <1>1, <1>2, <2>1, RemoveKeepsForm, RemovalSeen
<1>5. ASSUME fs[tmp] # Absent
      PROVE  /\ fs[Parent(dst)] = Dir
             /\ fs[tmp] \in FileNode
             /\ \A n : WellFormed([fs EXCEPT ![tmp] = n])
  <2>1. fs[Parent(tmp)] = Dir
    BY <1>1, <1>2, <1>5 DEF WellFormed
  <2>2. \A n : WellFormed([fs EXCEPT ![tmp] = n])
    BY <1>1, <1>2, <1>3, <2>1, WriteKeepsForm
  <2> QED
    BY <1>1, <1>2, <1>3, <1>5, <2>1, <2>2 DEF Node
<1>6. ASSUME OnlyTemp(c) PROVE WellFormed(fs') /\ Show(fs') = Show(fs)
  <2>1. ASSUME fs[tmp] # Absent, NEW d, NEW m, fs' = [fs EXCEPT ![tmp] = File(d, m)]
        PROVE  WellFormed(fs') /\ Show(fs') = Show(fs)
    BY <1>1, <1>2, <1>5, <2>1, WriteSeen
  <2> QED
    BY <1>1, <1>4, <1>6, <2>1 DEF OnlyTemp
<1>7. ASSUME MovesInPlace(c)
      PROVE  WellFormed(fs') /\ PutAt(Show(fs), Show(fs'), dst)
  <2> DEFINE t == [fs EXCEPT ![dst] = fs[tmp]]
  <2>1. /\ fs[tmp] # Absent /\ fs[dst] # Dir /\ fs' = Moved(fs, tmp, dst)
        /\ ~IsTorn(fs[tmp])
    BY <1>1, <1>7 DEF MovesInPlace, WholeWhenMoved
  <2>2. /\ fs[Parent(dst)] = Dir /\ fs[tmp] \in FileNode
        /\ IsFile(fs[tmp]) /\ fs[tmp].data \in Content
    BY <1>5, <2>1 DEF FileNode, IsTorn, IsFile
  <2>3. WellFormed(fs')
    <3>1. t \in [Path -> Node] /\ WellFormed(t)
      BY <1>1, <1>2, <2>1, <2>2, WriteKeepsForm
    <3>2. fs' = Without(t, tmp)
      BY <1>1, <1>2, <2>1 DEF Moved, Without
    <3> QED
      BY <1>2, <1>4, <3>1, <3>2, RemoveKeepsForm
  <2>4. Show(fs') = [Show(fs) EXCEPT ![dst] = fs[tmp]]
    BY <1>1, <1>2, <2>1, MoveSeen
  <2>5. Show(fs)[Parent(dst)] = Dir /\ Show(fs)[dst] # Dir
    BY <1>2, <1>3, <2>1, <2>2 DEF Show
  <2>6. Show(fs) \in [Path -> Node]
    BY <1>1, SeenTypes
  <2>7. Show(fs')[dst] = fs[tmp]
    BY <1>2, <2>4, <2>6
  <2> QED
    BY <2>2, <2>3, <2>4, <2>5, <2>7 DEF PutAt, CanCreate
<1>8. ASSUME Clears(c)
      PROVE  WellFormed(fs') /\ DropAt(Show(fs), Show(fs'), dst)
  <2>1. fs' = Without(fs, dst) /\ \A q \in Path : Under(q, dst) => fs[q] = Absent
    BY <1>1, <1>2, <1>8, RemovableIsEmpty DEF Clears
  <2>2. WellFormed(fs')
    BY <1>1, <1>2, <2>1, RemoveKeepsForm
  <2>3. \A q \in Path : Under(q, dst) => Show(fs)[q] = Absent
    BY <2>1 DEF Show
  <2> QED
    BY <1>1, <1>2, <2>1, <2>2, <2>3, RemovalSeen DEF DropAt
<1> QED
  BY <1>6, <1>7, <1>8

\* One step of an upload, in the tree that can be seen.
LEMMA UploadKeepsTree ==
  ASSUME TreesInv, NEW c \in Caller, UploadStep(c)
  PROVE  /\ WellFormed(fs')
         /\ \/ Show(fs') = Show(fs)
            \/ PutAt(Show(fs), Show(fs'), up[c].dst)
            \/ DropAt(Show(fs), Show(fs'), up[c].dst)
         /\ up'[c].at = "done" =>
              \/ PutAt(Show(fs), Show(fs'), up[c].dst)
              \/ LeadsOut(Show(fs), up[c].dst) /\ Show(fs') = Show(fs)
         /\ up'[c].at = "failed" => Show(fs') = Show(fs)
<1>1. UploadTypeOK /\ fs \in [Path -> Node] /\ WellFormed(fs)
  BY DEF TreesInv, PathsInv, TypeInv, TypeOK, UploadTypeOK, SessionTypeOK
<1>2. Busy(c)
  BY <1>1, UploadDoes
<1>3. up[c].dst \in Path
  BY <1>1, <1>2, BusyPaths
<1> QED
  BY <1>1, <1>2, <1>3, UploadDoes, UploadShows, LinksSeen

\* A delete: the entry goes with nothing in it, or nothing happens; if the
\* server says that it was done, it was not done through a link.
LEMMA RemoveKeepsTree ==
  ASSUME TreesInv, Checked, NEW c \in Caller, RemoveEntry(c)
  PROVE  LET p == call[c].cur
         IN  /\ WellFormed(fs')
             /\ ~LeadsOut(Show(fs), p)
             /\ Show(fs') = Show(fs) \/ DropAt(Show(fs), Show(fs'), p)
             /\ \/ /\ result' = [result EXCEPT ![c].deleted = @ \cup {p}]
                   /\ Goto(c, "next")
                   /\ DropAt(Show(fs), Show(fs'), p)
                \/ Fail(c, "delete")
<1> DEFINE p == call[c].cur
           able == IF call[c].isDir THEN IsEmptyDir(fs, p) ELSE CanRemove(fs, p)
<1>1. /\ fs \in [Path -> Node] /\ WellFormed(fs) /\ TypeInv
  BY DEF TreesInv, PathsInv, TypeInv, TypeOK, UploadTypeOK, SessionTypeOK
<1>2. call[c].phase = "remove" /\ p \in Entry /\ p \in Path
  BY <1>1 DEF TypeInv, CurrentEntry, RemoveEntry, Entry
<1>3. PICK ok \in BOOLEAN :
        /\ RequestAt(c, ok, p, able, Without(fs, p))
        /\ IF ok THEN /\ result' = [result EXCEPT ![c].deleted = @ \cup {p}]
                      /\ Goto(c, "next")
                 ELSE Fail(c, "delete")
  BY DEF RemoveEntry
<1>4. ~LeadsOut(fs, p)
  BY <1>2 DEF Checked
<1>5. /\ fs' = fs \/ (able /\ fs' = Without(fs, p))
      /\ ok => able /\ fs' = Without(fs, p)
  BY <1>3, <1>4 DEF RequestAt, Request
<1>6. ASSUME able, fs' = Without(fs, p)
      PROVE  WellFormed(fs') /\ DropAt(Show(fs), Show(fs'), p)
  <2>1. \A q \in Path : Under(q, p) => fs[q] = Absent
    BY <1>1, <1>2, <1>6, RemovableIsEmpty
  <2>2. WellFormed(fs')
    BY <1>1, <1>2, <1>6, <2>1, RemoveKeepsForm
  <2>3. \A q \in Path : Under(q, p) => Show(fs)[q] = Absent
    BY <2>1 DEF Show
  <2> QED
    BY <1>1, <1>2, <1>6, <2>2, <2>3, RemovalSeen DEF DropAt
<1>7. ~LeadsOut(Show(fs), p)
  BY <1>1, <1>2, <1>4, LinksSeen
<1> QED
  BY <1>1, <1>3, <1>5, <1>6, <1>7

\* What a delete through a link does is not in the tree.
LEMMA RemoveLeavesTree ==
  ASSUME TreesInv, NEW c \in Caller, RemoveEntry(c)
  PROVE  WellFormed(fs')
<1>1. CASE LeadsOut(fs, call[c].cur)
  <2>1. fs' = fs
    BY <1>1 DEF RemoveEntry, RequestAt, Request
  <2> QED
    BY <2>1 DEF TreesInv
<1>2. CASE ~LeadsOut(fs, call[c].cur)
  <2> DEFINE p == call[c].cur
             able == IF call[c].isDir THEN IsEmptyDir(fs, p) ELSE CanRemove(fs, p)
  <2>1. fs \in [Path -> Node] /\ WellFormed(fs) /\ p \in Path
    BY DEF RemoveEntry, TreesInv, PathsInv, TypeInv, CurrentEntry, TypeOK, UploadTypeOK,
       SessionTypeOK, Entry
  <2>2. fs' = fs \/ (able /\ fs' = Without(fs, p))
    BY <1>2 DEF RemoveEntry, RequestAt, Request
  <2>3. able => \A q \in Path : Under(q, p) => fs[q] = Absent
    BY <2>1, RemovableIsEmpty
  <2> QED
    BY <2>1, <2>2, <2>3, RemoveKeepsForm
<1> QED
  BY <1>1, <1>2

LEMMA CallStepKeepsTree ==
  ASSUME TreesInv, NEW c \in Caller, CallStep(c)
  PROVE  WellFormed(fs')
<1>1. CASE StatBase(c) \/ ResolveBase(c) \/ List(c) \/ Plan(c) \/ PlanFails(c)
           \/ NextEntry(c) \/ CheckDelete(c)
  <2>1. fs' = fs
    BY <1>1 DEF StatBase, ResolveBase, List, Plan, PlanFails, NextEntry, CheckDelete,
       Ask, Request, session
  <2> QED
    BY <2>1 DEF TreesInv
<1>2. CASE MakeBase(c) \/ MakeParents(c)
  BY <1>2, MkdirKeepsTree DEF MakeBase, MakeParents
<1>3. CASE UploadEntry(c)
  <2>1. call[c].cur \in Visible
    BY <1>3 DEF UploadEntry, TreesInv, PathsInv, TypeInv, CurrentEntry
  <2> QED
    BY <1>3, <2>1, StartKeepsTree, UploadKeepsTree DEF UploadEntry
<1>4. CASE RemoveEntry(c)
  BY <1>4, RemoveLeavesTree
<1> QED
  BY <1>1, <1>2, <1>3, <1>4 DEF CallStep

LEMMA ChangeKeepsForm ==
  ASSUME NEW t \in [Path -> Node], WellFormed(t), NEW t2, NEW stamp,
         Changes(t, t2, stamp) \/ Relocates(t, t2)
  PROVE  WellFormed(t2)
<1>1. CASE Changes(t, t2, stamp)
  <2>1. PICK p \in Visible :
          \/ /\ CanCreate(t, p) /\ t[p] # Dir
             /\ \E d \in Content : t2 = [t EXCEPT ![p] = File(d, stamp)]
          \/ /\ CanCreate(t, p) /\ t2 = [t EXCEPT ![p] = Dir]
          \/ /\ CanRemove(t, p) /\ t2 = Without(t, p)
    BY <1>1 DEF Changes
  <2>2. p \in Entry /\ p \in Path
    BY TempsAreEntries
  <2>3. CASE /\ CanCreate(t, p) /\ t[p] # Dir
             /\ \E d \in Content : t2 = [t EXCEPT ![p] = File(d, stamp)]
    BY <2>2, <2>3, WriteKeepsForm DEF CanCreate
  <2>4. CASE CanCreate(t, p) /\ t2 = [t EXCEPT ![p] = Dir]
    BY <2>2, <2>4, MkdirKeepsForm DEF CanCreate
  <2>5. CASE CanRemove(t, p) /\ t2 = Without(t, p)
    BY <2>2, <2>5, RemoveKeepsForm, RemovableIsEmpty
  <2> QED
    BY <2>1, <2>3, <2>4, <2>5
<1>2. CASE Relocates(t, t2)
  <2>1. PICK p \in Visible :
          /\ t[p].kind \in {"file", "dir"}
          /\ t2 = [q \in Path |-> IF q = p THEN Link
                                  ELSE IF Under(q, p) THEN Absent ELSE t[q]]
    BY <1>2 DEF Relocates
  <2> SUFFICES ASSUME NEW q \in Entry, t2[q] # Absent PROVE t2[Parent(q)] = Dir
    BY DEF WellFormed
  <2>2. /\ p \in Entry /\ p \in Path /\ q \in Path
        /\ Parent(q) \in Path /\ Under(q, Parent(q)) /\ Parent(q) # q
    BY TempsAreEntries, ParentFacts
  <2>3. ~Under(q, p) /\ t[q] # Absent
    <3>1. CASE q = p
      BY <2>1, <3>1, <2>2, PathAssumption DEF Under, Absent
    <3>2. CASE q # p
      BY <2>1, <2>2, <3>2
    <3> QED
      BY <3>1, <3>2
  <2>4. t[Parent(q)] = Dir
    BY <2>3 DEF WellFormed
  <2>5. Parent(q) # p /\ ~Under(Parent(q), p)
    BY <2>2, <2>3, UnderTransitive
  <2> QED
    BY <2>1, <2>2, <2>4, <2>5
<1> QED
  BY <1>1, <1>2

LEMMA NextKeepsTree == TreesInv /\ [Next]_vars => WellFormed(fs')
<1> SUFFICES ASSUME TreesInv, [Next]_vars PROVE WellFormed(fs')
  OBVIOUS
<1>1. ASSUME NEW c \in Caller, CallStep(c) PROVE WellFormed(fs')
  BY <1>1, CallStepKeepsTree
<1>2. CASE ChangeRemote
  BY <1>2, ChangeKeepsForm
  DEF ChangeRemote, TreesInv, PathsInv, TypeInv, TypeOK, UploadTypeOK, SessionTypeOK
<1>3. CASE UNCHANGED fs
  BY <1>3 DEF TreesInv
<1> QED
  BY <1>1, <1>2, <1>3
  DEF Next, Begin, Crash, Environment, EditLocal, Tick, vars, session

LEMMA TreesInvariant == Spec => []TreesInv
<1>1. Init => TreesInv
  <2>1. Init => WellFormed(fs)
    BY InitAssumption DEF Init
  <2> QED
    BY <2>1, InitReach, InitTorn DEF TreesInv, ReachInv
<1>2. TreesInv /\ [Next]_vars => TreesInv'
  BY NextKeepsPaths, NextKeepsTorn, NextKeepsTree DEF TreesInv, PathsInv
<1> QED
  BY <1>1, <1>2, PTL DEF Spec

\* Whatever the calls and others do to the remote base, what is in it lies in
\* directories: no request is taken to do what a file system cannot.
THEOREM TreesStayTrees == Spec => []WellFormed(fs)
<1>1. TreesInv => WellFormed(fs)
  BY DEF TreesInv
<1> QED
  BY <1>1, TreesInvariant, PTL

-----------------------------------------------------------------------------
(***************************************************************************)
(* The steps of Transfer, as a relation between two trees and two jobs.    *)
(***************************************************************************)
JobRec(state, dry, uploads, deletes, landed, gone, missed) ==
  [state |-> state, dry |-> dry, uploads |-> uploads, deletes |-> deletes,
   landed |-> landed, gone |-> gone, missed |-> missed]
No == FALSE
Fresh(state, dry) == JobRec(state, dry, {}, {}, {}, {}, {})
Jobless == Fresh("idle", No)
Opened(dry) == [Jobless EXCEPT !.state = "open", !.dry = dry]
Asked(U, D) == [Jobless EXCEPT !.state = "working", !.uploads = U, !.deletes = D]
Broken == [Jobless EXCEPT !.state = "broken"]
Over(j) == [j EXCEPT !.state = "done"]
Landing(j, p) == [j EXCEPT !.landed = @ \cup {p}]
Going(j, p) == [j EXCEPT !.gone = @ \cup {p}]
Missing(j, p) == [j EXCEPT !.missed = @ \cup {p}]
Open(j) == (j.uploads \cup j.deletes) \ (j.landed \cup j.gone \cup j.missed)

MakesDir(t, t2, j, d) ==
  /\ t[d] = Absent
  /\ d # Base => CanCreate(t, d)
  /\ t2 = [t EXCEPT ![d] = Dir]
  /\ \/ d = Base /\ j.state = "open" /\ ~j.dry
     \/ \E p \in Open(j) \cap j.uploads : Under(p, d)

Turns(j, j2) ==
  \/ /\ j.state \in {"idle", "done", "broken"}
     /\ \E dry \in BOOLEAN : j2 = Opened(dry)
  \/ /\ j.state = "open" /\ j.dry
     /\ j2 = Over(j)
  \/ /\ j.state = "open" /\ ~j.dry
     /\ \E U \in SUBSET Entry : \E D \in SUBSET (Entry \ U) :
          j2 = Asked(U, D)
  \/ /\ j.state = "working" /\ Open(j) = {}
     /\ j2 = Over(j)
  \/ /\ j.state \in {"open", "working"}
     /\ j2 = Broken

Answers(t, t2, j, j2, p) ==
  \/ /\ PutAt(t, t2, p) \/ (LeadsOut(t, p) /\ t2 = t)
     /\ p \in j.uploads
     /\ j2 = Landing(j, p)
  \/ /\ ~LeadsOut(t, p) /\ DropAt(t, t2, p)
     /\ p \in j.deletes
     /\ j2 = Going(j, p)
  \/ /\ PutAt(t, t2, p) \/ DropAt(t, t2, p)
     /\ p \in j.uploads
     /\ j2 = j
  \/ /\ t2 = t \/ (p \in j.deletes /\ DropAt(t, t2, p))
     /\ j2 = Missing(j, p)

Kept(t, t2, j, j2) ==
  \/ t2 = t /\ (j2 = j \/ Turns(j, j2))
  \/ j2 = j /\ \E d \in Path : MakesDir(t, t2, j, d)
  \/ \E p \in Open(j) : Answers(t, t2, j, j2, p)

\* A new job with some of its fields given, and a job with one field changed.
LEMMA JobForms ==
  /\ Broken = Fresh("broken", No)
  /\ \A d : Opened(d) = Fresh("open", d)
  /\ \A U, D : Asked(U, D) = JobRec("working", No, U, D, {}, {}, {})
  /\ \A d : Over(Fresh("open", d)) = Fresh("done", d)
  /\ \A s, d : Fresh(s, d).state = s /\ Fresh(s, d).dry = d
<1>1. PICK j : j = Jobless
  OBVIOUS
<1>2. ASSUME NEW s PROVE [j EXCEPT !.state = s] = Fresh(s, No)
  BY <1>1 DEF Jobless, Fresh, JobRec
<1>3. Broken = Fresh("broken", No)
  BY <1>1, <1>2 DEF Broken
<1>4. ASSUME NEW d PROVE Opened(d) = Fresh("open", d)
  <2>1. PICK j1 : j1 = [j EXCEPT !.state = "open"]
    OBVIOUS
  <2>2. j1 = Fresh("open", No)
    BY <1>2, <2>1
  <2>3. [j1 EXCEPT !.dry = d] = Fresh("open", d)
    BY <2>2 DEF Fresh, JobRec
  <2>4. Opened(d) = [[Jobless EXCEPT !.state = "open"] EXCEPT !.dry = d]
    BY DEF Opened
  <2> QED
    BY <1>1, <2>1, <2>3, <2>4
<1>5. ASSUME NEW U, NEW D PROVE Asked(U, D) = JobRec("working", No, U, D, {}, {}, {})
  <2>1. PICK j1 : j1 = [j EXCEPT !.state = "working"]
    OBVIOUS
  <2>2. PICK j2 : j2 = [j1 EXCEPT !.uploads = U]
    OBVIOUS
  <2>3. Asked(U, D) = [[[Jobless EXCEPT !.state = "working"] EXCEPT !.uploads = U]
                        EXCEPT !.deletes = D]
    BY DEF Asked
  <2>4. j1 = JobRec("working", No, {}, {}, {}, {}, {})
    BY <1>2, <2>1 DEF Fresh
  <2>5. j2 = JobRec("working", No, U, {}, {}, {}, {})
    BY <2>4, <2>2 DEF JobRec
  <2>6. [j2 EXCEPT !.deletes = D] = JobRec("working", No, U, D, {}, {}, {})
    BY <2>5 DEF JobRec
  <2>7. Asked(U, D) = [j2 EXCEPT !.deletes = D]
    BY <1>1, <2>1, <2>2, <2>3
  <2> QED
    BY <2>6, <2>7
<1>6. ASSUME NEW s, NEW d PROVE Fresh(s, d).state = s /\ Fresh(s, d).dry = d
  BY DEF Fresh, JobRec
<1>7. ASSUME NEW d PROVE Over(Fresh("open", d)) = Fresh("done", d)
  <2>1. PICK j1 : j1 = Fresh("open", d)
    OBVIOUS
  <2>2. [j1 EXCEPT !.state = "done"] = Fresh("done", d)
    BY <2>1 DEF Fresh, JobRec
  <2> QED
    BY <2>1, <2>2 DEF Over
<1> QED
  BY <1>3, <1>4, <1>5, <1>6, <1>7

LEMMA AskedFields ==
  \A U, D : Asked(U, D).uploads = U /\ Asked(U, D).deletes = D
<1>1. ASSUME NEW U, NEW D
      PROVE  LET j == JobRec("working", No, U, D, {}, {}, {}) IN j.uploads = U /\ j.deletes = D
  BY DEF JobRec
<1> QED
  BY <1>1, JobForms

\* A step of that kind, of one job, is one that the promise of sync allows.
Jobs == [c \in Caller |-> Job(c)]

LEMMA PromiseTree ==
  /\ Promise!Base = Base /\ Promise!Entry = Entry
  /\ Promise!Absent = Absent /\ Promise!Dir = Dir /\ Promise!Link = Link
  /\ Promise!NoJob = Jobless
  /\ \A p, q : Promise!Under(p, q) = Under(p, q)
  /\ \A n : Promise!IsFile(n) = IsFile(n)
  /\ \A t, p : /\ Promise!CanCreate(t, p) = CanCreate(t, p)
               /\ Promise!LeadsOut(t, p) = LeadsOut(t, p)
               /\ Promise!Without(t, p) = Without(t, p)
  /\ \A j : Promise!Todo(j) = Open(j)
BY DEF Promise!Base, Base, Promise!Entry, Entry, Promise!Absent, Absent, Promise!Dir,
       Dir, Promise!Link, Link, Promise!NoJob, Jobless, Fresh, JobRec, No, Promise!Under, Under,
       Promise!IsFile, IsFile, Promise!CanCreate, CanCreate, Promise!Parent, Parent,
       Promise!LeadsOut, LeadsOut, Promise!Without, Without, Promise!Todo, Open

LEMMA BridgeTurns ==
  ASSUME NEW c \in Caller, Shown' = Shown, Turns(Job(c), Job(c)'),
         \A d \in Caller \ {c} : Job(d)' = Job(d)
  PROVE  Promise!TransferNext
<1> DEFINE j == Job(c)
           j2 == Job(c)'
<1>1. /\ Jobs[c] = j /\ Jobs' = [Jobs EXCEPT ![c] = j2] /\ Jobs'[c] = j2
  BY DEF Jobs
<1>2. CASE j.state \in {"idle", "done", "broken"} 
     /\ \E dry \in BOOLEAN : j2 = Opened(dry)
  <2>1. Promise!Start(c)
    BY <1>1, <1>2, PromiseTree DEF Promise!Start, Jobs, Promise!Replace, Opened
  <2> QED
    BY <2>1 DEF Promise!TransferNext
<1>3. CASE j.state = "open" /\ j.dry
     /\ j2 = Over(j)
  <2>1. Promise!Commit(c)
    BY <1>1, <1>3, PromiseTree DEF Promise!Commit, Jobs, Over
  <2> QED
    BY <2>1 DEF Promise!TransferNext
<1>4. CASE j.state = "open" /\ ~j.dry
     /\ \E U \in SUBSET Entry : \E D \in SUBSET (Entry \ U) :
          j2 = Asked(U, D)
  <2>1. Promise!Commit(c)
    <3>1. j2.uploads \subseteq Entry /\ j2.deletes \subseteq Entry \ j2.uploads
      BY <1>4, AskedFields
    <3>2. j2 = Asked(j2.uploads, j2.deletes)
      BY <1>4, AskedFields
    <3> QED
    BY <1>1, <1>4, <3>1, <3>2, PromiseTree DEF Promise!Commit, Jobs, Promise!Replace, Asked
  <2> QED
    BY <2>1 DEF Promise!TransferNext
<1>5. CASE j.state = "working" /\ Open(j) = {}
     /\ j2 = Over(j)
  <2>1. Promise!Finish(c)
    BY <1>1, <1>5, PromiseTree DEF Promise!Finish, Jobs, Over
  <2> QED
    BY <2>1 DEF Promise!TransferNext
<1>6. CASE j.state \in {"open", "working"}
     /\ j2 = Broken
  <2>1. Promise!Break(c)
    BY <1>1, <1>6, PromiseTree DEF Promise!Break, Jobs, Promise!Replace, Broken
  <2> QED
    BY <2>1 DEF Promise!TransferNext
<1> QED
  BY <1>2, <1>3, <1>4, <1>5, <1>6 DEF Turns

LEMMA BridgeAnswers ==
  ASSUME NEW c \in Caller, NEW p \in Open(Job(c)),
         Answers(Shown, Shown', Job(c), Job(c)', p),
         \A d \in Caller \ {c} : Job(d)' = Job(d)
  PROVE  Promise!TransferNext
<1> DEFINE j == Job(c)
           j2 == Job(c)'
<1>1. Jobs[c] = j /\ Jobs' = [Jobs EXCEPT ![c] = j2]
  BY DEF Jobs
<1>2. p \in Promise!Todo(Jobs[c])
  BY <1>1, PromiseTree
<1>3. ASSUME PutAt(Shown, Shown', p) PROVE Promise!Put(p)
  BY <1>3, PromiseTree DEF PutAt, Promise!Put
<1>4. ASSUME DropAt(Shown, Shown', p) PROVE Promise!Drop(p)
  BY <1>4, PromiseTree DEF DropAt, Promise!Drop
<1>5. CASE /\ PutAt(Shown, Shown', p) \/ (LeadsOut(Shown, p) /\ Shown' = Shown)
           /\ p \in j.uploads
           /\ j2 = Landing(j, p)
  <2>1. Promise!Land(c, p)
    BY <1>1, <1>3, <1>5, PromiseTree DEF Promise!Land, Jobs, Landing
  <2> QED
    BY <1>2, <2>1 DEF Promise!TransferNext, Jobs
<1>6. CASE /\ ~LeadsOut(Shown, p) /\ DropAt(Shown, Shown', p)
           /\ p \in j.deletes
           /\ j2 = Going(j, p)
  <2>1. Promise!Remove(c, p)
    BY <1>1, <1>4, <1>6, PromiseTree DEF Promise!Remove, Jobs, Going
  <2> QED
    BY <1>2, <2>1 DEF Promise!TransferNext, Jobs
<1>7. CASE /\ PutAt(Shown, Shown', p) \/ DropAt(Shown, Shown', p)
           /\ p \in j.uploads
           /\ j2 = j
  <2>1. Jobs' = Jobs
    BY <1>1, <1>7 DEF Jobs
  <2>2. Promise!Unheard(c, p)
    BY <1>1, <1>3, <1>4, <1>7, <2>1, PromiseTree DEF Promise!Unheard, Jobs
  <2> QED
    BY <1>2, <2>2 DEF Promise!TransferNext, Jobs
<1>8. CASE /\ Shown' = Shown \/ (p \in j.deletes /\ DropAt(Shown, Shown', p))
           /\ j2 = Missing(j, p)
  <2>1. Promise!Miss(c, p)
    BY <1>1, <1>4, <1>8, PromiseTree DEF Promise!Miss, Jobs, Missing
  <2> QED
    BY <1>2, <2>1 DEF Promise!TransferNext, Jobs
<1> QED
  BY <1>5, <1>6, <1>7, <1>8 DEF Answers

LEMMA BridgeMakesDir ==
  ASSUME NEW c \in Caller, NEW d \in Path, MakesDir(Shown, Shown', Job(c), d),
         Job(c)' = Job(c), \A e \in Caller \ {c} : Job(e)' = Job(e)
  PROVE  Promise!TransferNext
<1>1. Jobs[c] = Job(c) /\ Jobs' = Jobs
  BY DEF Jobs
<1>2. Promise!MakeDir(c, d)
  BY <1>1, PromiseTree DEF MakesDir, Promise!MakeDir, Jobs
<1> QED
  BY <1>2 DEF Promise!TransferNext

LEMMA Bridge ==
  ASSUME NEW c \in Caller, Kept(Shown, Shown', Job(c), Job(c)'),
         \A d \in Caller \ {c} : Job(d)' = Job(d)
  PROVE  [Promise!TransferNext]_<<Shown, Jobs>>
<1>1. CASE Shown' = Shown /\ Job(c)' = Job(c)
  <2>1. Jobs' = Jobs
    BY <1>1 DEF Jobs
  <2> QED
    BY <1>1, <2>1
<1> QED
  BY <1>1, BridgeTurns, BridgeAnswers, BridgeMakesDir DEF Kept

-----------------------------------------------------------------------------
(***************************************************************************)
(* The job of a call, phase by phase.                                      *)
(***************************************************************************)
MissedOf(r) == FailedAs(r, "mkdir") \cup FailedAs(r, "upload") \cup FailedAs(r, "delete")
Work(state, toDo, r) == JobRec(state, No, toDo.ToUpload, Paths(toDo.ToDelete),
                              r.uploaded, r.deleted, MissedOf(r))
Doing(toDo, r) == Work("working", toDo, r)

LEMMA JobUpdates ==
  /\ \A toDo, r : LET j == Doing(toDo, r)
                  IN  /\ j.state = "working"
                      /\ Over(j) = Work("done", toDo, r)
  /\ \A toDo, r, r2, x : LET j == Doing(toDo, r)
      IN  /\ /\ r2.uploaded = r.uploaded \cup {x} /\ r2.deleted = r.deleted
             /\ MissedOf(r2) = MissedOf(r)
             => Doing(toDo, r2) = Landing(j, x)
          /\ /\ r2.uploaded = r.uploaded /\ r2.deleted = r.deleted \cup {x}
             /\ MissedOf(r2) = MissedOf(r)
             => Doing(toDo, r2) = Going(j, x)
          /\ /\ r2.uploaded = r.uploaded /\ r2.deleted = r.deleted
             /\ MissedOf(r2) = MissedOf(r) \cup {x}
             => Doing(toDo, r2) = Missing(j, x)
<1>1. ASSUME NEW toDo, NEW r
      PROVE  /\ Doing(toDo, r).state = "working"
             /\ Over(Doing(toDo, r)) = Work("done", toDo, r)
  <2>1. PICK j : j = Doing(toDo, r)
    OBVIOUS
  <2>2. j.state = "working" /\ Over(j) = Work("done", toDo, r)
    BY <2>1 DEF Doing, Work, JobRec, Over
  <2> QED
    BY <2>1, <2>2
<1>2. ASSUME NEW toDo, NEW r, NEW r2, NEW x
      PROVE  LET j == Doing(toDo, r)
      IN  /\ /\ r2.uploaded = r.uploaded \cup {x} /\ r2.deleted = r.deleted
             /\ MissedOf(r2) = MissedOf(r)
             => Doing(toDo, r2) = Landing(j, x)
          /\ /\ r2.uploaded = r.uploaded /\ r2.deleted = r.deleted \cup {x}
             /\ MissedOf(r2) = MissedOf(r)
             => Doing(toDo, r2) = Going(j, x)
          /\ /\ r2.uploaded = r.uploaded /\ r2.deleted = r.deleted
             /\ MissedOf(r2) = MissedOf(r) \cup {x}
             => Doing(toDo, r2) = Missing(j, x)
  <2>1. PICK j : j = Doing(toDo, r)
    OBVIOUS
  <2>2. j.landed = r.uploaded /\ j.gone = r.deleted /\ j.missed = MissedOf(r)
    BY <2>1 DEF Doing, Work, JobRec
  <2>3. ASSUME r2.uploaded = r.uploaded \cup {x}, r2.deleted = r.deleted,
               MissedOf(r2) = MissedOf(r)
        PROVE  Doing(toDo, r2) = Landing(j, x)
    BY <2>1, <2>2, <2>3 DEF Doing, Work, JobRec, Landing
  <2>4. ASSUME r2.uploaded = r.uploaded, r2.deleted = r.deleted \cup {x},
               MissedOf(r2) = MissedOf(r)
        PROVE  Doing(toDo, r2) = Going(j, x)
    BY <2>1, <2>2, <2>4 DEF Doing, Work, JobRec, Going
  <2>5. ASSUME r2.uploaded = r.uploaded, r2.deleted = r.deleted,
               MissedOf(r2) = MissedOf(r) \cup {x}
        PROVE  Doing(toDo, r2) = Missing(j, x)
    BY <2>1, <2>2, <2>5 DEF Doing, Work, JobRec, Missing
  <2> QED
    BY <2>1, <2>3, <2>4, <2>5
<1> QED
  BY <1>1, <1>2

StateOf(phase) == CASE phase = "idle" -> "idle"
                    [] phase = "done" -> "done"
                    [] phase \in {"error", "crashed"} -> "broken"
                    [] phase \in Planning -> "open"
                    [] OTHER -> "working"
Alive(k) == StateOf(k.phase) \in {"open", "working", "done"}
DryOf(k) == Alive(k) /\ k.dry
IfAsked(k, S) == IF Alive(k) /\ ~k.dry THEN S ELSE {}
JobOf(k, toDo, r) ==
  JobRec(StateOf(k.phase), DryOf(k), IfAsked(k, toDo.ToUpload),
         IfAsked(k, Paths(toDo.ToDelete)), IfAsked(k, r.uploaded), IfAsked(k, r.deleted),
         IfAsked(k, MissedOf(r)))

\* Until it has a plan, a call has done nothing; a plan does not delete what it
\* uploads.
Plans(k, toDo) ==
  /\ k.phase \in Planning => toDo = EmptyPlan
  /\ toDo.ToUpload \cap Paths(toDo.ToDelete) = {}
Sound(k, toDo, r) == k \in CallRecord /\ Stops(k) /\ Plans(k, toDo) /\ Book(k, toDo, r)
MyPlan(c) == Plans(call[c], plan[c])

LEMMA JobIsOf ==
  ASSUME NEW c \in Caller
  PROVE  /\ Job(c) = JobOf(call[c], plan[c], result[c])
         /\ Job(c)' = JobOf(call'[c], plan'[c], result'[c])
<1>1. \A r : {p \in Entry : \E a \in {"mkdir", "upload", "delete"} : <<p, a>> \in r.failed}
              = MissedOf(r)
  BY DEF MissedOf, FailedAs
<1>2. Job(c) = JobOf(call[c], plan[c], result[c])
  BY <1>1 DEF Job, JobState, FailedPaths, JobOf, JobRec, DryOf, IfAsked, Alive, StateOf, Paths
<1>3. Job(c)' = JobOf(call'[c], plan'[c], result'[c])
  BY <1>1 DEF Job, JobState, FailedPaths, JobOf, JobRec, DryOf, IfAsked, Alive, StateOf, Paths
<1> QED
  BY <1>2, <1>3

LEMMA NothingDone == MissedOf(NoResult) = {} /\ Paths({}) = {}
BY DEF MissedOf, FailedAs, NoResult, Paths

LEMMA JobPhases ==
  ASSUME NEW k, NEW toDo, NEW r, Sound(k, toDo, r)
  PROVE  LET j == JobOf(k, toDo, r)
         IN  /\ k.phase \in Planning => j = Fresh("open", k.dry)
             /\ k.phase \in {"error", "crashed"} => j = Fresh("broken", No)
             /\ k.phase \in Applies => j = Doing(toDo, r)
             /\ k.phase = "done" /\ ~k.dry => j = Work("done", toDo, r)
             /\ k.phase = "done" /\ k.dry => j = Fresh("done", k.dry)
             /\ k.phase = "idle" => j = Jobless
<1>1. k.dry \in BOOLEAN
  BY DEF Sound, CallRecord
<1>2. ASSUME Alive(k) PROVE DryOf(k) = k.dry
  BY <1>1, <1>2 DEF DryOf
<1>3. ASSUME ~Alive(k) PROVE DryOf(k) = No
  BY <1>1, <1>3 DEF DryOf, No
<1>4. ASSUME ~k.dry PROVE k.dry = No
  BY <1>1, <1>4 DEF No
<1>5. /\ \A S : Alive(k) /\ ~k.dry => IfAsked(k, S) = S
      /\ \A S : ~Alive(k) \/ k.dry => IfAsked(k, S) = {}
  BY DEF IfAsked
<1>6. CASE k.phase \in Planning
  <2>1. StateOf(k.phase) = "open" /\ k.phase \notin Applies \cup {"error", "crashed", "done", "idle"}
    BY <1>6 DEF StateOf, Planning, Applies
  <2>2. toDo = EmptyPlan /\ r = NoResult
    BY <1>6 DEF Sound, Plans, Book
  <2>3. /\ toDo.ToUpload = {} /\ Paths(toDo.ToDelete) = {} /\ r.uploaded = {}
        /\ r.deleted = {} /\ MissedOf(r) = {}
    BY <2>2, NothingDone DEF EmptyPlan, NoResult
  <2>4. Alive(k)
    BY <2>1 DEF Alive
  <2>5. IfAsked(k, {}) = {}
    BY DEF IfAsked
  <2>6. JobOf(k, toDo, r) = Fresh("open", k.dry)
    BY <1>2, <2>1, <2>3, <2>4, <2>5 DEF JobOf, Fresh
  <2> QED
    BY <2>1, <2>6
<1>7. CASE k.phase \in {"error", "crashed", "idle"}
  <2>1. /\ k.phase \notin Applies \cup Planning \cup {"done"}
        /\ k.phase = "idle" => StateOf(k.phase) = "idle"
        /\ k.phase # "idle" => StateOf(k.phase) = "broken"
    BY <1>7 DEF StateOf, Planning, Applies
  <2>2. ~Alive(k)
    BY <2>1 DEF Alive
  <2>3. JobOf(k, toDo, r) = Fresh(StateOf(k.phase), No)
    BY <1>3, <1>5, <2>2 DEF JobOf, Fresh
  <2> QED
    BY <2>1, <2>3 DEF Jobless
<1>8. CASE k.phase \in Applies
  <2>1. StateOf(k.phase) = "working" /\ k.phase \notin Planning \cup {"error", "crashed", "done", "idle"}
    BY <1>8 DEF StateOf, Planning, Applies
  <2>2. ~k.dry /\ Alive(k)
    BY <1>8, <2>1 DEF Sound, Stops, Alive
  <2>3. JobOf(k, toDo, r) = Doing(toDo, r)
    BY <1>2, <1>4, <1>5, <2>1, <2>2 DEF JobOf, Doing, Work
  <2> QED
    BY <2>1, <2>3
<1>9. CASE k.phase = "done"
  <2>1. /\ StateOf(k.phase) = "done"
        /\ k.phase \notin Planning \cup Applies \cup {"error", "crashed", "idle"}
    BY <1>9 DEF StateOf, Planning, Applies
  <2>2. Alive(k)
    BY <2>1 DEF Alive
  <2>3. CASE k.dry
    <3>1. JobOf(k, toDo, r) = Fresh("done", k.dry)
      BY <1>2, <1>5, <2>1, <2>2, <2>3 DEF JobOf, Fresh
    <3> QED
      BY <2>1, <2>3, <3>1
  <2>4. CASE ~k.dry
    <3>1. JobOf(k, toDo, r) = Work("done", toDo, r)
      BY <1>2, <1>4, <1>5, <2>1, <2>2, <2>4 DEF JobOf, Work
    <3> QED
      BY <2>1, <2>4, <3>1
  <2> QED
    BY <2>3, <2>4
<1>10. k.phase \in Planning \cup {"error", "crashed", "idle"} \cup Applies \cup {"done"}
  BY DEF Sound, CallRecord, Active, Ended, Planning, Applies
<1> QED
  BY <1>6, <1>7, <1>8, <1>9, <1>10

LEMMA PlanIsGood ==
  ASSUME TypeInv, NEW k \in CallRecord
  PROVE  LET p == BuildPlan(local, k.listing, rules)
         IN  p.ToUpload \cap Paths(p.ToDelete) = {}
<1>1. local \in [Path -> Node] /\ k.listing \in [Path -> Node] /\ rules \in Rules
  BY DEF TypeInv, TypeOK, UploadTypeOK, SessionTypeOK, CallRecord
<1> QED
  BY <1>1, UploadsAndDeletesDisjoint DEF Paths

\* Where the steps of Apply go on.
LEMMA FailGoesOn ==
  ASSUME call \in [Caller -> CallRecord], NEW c \in Caller, NEW action, Fail(c, action)
  PROVE  call'[c] = [call[c] EXCEPT !.phase = "next"] /\ call'[c].phase = "next"
BY DEF Fail, Goto, CallRecord

LEMMA NextEntryGoesOn ==
  ASSUME call \in [Caller -> CallRecord], NEW c \in Caller, NextEntry(c)
  PROVE  \/ \E p \in call[c].uploads : /\ call'[c].cur = p
                                     /\ call'[c].phase \in {"mkdir", "upload"}
         \/ call'[c].phase = "check"
         \/ /\ call[c].uploads = {} /\ call[c].deletes = {}
            /\ call'[c] = [call[c] EXCEPT !.phase = "done"] /\ call'[c].phase = "done"
<1> DEFINE k == call[c]
<1>0. k \in CallRecord
  OBVIOUS
<1>1. CASE \E p \in k.uploads : call' = [call EXCEPT ![c] =
                   [k EXCEPT !.uploads = @ \ {p}, !.cur = p,
                             !.phase = IF Parent(p) \in k.made THEN "upload"
                                       ELSE "mkdir"]]
  <2>1. PICK p \in k.uploads : call' = [call EXCEPT ![c] =
                   [k EXCEPT !.uploads = @ \ {p}, !.cur = p,
                             !.phase = IF Parent(p) \in k.made THEN "upload"
                                       ELSE "mkdir"]]
    BY <1>1
  <2>2. call'[c].cur = p /\ call'[c].phase \in {"mkdir", "upload"}
    BY <1>0, <2>1 DEF CallRecord
  <2> QED
    BY <2>2
<1>2. CASE \E d \in k.deletes : call' = [call EXCEPT ![c] =
                   [k EXCEPT !.deletes = @ \ {d}, !.cur = d.path,
                             !.isDir = d.isDir, !.phase = "check"]]
  BY <1>0, <1>2 DEF CallRecord
<1>3. CASE k.uploads = {} /\ k.deletes = {} /\ Goto(c, "done")
  BY <1>0, <1>3 DEF Goto, CallRecord
<1> QED
  BY <1>1, <1>2, <1>3 DEF NextEntry, DeletableNow

LEMMA BodyGoesOn ==
  ASSUME call \in [Caller -> CallRecord], NEW c \in Caller,
         MakeParents(c) \/ UploadEntry(c) \/ CheckDelete(c) \/ RemoveEntry(c)
  PROVE  /\ call'[c].phase \in {"mkdir", "upload", "next", "remove"}
         /\ call'[c].phase = "mkdir" => call[c].phase = "mkdir" /\ call'[c].cur = call[c].cur
<1>0. call[c] \in CallRecord
  OBVIOUS
<1>1. ASSUME NEW next \in {"upload", "next", "remove"}, Goto(c, next)
      PROVE  call'[c].phase = next
  BY <1>0, <1>1 DEF Goto, CallRecord
<1>2. CASE MakeParents(c)
  <2>1. CASE call' = [call EXCEPT ![c].phase = "upload",
                                  ![c].made = @ \cup {Parent(call[c].cur)}]
    <3>1. call'[c].phase = "upload"
      BY <1>0, <2>1 DEF CallRecord
    <3> QED
      BY <3>1
  <2>2. CASE Fail(c, "mkdir")
    BY <2>2, FailGoesOn
  <2>3. CASE UNCHANGED call
    BY <1>2, <2>3 DEF MakeParents
  <2> QED
    BY <1>2, <2>1, <2>2, <2>3 DEF MakeParents
<1>3. CASE UploadEntry(c)
  <2>1. Goto(c, "next") \/ Fail(c, "upload") \/ UNCHANGED call
    BY <1>3 DEF UploadEntry
  <2>2. call[c].phase = "upload"
    BY <1>3 DEF UploadEntry
  <2> QED
    BY <1>1, <2>1, <2>2, FailGoesOn
<1>4. CASE CheckDelete(c) \/ RemoveEntry(c)
  <2>1. Goto(c, "next") \/ Goto(c, "remove") \/ Fail(c, "delete")
    BY <1>4 DEF CheckDelete, RemoveEntry
  <2> QED
    BY <1>1, <2>1, FailGoesOn
<1> QED
  BY <1>2, <1>3, <1>4

LEMMA CallStepKeepsPlan ==
  ASSUME TypeInv, NEW c \in Caller, MyPlan(c), CallStep(c)
  PROVE  MyPlan(c)'
<1> DEFINE k == call[c]
<1>1. call \in [Caller -> CallRecord] /\ plan \in [Caller -> PlanRecord] /\ k \in CallRecord
  BY DEF TypeInv, TypeOK
<1>2. CASE Plan(c)
  <2> DEFINE p == BuildPlan(local, k.listing, rules)
  <2>1. plan'[c] = p /\ call'[c] = Planned(k, p)
    BY <1>1, <1>2 DEF Plan
  <2>2. call'[c].phase \in {"done", "next"}
    BY <1>1, <2>1 DEF Planned, Applying, CallRecord
  <2> HIDE DEF p
  <2> QED
    BY <1>1, <2>1, <2>2, PlanIsGood DEF p, MyPlan, Plans, Planning
<1>3. CASE UNCHANGED plan /\ (call'[c].phase \in Planning => k.phase \in Planning)
  BY <1>3 DEF MyPlan, Plans
<1>4. CASE StatBase(c) \/ MakeBase(c) \/ ResolveBase(c) \/ List(c) \/ PlanFails(c)
  <2>1. k.phase \in Planning
    BY <1>4 DEF StatBase, MakeBase, ResolveBase, List, PlanFails, Planning
  <2>2. UNCHANGED plan
    BY <1>4 DEF StatBase, MakeBase, ResolveBase, List, PlanFails
  <2> QED
    BY <1>3, <2>1, <2>2
<1>5. CASE NextEntry(c)
  <2>1. call'[c].phase \notin Planning
    BY <1>1, <1>5, NextEntryGoesOn DEF Planning
  <2> QED
    BY <1>3, <1>5, <2>1 DEF NextEntry
<1>6. CASE MakeParents(c) \/ UploadEntry(c) \/ CheckDelete(c) \/ RemoveEntry(c)
  <2>1. call'[c].phase \notin Planning
    BY <1>1, <1>6, BodyGoesOn DEF Planning
  <2> QED
    BY <1>3, <1>6, <2>1 DEF MakeParents, UploadEntry, CheckDelete, RemoveEntry
<1> QED
  BY <1>2, <1>4, <1>5, <1>6 DEF CallStep

\* What the MkdirAll of a call makes its way to.
Targets(c) ==
  mk[c].at \in MkdirStages =>
    /\ call[c].phase = "mkbase" => mk[c].target = Base
    /\ call[c].phase = "mkdir" => mk[c].target = Parent(call[c].cur)

LEMMA CallStepKeepsTargets ==
  ASSUME TypeInv, NEW c \in Caller, Targets(c), CallStep(c)
  PROVE  Targets(c)'
<1> DEFINE k == call[c]
<1>1. /\ call \in [Caller -> CallRecord] /\ k \in CallRecord /\ MkdirTypeOK
      /\ mk \in [Caller -> MkdirRecord]
  BY DEF TypeInv, TypeOK, MkdirTypeOK
<1>2. CASE StatBase(c)
  <2>1. \/ call'[c].phase \in {"error", "realpath", "plan"}
        \/ mk'[c] = MkdirAt("stat", Base, Base) /\ call'[c].phase = "mkbase"
    BY <1>1, <1>2 DEF StatBase, Goto, CallRecord
  <2> QED
    BY <2>1 DEF Targets, MkdirAt
<1>3. CASE MakeBase(c)
  <2>1. call'[c].phase # "mkdir" /\ (call'[c].phase = "mkbase" => k.phase = "mkbase")
    BY <1>1, <1>3 DEF MakeBase, Goto, CallRecord
  <2> QED
    BY <1>1, <1>3, <2>1, MkdirKeepsTarget DEF Targets, MakeBase
<1>4. CASE NextEntry(c)
  <2>1. CASE \E p \in k.uploads :
               /\ call' = [call EXCEPT ![c] =
                    [k EXCEPT !.uploads = @ \ {p}, !.cur = p,
                              !.phase = IF Parent(p) \in k.made THEN "upload"
                                        ELSE "mkdir"]]
               /\ mk' = [mk EXCEPT ![c] = MkdirAt("stat", Parent(p), Parent(p))]
    <3>1. PICK p \in k.uploads :
               /\ call' = [call EXCEPT ![c] =
                    [k EXCEPT !.uploads = @ \ {p}, !.cur = p,
                              !.phase = IF Parent(p) \in k.made THEN "upload"
                                        ELSE "mkdir"]]
               /\ mk' = [mk EXCEPT ![c] = MkdirAt("stat", Parent(p), Parent(p))]
      BY <2>1
    <3>2. call'[c].cur = p /\ call'[c].phase \in {"upload", "mkdir"}
      BY <1>1, <3>1 DEF CallRecord
    <3>3. mk'[c].target = Parent(p)
      BY <1>1, <3>1 DEF MkdirAt
    <3> QED
      BY <3>2, <3>3 DEF Targets
  <2>2. CASE call'[c].phase \in {"check", "done"}
    BY <2>2 DEF Targets
  <2>3. CASE \E d \in k.deletes : call' = [call EXCEPT ![c] =
                   [k EXCEPT !.deletes = @ \ {d}, !.cur = d.path,
                             !.isDir = d.isDir, !.phase = "check"]]
    <3>1. call'[c].phase = "check"
      BY <1>1, <2>3 DEF CallRecord
    <3> QED
      BY <2>2, <3>1
  <2>4. CASE Goto(c, "done")
    <3>1. call'[c].phase = "done"
      BY <1>1, <2>4 DEF Goto, CallRecord
    <3> QED
      BY <2>2, <3>1
  <2> QED
    BY <1>4, <2>1, <2>3, <2>4 DEF NextEntry, DeletableNow
<1>5. CASE MakeParents(c)
  <2>1. /\ call'[c].phase # "mkbase"
        /\ call'[c].phase = "mkdir" => k.phase = "mkdir" /\ call'[c].cur = k.cur
    BY <1>1, <1>5, BodyGoesOn
  <2> QED
    BY <1>1, <1>5, <2>1, MkdirKeepsTarget DEF Targets, MakeParents
<1>6. CASE UploadEntry(c) \/ CheckDelete(c) \/ RemoveEntry(c)
  <2>1. call'[c].phase \notin {"mkbase", "mkdir"}
    BY <1>1, <1>6, BodyGoesOn DEF UploadEntry, CheckDelete, RemoveEntry
  <2> QED
    BY <2>1 DEF Targets
<1>7. CASE ResolveBase(c) \/ List(c) \/ Plan(c) \/ PlanFails(c)
  <2>1. call'[c].phase \notin {"mkbase", "mkdir"}
    <3>1. CASE ResolveBase(c)
      <4>1. PICK ok \in BOOLEAN :
              call' = IF ok THEN [call EXCEPT ![c].phase = "list", ![c].todo = {Base}]
                            ELSE [call EXCEPT ![c].phase = "error"]
        BY <3>1 DEF ResolveBase
      <4>2. call'[c].phase \in {"list", "error"}
        BY <1>1, <4>1 DEF CallRecord
      <4> QED
        BY <4>2
    <3>2. CASE List(c)
      BY <3>2, ListGoesOn
    <3>3. CASE Plan(c)
      <4>1. call'[c] = Planned(k, BuildPlan(local, k.listing, rules))
        BY <1>1, <3>3 DEF Plan
      <4>2. call'[c].phase \in {"done", "next"}
        BY <1>1, <4>1 DEF Planned, Applying, CallRecord
      <4> QED
        BY <4>2
    <3>4. CASE PlanFails(c)
      BY <1>1, <3>4 DEF PlanFails, Goto, CallRecord
    <3> QED
      BY <1>7, <3>1, <3>2, <3>3, <3>4
  <2> QED
    BY <2>1 DEF Targets
<1> QED
  BY <1>2, <1>3, <1>4, <1>5, <1>6, <1>7 DEF CallStep

LEMMA BeginAndCrashStartAnew ==
  ASSUME TypeInv, NEW c \in Caller, Crash(c) \/ \E dry \in BOOLEAN : Begin(c, dry)
  PROVE  /\ Targets(c)' /\ fs' = fs
         /\ MyPlan(c) => MyPlan(c)'
<1>1. /\ call \in [Caller -> CallRecord] /\ mk \in [Caller -> MkdirRecord]
      /\ plan \in [Caller -> PlanRecord]
  BY DEF TypeInv, TypeOK, MkdirTypeOK
<1>2. mk'[c] = MkdirIdle /\ fs' = fs
  BY <1>1 DEF Begin, Crash, session
<1>3. CASE Crash(c)
  <2>1. call'[c].phase = "crashed" /\ plan' = plan
    BY <1>1, <1>3 DEF Crash, Idle
  <2> QED
    BY <1>2, <2>1 DEF Targets, MkdirIdle, MkdirStages, MyPlan, Plans, Planning
<1>4. CASE \E dry \in BOOLEAN : Begin(c, dry)
  <2>1. plan'[c] = EmptyPlan
    BY <1>1, <1>4 DEF Begin
  <2> QED
    BY <1>2, <2>1 DEF Targets, MkdirIdle, MkdirStages, MyPlan, Plans, EmptyPlan, Paths
<1> QED
  BY <1>3, <1>4

-----------------------------------------------------------------------------
(***************************************************************************)
(* Every step of a call is one that Transfer has.                          *)
(***************************************************************************)
Ready(c) == Stops(call[c]) /\ MyPlan(c) /\ MyBook(c) /\ Aim(c) /\ Targets(c)

LEMMA CallStepKeepsReady ==
  ASSUME TypeInv, NEW c \in Caller, Ready(c), CallStep(c)
  PROVE  Ready(c)'
BY CallStepStops, CallStepKeepsPlan, CallStepKeepsBook, CallStepKeepsAim,
   CallStepKeepsTargets DEF Ready

LEMMA ReadyIsSound ==
  ASSUME TypeInv, TypeInv', NEW c \in Caller, Ready(c), Ready(c)'
  PROVE  /\ Sound(call[c], plan[c], result[c])
         /\ Sound(call'[c], plan'[c], result'[c])
<1>1. call[c] \in CallRecord /\ call'[c] \in CallRecord
  BY DEF TypeInv, TypeOK
<1> QED
  BY <1>1 DEF Sound, Ready, MyPlan, MyBook

LEMMA JobReports ==
  ASSUME NEW toDo, NEW r \in ResultRecord, NEW p \in Entry, NEW r2
  PROVE  /\ r2 = [r EXCEPT !.uploaded = @ \cup {p}]
              => Doing(toDo, r2) = Landing(Doing(toDo, r), p)
         /\ r2 = [r EXCEPT !.deleted = @ \cup {p}]
              => Doing(toDo, r2) = Going(Doing(toDo, r), p)
         /\ \A a \in {"mkdir", "upload", "delete"} :
              r2 = [r EXCEPT !.failed = @ \cup {<<p, a>>}]
                => Doing(toDo, r2) = Missing(Doing(toDo, r), p)
<1>1. ASSUME r2 = [r EXCEPT !.uploaded = @ \cup {p}]
      PROVE  Doing(toDo, r2) = Landing(Doing(toDo, r), p)
  <2>1. r2.uploaded = r.uploaded \cup {p} /\ r2.deleted = r.deleted /\ MissedOf(r2) = MissedOf(r)
    BY <1>1 DEF MissedOf, FailedAs, ResultRecord
  <2> QED
    BY <2>1, JobUpdates
<1>2. ASSUME r2 = [r EXCEPT !.deleted = @ \cup {p}]
      PROVE  Doing(toDo, r2) = Going(Doing(toDo, r), p)
  <2>1. r2.uploaded = r.uploaded /\ r2.deleted = r.deleted \cup {p} /\ MissedOf(r2) = MissedOf(r)
    BY <1>2 DEF MissedOf, FailedAs, ResultRecord
  <2> QED
    BY <2>1, JobUpdates
<1>3. ASSUME NEW a \in {"mkdir", "upload", "delete"}, r2 = [r EXCEPT !.failed = @ \cup {<<p, a>>}]
      PROVE  Doing(toDo, r2) = Missing(Doing(toDo, r), p)
  <2>1. r2.uploaded = r.uploaded /\ r2.deleted = r.deleted /\ MissedOf(r2) = MissedOf(r) \cup {p}
    BY <1>3 DEF MissedOf, FailedAs, ResultRecord
  <2> QED
    BY <2>1, JobUpdates
<1> QED
  BY <1>1, <1>2, <1>3

\* The entry in hand is still to be reported, and at the end none is.
LEMMA InHandIsOpen ==
  ASSUME NEW k \in CallRecord, NEW toDo \in PlanRecord, NEW r \in ResultRecord,
         Balanced(k, toDo, r), Plans(k, toDo)
  PROVE  LET j == Doing(toDo, r)
         IN  /\ k.phase \in {"mkdir", "upload"} => k.cur \in Open(j) \cap j.uploads
             /\ k.phase \in {"check", "remove"} => k.cur \in Open(j) \cap j.deletes
             /\ k.phase = "next" /\ k.uploads = {} /\ k.deletes = {} => Open(j) = {}
<1> DEFINE U == toDo.ToUpload
           D == Paths(toDo.ToDelete)
           badM == FailedAs(r, "mkdir")
           badU == FailedAs(r, "upload")
           badD == FailedAs(r, "delete")
           handU == Hand(k, {"mkdir", "upload"})
           handD == Hand(k, {"check", "remove"})
<1>1. /\ Split(U, k.uploads, handU, r.uploaded, badM, badU)
      /\ Split(D, Paths(k.deletes), handD, r.deleted, badD, {})
      /\ U \cap D = {}
  BY DEF Balanced, Plans
<1>2. /\ k.phase \in {"mkdir", "upload"} => handU = {k.cur}
      /\ k.phase \in {"check", "remove"} => handD = {k.cur}
      /\ k.phase = "next" => handU = {} /\ handD = {}
      /\ k.deletes = {} => Paths(k.deletes) = {}
  BY DEF Hand, Paths
<1>3. \A x : x \in Open(Doing(toDo, r)) <=>
              (x \in U \/ x \in D) /\ ~(\/ x \in r.uploaded \/ x \in r.deleted \/ x \in badM
                                      \/ x \in badU \/ x \in badD)
  BY DEF Open, Doing, Work, JobRec, MissedOf
<1>4. Doing(toDo, r).uploads = U /\ Doing(toDo, r).deletes = D
  BY DEF Doing, Work, JobRec
<1> HIDE DEF U, D, badM, badU, badD, handU, handD
<1> QED
  BY <1>1, <1>2, <1>3, <1>4 DEF Split

\* A failure is reported, whether or not the last request was carried out.
LEMMA FailKept ==
  ASSUME TypeInv, TypeInv', NEW c \in Caller, Ready(c), Ready(c)', UNCHANGED plan,
         NEW action \in {"mkdir", "upload", "delete"}, Fail(c, action),
         call[c].phase \in {"mkdir", "upload", "check", "remove"},
         \/ Shown' = Shown
         \/ call[c].phase = "remove" /\ DropAt(Shown, Shown', call[c].cur)
  PROVE  Kept(Shown, Shown', Job(c), Job(c)')
<1> DEFINE k == call[c]
           j == Doing(plan[c], result[c])
<1>1. /\ k \in CallRecord /\ plan[c] \in PlanRecord /\ result[c] \in ResultRecord
      /\ call \in [Caller -> CallRecord] /\ result \in [Caller -> ResultRecord]
      /\ k.cur \in Entry
  BY TempsAreEntries DEF TypeInv, TypeOK, CurrentEntry
<1>2. Balanced(k, plan[c], result[c]) /\ Plans(k, plan[c])
  BY DEF Ready, MyBook, Book, MyPlan, Applies
<1>3. k.cur \in Open(j) /\ (k.phase = "remove" => k.cur \in j.deletes)
  BY <1>1, <1>2, InHandIsOpen
<1>4. Job(c) = j
  BY <1>1, JobIsOf, ReadyIsSound, JobPhases DEF Applies
<1>5. /\ call'[c] = [k EXCEPT !.phase = "next"] /\ call'[c] \in CallRecord
      /\ result'[c] = [result[c] EXCEPT !.failed = @ \cup {<<k.cur, action>>}]
  BY <1>1 DEF Fail, Goto, TypeInv, TypeOK
<1>6. Job(c)' = Doing(plan[c], result'[c])
  BY <1>1, <1>5, JobIsOf, ReadyIsSound, JobPhases DEF Applies, CallRecord
<1>7. Job(c)' = Missing(j, k.cur)
  <2>1. Doing(plan[c], result'[c]) = Missing(Doing(plan[c], result[c]), k.cur)
    BY <1>1, <1>5, JobReports
  <2> QED
    BY <1>6, <2>1
<1> HIDE DEF j
<1> QED
  BY <1>3, <1>4, <1>7 DEF Kept, Answers

\* While a call finds out what it is asked for, its job is open: it goes on
\* being that, or the call fails as a whole.
LEMMA PlanningKept ==
  ASSUME TypeInv, TypeInv', NEW c \in Caller, Ready(c), Ready(c)',
         call[c].phase \in Planning, Shown' = Shown,
         \/ /\ call'[c].phase \in Planning /\ call'[c].dry = call[c].dry
         \/ call'[c].phase = "error"
  PROVE  Kept(Shown, Shown', Job(c), Job(c)')
<1>1. call[c] \in CallRecord /\ call'[c] \in CallRecord
  BY DEF TypeInv, TypeOK
<1>2. Job(c) = Fresh("open", call[c].dry)
  BY <1>1, JobIsOf, ReadyIsSound, JobPhases
<1>3. CASE call'[c].phase \in Planning /\ call'[c].dry = call[c].dry
  <2>1. Job(c)' = Job(c)
    BY <1>1, <1>2, <1>3, JobIsOf, ReadyIsSound, JobPhases
  <2> QED
    BY <2>1 DEF Kept
<1>4. CASE call'[c].phase = "error"
  <2>1. Job(c)' = Broken
    BY <1>1, <1>4, JobIsOf, ReadyIsSound, JobPhases, JobForms
  <2>2. Job(c).state = "open"
    BY <1>2, JobForms
  <2> QED
    BY <2>1, <2>2 DEF Kept, Turns
<1> QED
  BY <1>3, <1>4

\* The directories that MkdirAll makes on the way to a file lie above it, and on
\* the way to the base there is the base.
LEMMA OnTheWayUp ==
  ASSUME NEW p \in Entry, NEW d \in Path, OnTheWay(d, Parent(p))
  PROVE  Under(p, d)
<1>1. /\ p \in Path /\ Parent(p) \in Path /\ Under(p, Parent(p))
      /\ Len(p) \in Nat /\ Len(Parent(p)) = Len(p) - 1
  BY ParentFacts DEF Entry
<1>2. PICK n \in 0 .. Len(Parent(p)) : d = SubSeq(Parent(p), 1, n)
  BY DEF OnTheWay
<1>3. Len(d) = n /\ Parent(p) \in Seq(STRING)
  BY <1>1, <1>2, PathPrefix, PathAssumption
<1>4. \A i \in 1 .. n : d[i] = Parent(p)[i]
  BY <1>2, <1>3
<1>5. \A i \in 1 .. Len(Parent(p)) : p[i] = Parent(p)[i]
  BY <1>1 DEF Under
<1>6. Len(d) < Len(p) /\ \A i \in 1 .. Len(d) : p[i] = d[i]
  BY <1>1, <1>2, <1>3, <1>4, <1>5
<1> QED
  BY <1>6 DEF Under

LEMMA OnTheWayToBase ==
  ASSUME NEW d, OnTheWay(d, Base)
  PROVE  d = Base
<1>1. PICK n \in 0 .. Len(Base) : d = SubSeq(Base, 1, n)
  BY DEF OnTheWay
<1>2. Base \in Path /\ Len(Base) = 0
  BY PathAssumption DEF Base
<1>3. Len(d) = 0 /\ d \in Path
  BY <1>1, <1>2, PathPrefix
<1> QED
  BY <1>3, PathAssumption DEF Base

\* A directory that is made is seen, where nothing was.
LEMMA DirSeen ==
  ASSUME fs \in [Path -> Node], NEW d \in Path, d \notin Temps,
         CanMkdir(d), fs' = [fs EXCEPT ![d] = Dir]
  PROVE  /\ Shown' = [Shown EXCEPT ![d] = Dir] /\ Shown[d] = Absent
         /\ d # Base => CanCreate(Shown, d)
<1>1. d # Base => Parent(d) \in Path /\ Parent(d) \notin Temps
  BY ParentFacts, ParentIsNoTemp DEF Entry
<1>2. fs[d] = Absent /\ (d # Base => fs[Parent(d)] = Dir)
  BY DEF CanMkdir, CanCreate
<1>3. Show(fs)[d] = Absent /\ (d # Base => Show(fs)[Parent(d)] = Dir)
  BY <1>1, <1>2 DEF Show
<1>4. Show(fs') = [Show(fs) EXCEPT ![d] = Dir]
  BY DEF Show
<1> QED
  BY <1>3, <1>4, ShownIsShow DEF CanCreate

\* What can be seen of an upload to p: nothing, or p comes or goes; it is there when
\* the upload is done, unless behind a link, and a failed one ends with no change.
LEMMA UploadSeen ==
  ASSUME TreesInv, NEW c \in Caller, NEW src, NEW p \in Visible,
         \/ UploadStart(c, src, p)
         \/ UploadStep(c) /\ up[c].dst = p
  PROVE  /\ \/ Shown' = Shown
            \/ PutAt(Shown, Shown', p)
            \/ DropAt(Shown, Shown', p)
         /\ up'[c].at = "done" => \/ PutAt(Shown, Shown', p)
                                  \/ LeadsOut(Shown, p) /\ Shown' = Shown
         /\ up'[c].at = "failed" => Shown' = Shown
<1>1. CASE UploadStart(c, src, p)
  <2>1. Shown' = Shown
    BY <1>1, StartKeepsTree, ShownIsShow
  <2>2. up'[c].at # "done"
    BY <1>1, UploadStartAims DEF TreesInv, PathsInv, TypeInv, TypeOK
  <2> QED
    BY <2>1, <2>2
<1>2. CASE UploadStep(c) /\ up[c].dst = p
  <2>1. /\ \/ Show(fs') = Show(fs)
           \/ PutAt(Show(fs), Show(fs'), up[c].dst)
           \/ DropAt(Show(fs), Show(fs'), up[c].dst)
        /\ up'[c].at = "done" =>
             \/ PutAt(Show(fs), Show(fs'), up[c].dst)
             \/ LeadsOut(Show(fs), up[c].dst) /\ Show(fs') = Show(fs)
        /\ up'[c].at = "failed" => Show(fs') = Show(fs)
    BY <1>2, UploadKeepsTree
  <2> QED
    BY <1>2, <2>1, ShownIsShow
<1> QED
  BY <1>1, <1>2

LEMMA MakeBaseKept ==
  ASSUME TreesInv, TypeInv', NEW c \in Caller, Ready(c), Ready(c)', MakeBase(c)
  PROVE  Kept(Shown, Shown', Job(c), Job(c)')
<1> DEFINE d == mk[c].dir
<1>1. /\ TypeInv /\ fs \in [Path -> Node] /\ WellFormed(fs) /\ OffTemps(c)
      /\ MkdirTypeOK /\ mk \in [Caller -> MkdirRecord]
      /\ call \in [Caller -> CallRecord] /\ call[c].phase = "mkbase"
      /\ call[c] \in CallRecord /\ call'[c] \in CallRecord
  BY DEF TreesInv, PathsInv, MkdirOffTemps, TypeInv, TypeOK, MkdirTypeOK, UploadTypeOK,
     SessionTypeOK, MakeBase
<1>2. CASE fs' = fs
  <2>1. \/ call'[c].phase \in Planning /\ call'[c].dry = call[c].dry
        \/ call'[c].phase = "error"
    BY <1>1 DEF MakeBase, Goto, CallRecord, Planning
  <2>2. Shown' = Shown
    BY <1>2, ShownIsShow
  <2> QED
    BY <1>1, <2>1, <2>2, PlanningKept DEF Planning
<1>3. CASE /\ mk[c].at \in MkdirStages
           /\ CanMkdir(d) /\ fs' = [fs EXCEPT ![d] = Dir]
           /\ \E at \in MkdirStages : mk' = [mk EXCEPT ![c].at = at]
  <2>1. d = Base
    BY <1>1, <1>3, OnTheWayToBase DEF Ready, Targets, TypeInv, MkdirOnTheWay
  <2>2. Shown' = [Shown EXCEPT ![Base] = Dir] /\ Shown[Base] = Absent
    BY <1>1, <1>3, <2>1, DirSeen, PathAssumption, TempsAreEntries DEF Entry
  <2>3. call'[c] = call[c] /\ plan'[c] = plan[c] /\ result'[c] = result[c]
    <3>1. mk'[c].at \in MkdirStages
      BY <1>1, <1>3, MkdirFields DEF MkdirAt
    <3> QED
      BY <3>1 DEF MakeBase, MkdirStages
  <2>4. Job(c).state = "open" /\ ~Job(c).dry
    BY <1>1, JobIsOf, ReadyIsSound, JobPhases, JobForms DEF Planning, Ready, Stops, CallRecord
  <2>5. Job(c)' = Job(c)
    BY <1>1, <2>3, JobIsOf
  <2>6. MakesDir(Shown, Shown', Job(c), Base)
    BY <2>2, <2>4 DEF MakesDir
  <2> QED
    BY <2>5, <2>6, PathAssumption DEF Kept
<1> QED
  BY <1>2, <1>3, MkdirMakes DEF MakeBase

LEMMA PlanKept ==
  ASSUME TypeInv, TypeInv', NEW c \in Caller, Ready(c), Ready(c)', Plan(c)
  PROVE  Kept(Shown, Shown', Job(c), Job(c)')
<1> DEFINE k == call[c]
           p == BuildPlan(local, k.listing, rules)
           U == p.ToUpload
           D == Paths(p.ToDelete)
<1>1. /\ k \in CallRecord /\ call'[c] \in CallRecord /\ k.phase = "plan"
      /\ call \in [Caller -> CallRecord] /\ plan \in [Caller -> PlanRecord]
      /\ plan'[c] \in PlanRecord
  BY DEF TypeInv, TypeOK, Plan
<1>2. /\ plan'[c] = p /\ call'[c] = Planned(k, p) /\ result'[c] = result[c] /\ fs' = fs
  BY <1>1 DEF Plan, session
<1>3. result[c] = NoResult
  BY <1>1 DEF Ready, MyBook, Book, Planning
<1>4. Shown' = Shown
  BY <1>2, ShownIsShow
<1>5. Job(c) = Fresh("open", k.dry) /\ Job(c).state = "open" /\ Job(c).dry = k.dry
  BY <1>1, JobIsOf, ReadyIsSound, JobPhases, JobForms DEF Planning
<1> HIDE DEF p
<1>6. CASE k.dry
  <2>1. call'[c].phase = "done" /\ call'[c].dry
    BY <1>1, <1>2, <1>6 DEF Planned, CallRecord
  <2>2. call'[c].dry = k.dry
    BY <1>1, <1>2, <1>6 DEF Planned, CallRecord
  <2>3. Job(c)' = Fresh("done", k.dry)
    BY <1>1, <2>1, <2>2, JobIsOf, ReadyIsSound, JobPhases
  <2>4. Over(Job(c)) = Fresh("done", k.dry)
    BY <1>5, JobForms
  <2>5. Turns(Job(c), Job(c)')
    BY <1>5, <1>6, <2>3, <2>4 DEF Turns
  <2> QED
    BY <1>4, <2>5 DEF Kept
<1>7. CASE ~k.dry
  <2>1. call'[c].phase = "next"
    BY <1>1, <1>2, <1>7 DEF Planned, Applying, CallRecord
  <2>2. Job(c)' = Doing(p, NoResult)
    BY <1>1, <1>2, <1>3, <2>1, JobIsOf, ReadyIsSound, JobPhases DEF Applies
  <2>3. MissedOf(NoResult) = {}
    BY DEF MissedOf, FailedAs, NoResult
  <2>4. Job(c)' = Asked(U, D)
    BY <2>2, <2>3, JobForms DEF Doing, Work, NoResult
  <2>5. U \in SUBSET Entry /\ D \in SUBSET (Entry \ U)
    <3>1. U \subseteq Visible /\ p.ToDelete \subseteq DeleteEntry
      BY <1>1, <1>2 DEF PlanRecord
    <3>2. U \subseteq Entry /\ D \subseteq Entry
      BY <3>1, TempsAreEntries DEF DeleteEntry, Paths
    <3>3. U \cap D = {}
      BY <1>1, PlanIsGood DEF p
    <3> QED
      BY <3>2, <3>3
  <2>6. Job(c).state = "open" /\ ~Job(c).dry
    BY <1>5, <1>7
  <2>7. Turns(Job(c), Job(c)')
    BY <2>4, <2>5, <2>6 DEF Turns
  <2> QED
    BY <1>4, <2>7 DEF Kept
<1> QED
  BY <1>6, <1>7

LEMMA NextEntryKept ==
  ASSUME TypeInv, TypeInv', NEW c \in Caller, Ready(c), Ready(c)', NextEntry(c)
  PROVE  Kept(Shown, Shown', Job(c), Job(c)')
<1> DEFINE k == call[c]
           j == Doing(plan[c], result[c])
<1>1. /\ k \in CallRecord /\ call'[c] \in CallRecord /\ k.phase = "next"
      /\ call \in [Caller -> CallRecord] /\ plan[c] \in PlanRecord
      /\ result[c] \in ResultRecord
      /\ plan'[c] = plan[c] /\ result'[c] = result[c] /\ fs' = fs /\ ~k.dry
  BY DEF TypeInv, TypeOK, NextEntry, session, Ready, Stops, Applies
<1>2. Shown' = Shown
  BY <1>1, ShownIsShow
<1>3. Job(c) = j
  BY <1>1, JobIsOf, ReadyIsSound, JobPhases DEF Applies
<1>4. \/ call'[c].phase \in {"mkdir", "upload", "check"}
      \/ /\ k.uploads = {} /\ k.deletes = {}
         /\ call'[c] = [k EXCEPT !.phase = "done"]
  BY <1>1, NextEntryGoesOn
<1>5. CASE call'[c].phase \in {"mkdir", "upload", "check"}
  <2>1. Job(c)' = j
    BY <1>1, <1>5, JobIsOf, ReadyIsSound, JobPhases DEF Applies
  <2> QED
    BY <1>2, <1>3, <2>1 DEF Kept
<1>6. CASE /\ k.uploads = {} /\ k.deletes = {}
           /\ call'[c] = [k EXCEPT !.phase = "done"]
  <2>1. call'[c].phase = "done" /\ ~call'[c].dry
    BY <1>1, <1>6 DEF CallRecord
  <2>2. Job(c)' = Over(j)
    BY <1>1, <2>1, JobIsOf, ReadyIsSound, JobPhases, JobUpdates
  <2>3. Open(j) = {} /\ j.state = "working"
    BY <1>1, <1>6, InHandIsOpen DEF Doing, Work, JobRec, Ready, MyBook, Book, MyPlan, Applies
  <2>4. Turns(j, Job(c)')
    BY <2>2, <2>3 DEF Turns
  <2> QED
    BY <1>2, <1>3, <2>4 DEF Kept
<1> QED
  BY <1>4, <1>5, <1>6

LEMMA MakeParentsKept ==
  ASSUME TreesInv, TypeInv', NEW c \in Caller, Ready(c), Ready(c)', MakeParents(c)
  PROVE  Kept(Shown, Shown', Job(c), Job(c)')
<1> DEFINE d == mk[c].dir
           k == call[c]
           j == Doing(plan[c], result[c])
<1>1. /\ TypeInv /\ fs \in [Path -> Node] /\ WellFormed(fs) /\ OffTemps(c)
      /\ MkdirTypeOK /\ mk \in [Caller -> MkdirRecord]
      /\ call \in [Caller -> CallRecord] /\ k.phase = "mkdir"
      /\ k \in CallRecord /\ call'[c] \in CallRecord
      /\ plan[c] \in PlanRecord /\ result[c] \in ResultRecord
      /\ plan' = plan /\ k.cur \in Entry
  BY TempsAreEntries DEF TreesInv, PathsInv, MkdirOffTemps, TypeInv, TypeOK, MkdirTypeOK,
     UploadTypeOK, SessionTypeOK, MakeParents, CurrentEntry
<1>2. Job(c) = j
  BY <1>1, JobIsOf, ReadyIsSound, JobPhases DEF Applies
<1>3. CASE fs' = fs
  <2>1. Shown' = Shown
    BY <1>3, ShownIsShow
  <2>2. CASE Fail(c, "mkdir")
    BY <1>1, <2>1, <2>2, FailKept
  <2>3. CASE result' = result /\ call'[c].phase \in {"mkdir", "upload"}
    <3>1. Job(c)' = j
      BY <1>1, <2>3, JobIsOf, ReadyIsSound, JobPhases DEF Applies
    <3> QED
      BY <1>2, <2>1, <3>1 DEF Kept
  <2>4. Fail(c, "mkdir") \/ (result' = result /\ call'[c].phase \in {"mkdir", "upload"})
    BY <1>1 DEF MakeParents, CallRecord
  <2> QED
    BY <2>2, <2>3, <2>4
<1>4. CASE /\ mk[c].at \in MkdirStages
           /\ CanMkdir(d) /\ fs' = [fs EXCEPT ![d] = Dir]
           /\ \E at \in MkdirStages : mk' = [mk EXCEPT ![c].at = at]
  <2>1. Under(k.cur, d) /\ d \in Path
    <3>1. mk[c].target = Parent(k.cur) /\ OnTheWay(d, Parent(k.cur)) /\ d \in Path
      BY <1>1, <1>4, MkdirFields DEF Ready, Targets, TypeInv, MkdirOnTheWay
    <3> QED
      BY <1>1, <3>1, OnTheWayUp
  <2>2. /\ Shown' = [Shown EXCEPT ![d] = Dir] /\ Shown[d] = Absent
        /\ d # Base => CanCreate(Shown, d)
    <3>1. d \notin Temps
      BY <1>1, <1>4, MkdirDirIsNoTemp
    <3> QED
      BY <1>1, <1>4, <2>1, <3>1, DirSeen
  <2>3. call'[c] = k /\ result'[c] = result[c]
    <3>1. mk'[c].at \in MkdirStages
      BY <1>1, <1>4, MkdirFields DEF MkdirAt
    <3> QED
      BY <3>1 DEF MakeParents, MkdirStages
  <2>4. Job(c)' = Job(c)
    BY <1>1, <2>3, JobIsOf
  <2>5. k.cur \in Open(j) \cap j.uploads
    BY <1>1, InHandIsOpen DEF Ready, MyBook, Book, MyPlan, Applies
  <2>6. MakesDir(Shown, Shown', Job(c), d)
    BY <1>2, <2>1, <2>2, <2>5 DEF MakesDir
  <2> QED
    BY <2>1, <2>4, <2>6 DEF Kept
<1> QED
  BY <1>3, <1>4, MkdirMakes DEF MakeParents

LEMMA UploadEntryKept ==
  ASSUME TreesInv, TypeInv', NEW c \in Caller, Ready(c), Ready(c)', UploadEntry(c)
  PROVE  Kept(Shown, Shown', Job(c), Job(c)')
<1> DEFINE k == call[c]
           p == k.cur
           j == Doing(plan[c], result[c])
<1>1. /\ TypeInv /\ UploadTypeOK /\ k.phase = "upload"
      /\ call \in [Caller -> CallRecord] /\ result \in [Caller -> ResultRecord]
      /\ k \in CallRecord /\ call'[c] \in CallRecord
      /\ plan[c] \in PlanRecord /\ result[c] \in ResultRecord
      /\ plan' = plan /\ p \in Visible /\ p \in Entry
  BY TempsAreEntries DEF TreesInv, PathsInv, TypeInv, TypeOK, UploadEntry, CurrentEntry
<1>2. Job(c) = j /\ p \in Open(j) \cap j.uploads
  BY <1>1, JobIsOf, ReadyIsSound, JobPhases, InHandIsOpen
  DEF Applies, Ready, MyBook, Book, MyPlan
<1>3. /\ \/ Shown' = Shown
         \/ PutAt(Shown, Shown', p)
         \/ DropAt(Shown, Shown', p)
      /\ up'[c].at = "done" => \/ PutAt(Shown, Shown', p)
                               \/ LeadsOut(Shown, p) /\ Shown' = Shown
      /\ up'[c].at = "failed" => Shown' = Shown
  <2>1. UploadStep(c) => up[c].dst = p
    BY <1>1, UploadDoes DEF Ready, Aim
  <2> QED
    BY <1>1, <2>1, UploadSeen DEF UploadEntry
<1>4. CASE up'[c].at = "done"
  <2>1. /\ call'[c].phase = "next"
        /\ result'[c] = [result[c] EXCEPT !.uploaded = @ \cup {p}]
    BY <1>1, <1>4 DEF UploadEntry, Goto, CallRecord
  <2>2. Job(c)' = Doing(plan[c], result'[c])
    BY <1>1, <2>1, JobIsOf, ReadyIsSound, JobPhases DEF Applies
  <2>3. Job(c)' = Landing(j, p)
    <3>1. Doing(plan[c], result'[c]) = Landing(Doing(plan[c], result[c]), p)
      BY <1>1, <2>1, JobReports
    <3> QED
      BY <2>2, <3>1
  <2> QED
    BY <1>2, <1>3, <1>4, <2>3 DEF Kept, Answers
<1>5. CASE up'[c].at = "failed"
  <2>1. Fail(c, "upload")
    BY <1>5 DEF UploadEntry
  <2> QED
    BY <1>1, <1>3, <1>5, <2>1, FailKept
<1>6. CASE up'[c].at \notin {"done", "failed"}
  <2>1. call'[c] = k /\ result'[c] = result[c]
    BY <1>6 DEF UploadEntry
  <2>2. Job(c)' = j
    BY <1>1, <1>2, <2>1, JobIsOf
  <2> QED
    BY <1>2, <1>3, <2>2 DEF Kept, Answers
<1> QED
  BY <1>4, <1>5, <1>6

LEMMA DeleteKept ==
  ASSUME TreesInv, Checked, TypeInv', NEW c \in Caller, Ready(c), Ready(c)',
         CheckDelete(c) \/ RemoveEntry(c)
  PROVE  Kept(Shown, Shown', Job(c), Job(c)')
<1> DEFINE k == call[c]
           p == k.cur
           j == Doing(plan[c], result[c])
<1>1. /\ TypeInv /\ k.phase \in {"check", "remove"}
      /\ call \in [Caller -> CallRecord] /\ result \in [Caller -> ResultRecord]
      /\ k \in CallRecord /\ call'[c] \in CallRecord
      /\ plan[c] \in PlanRecord /\ result[c] \in ResultRecord
      /\ plan' = plan /\ p \in Entry
  BY DEF TreesInv, PathsInv, TypeInv, TypeOK, CheckDelete, RemoveEntry, CurrentEntry
<1>2. Job(c) = j /\ p \in Open(j) \cap j.deletes
  BY <1>1, JobIsOf, ReadyIsSound, JobPhases, InHandIsOpen
  DEF Applies, Ready, MyBook, Book, MyPlan
<1>3. CASE CheckDelete(c)
  <2>1. Shown' = Shown
    BY <1>3, ShownIsShow DEF CheckDelete, Ask, Request
  <2>2. CASE Fail(c, "delete")
    BY <1>1, <2>1, <2>2, FailKept
  <2>3. CASE Goto(c, "remove") /\ UNCHANGED result
    <3>1. call'[c].phase = "remove"
      BY <1>1, <2>3 DEF Goto, CallRecord
    <3>2. Job(c)' = j
      BY <1>1, <2>3, <3>1, JobIsOf, ReadyIsSound, JobPhases DEF Applies
    <3> QED
      BY <1>2, <2>1, <3>2 DEF Kept
  <2> QED
    BY <1>3, <2>2, <2>3 DEF CheckDelete
<1>4. CASE RemoveEntry(c)
  <2>1. /\ ~LeadsOut(Shown, p)
        /\ Shown' = Shown \/ DropAt(Shown, Shown', p)
        /\ \/ /\ result' = [result EXCEPT ![c].deleted = @ \cup {p}]
              /\ Goto(c, "next")
              /\ DropAt(Shown, Shown', p)
           \/ Fail(c, "delete")
    BY <1>4, RemoveKeepsTree, ShownIsShow
  <2>2. CASE Fail(c, "delete")
    BY <1>1, <1>4, <2>1, <2>2, FailKept DEF RemoveEntry
  <2>3. CASE /\ result' = [result EXCEPT ![c].deleted = @ \cup {p}]
             /\ Goto(c, "next")
             /\ DropAt(Shown, Shown', p)
    <3>1. /\ call'[c].phase = "next"
          /\ result'[c] = [result[c] EXCEPT !.deleted = @ \cup {p}]
      BY <1>1, <2>3 DEF Goto, CallRecord
    <3>2. Job(c)' = Doing(plan[c], result'[c])
      BY <1>1, <3>1, JobIsOf, ReadyIsSound, JobPhases DEF Applies
    <3>3. Job(c)' = Going(j, p)
      <4>1. Doing(plan[c], result'[c]) = Going(Doing(plan[c], result[c]), p)
        BY <1>1, <3>1, JobReports
      <4> QED
        BY <3>2, <4>1
    <3> QED
      BY <1>2, <2>1, <2>3, <3>3 DEF Kept, Answers
  <2> QED
    BY <2>1, <2>2, <2>3
<1> QED
  BY <1>3, <1>4

LEMMA StateOfJob == \A k, toDo, r : JobOf(k, toDo, r).state = StateOf(k.phase)
BY DEF JobOf, JobRec

\* A call begins when it has no job to be done, and dies with one.
LEMMA BeginKept ==
  ASSUME TypeInv, TypeInv', NEW c \in Caller, Ready(c), Ready(c)',
         NEW dry \in BOOLEAN, Begin(c, dry)
  PROVE  Kept(Shown, Shown', Job(c), Job(c)')
<1>1. /\ call[c] \in CallRecord /\ call'[c] \in CallRecord
      /\ call[c].phase \in {"idle", "done", "error", "crashed"}
      /\ call'[c] = [Idle EXCEPT !.phase = "stat", !.dry = dry] /\ fs' = fs
  BY DEF TypeInv, TypeOK, Begin, Ended
<1>2. call'[c].phase = "stat" /\ call'[c].dry = dry
  BY <1>1 DEF Idle
<1>3. Job(c)' = Opened(dry)
  <2>1. Job(c)' = Fresh("open", dry)
    BY <1>2, JobIsOf, ReadyIsSound, JobPhases DEF Planning
  <2> QED
    BY <2>1, JobForms
<1>4. Job(c).state \in {"idle", "done", "broken"}
  <2>1. Job(c).state = StateOf(call[c].phase)
    BY JobIsOf, StateOfJob
  <2>2. call[c].phase \in {"idle", "done", "error", "crashed"}
    BY <1>1
  <2> QED
    BY <2>1, <2>2 DEF StateOf, Planning
<1>5. Shown' = Shown
  BY <1>1, ShownIsShow
<1> QED
  BY <1>3, <1>4, <1>5 DEF Kept, Turns

LEMMA CrashKept ==
  ASSUME TypeInv, TypeInv', NEW c \in Caller, Ready(c), Ready(c)', Crash(c)
  PROVE  Kept(Shown, Shown', Job(c), Job(c)')
<1>1. /\ call[c] \in CallRecord /\ call'[c] \in CallRecord
      /\ call[c].phase \in Planning \cup Applies
      /\ call'[c] = [Idle EXCEPT !.phase = "crashed"] /\ fs' = fs
  BY DEF TypeInv, TypeOK, Crash, Active, Applies, session
<1>2. call'[c].phase = "crashed"
  BY <1>1 DEF Idle
<1>3. Job(c)' = Broken
  <2>1. Job(c)' = Fresh("broken", No)
    BY <1>2, JobIsOf, ReadyIsSound, JobPhases
  <2> QED
    BY <2>1, JobForms
<1>4. Job(c).state \in {"open", "working"}
  BY <1>1, JobIsOf, StateOfJob DEF StateOf, Planning, Applies
<1>5. Shown' = Shown
  BY <1>1, ShownIsShow
<1> QED
  BY <1>3, <1>4, <1>5 DEF Kept, Turns

LEMMA CallStepKept ==
  ASSUME TreesInv, Checked, TypeInv', NEW c \in Caller, Ready(c), Ready(c)', CallStep(c)
  PROVE  Kept(Shown, Shown', Job(c), Job(c)')
<1>1. /\ TypeInv /\ call \in [Caller -> CallRecord] /\ call[c] \in CallRecord
  BY DEF TreesInv, PathsInv, TypeInv, TypeOK
<1>2. CASE StatBase(c) \/ ResolveBase(c) \/ List(c) \/ PlanFails(c)
  <2>1. fs' = fs
    BY <1>2 DEF StatBase, ResolveBase, List, PlanFails, Ask, Request, session
  <2>2. call[c].phase \in Planning
    BY <1>2 DEF StatBase, ResolveBase, List, PlanFails, Planning
  <2>3. \/ call'[c].phase \in Planning /\ call'[c].dry = call[c].dry
        \/ call'[c].phase = "error"
    <3>1. CASE List(c)
      <4>1. call'[c].phase \in {"list", "plan", "error"}
        BY <1>1, <3>1, ListGoesOn
      <4>2. call'[c].dry = call[c].dry
        BY <1>1, <3>1 DEF List, CallRecord
      <4> QED
        BY <4>1, <4>2 DEF Planning
    <3>2. CASE StatBase(c)
      BY <1>1, <3>2 DEF StatBase, Goto, CallRecord, Planning
    <3>3. CASE ResolveBase(c)
      BY <1>1, <3>3 DEF ResolveBase, CallRecord, Planning
    <3>4. CASE PlanFails(c)
      BY <1>1, <3>4 DEF PlanFails, Goto, CallRecord, Planning
    <3> QED
      BY <1>2, <3>1, <3>2, <3>3, <3>4
  <2>4. Shown' = Shown
    BY <2>1, ShownIsShow
  <2> QED
    BY <1>1, <2>2, <2>3, <2>4, PlanningKept
<1> QED
  BY <1>1, <1>2, MakeBaseKept, PlanKept, NextEntryKept, MakeParentsKept, UploadEntryKept,
     DeleteKept DEF CallStep

-----------------------------------------------------------------------------
(***************************************************************************)
(* Every step of every call keeps the promise.                             *)
(***************************************************************************)
AllReady == \A c \in Caller : Ready(c)
TransferInv == TreesInv /\ AllReady

\* What Ready says of a call is about that call alone.
LEMMA ReadyUpdate ==
  ASSUME AllReady, NEW c \in Caller, Others(c), Ready(c)'
  PROVE  AllReady'
<1> SUFFICES ASSUME NEW d \in Caller \ {c} PROVE Ready(d)'
  BY DEF AllReady
<1>1. /\ call'[d] = call[d] /\ plan'[d] = plan[d] /\ result'[d] = result[d]
      /\ mk'[d] = mk[d] /\ up'[d] = up[d]
  BY DEF Others
<1>2. Ready(d)
  BY DEF AllReady
<1> QED
  BY <1>1, <1>2 DEF Ready, Stops, MyPlan, MyBook, Aim, Targets, Busy

LEMMA BeginAndCrashKeepReady ==
  ASSUME TypeInv, NEW c \in Caller, Ready(c), Crash(c) \/ \E dry \in BOOLEAN : Begin(c, dry)
  PROVE  Ready(c)'
<1>1. /\ call \in [Caller -> CallRecord] /\ result \in [Caller -> ResultRecord]
      /\ plan \in [Caller -> PlanRecord]
  BY DEF TypeInv, TypeOK
<1>2. Targets(c)' /\ MyPlan(c)'
  BY BeginAndCrashStartAnew DEF Ready
<1>3. Aim(c)'
  BY NoUploadLeft DEF Aim
<1>4. \/ call'[c] = [Idle EXCEPT !.phase = "crashed"]
      \/ /\ \E dry \in BOOLEAN : call'[c] = [Idle EXCEPT !.phase = "stat", !.dry = dry]
         /\ result'[c] = NoResult
  BY <1>1 DEF Crash, Begin
<1>5. \/ call'[c].phase = "crashed"
      \/ call'[c].phase = "stat" /\ result'[c] = NoResult
  BY <1>4 DEF Idle
<1>6. Stops(call'[c])
  BY <1>5 DEF Stops, Applies
<1>7. MyBook(c)'
  BY <1>5 DEF MyBook, Book, Applies, Planning
<1> QED
  BY <1>2, <1>3, <1>6, <1>7 DEF Ready

LEMMA NextKeepsReady == TypeInv /\ AllReady /\ [Next]_vars => AllReady'
<1> SUFFICES ASSUME TypeInv, AllReady, [Next]_vars PROVE AllReady'
  OBVIOUS
<1>1. ASSUME NEW c \in Caller, CallStep(c) PROVE AllReady'
  <2>1. Ready(c)
    BY DEF AllReady
  <2> QED
    BY <1>1, <2>1, CallStepKeepsReady, CallStepOfOne, ReadyUpdate
<1>2. ASSUME NEW c \in Caller, Crash(c) \/ \E dry \in BOOLEAN : Begin(c, dry)
      PROVE  AllReady'
  <2>1. Ready(c)
    BY DEF AllReady
  <2> QED
    BY <1>2, <2>1, BeginAndCrashKeepReady, BeginAndCrashOfOne, ReadyUpdate
<1>3. CASE UNCHANGED own
  BY <1>3 DEF own, AllReady, Ready, Stops, MyPlan, MyBook, Aim, Targets, Busy
<1> QED
  BY <1>1, <1>2, <1>3, InitAssumption
  DEF Next, Environment, EditLocal, ChangeRemote, Tick, vars, own

LEMMA InitReady == Init => AllReady
<1> SUFFICES ASSUME Init, NEW c \in Caller PROVE Ready(c)
  BY DEF AllReady
<1>1. /\ call[c] = Idle /\ plan[c] = EmptyPlan /\ result[c] = NoResult
      /\ mk[c] = MkdirIdle /\ up[c] = NotStarted
  BY DEF Init
<1>2. call[c].phase = "idle"
  BY <1>1 DEF Idle
<1>3. MyPlan(c)
  BY <1>1 DEF MyPlan, Plans, EmptyPlan
<1>4. Stops(call[c]) /\ MyBook(c)
  BY <1>2 DEF Stops, MyBook, Book, Applies, Planning
<1>5. Aim(c) /\ Targets(c)
  BY <1>1 DEF Aim, Busy, NotStarted, Stages, Targets, MkdirIdle, MkdirStages
<1> QED
  BY <1>3, <1>4, <1>5 DEF Ready

LEMMA TransferInvariant == Spec => []TransferInv
<1>1. Init => TransferInv
  <2>1. Init => WellFormed(fs)
    BY InitAssumption DEF Init
  <2> QED
    BY <2>1, InitReach, InitTorn, InitReady DEF TransferInv, TreesInv, ReachInv
<1>2. TransferInv /\ [Next]_vars => TransferInv'
  BY NextKeepsPaths, NextKeepsTorn, NextKeepsTree, NextKeepsReady
  DEF TransferInv, TreesInv, PathsInv
<1> QED
  BY <1>1, <1>2, PTL DEF Spec

LEMMA OtherJobs ==
  ASSUME NEW c \in Caller, Others(c), NEW d \in Caller \ {c}
  PROVE  Job(d)' = Job(d)
BY JobIsOf DEF Others

LEMMA NextKeepsPromise ==
  TransferInv /\ TransferInv' /\ Checked /\ [Next]_vars /\ ~ChangeRemote
    => [Promise!TransferNext]_<<Shown, Jobs>>
<1> SUFFICES ASSUME TransferInv, TransferInv', Checked, [Next]_vars, ~ChangeRemote
             PROVE  [Promise!TransferNext]_<<Shown, Jobs>>
  OBVIOUS
<1>1. /\ TreesInv /\ TypeInv /\ TypeInv'
      /\ \A c \in Caller : Ready(c) /\ Ready(c)'
  BY DEF TransferInv, TreesInv, PathsInv, AllReady
<1>2. ASSUME NEW c \in Caller, CallStep(c) PROVE [Promise!TransferNext]_<<Shown, Jobs>>
  <2>1. Kept(Shown, Shown', Job(c), Job(c)')
    BY <1>1, <1>2, CallStepKept
  <2>2. \A d \in Caller \ {c} : Job(d)' = Job(d)
    BY <1>1, <1>2, CallStepOfOne, OtherJobs
  <2> QED
    BY <2>1, <2>2, Bridge
<1>3. ASSUME NEW c \in Caller, Crash(c) \/ \E dry \in BOOLEAN : Begin(c, dry)
      PROVE  [Promise!TransferNext]_<<Shown, Jobs>>
  <2>1. Kept(Shown, Shown', Job(c), Job(c)')
    BY <1>1, <1>3, CrashKept, BeginKept
  <2>2. \A d \in Caller \ {c} : Job(d)' = Job(d)
    BY <1>1, <1>3, BeginAndCrashOfOne, OtherJobs
  <2> QED
    BY <2>1, <2>2, Bridge
<1>4. CASE UNCHANGED <<fs, own>>
  <2>1. Shown' = Shown
    BY <1>4, ShownIsShow
  <2>2. \A c \in Caller : Job(c)' = Job(c)
    BY <1>4, JobIsOf DEF own
  <2> QED
    BY <2>1, <2>2 DEF Jobs
<1> QED
  BY <1>2, <1>3, <1>4, InitAssumption
  DEF Next, Environment, EditLocal, Tick, vars, own, session

LEMMA InitKeepsPromise == Init => Promise!TransferInit
<1> SUFFICES ASSUME Init PROVE Promise!TransferInit
  OBVIOUS
<1>1. TypeInv /\ WellFormed(fs)
  BY InitTypes, InitAssumption DEF Init
<1>2. fs \in [Path -> Node]
  BY <1>1 DEF TypeInv, TypeOK, UploadTypeOK, SessionTypeOK
<1>3. Shown \in [Path -> Node] /\ WellFormed(Shown)
  BY <1>1, <1>2, SeenTypes, FormSeen, ShownIsShow
<1>4. Shown \in Promise!Trees
  <2>1. Promise!Node = Node
    BY PromiseTree DEF Promise!Node, Node, Promise!FileNode, FileNode
  <2>2. \A t : Promise!WellFormed(t) <=> WellFormed(t)
    BY PromiseTree DEF Promise!WellFormed, WellFormed, Promise!Parent, Parent
  <2> QED
    BY <1>3, <2>1, <2>2 DEF Promise!Trees
<1>5. ASSUME NEW c \in Caller PROVE Job(c) = Jobless
  <2>1. /\ call[c] = Idle /\ plan[c] = EmptyPlan /\ result[c] = NoResult
        /\ call[c] \in CallRecord /\ Ready(c)
    BY <1>1, InitReady DEF Init, AllReady, TypeInv, TypeOK
  <2>2. call[c].phase = "idle"
    BY <2>1 DEF Idle
  <2>3. Sound(call[c], plan[c], result[c])
    BY <2>1 DEF Sound, Ready, MyPlan, MyBook
  <2> QED
    BY <2>2, <2>3, JobIsOf, JobPhases
<1>6. Jobs = [c \in Caller |-> Promise!NoJob]
  BY <1>5, PromiseTree DEF Jobs
<1> QED
  BY <1>4, <1>6 DEF Promise!TransferInit, Jobs

\* As long as nobody else writes to the remote base, all that the calls of sync
\* do to it, with any faults, deaths and edits of the project, is what Transfer
\* promises: files come and go where a plan says, whole and one at a time, and
\* each entry of a plan is reported once, as what came of it.
THEOREM SyncKeepsThePromise == Spec /\ [][~ChangeRemote]_vars => Implements
<1>1. Init => Promise!TransferInit
  BY InitKeepsPromise
<1>2. TransferInv /\ [~ChangeRemote]_vars => ~ChangeRemote
  <2>1. TransferInv /\ UNCHANGED vars => ~ChangeRemote
    BY DEF vars, ChangeRemote, TransferInv, TreesInv, PathsInv, TypeInv, TypeOK, Budget
  <2> QED
    BY <2>1
<1>3. TransferInv /\ Checked /\ [Next]_vars /\ [~ChangeRemote]_vars => Checked'
  BY <1>2, StepsAreChecked, ChecksStay DEF TransferInv, TreesInv
<1>4. TransferInv /\ TransferInv' /\ Checked /\ [Next]_vars /\ [~ChangeRemote]_vars
        => [Promise!TransferNext]_<<Shown, [c \in Caller |-> Job(c)]>>
  BY <1>2, NextKeepsPromise DEF Jobs
<1> QED
  BY <1>1, <1>3, <1>4, InitChecked, TransferInvariant, PTL DEF Spec, Implements, Promise!TransferSpec

\* In particular where there are no others, as in the runs that check it.
COROLLARY SyncAloneImplements ==
  ASSUME MaxIntrusions = 0
  PROVE  Spec => Implements
<1>1. TransferInv => ~ChangeRemote
  BY DEF TransferInv, TreesInv, PathsInv, TypeInv, TypeOK, Budget, ChangeRemote
<1>2. TransferInv /\ [Next]_vars => [~ChangeRemote]_vars
  BY <1>1
<1> QED
  BY <1>2, TransferInvariant, SyncKeepsThePromise, PTL DEF Spec

-----------------------------------------------------------------------------
(***************************************************************************)
(* Temporary files do not pile up.                                         *)
(***************************************************************************)
Tidy == \A t \in Temps : fs[t] # Absent => t \in InUse
Connected == \A c \in Caller : Busy(c) => conn[c]
Undisturbed == faults = 0 /\ budget.crashes = MaxCrashes
LitterInv == Undisturbed => Tidy /\ Connected

\* Without a fault a request does what it says, if the server can do it.
LEMMA CalmRequest ==
  ASSUME SessionTypeOK, faults' = 0, NEW c \in Caller, NEW ok \in BOOLEAN, NEW able, NEW new,
         Request(c, ok, able, new)
  PROVE  /\ faults = 0 /\ UNCHANGED conn
         /\ ok => conn[c] /\ able /\ fs' = new
         /\ ~ok => fs' = fs /\ (~conn[c] \/ ~able)
BY MaxFaultsAssumption DEF SessionTypeOK, Request

LEMMA CalmRequestAt ==
  ASSUME SessionTypeOK, faults' = 0, NEW c \in Caller, NEW ok \in BOOLEAN, NEW p, NEW able,
         NEW new, RequestAt(c, ok, p, able, new)
  PROVE  /\ faults = 0 /\ UNCHANGED conn
         /\ ok => conn[c]
         /\ LeadsOut(fs, p) => fs' = fs
         /\ ~LeadsOut(fs, p) => \/ fs' = new
                                \/ fs' = fs /\ ~ok /\ (~conn[c] \/ ~able)
BY CalmRequest DEF RequestAt

LEMMA CalmAsk ==
  ASSUME SessionTypeOK, faults' = 0, NEW c \in Caller, NEW ok \in BOOLEAN, NEW able,
         Ask(c, ok, able)
  PROVE  faults = 0 /\ UNCHANGED conn
BY CalmRequest DEF Ask

\* A step keeps the base tidy if no temporary file appears but that of c's upload,
\* and that upload goes on or its file is gone.
LEMMA TidyStep ==
  ASSUME Tidy, Connected, UNCHANGED conn, NEW c \in Caller,
         \A d \in Caller \ {c} : up'[d] = up[d],
         \A t \in Temps : fs'[t] # Absent =>
            fs[t] # Absent \/ (Busy(c)' /\ t = up'[c].tmp),
         Busy(c) => \/ Busy(c)' /\ up'[c].tmp = up[c].tmp
                    \/ fs'[up[c].tmp] = Absent,
         Busy(c)' => conn[c]
  PROVE  Tidy' /\ Connected'
<1>1. Connected'
  BY DEF Connected, Busy
<1>2. ASSUME NEW t \in Temps, fs'[t] # Absent
      PROVE  \E d \in Caller : Busy(d)' /\ up'[d].tmp = t
  <2>1. CASE Busy(c)' /\ t = up'[c].tmp
    BY <2>1
  <2>2. CASE fs[t] # Absent
    <3>1. PICK d \in Caller : Busy(d) /\ up[d].tmp = t
      BY <2>2 DEF Tidy, InUse
    <3>2. CASE d = c
      BY <1>2, <3>1, <3>2
    <3>3. CASE d # c
      BY <3>1, <3>3 DEF Busy
    <3> QED
      BY <3>2, <3>3
  <2> QED
    BY <1>2, <2>1, <2>2
<1>3. Tidy'
  BY <1>2 DEF Tidy, InUse
<1> QED
  BY <1>1, <1>3

LEMMA BehindALink ==
  ASSUME NEW t \in [Path -> Node], WellFormed(t), NEW p \in Path, LeadsOut(t, p)
  PROVE  t[p] = Absent
<1>1. PICK a \in Path : Under(p, a) /\ t[a] = Link
  BY DEF LeadsOut
<1>2. t[a] # Dir
  BY <1>1 DEF Link, Dir
<1> QED
  BY <1>1, <1>2, Rooted

LEMMA LinksOfSiblings ==
  ASSUME NEW p \in Entry, NEW q \in Entry, Parent(p) = Parent(q), NEW t, LeadsOut(t, p)
  PROVE  LeadsOut(t, q)
<1>1. PICK a \in Path : Under(p, a) /\ t[a] = Link
  BY DEF LeadsOut
<1>2. Under(q, a)
  <2>1. CASE Parent(p) = a
    BY <2>1, ParentFacts
  <2>2. CASE Parent(p) # a
    <3>1. Under(Parent(p), a)
      BY <1>1, <2>2, UnderParent DEF Entry
    <3>2. Under(Parent(q), a) /\ Under(q, Parent(q)) /\ Parent(q) \in Path /\ q \in Path
      BY <3>1, ParentFacts DEF Entry
    <3> QED
      BY <3>2, UnderTransitive
  <2> QED
    BY <2>1, <2>2
<1> QED
  BY <1>1, <1>2 DEF LeadsOut

\* An upload that ends has moved its temporary file, or removed it.
LEMMA UploadEndsTidily ==
  ASSUME TreesInv, NEW c \in Caller, UploadStep(c), faults' = 0, conn[c]
  PROVE  \/ Busy(c)' /\ up'[c].tmp = up[c].tmp
         \/ fs'[up[c].tmp] = Absent
<1> DEFINE tmp == up[c].tmp
           dst == up[c].dst
<1>1. /\ UploadTypeOK /\ SessionTypeOK /\ fs \in [Path -> Node] /\ WellFormed(fs)
      /\ PlainTemps /\ Busy(c)
  BY UploadDoes DEF TreesInv, PathsInv, TypeInv, TypeOK, UploadTypeOK, SessionTypeOK
<1>2. /\ tmp \in Temps /\ tmp \in Entry /\ tmp \in Path
      /\ dst \in Visible /\ dst \in Entry /\ dst \in Path /\ tmp # dst
  BY <1>1, BusyRecord, TempsAreEntries
<1>3. Parent(tmp) = Parent(dst) /\ fs[tmp] \notin {Dir, Link} /\ fs[tmp] \in Node
  BY <1>1, <1>2, TempAssumption DEF PlainTemps
<1>4. CASE Busy(c)'
  BY <1>1, <1>4, UploadStepGoesOn
<1>5. CASE up'[c].at = "done"
  <2>1. CASE MovesInPlace(c)
    BY <1>1, <1>2, <2>1 DEF MovesInPlace, Moved
  <2>2. CASE LeadsOut(fs, dst) /\ fs' = fs
    <3>1. LeadsOut(fs, tmp)
      BY <1>2, <1>3, <2>2, LinksOfSiblings
    <3> QED
      BY <1>1, <1>2, <2>2, <3>1, BehindALink
  <2> QED
    BY <1>1, <1>5, <2>1, <2>2, UploadDoes
<1>6. CASE Cleanup(c)
  <2>1. PICK ok \in BOOLEAN :
          RequestAt(c, ok, tmp, CanRemove(fs, tmp), Without(fs, tmp))
    BY <1>6 DEF Cleanup
  <2>2. \/ LeadsOut(fs, tmp) /\ fs' = fs
        \/ fs' = Without(fs, tmp)
        \/ fs' = fs /\ ~CanRemove(fs, tmp)
    BY <1>1, <2>1, CalmRequestAt
  <2>3. ASSUME LeadsOut(fs, tmp) PROVE fs[tmp] = Absent
    BY <1>1, <1>2, <2>3, BehindALink
  <2>4. ASSUME ~CanRemove(fs, tmp) PROVE fs[tmp] = Absent
    BY <1>3, <2>4 DEF CanRemove, Node, FileNode
  <2>5. Without(fs, tmp)[tmp] = Absent
    BY <1>1, <1>2 DEF Without
  <2> QED
    BY <2>2, <2>3, <2>4, <2>5
<1> QED
  BY <1>1, <1>4, <1>5, <1>6, UploadDoes

LEMMA UploadStepTidy ==
  ASSUME TreesInv, Tidy, Connected, NEW c \in Caller, UploadStep(c), faults' = 0
  PROVE  Tidy' /\ Connected'
<1> DEFINE tmp == up[c].tmp
           dst == up[c].dst
<1>1. /\ UploadTypeOK /\ SessionTypeOK /\ fs \in [Path -> Node] /\ Busy(c)
      /\ up \in [Caller -> UploadRecord]
  BY UploadDoes DEF TreesInv, PathsInv, TypeInv, TypeOK, UploadTypeOK, SessionTypeOK
<1>2. fs \in [Path -> Node] /\ tmp \in Temps /\ tmp \in Path /\ dst \in Path /\ dst \notin Temps
  BY <1>1, BusyRecord, BusyPaths, TempsAreEntries DEF SessionTypeOK
<1>3. conn[c]
  BY <1>1 DEF Connected
<1>4. UNCHANGED conn
  BY <1>1, CalmRequest, CalmRequestAt
  DEF UploadStep, WriteTemp, PosixRename, PlainRename, ClearDestination, RenameAgain,
      RenameBy, Cleanup
<1>5. \A d \in Caller \ {c} : up'[d] = up[d]
  BY <1>1, UploadStepOfOne
<1>6. ASSUME NEW t \in Temps, fs'[t] # Absent PROVE fs[t] # Absent
  <2>1. t \in Path /\ t # dst
    BY <1>2, TempsAreEntries
  <2>2. MovesInPlace(c) \/ Clears(c) \/ OnlyTemp(c)
    BY <1>1, UploadDoes
  <2>3. CASE MovesInPlace(c)
    BY <1>2, <1>6, <2>1, <2>3 DEF MovesInPlace, Moved
  <2>4. CASE Clears(c)
    BY <1>2, <1>6, <2>1, <2>4 DEF Clears, Without
  <2>5. CASE OnlyTemp(c)
    BY <1>2, <1>6, <2>1, <2>5 DEF OnlyTemp, Without
  <2> QED
    BY <2>2, <2>3, <2>4, <2>5
<1>7. \/ Busy(c)' /\ up'[c].tmp = tmp
      \/ fs'[tmp] = Absent
  BY <1>3, UploadEndsTidily
<1> QED
  BY <1>3, <1>4, <1>5, <1>6, <1>7, TidyStep

LEMMA UploadStartTidy ==
  ASSUME TreesInv, Tidy, Connected, NEW c \in Caller, NEW src \in Visible, NEW dst \in Visible,
         UploadStart(c, src, dst), faults' = 0
  PROVE  Tidy' /\ Connected'
<1>1. /\ SessionTypeOK /\ fs \in [Path -> Node] /\ ~Busy(c)
      /\ up \in [Caller -> UploadRecord]
  BY DEF TreesInv, PathsInv, TypeInv, TypeOK, UploadTypeOK, SessionTypeOK, UploadStart
<1>2. \A d \in Caller \ {c} : up'[d] = up[d]
  BY <1>1, UploadStepOfOne, TempsAreEntries
<1>3. CASE UNCHANGED <<fs, conn>> /\ up' = [up EXCEPT ![c] = GaveUp]
  <2>1. ~Busy(c)'
    BY <1>1, <1>3 DEF Busy, GaveUp, Stages
  <2> QED
    BY <1>1, <1>2, <1>3, <2>1, TidyStep
<1>4. CASE \E d \in Sources(src), t \in FreshTemps(dst), ok \in BOOLEAN :
             /\ RequestAt(c, ok, t, CanCreate(fs, t), [fs EXCEPT ![t] = File(Torn, Stamp)])
             /\ up' = [up EXCEPT ![c] = IF ok THEN [at |-> "write", src |-> src, dst |-> dst,
                                                   tmp |-> t, data |-> d]
                                       ELSE GaveUp]
  <2>1. PICK d \in Sources(src), t \in FreshTemps(dst), ok \in BOOLEAN :
             /\ RequestAt(c, ok, t, CanCreate(fs, t), [fs EXCEPT ![t] = File(Torn, Stamp)])
             /\ up' = [up EXCEPT ![c] = IF ok THEN [at |-> "write", src |-> src, dst |-> dst,
                                                   tmp |-> t, data |-> d]
                                       ELSE GaveUp]
    BY <1>4
  <2>2. /\ UNCHANGED conn /\ (ok => conn[c])
        /\ fs' = fs \/ (ok /\ fs' = [fs EXCEPT ![t] = File(Torn, Stamp)])
    <3>1. /\ UNCHANGED conn /\ (ok => conn[c])
          /\ LeadsOut(fs, t) => fs' = fs
          /\ ~LeadsOut(fs, t) => Request(c, ok, CanCreate(fs, t), [fs EXCEPT ![t] = File(Torn, Stamp)])
      BY <1>1, <2>1, CalmRequestAt DEF RequestAt
    <3>2. ASSUME Request(c, ok, CanCreate(fs, t), [fs EXCEPT ![t] = File(Torn, Stamp)])
          PROVE  fs' = fs \/ (ok /\ fs' = [fs EXCEPT ![t] = File(Torn, Stamp)])
      BY <1>1, <3>2, CalmRequest
    <3> QED
      BY <3>1, <3>2
  <2>3. CASE ok
    <3>1. Busy(c)' /\ up'[c].tmp = t
      BY <1>1, <2>1, <2>3 DEF Busy, Stages
    <3>2. \A s \in Temps : fs'[s] # Absent => fs[s] # Absent \/ s = t
      BY <1>1, <2>2, TempsAreEntries
    <3> QED
      BY <1>1, <1>2, <2>2, <2>3, <3>1, <3>2, TidyStep
  <2>4. CASE ~ok
    <3>1. ~Busy(c)'
      BY <1>1, <2>1, <2>4 DEF Busy, GaveUp, Stages
    <3> QED
      BY <1>1, <1>2, <2>2, <2>4, <3>1, TidyStep
  <2> QED
    BY <2>3, <2>4
<1> QED
  BY <1>3, <1>4 DEF UploadStart

\* A step that creates no temporary file and leaves the uploads alone, but for
\* one that is over.
LEMMA QuietTidy ==
  ASSUME TypeInv, Tidy, Connected, NEW c \in Caller, UNCHANGED conn,
         UNCHANGED up \/ (~Busy(c) /\ up' = [up EXCEPT ![c] = NotStarted]),
         \A t \in Temps : fs'[t] # Absent => fs[t] # Absent
  PROVE  Tidy' /\ Connected'
<1>1. up \in [Caller -> UploadRecord]
  BY DEF TypeInv, TypeOK, UploadTypeOK
<1>2. CASE UNCHANGED up
  BY <1>2, TidyStep DEF Busy, Connected
<1>3. CASE ~Busy(c) /\ up' = [up EXCEPT ![c] = NotStarted]
  <2>1. ~Busy(c)' /\ \A d \in Caller \ {c} : up'[d] = up[d]
    BY <1>1, <1>3 DEF Busy, NotStarted, Stages
  <2> QED
    BY <1>3, <2>1, TidyStep
<1> QED
  BY <1>2, <1>3

LEMMA MkdirTidy ==
  ASSUME TypeInv, NEW c \in Caller, OffTemps(c), Tidy, Connected, MkdirStep(c), UNCHANGED up,
         faults' = 0
  PROVE  faults = 0 /\ Tidy' /\ Connected'
<1>1. /\ SessionTypeOK /\ MkdirTypeOK /\ fs \in [Path -> Node]
  BY DEF TypeInv, TypeOK, UploadTypeOK, SessionTypeOK
<1>2. faults = 0 /\ UNCHANGED conn
  BY <1>1, CalmRequest, CalmRequestAt, CalmAsk 
  DEF MkdirStep, MkdirStat, MkdirMake, MkdirChmod, MkdirRecheck
<1>3. \A t \in Temps : fs'[t] # Absent => fs[t] # Absent
  <2>1. CASE fs' = fs
    BY <2>1
  <2>2. CASE mk[c].at \in MkdirStages /\ fs' = [fs EXCEPT ![mk[c].dir] = Dir]
    BY <1>1, <2>2, MkdirDirIsNoTemp, TempsAreEntries
  <2> QED
    BY <2>1, <2>2, MkdirMakes
<1> QED
  BY <1>2, <1>3, QuietTidy

\* Faults do not go away.
LEMMA FaultsStay ==
  ASSUME SessionTypeOK, NEW c \in Caller, NEW ok, NEW p, NEW able, NEW new,
         Ask(c, ok, able) \/ Request(c, ok, able, new) \/ RequestAt(c, ok, p, able, new)
  PROVE  faults' = 0 => faults = 0
<1>1. faults \in Nat
  BY MaxFaultsAssumption DEF SessionTypeOK
<1>2. ASSUME NEW x, NEW y, Request(c, ok, x, y) PROVE faults' = 0 => faults = 0
  BY <1>1, <1>2 DEF Request
<1> QED
  BY <1>2 DEF Ask, RequestAt

LEMMA CallStepCalm ==
  ASSUME SessionTypeOK, NEW c \in Caller, CallStep(c)
  PROVE  faults' = 0 => faults = 0
<1>1. faults \in Nat
  BY MaxFaultsAssumption DEF SessionTypeOK
<1>2. CASE StatBase(c) \/ ResolveBase(c) \/ List(c) \/ CheckDelete(c)
  <2>1. \E ok, able : Ask(c, ok, able)
    BY <1>2 DEF StatBase, ResolveBase, List, CheckDelete
  <2> QED
    BY <2>1, FaultsStay
<1>3. CASE Plan(c) \/ PlanFails(c) \/ NextEntry(c)
  <2>1. faults' = faults \/ faults' = faults + 1
    BY <1>3 DEF Plan, PlanFails, NextEntry, session
  <2> QED
    BY <1>1, <2>1
<1>4. CASE MakeBase(c) \/ MakeParents(c)
  <2>1. \E ok, able, p, new : Ask(c, ok, able) \/ RequestAt(c, ok, p, able, new)
    BY <1>4 DEF MakeBase, MakeParents, MkdirStep, MkdirStat, MkdirMake, MkdirChmod,
       MkdirRecheck
  <2> QED
    BY <2>1, FaultsStay
<1>5. CASE UploadEntry(c)
  <2>1. \/ UNCHANGED faults
        \/ \E ok, able, p, new : Request(c, ok, able, new) \/ RequestAt(c, ok, p, able, new)
    BY <1>5 DEF UploadEntry, UploadStart, UploadStep, WriteTemp, PosixRename, PlainRename,
       ClearDestination, RenameAgain, RenameBy, Cleanup
  <2> QED
    BY <2>1, FaultsStay
<1>6. CASE RemoveEntry(c)
  <2>1. \E ok, able, p, new : RequestAt(c, ok, p, able, new)
    BY <1>6 DEF RemoveEntry
  <2> QED
    BY <2>1, FaultsStay
<1> QED
  BY <1>2, <1>3, <1>4, <1>5, <1>6 DEF CallStep

\* What a step of a call does to temporary files, where nothing fails.
LEMMA CallStepTidy ==
  ASSUME TreesInv, Tidy, Connected, NEW c \in Caller, Aim(c), CallStep(c), faults' = 0
  PROVE  Tidy' /\ Connected'
<1>1. /\ TypeInv /\ OffTemps(c) /\ SessionTypeOK /\ fs \in [Path -> Node]
  BY DEF TreesInv, PathsInv, MkdirOffTemps, TypeInv, TypeOK, UploadTypeOK, SessionTypeOK
<1>2. CASE StatBase(c) \/ ResolveBase(c) \/ List(c) \/ CheckDelete(c)
  <2>1. /\ \E ok \in BOOLEAN : \E able : Ask(c, ok, able)
        /\ UNCHANGED up
    BY <1>2 DEF StatBase, ResolveBase, List, CheckDelete
  <2>2. faults = 0 /\ UNCHANGED conn /\ fs' = fs
    BY <1>1, <2>1, CalmAsk DEF Ask, Request
  <2> QED
    BY <1>1, <2>1, <2>2, QuietTidy
<1>3. CASE Plan(c)
  <2>1. faults = 0 /\ UNCHANGED <<conn, fs, up>>
    BY <1>3 DEF Plan, session
  <2> QED
    BY <1>1, <2>1, QuietTidy
<1>4. CASE PlanFails(c)
  BY <1>1, <1>4, MaxFaultsAssumption DEF PlanFails, SessionTypeOK
<1>5. CASE NextEntry(c)
  <2>1. /\ faults = 0 /\ UNCHANGED <<conn, fs>>
        /\ UNCHANGED up \/ up' = [up EXCEPT ![c] = NotStarted]
    BY <1>5 DEF NextEntry, session
  <2>2. ~Busy(c)
    BY <1>1, <1>5 DEF NextEntry, Aim
  <2> QED
    BY <1>1, <2>1, <2>2, QuietTidy
<1>6. CASE MakeBase(c) \/ MakeParents(c)
  <2>1. MkdirStep(c) /\ UNCHANGED up
    BY <1>6 DEF MakeBase, MakeParents
  <2> QED
    BY <1>1, <2>1, MkdirTidy
<1>7. CASE UploadEntry(c)
  <2>1. call[c].cur \in Visible
    BY <1>1, <1>7 DEF UploadEntry, TypeInv, CurrentEntry
  <2>2. CASE UploadStart(c, call[c].cur, call[c].cur)
    BY <1>1, <2>1, <2>2, UploadStartTidy
  <2>3. CASE UploadStep(c)
    BY <1>1, <2>3, UploadStepTidy
  <2> QED
    BY <1>7, <2>2, <2>3 DEF UploadEntry
<1>8. CASE RemoveEntry(c)
  <2>1. PICK ok \in BOOLEAN : \E able :
          RequestAt(c, ok, call[c].cur, able, Without(fs, call[c].cur))
    BY <1>8 DEF RemoveEntry
  <2>2. /\ faults = 0 /\ UNCHANGED <<conn, up>>
        /\ fs' = fs \/ fs' = Without(fs, call[c].cur)
    BY <1>1, <1>8, <2>1, CalmRequestAt DEF RemoveEntry
  <2>3. \A t \in Temps : fs'[t] # Absent => fs[t] # Absent
    BY <1>1, <2>2, TempsAreEntries DEF Without
  <2> QED
    BY <1>1, <2>2, <2>3, QuietTidy
<1> QED
  BY <1>2, <1>3, <1>4, <1>5, <1>6, <1>7, <1>8 DEF CallStep

\* A call that begins has a connection; and others leave temporary files alone.
LEMMA BeginTidy ==
  ASSUME TypeInv, Tidy, Connected, NEW c \in Caller, ~Busy(c), NEW dry, Begin(c, dry)
  PROVE  Tidy' /\ Connected'
<1>1. up \in [Caller -> UploadRecord] /\ conn \in [Caller -> BOOLEAN]
  BY DEF TypeInv, TypeOK, UploadTypeOK, SessionTypeOK
<1>2. /\ up' = [up EXCEPT ![c] = NotStarted] /\ fs' = fs
      /\ conn' = [conn EXCEPT ![c] = TRUE]
  BY DEF Begin
<1>3. ~Busy(c)' /\ \A d \in Caller \ {c} : up'[d] = up[d] /\ conn'[d] = conn[d]
  BY <1>1, <1>2 DEF Busy, NotStarted, Stages
<1>4. Connected'
  BY <1>3 DEF Connected, Busy
<1>5. \A d \in Caller : Busy(d) => Busy(d)' /\ up'[d].tmp = up[d].tmp
  BY <1>1, <1>3 DEF Busy
<1>6. InUse \subseteq InUse'
  BY <1>5 DEF InUse
<1>7. Tidy'
  BY <1>2, <1>6 DEF Tidy
<1> QED
  BY <1>4, <1>7

LEMMA ChangeTidy ==
  ASSUME TypeInv, Tidy, ChangeRemote
  PROVE  Tidy'
<1>1. fs \in [Path -> Node]
  BY DEF TypeInv, TypeOK, UploadTypeOK, SessionTypeOK
<1>2. ASSUME NEW t \in Temps, fs[t] = Absent PROVE fs'[t] = Absent
  <2>1. t \in Path /\ t \notin Visible
    BY TempsAreEntries DEF Visible
  <2>2. CASE Changes(fs, fs', Stamp)
    <3>1. PICK p \in Visible : \/ \E n : fs' = [fs EXCEPT ![p] = n]
                               \/ fs' = Without(fs, p)
      BY <2>2 DEF Changes
    <3> QED
      BY <1>1, <1>2, <2>1, <3>1 DEF Without
  <2>3. CASE Relocates(fs, fs')
    BY <1>2, <2>1, <2>3 DEF Relocates
  <2> QED
    BY <2>2, <2>3 DEF ChangeRemote
<1>3. InUse' = InUse
  BY DEF ChangeRemote, own, InUse, Busy
<1> QED
  BY <1>2, <1>3 DEF Tidy

LEMMA NextKeepsLitter == TransferInv /\ LitterInv /\ [Next]_vars => LitterInv'
<1> SUFFICES ASSUME TransferInv, LitterInv, [Next]_vars, Undisturbed'
             PROVE  Tidy' /\ Connected'
  BY DEF LitterInv
<1>1. /\ TypeInv /\ faults \in Nat /\ budget \in Budget /\ MaxCrashes \in Nat
  BY InitAssumption, MaxFaultsAssumption
  DEF TransferInv, TreesInv, PathsInv, TypeInv, TypeOK, UploadTypeOK, SessionTypeOK
<1>2. ASSUME NEW c \in Caller, CallStep(c) PROVE Tidy' /\ Connected'
  <2>1. UNCHANGED budget
    BY <1>2 DEF CallStep, StatBase, MakeBase, ResolveBase, List, Plan, PlanFails, NextEntry,
       MakeParents, UploadEntry, CheckDelete, RemoveEntry, env
  <2>2. faults' = 0
    BY DEF Undisturbed
  <2>3. faults = 0
    BY <1>1, <1>2, <2>2, CallStepCalm DEF TypeInv, TypeOK, UploadTypeOK
  <2> QED
    BY <1>2, <2>1, <2>2, <2>3, CallStepTidy
    DEF LitterInv, Undisturbed, TransferInv, AllReady, Ready
<1>3. ASSUME NEW c \in Caller, NEW dry \in DryRuns, Begin(c, dry) PROVE Tidy' /\ Connected'
  <2>1. UNCHANGED <<faults, budget>>
    BY <1>3 DEF Begin, env
  <2>2. ~Busy(c)
    BY <1>3 DEF TransferInv, AllReady, Ready, Aim, Begin, Ended
  <2> QED
    BY <1>1, <1>3, <2>1, <2>2, BeginTidy DEF LitterInv, Undisturbed
<1>4. ASSUME NEW c \in Caller, Crash(c) PROVE FALSE
  BY <1>1, <1>4 DEF Crash, Undisturbed, Budget
<1>5. CASE ChangeRemote
  <2>1. UNCHANGED <<faults, conn, up>> /\ budget'.crashes = budget.crashes
    BY <1>1, <1>5 DEF ChangeRemote, own, Budget
  <2>2. Connected'  <=> Connected
    BY <2>1 DEF Connected, Busy
  <2> QED
    BY <1>1, <1>5, <2>1, <2>2, ChangeTidy DEF LitterInv, Undisturbed
<1>6. CASE EditLocal \/ Tick \/ UNCHANGED vars
  <2>1. UNCHANGED <<fs, faults, conn, up>> /\ budget'.crashes = budget.crashes
    BY <1>1, <1>6 DEF EditLocal, Tick, vars, own, session, Budget
  <2> QED
    BY <2>1 DEF LitterInv, Undisturbed, Tidy, Connected, InUse, Busy
<1> QED
  BY <1>2, <1>3, <1>4, <1>5, <1>6 DEF Next, Environment

\* Where no request fails and no call dies, no temporary file is left behind, by
\* whatever way an upload ends and whoever changes the base meanwhile (NoLitter):
\* all that there are belong to uploads that still run, over connections that are up.
THEOREM NothingIsLeftBehind == Spec => []NoLitter
<1>1. Init => LitterInv
  BY InitAssumption DEF Init, LitterInv, Tidy, Connected, Busy, NotStarted, Stages
<1>2. LitterInv => NoLitter
  BY DEF LitterInv, Undisturbed, Tidy, NoLitter
<1> QED
  BY <1>1, <1>2, NextKeepsLitter, TransferInvariant, PTL DEF Spec
=============================================================================
