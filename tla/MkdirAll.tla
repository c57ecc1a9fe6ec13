------------------------------ MODULE MkdirAll ------------------------------
(***************************************************************************)
(* MkdirAll (internal/sshlayer/sftp.go): make a directory of the remote    *)
(* base and the ones above it.  Its recursion stats its way up to the      *)
(* first directory that exists, then creates its way down; one action per  *)
(* request.  What lies above the remote base exists.                       *)
(***************************************************************************)
EXTENDS Session

VARIABLE mk    \* mk[c]: the MkdirAll of c, and how far it is

MkdirIdle   == [at |-> "idle"]
MkdirDone   == [at |-> "done"]
MkdirFailed == [at |-> "failed"]
MkdirAt(at, dir, target) == [at |-> at, dir |-> dir, target |-> target]
MkdirStages == {"stat", "mkdir", "chmod", "recheck"}

MkdirRecord == {MkdirIdle, MkdirDone, MkdirFailed} \cup
               [at : MkdirStages, dir : Path, target : Path]
MkdirTypeOK == mk \in [Caller -> MkdirRecord]

\* What Stat, which follows links, can say of p.
Looks(p) ==
  IF fs[p] = Link \/ LeadsOut(fs, p) THEN {"dir", "other", "error"}
  ELSE CASE fs[p] = Dir    -> {"dir"}
         [] IsFile(fs[p])  -> {"other"}
         [] fs[p] = Absent -> {"error"}

\* dir exists: go on with the one below it on the way to the target.
Below(dir, target) ==
  IF dir = target THEN MkdirDone
  ELSE MkdirAt("mkdir", SubSeq(target, 1, Len(dir) + 1), target)

\* Mutant of Above: the recursion does not stop at the base.
AboveTheBase(dir, target) == MkdirAt("stat", Parent(dir), target)

Above(dir, target) ==
  IF dir = Base THEN MkdirAt("mkdir", Base, target)
  ELSE MkdirAt("stat", Parent(dir), target)

MkdirStat(c) ==
  LET m == mk[c]
  IN  /\ m.at = "stat"
      /\ \E seen \in Looks(m.dir), ok \in BOOLEAN :
           /\ Ask(c, ok, seen # "error")
           /\ mk' = [mk EXCEPT ![c] =
                       IF ~ok THEN Above(m.dir, m.target)
                       ELSE IF seen = "dir" THEN Below(m.dir, m.target)
                       ELSE MkdirFailed]
      /\ UNCHANGED local

CanMkdir(p) == /\ fs[p] = Absent
               /\ p # Base => CanCreate(fs, p)

MkdirMake(c) ==
  LET m == mk[c]
  IN  /\ m.at = "mkdir"
      /\ \E ok \in BOOLEAN :
           /\ RequestAt(c, ok, m.dir, CanMkdir(m.dir),
                        [fs EXCEPT ![m.dir] = Dir])
           /\ mk' = [mk EXCEPT ![c].at = IF ok THEN "chmod" ELSE "recheck"]
      /\ UNCHANGED local

MkdirChmod(c) ==
  LET m == mk[c]
  IN  /\ m.at = "chmod"
      /\ \E ok \in BOOLEAN :
           /\ RequestAt(c, ok, m.dir, fs[m.dir] # Absent, fs)
           /\ mk' = [mk EXCEPT ![c] = IF ok THEN Below(m.dir, m.target)
                                            ELSE MkdirFailed]
      /\ UNCHANGED local

\* Mutant of MkdirRecheck: the error of Mkdir is final.
MkdirRecheckNot(c) ==
  /\ mk[c].at = "recheck"
  /\ mk' = [mk EXCEPT ![c] = MkdirFailed]
  /\ UNCHANGED <<local, fs, conn, faults>>

\* Mkdir failed: somebody else may have created the directory meanwhile.
MkdirRecheck(c) ==
  LET m == mk[c]
  IN  /\ m.at = "recheck"
      /\ \E seen \in Looks(m.dir), ok \in BOOLEAN :
           /\ Ask(c, ok, seen # "error")
           /\ mk' = [mk EXCEPT ![c] = IF ok /\ seen = "dir"
                                      THEN Below(m.dir, m.target)
                                      ELSE MkdirFailed]
      /\ UNCHANGED local

MkdirStep(c) ==
  \/ MkdirStat(c)
  \/ MkdirMake(c)
  \/ MkdirChmod(c)
  \/ MkdirRecheck(c)
=============================================================================
