------------------------------- MODULE Upload -------------------------------
(***************************************************************************)
(* Putting one file on a VM (internal/sshlayer/sftp.go): Upload writes a   *)
(* temporary file next to the destination and Rename moves it into place,  *)
(* with its three ways to do so.  One action per request, so that uploads, *)
(* and whoever else changes the remote tree, interleave between requests.  *)
(***************************************************************************)
EXTENDS Session

CONSTANTS
  TempOf,          \* the names tempName can give to uploads of a destination
  HasPosixRename,  \* the server offers posix-rename@openssh.com
  Skew             \* how far the VM's clock is ahead of the local one

VARIABLES
  now,     \* the local clock
  up       \* up[c]: c's upload, and how far it is

Temps == UNION {TempOf[p] : p \in Entry}
Visible == Entry \ Temps       \* what a user of the VM takes for files

\* Temporary names are hidden, random, and belong to one destination each;
\* nobody keeps anything in a directory of such a name.
ASSUME TempAssumption ==
  /\ TempOf \in [Entry -> SUBSET Entry]
  /\ \A p \in Entry : \A t \in TempOf[p] : Parent(t) = Parent(p)
  /\ \A p, q \in Entry : p # q => TempOf[p] \cap TempOf[q] = {}
  /\ \A t \in Temps, p \in Path : ~Under(p, t)

ASSUME ServerAssumption == HasPosixRename \in BOOLEAN /\ Skew \in Int

NotStarted == [at |-> "idle"]
Succeeded  == [at |-> "done"]
GaveUp     == [at |-> "failed"]
Stages     == {"write", "posix", "plain", "clear", "again", "cleanup"}

Busy(c) == up[c].at \in Stages
InUse == {up[c].tmp : c \in {d \in Caller : Busy(d)}}

UploadRecord == {NotStarted, Succeeded, GaveUp} \cup
                [at : Stages, src : Visible, dst : Visible, tmp : Temps,
                 data : Content \cup {Torn}]
UploadTypeOK ==
  /\ SessionTypeOK
  /\ now \in Nat
  /\ up \in [Caller -> UploadRecord]

-----------------------------------------------------------------------------
Stamp == now + Skew

\* What opening p for reading can yield; a directory opens, but reads Torn.
Sources(p) == CASE IsFile(local[p])  -> {local[p].data}
                [] local[p] = Link   -> Content
                [] local[p] = Dir    -> {Torn}
                [] local[p] = Absent -> {}

\* Mutants of FreshTemps: names that are not random, and no temporary at all.
FreshTempsShared(dst) == TempOf[dst]
FreshTempsInPlace(dst) == {dst}

FreshTemps(dst) == {t \in TempOf[dst] \ InUse : fs[t] = Absent}

\* os.Open, then OpenFile with CREATE and TRUNC of a fresh temporary name.
UploadStart(c, src, dst) ==
  /\ ~Busy(c)
  /\ \/ /\ Sources(src) = {}
        /\ up' = [up EXCEPT ![c] = GaveUp]
        /\ UNCHANGED <<fs, conn, faults>>
     \/ \E d \in Sources(src), t \in FreshTemps(dst), ok \in BOOLEAN :
          /\ RequestAt(c, ok, t, CanCreate(fs, t),
                       [fs EXCEPT ![t] = File(Torn, Stamp)])
          /\ up' = [up EXCEPT ![c] =
                      IF ok THEN [at |-> "write", src |-> src, dst |-> dst,
                                  tmp |-> t, data |-> d]
                            ELSE GaveUp]
  /\ UNCHANGED <<local, now>>

MoveOn(c, next) == up' = [up EXCEPT ![c].at = next]

\* Mutant of AfterWrite: the error of ReadFrom or Close is dropped.
AfterWriteRegardless(ok) == "posix"

AfterWrite(ok) == IF ok THEN "posix" ELSE "cleanup"

\* Chmod, ReadFrom and Close.  They go through the open handle, so they work
\* on a temporary file that somebody removed, too; what ReadFrom reads is the
\* file as it was opened, or as it is now if it was edited in place.
WriteTemp(c) ==
  LET u == up[c]
      contents == {u.data} \cup (IF IsFile(local[u.src])
                                 THEN {local[u.src].data} ELSE {})
  IN  /\ u.at = "write"
      /\ \E d \in contents, ok \in BOOLEAN :
           /\ Request(c, ok, u.data # Torn,
                      IF fs[u.tmp] = Absent THEN fs
                      ELSE [fs EXCEPT ![u.tmp] = File(d, Stamp)])
           /\ MoveOn(c, AfterWrite(ok))
      /\ UNCHANGED <<local, now>>

\* One of the three renames; `next` is what the code tries after a failure.
RenameBy(c, able, next) ==
  /\ \E ok \in BOOLEAN :
       /\ RequestAt(c, ok, up[c].dst, able, Moved(fs, up[c].tmp, up[c].dst))
       /\ IF ok THEN up' = [up EXCEPT ![c] = Succeeded]
                ELSE MoveOn(c, next)
  /\ UNCHANGED <<local, now>>

\* Mutant of PosixRename: the plain RENAME is tried first.
PosixRenameSkipped(c) ==
  /\ up[c].at = "posix"
  /\ RenameBy(c, CanRename(fs, up[c].tmp, up[c].dst), "plain")

PosixRename(c) ==
  /\ up[c].at = "posix"
  /\ RenameBy(c, HasPosixRename /\ CanReplace(fs, up[c].tmp, up[c].dst), "plain")

PlainRename(c) ==
  /\ up[c].at = "plain"
  /\ RenameBy(c, CanRename(fs, up[c].tmp, up[c].dst), "clear")

\* The last resort: remove what is at the destination, whatever comes of it.
ClearDestination(c) ==
  /\ up[c].at = "clear"
  /\ \E ok \in BOOLEAN :
       RequestAt(c, ok, up[c].dst, CanRemove(fs, up[c].dst),
                 Without(fs, up[c].dst))
  /\ MoveOn(c, "again")
  /\ UNCHANGED <<local, now>>

\* Mutants of RenameAgain: its error is dropped; it leaves the temporary file.
RenameAgainUnchecked(c) ==
  /\ up[c].at = "again"
  /\ \E ok \in BOOLEAN :
       RequestAt(c, ok, up[c].dst, CanRename(fs, up[c].tmp, up[c].dst),
                 Moved(fs, up[c].tmp, up[c].dst))
  /\ up' = [up EXCEPT ![c] = Succeeded]
  /\ UNCHANGED <<local, now>>
RenameAgainLitters(c) ==
  /\ up[c].at = "again"
  /\ RenameBy(c, CanRename(fs, up[c].tmp, up[c].dst), "failed")

RenameAgain(c) ==
  /\ up[c].at = "again"
  /\ RenameBy(c, CanRename(fs, up[c].tmp, up[c].dst), "cleanup")

\* Best effort: the result of this Remove is dropped.
Cleanup(c) ==
  /\ up[c].at = "cleanup"
  /\ \E ok \in BOOLEAN :
       RequestAt(c, ok, up[c].tmp, CanRemove(fs, up[c].tmp),
                 Without(fs, up[c].tmp))
  /\ up' = [up EXCEPT ![c] = GaveUp]
  /\ UNCHANGED <<local, now>>

UploadStep(c) ==
  \/ WriteTemp(c)
  \/ PosixRename(c)
  \/ PlainRename(c)
  \/ ClearDestination(c)
  \/ RenameAgain(c)
  \/ Cleanup(c)
=============================================================================
