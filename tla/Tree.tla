-------------------------------- MODULE Tree --------------------------------
(***************************************************************************)
(* File trees, local and remote, as the sync engine sees them.             *)
(*                                                                         *)
(* A path is the sequence of its names relative to the root of its tree    *)
(* (the project root, or a VM's remote base), so <<>> is the root itself.  *)
(* A tree is a function from every path of interest to the node found      *)
(* there.  Links are only ever links that lead out of the tree: what lies  *)
(* behind one is not modelled, only that a request went through it.        *)
(***************************************************************************)
EXTENDS Integers, Sequences

CONSTANTS
  Path,     \* the paths of interest, with every prefix of each
  Content,  \* the contents a file can have once it is written completely
  Torn,     \* the content of a file that is still being written
  Size      \* the length of a content, as the listing reports it

Base   == <<>>
Entry  == Path \ {Base}
Parent(p) == SubSeq(p, 1, Len(p) - 1)

\* p lies strictly inside directory d: the string prefix test with d + "/".
Under(p, d) == /\ Len(d) < Len(p)
               /\ \A i \in 1 .. Len(d) : p[i] = d[i]

ASSUME PathAssumption ==
  /\ Path \subseteq Seq(STRING)
  /\ Base \in Path
  /\ \A p \in Path : \A n \in 0 .. Len(p) : SubSeq(p, 1, n) \in Path

ASSUME ContentAssumption ==
  /\ Torn \notin Content
  /\ Size \in [Content \cup {Torn} -> Nat]

-----------------------------------------------------------------------------
Absent == [kind |-> "none"]
Dir    == [kind |-> "dir"]
Link   == [kind |-> "link"]
File(d, m) == [kind |-> "file", data |-> d, mtime |-> m]

FileNode == [kind : {"file"}, data : Content \cup {Torn}, mtime : Int]
Node == {Absent, Dir, Link} \cup FileNode

IsFile(n) == n.kind = "file"
IsTorn(n) == IsFile(n) /\ n.data = Torn

\* What a file system can hold: everything present lies in a directory.
WellFormed(t) == \A p \in Entry : t[p] # Absent => t[Parent(p)] = Dir

Trees == {t \in [Path -> Node] : WellFormed(t)}

-----------------------------------------------------------------------------
(***************************************************************************)
(* What the SFTP server does to its tree.  Remove is the client library's  *)
(* Remove, which falls back to RMDIR when the server says that the path is *)
(* a directory.                                                            *)
(***************************************************************************)
LeadsOut(t, p) == \E a \in Path : Under(p, a) /\ t[a] = Link
CanCreate(t, p) == t[Parent(p)] = Dir
IsEmptyDir(t, p) ==
  t[p] = Dir /\ \A q \in Path : Under(q, p) => t[q] = Absent
CanRemove(t, p) == t[p].kind \in {"file", "link"} \/ IsEmptyDir(t, p)
Without(t, p) == [t EXCEPT ![p] = Absent]

\* posix-rename@openssh.com replaces a file or a link; RENAME never does.
CanReplace(t, old, new) == t[old] # Absent /\ t[new] # Dir
CanRename(t, old, new) == t[old] # Absent /\ t[new] = Absent
Moved(t, old, new) == [t EXCEPT ![new] = t[old], ![old] = Absent]
=============================================================================
