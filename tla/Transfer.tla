------------------------------ MODULE Transfer ------------------------------
(***************************************************************************)
(* What a call of sync or of push promises, whatever requests it takes:    *)
(* once it knows what it is asked for, the remote base only changes where  *)
(* it was asked to, a file at a time and whole; every entry asked for is   *)
(* reported once, as what came of it; and only then the call is over.      *)
(* The tree is the remote base without anybody's temporary files.          *)
(***************************************************************************)
EXTENDS Tree

CONSTANT Caller

VARIABLES
  tree,   \* the remote base
  job     \* job[c]: what c is asked for, and what it has reported of it

\* uploads and deletes are what is asked for, the rest is reported.
NoJob == [state |-> "idle", dry |-> FALSE, uploads |-> {}, deletes |-> {},
          landed |-> {}, gone |-> {}, missed |-> {}]

Todo(j) == (j.uploads \cup j.deletes) \ (j.landed \cup j.gone \cup j.missed)

TransferInit ==
  /\ tree \in Trees
  /\ job = [c \in Caller |-> NoJob]

Replace(c, j) == job' = [job EXCEPT ![c] = j]

Start(c) ==
  /\ job[c].state \in {"idle", "done", "broken"}
  /\ \E dry \in BOOLEAN : Replace(c, [NoJob EXCEPT !.state = "open", !.dry = dry])
  /\ UNCHANGED tree

\* Asked for anything, but for nothing twice.  A dry run is over then.
Commit(c) ==
  /\ job[c].state = "open"
  /\ IF job[c].dry
     THEN job' = [job EXCEPT ![c].state = "done"]
     ELSE /\ job'[c].uploads \subseteq Entry
          /\ job'[c].deletes \subseteq Entry \ job'[c].uploads
          /\ Replace(c, [NoJob EXCEPT !.state = "working",
                                      !.uploads = job'[c].uploads,
                                      !.deletes = job'[c].deletes])
  /\ UNCHANGED tree

\* The base, or a directory on the way to an upload that is still to be made.
MakeDir(c, d) ==
  /\ tree[d] = Absent
  /\ d # Base => CanCreate(tree, d)
  /\ tree' = [tree EXCEPT ![d] = Dir]
  /\ \/ d = Base /\ job[c].state = "open" /\ ~job[c].dry
     \/ \E p \in Todo(job[c]) \cap job[c].uploads : Under(p, d)
  /\ UNCHANGED job

\* A whole file comes where there is none, or where there is one.
Put(p) ==
  /\ CanCreate(tree, p) /\ tree[p] # Dir
  /\ IsFile(tree'[p]) /\ tree'[p].data \in Content
  /\ tree' = [tree EXCEPT ![p] = tree'[p]]

\* p goes, and nothing goes with it.
Drop(p) ==
  /\ \A q \in Path : Under(q, p) => tree[q] = Absent
  /\ tree' = Without(tree, p)

\* p is still to be reported; what lies behind a link is not in the tree.
Land(c, p) ==
  /\ Put(p) \/ (LeadsOut(tree, p) /\ UNCHANGED tree)
  /\ p \in job[c].uploads
  /\ job' = [job EXCEPT ![c].landed = @ \cup {p}]

Remove(c, p) ==
  /\ ~LeadsOut(tree, p)
  /\ Drop(p)
  /\ p \in job[c].deletes
  /\ job' = [job EXCEPT ![c].gone = @ \cup {p}]

\* An answer that is lost: the upload, or the removal of what is in its way, may
\* have happened.
Unheard(c, p) ==
  /\ Put(p) \/ Drop(p)
  /\ p \in job[c].uploads
  /\ UNCHANGED job

Miss(c, p) ==
  /\ UNCHANGED tree \/ (p \in job[c].deletes /\ Drop(p))
  /\ job' = [job EXCEPT ![c].missed = @ \cup {p}]

Finish(c) ==
  /\ job[c].state = "working"
  /\ Todo(job[c]) = {}
  /\ job' = [job EXCEPT ![c].state = "done"]
  /\ UNCHANGED tree

\* A call that fails as a whole, or dies.
Break(c) ==
  /\ job[c].state \in {"open", "working"}
  /\ Replace(c, [NoJob EXCEPT !.state = "broken"])
  /\ UNCHANGED tree

TransferNext ==
  \E c \in Caller :
    \/ Start(c) \/ Commit(c) \/ Finish(c) \/ Break(c)
    \/ \E d \in Path : MakeDir(c, d)
    \/ \E p \in Todo(job[c]) :
         Land(c, p) \/ Remove(c, p) \/ Unheard(c, p) \/ Miss(c, p)

TransferSpec == TransferInit /\ [][TransferNext]_<<tree, job>>
=============================================================================
