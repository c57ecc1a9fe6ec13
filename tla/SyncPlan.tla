------------------------------ MODULE SyncPlan ------------------------------
(***************************************************************************)
(* BuildPlan (internal/syncengine/plan.go): the change set of one sync     *)
(* call, computed from the local tree, the listing of the remote base and  *)
(* the include / ignore rules.  Pure: no variable, no recursion.           *)
(*                                                                         *)
(* A listing is a tree that is Absent wherever nothing was listed.  The    *)
(* sorted slices of the code are sets here; the one order the code relies  *)
(* on (deepest first) is stated by DeletableNow.                           *)
(*                                                                         *)
(* Rules abstract the pattern matcher to its verdicts: `include` holds the *)
(* listed entries, `ignored` the pairs <<path, isDir>> for which some      *)
(* pattern list ends in "ignored" for that path taken by itself.           *)
(***************************************************************************)
EXTENDS Tree

CONSTANT mtimeSlack   \* how much newer a local file must be to count as newer

ASSUME SlackAssumption == mtimeSlack \in Nat

Rules == [include : SUBSET Entry, ignored : SUBSET (Entry \X BOOLEAN)]

MatchInclude(rules, p) ==
  rules.include = {} \/ \E inc \in rules.include : p = inc \/ Under(p, inc)

Ignored(rules, p, isDir) ==
  \/ <<p, isDir>> \in rules.ignored
  \/ \E a \in Entry : Under(p, a) /\ <<a, TRUE>> \in rules.ignored

\* The file or directory p is none of sync's business.
Excluded(rules, p, isDir) ==
  ~MatchInclude(rules, p) \/ Ignored(rules, p, isDir)

-----------------------------------------------------------------------------
LocalAll(local, rules) ==
  {p \in Entry : /\ local[p].kind \in {"file", "dir"}
                 /\ ~Excluded(rules, p, local[p] = Dir)}

LocalFiles(local, rules) == {p \in LocalAll(local, rules) : IsFile(local[p])}

\* Mutant of NeedsUpload: without the modification time.
NeedsUploadBySize(e, remote) ==
  remote.kind # "file" \/ Size[remote.data] # Size[e.data]

NeedsUpload(e, remote) ==
  \/ remote.kind \in {"none", "dir", "link"}
  \/ Size[remote.data] # Size[e.data]
  \/ e.mtime - remote.mtime > mtimeSlack

Candidates(local, listing, rules) ==
  {p \in Entry \ LocalAll(local, rules) : listing[p].kind \in {"file", "dir"}}

\* Mutant of Eligible: nothing is protected.
EligibleRegardless(local, listing, rules) == Candidates(local, listing, rules)

Eligible(local, listing, rules) ==
  {p \in Candidates(local, listing, rules) :
     ~Excluded(rules, p, listing[p] = Dir)}

HasSurvivingDescendant(p, listing, eligibleSet) ==
  \E q \in Entry : /\ Under(q, p)
                   /\ listing[q].kind \in {"file", "dir"}
                   /\ q \notin eligibleSet

\* Mutant of DeletablePaths: directories are deleted whatever is in them.
DeletablePathsAll(listing, eligibleSet) == eligibleSet

DeletablePaths(listing, eligibleSet) ==
  {p \in eligibleSet :
     listing[p] = Dir => ~HasSurvivingDescendant(p, listing, eligibleSet)}

BuildPlan(local, listing, rules) ==
  LET eligible == Eligible(local, listing, rules)
  IN  [ToUpload |-> {p \in LocalFiles(local, rules) :
                       NeedsUpload(local[p], listing[p])},
       ToDelete |-> {[path |-> p, isDir |-> listing[p] = Dir] :
                       p \in DeletablePaths(listing, eligible)},
       SkippedSymlinks   |-> {p \in Entry : local[p] = Link},
       ProtectedByIgnore |-> Candidates(local, listing, rules) \ eligible]

EmptyPlan == [ToUpload |-> {}, ToDelete |-> {},
              SkippedSymlinks |-> {}, ProtectedByIgnore |-> {}]

\* The deletes whose turn it can be: ToDelete is applied deepest first.
DeletableNow(deletes) ==
  {d \in deletes : \A e \in deletes : Len(e.path) <= Len(d.path)}
=============================================================================
