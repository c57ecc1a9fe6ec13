--------------------------- MODULE SyncCallProofs ---------------------------
(***************************************************************************)
(* Proofs about what a call of sync does to the tree of the VM and what it *)
(* reports of that: the books of Apply balance, whatever fails or dies; a  *)
(* dry run writes nothing; a call touches no file the rules exclude, comes *)
(* to delete through a link only if others plant it right before, and what *)
(* it reports has happened.                                                *)
(***************************************************************************)
EXTENDS SyncEngineProofs

-----------------------------------------------------------------------------
(***************************************************************************)
(* `all` falls into what is left, what is in hand, and three ways to end.  *)
(***************************************************************************)
Split(all, left, hand, good, bad, worse) ==
  /\ all = left \cup hand \cup good \cup bad \cup worse
  /\ left \cap (hand \cup good \cup bad \cup worse) = {}
  /\ hand \cap (good \cup bad \cup worse) = {}
  /\ good \cap (bad \cup worse) = {}
  /\ bad \cap worse = {}

LEMMA SplitTakes ==
  ASSUME NEW all, NEW left, NEW good, NEW bad, NEW worse,
         Split(all, left, {}, good, bad, worse), NEW p \in left
  PROVE  Split(all, left \ {p}, {p}, good, bad, worse)
BY DEF Split

LEMMA SplitEnds ==
  ASSUME NEW all, NEW left, NEW good, NEW bad, NEW worse, NEW p,
         Split(all, left, {p}, good, bad, worse)
  PROVE  /\ Split(all, left, {}, good \cup {p}, bad, worse)
         /\ Split(all, left, {}, good, bad \cup {p}, worse)
         /\ Split(all, left, {}, good, bad, worse \cup {p})
BY DEF Split

-----------------------------------------------------------------------------
(***************************************************************************)
(* The books of a call: its variables k, its plan, and its result r.       *)
(***************************************************************************)
Applies == {"next", "mkdir", "upload", "check", "remove"}

Hand(k, phases) == IF k.phase \in phases THEN {k.cur} ELSE {}
FailedAs(r, action) == {p \in Entry : <<p, action>> \in r.failed}
Paths(D) == {d.path : d \in D}
OnePerPath(D) == \A d, e \in D : d.path = e.path => d = e

Balanced(k, toDo, r) ==
  /\ Split(toDo.ToUpload, k.uploads, Hand(k, {"mkdir", "upload"}),
           r.uploaded, FailedAs(r, "mkdir"), FailedAs(r, "upload"))
  /\ Split(Paths(toDo.ToDelete), Paths(k.deletes), Hand(k, {"check", "remove"}),
           r.deleted, FailedAs(r, "delete"), {})
  /\ OnePerPath(k.deletes)

Book(k, toDo, r) ==
  /\ k.phase \in Planning => r = NoResult
  /\ k.phase \in Applies => Balanced(k, toDo, r)
  /\ k.phase = "done" /\ ~k.dry => /\ Balanced(k, toDo, r)
                                   /\ k.uploads = {} /\ k.deletes = {}
BooksBalance == \A c \in Caller : Book(call[c], plan[c], result[c])

\* A dry run never gets where sync writes.
Stops(k) == k.dry => k.phase \notin Applies \cup {"mkbase"}
DryStops == \A c \in Caller : Stops(call[c])

Others(c) == \A d \in Caller \ {c} :
               /\ call'[d] = call[d] /\ plan'[d] = plan[d] /\ result'[d] = result[d]
               /\ mk'[d] = mk[d] /\ up'[d] = up[d]

-----------------------------------------------------------------------------
\* Books over the steps of Apply.

LEMMA PathsWithout ==
  ASSUME NEW D \in SUBSET DeleteEntry, OnePerPath(D), NEW d \in D
  PROVE  /\ Paths(D \ {d}) = Paths(D) \ {d.path}
         /\ OnePerPath(D \ {d})
         /\ d.path \in Paths(D)
BY DEF Paths, OnePerPath

LEMMA PlanIsOnePerPath ==
  ASSUME NEW listing
  PROVE  OnePerPath(BuildPlan(local, listing, rules).ToDelete)
<1> DEFINE D == BuildPlan(local, listing, rules).ToDelete
           S == DeletablePaths(listing, Eligible(local, listing, rules))
<1>1. D = {[path |-> p, isDir |-> listing[p] = Dir] : p \in S}
  BY DEF BuildPlan
<1>2. \A d \in D : d = [path |-> d.path, isDir |-> listing[d.path] = Dir]
  BY <1>1
<1> QED
  BY <1>2 DEF OnePerPath

\* Apply starts with everything left.
LEMMA BooksOpen ==
  ASSUME NEW k \in CallRecord, NEW toDo \in PlanRecord, OnePerPath(toDo.ToDelete)
  PROVE  Book(Applying(k, toDo), toDo, NoResult)
<1> DEFINE n == Applying(k, toDo)
<1>1. /\ n.phase = "next" /\ n.uploads = toDo.ToUpload /\ n.deletes = toDo.ToDelete
  BY DEF Applying, CallRecord
<1>2. /\ Hand(n, {"mkdir", "upload"}) = {} /\ Hand(n, {"check", "remove"}) = {}
      /\ NoResult.uploaded = {} /\ NoResult.deleted = {}
      /\ \A a : FailedAs(NoResult, a) = {}
  BY <1>1 DEF Hand, NoResult, FailedAs
<1>3. Balanced(n, toDo, NoResult)
  BY <1>1, <1>2 DEF Balanced, Split
<1> QED
  BY <1>1, <1>3 DEF Book, Planning

\* An entry in hand is reported.
LEMMA BooksReport ==
  ASSUME NEW k \in CallRecord, NEW toDo, NEW r \in ResultRecord, Balanced(k, toDo, r),
         k.cur \in Entry, NEW n \in CallRecord, n = [k EXCEPT !.phase = "next"]
  PROVE  /\ k.phase \in {"mkdir", "upload"} =>
              /\ Balanced(n, toDo, [r EXCEPT !.uploaded = @ \cup {k.cur}])
              /\ Balanced(n, toDo, [r EXCEPT !.failed = @ \cup {<<k.cur, "mkdir">>}])
              /\ Balanced(n, toDo, [r EXCEPT !.failed = @ \cup {<<k.cur, "upload">>}])
         /\ k.phase \in {"check", "remove"} =>
              /\ Balanced(n, toDo, [r EXCEPT !.deleted = @ \cup {k.cur}])
              /\ Balanced(n, toDo, [r EXCEPT !.failed = @ \cup {<<k.cur, "delete">>}])
<1> DEFINE fail(a) == [r EXCEPT !.failed = @ \cup {<<k.cur, a>>}]
           upl == [r EXCEPT !.uploaded = @ \cup {k.cur}]
           del == [r EXCEPT !.deleted = @ \cup {k.cur}]
<1>1. /\ n.phase = "next" /\ n.uploads = k.uploads /\ n.deletes = k.deletes
      /\ Hand(n, {"mkdir", "upload"}) = {} /\ Hand(n, {"check", "remove"}) = {}
  BY DEF CallRecord, Hand
<1>2. ASSUME NEW a
      PROVE  /\ fail(a).uploaded = r.uploaded /\ fail(a).deleted = r.deleted
             /\ FailedAs(fail(a), a) = FailedAs(r, a) \cup {k.cur}
             /\ \A b : b # a => FailedAs(fail(a), b) = FailedAs(r, b)
  BY DEF ResultRecord, FailedAs
<1>3. /\ upl.uploaded = r.uploaded \cup {k.cur} /\ upl.deleted = r.deleted
      /\ del.deleted = r.deleted \cup {k.cur} /\ del.uploaded = r.uploaded
      /\ \A b : FailedAs(upl, b) = FailedAs(r, b) /\ FailedAs(del, b) = FailedAs(r, b)
  BY DEF ResultRecord, FailedAs
<1> HIDE DEF fail, upl, del
<1>4. CASE k.phase \in {"mkdir", "upload"}
  <2>1. /\ Hand(k, {"mkdir", "upload"}) = {k.cur} /\ Hand(k, {"check", "remove"}) = {}
    BY <1>4 DEF Hand
  <2>2. Split(toDo.ToUpload, k.uploads, {k.cur},
              r.uploaded, FailedAs(r, "mkdir"), FailedAs(r, "upload"))
    BY <2>1 DEF Balanced
  <2>3. /\ Split(toDo.ToUpload, k.uploads, {},
                 r.uploaded \cup {k.cur}, FailedAs(r, "mkdir"), FailedAs(r, "upload"))
        /\ Split(toDo.ToUpload, k.uploads, {},
                 r.uploaded, FailedAs(r, "mkdir") \cup {k.cur}, FailedAs(r, "upload"))
        /\ Split(toDo.ToUpload, k.uploads, {},
                 r.uploaded, FailedAs(r, "mkdir"), FailedAs(r, "upload") \cup {k.cur})
    BY <2>2, SplitEnds
  <2>4. /\ Split(Paths(toDo.ToDelete), Paths(n.deletes), Hand(n, {"check", "remove"}),
                 r.deleted, FailedAs(r, "delete"), {})
        /\ OnePerPath(n.deletes)
    BY <1>1, <2>1 DEF Balanced
  <2>5. Balanced(n, toDo, upl)
    BY <1>1, <1>3, <2>3, <2>4 DEF Balanced
  <2>6. Balanced(n, toDo, fail("mkdir"))
    BY <1>1, <1>2, <2>3, <2>4 DEF Balanced
  <2>7. Balanced(n, toDo, fail("upload"))
    BY <1>1, <1>2, <2>3, <2>4 DEF Balanced
  <2> QED
    BY <1>4, <2>5, <2>6, <2>7 DEF fail, upl
<1>5. CASE k.phase \in {"check", "remove"}
  <2>1. /\ Hand(k, {"mkdir", "upload"}) = {} /\ Hand(k, {"check", "remove"}) = {k.cur}
    BY <1>5 DEF Hand
  <2>2. Split(Paths(toDo.ToDelete), Paths(k.deletes), {k.cur},
              r.deleted, FailedAs(r, "delete"), {})
    BY <2>1 DEF Balanced
  <2>3. /\ Split(Paths(toDo.ToDelete), Paths(k.deletes), {},
                 r.deleted \cup {k.cur}, FailedAs(r, "delete"), {})
        /\ Split(Paths(toDo.ToDelete), Paths(k.deletes), {},
                 r.deleted, FailedAs(r, "delete") \cup {k.cur}, {})
    BY <2>2, SplitEnds
  <2>4. /\ Split(toDo.ToUpload, n.uploads, Hand(n, {"mkdir", "upload"}),
                 r.uploaded, FailedAs(r, "mkdir"), FailedAs(r, "upload"))
        /\ OnePerPath(n.deletes)
    BY <1>1, <2>1 DEF Balanced
  <2>5. Balanced(n, toDo, del)
    BY <1>1, <1>3, <2>3, <2>4 DEF Balanced
  <2>6. Balanced(n, toDo, fail("delete"))
    BY <1>1, <1>2, <2>3, <2>4 DEF Balanced
  <2> QED
    BY <1>5, <2>5, <2>6 DEF fail, del
<1> QED
  BY <1>4, <1>5

\* The next entry is taken from what is left.
LEMMA BooksTake ==
  ASSUME NEW k \in CallRecord, NEW toDo, NEW r, Balanced(k, toDo, r), k.phase = "next",
         NEW n \in CallRecord
  PROVE  /\ \A p \in k.uploads :
              /\ n.uploads = k.uploads \ {p} /\ n.deletes = k.deletes
              /\ n.cur = p /\ n.phase \in {"mkdir", "upload"}
              => Balanced(n, toDo, r)
         /\ \A d \in k.deletes :
              /\ n.uploads = k.uploads /\ n.deletes = k.deletes \ {d}
              /\ n.cur = d.path /\ n.phase = "check"
              => Balanced(n, toDo, r)
<1>1. Hand(k, {"mkdir", "upload"}) = {} /\ Hand(k, {"check", "remove"}) = {}
  BY DEF Hand
<1>2. ASSUME NEW p \in k.uploads, n.uploads = k.uploads \ {p}, n.deletes = k.deletes,
             n.cur = p, n.phase \in {"mkdir", "upload"}
      PROVE  Balanced(n, toDo, r)
  <2>1. Hand(n, {"mkdir", "upload"}) = {p} /\ Hand(n, {"check", "remove"}) = {}
    BY <1>2 DEF Hand
  <2> QED
    BY <1>1, <1>2, <2>1, SplitTakes DEF Balanced
<1>3. ASSUME NEW d \in k.deletes, n.uploads = k.uploads, n.deletes = k.deletes \ {d},
             n.cur = d.path, n.phase = "check"
      PROVE  Balanced(n, toDo, r)
  <2>1. Hand(n, {"mkdir", "upload"}) = {} /\ Hand(n, {"check", "remove"}) = {d.path}
    BY <1>3 DEF Hand
  <2>2. /\ Paths(n.deletes) = Paths(k.deletes) \ {d.path} /\ OnePerPath(n.deletes)
        /\ d.path \in Paths(k.deletes)
    BY <1>3, PathsWithout DEF Balanced, CallRecord
  <2>3. Split(Paths(toDo.ToDelete), Paths(n.deletes), {d.path},
              r.deleted, FailedAs(r, "delete"), {})
    BY <1>1, <2>2, SplitTakes DEF Balanced
  <2> QED
    BY <1>1, <1>3, <2>1, <2>2, <2>3 DEF Balanced
<1> QED
  BY <1>2, <1>3

-----------------------------------------------------------------------------
\* A step of a call concerns that call alone.

LEMMA UploadStepOfOne ==
  ASSUME up \in [Caller -> UploadRecord], NEW c \in Caller, NEW d \in Caller \ {c},
         UploadStep(c) \/ \E p, q \in Entry : UploadStart(c, p, q)
  PROVE  up'[d] = up[d]
<1>1. CASE UploadStep(c)
  BY <1>1 DEF UploadStep, WriteTemp, PosixRename, PlainRename, ClearDestination,
     RenameAgain, Cleanup, RenameBy, MoveOn
<1>2. ASSUME NEW p \in Entry, NEW q \in Entry, UploadStart(c, p, q) PROVE up'[d] = up[d]
  BY <1>2 DEF UploadStart
<1> QED
  BY <1>1, <1>2

LEMMA MkdirStepOfOne ==
  ASSUME DOMAIN mk = Caller, NEW c \in Caller, NEW d \in Caller \ {c}, MkdirStep(c)
  PROVE  mk'[d] = mk[d]
BY DEF MkdirStep, MkdirStat, MkdirMake, MkdirChmod, MkdirRecheck

LEMMA CallStepOfOne ==
  ASSUME TypeInv, NEW c \in Caller, CallStep(c)
  PROVE  Others(c)
<1> SUFFICES ASSUME NEW d \in Caller \ {c}
             PROVE  /\ call'[d] = call[d] /\ plan'[d] = plan[d] /\ result'[d] = result[d]
                    /\ mk'[d] = mk[d] /\ up'[d] = up[d]
  BY DEF Others
<1>0. /\ call \in [Caller -> CallRecord] /\ plan \in [Caller -> PlanRecord]
      /\ result \in [Caller -> ResultRecord]
      /\ up \in [Caller -> UploadRecord] /\ DOMAIN mk = Caller
  BY DEF TypeInv, TypeOK, UploadTypeOK, MkdirTypeOK
<1>1. CASE StatBase(c)
  BY <1>0, <1>1 DEF StatBase, Goto
<1>2. CASE MakeBase(c)
  BY <1>0, <1>2, MkdirStepOfOne DEF MakeBase, Goto
<1>3. CASE ResolveBase(c) \/ List(c)
  BY <1>0, <1>3 DEF ResolveBase, List
<1>4. CASE Plan(c) \/ PlanFails(c)
  BY <1>0, <1>4 DEF Plan, PlanFails, Goto
<1>5. CASE NextEntry(c)
  BY <1>0, <1>5 DEF NextEntry, Goto
<1>6. CASE MakeParents(c)
  BY <1>0, <1>6, MkdirStepOfOne DEF MakeParents, Fail, Goto
<1>7. CASE UploadEntry(c)
  <2>1. call[c].cur \in Entry
    BY <1>7, TypeInvParts, CallIsGood, TempsAreEntries DEF GoodCall, UploadEntry
  <2>2. up'[d] = up[d]
    BY <1>0, <1>7, <2>1, UploadStepOfOne DEF UploadEntry
  <2> QED
    BY <1>0, <1>7, <2>2 DEF UploadEntry, Fail, Goto
<1>8. CASE CheckDelete(c) \/ RemoveEntry(c)
  BY <1>0, <1>8 DEF CheckDelete, RemoveEntry, Fail, Goto
<1> QED
  BY <1>1, <1>2, <1>3, <1>4, <1>5, <1>6, <1>7, <1>8 DEF CallStep

LEMMA BeginAndCrashOfOne ==
  ASSUME TypeInv, NEW c \in Caller, Crash(c) \/ \E dry \in BOOLEAN : Begin(c, dry)
  PROVE  Others(c)
BY DEF Crash, Begin, Others, TypeInv, TypeOK, UploadTypeOK, MkdirTypeOK

-----------------------------------------------------------------------------
\* The books over the steps of a call.

MyBook(c) == Book(call[c], plan[c], result[c])

LEMMA BookUpdate ==
  ASSUME BooksBalance, NEW c \in Caller, Others(c), MyBook(c)'
  PROVE  BooksBalance'
BY DEF BooksBalance, Others, MyBook

LEMMA FailKeepsBook ==
  ASSUME TypeInv, NEW c \in Caller, MyBook(c), NEW action, UNCHANGED plan,
         Fail(c, action), call[c].cur \in Entry,
         \/ call[c].phase \in {"mkdir", "upload"} /\ action \in {"mkdir", "upload"}
         \/ call[c].phase \in {"check", "remove"} /\ action = "delete"
  PROVE  MyBook(c)'
<1> DEFINE k == call[c]
           r == result[c]
           n == [k EXCEPT !.phase = "next"]
           f == [r EXCEPT !.failed = @ \cup {<<k.cur, action>>}]
<1>1. k \in CallRecord /\ r \in ResultRecord /\ Balanced(k, plan[c], r)
  BY DEF TypeInv, TypeOK, MyBook, Book, Applies
<1>2. n \in CallRecord /\ n.phase = "next"
  BY <1>1 DEF CallRecord, Active
<1>3. Balanced(n, plan[c], f)
  BY <1>1, <1>2, BooksReport
<1>4. call'[c] = n /\ result'[c] = f /\ plan'[c] = plan[c]
  BY DEF Fail, Goto, TypeInv, TypeOK
<1>5. Book(n, plan[c], f)
  BY <1>2, <1>3 DEF Book, Planning
<1> HIDE DEF n, f
<1> QED
  BY <1>4, <1>5 DEF MyBook

\* One step of Apply's bodies: it goes on with its entry, or reports it.
LEMMA BodyKeepsBook ==
  ASSUME TypeInv, NEW c \in Caller, MyBook(c),
         MakeParents(c) \/ UploadEntry(c) \/ CheckDelete(c) \/ RemoveEntry(c)
  PROVE  MyBook(c)'
<1> DEFINE k == call[c]
           r == result[c]
<1>0. /\ k \in CallRecord /\ r \in ResultRecord /\ GoodCall(k)
      /\ call \in [Caller -> CallRecord] /\ result \in [Caller -> ResultRecord]
  BY TypeInvParts, CallIsGood DEF TypeInv, TypeOK
<1>1. /\ k.phase \in Applies \ {"next"} /\ UNCHANGED plan
  BY DEF MakeParents, UploadEntry, CheckDelete, RemoveEntry, Applies
<1>2. k.cur \in Entry
  BY <1>0, <1>1, TempsAreEntries DEF GoodCall, Applies
<1>3. Balanced(k, plan[c], r)
  BY <1>1 DEF MyBook, Book
<1>4. \/ UNCHANGED <<call, result>>
      \/ /\ \/ k.phase = "mkdir" /\ call'[c].phase = "upload"
            \/ k.phase = "check" /\ call'[c].phase = "remove"
         /\ call'[c].cur = k.cur
         /\ call'[c].uploads = k.uploads /\ call'[c].deletes = k.deletes
         /\ UNCHANGED result
      \/ /\ k.phase = "mkdir" /\ Fail(c, "mkdir")
      \/ /\ k.phase = "upload" /\ Fail(c, "upload")
      \/ /\ k.phase \in {"check", "remove"} /\ Fail(c, "delete")
      \/ /\ k.phase = "upload" /\ Goto(c, "next")
         /\ result' = [result EXCEPT ![c].uploaded = @ \cup {k.cur}]
      \/ /\ k.phase = "remove" /\ Goto(c, "next")
         /\ result' = [result EXCEPT ![c].deleted = @ \cup {k.cur}]
  <2>1. CASE MakeParents(c)
    <3>1. CASE call' = [call EXCEPT ![c].phase = "upload",
                                    ![c].made = @ \cup {Parent(call[c].cur)}]
               /\ UNCHANGED result
      <4> DEFINE n == [k EXCEPT !.phase = "upload", !.made = @ \cup {Parent(k.cur)}]
      <4>1. call' = [call EXCEPT ![c] = n]
        BY <3>1
      <4>2. /\ call'[c] = n /\ n.phase = "upload" /\ n.cur = k.cur
            /\ n.uploads = k.uploads /\ n.deletes = k.deletes
        BY <1>0, <4>1 DEF CallRecord
      <4>3. /\ k.phase = "mkdir" /\ UNCHANGED result
        BY <2>1, <3>1 DEF MakeParents
      <4> HIDE DEF n
      <4> QED
        BY <4>2, <4>3
    <3> QED
      BY <2>1, <3>1 DEF MakeParents
  <2>2. CASE UploadEntry(c)
    BY <2>2 DEF UploadEntry
  <2>3. CASE CheckDelete(c)
    <3>1. CASE Goto(c, "remove") /\ UNCHANGED result
      BY <1>0, <2>3, <3>1 DEF CheckDelete, Goto, CallRecord, Applies
    <3> QED
      BY <2>3, <3>1 DEF CheckDelete
  <2>4. CASE RemoveEntry(c)
    BY <2>4 DEF RemoveEntry
  <2> QED
    BY <2>1, <2>2, <2>3, <2>4
<1>5. CASE UNCHANGED <<call, result>>
  BY <1>1, <1>5 DEF MyBook
<1>6. ASSUME \/ k.phase = "mkdir" /\ call'[c].phase = "upload"
             \/ k.phase = "check" /\ call'[c].phase = "remove",
             call'[c].cur = k.cur,
             call'[c].uploads = k.uploads, call'[c].deletes = k.deletes,
             UNCHANGED result
      PROVE  MyBook(c)'
  <2> DEFINE n == call'[c]
  <2>1. /\ Hand(n, {"mkdir", "upload"}) = Hand(k, {"mkdir", "upload"})
        /\ Hand(n, {"check", "remove"}) = Hand(k, {"check", "remove"})
    BY <1>6 DEF Hand
  <2>2. Balanced(n, plan[c], r)
    BY <1>3, <1>6, <2>1 DEF Balanced
  <2>3. Book(n, plan[c], r)
    BY <1>6, <2>2 DEF Book, Applies, Planning
  <2>4. plan'[c] = plan[c] /\ result'[c] = r
    BY <1>1, <1>6
  <2> QED
    BY <2>3, <2>4 DEF MyBook
<1>7. ASSUME NEW n, n = [k EXCEPT !.phase = "next"], NEW f, Balanced(n, plan[c], f),
             call'[c] = n, result'[c] = f
      PROVE  MyBook(c)'
  <2>1. n.phase = "next" /\ plan'[c] = plan[c]
    BY <1>0, <1>1, <1>7 DEF CallRecord
  <2> QED
    BY <1>7, <2>1 DEF MyBook, Book, Planning
<1>8. [k EXCEPT !.phase = "next"] \in CallRecord
  BY <1>0 DEF CallRecord, Active
<1>9. CASE /\ k.phase = "upload" /\ Goto(c, "next")
           /\ result' = [result EXCEPT ![c].uploaded = @ \cup {k.cur}]
  <2>1. Balanced([k EXCEPT !.phase = "next"], plan[c],
                 [r EXCEPT !.uploaded = @ \cup {k.cur}])
    BY <1>0, <1>2, <1>3, <1>8, <1>9, BooksReport
  <2>2. /\ call'[c] = [k EXCEPT !.phase = "next"]
        /\ result'[c] = [r EXCEPT !.uploaded = @ \cup {k.cur}]
    BY <1>0, <1>9 DEF Goto
  <2> QED
    BY <1>7, <2>1, <2>2
<1>10. CASE /\ k.phase = "remove" /\ Goto(c, "next")
            /\ result' = [result EXCEPT ![c].deleted = @ \cup {k.cur}]
  <2>1. Balanced([k EXCEPT !.phase = "next"], plan[c],
                 [r EXCEPT !.deleted = @ \cup {k.cur}])
    BY <1>0, <1>2, <1>3, <1>8, <1>10, BooksReport
  <2>2. /\ call'[c] = [k EXCEPT !.phase = "next"]
        /\ result'[c] = [r EXCEPT !.deleted = @ \cup {k.cur}]
    BY <1>0, <1>10 DEF Goto
  <2> QED
    BY <1>7, <2>1, <2>2
<1> QED
  BY <1>1, <1>2, <1>4, <1>5, <1>6, <1>9, <1>10, FailKeepsBook

LEMMA NextEntryKeepsBook ==
  ASSUME TypeInv, NEW c \in Caller, MyBook(c), NextEntry(c)
  PROVE  MyBook(c)'
<1> DEFINE k == call[c]
           r == result[c]
<1>0. k \in CallRecord /\ call \in [Caller -> CallRecord] /\ call' \in [Caller -> CallRecord]
  BY NextEntryTypes DEF TypeInv, TypeOK
<1>1. /\ k.phase = "next" /\ UNCHANGED <<plan, result>>
      /\ Balanced(k, plan[c], r)
  BY DEF NextEntry, MyBook, Book, Applies
<1>2. ASSUME NEW n \in CallRecord, call'[c] = n, Balanced(n, plan[c], r),
             n.phase \in {"mkdir", "upload", "check"}
      PROVE  MyBook(c)'
  BY <1>1, <1>2 DEF MyBook, Book, Planning
<1>3. ASSUME NEW p \in k.uploads,
             call' = [call EXCEPT ![c] =
               [k EXCEPT !.uploads = @ \ {p}, !.cur = p,
                         !.phase = IF Parent(p) \in k.made THEN "upload" ELSE "mkdir"]]
      PROVE  MyBook(c)'
  <2>1. /\ call'[c].uploads = k.uploads \ {p} /\ call'[c].deletes = k.deletes
        /\ call'[c].cur = p /\ call'[c].phase \in {"mkdir", "upload"}
    BY <1>0, <1>3 DEF CallRecord
  <2>2. Balanced(call'[c], plan[c], r)
    BY <1>0, <1>1, <2>1, BooksTake
  <2> QED
    BY <1>0, <1>2, <2>1, <2>2
<1>4. ASSUME NEW d \in DeletableNow(k.deletes),
             call' = [call EXCEPT ![c] =
               [k EXCEPT !.deletes = @ \ {d}, !.cur = d.path, !.isDir = d.isDir,
                         !.phase = "check"]]
      PROVE  MyBook(c)'
  <2>1. /\ call'[c].uploads = k.uploads /\ call'[c].deletes = k.deletes \ {d}
        /\ call'[c].cur = d.path /\ call'[c].phase = "check" /\ d \in k.deletes
    BY <1>0, <1>4 DEF CallRecord, DeletableNow
  <2>2. Balanced(call'[c], plan[c], r)
    BY <1>0, <1>1, <2>1, BooksTake
  <2> QED
    BY <1>0, <1>2, <2>1, <2>2
<1>5. ASSUME k.uploads = {}, k.deletes = {}, Goto(c, "done") PROVE MyBook(c)'
  <2> DEFINE n == call'[c]
  <2>1. /\ n.phase = "done" /\ n.uploads = k.uploads /\ n.deletes = k.deletes
    BY <1>0, <1>5 DEF Goto, CallRecord
  <2>2. /\ Hand(n, {"mkdir", "upload"}) = Hand(k, {"mkdir", "upload"})
        /\ Hand(n, {"check", "remove"}) = Hand(k, {"check", "remove"})
    BY <1>1, <2>1 DEF Hand
  <2>3. Balanced(n, plan[c], r)
    BY <1>1, <2>1, <2>2 DEF Balanced
  <2>4. Book(n, plan[c], r)
    BY <1>5, <2>1, <2>3 DEF Book, Applies, Planning
  <2> QED
    BY <1>1, <2>4 DEF MyBook
<1> QED
  BY <1>3, <1>4, <1>5 DEF NextEntry

LEMMA ListGoesOn ==
  ASSUME TypeInv, NEW c \in Caller, List(c)
  PROVE  /\ call'[c].phase \in {"list", "plan", "error"}
         /\ call'[c].uploads = call[c].uploads /\ call'[c].deletes = call[c].deletes
<1> DEFINE k == call[c]
           left(d, reply) == (k.todo \ {d}) \cup {p \in DOMAIN reply : reply[p] = Dir}
           seen(reply) == [p \in Path |-> IF p \in DOMAIN reply THEN reply[p]
                                                               ELSE k.listing[p]]
           next(d, reply) ==
             [k EXCEPT !.listing = seen(reply), !.todo = left(d, reply),
                       !.phase = IF left(d, reply) = {} THEN "plan" ELSE "list"]
<1>0. k \in CallRecord /\ call \in [Caller -> CallRecord]
  BY DEF TypeInv, TypeOK
<1>1. PICK d \in k.todo : \E reply \in ReadDirReplies(d), ok \in BOOLEAN :
        call' = [call EXCEPT ![c] = IF ok THEN next(d, reply)
                                    ELSE [k EXCEPT !.phase = "error"]]
  BY DEF List
<1>2. PICK reply \in ReadDirReplies(d), ok \in BOOLEAN :
        call'[c] = IF ok THEN next(d, reply) ELSE [k EXCEPT !.phase = "error"]
  BY <1>0, <1>1
<1>3. /\ next(d, reply).phase \in {"plan", "list"}
      /\ next(d, reply).uploads = k.uploads /\ next(d, reply).deletes = k.deletes
  <2> DEFINE sn == seen(reply)
             lf == left(d, reply)
             n == [k EXCEPT !.listing = sn, !.todo = lf,
                            !.phase = IF lf = {} THEN "plan" ELSE "list"]
  <2> HIDE DEF sn, lf
  <2>1. /\ n.phase \in {"plan", "list"}
        /\ n.uploads = k.uploads /\ n.deletes = k.deletes
    BY <1>0 DEF CallRecord
  <2> QED
    BY <2>1 DEF sn, lf
<1> QED
  BY <1>0, <1>2, <1>3 DEF CallRecord

\* Up to the plan nothing is reported; with it, all of it is left.
LEMMA PlanningKeepsBook ==
  ASSUME TypeInv, NEW c \in Caller, MyBook(c),
         StatBase(c) \/ MakeBase(c) \/ ResolveBase(c) \/ List(c) \/ Plan(c) \/ PlanFails(c)
  PROVE  MyBook(c)'
<1> DEFINE k == call[c]
<1>0. /\ k \in CallRecord /\ call \in [Caller -> CallRecord]
      /\ plan \in [Caller -> PlanRecord] /\ Clean(local)
  BY DEF TypeInv, TypeOK
<1>1. k.phase \in Planning /\ UNCHANGED result
  BY DEF StatBase, MakeBase, ResolveBase, List, Plan, PlanFails, Planning
<1>2. result[c] = NoResult /\ result'[c] = NoResult
  BY <1>1 DEF MyBook, Book
<1>3. ASSUME call'[c].phase \in Planning \cup {"error"} PROVE MyBook(c)'
  BY <1>2, <1>3 DEF MyBook, Book, Planning, Applies
<1>4. CASE StatBase(c) \/ MakeBase(c) \/ PlanFails(c)
  <2>1. call' = call \/ \E n \in Planning \cup {"error"} : Goto(c, n)
    BY <1>4 DEF StatBase, MakeBase, PlanFails, Planning
  <2>2. call'[c].phase \in Planning \cup {"error"}
    BY <1>0, <1>1, <2>1 DEF Goto, CallRecord
  <2> QED
    BY <1>3, <2>2
<1>5. CASE ResolveBase(c)
  <2>1. call'[c].phase \in Planning \cup {"error"}
    BY <1>0, <1>5 DEF ResolveBase, Planning, CallRecord
  <2> QED
    BY <1>3, <2>1
<1>6. CASE List(c)
  <2>1. call'[c].phase \in Planning \cup {"error"}
    BY <1>6, ListGoesOn DEF Planning
  <2> QED
    BY <1>3, <2>1
<1>7. CASE Plan(c)
  <2> DEFINE p == BuildPlan(local, k.listing, rules)
  <2>1. plan'[c] = p /\ call'[c] = Planned(k, p)
    BY <1>0, <1>7 DEF Plan
  <2>2. p \in PlanRecord /\ OnePerPath(p.ToDelete)
    BY <1>0, PlanTypes, PlanIsOnePerPath DEF CallRecord
  <2> HIDE DEF p
  <2>3. Book(Planned(k, p), p, NoResult)
    <3>1. CASE k.dry
      <4>1. Planned(k, p).phase = "done" /\ Planned(k, p).dry
        BY <1>0, <3>1 DEF Planned, CallRecord
      <4> QED
        BY <4>1 DEF Book, Planning, Applies
    <3>2. CASE ~k.dry
      BY <1>0, <2>2, <3>2, BooksOpen DEF Planned
    <3> QED
      BY <3>1, <3>2
  <2> QED
    BY <1>2, <2>1, <2>3 DEF MyBook
<1> QED
  BY <1>4, <1>5, <1>6, <1>7

LEMMA CallStepKeepsBook ==
  ASSUME TypeInv, NEW c \in Caller, MyBook(c), CallStep(c)
  PROVE  MyBook(c)'
BY PlanningKeepsBook, NextEntryKeepsBook, BodyKeepsBook DEF CallStep

LEMMA NextKeepsBooks == TypeInv /\ BooksBalance /\ [Next]_vars => BooksBalance'
<1> SUFFICES ASSUME TypeInv, BooksBalance, [Next]_vars PROVE BooksBalance'
  OBVIOUS
<1>0. /\ call \in [Caller -> CallRecord] /\ plan \in [Caller -> PlanRecord]
      /\ result \in [Caller -> ResultRecord]
  BY DEF TypeInv, TypeOK
<1>1. ASSUME NEW c \in Caller, CallStep(c) PROVE BooksBalance'
  <2>1. MyBook(c)'
    <3>1. MyBook(c)
      BY DEF BooksBalance, MyBook
    <3> QED
      BY <1>1, <3>1, CallStepKeepsBook
  <2> QED
    BY <1>1, <2>1, CallStepOfOne, BookUpdate
<1>2. ASSUME NEW c \in Caller, NEW dry \in BOOLEAN, Begin(c, dry) PROVE BooksBalance'
  <2>1. call'[c].phase = "stat" /\ result'[c] = NoResult
    BY <1>0, <1>2 DEF Begin, Idle
  <2>2. MyBook(c)'
    BY <2>1 DEF MyBook, Book, Applies
  <2> QED
    BY <1>2, <2>2, BeginAndCrashOfOne, BookUpdate
<1>3. ASSUME NEW c \in Caller, Crash(c) PROVE BooksBalance'
  <2>1. call'[c].phase = "crashed"
    BY <1>0, <1>3 DEF Crash, Idle
  <2>2. MyBook(c)'
    BY <2>1 DEF MyBook, Book, Planning, Applies
  <2> QED
    BY <1>3, <2>2, BeginAndCrashOfOne, BookUpdate
<1>4. ASSUME Environment \/ UNCHANGED vars PROVE BooksBalance'
  BY <1>4 DEF Environment, EditLocal, ChangeRemote, Tick, vars, own, BooksBalance
<1> QED
  BY <1>1, <1>2, <1>3, <1>4, InitAssumption DEF Next

\* When a call of sync is over, each entry of its plan is reported exactly once
\* (Accounting), for any number of calls, faults, crashes and changes.
THEOREM EveryEntryIsAccounted == Spec => []Accounting
<1>1. Init => TypeInv /\ BooksBalance
  BY InitTypes DEF Init, BooksBalance, Book, Idle, Planning, Applies
<1>2. TypeInv /\ BooksBalance /\ [Next]_vars => TypeInv' /\ BooksBalance'
  BY NextTypes, NextKeepsBooks
<1>3. TypeInv /\ BooksBalance => Accounting
  <2> SUFFICES ASSUME TypeInv, BooksBalance, NEW c \in Caller,
                      call[c].phase = "done", ~call[c].dry
               PROVE  LET r == result[c]
                          notUploaded == FailedPaths(c, {"mkdir", "upload"})
                          notDeleted  == FailedPaths(c, {"delete"})
                          toDelete    == {d.path : d \in plan[c].ToDelete}
                      IN  /\ r.uploaded \cup notUploaded = plan[c].ToUpload
                          /\ r.deleted \cup notDeleted = toDelete
                          /\ r.uploaded \cap notUploaded = {}
                          /\ r.deleted \cap notDeleted = {}
                          /\ FailedPaths(c, {"mkdir"}) \cap FailedPaths(c, {"upload"}) = {}
    BY DEF Accounting
  <2> DEFINE k == call[c]
             r == result[c]
  <2>1. Balanced(k, plan[c], r) /\ k.uploads = {} /\ k.deletes = {}
    BY DEF BooksBalance, Book
  <2>2. /\ Hand(k, {"mkdir", "upload"}) = {} /\ Hand(k, {"check", "remove"}) = {}
        /\ Paths(k.deletes) = {}
    BY <2>1 DEF Hand, Paths
  <2>3. /\ Split(plan[c].ToUpload, {}, {}, r.uploaded, FailedAs(r, "mkdir"), FailedAs(r, "upload"))
        /\ Split(Paths(plan[c].ToDelete), {}, {}, r.deleted, FailedAs(r, "delete"), {})
    BY <2>1, <2>2 DEF Balanced
  <2>4. /\ FailedPaths(c, {"mkdir", "upload"}) = FailedAs(r, "mkdir") \cup FailedAs(r, "upload")
        /\ FailedPaths(c, {"delete"}) = FailedAs(r, "delete")
        /\ FailedPaths(c, {"mkdir"}) = FailedAs(r, "mkdir")
        /\ FailedPaths(c, {"upload"}) = FailedAs(r, "upload")
    BY DEF FailedPaths, FailedAs
  <2> QED
    BY <2>3, <2>4 DEF Split, Paths
<1> QED
  BY <1>1, <1>2, <1>3, PTL DEF Spec

-----------------------------------------------------------------------------
(***************************************************************************)
(* A dry run.                                                              *)
(***************************************************************************)
LEMMA CallStepStops ==
  ASSUME TypeInv, NEW c \in Caller, Stops(call[c]), CallStep(c)
  PROVE  Stops(call'[c])
<1>0. call \in [Caller -> CallRecord]
  BY DEF TypeInv, TypeOK
<1>1. CASE StatBase(c)
  <2>1. \E n \in {"error", "realpath", "plan", "mkbase"} :
          Goto(c, n) /\ (n = "mkbase" => ~call[c].dry)
    BY <1>1 DEF StatBase
  <2> QED
    BY <1>0, <2>1 DEF Goto, CallRecord, Applies, Stops
<1>2. CASE MakeBase(c) \/ PlanFails(c)
  <2>1. call' = call \/ \E n \in {"error", "realpath"} : Goto(c, n)
    BY <1>2 DEF MakeBase, PlanFails
  <2> QED
    BY <1>0, <2>1 DEF Goto, CallRecord, Applies, Stops
<1>3. CASE ResolveBase(c)
  BY <1>0, <1>3 DEF ResolveBase, CallRecord, Applies, Stops
<1>4. CASE List(c)
  BY <1>4, ListGoesOn DEF Applies, Stops
<1>5. CASE Plan(c)
  BY <1>0, <1>5 DEF Plan, Planned, Applying, CallRecord, Applies, Stops
<1>6. CASE NextEntry(c)
  <2>1. ~call[c].dry
    BY <1>6 DEF NextEntry, Stops, Applies
  <2> DEFINE k == call[c]
  <2>2. ASSUME NEW p,
               call' = [call EXCEPT ![c] =
                 [k EXCEPT !.uploads = @ \ {p}, !.cur = p,
                           !.phase = IF Parent(p) \in k.made THEN "upload" ELSE "mkdir"]]
        PROVE  ~call'[c].dry
    BY <1>0, <2>1, <2>2 DEF CallRecord
  <2>3. ASSUME NEW d,
               call' = [call EXCEPT ![c] =
                 [k EXCEPT !.deletes = @ \ {d}, !.cur = d.path, !.isDir = d.isDir,
                           !.phase = "check"]]
        PROVE  ~call'[c].dry
    BY <1>0, <2>1, <2>3 DEF CallRecord
  <2>4. ASSUME Goto(c, "done") PROVE ~call'[c].dry
    BY <1>0, <2>1, <2>4 DEF Goto, CallRecord
  <2> QED
    BY <1>6, <2>2, <2>3, <2>4 DEF NextEntry, Stops
<1>7. CASE MakeParents(c) \/ UploadEntry(c) \/ CheckDelete(c) \/ RemoveEntry(c)
  <2>1. ~call[c].dry
    BY <1>7 DEF MakeParents, UploadEntry, CheckDelete, RemoveEntry, Stops, Applies
  <2>2. CASE call' = [call EXCEPT ![c].phase = "upload",
                                  ![c].made = @ \cup {Parent(call[c].cur)}]
    <3> DEFINE n == [call[c] EXCEPT !.phase = "upload",
                                    !.made = @ \cup {Parent(call[c].cur)}]
    <3>1. call' = [call EXCEPT ![c] = n]
      BY <2>2
    <3> QED
      BY <1>0, <2>1, <3>1 DEF CallRecord, Stops
  <2>3. CASE call' = call \/ \E n \in {"next", "remove"} : Goto(c, n)
    BY <1>0, <2>1, <2>3 DEF Goto, CallRecord, Stops
  <2> QED
    BY <1>7, <2>2, <2>3 DEF MakeParents, UploadEntry, CheckDelete, RemoveEntry, Fail
<1> QED
  BY <1>1, <1>2, <1>3, <1>4, <1>5, <1>6, <1>7 DEF CallStep

LEMMA NextKeepsDry == TypeInv /\ DryStops /\ [Next]_vars => DryStops'
<1> SUFFICES ASSUME TypeInv, DryStops, [Next]_vars PROVE DryStops'
  OBVIOUS
<1>0. call \in [Caller -> CallRecord]
  BY DEF TypeInv, TypeOK
<1>1. ASSUME NEW c \in Caller, Others(c), Stops(call'[c]) PROVE DryStops'
  BY <1>1 DEF DryStops, Stops, Others
<1>2. ASSUME NEW c \in Caller, CallStep(c) PROVE DryStops'
  BY <1>1, <1>2, CallStepOfOne, CallStepStops DEF DryStops
<1>3. ASSUME NEW c \in Caller, Crash(c) \/ \E dry \in BOOLEAN : Begin(c, dry)
      PROVE  DryStops'
  <2>1. call'[c].phase \in {"crashed", "stat"}
    BY <1>0, <1>3 DEF Crash, Begin, Idle
  <2> QED
    BY <1>1, <1>3, <2>1, BeginAndCrashOfOne DEF Applies, Stops
<1>4. ASSUME Environment \/ UNCHANGED vars PROVE DryStops'
  BY <1>4 DEF Environment, EditLocal, ChangeRemote, Tick, vars, own, DryStops, Stops
<1> QED
  BY <1>2, <1>3, <1>4, InitAssumption DEF Next

\* The requests of a call that only reads.
LEMMA DryStepOnlyReads ==
  ASSUME NEW c \in Caller, Stops(call[c]), CallStep(c), call[c].dry
  PROVE  fs' = fs
<1>1. call[c].phase \notin Applies \cup {"mkbase"}
  BY DEF Stops
<1>2. StatBase(c) \/ ResolveBase(c) \/ List(c) \/ Plan(c) \/ PlanFails(c)
  BY <1>1 DEF CallStep, MakeBase, NextEntry, MakeParents, UploadEntry, CheckDelete,
     RemoveEntry, Applies
<1>3. CASE StatBase(c) \/ ResolveBase(c)
  BY <1>3 DEF StatBase, ResolveBase, Ask, Request
<1>4. CASE List(c)
  BY <1>4 DEF List, Ask, Request
<1>5. CASE Plan(c) \/ PlanFails(c)
  BY <1>5 DEF Plan, PlanFails, session
<1> QED
  BY <1>2, <1>3, <1>4, <1>5

\* A dry run never changes anything on the VM (DryRunWritesNothing), whatever
\* it finds there and whatever else goes on.
THEOREM DryRunsOnlyRead == Spec => DryRunWritesNothing
<1>1. Init => TypeInv /\ DryStops
  BY InitTypes DEF Init, DryStops, Stops, Idle
<1>2. TypeInv /\ DryStops /\ [Next]_vars => TypeInv' /\ DryStops'
  BY NextTypes, NextKeepsDry
<1>3. ASSUME TypeInv, DryStops, [Next]_vars, NEW c \in Caller,
             call[c].dry, call[c].phase \in Active, Moves(c)
      PROVE  fs' = fs
  <2>1. ASSUME NEW d \in Caller, CallStep(d) PROVE fs' = fs
    <3>1. CASE d = c
      BY <1>3, <2>1, <3>1, DryStepOnlyReads DEF DryStops
    <3>2. CASE d # c
      BY <1>3, <2>1, <3>2, CallStepOfOne DEF Others, Moves
    <3> QED
      BY <3>1, <3>2
  <2>2. ASSUME NEW d \in Caller, Crash(d) \/ \E dry \in BOOLEAN : Begin(d, dry)
        PROVE  fs' = fs
    BY <2>2 DEF Crash, Begin, session
  <2>3. ASSUME Environment \/ UNCHANGED vars PROVE FALSE
    BY <1>3, <2>3 DEF Environment, EditLocal, ChangeRemote, Tick, vars, own, Moves
  <2> QED
    BY <1>3, <2>1, <2>2, <2>3, InitAssumption DEF Next
<1>4. TypeInv /\ DryStops /\ [Next]_vars =>
        [\A c \in Caller : call[c].dry /\ call[c].phase \in Active /\ Moves(c)
                           => fs' = fs]_vars
  BY <1>3
<1> QED
  BY <1>1, <1>2, <1>4, PTL DEF Spec, DryRunWritesNothing

-----------------------------------------------------------------------------
(***************************************************************************)
(* All that one step of a call can do to the tree.                         *)
(***************************************************************************)
WritesUpload(c) ==
  \/ \E d \in Content \cup {Torn} : fs' = [fs EXCEPT ![up[c].tmp] = File(d, Stamp)]
  \/ fs' = Moved(fs, up[c].tmp, up[c].dst)
  \/ fs' = Without(fs, up[c].dst)
  \/ fs' = Without(fs, up[c].tmp)

Writes(c) ==
  \/ fs' = fs
  \/ /\ mk[c].at \in MkdirStages
     /\ fs[mk[c].dir] = Absent
     /\ fs' = [fs EXCEPT ![mk[c].dir] = Dir]
  \/ \E t \in Temps : fs[t] = Absent /\ fs' = [fs EXCEPT ![t] = File(Torn, Stamp)]
  \/ Busy(c) /\ WritesUpload(c)
  \/ /\ call[c].phase = "remove"
     /\ call[c].isDir => IsEmptyDir(fs, call[c].cur)
     /\ fs' = Without(fs, call[c].cur)

LEMMA MkdirWrites ==
  ASSUME NEW c \in Caller, MkdirStep(c)
  PROVE  Writes(c)
<1>1. CASE MkdirMake(c)
  <2>1. PICK ok \in BOOLEAN :
          RequestAt(c, ok, mk[c].dir, CanMkdir(mk[c].dir), [fs EXCEPT ![mk[c].dir] = Dir])
    BY <1>1 DEF MkdirMake
  <2>2. CanMkdir(mk[c].dir) \in BOOLEAN
    BY DEF CanMkdir
  <2>3. fs' = fs \/ (fs' = [fs EXCEPT ![mk[c].dir] = Dir] /\ CanMkdir(mk[c].dir))
    BY <2>1, <2>2, RequestAtEffect
  <2> QED
    BY <1>1, <2>3 DEF Writes, CanMkdir, MkdirMake, MkdirStages
<1>2. CASE MkdirStat(c) \/ MkdirRecheck(c)
  BY <1>2 DEF MkdirStat, MkdirRecheck, Ask, Request, Writes
<1>3. CASE MkdirChmod(c)
  BY <1>3 DEF MkdirChmod, RequestAt, Request, Writes
<1> QED
  BY <1>1, <1>2, <1>3 DEF MkdirStep

LEMMA UploadWrites ==
  ASSUME UploadTypeOK, NEW c \in Caller, UploadStep(c)
  PROVE  Busy(c) /\ (fs' = fs \/ WritesUpload(c))
<1> DEFINE u == up[c]
<1>0. Busy(c)
  BY DEF UploadStep, WriteTemp, PosixRename, PlainRename, ClearDestination, RenameAgain,
     Cleanup, Busy, Stages
<1>1. CASE WriteTemp(c)
  <2> DEFINE contents == {u.data} \cup (IF IsFile(local[u.src])
                                        THEN {local[u.src].data} ELSE {})
             new(d) == IF fs[u.tmp] = Absent THEN fs
                       ELSE [fs EXCEPT ![u.tmp] = File(d, Stamp)]
  <2>1. PICK d \in contents, ok \in BOOLEAN : Request(c, ok, u.data # Torn, new(d))
    BY <1>1 DEF WriteTemp
  <2>2. d \in Content \cup {Torn}
    <3>1. u.data \in Content \cup {Torn} /\ local[u.src] \in Node
      BY <1>0, BusyRecord, TempsAreEntries DEF UploadTypeOK, SessionTypeOK
    <3>2. IsFile(local[u.src]) => local[u.src].data \in Content \cup {Torn}
      BY <3>1 DEF Node, FileNode, IsFile, Absent, Dir, Link
    <3> QED
      BY <2>1, <3>1, <3>2
  <2>3. fs' = fs \/ fs' = new(d)
    BY <2>1 DEF Request
  <2> QED
    BY <1>0, <2>2, <2>3 DEF WritesUpload
<1>2. ASSUME NEW able \in BOOLEAN, NEW next, RenameBy(c, able, next)
      PROVE  fs' = fs \/ WritesUpload(c)
  BY <1>2 DEF RenameBy, RequestAt, Request, WritesUpload
<1>3. CASE PosixRename(c) \/ PlainRename(c) \/ RenameAgain(c)
  BY <1>0, <1>2, <1>3, ServerAssumption
     DEF PosixRename, PlainRename, RenameAgain, CanReplace, CanRename
<1>4. CASE ClearDestination(c)
  BY <1>0, <1>4 DEF ClearDestination, RequestAt, Request, WritesUpload
<1>5. CASE Cleanup(c)
  BY <1>0, <1>5 DEF Cleanup, RequestAt, Request, WritesUpload
<1> QED
  BY <1>0, <1>1, <1>3, <1>4, <1>5 DEF UploadStep

LEMMA StartWrites ==
  ASSUME NEW c \in Caller, NEW src, NEW dst \in Visible, UploadStart(c, src, dst)
  PROVE  Writes(c)
<1>1. FreshTemps(dst) \subseteq {t \in Temps : fs[t] = Absent}
  BY TempsAreEntries DEF FreshTemps
<1> QED
  BY <1>1 DEF UploadStart, RequestAt, Request, Writes

LEMMA CallStepWrites ==
  ASSUME TypeInv, NEW c \in Caller, CallStep(c)
  PROVE  Writes(c)
<1>0. UploadTypeOK
  BY TypeInvParts
<1>1. CASE StatBase(c) \/ ResolveBase(c) \/ CheckDelete(c)
  BY <1>1 DEF StatBase, ResolveBase, CheckDelete, Ask, Request, Writes
<1>2. CASE List(c)
  BY <1>2 DEF List, Ask, Request, Writes
<1>3. CASE Plan(c) \/ PlanFails(c) \/ NextEntry(c)
  BY <1>3 DEF Plan, PlanFails, NextEntry, session, Writes
<1>4. CASE MakeBase(c) \/ MakeParents(c)
  BY <1>4, MkdirWrites DEF MakeBase, MakeParents
<1>5. CASE UploadEntry(c)
  <2>1. CASE UploadStart(c, call[c].cur, call[c].cur)
    BY <1>5, <2>1, StartWrites DEF UploadEntry, TypeInv, CurrentEntry
  <2>2. CASE UploadStep(c)
    BY <1>0, <2>2, UploadWrites DEF Writes
  <2> QED
    BY <1>5, <2>1, <2>2 DEF UploadEntry
<1>6. CASE RemoveEntry(c)
  <2> DEFINE p == call[c].cur
             able == IF call[c].isDir THEN IsEmptyDir(fs, p) ELSE CanRemove(fs, p)
  <2>1. PICK ok \in BOOLEAN : RequestAt(c, ok, p, able, Without(fs, p))
    BY <1>6 DEF RemoveEntry
  <2>2. able \in BOOLEAN
    BY DEF IsEmptyDir, CanRemove
  <2>3. fs' = fs \/ (fs' = Without(fs, p) /\ able)
    BY <2>1, <2>2, RequestAtEffect
  <2> QED
    BY <1>6, <2>3 DEF RemoveEntry, Writes
<1> QED
  BY <1>1, <1>2, <1>3, <1>4, <1>5, <1>6 DEF CallStep

-----------------------------------------------------------------------------
(***************************************************************************)
(* How an upload goes on: it keeps its names, or is new.                   *)
(***************************************************************************)
KeepsNames(c) ==
  Busy(c)' => \/ Busy(c) /\ up'[c].tmp = up[c].tmp /\ up'[c].dst = up[c].dst
              \/ up'[c].tmp \in FreshTemps(up'[c].dst)

\* Steps of one upload: it goes on or ends, or it starts and aims at dst.
LEMMA UploadStepGoesOn ==
  ASSUME UploadTypeOK, NEW c \in Caller, UploadStep(c), Busy(c)'
  PROVE  Busy(c) /\ up'[c].tmp = up[c].tmp /\ up'[c].dst = up[c].dst
<1>0. up \in [Caller -> UploadRecord] /\ Busy(c)
  BY UploadWrites DEF UploadTypeOK
<1>1. \/ up' = [up EXCEPT ![c] = GaveUp] \/ up' = [up EXCEPT ![c] = Succeeded]
      \/ \E next : MoveOn(c, next)
  BY DEF UploadStep, WriteTemp, PosixRename, PlainRename, ClearDestination,
     RenameAgain, RenameBy, Cleanup
<1>2. CASE up' = [up EXCEPT ![c] = GaveUp] \/ up' = [up EXCEPT ![c] = Succeeded]
  BY <1>0, <1>2 DEF Busy, GaveUp, Succeeded, Stages
<1>3. ASSUME NEW next, MoveOn(c, next)
      PROVE  up'[c].tmp = up[c].tmp /\ up'[c].dst = up[c].dst
  BY <1>0, <1>3 DEF MoveOn, UploadRecord, NotStarted, GaveUp, Succeeded, Busy, Stages
<1> QED
  BY <1>0, <1>1, <1>2, <1>3

LEMMA UploadStartAims ==
  ASSUME UploadTypeOK, NEW c \in Caller, NEW src, NEW dst, UploadStart(c, src, dst)
  PROVE  /\ Busy(c)' => up'[c].tmp \in FreshTemps(dst) /\ up'[c].dst = dst
         /\ up'[c].at # "done"
<1>0. up \in [Caller -> UploadRecord]
  BY DEF UploadTypeOK
<1>1. CASE up' = [up EXCEPT ![c] = GaveUp]
  BY <1>0, <1>1 DEF Busy, GaveUp, Stages
<1>2. ASSUME NEW d, NEW t \in FreshTemps(dst),
             up' = [up EXCEPT ![c] = [at |-> "write", src |-> src, dst |-> dst,
                                      tmp |-> t, data |-> d]]
      PROVE  up'[c].tmp \in FreshTemps(dst) /\ up'[c].dst = dst /\ up'[c].at = "write"
  BY <1>0, <1>2
<1> QED
  BY <1>1, <1>2 DEF UploadStart

LEMMA UploadGoesOn ==
  ASSUME TypeInv, NEW c \in Caller, CallStep(c), Busy(c)'
  PROVE  \/ /\ Busy(c) /\ up'[c].tmp = up[c].tmp /\ up'[c].dst = up[c].dst
            /\ UNCHANGED up \/ call[c].phase = "upload"
         \/ /\ up'[c].tmp \in FreshTemps(call[c].cur) /\ up'[c].dst = call[c].cur
            /\ call[c].phase = "upload"
<1>0. UploadTypeOK /\ up \in [Caller -> UploadRecord]
  BY TypeInvParts DEF UploadTypeOK
<1>1. CASE UNCHANGED up
  BY <1>1 DEF Busy
<1>2. CASE NextEntry(c)
  <2>1. ~Busy(c)' \/ UNCHANGED up
    <3>1. UNCHANGED up \/ up' = [up EXCEPT ![c] = NotStarted]
      BY <1>2 DEF NextEntry
    <3> QED
      BY <1>0, <3>1 DEF NotStarted, Busy, Stages
  <2> QED
    BY <1>1, <2>1
<1>3. CASE UploadEntry(c)
  BY <1>0, <1>3, UploadStepGoesOn, UploadStartAims DEF UploadEntry
<1> QED
  BY <1>1, <1>2, <1>3 DEF CallStep, StatBase, MakeBase, ResolveBase, List, Plan, PlanFails,
     MakeParents, CheckDelete, RemoveEntry

-----------------------------------------------------------------------------
(***************************************************************************)
(* What a call means to touch is not excluded, and an upload is of the     *)
(* entry in hand.                                                          *)
(***************************************************************************)
Allowed(k) ==
  /\ \A p \in k.uploads : ~Excluded(rules, p, FALSE)
  /\ \A d \in k.deletes : ~Excluded(rules, d.path, d.isDir)
  /\ k.phase \in {"mkdir", "upload"} => ~Excluded(rules, k.cur, FALSE)
  /\ k.phase \in {"check", "remove"} => ~Excluded(rules, k.cur, k.isDir)
AllAllowed == \A c \in Caller : Allowed(call[c])
Aim(c) == Busy(c) => call[c].phase = "upload" /\ up[c].dst = call[c].cur
Aimed == \A c \in Caller : Aim(c)

LEMMA PlanAllows ==
  ASSUME TypeInv, NEW k \in CallRecord
  PROVE  LET p == BuildPlan(local, k.listing, rules)
         IN  /\ \A q \in p.ToUpload : ~Excluded(rules, q, FALSE)
             /\ \A d \in p.ToDelete : ~Excluded(rules, d.path, d.isDir)
<1> DEFINE p == BuildPlan(local, k.listing, rules)
<1>1. ASSUME NEW q \in p.ToUpload PROVE ~Excluded(rules, q, FALSE)
  <2>1. q \in LocalAll(local, rules) /\ IsFile(local[q])
    BY DEF BuildPlan, LocalFiles
  <2>2. (local[q] = Dir) = FALSE
    BY <2>1 DEF IsFile, Dir
  <2>3. ~Excluded(rules, q, local[q] = Dir)
    BY <2>1, Zenon DEF LocalAll
  <2> QED
    BY <2>2, <2>3, Zenon
<1>2. ASSUME NEW d \in p.ToDelete PROVE ~Excluded(rules, d.path, d.isDir)
  <2>1. d.path \in Eligible(local, k.listing, rules)
    BY PlannedDelete DEF DeletablePaths
  <2>2. ~Excluded(rules, d.path, k.listing[d.path] = Dir)
    BY <2>1, Zenon DEF Eligible
  <2>3. d.isDir = (k.listing[d.path] = Dir)
    BY PlannedDelete
  <2> QED
    BY <2>2, <2>3, Zenon
<1> QED
  BY <1>1, <1>2

LEMMA AllowedUpdate ==
  ASSUME AllAllowed, NEW c \in Caller, Others(c), UNCHANGED rules, Allowed(call'[c])
  PROVE  AllAllowed'
BY DEF AllAllowed, Allowed, Others

LEMMA GotoKeepsAllowed ==
  ASSUME TypeInv, AllAllowed, NEW c \in Caller, NEW next, Goto(c, next),
         \/ next \notin {"mkdir", "upload", "check", "remove"}
         \/ next = "remove" /\ call[c].phase = "check"
  PROVE  Allowed(call'[c])
<1>1. call[c] \in CallRecord /\ call \in [Caller -> CallRecord] /\ Allowed(call[c])
  BY DEF TypeInv, TypeOK, AllAllowed
<1>2. /\ call'[c].phase = next /\ call'[c].uploads = call[c].uploads
      /\ call'[c].deletes = call[c].deletes /\ call'[c].cur = call[c].cur
      /\ call'[c].isDir = call[c].isDir
  BY <1>1 DEF Goto, CallRecord
<1> QED
  BY <1>1, <1>2 DEF Allowed

LEMMA CallStepAllowed ==
  ASSUME TypeInv, AllAllowed, NEW c \in Caller, CallStep(c)
  PROVE  Allowed(call'[c])
<1> DEFINE k == call[c]
<1>0. k \in CallRecord /\ call \in [Caller -> CallRecord] /\ Allowed(k)
  BY DEF TypeInv, TypeOK, AllAllowed
<1>1. CASE UNCHANGED call
  BY <1>0, <1>1
<1>2. ASSUME NEW next \in {"error", "realpath", "plan", "mkbase", "next", "done"},
             Goto(c, next)
      PROVE  Allowed(call'[c])
  BY <1>2, GotoKeepsAllowed
<1>3. CASE StatBase(c) \/ MakeBase(c) \/ PlanFails(c)
  <2>1. UNCHANGED call \/ \E n \in {"error", "realpath", "plan", "mkbase"} : Goto(c, n)
    BY <1>3 DEF StatBase, MakeBase, PlanFails
  <2> QED
    BY <1>1, <1>2, <2>1
<1>4. CASE ResolveBase(c)
  <2>1. /\ call'[c].uploads = k.uploads /\ call'[c].deletes = k.deletes
        /\ call'[c].phase \in {"list", "error"}
    BY <1>0, <1>4 DEF ResolveBase, CallRecord
  <2> QED
    BY <1>0, <2>1 DEF Allowed
<1>5. CASE List(c)
  BY <1>0, <1>5, ListGoesOn DEF Allowed
<1>6. CASE Plan(c)
  <2> DEFINE p == BuildPlan(local, k.listing, rules)
  <2>1. call'[c] = Planned(k, p)
    BY <1>0, <1>6 DEF Plan
  <2>2. /\ \A q \in p.ToUpload : ~Excluded(rules, q, FALSE)
        /\ \A d \in p.ToDelete : ~Excluded(rules, d.path, d.isDir)
    BY <1>0, PlanAllows
  <2> HIDE DEF p
  <2>3. CASE k.dry
    <3>1. /\ call'[c].uploads = k.uploads /\ call'[c].deletes = k.deletes
          /\ call'[c].phase = "done"
      BY <1>0, <2>1, <2>3 DEF Planned, CallRecord
    <3> QED
      BY <1>0, <3>1 DEF Allowed
  <2>4. CASE ~k.dry
    <3>1. /\ call'[c].uploads = p.ToUpload /\ call'[c].deletes = p.ToDelete
          /\ call'[c].phase = "next"
      BY <1>0, <2>1, <2>4 DEF Planned, Applying, CallRecord
    <3> QED
      BY <2>2, <3>1 DEF Allowed
  <2> QED
    BY <2>3, <2>4
<1>7. CASE NextEntry(c)
  <2>1. ASSUME NEW p \in k.uploads,
               call' = [call EXCEPT ![c] =
                 [k EXCEPT !.uploads = @ \ {p}, !.cur = p,
                           !.phase = IF Parent(p) \in k.made THEN "upload" ELSE "mkdir"]]
        PROVE  Allowed(call'[c])
    <3>1. /\ call'[c].uploads = k.uploads \ {p} /\ call'[c].deletes = k.deletes
          /\ call'[c].cur = p /\ call'[c].phase \in {"mkdir", "upload"}
      BY <1>0, <2>1 DEF CallRecord
    <3> QED
      BY <1>0, <3>1 DEF Allowed
  <2>2. ASSUME NEW d \in DeletableNow(k.deletes),
               call' = [call EXCEPT ![c] =
                 [k EXCEPT !.deletes = @ \ {d}, !.cur = d.path, !.isDir = d.isDir,
                           !.phase = "check"]]
        PROVE  Allowed(call'[c])
    <3>1. /\ call'[c].uploads = k.uploads /\ call'[c].deletes = k.deletes \ {d}
          /\ call'[c].cur = d.path /\ call'[c].phase = "check" /\ d \in k.deletes
          /\ call'[c].isDir = d.isDir
      BY <1>0, <2>2 DEF CallRecord, DeletableNow
    <3> QED
      BY <1>0, <3>1 DEF Allowed
  <2> QED
    BY <1>2, <1>7, <2>1, <2>2 DEF NextEntry
<1>8. CASE MakeParents(c) /\ mk'[c].at = "done"
  <2> DEFINE n == [k EXCEPT !.phase = "upload", !.made = @ \cup {Parent(k.cur)}]
  <2>1. call' = [call EXCEPT ![c] = n] /\ k.phase = "mkdir"
    BY <1>8 DEF MakeParents
  <2>2. /\ n.uploads = k.uploads /\ n.deletes = k.deletes
        /\ n.cur = k.cur /\ n.phase = "upload"
    BY <1>0 DEF CallRecord
  <2>3. Allowed(n)
    BY <1>0, <2>1, <2>2 DEF Allowed
  <2> HIDE DEF n
  <2> QED
    BY <1>0, <2>1, <2>3
<1>9. CASE /\ MakeParents(c) \/ UploadEntry(c) \/ CheckDelete(c) \/ RemoveEntry(c)
           /\ ~(MakeParents(c) /\ mk'[c].at = "done")
  <2>1. UNCHANGED call \/ Goto(c, "next") \/ (Goto(c, "remove") /\ k.phase = "check")
    BY <1>9 DEF MakeParents, UploadEntry, CheckDelete, RemoveEntry, Fail
  <2> QED
    BY <1>1, <1>2, <2>1, GotoKeepsAllowed
<1> QED
  BY <1>3, <1>4, <1>5, <1>6, <1>7, <1>8, <1>9 DEF CallStep

LEMMA NextKeepsAllowed == TypeInv /\ AllAllowed /\ [Next]_vars => AllAllowed'
<1> SUFFICES ASSUME TypeInv, AllAllowed, [Next]_vars PROVE AllAllowed'
  OBVIOUS
<1>0. UNCHANGED rules
  BY DEF Next, CallStep, StatBase, MakeBase, ResolveBase, List, Plan, PlanFails, NextEntry,
     MakeParents, UploadEntry, CheckDelete, RemoveEntry, Begin, Crash, Environment, EditLocal,
     ChangeRemote, Tick, env, vars
<1>1. ASSUME NEW c \in Caller, CallStep(c) PROVE AllAllowed'
  BY <1>0, <1>1, CallStepAllowed, CallStepOfOne, AllowedUpdate
<1>2. ASSUME NEW c \in Caller, Crash(c) \/ \E dry \in BOOLEAN : Begin(c, dry)
      PROVE  AllAllowed'
  <2>1. /\ call'[c].phase \in {"crashed", "stat"}
        /\ call'[c].uploads = {} /\ call'[c].deletes = {}
    <3>1. call \in [Caller -> CallRecord]
      BY DEF TypeInv, TypeOK
    <3>2. /\ Idle.uploads = {} /\ Idle.deletes = {}
          /\ call'[c] = [Idle EXCEPT !.phase = "crashed"]
             \/ \E dry \in BOOLEAN : call'[c] = [Idle EXCEPT !.phase = "stat", !.dry = dry]
      BY <1>2, <3>1 DEF Crash, Begin, Idle
    <3> QED
      BY <3>2 DEF Idle
  <2>2. Allowed(call'[c])
    BY <2>1 DEF Allowed
  <2> QED
    BY <1>0, <1>2, <2>2, BeginAndCrashOfOne, AllowedUpdate
<1>3. ASSUME Environment \/ UNCHANGED vars PROVE AllAllowed'
  BY <1>0, <1>3 DEF Environment, EditLocal, ChangeRemote, Tick, vars, own, AllAllowed, Allowed
<1> QED
  BY <1>1, <1>2, <1>3, InitAssumption DEF Next

\* Crash and Begin end the upload of c.
LEMMA NoUploadLeft ==
  ASSUME TypeInv, NEW c \in Caller, Crash(c) \/ \E dry \in BOOLEAN : Begin(c, dry)
  PROVE  ~Busy(c)'
<1>1. up \in [Caller -> UploadRecord] /\ up' = [up EXCEPT ![c] = NotStarted]
  BY DEF Crash, Begin, TypeInv, TypeOK, UploadTypeOK
<1> QED
  BY <1>1 DEF NotStarted, Busy, Stages

\* c's record of the entry in hand while its upload goes on.
LEMMA EntryStays ==
  ASSUME TypeInv, NEW c \in Caller, Aim(c), CallStep(c), Busy(c)'
  PROVE  call'[c].phase = "upload" /\ call'[c].cur = call[c].cur /\ call[c].phase = "upload"
<1> DEFINE k == call[c]
<1>0. /\ k \in CallRecord /\ call \in [Caller -> CallRecord]
      /\ up \in [Caller -> UploadRecord] /\ UploadTypeOK
  BY TypeInvParts DEF TypeInv, TypeOK, UploadTypeOK
<1>1. k.phase = "upload"
  <2>1. CASE UNCHANGED up
    BY <2>1 DEF Aim, Busy
  <2> QED
    BY <2>1, UploadGoesOn
<1>2. UploadEntry(c)
  BY <1>1 DEF CallStep, StatBase, MakeBase, ResolveBase, List, Plan, PlanFails, NextEntry,
     MakeParents, CheckDelete, RemoveEntry
<1>3. up'[c].at \notin {"done", "failed"}
  BY DEF Busy, Stages
<1>4. UNCHANGED call
  BY <1>2, <1>3 DEF UploadEntry
<1> QED
  BY <1>1, <1>4

LEMMA CallStepKeepsAim ==
  ASSUME TypeInv, NEW c \in Caller, Aim(c), CallStep(c)
  PROVE  Aim(c)'
<1> SUFFICES ASSUME Busy(c)'
             PROVE  call'[c].phase = "upload" /\ up'[c].dst = call'[c].cur
  BY DEF Aim
<1>1. call'[c].phase = "upload" /\ call'[c].cur = call[c].cur
  BY EntryStays
<1>2. up'[c].dst = call[c].cur
  BY UploadGoesOn DEF Aim
<1> QED
  BY <1>1, <1>2

LEMMA NextKeepsAim == TypeInv /\ Aimed /\ [Next]_vars => Aimed'
<1> SUFFICES ASSUME TypeInv, Aimed, [Next]_vars PROVE Aimed'
  OBVIOUS
<1>1. ASSUME NEW c \in Caller, Others(c), Aim(c)' PROVE Aimed'
  BY <1>1 DEF Aimed, Aim, Others, Busy
<1>2. ASSUME NEW c \in Caller, CallStep(c) PROVE Aimed'
  BY <1>1, <1>2, CallStepKeepsAim, CallStepOfOne DEF Aimed
<1>3. ASSUME NEW c \in Caller, Crash(c) \/ \E dry \in BOOLEAN : Begin(c, dry) PROVE Aimed'
  BY <1>1, <1>3, NoUploadLeft, BeginAndCrashOfOne DEF Aim
<1>4. ASSUME Environment \/ UNCHANGED vars PROVE Aimed'
  BY <1>4 DEF Environment, EditLocal, ChangeRemote, Tick, vars, own, Aimed, Aim, Busy
<1> QED
  BY <1>2, <1>3, <1>4, InitAssumption DEF Next

-----------------------------------------------------------------------------
(***************************************************************************)
(* Temporary names stay out of MkdirAll's way.                             *)
(***************************************************************************)
OffTemps(c) == mk[c].at \in MkdirStages => mk[c].target \notin Temps
MkdirOffTemps == \A c \in Caller : OffTemps(c)

LEMMA ParentFacts ==
  ASSUME NEW p \in Entry
  PROVE  /\ Parent(p) \in Path /\ Under(p, Parent(p)) /\ Parent(p) # p
         /\ Len(p) \in Nat /\ Len(Parent(p)) = Len(p) - 1
<1>1. p \in Seq(STRING) /\ p # << >> /\ p \in Path
  BY PathAssumption DEF Entry, Base
<1>2. Len(p) \in Nat /\ Len(p) # 0
  BY <1>1
<1>3. Len(Parent(p)) = Len(p) - 1 /\ Parent(p) \in Path
  <2>1. Len(p) - 1 \in 0 .. Len(p)
    BY <1>2
  <2> QED
    BY <1>1, <2>1, PathPrefix DEF Parent
<1>4. \A i \in 1 .. Len(p) - 1 : Parent(p)[i] = p[i]
  BY <1>1, <1>2 DEF Parent
<1>5. Under(p, Parent(p))
  BY <1>2, <1>3, <1>4 DEF Under
<1> QED
  BY <1>2, <1>3, <1>5

LEMMA ParentIsNoTemp ==
  ASSUME NEW p \in Entry
  PROVE  Parent(p) \notin Temps
BY ParentFacts, TempAssumption DEF Entry

LEMMA MkdirFields ==
  ASSUME MkdirTypeOK, NEW c \in Caller, mk[c].at \in MkdirStages
  PROVE  /\ mk[c].dir \in Path /\ mk[c].target \in Path
         /\ mk[c] = MkdirAt(mk[c].at, mk[c].dir, mk[c].target)
BY DEF MkdirTypeOK, MkdirRecord, MkdirIdle, MkdirDone, MkdirFailed, MkdirStages, MkdirAt

LEMMA MkdirDirIsNoTemp ==
  ASSUME TypeInv, NEW c \in Caller, OffTemps(c), mk[c].at \in MkdirStages
  PROVE  mk[c].dir \notin Temps
<1> DEFINE d == mk[c].dir
           t == mk[c].target
<1>0. d \in Path /\ t \in Path
  BY MkdirFields DEF TypeInv, TypeOK
<1>1. /\ d \in Path /\ t \in Path /\ t \in Seq(STRING) /\ t \notin Temps
      /\ OnTheWay(d, t)
  BY <1>0, PathAssumption DEF TypeInv, MkdirOnTheWay, OffTemps
<1>2. PICK n \in 0 .. Len(t) : d = SubSeq(t, 1, n)
  BY <1>1 DEF OnTheWay
<1>3. Len(t) \in Nat /\ t = SubSeq(t, 1, Len(t))
  BY <1>1
<1>4. CASE n = Len(t)
  BY <1>1, <1>2, <1>3, <1>4
<1>5. CASE n < Len(t)
  <2>1. Len(d) = n /\ \A i \in 1 .. n : d[i] = t[i]
    BY <1>1, <1>2, <1>3
  <2>2. Under(t, d)
    BY <1>5, <2>1 DEF Under
  <2> QED
    BY <1>1, <2>2, TempAssumption
<1> QED
  BY <1>3, <1>4, <1>5

LEMMA MkdirKeepsTarget ==
  ASSUME MkdirTypeOK, NEW c \in Caller, MkdirStep(c), mk'[c].at \in MkdirStages
  PROVE  mk[c].at \in MkdirStages /\ mk'[c].target = mk[c].target
<1> DEFINE m == mk[c]
<1>0. /\ m.at \in MkdirStages /\ DOMAIN mk = Caller
  BY DEF MkdirStep, MkdirStat, MkdirMake, MkdirChmod, MkdirRecheck, MkdirStages, MkdirTypeOK
<1>1. m = [at |-> m.at, dir |-> m.dir, target |-> m.target]
  BY <1>0, MkdirFields DEF MkdirAt
<1>2. CASE MkdirMake(c)
  <2>1. \E s : mk' = [mk EXCEPT ![c].at = s]
    BY <1>2 DEF MkdirMake
  <2> QED
    BY <1>0, <1>1, <2>1
<1>3. CASE MkdirStat(c) \/ MkdirChmod(c) \/ MkdirRecheck(c)
  <2>1. mk'[c] \in {Above(m.dir, m.target), Below(m.dir, m.target), MkdirFailed}
    BY <1>0, <1>3 DEF MkdirStat, MkdirChmod, MkdirRecheck
  <2> QED
    BY <1>0, <2>1 DEF Above, Below, MkdirAt, MkdirFailed, MkdirDone, MkdirStages
<1> QED
  BY <1>0, <1>2, <1>3 DEF MkdirStep

LEMMA MkdirStepOffTemps ==
  ASSUME MkdirTypeOK, NEW c \in Caller, OffTemps(c), MkdirStep(c)
  PROVE  OffTemps(c)'
BY MkdirKeepsTarget DEF OffTemps

LEMMA CallStepOffTemps ==
  ASSUME TypeInv, NEW c \in Caller, OffTemps(c), CallStep(c)
  PROVE  OffTemps(c)'
<1>0. MkdirTypeOK /\ DOMAIN mk = Caller
  BY DEF TypeInv, TypeOK, MkdirTypeOK
<1>1. CASE UNCHANGED mk
  BY <1>1 DEF OffTemps
<1>2. CASE mk' = [mk EXCEPT ![c] = MkdirAt("stat", Base, Base)]
  BY <1>0, <1>2, TempsAreEntries DEF MkdirAt, Entry, OffTemps
<1>3. ASSUME NEW p \in call[c].uploads,
             mk' = [mk EXCEPT ![c] = MkdirAt("stat", Parent(p), Parent(p))]
      PROVE  OffTemps(c)'
  <2>1. p \in Entry
    BY TempsAreEntries DEF TypeInv, TypeOK, CallRecord
  <2> QED
    BY <1>0, <1>3, <2>1, ParentIsNoTemp DEF MkdirAt, OffTemps
<1>4. CASE MkdirStep(c)
  BY <1>0, <1>4, MkdirStepOffTemps
<1>5. CASE NextEntry(c)
  BY <1>1, <1>3, <1>5 DEF NextEntry
<1> QED
  BY <1>1, <1>2, <1>4, <1>5 DEF CallStep, StatBase, MakeBase, ResolveBase, List, Plan,
     PlanFails, MakeParents, UploadEntry, CheckDelete, RemoveEntry

LEMMA NextKeepsOffTemps == TypeInv /\ MkdirOffTemps /\ [Next]_vars => MkdirOffTemps'
<1> SUFFICES ASSUME TypeInv, MkdirOffTemps, [Next]_vars PROVE MkdirOffTemps'
  OBVIOUS
<1>0. DOMAIN mk = Caller
  BY DEF TypeInv, TypeOK, MkdirTypeOK
<1>1. ASSUME NEW c \in Caller, Others(c), OffTemps(c)' PROVE MkdirOffTemps'
  BY <1>1 DEF MkdirOffTemps, OffTemps, Others
<1>2. ASSUME NEW c \in Caller, CallStep(c) PROVE OffTemps(c)'
  BY <1>2, CallStepOffTemps DEF MkdirOffTemps
<1>3. ASSUME NEW c \in Caller, Crash(c) \/ \E dry \in BOOLEAN : Begin(c, dry)
      PROVE  MkdirOffTemps'
  <2>1. mk'[c] = MkdirIdle
    BY <1>0, <1>3 DEF Crash, Begin
  <2> QED
    BY <1>1, <1>3, <2>1, BeginAndCrashOfOne DEF MkdirIdle, MkdirStages, OffTemps
<1>4. ASSUME Environment \/ UNCHANGED vars PROVE MkdirOffTemps'
  BY <1>4 DEF Environment, EditLocal, ChangeRemote, Tick, vars, own, MkdirOffTemps, OffTemps
<1> QED
  BY <1>1, <1>2, <1>3, <1>4, CallStepOfOne, InitAssumption DEF Next

-----------------------------------------------------------------------------
(***************************************************************************)
(* No step of a call makes a link, or a directory of a temporary name; so  *)
(* an entry that was found inside the base right before its removal stays  *)
(* there until then, unless somebody else plants a link.                   *)
(***************************************************************************)
PlainTemps == \A c \in Caller : Busy(c) => /\ up[c].tmp \in TempOf[up[c].dst]
                                           /\ fs[up[c].tmp] \notin {Dir, Link}
Checked == \A c \in Caller : call[c].phase = "remove" => ~LeadsOut(fs, call[c].cur)

KeepsPlain == \A q \in Temps : fs'[q] \in {Dir, Link} => fs[q] \in {Dir, Link}
MakesNoLink == \A q \in Path : fs'[q] = Link => fs[q] = Link

LEMMA FilesAreFiles ==
  \A d, m : /\ File(d, m) \notin {Dir, Link, Absent}
            /\ Absent \notin {Dir, Link} /\ Dir # Link
BY DEF File, Dir, Link, Absent

LEMMA WritesPlainly ==
  ASSUME TypeInv, PlainTemps, NEW c \in Caller, OffTemps(c), Writes(c)
  PROVE  KeepsPlain /\ MakesNoLink
<1>0. fs \in [Path -> Node] /\ Temps \subseteq Path
  BY TypeInvParts, TempsAreEntries DEF UploadTypeOK, SessionTypeOK
<1>1. CASE fs' = fs
  BY <1>1 DEF KeepsPlain, MakesNoLink
<1>2. CASE /\ mk[c].at \in MkdirStages
           /\ fs' = [fs EXCEPT ![mk[c].dir] = Dir]
  <2>1. mk[c].dir \notin Temps
    BY <1>2, MkdirDirIsNoTemp
  <2> QED
    BY <1>0, <1>2, <2>1, FilesAreFiles DEF KeepsPlain, MakesNoLink
<1>3. ASSUME NEW t, NEW d, fs' = [fs EXCEPT ![t] = File(d, Stamp)]
      PROVE  KeepsPlain /\ MakesNoLink
  <2> DEFINE n == File(d, Stamp)
  <2>1. n \notin {Dir, Link}
    BY FilesAreFiles
  <2>2. fs' = [fs EXCEPT ![t] = n]
    BY <1>3
  <2> HIDE DEF n
  <2> QED
    BY <1>0, <2>1, <2>2 DEF KeepsPlain, MakesNoLink
<1>4. ASSUME NEW p, fs' = Without(fs, p)
      PROVE  KeepsPlain /\ MakesNoLink
  BY <1>0, <1>4, FilesAreFiles DEF KeepsPlain, MakesNoLink, Without
<1>5. CASE Busy(c) /\ fs' = Moved(fs, up[c].tmp, up[c].dst)
  <2>1. up[c].tmp \in Temps /\ up[c].dst \in Visible /\ up[c].dst \notin Temps
    BY <1>5, BusyRecord, TypeInvParts, TempsAreEntries
  <2>2. fs[up[c].tmp] \notin {Dir, Link}
    BY <1>5 DEF PlainTemps
  <2> QED
    BY <1>0, <1>5, <2>1, <2>2, FilesAreFiles DEF KeepsPlain, MakesNoLink, Moved
<1> QED
  BY <1>1, <1>2, <1>3, <1>4, <1>5 DEF Writes, WritesUpload

LEMMA LinksStayAway ==
  ASSUME MakesNoLink, NEW p, ~LeadsOut(fs, p)
  PROVE  ~LeadsOut(fs, p)'
BY DEF MakesNoLink, LeadsOut

LEMMA OnlyACheckAllows ==
  ASSUME TypeInv, NEW c \in Caller, CallStep(c), call'[c].phase = "remove"
  PROVE  ~LeadsOut(fs, call'[c].cur) /\ fs' = fs
<1> DEFINE k == call[c]
<1>0. k \in CallRecord /\ call \in [Caller -> CallRecord]
  BY DEF TypeInv, TypeOK
<1>1. ASSUME NEW next, next # "remove", Goto(c, next) PROVE FALSE
  BY <1>0, <1>1 DEF Goto, CallRecord
<1>2. CASE StatBase(c) \/ MakeBase(c) \/ PlanFails(c)
  <2>1. \/ UNCHANGED call /\ k.phase # "remove"
        \/ \E n \in {"error", "realpath", "plan", "mkbase"} : Goto(c, n)
    BY <1>2 DEF StatBase, MakeBase, PlanFails
  <2> QED
    BY <1>1, <2>1
<1>3. CASE ResolveBase(c)
  BY <1>0, <1>3 DEF ResolveBase, CallRecord
<1>4. CASE List(c)
  BY <1>4, ListGoesOn
<1>5. CASE Plan(c)
  BY <1>0, <1>5 DEF Plan, Planned, Applying, CallRecord
<1>6. CASE NextEntry(c)
  <2>1. call'[c].phase \in {"upload", "mkdir", "check", "done"}
    <3>1. ASSUME NEW p,
                 call' = [call EXCEPT ![c] =
                   [k EXCEPT !.uploads = @ \ {p}, !.cur = p,
                             !.phase = IF Parent(p) \in k.made THEN "upload" ELSE "mkdir"]]
          PROVE  call'[c].phase \in {"upload", "mkdir"}
      BY <1>0, <3>1 DEF CallRecord
    <3>2. ASSUME NEW d,
                 call' = [call EXCEPT ![c] =
                   [k EXCEPT !.deletes = @ \ {d}, !.cur = d.path, !.isDir = d.isDir,
                             !.phase = "check"]]
          PROVE  call'[c].phase = "check"
      BY <1>0, <3>2 DEF CallRecord
    <3> QED
      BY <1>1, <1>6, <3>1, <3>2 DEF NextEntry
  <2> QED
    BY <2>1
<1>7. CASE MakeParents(c) \/ UploadEntry(c) \/ RemoveEntry(c)
  <2>1. CASE call' = [call EXCEPT ![c].phase = "upload",
                                  ![c].made = @ \cup {Parent(call[c].cur)}]
    <3> DEFINE n == [k EXCEPT !.phase = "upload", !.made = @ \cup {Parent(k.cur)}]
    <3>1. call' = [call EXCEPT ![c] = n]
      BY <2>1
    <3> QED
      BY <1>0, <3>1 DEF CallRecord
  <2>2. CASE UNCHANGED call /\ k.phase # "remove"
    BY <2>2
  <2>3. CASE Goto(c, "next")
    BY <1>1, <2>3
  <2> QED
    BY <1>7, <2>1, <2>2, <2>3 DEF MakeParents, UploadEntry, RemoveEntry, Fail
<1>8. CASE CheckDelete(c)
  <2>1. fs' = fs
    BY <1>8 DEF CheckDelete, Ask, Request
  <2>2. ResolvesInside(k.cur) /\ Goto(c, "remove")
    BY <1>1, <1>8 DEF CheckDelete, Fail
  <2>3. call'[c].cur = k.cur
    BY <1>0, <2>2 DEF Goto, CallRecord
  <2> QED
    BY <2>1, <2>2, <2>3 DEF ResolvesInside
<1> QED
  BY <1>2, <1>3, <1>4, <1>5, <1>6, <1>7, <1>8 DEF CallStep

PathsInv == TypeInv /\ MkdirOffTemps /\ PlainTemps
ReachInv == PathsInv /\ Aimed /\ AllAllowed

\* Temporary names keep to their uploads, and stay plain.
LEMMA NamesStayPlain ==
  ASSUME UploadTypeOK, UploadTypeOK', PlainTemps, KeepsPlain,
         \A c \in Caller : KeepsNames(c)
  PROVE  PlainTemps'
<1> SUFFICES ASSUME NEW c \in Caller, Busy(c)'
             PROVE  /\ up'[c].tmp \in TempOf[up'[c].dst]
                    /\ fs'[up'[c].tmp] \notin {Dir, Link}
  BY DEF PlainTemps, Busy
<1>1. CASE Busy(c) /\ up'[c].tmp = up[c].tmp /\ up'[c].dst = up[c].dst
  BY <1>1, BusyRecord DEF PlainTemps, KeepsPlain
<1>2. CASE up'[c].tmp \in FreshTemps(up'[c].dst)
  <2>1. up'[c].dst \in Entry
    BY TempsAreEntries DEF UploadTypeOK, UploadRecord, NotStarted, GaveUp, Succeeded, Busy,
       Stages
  <2>2. /\ up'[c].tmp \in TempOf[up'[c].dst] /\ up'[c].tmp \in Temps
        /\ fs[up'[c].tmp] = Absent
    BY <1>2, <2>1, TempsAreEntries DEF FreshTemps
  <2> QED
    BY <2>2, FilesAreFiles DEF KeepsPlain
<1> QED
  BY <1>1, <1>2 DEF KeepsNames

LEMMA NamesOfOthers ==
  ASSUME NEW c \in Caller, Others(c), KeepsNames(c)
  PROVE  \A d \in Caller : KeepsNames(d)
BY DEF Others, KeepsNames, Busy

LEMMA CallStepKeepsReach ==
  ASSUME PathsInv, NEW c \in Caller, CallStep(c)
  PROVE  PlainTemps' /\ MakesNoLink
<1>0. TypeInv /\ UploadTypeOK /\ UploadTypeOK' /\ Others(c)
  BY CallStepTypes, CallStepOfOne DEF PathsInv, TypeInv, TypeOK
<1>1. KeepsPlain /\ MakesNoLink
  BY CallStepWrites, WritesPlainly DEF PathsInv, MkdirOffTemps
<1>2. KeepsNames(c)
  BY <1>0, UploadGoesOn DEF KeepsNames
<1> QED
  BY <1>0, <1>1, <1>2, NamesOfOthers, NamesStayPlain DEF PathsInv

LEMMA IntrusionKeepsReach ==
  ASSUME PathsInv, ChangeRemote
  PROVE  PlainTemps'
<1>0. /\ UNCHANGED <<call, up>> /\ fs \in [Path -> Node] /\ UploadTypeOK
      /\ Temps \subseteq Path
  BY TypeInvParts, TempsAreEntries DEF PathsInv, ChangeRemote, own, UploadTypeOK, SessionTypeOK
<1>1. KeepsPlain
  <2>1. CASE Changes(fs, fs', Stamp)
    <3>1. PICK p \in Visible : \E n : fs' = [fs EXCEPT ![p] = n]
      BY <2>1 DEF Changes, Without
    <3>2. p \notin Temps
      BY TempsAreEntries
    <3> QED
      BY <1>0, <3>1, <3>2 DEF KeepsPlain
  <2>2. CASE Relocates(fs, fs')
    <3>1. PICK p \in Visible :
            fs' = [q \in Path |-> IF q = p THEN Link ELSE IF Under(q, p) THEN Absent ELSE fs[q]]
      BY <2>2 DEF Relocates
    <3>2. p \notin Temps
      BY TempsAreEntries
    <3> QED
      BY <1>0, <3>1, <3>2, FilesAreFiles DEF KeepsPlain
  <2> QED
    BY <2>1, <2>2 DEF ChangeRemote
<1> QED
  BY <1>0, <1>1, BusyRecord DEF PlainTemps, KeepsPlain, PathsInv, Busy

LEMMA BeginAndCrashKeepPaths ==
  ASSUME PathsInv, NEW c \in Caller, Crash(c) \/ \E dry \in BOOLEAN : Begin(c, dry)
  PROVE  /\ PlainTemps' /\ Others(c) /\ fs' = fs
         /\ call'[c].phase \in {"crashed", "stat"}
<1>1. Others(c) /\ ~Busy(c)' /\ fs' = fs
  BY BeginAndCrashOfOne, NoUploadLeft DEF PathsInv, Crash, Begin, session
<1>2. call'[c].phase \in {"crashed", "stat"}
  <2>1. call \in [Caller -> CallRecord]
    BY DEF PathsInv, TypeInv, TypeOK
  <2>2. \/ call'[c] = [Idle EXCEPT !.phase = "crashed"]
        \/ \E dry \in BOOLEAN : call'[c] = [Idle EXCEPT !.phase = "stat", !.dry = dry]
    BY <2>1 DEF Crash, Begin
  <2> QED
    BY <2>2 DEF Idle
<1>3. PlainTemps'
  BY <1>1 DEF Others, PathsInv, PlainTemps, Busy
<1> QED
  BY <1>1, <1>2, <1>3

LEMMA NextKeepsPaths == PathsInv /\ [Next]_vars => PathsInv'
<1> SUFFICES ASSUME PathsInv, [Next]_vars PROVE PathsInv'
  OBVIOUS
<1>1. TypeInv' /\ MkdirOffTemps'
  BY NextTypes, NextKeepsOffTemps DEF PathsInv
<1>2. ASSUME NEW c \in Caller, CallStep(c) PROVE PlainTemps'
  BY <1>2, CallStepKeepsReach
<1>3. ASSUME NEW c \in Caller, Crash(c) \/ \E dry \in BOOLEAN : Begin(c, dry)
      PROVE  PlainTemps'
  BY <1>3, BeginAndCrashKeepPaths
<1>4. ASSUME EditLocal \/ Tick \/ UNCHANGED vars PROVE PlainTemps'
  <2>1. UNCHANGED <<fs, up>>
    BY <1>4 DEF EditLocal, Tick, session, vars, own
  <2> QED
    BY <2>1 DEF PathsInv, PlainTemps, Busy
<1> QED
  BY <1>1, <1>2, <1>3, <1>4, IntrusionKeepsReach, InitAssumption
     DEF PathsInv, Next, Environment

\* What one step says of c: it came to remove an entry behind a link only if it
\* stood right before that removal when somebody else changed the base.
CheckedStep(c) ==
  LeadsOut(fs', call'[c].cur) /\ call'[c].phase = "remove" =>
    \/ LeadsOut(fs, call[c].cur) /\ call[c].phase = "remove"
    \/ call[c].phase = "remove" /\ ChangeRemote

LEMMA IntrusionsCount ==
  ASSUME TypeInv, ChangeRemote
  PROVE  budget'.intrusions < budget.intrusions
<1>1. budget \in Budget /\ MaxIntrusions \in Nat
  BY InitAssumption DEF TypeInv, TypeOK
<1>2. budget.intrusions \in Int /\ budget'.intrusions = budget.intrusions - 1
  BY <1>1 DEF ChangeRemote, Budget
<1> QED
  BY <1>2

LEMMA LinksComeFromOthers ==
  ASSUME MakesNoLink, NEW c \in Caller, Others(c),
         call'[c].phase = "remove" => ~LeadsOut(fs, call'[c].cur) /\ fs' = fs,
         NEW d \in Caller
  PROVE  CheckedStep(d)
<1>1. CASE d = c
  BY <1>1 DEF CheckedStep, LeadsOut
<1>2. CASE d # c
  BY <1>2 DEF CheckedStep, LeadsOut, MakesNoLink, Others
<1> QED
  BY <1>1, <1>2

LEMMA StepsAreChecked ==
  ASSUME PathsInv, [Next]_vars, NEW c \in Caller
  PROVE  CheckedStep(c)
<1>1. ASSUME NEW d \in Caller, CallStep(d) PROVE CheckedStep(c)
  BY <1>1, CallStepKeepsReach, CallStepOfOne, OnlyACheckAllows, LinksComeFromOthers
     DEF PathsInv
<1>2. ASSUME NEW d \in Caller, Crash(d) \/ \E dry \in BOOLEAN : Begin(d, dry)
      PROVE  CheckedStep(c)
  BY <1>2, BeginAndCrashKeepPaths DEF CheckedStep, Others, LeadsOut
<1>3. ASSUME EditLocal \/ Tick \/ UNCHANGED vars PROVE CheckedStep(c)
  <2>1. UNCHANGED <<fs, call>>
    BY <1>3 DEF EditLocal, Tick, session, vars, own
  <2> QED
    BY <2>1 DEF CheckedStep, LeadsOut
<1>4. ASSUME ChangeRemote PROVE CheckedStep(c)
  <2>1. call' = call
    BY <1>4 DEF ChangeRemote, own
  <2> QED
    BY <1>4, <2>1 DEF CheckedStep
<1> QED
  BY <1>1, <1>2, <1>3, <1>4, InitAssumption DEF Next, Environment

\* While nobody else changes the base, nothing behind a link is ever removed.
LEMMA ChecksStay ==
  ASSUME Checked, ~ChangeRemote, \A c \in Caller : CheckedStep(c)
  PROVE  Checked'
<1> SUFFICES ASSUME NEW c \in Caller, call'[c].phase = "remove"
             PROVE  ~LeadsOut(fs', call'[c].cur)
  BY DEF Checked, LeadsOut
<1> QED
  BY DEF Checked, CheckedStep

LEMMA InitChecked == Init => Checked
BY DEF Init, Checked, Idle

LEMMA NextKeepsReach == ReachInv /\ [Next]_vars => ReachInv'
BY NextKeepsPaths, NextKeepsAim, NextKeepsAllowed DEF ReachInv, PathsInv

LEMMA InitReach == Init => ReachInv
<1> SUFFICES ASSUME Init PROVE ReachInv
  OBVIOUS
<1>1. TypeInv
  BY InitTypes
<1>2. MkdirOffTemps /\ Aimed /\ PlainTemps
  BY DEF Init, MkdirOffTemps, OffTemps, MkdirIdle, MkdirStages, Aimed, Aim, PlainTemps,
     Busy, Stages, NotStarted
<1>3. AllAllowed
  BY DEF Init, AllAllowed, Allowed, Idle
<1> QED
  BY <1>1, <1>2, <1>3 DEF ReachInv, PathsInv

-----------------------------------------------------------------------------
(***************************************************************************)
(* What a call reports, at the step that reports it.                       *)
(***************************************************************************)
LEMMA RenameLands ==
  ASSUME PathsInv, TornInv, NEW c \in Caller, UploadStep(c), up'[c].at = "done"
  PROVE  LET p == up[c].dst
         IN  LeadsOut(fs, p) \/ (IsFile(fs'[p]) /\ fs'[p].data # Torn)
<1> DEFINE t == up[c].tmp
           p == up[c].dst
<1>0. /\ UploadTypeOK /\ Busy(c) /\ up \in [Caller -> UploadRecord]
      /\ fs \in [Path -> Node]
  BY UploadWrites, TypeInvParts DEF PathsInv, UploadTypeOK, SessionTypeOK
<1>1. /\ t \in Temps /\ t \in Path /\ p \in Path /\ t # p
  BY <1>0, BusyRecord, TempsAreEntries
<1>2. ASSUME NEW s \in {"posix", "cleanup", "plain", "clear", "again"}, MoveOn(c, s)
      PROVE  FALSE
  <2>1. up[c] \in [at : Stages, src : Visible, dst : Visible, tmp : Temps,
                   data : Content \cup {Torn}]
    BY <1>0 DEF UploadRecord, NotStarted, GaveUp, Succeeded, Busy, Stages
  <2> QED
    BY <1>0, <1>2, <2>1 DEF MoveOn
<1>3. /\ ~WriteTemp(c) /\ ~ClearDestination(c)
  BY <1>2 DEF WriteTemp, ClearDestination, AfterWrite
<1>4. ~Cleanup(c)
  BY <1>0 DEF Cleanup, GaveUp
<1>5. ASSUME NEW able \in BOOLEAN, able => fs[t] # Absent,
             NEW next \in {"posix", "cleanup", "plain", "clear", "again"},
             RenameBy(c, able, next)
      PROVE  LeadsOut(fs, p) \/ (fs' = Moved(fs, t, p) /\ fs[t] # Absent)
  <2>1. RequestAt(c, TRUE, p, able, Moved(fs, t, p))
    BY <1>2, <1>5 DEF RenameBy
  <2> QED
    BY <1>5, <2>1 DEF RequestAt, Request
<1>6. up[c].at \in Moving /\ (LeadsOut(fs, p) \/ (fs' = Moved(fs, t, p) /\ fs[t] # Absent))
  <2>1. PosixRename(c) \/ PlainRename(c) \/ RenameAgain(c)
    BY <1>3, <1>4 DEF UploadStep
  <2> QED
    BY <1>5, <2>1, ServerAssumption
       DEF PosixRename, PlainRename, RenameAgain, CanReplace, CanRename, Moving
<1>7. CASE fs' = Moved(fs, t, p) /\ fs[t] # Absent
  <2>1. fs'[p] = fs[t]
    BY <1>0, <1>1, <1>7 DEF Moved
  <2>2. fs[t] \in Node \ {Absent, Dir, Link}
    BY <1>0, <1>1, <1>7 DEF PathsInv, PlainTemps
  <2>3. ~IsTorn(fs[t])
    BY <1>6 DEF TornInv, WholeWhenMoved, Moving
  <2>4. IsFile(fs[t])
    BY <2>2 DEF Node, FileNode, IsFile
  <2> QED
    BY <2>1, <2>3, <2>4 DEF IsTorn
<1> QED
  BY <1>6, <1>7

LEMMA UploadsReported ==
  ASSUME PathsInv, TornInv, NEW c \in Caller, Aim(c), CallStep(c),
         NEW p \in result'[c].uploaded \ result[c].uploaded
  PROVE  LeadsOut(fs, p) \/ (IsFile(fs'[p]) /\ fs'[p].data # Torn)
<1>0. /\ result \in [Caller -> ResultRecord] /\ UploadTypeOK
      /\ up \in [Caller -> UploadRecord]
  BY TypeInvParts DEF PathsInv, UploadTypeOK
<1>1. ASSUME NEW a, Fail(c, a) PROVE FALSE
  BY <1>0, <1>1 DEF Fail, ResultRecord
<1>2. UploadEntry(c)
  <2>1. ~RemoveEntry(c)
    <3>1. ASSUME NEW q, result' = [result EXCEPT ![c].deleted = @ \cup {q}] PROVE FALSE
      BY <1>0, <3>1 DEF ResultRecord
    <3> QED
      BY <1>1, <3>1 DEF RemoveEntry
  <2> QED
    BY <1>1, <2>1 DEF CallStep, StatBase, MakeBase, ResolveBase, List, Plan, PlanFails,
       NextEntry, MakeParents, CheckDelete
<1>3. /\ up'[c].at = "done"
      /\ result' = [result EXCEPT ![c].uploaded = @ \cup {call[c].cur}]
  BY <1>1, <1>2 DEF UploadEntry
<1>4. p = call[c].cur
  BY <1>0, <1>3 DEF ResultRecord
<1>5. UploadStep(c)
  BY <1>0, <1>2, <1>3, UploadStartAims DEF UploadEntry
<1>6. p = up[c].dst
  BY <1>0, <1>4, <1>5, UploadWrites DEF PathsInv, Aim
<1> QED
  BY <1>3, <1>5, <1>6, RenameLands

LEMMA DeletesReported ==
  ASSUME PathsInv, NEW c \in Caller, CallStep(c),
         NEW p \in result'[c].deleted \ result[c].deleted
  PROVE  LeadsOut(fs, p) \/ (fs[p] # Absent /\ fs'[p] = Absent)
<1> DEFINE q == call[c].cur
           able == IF call[c].isDir THEN IsEmptyDir(fs, q) ELSE CanRemove(fs, q)
<1>0. /\ result \in [Caller -> ResultRecord] /\ fs \in [Path -> Node]
  BY TypeInvParts DEF PathsInv, UploadTypeOK, SessionTypeOK
<1>1. ASSUME NEW a, Fail(c, a) PROVE FALSE
  BY <1>0, <1>1 DEF Fail, ResultRecord
<1>2. RemoveEntry(c)
  <2>1. ~UploadEntry(c)
    <3>1. ASSUME NEW r, result' = [result EXCEPT ![c].uploaded = @ \cup {r}] PROVE FALSE
      BY <1>0, <3>1 DEF ResultRecord
    <3> QED
      BY <1>1, <3>1 DEF UploadEntry
  <2> QED
    BY <1>1, <2>1 DEF CallStep, StatBase, MakeBase, ResolveBase, List, Plan, PlanFails,
       NextEntry, MakeParents, CheckDelete
<1>3. /\ RequestAt(c, TRUE, q, able, Without(fs, q))
      /\ result' = [result EXCEPT ![c].deleted = @ \cup {q}]
  BY <1>1, <1>2 DEF RemoveEntry
<1>4. p = q
  BY <1>0, <1>3 DEF ResultRecord
<1> SUFFICES ASSUME ~LeadsOut(fs, q) PROVE fs[q] # Absent /\ fs'[q] = Absent
  BY <1>4
<1>5. q \in Path
  BY <1>2, TempsAreEntries DEF PathsInv, RemoveEntry, TypeInv, CurrentEntry
<1>6. able /\ fs' = Without(fs, q)
  BY <1>3 DEF RequestAt, Request
<1>7. fs[q] # Absent
  BY <1>6 DEF IsEmptyDir, CanRemove, Absent, Dir
<1> QED
  BY <1>0, <1>4, <1>5, <1>6, <1>7 DEF Without

LEMMA OnlyCallsReport ==
  ASSUME ReachInv, [Next]_vars, NEW c \in Caller, NEW p,
         p \in (result'[c].uploaded \ result[c].uploaded)
                 \cup (result'[c].deleted \ result[c].deleted)
  PROVE  CallStep(c)
<1>0. TypeInv /\ result \in [Caller -> ResultRecord]
  BY DEF ReachInv, PathsInv, TypeInv, TypeOK
<1>1. ASSUME NEW d \in Caller, CallStep(d) PROVE CallStep(c)
  BY <1>0, <1>1, CallStepOfOne DEF Others
<1>2. ASSUME NEW d \in Caller, NEW dry \in BOOLEAN, Begin(d, dry) PROVE FALSE
  BY <1>0, <1>2 DEF Begin, NoResult
<1>3. ASSUME UNCHANGED result PROVE FALSE
  BY <1>3
<1>4. ASSUME (\E d \in Caller : Crash(d)) \/ Environment \/ UNCHANGED vars PROVE FALSE
  BY <1>3, <1>4 DEF Crash, Environment, EditLocal, ChangeRemote, Tick, vars, own
<1> QED
  BY <1>1, <1>2, <1>4, InitAssumption DEF Next

LEMMA Reach == Spec => [](ReachInv /\ TornInv)
<1>1. Init => ReachInv /\ TornInv
  BY InitReach, InitTorn
<1>2. ReachInv /\ TornInv /\ [Next]_vars => ReachInv' /\ TornInv'
  BY NextKeepsReach, NextKeepsTorn DEF ReachInv, PathsInv
<1> QED
  BY <1>1, <1>2, PTL DEF Spec

\* What sync reports as uploaded is in place and complete at that moment, and
\* what it reports as deleted is gone (ReportedLanded).
THEOREM ReportsAreTrue == Spec => ReportedLanded
<1>1. ASSUME ReachInv, TornInv, [Next]_vars, NEW c \in Caller, NEW p \in Entry
      PROVE  /\ p \in result'[c].uploaded \ result[c].uploaded =>
                  LeadsOut(fs, p) \/ (IsFile(fs'[p]) /\ fs'[p].data # Torn)
             /\ p \in result'[c].deleted \ result[c].deleted =>
                  LeadsOut(fs, p) \/ (fs[p] # Absent /\ fs'[p] = Absent)
  BY <1>1, OnlyCallsReport, UploadsReported, DeletesReported DEF ReachInv, Aimed
<1>2. ReachInv /\ TornInv /\ [Next]_vars =>
        [\A c \in Caller, p \in Entry :
           /\ p \in result'[c].uploaded \ result[c].uploaded =>
                LeadsOut(fs, p) \/ (IsFile(fs'[p]) /\ fs'[p].data # Torn)
           /\ p \in result'[c].deleted \ result[c].deleted =>
                LeadsOut(fs, p) \/ (fs[p] # Absent /\ fs'[p] = Absent)]_vars
  BY <1>1
<1> QED
  BY <1>2, Reach, PTL DEF Spec, ReportedLanded

\* A call comes to remove an entry behind a link only if somebody else plants the
\* link between its check and its removal; what came before, also a plan that
\* went stale, cannot lead it there (DeletesAreChecked).
THEOREM NoDeleteThroughLinks == Spec => DeletesAreChecked
<1>1. ReachInv /\ [Next]_vars =>
        [\A c \in Caller :
           LeadsOut(fs', call'[c].cur) /\ call'[c].phase = "remove" =>
             \/ LeadsOut(fs, call[c].cur) /\ call[c].phase = "remove"
             \/ call[c].phase = "remove" /\ budget'.intrusions < budget.intrusions]_vars
  BY StepsAreChecked, IntrusionsCount DEF ReachInv, PathsInv, CheckedStep
<1> QED
  BY <1>1, Reach, PTL DEF Spec, DeletesAreChecked

-----------------------------------------------------------------------------
(***************************************************************************)
(* Excluded files.                                                         *)
(***************************************************************************)
LEMMA WritesOnlyAllowed ==
  ASSUME PathsInv, NEW c \in Caller, Writes(c), Aim(c), Allowed(call[c]),
         NEW p \in Visible, IsFile(fs[p]), Excluded(rules, p, FALSE)
  PROVE  fs'[p] = fs[p]
<1>0. /\ TypeInv /\ UploadTypeOK /\ fs \in [Path -> Node]
      /\ p \in Path /\ p \notin Temps
  BY TypeInvParts, TempsAreEntries DEF PathsInv, UploadTypeOK, SessionTypeOK
<1>1. fs[p] # Absent /\ fs[p] # Dir
  BY DEF IsFile, Absent, Dir
<1>2. CASE fs' = fs
  BY <1>2
<1>3. CASE fs[mk[c].dir] = Absent /\ fs' = [fs EXCEPT ![mk[c].dir] = Dir]
  BY <1>0, <1>1, <1>3
<1>4. ASSUME NEW t \in Temps, fs' = [fs EXCEPT ![t] = File(Torn, Stamp)]
      PROVE  fs'[p] = fs[p]
  BY <1>0, <1>4
<1>5. CASE Busy(c) /\ WritesUpload(c)
  <2>1. up[c].tmp \in Temps /\ up[c].dst \in Path
    BY <1>0, <1>5, BusyRecord, TempsAreEntries
  <2>2. up[c].dst # p
    BY <1>0, <1>5 DEF Aim, Allowed
  <2> QED
    BY <1>0, <1>5, <2>1, <2>2 DEF WritesUpload, Moved, Without
<1>6. CASE /\ call[c].phase = "remove"
           /\ call[c].isDir => IsEmptyDir(fs, call[c].cur)
           /\ fs' = Without(fs, call[c].cur)
  <2>1. ~Excluded(rules, call[c].cur, call[c].isDir)
    BY <1>0, <1>6 DEF Allowed
  <2>2. CASE call[c].isDir
    BY <1>0, <1>1, <1>6, <2>2 DEF IsEmptyDir, Without
  <2>3. CASE ~call[c].isDir
    <3>1. call[c].isDir = FALSE
      BY <1>0, <2>3 DEF TypeInv, TypeOK, CallRecord
    <3>2. call[c].cur # p
      BY <2>1, <3>1, Zenon
    <3> QED
      BY <1>0, <1>6, <3>2 DEF Without
  <2> QED
    BY <2>2, <2>3
<1> QED
  BY <1>2, <1>3, <1>4, <1>5, <1>6 DEF Writes

\* A file that include or ignore put out of sync's reach is never removed,
\* replaced or rewritten by a call (ExcludedFilesUntouched).
THEOREM ExcludedIsSafe == Spec => ExcludedFilesUntouched
<1>1. ASSUME ReachInv, [Next]_vars, NEW c \in Caller, NEW p \in Visible,
             Moves(c), IsFile(fs[p]), Excluded(rules, p, FALSE)
      PROVE  fs'[p] = fs[p]
  <2>1. ASSUME NEW d \in Caller, CallStep(d) PROVE fs'[p] = fs[p]
    BY <1>1, <2>1, CallStepWrites, WritesOnlyAllowed DEF ReachInv, PathsInv, Aimed, AllAllowed
  <2>2. ASSUME NEW d \in Caller, Crash(d) \/ \E dry \in BOOLEAN : Begin(d, dry)
        PROVE  fs'[p] = fs[p]
    BY <2>2 DEF Crash, Begin, session
  <2>3. ASSUME Environment \/ UNCHANGED vars PROVE FALSE
    BY <1>1, <2>3 DEF Environment, EditLocal, ChangeRemote, Tick, vars, own, Moves
  <2> QED
    BY <1>1, <2>1, <2>2, <2>3, InitAssumption DEF Next
<1>2. ReachInv /\ [Next]_vars =>
        [\A c \in Caller, p \in Visible :
           Moves(c) /\ IsFile(fs[p]) /\ Excluded(rules, p, FALSE) => fs'[p] = fs[p]]_vars
  BY <1>1
<1> QED
  BY <1>2, Reach, PTL DEF Spec, ExcludedFilesUntouched
=============================================================================
