---------------------------- MODULE ToolsProofs ----------------------------
(***************************************************************************)
(* Proofs about the start and the tools: what is served was checked, and   *)
(* whatever names the operator and the clients write, the remote base lies *)
(* in the remote_root and what a push sends lies in the project and lands  *)
(* below the base; host_list keeps the order of the file; the shell takes  *)
(* every argument of exec as it is; matchSegs finds a way to cut a path    *)
(* along a pattern whenever there is one, for patterns and paths of any    *)
(* length; what the matcher and MatchInclude say of a path is what the     *)
(* verdicts say by which SyncPlan plans; and, where the .gitignore of the  *)
(* root is walked before the others, the matcher decides as git does.      *)
(***************************************************************************)
EXTENDS Tools, SequenceTheorems, FiniteSetTheorems, WellFoundedInduction, TLAPS

-----------------------------------------------------------------------------
(***************************************************************************)
(* Folds over sequences.  A fold is a function defined by recursion; that  *)
(* there is one is shown by taking the shortest prefix without.            *)
(***************************************************************************)
Smaller == {x \in Nat \X Nat : x[1] < x[2]}

LEMMA SmallerIsWellFounded == IsWellFoundedOn(Smaller, Nat)
BY NatLessThanWellFounded DEF OpToRel, Smaller

LEMMA LeastNumber ==
  ASSUME NEW T \in SUBSET Nat, T # {}
  PROVE  \E m \in T : \A n \in T : m <= n
<1>1. PICK m \in T : \A n \in T : ~(<<n, m>> \in Smaller)
  BY WFMin, SmallerIsWellFounded
<1>2. ASSUME NEW n \in T PROVE m <= n
  <2>1. <<n, m>> \in Nat \X Nat /\ <<n, m>>[1] = n /\ <<n, m>>[2] = m
    OBVIOUS
  <2>2. ~(<<n, m>>[1] < <<n, m>>[2])
    BY <1>1, <2>1 DEF Smaller
  <2> QED
    BY <2>1, <2>2
<1> QED
  BY <1>2

\* What holds of 0, and of n + 1 where it holds of n, holds of all numbers up to
\* any: a set says where it holds.
LEMMA Inductive ==
  ASSUME NEW n \in Nat, NEW T, 0 \in T, \A i \in 1 .. n : i - 1 \in T => i \in T
  PROVE  \A i \in 0 .. n : i \in T
<1> SUFFICES ASSUME NEW j \in 0 .. n, j \notin T PROVE FALSE
  OBVIOUS
<1> DEFINE Bad == {i \in 0 .. n : i \notin T}
<1>1. PICK m \in Bad : \A i \in Bad : m <= i
  <2>1. Bad \in SUBSET Nat /\ Bad # {}
    OBVIOUS
  <2> HIDE DEF Bad
  <2> QED
    BY <2>1, LeastNumber
<1>2. m \in 1 .. n /\ m - 1 \in 0 .. n
  BY <1>1
<1>3. m - 1 \in T
  BY <1>1, <1>2
<1> QED
  BY <1>1, <1>2, <1>3

LEMMA MaxOf ==
  ASSUME NEW n \in Nat, NEW s \in SUBSET (1 .. n), n \in s
  PROVE  Max(s) = n
<1>1. \A y \in s : n >= y
  OBVIOUS
<1>2. Max(s) \in s /\ Max(s) >= n
  BY <1>1 DEF Max
<1>3. Max(s) \in 1 .. n
  BY <1>2
<1> QED
  BY <1>2, <1>3

LEMMA MaxIn ==
  ASSUME NEW n \in Nat, NEW s \in SUBSET (1 .. n), s # {}
  PROVE  Max(s) \in s /\ \A y \in s : Max(s) >= y
<1> DEFINE T == {i \in Nat : n - i \in s}
<1>1. PICK m \in T : \A i \in T : m <= i
  <2>1. PICK y \in s : TRUE
    OBVIOUS
  <2>2. n - y \in T
    BY <2>1
  <2>3. T \in SUBSET Nat /\ T # {}
    BY <2>2
  <2> HIDE DEF T
  <2> QED
    BY <2>3, LeastNumber
<1>2. n - m \in s
  BY <1>1
<1>3. ASSUME NEW y \in s PROVE n - m >= y
  <2>1. n - y \in T
    OBVIOUS
  <2> QED
    BY <1>1, <2>1
<1> QED
  BY <1>2, <1>3 DEF Max

\* The function that a fold applies, step by step.
IsFold(h, G, b, seq) ==
  \A s \in SUBSET (1 .. Len(seq)) :
    h[s] = IF s = {} THEN b ELSE G[<<h[s \ {Max(s)}], seq[Max(s)]>>]

LEMMA FoldExists ==
  ASSUME NEW V, NEW E, NEW G \in [V \X E -> V], NEW b \in V, NEW seq \in Seq(E)
  PROVE  \E h \in [SUBSET (1 .. Len(seq)) -> V] : IsFold(h, G, b, seq)
<1> DEFINE Upto(h, n) ==
             \A s \in SUBSET (1 .. n) :
               h[s] = IF s = {} THEN b ELSE G[<<h[s \ {Max(s)}], seq[Max(s)]>>]
           T == {n \in 0 .. Len(seq) : \E h \in [SUBSET (1 .. n) -> V] : Upto(h, n)}
<1>1. 0 \in T
  <2>1. [s \in SUBSET (1 .. 0) |-> b] \in [SUBSET (1 .. 0) -> V]
    OBVIOUS
  <2>2. Upto([s \in SUBSET (1 .. 0) |-> b], 0)
    OBVIOUS
  <2>3. 0 \in 0 .. Len(seq)
    BY LenProperties
  <2> HIDE DEF Upto
  <2> QED
    BY <2>1, <2>2, <2>3
<1>2. ASSUME NEW n \in 1 .. Len(seq), n - 1 \in T PROVE n \in T
  <2>1. PICK h \in [SUBSET (1 .. n - 1) -> V] : Upto(h, n - 1)
    BY <1>2
  <2> DEFINE g == [s \in SUBSET (1 .. n) |->
                     IF n \in s THEN G[<<h[s \ {n}], seq[n]>>] ELSE h[s]]
  <2>2. n \in Nat /\ seq[n] \in E
    BY LenProperties
  <2>3. ASSUME NEW s \in SUBSET (1 .. n), n \in s
        PROVE  /\ Max(s) = n /\ s \ {n} \in SUBSET (1 .. n - 1) /\ n \notin s \ {n}
               /\ s \ {n} \in SUBSET (1 .. n)
    BY <2>2, <2>3, MaxOf
  <2>4. ASSUME NEW s \in SUBSET (1 .. n), n \notin s
        PROVE  s \in SUBSET (1 .. n - 1)
    BY <2>2, <2>4
  <2>5. g \in [SUBSET (1 .. n) -> V]
    <3>1. ASSUME NEW s \in SUBSET (1 .. n)
          PROVE  (IF n \in s THEN G[<<h[s \ {n}], seq[n]>>] ELSE h[s]) \in V
      BY <2>1, <2>2, <2>3, <2>4
    <3> QED
      BY <3>1
  <2>6. ASSUME NEW s \in SUBSET (1 .. n)
        PROVE  g[s] = IF s = {} THEN b ELSE G[<<g[s \ {Max(s)}], seq[Max(s)]>>]
    <3>1. CASE n \in s
      <4>1. g[s] = G[<<h[s \ {n}], seq[n]>>] /\ g[s \ {n}] = h[s \ {n}]
        BY <3>1, <2>3
      <4> QED
        BY <3>1, <4>1, <2>3
    <3>2. CASE n \notin s
      <4>1. g[s] = h[s] /\ s \in SUBSET (1 .. n - 1)
        BY <3>2, <2>4
      <4>2. g[s \ {Max(s)}] = h[s \ {Max(s)}]
        BY <3>2
      <4> QED
        BY <4>1, <4>2, <2>1
    <3> QED
      BY <3>1, <3>2
  <2>7. Upto(g, n)
    BY <2>6
  <2>8. n \in 0 .. Len(seq)
    BY <2>2, LenProperties
  <2> HIDE DEF Upto, g
  <2> QED
    BY <2>5, <2>7, <2>8
<1> HIDE DEF T
<1>3. Len(seq) \in T
  <2>1. Len(seq) \in Nat
    BY LenProperties
  <2>2. \A i \in 0 .. Len(seq) : i \in T
    BY <1>1, <1>2, <2>1, Inductive
  <2> QED
    BY <2>1, <2>2
<1> QED
  BY <1>3, LenProperties DEF T, IsFold

\* Folding goes from left to right, through the prefixes.
Folds(h, V, E, G, b, seq) ==
  /\ G \in [V \X E -> V] /\ b \in V /\ seq \in Seq(E)
  /\ h[{}] = b
  /\ \A s \in SUBSET DOMAIN seq :
       s # {} /\ h[s \ {Max(s)}] \in V => h[s] = G[<<h[s \ {Max(s)}], seq[Max(s)]>>]

LEMMA FoldRuns ==
  ASSUME NEW V, NEW E, NEW G, NEW b, NEW seq, NEW h, Folds(h, V, E, G, b, seq)
  PROVE  \E f \in [0 .. Len(seq) -> V] :
           /\ f[0] = b
           /\ \A i \in 1 .. Len(seq) : f[i] = G[<<f[i - 1], seq[i]>>]
           /\ f[Len(seq)] = h[DOMAIN seq]
<1> DEFINE f == [i \in 0 .. Len(seq) |-> h[1 .. i]]
           T == {i \in 0 .. Len(seq) : f[i] \in V}
<1>0. /\ G \in [V \X E -> V] /\ b \in V /\ seq \in Seq(E) /\ h[{}] = b
      /\ \A s \in SUBSET DOMAIN seq :
           s # {} /\ h[s \ {Max(s)}] \in V => h[s] = G[<<h[s \ {Max(s)}], seq[Max(s)]>>]
  BY DEF Folds
<1>1. Len(seq) \in Nat /\ DOMAIN seq = 1 .. Len(seq) /\ \A i \in 1 .. Len(seq) : seq[i] \in E
  BY <1>0, LenProperties
<1>2. f[0] = b
  <2>1. 1 .. 0 = {}
    OBVIOUS
  <2> QED
    BY <1>0, <1>1, <2>1
<1>3. ASSUME NEW i \in 1 .. Len(seq), f[i - 1] \in V
      PROVE  f[i] = G[<<f[i - 1], seq[i]>>] /\ f[i] \in V
  <2>1. Max(1 .. i) = i /\ (1 .. i) \ {i} = 1 .. i - 1 /\ 1 .. i \in SUBSET DOMAIN seq
    BY <1>1, MaxOf
  <2>2. i \in 0 .. Len(seq) /\ i - 1 \in 0 .. Len(seq) /\ i \in 1 .. i
    BY <1>1
  <2>4. f[i] = h[1 .. i] /\ f[i - 1] = h[1 .. i - 1] /\ 1 .. i # {}
    BY <2>2
  <2>3. f[i] = G[<<f[i - 1], seq[i]>>]
    BY <1>0, <1>3, <2>1, <2>4
  <2> QED
    BY <1>0, <1>1, <1>3, <2>3
<1>4. \A i \in 0 .. Len(seq) : f[i] \in V
  <2>1. 0 \in T
    BY <1>0, <1>1, <1>2
  <2>2. ASSUME NEW i \in 1 .. Len(seq), i - 1 \in T PROVE i \in T
    <3>1. i \in 0 .. Len(seq) /\ f[i - 1] \in V
      BY <1>1, <2>2
    <3> QED
      BY <1>3, <3>1
  <2> HIDE DEF T
  <2>3. \A i \in 0 .. Len(seq) : i \in T
    BY <1>1, <2>1, <2>2, Inductive
  <2> QED
    BY <2>3 DEF T
<1>5. f[Len(seq)] = h[DOMAIN seq]
  BY <1>1
<1>6. f \in [0 .. Len(seq) -> V]
  BY <1>4
<1>7. ASSUME NEW i \in 1 .. Len(seq) PROVE f[i] = G[<<f[i - 1], seq[i]>>]
  <2>1. i - 1 \in 0 .. Len(seq)
    BY <1>1
  <2>2. f[i - 1] \in V
    BY <1>4, <2>1
  <2> QED
    BY <1>3, <2>2
<1> HIDE DEF f
<1> QED
  BY <1>2, <1>5, <1>6, <1>7

-----------------------------------------------------------------------------
(***************************************************************************)
(* path.Clean, name by name.                                               *)
(***************************************************************************)
\* The names of a path.  That a given string is one is beyond the provers.
Segment == STRING \cup {"", ".", "/", "**"}
Raw == Seq(Segment)

LEMMA StringsAreRaw == Seq(STRING) \subseteq Raw /\ STRING \subseteq Segment
<1>1. STRING \subseteq Segment
  BY DEF Segment
<1>2. \A p \in Seq(STRING) : p \in Seq(Segment)
  BY <1>1, SeqMonotonic
<1> QED
  BY <1>1, <1>2 DEF Raw

LEMMA FrontIsRaw ==
  ASSUME NEW out \in Raw
  PROVE  /\ Front(out) \in Raw
         /\ out # <<>> => /\ Len(Front(out)) = Len(out) - 1 /\ Len(out) \in 1 .. Len(out)
                         /\ \A i \in 1 .. Len(out) - 1 : Front(out)[i] = out[i]
<1>1. Len(out) \in Nat /\ \A i \in 1 .. Len(out) - 1 : out[i] \in Segment
  BY LenProperties, ElementOfSeq DEF Raw
<1>2. out # <<>> => Len(out) # 0
  BY EmptySeq DEF Raw
<1>3. Len(out) - 1 \in Int /\ 1 \in Int
  BY <1>1
<1>4. /\ SubSeq(out, 1, Len(out) - 1) \in Seq(Segment)
      /\ Len(SubSeq(out, 1, Len(out) - 1)) =
           IF 1 <= Len(out) - 1 THEN (Len(out) - 1) - 1 + 1 ELSE 0
      /\ \A i \in 1 .. (Len(out) - 1) - 1 + 1 :
           SubSeq(out, 1, Len(out) - 1)[i] = out[1 + i - 1]
  BY <1>1, <1>3, SubSeqProperties
<1>5. \A i \in 1 .. Len(out) - 1 : 1 + i - 1 = i /\ i \in 1 .. (Len(out) - 1) - 1 + 1
  BY <1>1
<1>6. Front(out) = SubSeq(out, 1, Len(out) - 1)
  BY DEF Front
<1>7. Front(out) \in Raw
  BY <1>4, <1>6 DEF Raw
<1>8. ASSUME out # <<>>
      PROVE  /\ Len(Front(out)) = Len(out) - 1 /\ Len(out) \in 1 .. Len(out)
             /\ \A i \in 1 .. Len(out) - 1 : Front(out)[i] = out[i]
  <2>1. Len(out) >= 1
    BY <1>1, <1>2, <1>8
  <2>2. Len(Front(out)) = Len(out) - 1
    <3>1. PICK n \in Nat : n = Len(out)
      BY <1>1
    <3>2. Len(Front(out)) = IF 1 <= n - 1 THEN (n - 1) - 1 + 1 ELSE 0
      BY <1>4, <1>6, <3>1
    <3> QED
      BY <2>1, <3>1, <3>2
  <2>3. ASSUME NEW i \in 1 .. Len(out) - 1 PROVE Front(out)[i] = out[i]
    BY <1>1, <1>4, <1>5, <1>6
  <2> QED
    BY <1>1, <2>1, <2>2, <2>3
<1> QED
  BY <1>7, <1>8

LEMMA AppendIsRaw ==
  ASSUME NEW out \in Raw, NEW name \in Segment
  PROVE  Append(out, name) \in Raw /\ Append(out, name) = out \o <<name>> /\ <<name>> \in Raw
BY AppendProperties, AppendIsConcat DEF Raw

\* A name that says nothing, one that goes up, and any other.
Silent(name) == name = "" \/ name = "."
Up(name) == name = ".."

LEMMA StepStays ==
  ASSUME NEW abs, NEW out, NEW name, Silent(name)
  PROVE  CleanStep(abs, out, name) = out
BY DEF CleanStep, Silent

LEMMA StepDown ==
  ASSUME NEW abs, NEW out, NEW name, ~Silent(name), ~Up(name)
  PROVE  CleanStep(abs, out, name) = Append(out, name)
BY DEF CleanStep, Silent, Up

LEMMA StepUp ==
  ASSUME NEW abs, NEW out, NEW name, Up(name)
  PROVE  \/ CleanStep(abs, out, name) = out /\ out = <<>> /\ abs
         \/ CleanStep(abs, out, name) = Front(out) /\ out # <<>>
         \/ /\ CleanStep(abs, out, name) = Append(out, name)
            /\ out = <<>> => ~abs
            /\ out # <<>> => Up(Last(out))
BY DEF CleanStep, Up

LEMMA StepIsRaw ==
  ASSUME NEW abs, NEW out \in Raw, NEW name \in Segment
  PROVE  CleanStep(abs, out, name) \in Raw
<1>1. CleanStep(abs, out, name) \in {out, Front(out), Append(out, name)}
  BY StepStays, StepDown, StepUp
<1> QED
  BY <1>1, FrontIsRaw, AppendIsRaw

\* A path without "..", and a clean one.
Plain(raw) == \A i \in 1 .. Len(raw) : ~Up(raw[i])
Neat(raw) == \A i \in 1 .. Len(raw) : ~Silent(raw[i])

LEMMA NoDotDot ==
  ASSUME NEW raw \in Raw
  PROVE  Plain(raw) <=> ~hasDotDotSegment(raw)
<1>1. DOMAIN raw = 1 .. Len(raw)
  BY LenProperties DEF Raw
<1> QED
  BY <1>1 DEF Plain, Up, hasDotDotSegment, ToSet

\* What is clean of each beginning of a path, from some names on.
Steps(abs, f, raw) ==
  /\ f \in [0 .. Len(raw) -> Raw]
  /\ \A i \in 1 .. Len(raw) : f[i] = CleanStep(abs, f[i - 1], raw[i])

LEMMA NameAt ==
  ASSUME NEW raw \in Raw, NEW i \in 1 .. Len(raw)
  PROVE  /\ Len(raw) \in Nat /\ i \in 0 .. Len(raw) /\ i - 1 \in 0 .. Len(raw)
         /\ raw[i] \in Segment
BY LenProperties, ElementOfSeq DEF Raw

LEMMA StepAt ==
  ASSUME NEW abs, NEW f, NEW raw \in Raw, Steps(abs, f, raw), NEW i \in 1 .. Len(raw)
  PROVE  f[i - 1] \in Raw /\ f[i] \in Raw /\ f[i] = CleanStep(abs, f[i - 1], raw[i])
BY NameAt DEF Steps

LEMMA CleanedSteps ==
  ASSUME NEW abs, NEW raw \in Raw
  PROVE  \E f : Steps(abs, f, raw) /\ f[0] = <<>> /\ f[Len(raw)] = Cleaned(abs, raw)
<1> DEFINE Iter(h) == [s \in SUBSET DOMAIN raw |->
                         IF s = {} THEN <<>>
                         ELSE CleanStep(abs, h[s \ {Max(s)}], raw[Max(s)])]
           h == CHOOSE h : h = Iter(h)
           G == [x \in Raw \X Segment |-> CleanStep(abs, x[1], x[2])]
<1>1. Cleaned(abs, raw) = h[DOMAIN raw]
  BY DEF Cleaned, FoldLeft, MapThenFoldSet
<1>2. /\ DOMAIN raw = 1 .. Len(raw) /\ Len(raw) \in Nat
      /\ \A s \in SUBSET DOMAIN raw : s # {} => Max(s) \in DOMAIN raw /\ raw[Max(s)] \in Segment
      /\ <<>> \in Raw
  <2>1. DOMAIN raw = 1 .. Len(raw) /\ Len(raw) \in Nat /\ <<>> \in Raw
    BY LenProperties, EmptySeq DEF Raw
  <2>2. ASSUME NEW s \in SUBSET DOMAIN raw, s # {}
        PROVE  Max(s) \in DOMAIN raw /\ raw[Max(s)] \in Segment
    <3>1. Max(s) \in 1 .. Len(raw)
      BY <2>1, <2>2, MaxIn
    <3> QED
      BY <2>1, <3>1, ElementOfSeq DEF Raw
  <2> QED
    BY <2>1, <2>2
<1>3. G \in [Raw \X Segment -> Raw] /\ \A v \in Raw, n \in Segment : G[<<v, n>>] = CleanStep(abs, v, n)
  BY StepIsRaw
<1> HIDE DEF G
<1>4. h = Iter(h)
  <2>1. PICK g \in [SUBSET (1 .. Len(raw)) -> Raw] : IsFold(g, G, <<>>, raw)
    BY <1>2, <1>3, FoldExists DEF Raw
  <2>2. ASSUME NEW s \in SUBSET DOMAIN raw, s # {}
        PROVE  g[s] = CleanStep(abs, g[s \ {Max(s)}], raw[Max(s)])
    BY <1>2, <1>3, <2>1, <2>2 DEF IsFold
  <2>3. g[{}] = <<>>
    BY <2>1 DEF IsFold
  <2>4. g = Iter(g)
    BY <1>2, <2>1, <2>2, <2>3
  <2> QED
    BY <2>4
<1>5. h[{}] = <<>>
  BY <1>4
<1>6. ASSUME NEW s \in SUBSET DOMAIN raw, s # {}, h[s \ {Max(s)}] \in Raw
      PROVE  h[s] = G[<<h[s \ {Max(s)}], raw[Max(s)]>>]
  <2>1. h[s] = CleanStep(abs, h[s \ {Max(s)}], raw[Max(s)])
    BY <1>4, <1>6
  <2> QED
    BY <1>2, <1>3, <1>6, <2>1
<1> HIDE DEF h
<1>9. Folds(h, Raw, Segment, G, <<>>, raw)
  BY <1>2, <1>3, <1>5, <1>6 DEF Folds, Raw
<1>7. PICK f \in [0 .. Len(raw) -> Raw] :
        /\ f[0] = <<>>
        /\ \A i \in 1 .. Len(raw) : f[i] = G[<<f[i - 1], raw[i]>>]
        /\ f[Len(raw)] = h[DOMAIN raw]
  BY <1>9, FoldRuns
<1>8. ASSUME NEW i \in 1 .. Len(raw) PROVE f[i] = CleanStep(abs, f[i - 1], raw[i])
  <2>1. i - 1 \in 0 .. Len(raw) /\ raw[i] \in Segment
    BY <1>2, ElementOfSeq DEF Raw
  <2> QED
    BY <1>3, <1>7, <2>1
<1> QED
  BY <1>1, <1>7, <1>8 DEF Steps

LEMMA CleanedIsRaw == ASSUME NEW abs, NEW raw \in Raw PROVE Cleaned(abs, raw) \in Raw
<1>1. PICK f : Steps(abs, f, raw) /\ f[Len(raw)] = Cleaned(abs, raw)
  BY CleanedSteps
<1>2. Len(raw) \in 0 .. Len(raw)
  BY LenProperties DEF Raw
<1> QED
  BY <1>1, <1>2 DEF Steps

\* The names so far and the names to come are all there is to it.
LEMMA StepsAgree ==
  ASSUME NEW abs, NEW raw \in Raw, NEW f, NEW g, Steps(abs, f, raw), Steps(abs, g, raw), f[0] = g[0]
  PROVE  f[Len(raw)] = g[Len(raw)]
<1> DEFINE T == {i \in 0 .. Len(raw) : f[i] = g[i]}
<1>1. Len(raw) \in Nat
  BY LenProperties DEF Raw
<1>2. 0 \in T
  BY <1>1
<1>3. ASSUME NEW i \in 1 .. Len(raw), i - 1 \in T PROVE i \in T
  BY <1>1, <1>3 DEF Steps
<1> HIDE DEF T
<1>4. Len(raw) \in T
  <2>1. \A i \in 0 .. Len(raw) : i \in T
    BY <1>1, <1>2, <1>3, Inductive
  <2> QED
    BY <1>1, <2>1
<1> QED
  BY <1>4 DEF T

LEMMA ConcatSteps ==
  ASSUME NEW abs, NEW a \in Raw, NEW b \in Raw
  PROVE  \E f : Steps(abs, f, b) /\ f[0] = Cleaned(abs, a) /\ f[Len(b)] = Cleaned(abs, a \o b)
<1>1. /\ a \o b \in Raw /\ Len(a) \in Nat /\ Len(b) \in Nat
      /\ Len(a \o b) = Len(a) + Len(b)
      /\ \A i \in 1 .. Len(a) : (a \o b)[i] = a[i]
      /\ \A i \in 1 .. Len(b) : (a \o b)[Len(a) + i] = b[i]
  BY ConcatProperties, LenProperties DEF Raw
<1>2. PICK g : /\ Steps(abs, g, a \o b) /\ g[0] = <<>>
               /\ g[Len(a \o b)] = Cleaned(abs, a \o b)
  BY <1>1, CleanedSteps
<1> DEFINE f == [i \in 0 .. Len(b) |-> g[Len(a) + i]]
           e == [i \in 0 .. Len(a) |-> g[i]]
<1>3. g \in [0 .. Len(a) + Len(b) -> Raw]
  BY <1>1, <1>2 DEF Steps
<1>4. ASSUME NEW i \in 1 .. Len(b) PROVE f[i] = CleanStep(abs, f[i - 1], b[i])
  <2>1. /\ Len(a) + i \in 1 .. Len(a \o b) /\ i \in 0 .. Len(b) /\ i - 1 \in 0 .. Len(b)
        /\ (Len(a) + i) - 1 = Len(a) + (i - 1)
    BY <1>1
  <2>2. g[Len(a) + i] = CleanStep(abs, g[(Len(a) + i) - 1], (a \o b)[Len(a) + i])
    BY <1>2, <2>1 DEF Steps
  <2> QED
    BY <1>1, <2>1, <2>2
<1>5. ASSUME NEW i \in 1 .. Len(a) PROVE e[i] = CleanStep(abs, e[i - 1], a[i])
  <2>1. i \in 1 .. Len(a \o b) /\ i \in 0 .. Len(a) /\ i - 1 \in 0 .. Len(a)
    BY <1>1
  <2>2. g[i] = CleanStep(abs, g[i - 1], (a \o b)[i])
    BY <1>2, <2>1 DEF Steps
  <2> QED
    BY <1>1, <2>1, <2>2
<1>6. f \in [0 .. Len(b) -> Raw] /\ e \in [0 .. Len(a) -> Raw]
  <2>1. \A i \in 0 .. Len(b) : Len(a) + i \in 0 .. Len(a) + Len(b)
    BY <1>1
  <2>2. \A i \in 0 .. Len(a) : i \in 0 .. Len(a) + Len(b)
    BY <1>1
  <2> QED
    BY <1>3, <2>1, <2>2
<1>7. Steps(abs, f, b) /\ Steps(abs, e, a)
  BY <1>4, <1>5, <1>6 DEF Steps
<1>8. f[0] = g[Len(a)] /\ f[Len(b)] = g[Len(a) + Len(b)] /\ e[0] = <<>> /\ e[Len(a)] = g[Len(a)]
  BY <1>1, <1>2
<1> HIDE DEF f, e
<1>9. e[Len(a)] = Cleaned(abs, a)
  <2>1. PICK d : Steps(abs, d, a) /\ d[0] = <<>> /\ d[Len(a)] = Cleaned(abs, a)
    BY CleanedSteps
  <2> QED
    BY <1>7, <1>8, <2>1, StepsAgree
<1> QED
  BY <1>1, <1>2, <1>7, <1>8, <1>9

-----------------------------------------------------------------------------
(***************************************************************************)
(* Without a ".." a path only goes down, however it is written.            *)
(***************************************************************************)
BothSteps(a1, a2, f, g, raw) ==
  Plain(raw) /\ Steps(a1, f, raw) /\ Steps(a2, g, raw) /\ g[0] = <<>>

Continues(f, g, n) == f[n] = f[0] \o g[n]

LEMMA PlainSteps ==
  ASSUME NEW a1, NEW a2, NEW raw \in Raw, NEW f, NEW g, BothSteps(a1, a2, f, g, raw)
  PROVE  Continues(f, g, Len(raw))
<1> DEFINE T == {i \in 0 .. Len(raw) : f[i] = f[0] \o g[i]}
<1>0. Plain(raw) /\ Steps(a1, f, raw) /\ Steps(a2, g, raw) /\ g[0] = <<>>
  BY DEF BothSteps
<1>1. /\ Len(raw) \in Nat /\ f \in [0 .. Len(raw) -> Raw] /\ g \in [0 .. Len(raw) -> Raw]
      /\ f[0] \in Raw
  BY <1>0, LenProperties DEF Raw, Steps
<1>2. 0 \in T
  <2>1. f[0] \o <<>> = f[0]
    BY <1>1, ConcatEmptySeq DEF Raw
  <2>2. f[0] = f[0] \o g[0]
    BY <1>0, <2>1, Zenon
  <2>3. 0 \in 0 .. Len(raw)
    BY <1>1
  <2> QED
    BY <2>2, <2>3
<1>3. ASSUME NEW i \in 1 .. Len(raw), i - 1 \in T PROVE i \in T
  <2>1. f[i - 1] = f[0] \o g[i - 1]
    BY <1>3
  <2>6. i \in 0 .. Len(raw) /\ raw[i] \in Segment /\ ~Up(raw[i])
    BY <1>0, NameAt DEF Plain
  <2>2. f[i - 1] \in Raw /\ f[i] = CleanStep(a1, f[i - 1], raw[i])
    BY <1>0, StepAt
  <2>3. g[i - 1] \in Raw /\ g[i] = CleanStep(a2, g[i - 1], raw[i])
    BY <1>0, StepAt
  <2>4. CASE Silent(raw[i])
    <3>1. f[i] = f[i - 1] /\ g[i] = g[i - 1]
      BY <2>2, <2>3, <2>4, StepStays
    <3> QED
      BY <2>1, <2>6, <3>1
  <2>5. CASE ~Silent(raw[i])
    <3>1. f[i] = Append(f[i - 1], raw[i])
      BY <2>2, <2>5, <2>6, StepDown
    <3>5. g[i] = Append(g[i - 1], raw[i])
      BY <2>3, <2>5, <2>6, StepDown
    <3>2. f[i] = f[i - 1] \o <<raw[i]>> /\ g[i] = g[i - 1] \o <<raw[i]>> /\ <<raw[i]>> \in Raw
      BY <2>2, <2>3, <2>6, <3>1, <3>5, AppendIsRaw
    <3>3. PICK n \in Raw : n = <<raw[i]>>
      BY <3>2
    <3>4. (f[0] \o g[i - 1]) \o n = f[0] \o (g[i - 1] \o n)
      <4>1. PICK x, y : x = f[0] /\ y = g[i - 1]
        OBVIOUS
      <4>2. x \in Seq(Segment) /\ y \in Seq(Segment) /\ n \in Seq(Segment)
        BY <1>1, <2>3, <4>1 DEF Raw
      <4>3. (x \o y) \o n = x \o (y \o n)
        BY <4>2, ConcatAssociative
      <4> QED
        BY <4>1, <4>3
    <3> QED
      BY <2>1, <2>6, <3>2, <3>3, <3>4
  <2> QED
    BY <2>4, <2>5
<1> HIDE DEF T
<1>4. Len(raw) \in T
  <2>1. \A i \in 0 .. Len(raw) : i \in T
    BY <1>1, <1>2, <1>3, Inductive
  <2> QED
    BY <1>1, <2>1
<1> QED
  BY <1>4 DEF T, Continues

LEMMA CleanedJoin ==
  ASSUME NEW abs, NEW a \in Raw, NEW b \in Raw, Plain(b)
  PROVE  Cleaned(abs, a \o b) = Cleaned(abs, a) \o Cleaned(FALSE, b)
<1>1. PICK f : /\ Steps(abs, f, b) /\ f[0] = Cleaned(abs, a)
               /\ f[Len(b)] = Cleaned(abs, a \o b)
  BY ConcatSteps
<1>2. PICK no : no = FALSE
  OBVIOUS
<1>3. PICK g : Steps(no, g, b) /\ g[0] = <<>> /\ g[Len(b)] = Cleaned(no, b)
  BY CleanedSteps
<1>4. BothSteps(abs, no, f, g, b)
  BY <1>1, <1>3 DEF BothSteps
<1>5. Continues(f, g, Len(b))
  BY <1>4, PlainSteps
<1> QED
  BY <1>1, <1>2, <1>3, <1>5 DEF Continues

\* In a clean path there is no "." and no empty name, and no ".." if it is
\* absolute or there was none before.
LEMMA CleanedIsNeat ==
  ASSUME NEW abs, NEW raw \in Raw
  PROVE  /\ Neat(Cleaned(abs, raw))
         /\ abs \/ Plain(raw) => Plain(Cleaned(abs, raw))
<1>1. PICK f : Steps(abs, f, raw) /\ f[0] = <<>> /\ f[Len(raw)] = Cleaned(abs, raw)
  BY CleanedSteps
<1> DEFINE Good(p) == Neat(p) /\ (abs \/ Plain(raw) => Plain(p))
           T == {i \in 0 .. Len(raw) : Good(f[i])}
<1>2. Len(raw) \in Nat
  BY LenProperties DEF Raw
<1>3. 0 \in T
  <2>1. Len(<<>>) = 0 /\ 0 \in 0 .. Len(raw)
    BY <1>2, EmptySeq
  <2>2. Good(<<>>)
    BY <2>1 DEF Neat, Plain
  <2> QED
    BY <1>1, <2>1, <2>2
<1>4. ASSUME NEW i \in 1 .. Len(raw), i - 1 \in T PROVE i \in T
  <2>1. PICK p \in Raw : p = f[i - 1]
    BY <1>1, StepAt
  <2>2. PICK name \in Segment : name = raw[i]
    BY NameAt
  <2>3. f[i] = CleanStep(abs, p, name)
    BY <1>1, <2>1, <2>2, StepAt
  <2>4. Good(p) /\ i \in 0 .. Len(raw) /\ (Plain(raw) => ~Up(name))
    BY <1>4, <2>1, <2>2, NameAt DEF Plain
  <2>5. ASSUME ~Silent(name), abs \/ Plain(raw) => ~Up(name) PROVE Good(Append(p, name))
    <3>1. /\ Len(Append(p, name)) = Len(p) + 1
          /\ \A j \in 1 .. Len(p) : Append(p, name)[j] = p[j]
          /\ Append(p, name)[Len(p) + 1] = name
      <4>1. p \in Seq(Segment)
        BY DEF Raw
      <4> QED
        BY <4>1, AppendProperties
    <3>2. Len(p) \in Nat
      BY LenProperties DEF Raw
    <3>3. \A j \in 1 .. Len(p) + 1 : j \in 1 .. Len(p) \/ j = Len(p) + 1
      BY <3>2
    <3> QED
      BY <2>4, <2>5, <3>1, <3>3 DEF Neat, Plain
  <2>6. ASSUME p # <<>> PROVE Good(Front(p))
    <3>1. /\ Len(Front(p)) = Len(p) - 1 /\ Len(p) \in 1 .. Len(p)
          /\ \A j \in 1 .. Len(p) - 1 : Front(p)[j] = p[j]
      BY <2>6, FrontIsRaw
    <3>2. \A j \in 1 .. Len(p) - 1 : j \in 1 .. Len(p)
      BY LenProperties DEF Raw
    <3> QED
      BY <2>4, <3>1, <3>2 DEF Neat, Plain
  <2>7. CASE Silent(name)
    <3>1. f[i] = p
      BY <2>3, <2>7, StepStays
    <3> QED
      BY <2>4, <3>1
  <2>8. CASE ~Silent(name) /\ ~Up(name)
    <3>1. f[i] = Append(p, name)
      BY <2>3, <2>8, StepDown
    <3> QED
      BY <2>4, <2>5, <2>8, <3>1
  <2>9. CASE Up(name)
    <3>1. \/ f[i] = p /\ p = <<>> /\ abs
          \/ f[i] = Front(p) /\ p # <<>>
          \/ f[i] = Append(p, name) /\ (p = <<>> => ~abs) /\ (p # <<>> => Up(Last(p)))
      BY <2>3, <2>9, StepUp
    <3>2. CASE f[i] = Append(p, name) /\ (p = <<>> => ~abs) /\ (p # <<>> => Up(Last(p)))
      <4>1. ASSUME abs \/ Plain(raw) PROVE FALSE
        <5>1. abs /\ p # <<>> /\ Plain(p)
          BY <2>4, <2>9, <3>2, <4>1
        <5>2. Len(p) \in 1 .. Len(p) /\ Up(p[Len(p)])
          BY <3>2, <5>1, FrontIsRaw DEF Last
        <5> QED
          BY <5>1, <5>2 DEF Plain
      <4>2. ~Silent(name)
        BY <2>9 DEF Up, Silent
      <4> QED
        BY <2>4, <2>5, <3>2, <4>1, <4>2
    <3> QED
      BY <2>4, <2>6, <3>1, <3>2
  <2> QED
    BY <2>7, <2>8, <2>9
<1> HIDE DEF T
<1>5. Len(raw) \in T
  <2>1. \A i \in 0 .. Len(raw) : i \in T
    BY <1>2, <1>3, <1>4, Inductive
  <2>2. Len(raw) \in 0 .. Len(raw)
    BY <1>2
  <2> QED
    BY <2>1, <2>2
<1> QED
  BY <1>1, <1>5 DEF T

\* Cleaning what is clean changes nothing.
LEMMA CleanedStays ==
  ASSUME NEW abs, NEW raw \in Raw, Neat(raw), Plain(raw)
  PROVE  Cleaned(abs, raw) = raw
<1>1. PICK f : Steps(abs, f, raw) /\ f[0] = <<>> /\ f[Len(raw)] = Cleaned(abs, raw)
  BY CleanedSteps
<1> DEFINE T == {i \in 0 .. Len(raw) : f[i] = SubSeq(raw, 1, i)}
<1>2. Len(raw) \in Nat /\ Len(raw) \in 0 .. Len(raw)
  BY LenProperties DEF Raw
<1>3. 0 \in T
  <2>1. 1 \in Int /\ 0 \in Int /\ 0 < 1
    OBVIOUS
  <2>2. SubSeq(raw, 1, 0) = <<>>
    BY <2>1, SubSeqEmpty
  <2>3. 0 \in 0 .. Len(raw)
    BY <1>2
  <2>4. f[0] = SubSeq(raw, 1, 0)
    BY <1>1, <2>2
  <2> QED
    BY <2>3, <2>4
<1>4. ASSUME NEW i \in 1 .. Len(raw), i - 1 \in T PROVE i \in T
  <2>1. PICK p \in Raw : p = f[i - 1]
    BY <1>1, StepAt
  <2>2. PICK name \in Segment : name = raw[i]
    BY NameAt
  <2>3. f[i] = CleanStep(abs, p, name)
    BY <1>1, <2>1, <2>2, StepAt
  <2>4. p = SubSeq(raw, 1, i - 1) /\ i \in 0 .. Len(raw) /\ ~Silent(name) /\ ~Up(name)
    BY <1>4, <2>1, <2>2, NameAt DEF Neat, Plain
  <2>5. f[i] = Append(p, name)
    BY <2>3, <2>4, StepDown
  <2>6. f[i] = p \o <<name>>
    BY <2>5, AppendIsRaw
  <2>7. SubSeq(raw, 1, i) = SubSeq(raw, 1, i - 1) \o <<raw[i]>>
    <3>1. raw \in Seq(Segment) /\ 1 \in 1 .. Len(raw) /\ i \in 1 .. Len(raw)
      BY <1>2 DEF Raw
    <3>2. i \in 1 .. Len(raw) => \A m \in 1 .. Len(raw) : m <= i =>
            SubSeq(raw, m, i) = SubSeq(raw, m, i - 1) \o <<raw[i]>>
      BY <3>1, SubSeqRecursiveSecond
    <3> QED
      BY <3>1, <3>2
  <2> QED
    BY <2>2, <2>4, <2>6, <2>7
<1> HIDE DEF T
<1>5. \A i \in 0 .. Len(raw) : i \in T
  BY <1>2, <1>3, <1>4, Inductive
<1>6. SubSeq(raw, 1, Len(raw)) = raw
  BY SubSeqFull DEF Raw
<1> QED
  BY <1>1, <1>2, <1>5, <1>6 DEF T

-----------------------------------------------------------------------------
(***************************************************************************)
(* Below a directory.                                                      *)
(***************************************************************************)
LEMMA ConcatIsBelow ==
  ASSUME NEW a \in Raw, NEW b \in Raw
  PROVE  IsPrefix(a, a \o b) /\ (b # <<>> => IsStrictPrefix(a, a \o b))
<1>1. /\ a \o b \in Raw /\ Len(a) \in Nat /\ Len(b) \in Nat /\ Len(a \o b) = Len(a) + Len(b)
      /\ \A i \in 1 .. Len(a) : (a \o b)[i] = a[i]
  BY ConcatProperties, LenProperties DEF Raw
<1>2. SubSeq(a, 1, Len(a)) = SubSeq(a \o b, 1, Len(a))
  <2>1. SubSeq(a, 1, Len(a)) = a
    BY SubSeqFull DEF Raw
  <2>2. PICK p : p = SubSeq(a \o b, 1, Len(a))
    OBVIOUS
  <2>3. \A i \in 1 .. Len(a) : (a \o b)[i] \in Segment
    BY <1>1, NameAt
  <2>4. p \in Raw /\ Len(p) = Len(a) /\ \A i \in 1 .. Len(a) : p[i] = (a \o b)[i]
    <3>1. PICK n \in Nat, c \in Raw : n = Len(a) /\ c = a \o b
      BY <1>1
    <3>2. \A i \in 1 .. n : c[i] \in Segment
      BY <2>3, <3>1
    <3>3. /\ SubSeq(c, 1, n) \in Seq(Segment)
          /\ Len(SubSeq(c, 1, n)) = IF 1 <= n THEN n - 1 + 1 ELSE 0
          /\ \A i \in 1 .. n - 1 + 1 : SubSeq(c, 1, n)[i] = c[1 + i - 1]
      BY <3>2, SubSeqProperties
    <3>4. Len(SubSeq(c, 1, n)) = n /\ \A i \in 1 .. n : SubSeq(c, 1, n)[i] = c[i]
      BY <3>3
    <3> QED
      BY <2>2, <3>1, <3>3, <3>4 DEF Raw
  <2>5. p = a
    <3>1. Len(p) = Len(a) /\ \A i \in 1 .. Len(p) : p[i] = a[i]
      BY <1>1, <2>4
    <3>2. p \in Seq(Segment) /\ a \in Seq(Segment)
      BY <2>4 DEF Raw
    <3> QED
      BY <3>1, <3>2, SeqEqual
  <2> QED
    BY <2>1, <2>2, <2>5
<1>3. b # <<>> => a # a \o b
  <2>1. b # <<>> => Len(b) # 0
    BY EmptySeq DEF Raw
  <2> QED
    BY <1>1, <2>1
<1> QED
  BY <1>1, <1>2, <1>3 DEF IsPrefix, IsStrictPrefix

\* "." stands for the empty path, and adds nothing.
LEMMA WrittenIsPlain ==
  ASSUME NEW p \in Raw, Plain(p)
  PROVE  Written(p) \in Raw /\ Plain(Written(p)) /\ (p # <<>> => Written(p) = p)
<1>1. CASE p # <<>>
  BY <1>1 DEF Written
<1>2. CASE p = <<>>
  <2>1. PICK dot \in Segment : dot = "."
    <3>1. "." \in Segment
      BY DEF Segment
    <3> QED
      BY <3>1, Zenon
  <2>2. Written(p) = <<dot>>
    BY <1>2, <2>1 DEF Written
  <2>3. <<dot>> \in Raw /\ Len(<<dot>>) = 1 /\ <<dot>>[1] = dot
    BY DEF Raw
  <2>4. ~Up(dot)
    BY <2>1 DEF Up
  <2> QED
    BY <1>2, <2>2, <2>3, <2>4 DEF Plain
<1> QED
  BY <1>1, <1>2

LEMMA CleanedBelow ==
  ASSUME NEW abs, NEW a \in Raw, NEW b \in Raw, Plain(b)
  PROVE  /\ IsPrefix(Cleaned(abs, a), Cleaned(abs, a \o b))
         /\ Cleaned(FALSE, b) # <<>> => IsStrictPrefix(Cleaned(abs, a), Cleaned(abs, a \o b))
<1>1. PICK no : no = FALSE
  OBVIOUS
<1>2. Cleaned(abs, a \o b) = Cleaned(abs, a) \o Cleaned(no, b)
  BY <1>1, CleanedJoin
<1>3. Cleaned(abs, a) \in Raw /\ Cleaned(no, b) \in Raw
  BY CleanedIsRaw
<1> QED
  BY <1>1, <1>2, <1>3, ConcatIsBelow

\* RemoteBase: where remote_local_root leads is below remote_root.
LEMMA BaseIsBelow ==
  ASSUME NEW root \in Raw, NEW r \in Raw, ~hasDotDotSegment(r)
  PROVE  /\ IsPrefix(Cleaned(TRUE, root), RemoteJoin(root, Written(Cleaned(FALSE, r))))
         /\ Written(Cleaned(FALSE, r)) \in Raw
<1>1. PICK no, yes : no = FALSE /\ yes = TRUE
  OBVIOUS
<1>2. PICK p \in Raw : p = Cleaned(no, r) /\ Plain(p)
  BY CleanedIsRaw, CleanedIsNeat, NoDotDot
<1>3. PICK w \in Raw : w = Written(p) /\ Plain(w)
  BY <1>2, WrittenIsPlain
<1>4. IsPrefix(Cleaned(yes, root), Cleaned(yes, root \o w))
  BY <1>3, CleanedBelow
<1> QED
  BY <1>1, <1>2, <1>3, <1>4 DEF RemoteJoin

\* A clean absolute path, as those of projects and remote bases are.
CleanPath(p) == p \in Raw /\ Neat(p) /\ Plain(p)

LEMMA CleanedIsCleanPath ==
  ASSUME NEW raw \in Raw
  PROVE  CleanPath(Cleaned(TRUE, raw))
<1>1. PICK yes : yes = TRUE
  OBVIOUS
<1>2. CleanPath(Cleaned(yes, raw))
  BY <1>1, CleanedIsRaw, CleanedIsNeat DEF CleanPath
<1> QED
  BY <1>1, <1>2

\* CheckLexical, of a name that says something.
LEMMA CandidateIsBelow ==
  ASSUME NEW root, CleanPath(root), NEW file \in Raw, ~hasDotDotSegment(file),
         Cleaned(FALSE, file) # <<>>
  PROVE  IsStrictPrefix(root, Candidate(root, file))
<1>1. PICK yes : yes = TRUE
  OBVIOUS
<1>2. root \in Raw /\ Cleaned(yes, root) = root
  BY CleanedStays DEF CleanPath
<1>3. Plain(file)
  BY NoDotDot
<1>4. IsStrictPrefix(Cleaned(yes, root), Cleaned(yes, root \o file))
  BY <1>2, <1>3, CleanedBelow
<1> QED
  BY <1>1, <1>2, <1>4 DEF Candidate

\* Where dest and the name of a file lead, if CheckLexical lets them.
LEMMA DestIsBelow ==
  ASSUME NEW base, CleanPath(base), NEW dest \in Raw, NEW file \in Raw,
         ~hasDotDotSegment(file), Cleaned(FALSE, file) # <<>>, SplitRel(Joined(dest, file))
  PROVE  IsStrictPrefix(base, Candidate(base, Joined(dest, file)))
<1>1. PICK no : no = FALSE
  OBVIOUS
<1>2. PICK all \in Raw : all = dest \o file
  BY ConcatProperties DEF Raw
<1>3. PICK p \in Raw : p = Cleaned(no, all)
  BY CleanedIsRaw
<1>4. p # <<>>
  <2>1. Plain(file)
    BY NoDotDot
  <2>2. p = Cleaned(no, dest) \o Cleaned(no, file)
    BY <1>1, <1>2, <1>3, <2>1, CleanedJoin
  <2>3. PICK x, y : x = Cleaned(no, dest) /\ y = Cleaned(no, file)
    OBVIOUS
  <2>4. x \in Raw /\ y \in Raw
    BY <2>3, CleanedIsRaw
  <2>5. Len(x \o y) = Len(x) + Len(y) /\ Len(x) \in Nat /\ Len(y) \in Nat \ {0}
    <3>1. y # <<>>
      BY <1>1, <2>3
    <3> QED
      BY <2>4, <3>1, ConcatProperties, LenProperties, EmptySeq DEF Raw
  <2>6. Len(<<>>) = 0
    BY EmptySeq
  <2> QED
    BY <2>2, <2>3, <2>5, <2>6
<1>5. ~Absolute(dest)
  <2>1. SUFFICES ASSUME Absolute(dest) PROVE Absolute(Joined(dest, file))
    BY DEF SplitRel
  <2>2. PICK c \in Raw : Joined(dest, file) = WrittenAbsolute(c)
    <3>1. PICK yes : yes = TRUE
      OBVIOUS
    <3>2. Cleaned(yes, all) \in Raw
      BY CleanedIsRaw
    <3> QED
      BY <1>2, <2>1, <3>1, <3>2 DEF Joined
  <2>3. PICK nil \in Segment : nil = ""
    <3>1. "" \in Segment
      BY DEF Segment
    <3> QED
      BY <3>1, Zenon
  <2>4. PICK n : n = <<nil>>
    OBVIOUS
  <2>5. n \in Raw /\ Len(n) = 1 /\ n[1] = nil /\ n # <<>>
    BY <2>4 DEF Raw
  <2>6. PICK d \in Raw : d = (IF c = <<>> THEN n ELSE c) /\ d # <<>>
    BY <2>5
  <2>7. Len(d) \in Nat \ {0} /\ d \in Seq(Segment) /\ n \in Seq(Segment)
    BY <2>5, <2>6, EmptySeq DEF Raw
  <2>8. Len(n \o d) = Len(n) + Len(d) /\ (n \o d)[1] = n[1]
    BY <2>5, <2>7, ConcatProperties
  <2>9. WrittenAbsolute(c) = n \o d
    BY <2>3, <2>4, <2>6 DEF WrittenAbsolute
  <2>10. Len(n \o d) > 1 /\ (n \o d)[1] = nil
    BY <2>5, <2>7, <2>8
  <2>11. Absolute(n \o d)
    BY <2>3, <2>10 DEF Absolute
  <2> QED
    BY <2>2, <2>9, <2>11, Zenon
<1>6. Joined(dest, file) = p
  BY <1>1, <1>2, <1>3, <1>4, <1>5 DEF Joined, Written
<1>7. ~hasDotDotSegment(p) /\ Neat(p)
  BY <1>3, <1>6, CleanedIsNeat DEF SplitRel
<1>8. Cleaned(no, p) = p
  BY <1>7, NoDotDot, CleanedStays
<1> QED
  BY <1>1, <1>4, <1>6, <1>7, <1>8, CandidateIsBelow

-----------------------------------------------------------------------------
(***************************************************************************)
(* The VMs of a file, key by key.                                          *)
(***************************************************************************)
TypedFile(file) == file.keys \in Seq(Raw) /\ DOMAIN file.vms \subseteq Segment

LEMMA DeclaredForms ==
  ASSUME NEW file, NEW out, NEW key
  PROVE  \/ Declared(file, out, key) = out
         \/ /\ Declared(file, out, key) = Append(out, key[2])
            /\ key[2] \in DOMAIN file.vms /\ key[2] \notin ToSet(out)
            /\ Len(key) = 2 /\ key[1] = "vms"
BY DEF Declared

DeclaredSteps(file, f) ==
  /\ f \in [0 .. Len(file.keys) -> Raw]
  /\ f[0] = <<>>
  /\ \A i \in 1 .. Len(file.keys) : f[i] = Declared(file, f[i - 1], file.keys[i])

LEMMA DeclaredInSteps ==
  ASSUME NEW file, TypedFile(file)
  PROVE  \E f : DeclaredSteps(file, f) /\ f[Len(file.keys)] = DeclaredVMs(file)
<1> DEFINE keys == file.keys
           Iter(h) == [s \in SUBSET DOMAIN keys |->
                         IF s = {} THEN <<>>
                         ELSE Declared(file, h[s \ {Max(s)}], keys[Max(s)])]
           h == CHOOSE h : h = Iter(h)
           G == [x \in Raw \X Raw |-> Declared(file, x[1], x[2])]
<1>1. DeclaredVMs(file) = h[DOMAIN keys]
  BY DEF DeclaredVMs, FoldLeft, MapThenFoldSet
<1>2. /\ DOMAIN keys = 1 .. Len(keys) /\ Len(keys) \in Nat
      /\ \A s \in SUBSET DOMAIN keys : s # {} => Max(s) \in DOMAIN keys /\ keys[Max(s)] \in Raw
      /\ <<>> \in Raw
  <2>1. DOMAIN keys = 1 .. Len(keys) /\ Len(keys) \in Nat /\ <<>> \in Raw
    BY LenProperties, EmptySeq DEF TypedFile, Raw
  <2>2. ASSUME NEW s \in SUBSET DOMAIN keys, s # {}
        PROVE  Max(s) \in DOMAIN keys /\ keys[Max(s)] \in Raw
    <3>1. Max(s) \in 1 .. Len(keys)
      BY <2>1, <2>2, MaxIn
    <3> QED
      BY <2>1, <3>1, ElementOfSeq DEF TypedFile
  <2> QED
    BY <2>1, <2>2
<1>3. G \in [Raw \X Raw -> Raw] /\ \A v \in Raw, n \in Raw : G[<<v, n>>] = Declared(file, v, n)
  <2>1. ASSUME NEW v \in Raw, NEW n \in Raw PROVE Declared(file, v, n) \in Raw
    <3>1. CASE Declared(file, v, n) = v
      BY <3>1
    <3>2. CASE Declared(file, v, n) = Append(v, n[2]) /\ n[2] \in DOMAIN file.vms
      <4>1. PICK name \in Segment : name = n[2]
        BY <3>2 DEF TypedFile
      <4> QED
        BY <3>2, <4>1, AppendIsRaw
    <3> QED
      BY <3>1, <3>2, DeclaredForms
  <2> QED
    BY <2>1
<1> HIDE DEF G
<1>4. h = Iter(h)
  <2>1. PICK g \in [SUBSET (1 .. Len(keys)) -> Raw] : IsFold(g, G, <<>>, keys)
    BY <1>2, <1>3, FoldExists DEF TypedFile
  <2>2. ASSUME NEW s \in SUBSET DOMAIN keys, s # {}
        PROVE  g[s] = Declared(file, g[s \ {Max(s)}], keys[Max(s)])
    BY <1>2, <1>3, <2>1, <2>2 DEF IsFold
  <2>3. g[{}] = <<>>
    BY <2>1 DEF IsFold
  <2>4. g = Iter(g)
    BY <1>2, <2>1, <2>2, <2>3
  <2> QED
    BY <2>4
<1>5. h[{}] = <<>>
  BY <1>4
<1>6. ASSUME NEW s \in SUBSET DOMAIN keys, s # {}, h[s \ {Max(s)}] \in Raw
      PROVE  h[s] = G[<<h[s \ {Max(s)}], keys[Max(s)]>>]
  <2>1. h[s] = Declared(file, h[s \ {Max(s)}], keys[Max(s)])
    BY <1>4, <1>6
  <2> QED
    BY <1>2, <1>3, <1>6, <2>1
<1> HIDE DEF h
<1>7. Folds(h, Raw, Raw, G, <<>>, keys)
  BY <1>2, <1>3, <1>5, <1>6 DEF Folds, TypedFile
<1>8. PICK f \in [0 .. Len(keys) -> Raw] :
        /\ f[0] = <<>>
        /\ \A i \in 1 .. Len(keys) : f[i] = G[<<f[i - 1], keys[i]>>]
        /\ f[Len(keys)] = h[DOMAIN keys]
  BY <1>7, FoldRuns
<1>9. ASSUME NEW i \in 1 .. Len(keys) PROVE f[i] = Declared(file, f[i - 1], keys[i])
  <2>1. i - 1 \in 0 .. Len(keys) /\ keys[i] \in Raw
    BY <1>2, ElementOfSeq DEF TypedFile
  <2> QED
    BY <1>3, <1>8, <2>1
<1> QED
  BY <1>1, <1>8, <1>9 DEF DeclaredSteps

\* The place at which a VM is declared: that of its first key.
KeyOf(n) == <<"vms", n>>
Place(keys, n) == SelectInSeq(keys, LAMBDA k : k = <<"vms", n>>)

LEMMA PlaceIs ==
  ASSUME NEW keys, NEW n, NEW i \in 1 .. Len(keys), keys[i] = KeyOf(n), Len(keys) \in Nat,
         \A j \in 1 .. i - 1 : keys[j] # KeyOf(n)
  PROVE  Place(keys, n) = i
<1> DEFINE I == {j \in 1 .. Len(keys) : keys[j] = <<"vms", n>>}
<1>1. i \in I /\ \A j \in I : i <= j
  BY DEF KeyOf
<1>2. Place(keys, n) = Min(I)
  BY <1>1 DEF Place, SelectInSeq
<1>3. I \subseteq Int
  OBVIOUS
<1> HIDE DEF I
<1>4. PICK m \in I : m = Min(I) /\ m <= i
  BY <1>1, <1>3 DEF Min
<1>5. i <= m /\ m \in Int
  BY <1>1, <1>3, <1>4
<1> QED
  BY <1>2, <1>4, <1>5

\* So far, the VMs that the keys name are listed, in the order of their places.
ListedTo(file, out, i) ==
  /\ \A n \in DOMAIN file.vms, m \in 1 .. i : file.keys[m] = KeyOf(n) => n \in ToSet(out)
  /\ \A j \in 1 .. Len(out) : out[j] \in DOMAIN file.vms /\ Place(file.keys, out[j]) \in 1 .. i
  /\ \A j, l \in 1 .. Len(out) :
       j < l => Place(file.keys, out[j]) < Place(file.keys, out[l])

LEMMA DeclaredAsListed ==
  ASSUME NEW file, TypedFile(file)
  PROVE  ListedTo(file, DeclaredVMs(file), Len(file.keys)) /\ DeclaredVMs(file) \in Raw
<1>1. PICK f : DeclaredSteps(file, f) /\ f[Len(file.keys)] = DeclaredVMs(file)
  BY DeclaredInSteps
<1> DEFINE keys == file.keys
           T == {i \in 0 .. Len(keys) : ListedTo(file, f[i], i)}
<1>2. Len(keys) \in Nat /\ Len(keys) \in 0 .. Len(keys) /\ \A i \in 1 .. Len(keys) : keys[i] \in Raw
  BY LenProperties, ElementOfSeq DEF TypedFile
<1>3. 0 \in T
  <2>1. Len(<<>>) = 0 /\ f[0] = <<>> /\ 0 \in 0 .. Len(keys)
    BY <1>1, <1>2, EmptySeq DEF DeclaredSteps
  <2>2. ListedTo(file, <<>>, 0)
    BY <2>1 DEF ListedTo
  <2> QED
    BY <2>1, <2>2
<1>4. ASSUME NEW i \in 1 .. Len(keys), i - 1 \in T PROVE i \in T
  <2>1. i \in 0 .. Len(keys) /\ i - 1 \in 0 .. Len(keys) /\ keys[i] \in Raw
    BY <1>2
  <2>2. PICK out \in Raw : out = f[i - 1]
    BY <1>1, <2>1 DEF DeclaredSteps
  <2>3. f[i] = Declared(file, out, keys[i]) /\ ListedTo(file, out, i - 1)
    BY <1>1, <1>4, <2>2 DEF DeclaredSteps
  <2>4. Len(out) \in Nat /\ DOMAIN out = 1 .. Len(out)
    BY LenProperties DEF Raw
  <2>5. \A n : keys[i] = KeyOf(n) <=> Len(keys[i]) = 2 /\ keys[i][1] = "vms" /\ keys[i][2] = n
    <3>1. PICK key : key = keys[i]
      OBVIOUS
    <3>2. key \in Seq(Segment)
      BY <2>1, <3>1 DEF Raw
    <3>3. ASSUME NEW n PROVE key = <<"vms", n>> <=> Len(key) = 2 /\ key[1] = "vms" /\ key[2] = n
      <4>1. Len(key) = 2 => key = <<key[1], key[2]>>
        BY <3>2
      <4> QED
        BY <4>1
    <3> QED
      BY <3>1, <3>3 DEF KeyOf
  <2>6. CASE f[i] = out /\ \A n \in DOMAIN file.vms : keys[i] = KeyOf(n) => n \in ToSet(out)
    BY <1>2, <2>3, <2>6 DEF ListedTo
  <2>7. ASSUME NEW n \in DOMAIN file.vms, keys[i] = KeyOf(n), n \notin ToSet(out),
               f[i] = Append(out, n)
        PROVE  ListedTo(file, f[i], i)
    <3>1. Place(keys, n) = i
      <4>1. \A j \in 1 .. i - 1 : keys[j] # KeyOf(n)
        BY <2>3, <2>7 DEF ListedTo
      <4> QED
        BY <1>2, <2>7, <4>1, PlaceIs
    <3>2. PICK new : new = Append(out, n)
      OBVIOUS
    <3>3. /\ Len(new) = Len(out) + 1 /\ new[Len(out) + 1] = n /\ new \in Raw
          /\ \A j \in 1 .. Len(out) : new[j] = out[j]
      <4>1. n \in Segment /\ out \in Seq(Segment)
        BY DEF TypedFile, Raw
      <4> QED
        BY <3>2, <4>1, AppendProperties DEF Raw
    <3>4. \A j \in 1 .. Len(new) : j \in 1 .. Len(out) \/ j = Len(out) + 1
      BY <2>4, <3>3
    <3>5. \A j \in 1 .. Len(new) : /\ new[j] \in DOMAIN file.vms
                                   /\ Place(keys, new[j]) \in 1 .. i
      BY <1>2, <2>3, <3>1, <3>3, <3>4 DEF ListedTo
    <3>6. \A j, l \in 1 .. Len(new) : j < l => Place(keys, new[j]) < Place(keys, new[l])
      <4>1. ASSUME NEW j \in 1 .. Len(new), NEW l \in 1 .. Len(new), j < l
            PROVE  Place(keys, new[j]) < Place(keys, new[l])
        <5>1. j \in 1 .. Len(out) /\ new[j] = out[j]
          BY <2>4, <3>3, <3>4, <4>1
        <5>2. CASE l \in 1 .. Len(out)
          BY <2>3, <3>3, <4>1, <5>1, <5>2 DEF ListedTo
        <5>3. CASE l = Len(out) + 1
          BY <2>3, <3>1, <3>3, <5>1, <5>3 DEF ListedTo
        <5> QED
          BY <3>4, <5>2, <5>3
      <4> QED
        BY <4>1
    <3>7. ToSet(out) \subseteq ToSet(new) /\ n \in ToSet(new)
      <4>1. DOMAIN new = 1 .. Len(new)
        BY <3>3, LenProperties DEF Raw
      <4> QED
        BY <2>4, <3>3, <4>1 DEF ToSet
    <3>8. \A k \in DOMAIN file.vms, m \in 1 .. i : keys[m] = KeyOf(k) => k \in ToSet(new)
      <4>1. ASSUME NEW k \in DOMAIN file.vms, NEW m \in 1 .. i, keys[m] = KeyOf(k)
            PROVE  k \in ToSet(new)
        <5>1. CASE m = i
          <6>1. k = n
            BY <2>5, <2>7, <4>1, <5>1
          <6> QED
            BY <3>7, <6>1
        <5>2. CASE m \in 1 .. i - 1
          BY <2>3, <3>7, <4>1, <5>2 DEF ListedTo
        <5> QED
          BY <5>1, <5>2
      <4> QED
        BY <4>1
    <3> QED
      BY <2>7, <3>2, <3>5, <3>6, <3>8 DEF ListedTo
  <2>8. ListedTo(file, f[i], i)
    <3>1. CASE \E n \in DOMAIN file.vms : keys[i] = KeyOf(n) /\ n \notin ToSet(out)
      <4>1. PICK n \in DOMAIN file.vms : keys[i] = KeyOf(n) /\ n \notin ToSet(out)
        BY <3>1
      <4>2. Len(keys[i]) = 2 /\ keys[i][1] = "vms" /\ keys[i][2] = n
        BY <2>5, <4>1
      <4>3. f[i] = Append(out, n)
        BY <2>3, <4>1, <4>2 DEF Declared
      <4> QED
        BY <2>7, <4>1, <4>3
    <3>2. CASE \A n \in DOMAIN file.vms : keys[i] = KeyOf(n) => n \in ToSet(out)
      <4>1. f[i] = out
        BY <2>3, <2>5, <3>2, DeclaredForms
      <4> QED
        BY <2>6, <3>2, <4>1
    <3> QED
      BY <3>1, <3>2
  <2> QED
    BY <2>1, <2>8
<1> HIDE DEF T
<1>5. Len(keys) \in T
  <2>1. \A i \in 0 .. Len(keys) : i \in T
    BY <1>2, <1>3, <1>4, Inductive
  <2> QED
    BY <1>2, <2>1
<1> QED
  BY <1>1, <1>2, <1>5 DEF T, DeclaredSteps
-----------------------------------------------------------------------------
(***************************************************************************)
(* The command line of exec, as the login shell reads it.  Between two     *)
(* characters the shell is in a state; what it makes of a line is where a  *)
(* walk along the line ends, and walks can be put one behind the other.    *)
(***************************************************************************)
LEMMA Modes == Unquoted # Quoted /\ Unquoted # Escaped /\ Quoted # Escaped
BY DEF Unquoted, Quoted, Escaped

LEMMA Marks == Quote # Backslash /\ Quote # Space /\ Backslash # Space
BY DEF Quote, Backslash, Space

LEMMA ShellFields ==
  ASSUME NEW m, NEW w, NEW ws
  PROVE  Shell(m, w, ws).mode = m /\ Shell(m, w, ws).word = w /\ Shell(m, w, ws).words = ws
BY DEF Shell

LEMMA CloseQuote ==
  ASSUME NEW w, NEW ws
  PROVE  ShellStep(Shell(Quoted, w, ws), Quote) = Shell(Unquoted, w, ws)
<1>1. PICK s : s = Shell(Quoted, w, ws)
  OBVIOUS
<1>2. s.mode = Quoted /\ s.word = w /\ s.words = ws
  BY <1>1, ShellFields
<1>3. ShellStep(s, Quote) = Shell(Unquoted, s.word, s.words)
  BY <1>2, Modes, Marks DEF ShellStep
<1> QED
  BY <1>1, <1>2, <1>3

LEMMA KeepQuoted ==
  ASSUME NEW w, NEW ws, NEW ch, ch # Quote
  PROVE  ShellStep(Shell(Quoted, w, ws), ch) = Shell(Quoted, Grown(w, ch, TRUE), ws)
<1>1. PICK s : s = Shell(Quoted, w, ws)
  OBVIOUS
<1>2. s.mode = Quoted /\ s.word = w /\ s.words = ws
  BY <1>1, ShellFields
<1>3. ShellStep(s, ch) = Shell(Quoted, Grown(s.word, ch, TRUE), s.words)
  BY <1>2, Modes, Marks DEF ShellStep
<1> QED
  BY <1>1, <1>2, <1>3

LEMMA KeepEscaped ==
  ASSUME NEW w, NEW ws, NEW ch
  PROVE  ShellStep(Shell(Escaped, w, ws), ch) = Shell(Unquoted, Grown(w, ch, TRUE), ws)
<1>1. PICK s : s = Shell(Escaped, w, ws)
  OBVIOUS
<1>2. s.mode = Escaped /\ s.word = w /\ s.words = ws
  BY <1>1, ShellFields
<1>3. ShellStep(s, ch) = Shell(Unquoted, Grown(s.word, ch, TRUE), s.words)
  BY <1>2, Modes, Marks DEF ShellStep
<1> QED
  BY <1>1, <1>2, <1>3

LEMMA OpenQuote ==
  ASSUME NEW w, NEW ws
  PROVE  ShellStep(Shell(Unquoted, w, ws), Quote) = Shell(Quoted, Word(w.text, w.literal), ws)
<1>1. PICK s : s = Shell(Unquoted, w, ws)
  OBVIOUS
<1>2. s.mode = Unquoted /\ s.word = w /\ s.words = ws
  BY <1>1, ShellFields
<1>3. ShellStep(s, Quote) = Shell(Quoted, Word(s.word.text, s.word.literal), s.words)
  BY <1>2, Modes, Marks DEF ShellStep
<1> QED
  BY <1>1, <1>2, <1>3

LEMMA Escape ==
  ASSUME NEW w, NEW ws
  PROVE  ShellStep(Shell(Unquoted, w, ws), Backslash) = Shell(Escaped, w, ws)
<1>1. PICK s : s = Shell(Unquoted, w, ws)
  OBVIOUS
<1>2. s.mode = Unquoted /\ s.word = w /\ s.words = ws
  BY <1>1, ShellFields
<1>3. ShellStep(s, Backslash) = Shell(Escaped, s.word, s.words)
  BY <1>2, Modes, Marks DEF ShellStep
<1> QED
  BY <1>1, <1>2, <1>3

LEMMA EndWord ==
  ASSUME NEW w, NEW ws
  PROVE  ShellStep(Shell(Unquoted, w, ws), Space)
           = Shell(Unquoted, NoWord, IF w.begun THEN Append(ws, w) ELSE ws)
<1>1. PICK s : s = Shell(Unquoted, w, ws)
  OBVIOUS
<1>2. s.mode = Unquoted /\ s.word = w /\ s.words = ws
  BY <1>1, ShellFields
<1>3. ShellStep(s, Space) = Shell(Unquoted, NoWord, IF s.word.begun THEN Append(s.words, s.word) ELSE s.words)
  BY <1>2, Modes, Marks DEF ShellStep
<1> QED
  BY <1>1, <1>2, <1>3

LEMMA KeepBare ==
  ASSUME NEW w, NEW ws, NEW ch, ch \notin {Quote, Backslash, Space},
         NEW no \in BOOLEAN, ~no
  PROVE  ShellStep(Shell(Unquoted, w, ws), ch) = Shell(Unquoted, Grown(w, ch, no), ws)
<1>1. PICK s : s = Shell(Unquoted, w, ws)
  OBVIOUS
<1>2. s.mode = Unquoted /\ s.word = w /\ s.words = ws
  BY <1>1, ShellFields
<1>3. ShellStep(s, ch) = Shell(Unquoted, Grown(s.word, ch, FALSE), s.words)
  BY <1>2, Modes, Marks DEF ShellStep
<1>4. no = FALSE
  OBVIOUS
<1> QED
  BY <1>1, <1>2, <1>3, <1>4

LEMMA WordFields ==
  ASSUME NEW t, NEW l
  PROVE  Word(t, l).text = t /\ Word(t, l).literal = l /\ Word(t, l).begun
BY DEF Word

LEMMA NoWordFields == NoWord.text = <<>> /\ NoWord.literal /\ ~NoWord.begun
BY DEF NoWord

\* What the shell reads: any string, and the characters that mean something.
Signs == {Quote, Backslash, Space, "c", "d", "&"}
Character == Segment \cup Signs
Text == Seq(Character)
AnyWord == [text : Text, literal : BOOLEAN, begun : BOOLEAN]
AnyShell == [mode : {Unquoted, Quoted, Escaped}, word : AnyWord, words : Seq(AnyWord)]

LEMMA ShellIsAny ==
  ASSUME NEW m \in {Unquoted, Quoted, Escaped}, NEW w \in AnyWord, NEW ws \in Seq(AnyWord)
  PROVE  Shell(m, w, ws) \in AnyShell
BY DEF Shell, AnyShell

LEMMA WordIsAny ==
  /\ NoWord \in AnyWord
  /\ \A t \in Text, l \in BOOLEAN : Word(t, l) \in AnyWord
  /\ \A w \in AnyWord, ch \in Character, l \in BOOLEAN : Grown(w, ch, l) \in AnyWord
<1>1. <<>> \in Text /\ NoWord \in AnyWord
  BY EmptySeq DEF Text, NoWord, AnyWord
<1>2. \A t \in Text, l \in BOOLEAN : Word(t, l) \in AnyWord
  BY DEF Word, AnyWord
<1>3. ASSUME NEW w \in AnyWord, NEW ch \in Character, NEW l \in BOOLEAN
      PROVE  Grown(w, ch, l) \in AnyWord
  <2>1. Append(w.text, ch) \in Text /\ (w.literal /\ l) \in BOOLEAN
    BY AppendProperties DEF Text, AnyWord
  <2> QED
    BY <1>2, <2>1 DEF Grown
<1> QED
  BY <1>1, <1>2, <1>3

LEMMA StepIsShell ==
  ASSUME NEW s \in AnyShell, NEW ch \in Character
  PROVE  ShellStep(s, ch) \in AnyShell
<1>1. s.word \in AnyWord /\ s.words \in Seq(AnyWord)
  BY DEF AnyShell
<1>2. /\ NoWord \in AnyWord
      /\ Grown(s.word, ch, TRUE) \in AnyWord /\ Grown(s.word, ch, FALSE) \in AnyWord
      /\ Word(s.word.text, s.word.literal) \in AnyWord
      /\ (IF s.word.begun THEN Append(s.words, s.word) ELSE s.words) \in Seq(AnyWord)
  <2>1. s.word.text \in Text /\ s.word.literal \in BOOLEAN
    BY <1>1 DEF AnyWord
  <2>2. Append(s.words, s.word) \in Seq(AnyWord)
    BY <1>1, AppendProperties
  <2> QED
    BY <1>1, <2>1, <2>2, WordIsAny
<1> QED
  BY <1>1, <1>2, ShellIsAny DEF ShellStep

\* From one state of the shell to another by what it reads.
Walk(f, line) ==
  /\ f \in [0 .. Len(line) -> AnyShell]
  /\ \A i \in 1 .. Len(line) : f[i] = ShellStep(f[i - 1], line[i])
Reads(s, line, t) == \E f : Walk(f, line) /\ f[0] = s /\ f[Len(line)] = t

LEMMA ReadsOne ==
  ASSUME NEW s \in AnyShell, NEW ch \in Character
  PROVE  Reads(s, <<ch>>, ShellStep(s, ch))
<1> DEFINE f == [i \in 0 .. 1 |-> IF i = 0 THEN s ELSE ShellStep(s, ch)]
<1>1. Len(<<ch>>) = 1 /\ <<ch>>[1] = ch
  OBVIOUS
<1>2. Walk(f, <<ch>>)
  BY <1>1, StepIsShell DEF Walk
<1>3. f[0] = s /\ f[1] = ShellStep(s, ch)
  OBVIOUS
<1> QED
  BY <1>1, <1>2, <1>3 DEF Reads

LEMMA ReadsConcat ==
  ASSUME NEW a \in Text, NEW b \in Text, NEW s, NEW t, NEW u, Reads(s, a, t), Reads(t, b, u)
  PROVE  Reads(s, a \o b, u)
<1>1. PICK f : Walk(f, a) /\ f[0] = s /\ f[Len(a)] = t
  BY DEF Reads
<1>2. PICK g : Walk(g, b) /\ g[0] = t /\ g[Len(b)] = u
  BY DEF Reads
<1>3. /\ Len(a) \in Nat /\ Len(b) \in Nat /\ Len(a \o b) = Len(a) + Len(b)
      /\ \A i \in 1 .. Len(a) : (a \o b)[i] = a[i]
      /\ \A i \in 1 .. Len(b) : (a \o b)[Len(a) + i] = b[i]
  BY ConcatProperties, LenProperties DEF Text
<1> DEFINE n == Len(a)
           m == Len(b)
           h == [i \in 0 .. n + m |-> IF i <= n THEN f[i] ELSE g[i - n]]
<1>4. f \in [0 .. n -> AnyShell] /\ g \in [0 .. m -> AnyShell]
  BY <1>1, <1>2 DEF Walk
<1>5. ASSUME NEW i \in 0 .. m PROVE h[n + i] = g[i]
  <2>1. n + i \in 0 .. n + m /\ (n + i) - n = i /\ (n + i <= n <=> i = 0)
    BY <1>3
  <2>2. h[n + i] = IF n + i <= n THEN f[n + i] ELSE g[(n + i) - n]
    BY <2>1
  <2>3. CASE i = 0
    BY <1>1, <1>2, <1>3, <2>1, <2>2, <2>3
  <2>4. CASE i # 0
    BY <2>1, <2>2, <2>4
  <2> QED
    BY <2>3, <2>4
<1>6. \A i \in 0 .. n : h[i] = f[i]
  BY <1>3
<1>7. h \in [0 .. n + m -> AnyShell]
  BY <1>3, <1>4
<1> HIDE DEF h
<1>8. ASSUME NEW i \in 1 .. n + m PROVE h[i] = ShellStep(h[i - 1], (a \o b)[i])
  <2>1. CASE i <= n
    <3>1. i \in 1 .. n /\ i - 1 \in 0 .. n /\ i \in 0 .. n
      BY <1>3, <2>1
    <3>2. f[i] = ShellStep(f[i - 1], a[i])
      BY <1>1, <3>1 DEF Walk
    <3> QED
      BY <1>3, <1>6, <3>1, <3>2
  <2>2. CASE i > n
    <3>1. PICK j \in 1 .. m : i = n + j
      <4>1. i - n \in 1 .. m /\ i = n + (i - n)
        BY <1>3, <2>2
      <4> QED
        BY <4>1
    <3>2. j \in 0 .. m /\ j - 1 \in 0 .. m /\ i - 1 = n + (j - 1)
      BY <1>3, <3>1
    <3>3. g[j] = ShellStep(g[j - 1], b[j])
      BY <1>2, <3>1 DEF Walk
    <3>4. h[i] = g[j] /\ h[i - 1] = g[j - 1] /\ (a \o b)[i] = b[j]
      BY <1>3, <1>5, <3>1, <3>2
    <3> QED
      BY <3>3, <3>4
  <2> QED
    BY <1>3, <2>1, <2>2
<1>9. h[0] = s /\ h[n + m] = u
  BY <1>1, <1>2, <1>3, <1>5, <1>6
<1> QED
  BY <1>3, <1>7, <1>8, <1>9 DEF Reads, Walk

LEMMA CharactersAreText ==
  /\ <<>> \in Text
  /\ \A a \in Text, b \in Text : a \o b \in Text
  /\ \A ch \in Character : <<ch>> \in Text
  /\ \A a \in Text, ch \in Character : Append(a, ch) = a \o <<ch>> /\ Append(a, ch) \in Text
  /\ {Quote, Backslash, Space} \subseteq Character /\ {"c", "d", "&"} \subseteq Character
BY EmptySeq, ConcatProperties, AppendProperties DEF Text, Character, Signs

Fresh == Shell(Unquoted, NoWord, <<>>)
LEMMA FreshIsShell == Fresh \in AnyShell
BY ShellIsAny, WordIsAny, EmptySeq DEF Fresh

WordsAt(end) == IF end.mode = Unquoted THEN end.words ELSE <<>>

LEMMA ShellFolds ==
  ASSUME NEW whole \in Text
  PROVE  \E f \in [0 .. Len(whole) -> AnyShell] :
           /\ f[0] = Fresh
           /\ \A i \in 1 .. Len(whole) : f[i] = ShellStep(f[i - 1], whole[i])
           /\ \A line : whole = Append(line, Space) => ShellWords(line) = WordsAt(f[Len(whole)])
<1> DEFINE Iter(h) == [s \in SUBSET DOMAIN whole |->
                         IF s = {} THEN Fresh
                         ELSE ShellStep(h[s \ {Max(s)}], whole[Max(s)])]
           h == CHOOSE h : h = Iter(h)
           G == [x \in AnyShell \X Character |-> ShellStep(x[1], x[2])]
<1>1. ASSUME NEW line, whole = Append(line, Space)
      PROVE  ShellWords(line) = WordsAt(h[DOMAIN whole])
  BY <1>1 DEF ShellWords, WordsAt, Fresh, FoldLeft, MapThenFoldSet
<1>2. /\ DOMAIN whole = 1 .. Len(whole) /\ Len(whole) \in Nat
      /\ \A s \in SUBSET DOMAIN whole : s # {} => Max(s) \in DOMAIN whole /\ whole[Max(s)] \in Character
      /\ Fresh \in AnyShell
  <2>1. DOMAIN whole = 1 .. Len(whole) /\ Len(whole) \in Nat /\ Fresh \in AnyShell
    BY LenProperties, FreshIsShell DEF Text
  <2>2. ASSUME NEW s \in SUBSET DOMAIN whole, s # {}
        PROVE  Max(s) \in DOMAIN whole /\ whole[Max(s)] \in Character
    <3>1. Max(s) \in 1 .. Len(whole)
      BY <2>1, <2>2, MaxIn
    <3> QED
      BY <2>1, <3>1, ElementOfSeq DEF Text
  <2> QED
    BY <2>1, <2>2
<1>3. G \in [AnyShell \X Character -> AnyShell] /\ \A v \in AnyShell, n \in Character : G[<<v, n>>] = ShellStep(v, n)
  BY StepIsShell, FreshIsShell
<1> HIDE DEF G
<1>4. h = Iter(h)
  <2>1. PICK g \in [SUBSET (1 .. Len(whole)) -> AnyShell] : IsFold(g, G, Fresh, whole)
    BY <1>2, <1>3, FoldExists DEF Text
  <2>2. ASSUME NEW s \in SUBSET DOMAIN whole, s # {}
        PROVE  g[s] = ShellStep(g[s \ {Max(s)}], whole[Max(s)])
    BY <1>2, <1>3, <2>1, <2>2 DEF IsFold
  <2>3. g[{}] = Fresh
    BY <2>1 DEF IsFold
  <2>4. g = Iter(g)
    BY <1>2, <2>1, <2>2, <2>3
  <2> QED
    BY <2>4
<1>5. h[{}] = Fresh
  BY <1>4
<1>6. ASSUME NEW s \in SUBSET DOMAIN whole, s # {}, h[s \ {Max(s)}] \in AnyShell
      PROVE  h[s] = G[<<h[s \ {Max(s)}], whole[Max(s)]>>]
  <2>1. h[s] = ShellStep(h[s \ {Max(s)}], whole[Max(s)])
    BY <1>4, <1>6
  <2> QED
    BY <1>2, <1>3, <1>6, <2>1
<1> HIDE DEF h
<1>7. Folds(h, AnyShell, Character, G, Fresh, whole)
  BY <1>2, <1>3, <1>5, <1>6 DEF Folds, Text
<1>8. PICK f \in [0 .. Len(whole) -> AnyShell] :
        /\ f[0] = Fresh
        /\ \A i \in 1 .. Len(whole) : f[i] = G[<<f[i - 1], whole[i]>>]
        /\ f[Len(whole)] = h[DOMAIN whole]
  BY <1>7, FoldRuns
<1>9. ASSUME NEW i \in 1 .. Len(whole) PROVE f[i] = ShellStep(f[i - 1], whole[i])
  <2>1. i - 1 \in 0 .. Len(whole) /\ whole[i] \in Character
    BY <1>2, ElementOfSeq DEF Text
  <2> QED
    BY <1>3, <1>8, <2>1
<1> QED
  BY <1>1, <1>8, <1>9

\* What the shell makes of a line, as what it reads says.
LEMMA ShellWordsAre ==
  ASSUME NEW line \in Text, NEW t, Reads(Fresh, Append(line, Space), t)
  PROVE  ShellWords(line) = WordsAt(t)
<1> DEFINE whole == Append(line, Space)
<1>1. whole \in Text /\ Len(whole) \in Nat
  BY CharactersAreText, LenProperties DEF Text
<1>2. PICK f \in [0 .. Len(whole) -> AnyShell] :
        /\ f[0] = Fresh
        /\ \A i \in 1 .. Len(whole) : f[i] = ShellStep(f[i - 1], whole[i])
        /\ ShellWords(line) = WordsAt(f[Len(whole)])
  BY <1>1, ShellFolds
<1>3. PICK g : Walk(g, whole) /\ g[0] = Fresh /\ g[Len(whole)] = t
  BY DEF Reads
<1> HIDE DEF whole
<1> DEFINE T == {i \in 0 .. Len(whole) : f[i] = g[i]}
<1>4. 0 \in T
  BY <1>1, <1>2, <1>3
<1>5. ASSUME NEW i \in 1 .. Len(whole), i - 1 \in T PROVE i \in T
  BY <1>1, <1>2, <1>3, <1>5 DEF Walk
<1> HIDE DEF T
<1>6. Len(whole) \in T
  <2>1. \A i \in 0 .. Len(whole) : i \in T
    BY <1>1, <1>4, <1>5, Inductive
  <2> QED
    BY <1>1, <2>1
<1> QED
  BY <1>2, <1>3, <1>6 DEF T

\* A character of a quoted argument: a quote ends it, is escaped and opens it anew.
InQuotes(ch) == IF ch = Quote THEN <<Quote, Backslash, Quote, Quote>> ELSE <<ch>>

LEMMA InQuotesIsText == \A ch \in Character : InQuotes(ch) \in Text
<1>1. ASSUME NEW a \in Character, NEW b \in Character PROVE <<a, b, a, a>> \in Text
  BY DEF Text
<1> QED
  BY <1>1, CharactersAreText DEF InQuotes

LEMMA QuoteFolds ==
  ASSUME NEW arg \in Text
  PROVE  \E f \in [0 .. Len(arg) -> Text] :
           /\ f[0] = <<Quote>>
           /\ \A i \in 1 .. Len(arg) : f[i] = f[i - 1] \o InQuotes(arg[i])
           /\ QuoteArg(arg) = f[Len(arg)] \o <<Quote>>
<1> DEFINE Iter(h) == [s \in SUBSET DOMAIN arg |->
                         IF s = {} THEN <<Quote>>
                         ELSE h[s \ {Max(s)}] \o InQuotes(arg[Max(s)])]
           h == CHOOSE h : h = Iter(h)
           G == [x \in Text \X Character |-> x[1] \o InQuotes(x[2])]
<1>1. QuoteArg(arg) = h[DOMAIN arg] \o <<Quote>>
  BY DEF QuoteArg, FoldLeft, MapThenFoldSet, InQuotes
<1>2. /\ DOMAIN arg = 1 .. Len(arg) /\ Len(arg) \in Nat
      /\ \A s \in SUBSET DOMAIN arg : s # {} => Max(s) \in DOMAIN arg /\ arg[Max(s)] \in Character
      /\ <<Quote>> \in Text
  <2>1. DOMAIN arg = 1 .. Len(arg) /\ Len(arg) \in Nat /\ <<Quote>> \in Text
    BY LenProperties, CharactersAreText DEF Text
  <2>2. ASSUME NEW s \in SUBSET DOMAIN arg, s # {}
        PROVE  Max(s) \in DOMAIN arg /\ arg[Max(s)] \in Character
    <3>1. Max(s) \in 1 .. Len(arg)
      BY <2>1, <2>2, MaxIn
    <3> QED
      BY <2>1, <3>1, ElementOfSeq DEF Text
  <2> QED
    BY <2>1, <2>2
<1>3. G \in [Text \X Character -> Text] /\ \A v \in Text, n \in Character : G[<<v, n>>] = v \o InQuotes(n)
  BY InQuotesIsText, CharactersAreText
<1> HIDE DEF G
<1>4. h = Iter(h)
  <2>1. PICK g \in [SUBSET (1 .. Len(arg)) -> Text] : IsFold(g, G, <<Quote>>, arg)
    BY <1>2, <1>3, FoldExists DEF Text
  <2>2. ASSUME NEW s \in SUBSET DOMAIN arg, s # {}
        PROVE  g[s] = g[s \ {Max(s)}] \o InQuotes(arg[Max(s)])
    BY <1>2, <1>3, <2>1, <2>2 DEF IsFold
  <2>3. g[{}] = <<Quote>>
    BY <2>1 DEF IsFold
  <2>4. g = Iter(g)
    BY <1>2, <2>1, <2>2, <2>3
  <2> QED
    BY <2>4
<1>5. h[{}] = <<Quote>>
  BY <1>4
<1>6. ASSUME NEW s \in SUBSET DOMAIN arg, s # {}, h[s \ {Max(s)}] \in Text
      PROVE  h[s] = G[<<h[s \ {Max(s)}], arg[Max(s)]>>]
  <2>1. h[s] = h[s \ {Max(s)}] \o InQuotes(arg[Max(s)])
    BY <1>4, <1>6
  <2> QED
    BY <1>2, <1>3, <1>6, <2>1
<1> HIDE DEF h
<1>7. Folds(h, Text, Character, G, <<Quote>>, arg)
  BY <1>2, <1>3, <1>5, <1>6 DEF Folds, Text
<1>8. PICK f \in [0 .. Len(arg) -> Text] :
        /\ f[0] = <<Quote>>
        /\ \A i \in 1 .. Len(arg) : f[i] = G[<<f[i - 1], arg[i]>>]
        /\ f[Len(arg)] = h[DOMAIN arg]
  BY <1>7, FoldRuns
<1>9. ASSUME NEW i \in 1 .. Len(arg) PROVE f[i] = f[i - 1] \o InQuotes(arg[i])
  <2>1. i - 1 \in 0 .. Len(arg) /\ arg[i] \in Character
    BY <1>2, ElementOfSeq DEF Text
  <2> QED
    BY <1>3, <1>8, <2>1
<1> QED
  BY <1>1, <1>8, <1>9

LEMMA UpTo ==
  ASSUME NEW arg \in Text
  PROVE  /\ SubSeq(arg, 1, 0) = <<>> /\ SubSeq(arg, 1, Len(arg)) = arg
         /\ \A i \in 0 .. Len(arg) : SubSeq(arg, 1, i) \in Text
         /\ \A i \in 1 .. Len(arg) : /\ arg[i] \in Character
                                     /\ SubSeq(arg, 1, i) = Append(SubSeq(arg, 1, i - 1), arg[i])
<1>1. Len(arg) \in Nat /\ arg \in Seq(Character)
  BY LenProperties DEF Text
<1>2. SubSeq(arg, 1, 0) = <<>> /\ SubSeq(arg, 1, Len(arg)) = arg
  BY <1>1
<1>3. \A i \in 0 .. Len(arg) : SubSeq(arg, 1, i) \in Text
  BY <1>1 DEF Text
<1>4. ASSUME NEW i \in 1 .. Len(arg)
      PROVE  /\ arg[i] \in Character
             /\ SubSeq(arg, 1, i) = Append(SubSeq(arg, 1, i - 1), arg[i])
  BY <1>1, ElementOfSeq
<1> QED
  BY <1>2, <1>3, <1>4

\* Four characters, one after the other.
LEMMA ReadsFour ==
  ASSUME NEW s1 \in AnyShell, NEW a \in Character, NEW b \in Character, NEW c \in Character,
         NEW d \in Character, NEW s2, NEW s3, NEW s4, NEW s5,
         s2 = ShellStep(s1, a), s3 = ShellStep(s2, b), s4 = ShellStep(s3, c), s5 = ShellStep(s4, d)
  PROVE  Reads(s1, <<a, b, c, d>>, s5) /\ s5 \in AnyShell
<1>1. s2 \in AnyShell /\ s3 \in AnyShell /\ s4 \in AnyShell /\ s5 \in AnyShell
  BY StepIsShell
<1>2. Reads(s1, <<a>>, s2) /\ Reads(s2, <<b>>, s3) /\ Reads(s3, <<c>>, s4) /\ Reads(s4, <<d>>, s5)
  BY <1>1, ReadsOne
<1>3. Reads(s1, <<a>> \o <<b>>, s3) /\ Reads(s3, <<c>> \o <<d>>, s5)
  BY <1>2, ReadsConcat, CharactersAreText
<1>4. Reads(s1, (<<a>> \o <<b>>) \o (<<c>> \o <<d>>), s5)
  BY <1>3, ReadsConcat, CharactersAreText
<1>5. (<<a>> \o <<b>>) \o (<<c>> \o <<d>>) = <<a, b, c, d>>
  <2>1. ASSUME NEW p \in Character, NEW q \in Character
        PROVE  <<p>> \o <<q>> \in Text /\ Len(<<p>> \o <<q>>) = 2
               /\ (<<p>> \o <<q>>)[1] = p /\ (<<p>> \o <<q>>)[2] = q
    <3>1. PICK x \in Text, y \in Text : x = <<p>> /\ y = <<q>>
      BY CharactersAreText
    <3>2. Len(x) = 1 /\ x[1] = p /\ Len(y) = 1 /\ y[1] = q /\ 1 \in 1 .. 1
      BY <3>1
    <3>3. PICK z \in Text : z = x \o y
      BY CharactersAreText
    <3>4. /\ Len(z) = Len(x) + Len(y)
          /\ \A i \in 1 .. Len(x) : z[i] = x[i]
          /\ \A i \in 1 .. Len(y) : z[Len(x) + i] = y[i]
      BY <3>3, ConcatProperties DEF Text
    <3>5. Len(z) = 2 /\ z[1] = p /\ z[2] = q
      <4>1. Len(z) = 2 /\ z[1] = x[1] /\ z[1 + 1] = y[1]
        BY <3>2, <3>4
      <4> QED
        BY <3>2, <4>1
    <3> QED
      BY <3>1, <3>3, <3>5
  <2>2. PICK x \in Text, y \in Text : x = <<a>> \o <<b>> /\ y = <<c>> \o <<d>>
    BY <2>1
  <2>3. Len(x) = 2 /\ x[1] = a /\ x[2] = b /\ Len(y) = 2 /\ y[1] = c /\ y[2] = d
    BY <2>1, <2>2
  <2>4. PICK z \in Text : z = x \o y
    BY CharactersAreText
  <2>5. Len(z) = 4 /\ z[1] = a /\ z[2] = b /\ z[3] = c /\ z[4] = d
    <3>1. /\ Len(z) = Len(x) + Len(y)
          /\ \A i \in 1 .. Len(x) : z[i] = x[i]
          /\ \A i \in 1 .. Len(y) : z[Len(x) + i] = y[i]
      BY <2>4, ConcatProperties DEF Text
    <3>2. /\ Len(z) = 4 /\ z[1] = x[1] /\ z[2] = x[2]
          /\ z[2 + 1] = y[1] /\ z[2 + 2] = y[2]
      BY <2>3, <3>1
    <3> QED
      BY <2>3, <3>2
  <2>6. z = <<z[1], z[2], z[3], z[4]>>
    BY <2>5 DEF Text
  <2>7. z = <<a, b, c, d>>
    BY <2>5, <2>6
  <2> QED
    BY <2>2, <2>4, <2>7
<1> QED
  BY <1>1, <1>4, <1>5

LEMMA ReadsNext ==
  ASSUME NEW s, NEW line \in Text, NEW t \in AnyShell, Reads(s, line, t), NEW ch \in Character
  PROVE  /\ Reads(s, line \o <<ch>>, ShellStep(t, ch)) /\ line \o <<ch>> \in Text
         /\ ShellStep(t, ch) \in AnyShell
BY ReadsOne, ReadsConcat, CharactersAreText, StepIsShell

LEMMA GrownWord ==
  ASSUME NEW t, NEW ch, NEW l \in BOOLEAN, NEW k \in BOOLEAN
  PROVE  Grown(Word(t, l), ch, k) = Word(Append(t, ch), l /\ k)
BY WordFields DEF Grown

\* An argument begins a word, and is all of it: nothing in it means anything.
LEMMA QuoteReads ==
  ASSUME NEW arg \in Text, NEW ws \in Seq(AnyWord)
  PROVE  /\ QuoteArg(arg) \in Text
         /\ Reads(Shell(Unquoted, NoWord, ws), QuoteArg(arg), Shell(Unquoted, Word(arg, TRUE), ws))
<1>1. PICK f \in [0 .. Len(arg) -> Text] :
        /\ f[0] = <<Quote>>
        /\ \A i \in 1 .. Len(arg) : f[i] = f[i - 1] \o InQuotes(arg[i])
        /\ QuoteArg(arg) = f[Len(arg)] \o <<Quote>>
  BY QuoteFolds
<1> DEFINE start == Shell(Unquoted, NoWord, ws)
           In(i) == Shell(Quoted, Word(SubSeq(arg, 1, i), TRUE), ws)
           T == {i \in 0 .. Len(arg) : Reads(start, f[i], In(i))}
<1>2. Len(arg) \in Nat /\ {Quote, Backslash, Space} \subseteq Character
  BY LenProperties, CharactersAreText DEF Text
<1>3. start \in AnyShell /\ \A i \in 0 .. Len(arg) : In(i) \in AnyShell
  BY ShellIsAny, WordIsAny, UpTo
<1>4. 0 \in T
  <2>1. ShellStep(start, Quote) = In(0)
    <3>1. Word(NoWord.text, NoWord.literal) = Word(SubSeq(arg, 1, 0), TRUE)
      BY NoWordFields, UpTo DEF NoWord
    <3> QED
      BY <3>1, OpenQuote
  <2>2. Reads(start, <<Quote>>, In(0))
    BY <1>2, <1>3, <2>1, ReadsOne
  <2>3. 0 \in 0 .. Len(arg)
    BY <1>2
  <2> HIDE DEF In, start
  <2> QED
    BY <1>1, <2>2, <2>3
<1>5. ASSUME NEW i \in 1 .. Len(arg), i - 1 \in T PROVE i \in T
  <2>1. /\ i \in 0 .. Len(arg) /\ i - 1 \in 0 .. Len(arg) /\ arg[i] \in Character
        /\ SubSeq(arg, 1, i) = Append(SubSeq(arg, 1, i - 1), arg[i])
    BY <1>2, UpTo
  <2>2. f[i - 1] \in Text /\ f[i] = f[i - 1] \o InQuotes(arg[i]) /\ InQuotes(arg[i]) \in Text
    BY <1>1, <2>1, InQuotesIsText
  <2>3. Grown(Word(SubSeq(arg, 1, i - 1), TRUE), arg[i], TRUE) = Word(SubSeq(arg, 1, i), TRUE)
    <3>1. PICK yes \in BOOLEAN : yes = TRUE
      OBVIOUS
    <3>2. Grown(Word(SubSeq(arg, 1, i - 1), yes), arg[i], yes) = Word(SubSeq(arg, 1, i), yes /\ yes)
      BY <2>1, GrownWord
    <3> QED
      BY <3>1, <3>2
  <2>4. Reads(In(i - 1), InQuotes(arg[i]), In(i))
    <3>1. CASE arg[i] # Quote
      <4>1. ShellStep(In(i - 1), arg[i]) = In(i)
        BY <2>3, <3>1, KeepQuoted
      <4>2. InQuotes(arg[i]) = <<arg[i]>>
        BY <3>1 DEF InQuotes
      <4> QED
        BY <1>3, <2>1, <4>1, <4>2, ReadsOne
    <3>2. CASE arg[i] = Quote
      <4> DEFINE w == Word(SubSeq(arg, 1, i - 1), TRUE)
                 v == Word(SubSeq(arg, 1, i), TRUE)
      <4>1. ShellStep(In(i - 1), Quote) = Shell(Unquoted, w, ws)
        BY CloseQuote
      <4>2. ShellStep(Shell(Unquoted, w, ws), Backslash) = Shell(Escaped, w, ws)
        BY Escape
      <4>3. ShellStep(Shell(Escaped, w, ws), Quote) = Shell(Unquoted, v, ws)
        BY <2>3, <3>2, KeepEscaped
      <4>4. ShellStep(Shell(Unquoted, v, ws), Quote) = In(i)
        <5>1. v.text = SubSeq(arg, 1, i) /\ v.literal = TRUE
          BY DEF Word
        <5> QED
          BY <5>1, OpenQuote
      <4>5. Reads(In(i - 1), <<Quote, Backslash, Quote, Quote>>, In(i))
        <5> HIDE DEF In, w, v
        <5> QED
          BY <1>2, <1>3, <2>1, <4>1, <4>2, <4>3, <4>4, ReadsFour
      <4> QED
        BY <3>2, <4>5 DEF InQuotes
    <3> QED
      BY <3>1, <3>2
  <2> HIDE DEF In, start
  <2> QED
    BY <1>5, <2>1, <2>2, <2>4, ReadsConcat
<1> HIDE DEF T
<1>6. Len(arg) \in T
  <2>1. \A i \in 0 .. Len(arg) : i \in T
    BY <1>2, <1>4, <1>5, Inductive
  <2> QED
    BY <1>2, <2>1
<1>7. Reads(start, f[Len(arg)], In(Len(arg))) /\ f[Len(arg)] \in Text
  BY <1>1, <1>2, <1>6 DEF T
<1>8. ShellStep(In(Len(arg)), Quote) = Shell(Unquoted, Word(arg, TRUE), ws)
  BY CloseQuote, UpTo
<1> HIDE DEF In, start
<1>9. Reads(start, f[Len(arg)] \o <<Quote>>, ShellStep(In(Len(arg)), Quote)) /\ QuoteArg(arg) \in Text
  BY <1>1, <1>2, <1>3, <1>7, ReadsNext
<1> QED
  BY <1>1, <1>8, <1>9 DEF start

\* The command and its arguments, each quoted, with blanks between.
Asking(cmd, args) ==
  FoldLeft(LAMBDA out, a : out \o <<Space>> \o QuoteArg(a), QuoteArg(cmd), args)

LEMMA BuiltAs ==
  ASSUME NEW cmd, NEW args, NEW cwd, cwd # <<>>
  PROVE  BuildCommand(cmd, args, cwd) =
           <<"c", "d", Space>> \o QuoteArg(cwd) \o <<Space, "&", "&", Space>> \o Asking(cmd, args)
BY Zenon DEF BuildCommand, Asking

LEMMA QuoteIsText == \A a \in Text : QuoteArg(a) \in Text
BY QuoteReads, EmptySeq

AskNext(out, a) == out \o <<Space>> \o QuoteArg(a)

LEMMA AskIsText == \A out \in Text, a \in Text : AskNext(out, a) \in Text
BY QuoteIsText, CharactersAreText DEF AskNext

LEMMA AskFolds ==
  ASSUME NEW cmd \in Text, NEW args \in Seq(Text)
  PROVE  \E f \in [0 .. Len(args) -> Text] :
           /\ f[0] = QuoteArg(cmd)
           /\ \A i \in 1 .. Len(args) : f[i] = AskNext(f[i - 1], args[i])
           /\ Asking(cmd, args) = f[Len(args)]
<1> DEFINE Iter(h) == [s \in SUBSET DOMAIN args |->
                         IF s = {} THEN QuoteArg(cmd)
                         ELSE AskNext(h[s \ {Max(s)}], args[Max(s)])]
           h == CHOOSE h : h = Iter(h)
           G == [x \in Text \X Text |-> AskNext(x[1], x[2])]
<1>1. Asking(cmd, args) = h[DOMAIN args]
  BY DEF Asking, AskNext, FoldLeft, MapThenFoldSet
<1>2. /\ DOMAIN args = 1 .. Len(args) /\ Len(args) \in Nat
      /\ \A s \in SUBSET DOMAIN args : s # {} => Max(s) \in DOMAIN args /\ args[Max(s)] \in Text
      /\ QuoteArg(cmd) \in Text
  <2>1. DOMAIN args = 1 .. Len(args) /\ Len(args) \in Nat /\ QuoteArg(cmd) \in Text
    BY LenProperties, QuoteIsText
  <2>2. ASSUME NEW s \in SUBSET DOMAIN args, s # {}
        PROVE  Max(s) \in DOMAIN args /\ args[Max(s)] \in Text
    <3>1. Max(s) \in 1 .. Len(args)
      BY <2>1, <2>2, MaxIn
    <3> QED
      BY <2>1, <3>1, ElementOfSeq
  <2> QED
    BY <2>1, <2>2
<1>3. G \in [Text \X Text -> Text] /\ \A v \in Text, n \in Text : G[<<v, n>>] = AskNext(v, n)
  BY AskIsText, QuoteIsText
<1> HIDE DEF G
<1>4. h = Iter(h)
  <2>1. PICK g \in [SUBSET (1 .. Len(args)) -> Text] : IsFold(g, G, QuoteArg(cmd), args)
    BY <1>2, <1>3, FoldExists
  <2>2. ASSUME NEW s \in SUBSET DOMAIN args, s # {}
        PROVE  g[s] = AskNext(g[s \ {Max(s)}], args[Max(s)])
    BY <1>2, <1>3, <2>1, <2>2 DEF IsFold
  <2>3. g[{}] = QuoteArg(cmd)
    BY <2>1 DEF IsFold
  <2>4. g = Iter(g)
    BY <1>2, <2>1, <2>2, <2>3
  <2> QED
    BY <2>4
<1>5. h[{}] = QuoteArg(cmd)
  BY <1>4
<1>6. ASSUME NEW s \in SUBSET DOMAIN args, s # {}, h[s \ {Max(s)}] \in Text
      PROVE  h[s] = G[<<h[s \ {Max(s)}], args[Max(s)]>>]
  <2>1. h[s] = AskNext(h[s \ {Max(s)}], args[Max(s)])
    BY <1>4, <1>6
  <2> QED
    BY <1>2, <1>3, <1>6, <2>1
<1> HIDE DEF h
<1>7. Folds(h, Text, Text, G, QuoteArg(cmd), args)
  BY <1>2, <1>3, <1>5, <1>6 DEF Folds
<1>8. PICK f \in [0 .. Len(args) -> Text] :
        /\ f[0] = QuoteArg(cmd)
        /\ \A i \in 1 .. Len(args) : f[i] = G[<<f[i - 1], args[i]>>]
        /\ f[Len(args)] = h[DOMAIN args]
  BY <1>7, FoldRuns
<1>9. ASSUME NEW i \in 1 .. Len(args) PROVE f[i] = AskNext(f[i - 1], args[i])
  <2>1. i - 1 \in 0 .. Len(args) /\ args[i] \in Text
    BY <1>2, ElementOfSeq
  <2> QED
    BY <1>3, <1>8, <2>1
<1> QED
  BY <1>1, <1>8, <1>9

\* A line that leaves a word to be ended by the next blank.
Ends(ws, line, words) ==
  /\ line \in Text /\ ws \in Seq(AnyWord) /\ words \in Seq(AnyWord)
  /\ \E t \in AnyShell : /\ Reads(Shell(Unquoted, NoWord, ws), line, t)
                         /\ ShellStep(t, Space) = Shell(Unquoted, NoWord, words)

LEMMA BegunEnds ==
  ASSUME NEW w, NEW ws, w.begun
  PROVE  ShellStep(Shell(Unquoted, w, ws), Space) = Shell(Unquoted, NoWord, Append(ws, w))
BY EndWord

LEMMA WordsAtEnd == ASSUME NEW w, NEW ws PROVE WordsAt(Shell(Unquoted, w, ws)) = ws
<1>1. PICK s : s = Shell(Unquoted, w, ws)
  OBVIOUS
<1>2. s.mode = Unquoted /\ s.words = ws
  BY <1>1, ShellFields
<1> QED
  BY <1>1, <1>2 DEF WordsAt

LEMMA WordEnds ==
  ASSUME NEW text, NEW l, NEW ws
  PROVE  ShellStep(Shell(Unquoted, Word(text, l), ws), Space)
           = Shell(Unquoted, NoWord, Append(ws, Word(text, l)))
<1>1. Word(text, l).begun
  BY WordFields
<1> QED
  BY <1>1, EndWord

LEMMA QuoteEnds ==
  ASSUME NEW arg \in Text, NEW ws \in Seq(AnyWord)
  PROVE  Ends(ws, QuoteArg(arg), Append(ws, Word(arg, TRUE)))
<1>1. Word(arg, TRUE) \in AnyWord
  BY WordIsAny
<1>2. Append(ws, Word(arg, TRUE)) \in Seq(AnyWord)
  BY <1>1, AppendProperties
<1>3. Shell(Unquoted, Word(arg, TRUE), ws) \in AnyShell
  BY <1>1, ShellIsAny
<1> QED
  BY <1>2, <1>3, QuoteReads, WordEnds DEF Ends

LEMMA EndsThen ==
  ASSUME NEW ws, NEW a, NEW vs, NEW b, NEW us, Ends(ws, a, vs), Ends(vs, b, us)
  PROVE  Ends(ws, a \o <<Space>> \o b, us)
<1>1. PICK t \in AnyShell : /\ Reads(Shell(Unquoted, NoWord, ws), a, t)
                            /\ ShellStep(t, Space) = Shell(Unquoted, NoWord, vs)
  BY DEF Ends
<1>2. PICK u \in AnyShell : /\ Reads(Shell(Unquoted, NoWord, vs), b, u)
                            /\ ShellStep(u, Space) = Shell(Unquoted, NoWord, us)
  BY DEF Ends
<1>3. a \in Text /\ b \in Text /\ Space \in Character
  BY CharactersAreText DEF Ends
<1>4. Reads(Shell(Unquoted, NoWord, ws), a \o <<Space>>, Shell(Unquoted, NoWord, vs))
      /\ a \o <<Space>> \in Text
  BY <1>1, <1>3, ReadsNext
<1>5. Reads(Shell(Unquoted, NoWord, ws), a \o <<Space>> \o b, u)
      /\ a \o <<Space>> \o b \in Text
  BY <1>2, <1>3, <1>4, ReadsConcat, CharactersAreText
<1> QED
  BY <1>2, <1>5 DEF Ends

\* The first n words, each of them literal.
Literally(asked, n) == [i \in 1 .. n |-> Word(asked[i], TRUE)]

LEMMA AppendAfter ==
  ASSUME NEW s \in Seq(AnyWord), NEW t \in Seq(AnyWord), NEW e \in AnyWord
  PROVE  Append(s \o t, e) = s \o Append(t, e)
<1>1. <<e>> \in Seq(AnyWord) /\ s \o t \in Seq(AnyWord)
  BY ConcatProperties
<1>2. Append(s \o t, e) = (s \o t) \o <<e>>
  BY <1>1, AppendIsConcat
<1>3. Append(t, e) = t \o <<e>>
  BY AppendIsConcat
<1> QED
  BY <1>1, <1>2, <1>3, ConcatAssociative

LEMMA LiterallyIs ==
  ASSUME NEW asked \in Seq(Text), NEW n \in 0 .. Len(asked)
  PROVE  /\ Literally(asked, n) \in Seq(AnyWord) /\ Len(Literally(asked, n)) = n
         /\ \A i \in 1 .. n : /\ Literally(asked, n)[i] = Word(asked[i], TRUE)
                              /\ Word(asked[i], TRUE) \in AnyWord
<1>1. n \in Nat /\ Len(asked) \in Nat
  BY LenProperties
<1>2. ASSUME NEW i \in 1 .. n PROVE Word(asked[i], TRUE) \in AnyWord
  <2>1. asked[i] \in Text
    BY <1>1, ElementOfSeq
  <2> QED
    BY <2>1, WordIsAny
<1>3. PICK w : w = Literally(asked, n)
  OBVIOUS
<1>4. w \in [1 .. n -> AnyWord] /\ \A i \in 1 .. n : w[i] = Word(asked[i], TRUE)
  BY <1>2, <1>3 DEF Literally
<1>5. w \in Seq(AnyWord) /\ Len(w) = n
  BY <1>1, <1>4
<1> QED
  BY <1>2, <1>3, <1>4, <1>5

LEMMA LiterallyGrows ==
  ASSUME NEW asked \in Seq(Text), NEW ws \in Seq(AnyWord)
  PROVE  /\ ws \o Literally(asked, 0) = ws
         /\ \A n \in 1 .. Len(asked) :
              ws \o Literally(asked, n) = Append(ws \o Literally(asked, n - 1), Word(asked[n], TRUE))
<1>1. Len(asked) \in Nat
  BY LenProperties
<1>2. ws \o Literally(asked, 0) = ws
  <2>1. Literally(asked, 0) = <<>>
    BY DEF Literally
  <2> QED
    BY <2>1, ConcatEmptySeq
<1>3. ASSUME NEW n \in 1 .. Len(asked)
      PROVE  ws \o Literally(asked, n) = Append(ws \o Literally(asked, n - 1), Word(asked[n], TRUE))
  <2>1. n \in 0 .. Len(asked) /\ n - 1 \in 0 .. Len(asked) /\ n \in 1 .. n
    BY <1>1
  <2>2. PICK v \in Seq(AnyWord), w \in AnyWord :
          v = Literally(asked, n - 1) /\ w = Word(asked[n], TRUE)
    BY <2>1, LiterallyIs
  <2>3. Append(v, w) = Literally(asked, n)
    <3>1. Len(v) = n - 1 /\ \A i \in 1 .. n - 1 : v[i] = Word(asked[i], TRUE)
      BY <2>1, <2>2, LiterallyIs
    <3>2. PICK x \in Seq(AnyWord) : x = Literally(asked, n)
      BY <2>1, LiterallyIs
    <3>3. Len(x) = n /\ \A i \in 1 .. n : x[i] = Word(asked[i], TRUE)
      BY <2>1, <3>2, LiterallyIs
    <3>4. PICK y \in Seq(AnyWord) : y = Append(v, w)
      BY AppendProperties
    <3>5. Len(y) = Len(v) + 1 /\ y[Len(v) + 1] = w /\ \A i \in 1 .. Len(v) : y[i] = v[i]
      BY <3>4, AppendProperties
    <3>6. ASSUME NEW i \in 1 .. Len(y) PROVE y[i] = x[i]
      <4>1. CASE i = n
        <5>1. x[n] = w
          BY <2>1, <2>2, <3>3
        <5>2. Len(v) + 1 = n
          BY <1>1, <3>1
        <5>3. y[n] = w
          BY <3>5, <5>2
        <5> QED
          BY <4>1, <5>1, <5>3
      <4>2. CASE i \in 1 .. n - 1
        <5>1. i \in 1 .. n /\ i \in 1 .. Len(v)
          BY <1>1, <3>1, <4>2
        <5> QED
          BY <3>1, <3>3, <3>5, <4>2, <5>1
      <4> QED
        BY <1>1, <3>1, <3>5, <4>1, <4>2
    <3> QED
      BY <1>1, <3>1, <3>2, <3>3, <3>4, <3>5, <3>6, SeqEqual
  <2>4. Append(ws \o v, w) = ws \o Append(v, w)
    BY AppendAfter
  <2> QED
    BY <2>2, <2>3, <2>4
<1> QED
  BY <1>2, <1>3

\* The command and its arguments are as many words, each as it was given.
LEMMA AskingEnds ==
  ASSUME NEW cmd \in Text, NEW args \in Seq(Text), NEW ws \in Seq(AnyWord)
  PROVE  Ends(ws, Asking(cmd, args),
              ws \o [i \in DOMAIN (<<cmd>> \o args) |-> Word((<<cmd>> \o args)[i], TRUE)])
<1>1. PICK f \in [0 .. Len(args) -> Text] :
        /\ f[0] = QuoteArg(cmd)
        /\ \A i \in 1 .. Len(args) : f[i] = AskNext(f[i - 1], args[i])
        /\ Asking(cmd, args) = f[Len(args)]
  BY AskFolds
<1>2. PICK asked \in Seq(Text) : asked = <<cmd>> \o args
  <2>1. <<cmd>> \in Seq(Text)
    OBVIOUS
  <2> QED
    BY <2>1, ConcatProperties
<1>3. /\ Len(args) \in Nat /\ Len(asked) = Len(args) + 1 /\ asked[1] = cmd
      /\ \A i \in 1 .. Len(args) : asked[i + 1] = args[i]
  <2>1. <<cmd>> \in Seq(Text) /\ Len(<<cmd>>) = 1 /\ <<cmd>>[1] = cmd /\ Len(args) \in Nat
    BY LenProperties
  <2>2. /\ Len(asked) = Len(<<cmd>>) + Len(args)
        /\ \A i \in 1 .. Len(<<cmd>>) : asked[i] = <<cmd>>[i]
        /\ \A i \in 1 .. Len(args) : asked[Len(<<cmd>>) + i] = args[i]
    BY <1>2, <2>1, ConcatProperties
  <2> QED
    BY <2>1, <2>2
<1> DEFINE T == {i \in 0 .. Len(args) : Ends(ws, f[i], ws \o Literally(asked, i + 1))}
<1>4. 0 \in T
  <2>1. ws \o Literally(asked, 1) = Append(ws, Word(cmd, TRUE))
    <3>1. PICK n \in 1 .. Len(asked) : n = 1 /\ n - 1 = 0
      BY <1>3
    <3>2. /\ ws \o Literally(asked, n) = Append(ws \o Literally(asked, n - 1), Word(asked[n], TRUE))
          /\ ws \o Literally(asked, 0) = ws
      BY LiterallyGrows
    <3> QED
      BY <1>3, <3>1, <3>2
  <2>2. 0 \in 0 .. Len(args) /\ 0 + 1 = 1
    BY <1>3
  <2>3. Ends(ws, f[0], ws \o Literally(asked, 1))
    BY <1>1, <2>1, QuoteEnds
  <2> QED
    BY <2>2, <2>3
<1>5. ASSUME NEW i \in 1 .. Len(args), i - 1 \in T PROVE i \in T
  <2>1. i \in 0 .. Len(args) /\ args[i] \in Text /\ (i - 1) + 1 = i
    BY <1>3, ElementOfSeq
  <2>2. ws \o Literally(asked, i + 1) = Append(ws \o Literally(asked, i), Word(args[i], TRUE))
    <3>1. PICK n \in 1 .. Len(asked) : n = i + 1
      BY <1>3
    <3>2. n - 1 = i /\ asked[n] = args[i]
      BY <1>3, <3>1
    <3>3. ws \o Literally(asked, n) = Append(ws \o Literally(asked, n - 1), Word(asked[n], TRUE))
      BY LiterallyGrows
    <3> QED
      BY <3>1, <3>2, <3>3
  <2>3. PICK vs : vs = ws \o Literally(asked, i) /\ Ends(ws, f[i - 1], vs)
    BY <1>5, <2>1
  <2>4. Ends(vs, QuoteArg(args[i]), Append(vs, Word(args[i], TRUE)))
    BY <2>1, <2>3, QuoteEnds DEF Ends
  <2>5. Ends(ws, f[i], Append(vs, Word(args[i], TRUE)))
    BY <1>1, <2>3, <2>4, EndsThen DEF AskNext
  <2> QED
    BY <2>1, <2>2, <2>3, <2>5
<1> HIDE DEF T
<1>6. Len(args) \in T
  <2>1. \A i \in 0 .. Len(args) : i \in T
    BY <1>3, <1>4, <1>5, Inductive
  <2> QED
    BY <1>3, <2>1
<1>7. Literally(asked, Len(args) + 1) = [i \in DOMAIN asked |-> Word(asked[i], TRUE)]
  BY <1>3, LenProperties DEF Literally
<1> QED
  BY <1>1, <1>2, <1>6, <1>7 DEF T

LEMMA ReadsThree ==
  ASSUME NEW s1 \in AnyShell, NEW a \in Character, NEW b \in Character, NEW c \in Character,
         NEW s2, NEW s3, NEW s4,
         s2 = ShellStep(s1, a), s3 = ShellStep(s2, b), s4 = ShellStep(s3, c)
  PROVE  Reads(s1, <<a, b, c>>, s4) /\ s4 \in AnyShell
<1>1. s2 \in AnyShell /\ s3 \in AnyShell /\ s4 \in AnyShell
  BY StepIsShell
<1> DEFINE x == <<a>>
           y == x \o <<b>>
           z == y \o <<c>>
<1>2. Reads(s1, x, s2) /\ x \in Text
  BY ReadsOne, CharactersAreText
<1>3. Reads(s1, y, s3) /\ y \in Text
  BY <1>1, <1>2, ReadsNext
<1>4. Reads(s1, z, s4) /\ z \in Text
  BY <1>1, <1>3, ReadsNext
<1>5. Len(x) = 1 /\ x[1] = a
  OBVIOUS
<1>6. y = Append(x, b) /\ z = Append(y, c)
  BY <1>2, <1>3, CharactersAreText
<1> HIDE DEF x, y, z
<1>7. Len(y) = 2 /\ y[1] = a /\ y[2] = b
  <2>1. Len(y) = Len(x) + 1 /\ y[Len(x) + 1] = b /\ \A i \in 1 .. Len(x) : y[i] = x[i]
    BY <1>2, <1>6, AppendProperties DEF Text
  <2> QED
    BY <1>5, <2>1
<1>8. Len(z) = 3 /\ z[1] = a /\ z[2] = b /\ z[3] = c
  <2>1. Len(z) = Len(y) + 1 /\ z[Len(y) + 1] = c /\ \A i \in 1 .. Len(y) : z[i] = y[i]
    BY <1>3, <1>6, AppendProperties DEF Text
  <2> QED
    BY <1>7, <2>1
<1>9. z = <<z[1], z[2], z[3]>>
  BY <1>4, <1>8 DEF Text
<1> QED
  BY <1>1, <1>4, <1>8, <1>9

LEMMA TuplesGrow ==
  ASSUME NEW S, NEW a \in S, NEW b \in S, NEW c \in S
  PROVE  /\ Append(<<>>, a) = <<a>> /\ Append(<<a>>, b) = <<a, b>>
         /\ Append(<<a, b>>, c) = <<a, b, c>>
<1>1. Append(<<>>, a) = <<a>>
  OBVIOUS
<1>2. ASSUME NEW x \in Seq(S), NEW e \in S
      PROVE  /\ Len(Append(x, e)) = Len(x) + 1 /\ Append(x, e)[Len(x) + 1] = e
             /\ \A i \in 1 .. Len(x) : Append(x, e)[i] = x[i]
             /\ Append(x, e) \in Seq(S)
  BY AppendProperties
<1>3. Append(<<a>>, b) = <<a, b>>
  <2>1. PICK x \in Seq(S) : x = <<a>> /\ Len(x) = 1 /\ x[1] = a
    <3>1. <<a>> \in Seq(S)
      OBVIOUS
    <3>2. Len(<<a>>) = 1 /\ <<a>>[1] = a
      OBVIOUS
    <3> QED
      BY <3>1, <3>2
  <2>2. PICK y \in Seq(S) : y = Append(x, b)
    BY <1>2
  <2>3. Len(y) = 2 /\ y[1] = a /\ y[2] = b
    BY <1>2, <2>1, <2>2
  <2>4. y = <<y[1], y[2]>>
    BY <2>3
  <2> QED
    BY <2>1, <2>2, <2>3, <2>4
<1>4. Append(<<a, b>>, c) = <<a, b, c>>
  <2>1. PICK x \in Seq(S) : x = <<a, b>> /\ Len(x) = 2 /\ x[1] = a /\ x[2] = b
    <3>1. <<a, b>> \in Seq(S)
      OBVIOUS
    <3>2. Len(<<a, b>>) = 2 /\ <<a, b>>[1] = a /\ <<a, b>>[2] = b
      OBVIOUS
    <3> QED
      BY <3>1, <3>2
  <2>2. PICK y \in Seq(S) : y = Append(x, c)
    BY <1>2
  <2>3. Len(y) = 3 /\ y[1] = a /\ y[2] = b /\ y[3] = c
    BY <1>2, <2>1, <2>2
  <2>4. y = <<y[1], y[2], y[3]>>
    BY <2>3
  <2> QED
    BY <2>1, <2>2, <2>3, <2>4
<1> QED
  BY <1>1, <1>3, <1>4

\* Two characters that mean nothing, outside of quotes.
LEMMA BareWord ==
  ASSUME NEW a \in Character \ {Quote, Backslash, Space},
         NEW b \in Character \ {Quote, Backslash, Space}, NEW ws \in Seq(AnyWord),
         NEW no \in BOOLEAN, ~no, NEW s2, NEW s3,
         s2 = ShellStep(Shell(Unquoted, NoWord, ws), a), s3 = ShellStep(s2, b)
  PROVE  /\ s3 = Shell(Unquoted, Word(<<a, b>>, no), ws)
         /\ Word(<<a, b>>, no) \in AnyWord
<1>2. Grown(NoWord, a, no) = Word(<<a>>, no)
  <2>1. Append(NoWord.text, a) = <<a>> /\ (NoWord.literal /\ no) = no
    BY NoWordFields
  <2> QED
    BY <2>1 DEF Grown
<1>3. Grown(Word(<<a>>, no), b, no) = Word(<<a, b>>, no)
  <2>1. Append(<<a>>, b) = <<a, b>>
    BY TuplesGrow
  <2>2. Grown(Word(<<a>>, no), b, no) = Word(Append(<<a>>, b), no /\ no)
    BY GrownWord
  <2>3. (no /\ no) = no
    OBVIOUS
  <2> QED
    BY <2>1, <2>2, <2>3
<1>4. s2 = Shell(Unquoted, Word(<<a>>, no), ws)
  BY <1>2, KeepBare
<1>5. s3 = Shell(Unquoted, Word(<<a, b>>, no), ws)
  BY <1>3, <1>4, KeepBare
<1>6. <<a, b>> \in Text
  BY DEF Text
<1>7. Word(<<a, b>>, no) \in AnyWord
  BY <1>6, WordIsAny
<1> QED
  BY <1>5, <1>7

LEMMA Letters ==
  /\ "c" \in Character \ {Quote, Backslash, Space}
  /\ "d" \in Character \ {Quote, Backslash, Space}
  /\ "&" \in Character \ {Quote, Backslash, Space}
BY DEF Character, Signs, Quote, Backslash, Space

\* The line that exec sends, as the login shell takes it: cd to the working
\* directory, and then the command and its arguments as they were given.
LEMMA LineIsLiteral ==
  ASSUME NEW cmd \in Text, NEW args \in Seq(Text), NEW cwd \in Text, cwd # <<>>
  PROVE  ShellWords(BuildCommand(cmd, args, cwd)) =
           <<Word(<<"c", "d">>, FALSE), Word(cwd, TRUE), Word(<<"&", "&">>, FALSE)>>
           \o [i \in DOMAIN (<<cmd>> \o args) |-> Word((<<cmd>> \o args)[i], TRUE)]
<1>1. PICK c \in Character \ {Quote, Backslash, Space}, d \in Character \ {Quote, Backslash, Space},
           n \in Character \ {Quote, Backslash, Space} : c = "c" /\ d = "d" /\ n = "&"
  BY Letters
<1>2. PICK no \in BOOLEAN, yes \in BOOLEAN : no = FALSE /\ yes = TRUE
  OBVIOUS
<1> DEFINE w1 == Word(<<c, d>>, no)
           w2 == Word(cwd, TRUE)
           w3 == Word(<<n, n>>, no)
           ws1 == <<w1>>
           ws2 == <<w1, w2>>
           ws3 == <<w1, w2, w3>>
           At(w, ws) == Shell(Unquoted, w, ws)
<1>3. w1 \in AnyWord /\ w2 \in AnyWord /\ w3 \in AnyWord /\ NoWord \in AnyWord
  <2>1. w1 \in AnyWord /\ w3 \in AnyWord
    BY <1>2, BareWord, EmptySeq
  <2>2. Word(cwd, yes) \in AnyWord
    BY WordIsAny
  <2> QED
    BY <1>2, <2>1, <2>2, WordIsAny
<1>4. /\ <<>> \in Seq(AnyWord) /\ ws1 \in Seq(AnyWord) /\ ws2 \in Seq(AnyWord)
      /\ ws3 \in Seq(AnyWord)
      /\ Append(<<>>, w1) = ws1 /\ Append(ws1, w2) = ws2 /\ Append(ws2, w3) = ws3
      /\ w1.begun /\ w2.begun /\ w3.begun
  <2>1. <<>> \in Seq(AnyWord) /\ ws1 \in Seq(AnyWord) /\ ws2 \in Seq(AnyWord)
        /\ ws3 \in Seq(AnyWord)
    <3> HIDE DEF w1, w2, w3
    <3> QED
      BY <1>3
  <2>2. Append(<<>>, w1) = ws1 /\ Append(ws1, w2) = ws2
    <3> HIDE DEF w1, w2, w3
    <3> QED
      BY <1>3, TuplesGrow
  <2>3. Append(ws2, w3) = ws3
    <3> HIDE DEF w1, w2, w3
    <3> QED
      BY <1>3, TuplesGrow
  <2>4. w1.begun /\ w2.begun /\ w3.begun
    BY WordFields
  <2> QED
    BY <2>1, <2>2, <2>3, <2>4
<1>5. Space \in Character
  BY CharactersAreText
<1>6. Reads(Fresh, <<c, d, Space>>, At(NoWord, ws1)) /\ At(NoWord, ws1) \in AnyShell
  <2>1. PICK s2, s3 : s2 = ShellStep(Fresh, c) /\ s3 = ShellStep(s2, d)
    OBVIOUS
  <2>2. s3 = At(w1, <<>>)
    <3>1. PICK none \in Seq(AnyWord) : none = <<>>
      BY <1>4
    <3>2. s2 = ShellStep(Shell(Unquoted, NoWord, none), c)
      BY <2>1, <3>1 DEF Fresh
    <3>3. s3 = Shell(Unquoted, w1, none)
      BY <1>2, <2>1, <3>2, BareWord
    <3> QED
      BY <3>1, <3>3
  <2>3. ShellStep(At(w1, <<>>), Space) = At(NoWord, ws1)
    <3> HIDE DEF ws1, ws2, ws3, w1, w2, w3
    <3> QED
      BY <1>4, BegunEnds
  <2> HIDE DEF At, ws1, w1
  <2> QED
    BY <1>5, <2>1, <2>2, <2>3, FreshIsShell, ReadsThree
<1>7. Reads(At(NoWord, ws1), QuoteArg(cwd), At(w2, ws1)) /\ At(w2, ws1) \in AnyShell
  BY <1>3, <1>4, QuoteReads, ShellIsAny
<1>8. Reads(At(w2, ws1), <<Space, n, n, Space>>, At(NoWord, ws3))
  <2>1. ShellStep(At(w2, ws1), Space) = At(NoWord, ws2)
    <3> HIDE DEF ws1, ws2, ws3, w1, w2, w3
    <3> QED
      BY <1>4, BegunEnds
  <2>2. PICK s2, s3 : s2 = ShellStep(At(NoWord, ws2), n) /\ s3 = ShellStep(s2, n)
    OBVIOUS
  <2>3. s3 = At(w3, ws2)
    <3> HIDE DEF ws2
    <3> QED
      BY <1>2, <1>4, <2>2, BareWord
  <2>4. ShellStep(At(w3, ws2), Space) = At(NoWord, ws3)
    <3> HIDE DEF ws1, ws2, ws3, w1, w2, w3
    <3> QED
      BY <1>4, BegunEnds
  <2> HIDE DEF At, ws1, ws2, ws3, w1, w2, w3
  <2> QED
    BY <1>5, <1>7, <2>1, <2>2, <2>3, <2>4, ReadsFour
<1> DEFINE literal == [i \in DOMAIN (<<cmd>> \o args) |-> Word((<<cmd>> \o args)[i], TRUE)]
           line == <<c, d, Space>> \o QuoteArg(cwd) \o <<Space, n, n, Space>> \o Asking(cmd, args)
<1>9. Ends(ws3, Asking(cmd, args), ws3 \o literal)
  BY <1>4, AskingEnds
<1> HIDE DEF literal
<1>10. PICK t \in AnyShell : /\ Reads(At(NoWord, ws3), Asking(cmd, args), t)
                             /\ ShellStep(t, Space) = At(NoWord, ws3 \o literal)
                             /\ Asking(cmd, args) \in Text
  BY <1>9 DEF Ends
<1>11. <<c, d, Space>> \in Text /\ <<Space, n, n, Space>> \in Text /\ QuoteArg(cwd) \in Text
  BY <1>5, QuoteIsText DEF Text
<1>12. Reads(Fresh, line, t) /\ line \in Text
  <2> HIDE DEF At, ws1, ws2, ws3, w1, w2, w3
  <2>1. PICK x \in Text, y \in Text, z \in Text, u \in Text :
          /\ x = <<c, d, Space>> /\ y = QuoteArg(cwd) /\ z = <<Space, n, n, Space>>
          /\ u = Asking(cmd, args)
    BY <1>10, <1>11
  <2>2. Reads(Fresh, x \o y, At(w2, ws1)) /\ x \o y \in Text
    BY <1>6, <1>7, <2>1, ReadsConcat, CharactersAreText
  <2>3. Reads(Fresh, (x \o y) \o z, At(NoWord, ws3)) /\ (x \o y) \o z \in Text
    BY <1>8, <2>1, <2>2, ReadsConcat, CharactersAreText
  <2>4. Reads(Fresh, ((x \o y) \o z) \o u, t) /\ ((x \o y) \o z) \o u \in Text
    BY <1>10, <2>1, <2>3, ReadsConcat, CharactersAreText
  <2> QED
    BY <2>1, <2>4
<1>13. line = BuildCommand(cmd, args, cwd)
  BY <1>1, BuiltAs
<1> HIDE DEF line
<1>14. Reads(Fresh, Append(line, Space), At(NoWord, ws3 \o literal))
  <2> HIDE DEF At
  <2> QED
    <3>1. Reads(Fresh, line \o <<Space>>, ShellStep(t, Space))
      BY <1>5, <1>12, ReadsNext
    <3>2. line \o <<Space>> = Append(line, Space)
      BY <1>5, <1>12, CharactersAreText
    <3> QED
      BY <1>10, <3>1, <3>2
<1>15. ShellWords(line) = WordsAt(At(NoWord, ws3 \o literal))
  <2> HIDE DEF At
  <2> QED
    BY <1>12, <1>14, ShellWordsAre
<1>16. WordsAt(At(NoWord, ws3 \o literal)) = ws3 \o literal
  BY WordsAtEnd
<1>17. ws3 = <<Word(<<"c", "d">>, FALSE), Word(cwd, TRUE), Word(<<"&", "&">>, FALSE)>>
  BY <1>1, <1>2
<1> QED
  BY <1>13, <1>15, <1>16, <1>17 DEF literal

-----------------------------------------------------------------------------
(***************************************************************************)
(* The start: what is loaded is what the loaders let through.              *)
(***************************************************************************)
VMFile == launch.vmFiles[VMConfigPath]
ProjectFile == launch.projects[launch.project]

VMsLoaded ==
  /\ VMConfigPath \in DOMAIN launch.vmFiles
  /\ ValidVMFile(VMFile)
  /\ vmConfig = LoadedVMs(VMFile)

ProjectLoaded ==
  /\ launch.project \in DOMAIN launch.projects
  /\ ValidProject(ProjectFile)
  /\ project = LoadedProject(ProjectFile)

Stopped == stage = "exited" <=> code # <<>>

\* What run has found and loaded by each of its steps.
StartInv ==
  /\ launch \in Launches
  /\ stage \in Stages
  /\ code \in {<<>>, <<0>>, <<1>>, <<2>>}
  /\ Stopped
  /\ stage \in {"vmPath", "loadVMs", "loadProject"} => launch.project \in DOMAIN launch.projects
  /\ stage = "loadVMs" => VMConfigPath \in DOMAIN launch.vmFiles
  /\ vmConfig = NoVMs \/ VMsLoaded
  /\ stage \in {"loadProject", "serving"} => VMsLoaded
  /\ project = NoProject \/ ProjectLoaded
  /\ stage = "serving" => ProjectLoaded

LEMMA StartInvInit == StartInit => StartInv
BY DEF StartInit, StartInv, Stages, Stopped

\* Neither of the two loads is affected by what leaves the files alone.
LEMMA LoadsStay ==
  ASSUME launch' = launch
  PROVE  /\ vmConfig' = vmConfig => VMsLoaded' = VMsLoaded
         /\ project' = project => ProjectLoaded' = ProjectLoaded
         /\ VMConfigPath' = VMConfigPath
BY DEF VMsLoaded, ProjectLoaded, VMFile, ProjectFile, VMConfigPath, ValidVMFile, LoadedVMs,
       ValidProject, LoadedProject

LEMMA StartInvStep ==
  ASSUME StartInv, StartNext
  PROVE  StartInv'
<1> USE LoadsStay
<1> USE DEF Check, Exit, StartInv, Stages, Stopped
<1>1. CASE ParseFlags
  BY <1>1 DEF ParseFlags
<1>2. CASE StatProject
  BY <1>2 DEF StatProject
<1>3. CASE StatVMConfig
  BY <1>3 DEF StatVMConfig
<1>4. CASE LoadVMs
  <2>1. /\ stage = "loadVMs" /\ launch' = launch /\ project' = project
        /\ IF ValidVMFile(VMFile) THEN stage' = "loadProject" /\ code' = code
                                  ELSE stage' = "exited" /\ code' = <<1>>
        /\ vmConfig' = IF ValidVMFile(VMFile) THEN LoadedVMs(VMFile) ELSE vmConfig
    BY <1>4 DEF LoadVMs, VMFile
  <2>2. CASE ValidVMFile(VMFile)
    <3>1. VMsLoaded'
      BY <2>1, <2>2 DEF VMsLoaded, VMFile, VMConfigPath, ValidVMFile, LoadedVMs
    <3> QED
      BY <2>1, <2>2, <3>1
  <2>3. CASE ~ValidVMFile(VMFile)
    <3>1. /\ stage' = "exited" /\ code' = <<1>>
          /\ UNCHANGED <<launch, vmConfig, project>>
      BY <2>1, <2>3
    <3>2. VMsLoaded' = VMsLoaded /\ ProjectLoaded' = ProjectLoaded
      BY <3>1
    <3> HIDE LoadsStay
    <3> QED
      BY <3>1, <3>2
  <2> QED
    BY <2>2, <2>3
<1>5. CASE LoadProject
  <2>1. /\ stage = "loadProject" /\ launch' = launch /\ vmConfig' = vmConfig
        /\ IF ValidProject(ProjectFile) THEN stage' = "serving" /\ code' = code
                                        ELSE stage' = "exited" /\ code' = <<1>>
        /\ project' = IF ValidProject(ProjectFile) THEN LoadedProject(ProjectFile) ELSE project
    BY <1>5 DEF LoadProject, ProjectFile
  <2>2. CASE ValidProject(ProjectFile)
    <3>1. ProjectLoaded'
      BY <2>1, <2>2 DEF ProjectLoaded, ProjectFile, ValidProject, LoadedProject
    <3> QED
      BY <2>1, <2>2, <3>1
  <2>3. CASE ~ValidProject(ProjectFile)
    <3>1. /\ stage' = "exited" /\ code' = <<1>>
          /\ UNCHANGED <<launch, vmConfig, project>>
      BY <2>1, <2>3
    <3>2. VMsLoaded' = VMsLoaded /\ ProjectLoaded' = ProjectLoaded
      BY <3>1
    <3> HIDE LoadsStay
    <3> QED
      BY <3>1, <3>2
  <2> QED
    BY <2>2, <2>3
<1>6. CASE StopServing
  BY <1>6 DEF StopServing
<1> QED
  BY <1>1, <1>2, <1>3, <1>4, <1>5, <1>6 DEF StartNext

LEMMA StartInvStays ==
  ASSUME StartInv, UNCHANGED startVars
  PROVE  StartInv'
BY LoadsStay DEF StartInv, startVars, Stopped
\* What the decoder delivers, in the terms of the lemmas above.
LEMMA VMFileTypes ==
  ASSUME launch \in Launches, VMConfigPath \in DOMAIN launch.vmFiles
  PROVE  /\ TypedFile(VMFile)
         /\ \A n \in DOMAIN VMFile.vms :
              VMFile.vms[n].port \in Seq(Int) /\ VMFile.vms[n].remote_root \in Raw
<1>1. PICK file : file = VMFile
  OBVIOUS
<1>2. file \in Range(launch.vmFiles)
  BY <1>1 DEF VMFile, Range
<1>3. /\ file.keys \in Seq(Seq(STRING))
      /\ DOMAIN file.vms \subseteq STRING
      /\ \A vm \in Range(file.vms) : vm.port \in Seq(Int) /\ vm.remote_root \in Seq(STRING)
  BY <1>2, LaunchAssumption DEF LaunchAssumption
<1>4. file.keys \in Seq(Raw)
  BY <1>3, StringsAreRaw, SeqMonotonic
<1>5. \A n \in DOMAIN file.vms : file.vms[n] \in Range(file.vms)
  BY DEF Range
<1> QED
  BY <1>1, <1>3, <1>4, <1>5, StringsAreRaw DEF TypedFile

LEMMA ProjectFileTypes ==
  ASSUME launch \in Launches, launch.project \in DOMAIN launch.projects
  PROVE  /\ ProjectFile.dir \in Raw
         /\ ProjectFile.project_root \in Raw
         /\ ProjectFile.remote_local_root \in Raw
<1>1. PICK file : file = ProjectFile
  OBVIOUS
<1>2. file \in Range(launch.projects)
  BY <1>1 DEF ProjectFile, Range
<1>3. {file.dir, file.project_root, file.remote_local_root} \subseteq Seq(STRING)
  BY <1>2, LaunchAssumption DEF LaunchAssumption
<1> QED
  BY <1>1, <1>3, StringsAreRaw

FitsPort(port) == port \in Int /\ port >= 1 /\ port <= 65535

\* What LoadVMConfig lets through.
LEMMA VMsAreSound ==
  ASSUME launch \in Launches, VMsLoaded
  PROVE  /\ vmConfig.Order = DeclaredVMs(VMFile)
         /\ ToSet(vmConfig.Order) = DOMAIN vmConfig.VMs
         /\ \A n \in DOMAIN vmConfig.VMs :
              /\ n \in VMNames /\ vmConfig.VMs[n].Name = n
              /\ FitsPort(vmConfig.VMs[n].Port)
              /\ Absolute(vmConfig.VMs[n].RemoteRoot)
              /\ vmConfig.VMs[n].RemoteRoot \in Raw
<1>1. /\ vmConfig.Order = DeclaredVMs(VMFile)
      /\ DOMAIN vmConfig.VMs = ToSet(DeclaredVMs(VMFile))
      /\ \A n \in ToSet(DeclaredVMs(VMFile)) :
           /\ vmConfig.VMs[n].Name = n
           /\ vmConfig.VMs[n].Port = Port(VMFile.vms[n])
           /\ vmConfig.VMs[n].RemoteRoot = VMFile.vms[n].remote_root
  BY DEF VMsLoaded, LoadedVMs
<1>2. ASSUME NEW n \in ToSet(DeclaredVMs(VMFile))
      PROVE  /\ n \in VMNames /\ FitsPort(Port(VMFile.vms[n]))
             /\ Absolute(VMFile.vms[n].remote_root) /\ VMFile.vms[n].remote_root \in Raw
  <2>1. n \in DOMAIN VMFile.vms
    <3>1. /\ ListedTo(VMFile, DeclaredVMs(VMFile), Len(VMFile.keys))
          /\ DOMAIN DeclaredVMs(VMFile) = 1 .. Len(DeclaredVMs(VMFile))
      BY VMFileTypes, DeclaredAsListed, LenProperties DEF VMsLoaded, Raw
    <3> QED
      BY <3>1 DEF ListedTo, ToSet
  <2>2. VMFile.vms[n].port \in Seq(Int) /\ VMFile.vms[n].remote_root \in Raw
    BY <2>1, VMFileTypes DEF VMsLoaded
  <2>3. ValidVM(n, VMFile.vms[n])
    BY DEF VMsLoaded, ValidVMFile
  <2>4. Port(VMFile.vms[n]) \in Int
    <3>1. VMFile.vms[n].port # <<>> => VMFile.vms[n].port[1] \in Int
      BY <2>2, EmptySeq, ElementOfSeq
    <3> QED
      BY <3>1 DEF Port
  <2>5. /\ n \in VMNames /\ Absolute(VMFile.vms[n].remote_root)
        /\ Port(VMFile.vms[n]) >= 1 /\ Port(VMFile.vms[n]) <= 65535
    BY <2>3 DEF ValidVM
  <2>6. FitsPort(Port(VMFile.vms[n]))
    BY <2>4, <2>5 DEF FitsPort
  <2> QED
    BY <2>2, <2>5, <2>6
<1>3. ASSUME NEW n \in DOMAIN vmConfig.VMs
      PROVE  /\ n \in VMNames /\ vmConfig.VMs[n].Name = n
             /\ FitsPort(vmConfig.VMs[n].Port)
             /\ Absolute(vmConfig.VMs[n].RemoteRoot)
             /\ vmConfig.VMs[n].RemoteRoot \in Raw
  <2>1. n \in ToSet(DeclaredVMs(VMFile))
    BY <1>1
  <2>2. /\ vmConfig.VMs[n].Name = n
        /\ vmConfig.VMs[n].Port = Port(VMFile.vms[n])
        /\ vmConfig.VMs[n].RemoteRoot = VMFile.vms[n].remote_root
    BY <1>1, <2>1
  <2> QED
    BY <1>2, <2>1, <2>2
<1> QED
  BY <1>1, <1>3

LEMMA BaseIsSound ==
  ASSUME launch \in Launches, VMsLoaded, ProjectLoaded, NEW n \in DOMAIN vmConfig.VMs
  PROVE  /\ IsPrefix(Cleaned(TRUE, vmConfig.VMs[n].RemoteRoot), RemoteBase(n))
         /\ CleanPath(RemoteBase(n))
<1>1. PICK root \in Raw : root = vmConfig.VMs[n].RemoteRoot
  <2>1. vmConfig.VMs[n].RemoteRoot \in Raw
    BY VMsAreSound
  <2> QED
    BY <2>1
<1>2. PICK r \in Raw : r = ProjectFile.remote_local_root
  BY ProjectFileTypes DEF ProjectLoaded
<1>3. ~hasDotDotSegment(r)
  BY <1>2 DEF ProjectLoaded, ValidProject, RelativeEntry
<1>4. RemoteBase(n) = RemoteJoin(root, Written(Cleaned(FALSE, r)))
  BY <1>1, <1>2 DEF RemoteBase, ProjectLoaded, LoadedProject
<1>5. /\ IsPrefix(Cleaned(TRUE, root), RemoteBase(n))
      /\ Written(Cleaned(FALSE, r)) \in Raw
  BY <1>3, <1>4, BaseIsBelow
<1>6. CleanPath(RemoteBase(n))
  <2>1. root \o Written(Cleaned(FALSE, r)) \in Raw
    BY <1>5, ConcatProperties DEF Raw
  <2> QED
    BY <1>4, <2>1, CleanedIsCleanPath DEF RemoteJoin
<1> QED
  BY <1>1, <1>5, <1>6

LEMMA RootIsSound ==
  ASSUME launch \in Launches, ProjectLoaded
  PROVE  CleanPath(project.ProjectRoot) /\ project.ProjectRoot \in DOMAIN launch.directories
<1>1. PICK dir \in Raw : dir = ProjectFile.dir
  BY ProjectFileTypes DEF ProjectLoaded
<1>2. PICK raw \in Raw : raw = ProjectFile.project_root
  BY ProjectFileTypes DEF ProjectLoaded
<1>3. /\ project.ProjectRoot = Resolved(dir, raw)
      /\ Resolved(dir, raw) \in DOMAIN launch.directories
  BY <1>1, <1>2 DEF ProjectLoaded, LoadedProject, ValidProject
<1>4. CleanPath(Resolved(dir, raw))
  <2>1. dir \o raw \in Raw
    BY ConcatProperties DEF Raw
  <2> QED
    BY <2>1, CleanedIsCleanPath DEF Resolved, RemoteJoin
<1> QED
  BY <1>3, <1>4
-----------------------------------------------------------------------------
(***************************************************************************)
(* The tools.  An answer is about what is loaded, which no longer changes. *)
(***************************************************************************)
\* What becomes of the files of a push, wherever its names would lead.
LEMMA SentIsConfined ==
  ASSUME launch \in Launches, VMsLoaded, ProjectLoaded, NEW vm \in DOMAIN vmConfig.VMs,
         NEW dest \in Raw, NEW f \in Raw, Verdict(vm, dest, f) = "sent"
  PROVE  /\ IsStrictPrefix(project.ProjectRoot, Candidate(project.ProjectRoot, f))
         /\ IsStrictPrefix(RemoteBase(vm), Candidate(RemoteBase(vm), Joined(dest, f)))
<1>1. LocalFileAllowed(f) /\ DestAllowed(RemoteBase(vm), dest, f)
  BY DEF Verdict
<1>2. ~hasDotDotSegment(f) /\ Cleaned(FALSE, f) # <<>> /\ SplitRel(Joined(dest, f))
  BY <1>1 DEF LocalFileAllowed, DestAllowed, CheckLexical, SplitRel
<1>3. CleanPath(project.ProjectRoot) /\ CleanPath(RemoteBase(vm))
  BY RootIsSound, BaseIsSound
<1>4. IsStrictPrefix(project.ProjectRoot, Candidate(project.ProjectRoot, f))
  BY <1>2, <1>3, CandidateIsBelow
<1>5. IsStrictPrefix(RemoteBase(vm), Candidate(RemoteBase(vm), Joined(dest, f)))
  BY <1>2, <1>3, DestIsBelow
<1> QED
  BY <1>4, <1>5

\* The names that a push is asked for.
LEMMA PushTypes ==
  ASSUME NEW call \in Calls, call.tool = "push"
  PROVE  Dest(call) \in Raw /\ \A f \in ToSet(call.files) : f \in Raw
<1>1. call.files \in Seq(Seq(STRING)) /\ call.dest \in Seq(STRING)
  BY CallAssumption DEF CallAssumption
<1>2. Dest(call) \in Raw
  <2>1. <<".", "">> \in Raw
    BY DEF Raw, Segment
  <2> QED
    BY <1>1, <2>1, StringsAreRaw DEF Dest
<1>3. call.files \in Seq(Raw)
  BY <1>1, StringsAreRaw, SeqMonotonic
<1>4. \A f \in ToSet(call.files) : f \in Raw
  BY <1>3, ElementOfSeq, LenProperties DEF ToSet
<1> QED
  BY <1>2, <1>4

\* No step changes what is loaded once there is an answer.
AnswerInv ==
  /\ StartInv
  /\ answer # NoAnswer => stage \in {"serving", "exited"}

LEMMA AnswerInvInit == ToolsInit => AnswerInv
BY StartInvInit DEF ToolsInit, AnswerInv

LEMMA AnswerIs ==
  ASSUME NEW call, NEW e, NEW v, NEW o, Answer(call, e, v, o)
  PROVE  UNCHANGED startVars /\ answer'.call = call /\ answer'.vm = v /\ answer'.out = o
BY DEF Answer

\* The calls are what answers come from: each of them is one of the tools'.
LEMMA AnswerForms ==
  ASSUME NEW call \in Calls, Serve(call)
  PROVE  /\ UNCHANGED startVars /\ answer'.call = call
         /\ call.tool = "host_list" => answer'.out = vmConfig.Order
         /\ call.tool = "push" =>
              \/ answer'.out = <<>>
              \/ /\ Known(call.vm) /\ answer'.vm = call.vm
                 /\ answer'.out = [f \in ToSet(call.files) |-> Verdict(call.vm, Dest(call), f)]
<1>1. CASE HostList(call)
  <2>1. call.tool = "host_list" /\ \E e, v : Answer(call, e, v, vmConfig.Order)
    BY <1>1, Zenon DEF HostList
  <2> QED
    BY <2>1, AnswerIs
<1>2. CASE PathOf(call)
  <2>1. call.tool = "path" /\ \E e, v, o : Answer(call, e, v, o)
    BY <1>2, Zenon DEF PathOf
  <2> QED
    BY <2>1, AnswerIs
<1>3. CASE Refuse(call)
  <2>1. call.tool \in Connecting /\ \E e : Answer(call, e, "", <<>>)
    BY <1>3, Zenon DEF Refuse
  <2> QED
    BY <2>1, AnswerIs DEF Connecting
<1>4. CASE Unreachable(call)
  BY <1>4, AnswerIs DEF Unreachable, Accepted, Connecting
<1>5. CASE Exec(call)
  <2>1. call.tool = "exec" /\ \E e, v, o : Answer(call, e, v, o)
    BY <1>5, Zenon DEF Exec
  <2> QED
    BY <2>1, AnswerIs
<1>6. CASE Push(call)
  BY <1>6, AnswerIs DEF Push, Accepted
<1>7. CASE Sync(call)
  BY <1>7, AnswerIs DEF Sync
<1> QED
  BY <1>1, <1>2, <1>3, <1>4, <1>5, <1>6, <1>7 DEF Serve

LEMMA AnswerInvStep ==
  ASSUME AnswerInv, [ToolsNext]_toolVars
  PROVE  AnswerInv'
<1>1. StartInv'
  <2>1. CASE StartNext
    BY <2>1, StartInvStep DEF AnswerInv
  <2>2. CASE UNCHANGED startVars
    BY <2>2, StartInvStays DEF AnswerInv
  <2> QED
    BY <2>1, <2>2, AnswerForms DEF ToolsNext, toolVars, Sent
<1>2. answer' # NoAnswer => stage' \in {"serving", "exited"}
  <2>1. CASE StartNext /\ UNCHANGED answer
    BY <2>1 DEF AnswerInv, StartNext, ParseFlags, StatProject, StatVMConfig, LoadVMs,
                LoadProject, StopServing, Check, Exit
  <2>2. CASE Sent
    BY <2>2 DEF Sent
  <2>3. CASE stage = "serving" /\ \E call \in Calls : Serve(call)
    BY <2>3, AnswerForms DEF startVars
  <2>4. CASE UNCHANGED toolVars
    BY <2>4 DEF AnswerInv, toolVars, startVars
  <2> QED
    BY <2>1, <2>2, <2>3, <2>4 DEF ToolsNext
<1>3. NoAnswer' = NoAnswer
  BY DEF NoAnswer
<1> QED
  BY <1>1, <1>2, <1>3 DEF AnswerInv

LEMMA AlwaysAnswerInv == ToolsSpec => []AnswerInv
BY AnswerInvInit, AnswerInvStep, PTL DEF ToolsSpec
(***************************************************************************)
(* The theorems.                                                           *)
(***************************************************************************)
LEMMA AnsweredFrom ==
  ASSUME AnswerInv, [ToolsNext]_toolVars
  PROVE  \/ answer' = NoAnswer
         \/ answer' = answer /\ UNCHANGED <<launch, vmConfig, project>>
         \/ /\ VMsLoaded /\ ProjectLoaded /\ UNCHANGED startVars
            /\ \E call \in Calls : Serve(call)
<1>1. CASE StartNext /\ UNCHANGED answer
  BY <1>1 DEF AnswerInv, StartNext, ParseFlags, StatProject, StatVMConfig, LoadVMs,
              LoadProject, StopServing, Check, Exit
<1>2. CASE Sent
  BY <1>2 DEF Sent
<1>3. CASE stage = "serving" /\ \E call \in Calls : Serve(call)
  BY <1>3, AnswerForms DEF AnswerInv, StartInv
<1>4. CASE UNCHANGED toolVars
  BY <1>4 DEF toolVars, startVars
<1> QED
  BY <1>1, <1>2, <1>3, <1>4 DEF ToolsNext

\* Types: a server serves only what both of its loaders let through; every VM it
\* knows has a legal name, a port of 16 bits and an absolute root.
THEOREM ToolsTypes == ToolsSpec => []ToolsTypeOK
<1>1. ASSUME AnswerInv PROVE ToolsTypeOK
  <2>1. CASE vmConfig = NoVMs
    <3>1. ToSet(vmConfig.Order) = DOMAIN vmConfig.VMs /\ DOMAIN vmConfig.VMs = {}
      BY <2>1 DEF NoVMs, ToSet
    <3> QED
      BY <1>1, <3>1, RootIsSound DEF AnswerInv, StartInv, ToolsTypeOK, Stopped
  <2>2. CASE VMsLoaded
    <3>1. launch \in Launches
      BY <1>1 DEF AnswerInv, StartInv
    <3>2. \A n \in DOMAIN vmConfig.VMs :
            /\ n \in VMNames /\ vmConfig.VMs[n].Name = n
            /\ vmConfig.VMs[n].Port \in Int
            /\ vmConfig.VMs[n].Port >= 1 /\ vmConfig.VMs[n].Port <= 65535
            /\ Absolute(vmConfig.VMs[n].RemoteRoot)
      BY <2>2, <3>1, VMsAreSound DEF FitsPort
    <3>3. ToSet(vmConfig.Order) = DOMAIN vmConfig.VMs
      BY <2>2, <3>1, VMsAreSound
    <3> QED
      BY <1>1, <3>2, <3>3, RootIsSound DEF AnswerInv, StartInv, ToolsTypeOK, Stopped
  <2> QED
    BY <1>1, <2>1, <2>2 DEF AnswerInv, StartInv
<1> QED
  BY <1>1, AlwaysAnswerInv, PTL

\* RemoteBase: no "." and no ".." of an operator leads the base of a VM out of
\* its remote_root.
THEOREM BasesAreConfined == ToolsSpec => []BaseConfined
<1>1. ASSUME AnswerInv PROVE BaseConfined
  BY <1>1, BaseIsSound DEF AnswerInv, StartInv, BaseConfined, Started
<1> QED
  BY <1>1, AlwaysAnswerInv, PTL

\* CheckLocalLexical and CheckRemoteLexical: whatever the names of a push and
\* its dest, what is sent is a file below the project's root, and goes to a
\* place below the base of the VM.
THEOREM PushesAreConfined == ToolsSpec => []PushConfined
<1>1. ToolsInit => PushConfined
  <2>1. NoAnswer.call.tool # "push" /\ NoAnswer.call.tool # "host_list"
    BY DEF NoAnswer
  <2> QED
    BY <2>1 DEF ToolsInit, PushConfined
<1>2. ASSUME AnswerInv, PushConfined, [ToolsNext]_toolVars
      PROVE  PushConfined'
  <2>1. CASE answer' = NoAnswer
    BY <2>1 DEF NoAnswer, PushConfined
  <2>2. CASE answer' = answer /\ UNCHANGED <<launch, vmConfig, project>>
    BY <1>2, <2>2 DEF PushConfined, RemoteBase
  <2>3. ASSUME VMsLoaded, ProjectLoaded, UNCHANGED startVars, NEW call \in Calls, Serve(call)
        PROVE  PushConfined'
    <3>1. CASE call.tool # "push" \/ answer'.out = <<>>
      <4>1. answer'.call = call
        BY <2>3, AnswerForms
      <4>2. DOMAIN (<<>>) = {}
        OBVIOUS
      <4> QED
        BY <3>1, <4>1, <4>2 DEF PushConfined
    <3>2. CASE /\ call.tool = "push" /\ Known(call.vm) /\ answer'.vm = call.vm
               /\ answer'.out = [f \in ToSet(call.files) |-> Verdict(call.vm, Dest(call), f)]
      <4>1. ASSUME NEW f \in DOMAIN answer'.out, answer'.out[f] = "sent"
            PROVE  /\ IsStrictPrefix(project.ProjectRoot, Candidate(project.ProjectRoot, f))
                   /\ IsStrictPrefix(RemoteBase(call.vm),
                                     Candidate(RemoteBase(call.vm), Joined(Dest(call), f)))
        <5>1. f \in ToSet(call.files) /\ Verdict(call.vm, Dest(call), f) = "sent"
          BY <3>2, <4>1
        <5>2. Dest(call) \in Raw /\ f \in Raw
          BY <3>2, <5>1, PushTypes
        <5> QED
          BY <1>2, <2>3, <3>2, <5>1, <5>2, SentIsConfined DEF AnswerInv, StartInv, Known
      <4>2. answer'.call = call
        BY <2>3, AnswerForms
      <4> QED
        BY <2>3, <3>2, <4>1, <4>2 DEF PushConfined, RemoteBase, startVars
    <3> QED
      BY <2>3, <3>1, <3>2, AnswerForms
  <2> QED
    BY <1>2, <2>1, <2>2, <2>3, AnsweredFrom
<1>3. PushConfined /\ UNCHANGED toolVars => PushConfined'
  BY DEF PushConfined, RemoteBase, toolVars, startVars
<1> QED
  BY <1>1, <1>2, AlwaysAnswerInv, PTL DEF ToolsSpec

\* The order of the answer, apart from the state.
InOrder(keys, out) ==
  \A i, j \in DOMAIN out : i < j => Place(keys, out[i]) < Place(keys, out[j])

LEMMA ListedMeans ==
  ListedAsDeclared <=>
    (answer.call.tool = "host_list" =>
       ToSet(answer.out) = DOMAIN vmConfig.VMs /\ InOrder(VMFile.keys, answer.out))
BY Zenon DEF ListedAsDeclared, InOrder, Place, VMFile

\* host_list: the VMs that a call can name, each at the place of the table that
\* declares it.
THEOREM HostsAreListed == ToolsSpec => []ListedAsDeclared
<1>1. ToolsInit => ListedAsDeclared
  <2>1. NoAnswer.call.tool # "push" /\ NoAnswer.call.tool # "host_list"
    BY DEF NoAnswer
  <2> QED
    BY <2>1, ListedMeans DEF ToolsInit
<1>2. ASSUME AnswerInv, ListedAsDeclared, [ToolsNext]_toolVars
      PROVE  ListedAsDeclared'
  <2>0. (ListedAsDeclared <=>
           (answer.call.tool = "host_list" =>
              ToSet(answer.out) = DOMAIN vmConfig.VMs /\ InOrder(VMFile.keys, answer.out)))'
    BY ListedMeans, PTL
  <2>1. CASE answer' = NoAnswer
    <3>1. answer'.call.tool = "none"
      BY <2>1 DEF NoAnswer
    <3> QED
      BY <2>0, <3>1
  <2>2. CASE answer' = answer /\ UNCHANGED <<launch, vmConfig, project>>
    <3>1. VMFile' = VMFile
      BY <2>2 DEF VMFile, VMConfigPath
    <3> QED
      BY <1>2, <2>0, <2>2, <3>1, ListedMeans
  <2>3. ASSUME VMsLoaded, ProjectLoaded, UNCHANGED startVars, NEW call \in Calls, Serve(call)
        PROVE  ListedAsDeclared'
    <3> SUFFICES ASSUME call.tool = "host_list"
                 PROVE  ListedAsDeclared'
      BY <2>0, <2>3, AnswerForms
    <3> DEFINE keys == VMFile.keys
               order == vmConfig.Order
    <3>1. answer'.out = order /\ launch' = launch /\ vmConfig' = vmConfig
      BY <2>3, AnswerForms DEF startVars
    <3>2. ToSet(order) = DOMAIN vmConfig.VMs /\ order = DeclaredVMs(VMFile)
      BY <1>2, <2>3, VMsAreSound DEF AnswerInv, StartInv
    <3>3. ListedTo(VMFile, order, Len(keys)) /\ order \in Raw
      BY <1>2, <2>3, <3>2, VMFileTypes, DeclaredAsListed DEF AnswerInv, StartInv, VMsLoaded
    <3>4. InOrder(keys, order)
      BY <3>3, LenProperties DEF ListedTo, InOrder, Raw
    <3>5. VMFile' = VMFile
      BY <3>1 DEF VMFile, VMConfigPath
    <3> QED
      BY <2>0, <3>1, <3>2, <3>4, <3>5
  <2> QED
    BY <1>2, <2>1, <2>2, <2>3, AnsweredFrom
<1> QED
  BY <1>1, <1>2, AlwaysAnswerInv, PTL DEF ToolsSpec

\* The directory that exec goes to.
ExecCwd(call) == IF call.cwd = <<>> THEN Spelled(vmConfig.VMs[call.vm].RemoteRoot)
                 ELSE call.cwd

LEMMA SpelledIsText ==
  ASSUME NEW raw \in Raw, Len(raw) > 0
  PROVE  Spelled(raw) \in Raw /\ Spelled(raw) # <<>>
<1>1. PICK n \in Nat \ {0} : n = Len(raw)
  BY LenProperties DEF Raw
<1>2. ASSUME NEW i \in 1 .. 2 * n - 1, i % 2 = 1 PROVE raw[(i + 1) \div 2] \in Segment
  <2>1. (i + 1) \div 2 \in 1 .. Len(raw)
    BY <1>1
  <2> QED
    BY <2>1, ElementOfSeq DEF Raw
<1>3. "/" \in Segment
  BY DEF Segment
<1>4. PICK txt : txt = Spelled(raw)
  OBVIOUS
<1>5. txt \in [1 .. 2 * n - 1 -> Segment]
  BY <1>1, <1>2, <1>3, <1>4 DEF Spelled
<1>6. txt \in Seq(Segment)
  BY <1>5, SeqDef
<1>7. 1 \in DOMAIN txt
  BY <1>5
<1>8. txt # <<>>
  <2>1. DOMAIN <<>> = {}
    OBVIOUS
  <2> QED
    BY <1>7, <2>1
<1> QED
  BY <1>4, <1>6, <1>8 DEF Raw

LEMMA ExecForms ==
  ASSUME NEW call \in Calls, Serve(call), call.tool = "exec"
  PROVE  \/ answer'.out = <<>>
         \/ /\ Accepted(call)
            /\ answer'.out = [line |-> BuildCommand(call.cmd, call.args, ExecCwd(call)),
                              cwd |-> ExecCwd(call), timeout |-> Timeout(call.timeout)]
<1>1. CASE Refuse(call)
  <2>1. \E e : Answer(call, e, "", <<>>)
    BY <1>1, Zenon DEF Refuse
  <2> QED
    BY <2>1, AnswerIs
<1>2. CASE Unreachable(call)
  <2>1. \E e : Answer(call, e, call.vm, <<>>)
    BY <1>2, Zenon DEF Unreachable
  <2> QED
    BY <2>1, AnswerIs
<1>3. CASE Exec(call)
  <2> DEFINE out == [line |-> BuildCommand(call.cmd, call.args, ExecCwd(call)),
                     cwd |-> ExecCwd(call), timeout |-> Timeout(call.timeout)]
  <2>1. Accepted(call) /\ \E e : Answer(call, e, call.vm, out)
    BY <1>3, Zenon DEF Exec, ExecCwd
  <2> HIDE DEF out
  <2>2. answer'.out = out
    BY <2>1, AnswerIs
  <2> QED
    BY <2>1, <2>2 DEF out
<1> QED
  BY <1>1, <1>2, <1>3 DEF Serve, HostList, PathOf, Push, Sync

LEMMA RawIsText == Raw \subseteq Text
<1>1. Segment \subseteq Character
  BY DEF Character
<1> QED
  BY <1>1, SeqMonotonic DEF Raw, Text

\* What is asked of exec, in characters.
LEMMA ExecTypes ==
  ASSUME NEW call \in Calls, call.tool = "exec"
  PROVE  /\ call.cmd \in Text /\ call.args \in Seq(Text) /\ call.cwd \in Text
         /\ call.timeout \in Seq(Int)
<1>1. /\ call.cmd \in Seq(STRING) /\ call.args \in Seq(Seq(STRING))
      /\ call.cwd \in Seq(STRING) /\ call.timeout \in Seq(Int)
  BY CallAssumption DEF CallAssumption
<1>2. Seq(STRING) \subseteq Text
  BY StringsAreRaw, RawIsText
<1>3. call.args \in Seq(Text)
  BY <1>1, <1>2, SeqMonotonic
<1> QED
  BY <1>1, <1>2, <1>3

LEMMA ExecIsLiteral ==
  ASSUME launch \in Launches, VMsLoaded, NEW call \in Calls, call.tool = "exec", Accepted(call), NEW cwd,
         cwd = ExecCwd(call)
  PROVE  /\ ShellWords(BuildCommand(call.cmd, call.args, cwd)) =
              <<Word(<<"c", "d">>, FALSE), Word(cwd, TRUE), Word(<<"&", "&">>, FALSE)>>
              \o [i \in DOMAIN (<<call.cmd>> \o call.args) |->
                    Word((<<call.cmd>> \o call.args)[i], TRUE)]
         /\ Timeout(call.timeout) >= 1 /\ Timeout(call.timeout) <= 600
<1>1. /\ call.cmd \in Text /\ call.args \in Seq(Text) /\ call.cwd \in Text
      /\ call.timeout \in Seq(Int)
  BY ExecTypes
<1>2. cwd \in Text /\ cwd # <<>>
  <2>1. CASE call.cwd # <<>>
    BY <1>1, <2>1 DEF ExecCwd
  <2>2. CASE call.cwd = <<>>
    <3>1. PICK root : root = vmConfig.VMs[call.vm].RemoteRoot
      OBVIOUS
    <3>2. root \in Raw /\ Absolute(root)
      BY <3>1, VMsAreSound DEF Accepted, Known
    <3>3. Len(root) > 1 /\ Len(root) \in Nat
      BY <3>2, LenProperties DEF Absolute, Raw
    <3>4. Spelled(root) \in Raw /\ Spelled(root) # <<>>
      BY <3>2, <3>3, SpelledIsText
    <3> QED
      BY <2>2, <3>1, <3>4, RawIsText DEF ExecCwd
  <2> QED
    BY <2>1, <2>2
<1>3. TimeoutAllowed(call.timeout)
  BY DEF Accepted, Malformed
<1>4. Timeout(call.timeout) >= 1 /\ Timeout(call.timeout) <= 600
  BY <1>3 DEF Timeout, TimeoutAllowed
<1> QED
  BY <1>1, <1>2, <1>4, LineIsLiteral

\* BuildCommand and quoteArg: whatever characters a command and its arguments
\* are made of, the login shell takes each of them as one word that means
\* nothing else, after a cd to the directory asked for.
THEOREM ArgumentsAreLiteral == ToolsSpec => []ExecAsAsked
<1>1. ToolsInit => ExecAsAsked
  <2>1. NoAnswer.call.tool # "exec"
    BY DEF NoAnswer
  <2> QED
    BY <2>1 DEF ToolsInit, ExecAsAsked
<1>2. ASSUME AnswerInv, ExecAsAsked, [ToolsNext]_toolVars
      PROVE  ExecAsAsked'
  <2>1. CASE answer' = NoAnswer
    <3>1. NoAnswer.call.tool # "exec"
      BY DEF NoAnswer
    <3> QED
      BY <2>1, <3>1 DEF ExecAsAsked
  <2>2. CASE answer' = answer
    BY <1>2, <2>2 DEF ExecAsAsked
  <2>3. ASSUME VMsLoaded, UNCHANGED startVars, NEW call \in Calls, Serve(call)
        PROVE  ExecAsAsked'
    <3>1. answer'.call = call
      BY <2>3, AnswerForms
    <3>2. CASE call.tool # "exec"
      BY <3>1, <3>2 DEF ExecAsAsked
    <3>3. CASE answer'.out = <<>>
      BY <3>3 DEF ExecAsAsked
    <3>4. ASSUME call.tool = "exec", Accepted(call), NEW cwd, cwd = ExecCwd(call),
                 answer'.out = [line |-> BuildCommand(call.cmd, call.args, cwd), cwd |-> cwd,
                                timeout |-> Timeout(call.timeout)]
          PROVE  ExecAsAsked'
      <4>1. launch \in Launches
        BY <1>2 DEF AnswerInv, StartInv
      <4>2. /\ answer'.out.line = BuildCommand(call.cmd, call.args, cwd)
            /\ answer'.out.cwd = cwd /\ answer'.out.timeout = Timeout(call.timeout)
        BY <3>4
      <4>3. /\ ShellWords(BuildCommand(call.cmd, call.args, cwd)) =
                 <<Word(<<"c", "d">>, FALSE), Word(cwd, TRUE), Word(<<"&", "&">>, FALSE)>>
                 \o [i \in DOMAIN (<<call.cmd>> \o call.args) |->
                       Word((<<call.cmd>> \o call.args)[i], TRUE)]
            /\ Timeout(call.timeout) >= 1 /\ Timeout(call.timeout) <= 600
        BY <2>3, <3>4, <4>1, ExecIsLiteral
      <4> QED
        BY <3>1, <4>2, <4>3 DEF ExecAsAsked
    <3> QED
      BY <2>3, <3>2, <3>3, <3>4, ExecForms
  <2> QED
    BY <1>2, <2>1, <2>2, <2>3, AnsweredFrom
<1> QED
  BY <1>1, <1>2, AlwaysAnswerInv, PTL DEF ToolsSpec

-----------------------------------------------------------------------------
(***************************************************************************)
(* Cuts.  FitsFrom is the definition of a match for what is left of the    *)
(* pattern and of the path, and satisfies the recursion of matchSegs.      *)
(***************************************************************************)
\* What matchSegs returns for the rest of a pattern and of a path, from what it
\* returns for shorter rests.
Matched(h, pat, pth, i, j) ==
  IF i > Len(pat) THEN j > Len(pth)
  ELSE IF pat[i] = "**"
  THEN i = Len(pat) \/ \E k \in j .. Len(pth) + 1 : h[i + 1][k]
  ELSE j <= Len(pth) /\ <<pat[i], pth[j]>> \in Globs /\ h[i + 1][j + 1]

IsMatch(h, pat, pth) ==
  h = [i \in 1 .. Len(pat) + 1 |-> [j \in 1 .. Len(pth) + 1 |-> Matched(h, pat, pth, i, j)]]

LEMMA MatchSegsIs ==
  ASSUME NEW pat, NEW pth, \E h : IsMatch(h, pat, pth)
  PROVE  \E h : IsMatch(h, pat, pth) /\ MatchSegs(pat, pth) = h[1][1]
<1> DEFINE match == CHOOSE h : IsMatch(h, pat, pth)
<1>1. IsMatch(match, pat, pth)
  OBVIOUS
<1>2. MatchSegs(pat, pth) = match[1][1]
  BY DEF MatchSegs, IsMatch, Matched
<1> QED
  BY <1>1, <1>2

\* A cut of the path from j on into the segments from i on.
Piece(pat, pth, cut, n) ==
  IF pat[n] = "**" THEN cut[n - 1] <= cut[n]
  ELSE cut[n] = cut[n - 1] + 1 /\ <<pat[n], pth[cut[n]]>> \in Globs
IsCut(pat, pth, i, j, cut) ==
  /\ cut \in [i - 1 .. Len(pat) -> 0 .. Len(pth)]
  /\ cut[i - 1] = j - 1 /\ cut[Len(pat)] = Len(pth)
  /\ \A n \in i .. Len(pat) : Piece(pat, pth, cut, n)
FitsFrom(pat, pth, i, j) == \E cut : IsCut(pat, pth, i, j, cut)

\* A match for which a "**" at the end may stand for nothing, too.
LooselyFits(pat, pth) == FitsFrom(pat, pth, 1, 1)

LEMMA NothingLeft ==
  ASSUME NEW pat, NEW pth, Len(pat) \in Nat, Len(pth) \in Nat, NEW j \in 1 .. Len(pth) + 1
  PROVE  FitsFrom(pat, pth, Len(pat) + 1, j) <=> j > Len(pth)
<1>1. ASSUME NEW cut, IsCut(pat, pth, Len(pat) + 1, j, cut) PROVE j > Len(pth)
  BY <1>1 DEF IsCut
<1>2. ASSUME j > Len(pth) PROVE FitsFrom(pat, pth, Len(pat) + 1, j)
  <2> DEFINE cut == [n \in Len(pat) .. Len(pat) |-> Len(pth)]
  <2>1. cut \in [Len(pat) .. Len(pat) -> 0 .. Len(pth)] /\ cut[Len(pat)] = Len(pth)
    OBVIOUS
  <2>2. Len(pat) + 1 - 1 = Len(pat) /\ j - 1 = Len(pth) /\ (Len(pat) + 1) .. Len(pat) = {}
    BY <1>2
  <2> HIDE DEF cut
  <2>3. IsCut(pat, pth, Len(pat) + 1, j, cut)
    BY <2>1, <2>2 DEF IsCut
  <2> QED
    BY <2>3 DEF FitsFrom
<1> QED
  BY <1>1, <1>2 DEF FitsFrom

\* The first segment gets the names from j to k - 1, and the others the rest.
LEMMA FirstPiece ==
  ASSUME NEW pat, NEW pth, Len(pat) \in Nat, Len(pth) \in Nat,
         NEW i \in 1 .. Len(pat), NEW j \in 1 .. Len(pth) + 1
  PROVE  FitsFrom(pat, pth, i, j) <=>
           \E k \in j .. Len(pth) + 1 :
             /\ pat[i] # "**" => k = j + 1 /\ <<pat[i], pth[j]>> \in Globs
             /\ FitsFrom(pat, pth, i + 1, k)
<1>1. ASSUME NEW cut, IsCut(pat, pth, i, j, cut)
      PROVE  \E k \in j .. Len(pth) + 1 :
               /\ pat[i] # "**" => k = j + 1 /\ <<pat[i], pth[j]>> \in Globs
               /\ FitsFrom(pat, pth, i + 1, k)
  <2> DEFINE rest == [n \in i .. Len(pat) |-> cut[n]]
  <2>0. /\ cut \in [i - 1 .. Len(pat) -> 0 .. Len(pth)] /\ cut[i - 1] = j - 1
        /\ cut[Len(pat)] = Len(pth)
    BY <1>1 DEF IsCut
  <2>1. /\ cut[i] \in 0 .. Len(pth) /\ cut[i - 1] = j - 1
        /\ \A n \in i .. Len(pat) : cut[n] \in 0 .. Len(pth)
        /\ cut[Len(pat)] = Len(pth)
    <3>1. \A n \in i .. Len(pat) : n \in i - 1 .. Len(pat)
      OBVIOUS
    <3>2. i \in i .. Len(pat)
      OBVIOUS
    <3> QED
      BY <2>0, <3>1, <3>2
  <2>2. Piece(pat, pth, cut, i)
    BY <1>1 DEF IsCut
  <2>3. /\ cut[i] + 1 \in j .. Len(pth) + 1
        /\ pat[i] # "**" => cut[i] + 1 = j + 1 /\ <<pat[i], pth[j]>> \in Globs
    <3>1. CASE pat[i] = "**"
      BY <2>1, <2>2, <3>1 DEF Piece
    <3>2. CASE pat[i] # "**"
      <4>1. cut[i] = j /\ <<pat[i], pth[cut[i]]>> \in Globs
        BY <2>1, <2>2, <3>2 DEF Piece
      <4> QED
        BY <2>1, <3>2, <4>1
    <3> QED
      BY <3>1, <3>2
  <2>4. IsCut(pat, pth, i + 1, cut[i] + 1, rest)
    <3>1. i + 1 - 1 = i /\ cut[i] + 1 - 1 = cut[i] /\ i \in i .. Len(pat)
          /\ Len(pat) \in i .. Len(pat)
      BY <2>1
    <3>2. rest \in [i .. Len(pat) -> 0 .. Len(pth)] /\ rest[i] = cut[i] /\ rest[Len(pat)] = Len(pth)
      BY <2>1, <3>1
    <3>3. ASSUME NEW n \in i + 1 .. Len(pat) PROVE Piece(pat, pth, rest, n)
      <4>1. n \in i .. Len(pat) /\ n - 1 \in i .. Len(pat)
        OBVIOUS
      <4>2. rest[n] = cut[n] /\ rest[n - 1] = cut[n - 1]
        BY <4>1
      <4>3. Piece(pat, pth, cut, n)
        BY <1>1, <4>1 DEF IsCut
      <4> QED
        BY <4>2, <4>3 DEF Piece
    <3> HIDE DEF rest
    <3> QED
      BY <3>1, <3>2, <3>3 DEF IsCut
  <2> HIDE DEF rest
  <2> QED
    BY <2>3, <2>4 DEF FitsFrom
<1>2. ASSUME NEW k \in j .. Len(pth) + 1,
             pat[i] # "**" => k = j + 1 /\ <<pat[i], pth[j]>> \in Globs,
             NEW rest, IsCut(pat, pth, i + 1, k, rest)
      PROVE  FitsFrom(pat, pth, i, j)
  <2> DEFINE cut == [n \in i - 1 .. Len(pat) |-> IF n = i - 1 THEN j - 1 ELSE rest[n]]
  <2>1. i + 1 - 1 = i /\ Len(pat) \in i .. Len(pat) /\ i \in i .. Len(pat)
    OBVIOUS
  <2>2. /\ rest \in [i .. Len(pat) -> 0 .. Len(pth)] /\ rest[i] = k - 1
        /\ rest[Len(pat)] = Len(pth)
        /\ \A n \in i + 1 .. Len(pat) : Piece(pat, pth, rest, n)
    BY <1>2, <2>1 DEF IsCut
  <2>3. j - 1 \in 0 .. Len(pth)
    OBVIOUS
  <2>4. cut \in [i - 1 .. Len(pat) -> 0 .. Len(pth)]
    <3>1. ASSUME NEW n \in i - 1 .. Len(pat)
          PROVE  (IF n = i - 1 THEN j - 1 ELSE rest[n]) \in 0 .. Len(pth)
      <4>1. n # i - 1 => n \in i .. Len(pat)
        OBVIOUS
      <4> QED
        BY <2>2, <2>3, <4>1
    <3> QED
      BY <3>1
  <2>5. cut[i - 1] = j - 1 /\ \A n \in i .. Len(pat) : cut[n] = rest[n]
    OBVIOUS
  <2>6. ASSUME NEW n \in i .. Len(pat) PROVE Piece(pat, pth, cut, n)
    <3>1. CASE n = i
      <4>1. cut[n] = k - 1 /\ cut[n - 1] = j - 1
        BY <2>2, <2>5, <3>1
      <4>2. CASE pat[n] = "**"
        <5>1. j - 1 <= k - 1
          OBVIOUS
        <5> HIDE DEF cut
        <5> QED
          BY <4>1, <4>2, <5>1 DEF Piece
      <4>3. CASE pat[n] # "**"
        <5>1. k - 1 = j /\ j = (j - 1) + 1 /\ <<pat[n], pth[j]>> \in Globs
          BY <1>2, <3>1, <4>3
        <5> HIDE DEF cut
        <5> QED
          BY <4>1, <4>3, <5>1 DEF Piece
      <4> QED
        BY <4>2, <4>3
    <3>2. CASE n # i
      <4>1. n \in i + 1 .. Len(pat) /\ n - 1 \in i .. Len(pat)
        BY <3>2
      <4>2. cut[n] = rest[n] /\ cut[n - 1] = rest[n - 1]
        BY <2>5, <4>1
      <4> HIDE DEF cut
      <4> QED
        BY <2>2, <4>1, <4>2 DEF Piece
    <3> QED
      BY <3>1, <3>2
  <2>7. cut[Len(pat)] = Len(pth)
    BY <2>1, <2>2, <2>5
  <2> HIDE DEF cut
  <2>8. IsCut(pat, pth, i, j, cut)
    BY <2>4, <2>5, <2>6, <2>7 DEF IsCut
  <2> QED
    BY <2>8 DEF FitsFrom
<1> QED
  BY <1>1, <1>2 DEF FitsFrom

LEMMA SameTruth ==
  ASSUME NEW a \in BOOLEAN, NEW b \in BOOLEAN, a <=> b
  PROVE  a = b
OBVIOUS

\* matchSegs is the function that FitsFrom satisfies, and there is no other.
Fitting(pat, pth) ==
  [i \in 1 .. Len(pat) + 1 |-> [j \in 1 .. Len(pth) + 1 |-> FitsFrom(pat, pth, i, j)]]

LEMMA FitsAsMatched ==
  ASSUME NEW pat, NEW pth, Len(pat) \in Nat, Len(pth) \in Nat,
         NEW i \in 1 .. Len(pat) + 1, NEW j \in 1 .. Len(pth) + 1,
         NEW h, i <= Len(pat) =>
                  \A k \in 1 .. Len(pth) + 1 : h[i + 1][k] <=> FitsFrom(pat, pth, i + 1, k)
  PROVE  Matched(h, pat, pth, i, j) <=> FitsFrom(pat, pth, i, j)
<1>1. CASE i > Len(pat)
  <2>1. i = Len(pat) + 1
    BY <1>1
  <2> QED
    BY <1>1, <2>1, NothingLeft DEF Matched
<1>2. CASE i <= Len(pat) /\ pat[i] = "**"
  <2>0. i \in 1 .. Len(pat)
    BY <1>2
  <2>1. FitsFrom(pat, pth, i, j) <=> \E k \in j .. Len(pth) + 1 : FitsFrom(pat, pth, i + 1, k)
    BY <1>2, <2>0, FirstPiece
  <2>2. \A k \in j .. Len(pth) + 1 : h[i + 1][k] <=> FitsFrom(pat, pth, i + 1, k)
    BY <1>2
  <2>3. i = Len(pat) => FitsFrom(pat, pth, i + 1, Len(pth) + 1)
    BY NothingLeft
  <2>4. Len(pth) + 1 \in j .. Len(pth) + 1 /\ ~(i > Len(pat))
    BY <1>2
  <2> QED
    BY <1>2, <2>1, <2>2, <2>3, <2>4 DEF Matched
<1>3. CASE i <= Len(pat) /\ pat[i] # "**"
  <2>1. FitsFrom(pat, pth, i, j) <=>
          \E k \in j .. Len(pth) + 1 :
            k = j + 1 /\ <<pat[i], pth[j]>> \in Globs /\ FitsFrom(pat, pth, i + 1, k)
    BY <1>3, FirstPiece
  <2>2. j + 1 \in j .. Len(pth) + 1 <=> j <= Len(pth)
    OBVIOUS
  <2>3. j <= Len(pth) => (h[i + 1][j + 1] <=> FitsFrom(pat, pth, i + 1, j + 1))
    BY <1>3
  <2>4. ~(i > Len(pat))
    BY <1>3
  <2> QED
    BY <1>3, <2>1, <2>2, <2>3, <2>4 DEF Matched
<1> QED
  BY <1>1, <1>2, <1>3

LEMMA FittingIsMatch ==
  ASSUME NEW pat, NEW pth, Len(pat) \in Nat, Len(pth) \in Nat
  PROVE  IsMatch(Fitting(pat, pth), pat, pth)
<1> DEFINE h == Fitting(pat, pth)
<1>1. ASSUME NEW i \in 1 .. Len(pat) + 1, NEW j \in 1 .. Len(pth) + 1
      PROVE  h[i][j] = FitsFrom(pat, pth, i, j)
  BY DEF Fitting
<1>2. ASSUME NEW i \in 1 .. Len(pat) + 1, NEW j \in 1 .. Len(pth) + 1
      PROVE  Matched(h, pat, pth, i, j) <=> FitsFrom(pat, pth, i, j)
  <2>1. i <= Len(pat) => \A k \in 1 .. Len(pth) + 1 : h[i + 1][k] <=> FitsFrom(pat, pth, i + 1, k)
    BY <1>1
  <2> HIDE DEF h
  <2> QED
    BY <2>1, FitsAsMatched
<1>3. ASSUME NEW i \in 1 .. Len(pat) + 1, NEW j \in 1 .. Len(pth) + 1
      PROVE  Matched(h, pat, pth, i, j) = FitsFrom(pat, pth, i, j)
  <2> HIDE DEF h
  <2>1. Matched(h, pat, pth, i, j) \in BOOLEAN
    <3>1. Matched(h, pat, pth, i, j) = TRUE \/ Matched(h, pat, pth, i, j) = FALSE
      BY DEF Matched
    <3> QED
      BY <3>1
  <2>2. FitsFrom(pat, pth, i, j) \in BOOLEAN
    BY DEF FitsFrom
  <2>3. Matched(h, pat, pth, i, j) <=> FitsFrom(pat, pth, i, j)
    BY <1>2
  <2> QED
    BY <2>1, <2>2, <2>3, SameTruth
<1> QED
  BY <1>3 DEF IsMatch, Fitting

LEMMA MatchIsFitting ==
  ASSUME NEW pat, NEW pth, Len(pat) \in Nat, Len(pth) \in Nat, NEW h, IsMatch(h, pat, pth)
  PROVE  h[1][1] <=> FitsFrom(pat, pth, 1, 1)
<1> DEFINE n == Len(pat)
           T == {d \in 0 .. n : \A j \in 1 .. Len(pth) + 1 :
                                  h[n + 1 - d][j] <=> FitsFrom(pat, pth, n + 1 - d, j)}
<1>1. ASSUME NEW i \in 1 .. n + 1, NEW j \in 1 .. Len(pth) + 1
      PROVE  h[i][j] <=> Matched(h, pat, pth, i, j)
  <2>1. h[i] = [k \in 1 .. Len(pth) + 1 |-> Matched(h, pat, pth, i, k)]
    BY DEF IsMatch
  <2> QED
    BY <2>1
<1>2. 0 \in T
  <2>1. n + 1 - 0 = n + 1 /\ n + 1 \in 1 .. n + 1 /\ 0 \in 0 .. n /\ ~(n + 1 <= n)
    OBVIOUS
  <2>2. \A j \in 1 .. Len(pth) + 1 : h[n + 1][j] <=> FitsFrom(pat, pth, n + 1, j)
    BY <1>1, <2>1, FitsAsMatched
  <2> QED
    BY <2>1, <2>2
<1>3. ASSUME NEW d \in 1 .. n, d - 1 \in T PROVE d \in T
  <2>1. /\ n + 1 - (d - 1) = (n + 1 - d) + 1 /\ n + 1 - d \in 1 .. n + 1
        /\ d \in 0 .. n
    OBVIOUS
  <2>2. \A k \in 1 .. Len(pth) + 1 :
          h[(n + 1 - d) + 1][k] <=> FitsFrom(pat, pth, (n + 1 - d) + 1, k)
    BY <1>3, <2>1
  <2>3. \A j \in 1 .. Len(pth) + 1 : h[n + 1 - d][j] <=> FitsFrom(pat, pth, n + 1 - d, j)
    BY <1>1, <2>1, <2>2, FitsAsMatched
  <2> QED
    BY <2>1, <2>3
<1>4. n \in T
  <2> HIDE DEF T
  <2>1. \A i \in 0 .. n : i \in T
    BY <1>2, <1>3, Inductive
  <2> QED
    BY <2>1
<1>5. n + 1 - n = 1 /\ 1 \in 1 .. Len(pth) + 1
  OBVIOUS
<1> QED
  BY <1>4, <1>5

\* The backtracking finds a cut exactly when there is one.
LEMMA MatchMeansFits ==
  ASSUME NEW pat, NEW pth, Len(pat) \in Nat, Len(pth) \in Nat
  PROVE  MatchSegs(pat, pth) <=> LooselyFits(pat, pth)
BY FittingIsMatch, MatchSegsIs, MatchIsFitting DEF LooselyFits

\* Git's matches are those in which a "**" at the end stands for something.
LEMMA FitsIsLoose ==
  ASSUME NEW pat, NEW pth, Len(pat) \in Nat, Len(pat) # 0 => pat[Len(pat)] # "**"
  PROVE  Fits(pat, pth) <=> LooselyFits(pat, pth)
<1>1. \A i \in 1 .. Len(pat) : pat[i] = "**" => i # Len(pat)
  OBVIOUS
<1>2. ASSUME NEW cut
      PROVE  IsCut(pat, pth, 1, 1, cut) <=>
               /\ cut \in [0 .. Len(pat) -> 0 .. Len(pth)]
               /\ cut[0] = 0 /\ cut[Len(pat)] = Len(pth)
               /\ \A i \in 1 .. Len(pat) :
                    IF pat[i] = "**"
                    THEN cut[i - 1] <= cut[i] /\ (i = Len(pat) => cut[i - 1] # cut[i])
                    ELSE cut[i] = cut[i - 1] + 1 /\ <<pat[i], pth[cut[i]]>> \in Globs
  BY <1>1 DEF IsCut, Piece
<1> QED
  BY <1>2 DEF Fits, LooselyFits, FitsFrom

LEMMA FitsOrStops ==
  ASSUME NEW pat \in Raw, NEW pth \in Raw, pat # <<>>, pat[Len(pat)] = "**"
  PROVE  LooselyFits(pat, pth) <=> Fits(pat, pth) \/ LooselyFits(Front(pat), pth)
<1>0. /\ Len(pat) \in Nat \ {0} /\ Len(pth) \in Nat /\ Len(Front(pat)) = Len(pat) - 1
      /\ \A i \in 1 .. Len(pat) - 1 : Front(pat)[i] = pat[i]
  BY FrontIsRaw, EmptySeq, LenProperties DEF Raw
<1>1. PICK n \in Nat \ {0} : n = Len(pat)
  BY <1>0
<1>2. PICK m \in Nat : m = Len(pth)
  BY <1>0
<1>3. PICK fr : fr = Front(pat)
  OBVIOUS
<1>4. Len(fr) = n - 1 /\ \A i \in 1 .. n - 1 : fr[i] = pat[i]
  BY <1>0, <1>1, <1>3
<1>5. Fits(pat, pth) => LooselyFits(pat, pth)
  <2>1. ASSUME NEW cut \in [0 .. n -> 0 .. m], cut[0] = 0, cut[n] = m,
               \A i \in 1 .. n :
                 IF pat[i] = "**"
                 THEN cut[i - 1] <= cut[i] /\ (i = n => cut[i - 1] # cut[i])
                 ELSE cut[i] = cut[i - 1] + 1 /\ <<pat[i], pth[cut[i]]>> \in Globs
        PROVE  IsCut(pat, pth, 1, 1, cut)
    BY <1>1, <1>2, <2>1 DEF IsCut, Piece
  <2> QED
    BY <1>1, <1>2, <2>1 DEF Fits, LooselyFits, FitsFrom
<1>6. ASSUME LooselyFits(fr, pth) PROVE LooselyFits(pat, pth)
  <2>1. PICK cut : IsCut(fr, pth, 1, 1, cut)
    BY <1>6 DEF LooselyFits, FitsFrom
  <2>2. /\ cut \in [0 .. n - 1 -> 0 .. m] /\ cut[0] = 0 /\ cut[n - 1] = m
        /\ \A i \in 1 .. n - 1 : Piece(fr, pth, cut, i)
    BY <1>2, <1>4, <2>1 DEF IsCut
  <2>3. PICK whole : whole = [i \in 0 .. n |-> IF i = n THEN m ELSE cut[i]]
    OBVIOUS
  <2>4. /\ whole \in [0 .. n -> 0 .. m] /\ whole[n] = m
        /\ \A i \in 0 .. n - 1 : whole[i] = cut[i]
    BY <2>2, <2>3
  <2>5. ASSUME NEW i \in 1 .. n PROVE Piece(pat, pth, whole, i)
    <3>1. CASE i = n
      BY <1>1, <2>2, <2>4, <3>1 DEF Piece
    <3>2. CASE i \in 1 .. n - 1
      <4>1. i - 1 \in 0 .. n - 1 /\ i \in 0 .. n - 1
        BY <3>2
      <4> QED
        BY <1>4, <2>2, <2>4, <3>2, <4>1 DEF Piece
    <3> QED
      BY <3>1, <3>2
  <2>6. IsCut(pat, pth, 1, 1, whole)
    BY <1>1, <1>2, <2>2, <2>4, <2>5 DEF IsCut
  <2> QED
    BY <2>6 DEF LooselyFits, FitsFrom
<1>7. ASSUME LooselyFits(pat, pth) PROVE Fits(pat, pth) \/ LooselyFits(fr, pth)
  <2>1. PICK cut : IsCut(pat, pth, 1, 1, cut)
    BY <1>7 DEF LooselyFits, FitsFrom
  <2>2. /\ cut \in [0 .. n -> 0 .. m] /\ cut[0] = 0 /\ cut[n] = m
        /\ \A i \in 1 .. n : Piece(pat, pth, cut, i)
    BY <1>1, <1>2, <2>1 DEF IsCut
  <2>3. CASE cut[n - 1] # m
    <3>1. \A i \in 1 .. n : IF pat[i] = "**"
                            THEN cut[i - 1] <= cut[i] /\ (i = n => cut[i - 1] # cut[i])
                            ELSE cut[i] = cut[i - 1] + 1 /\ <<pat[i], pth[cut[i]]>> \in Globs
      BY <2>2, <2>3 DEF Piece
    <3> QED
      BY <1>1, <1>2, <2>2, <3>1 DEF Fits
  <2>4. CASE cut[n - 1] = m
    <3>1. PICK less : less = [i \in 0 .. n - 1 |-> cut[i]]
      OBVIOUS
    <3>2. /\ less \in [0 .. n - 1 -> 0 .. m] /\ less[0] = 0 /\ less[n - 1] = m
          /\ \A i \in 0 .. n - 1 : less[i] = cut[i]
      BY <2>2, <2>4, <3>1
    <3>3. ASSUME NEW i \in 1 .. n - 1 PROVE Piece(fr, pth, less, i)
      <4>1. i - 1 \in 0 .. n - 1 /\ i \in 0 .. n - 1 /\ i \in 1 .. n
        OBVIOUS
      <4> QED
        BY <1>4, <2>2, <3>2, <4>1 DEF Piece
    <3>4. IsCut(fr, pth, 1, 1, less)
      BY <1>2, <1>4, <3>2, <3>3 DEF IsCut
    <3> QED
      BY <3>4 DEF LooselyFits, FitsFrom
  <2> QED
    BY <2>3, <2>4
<1> QED
  BY <1>3, <1>5, <1>6, <1>7

\* A pattern of one name fits that name, and after "**" the last one.
LEMMA OneNameFits ==
  ASSUME NEW pat, Len(pat) = 1, pat[1] # "**", NEW pth, Len(pth) \in Nat
  PROVE  LooselyFits(pat, pth) <=> Len(pth) = 1 /\ <<pat[1], pth[1]>> \in Globs
<1>1. Len(pat) \in Nat /\ 1 \in 1 .. Len(pat) /\ 1 \in 1 .. Len(pth) + 1 /\ 1 + 1 = Len(pat) + 1
  OBVIOUS
<1>2. FitsFrom(pat, pth, 1, 1) <=>
        \E k \in 1 .. Len(pth) + 1 :
          /\ pat[1] # "**" => k = 1 + 1 /\ <<pat[1], pth[1]>> \in Globs
          /\ FitsFrom(pat, pth, 1 + 1, k)
  BY <1>1, FirstPiece
<1>3. \A k \in 1 .. Len(pth) + 1 : FitsFrom(pat, pth, 1 + 1, k) <=> k > Len(pth)
  BY <1>1, NothingLeft
<1>4. LooselyFits(pat, pth) <=>
        \E k \in 1 .. Len(pth) + 1 :
          (k = 1 + 1 /\ <<pat[1], pth[1]>> \in Globs) /\ k > Len(pth)
  BY <1>2, <1>3, Zenon DEF LooselyFits
<1>5. (\E k \in 1 .. Len(pth) + 1 :
         (k = 1 + 1 /\ <<pat[1], pth[1]>> \in Globs) /\ k > Len(pth))
      <=> Len(pth) = 1 /\ <<pat[1], pth[1]>> \in Globs
  <2>1. ASSUME NEW k \in 1 .. Len(pth) + 1, k = 1 + 1, k > Len(pth) PROVE Len(pth) = 1
    BY <2>1
  <2>2. ASSUME Len(pth) = 1
        PROVE  1 + 1 \in 1 .. Len(pth) + 1 /\ 1 + 1 > Len(pth)
    BY <2>2
  <2> QED
    BY <2>1, <2>2
<1> QED
  BY <1>4, <1>5

LEMMA AnywhereFits ==
  ASSUME NEW pat, Len(pat) = 2, pat[1] = "**", pat[2] # "**", NEW pth, Len(pth) \in Nat
  PROVE  LooselyFits(pat, pth) <=> Len(pth) >= 1 /\ <<pat[2], pth[Len(pth)]>> \in Globs
<1>1. /\ Len(pat) \in Nat /\ 1 \in 1 .. Len(pat) /\ 2 \in 1 .. Len(pat)
      /\ 1 \in 1 .. Len(pth) + 1 /\ 2 + 1 = Len(pat) + 1
  OBVIOUS
<1>2. FitsFrom(pat, pth, 1, 1) <=> \E k \in 1 .. Len(pth) + 1 : FitsFrom(pat, pth, 2, k)
  <2>1. FitsFrom(pat, pth, 1, 1) <=>
          \E k \in 1 .. Len(pth) + 1 :
            /\ pat[1] # "**" => k = 1 + 1 /\ <<pat[1], pth[1]>> \in Globs
            /\ FitsFrom(pat, pth, 1 + 1, k)
    BY <1>1, FirstPiece
  <2> QED
    BY <2>1
<1>3. ASSUME NEW k \in 1 .. Len(pth) + 1
      PROVE  FitsFrom(pat, pth, 2, k) <=> k = Len(pth) /\ <<pat[2], pth[k]>> \in Globs
  <2>1. FitsFrom(pat, pth, 2, k) <=>
          \E j \in k .. Len(pth) + 1 :
            /\ pat[2] # "**" => j = k + 1 /\ <<pat[2], pth[k]>> \in Globs
            /\ FitsFrom(pat, pth, 2 + 1, j)
    BY <1>1, FirstPiece
  <2>2. \A j \in k .. Len(pth) + 1 : FitsFrom(pat, pth, 2 + 1, j) <=> j > Len(pth)
    <3>1. \A j \in 1 .. Len(pth) + 1 : FitsFrom(pat, pth, 2 + 1, j) <=> j > Len(pth)
      BY <1>1, NothingLeft
    <3> QED
      BY <3>1
  <2> QED
    BY <2>1, <2>2
<1>4. LooselyFits(pat, pth) <=>
        \E k \in 1 .. Len(pth) + 1 : k = Len(pth) /\ <<pat[2], pth[k]>> \in Globs
  BY <1>2, <1>3, Zenon DEF LooselyFits
<1>5. (\E k \in 1 .. Len(pth) + 1 : k = Len(pth) /\ <<pat[2], pth[k]>> \in Globs)
      <=> Len(pth) >= 1 /\ <<pat[2], pth[Len(pth)]>> \in Globs
  <2>1. Len(pth) \in 1 .. Len(pth) + 1 <=> Len(pth) >= 1
    OBVIOUS
  <2> QED
    BY <2>1, Zenon
<1> QED
  BY <1>4, <1>5

-----------------------------------------------------------------------------
(***************************************************************************)
(* compilePattern and compileLines.                                        *)
(***************************************************************************)
Lines == [negated : BOOLEAN, segs : Raw \ {<<>>}]

LEMMA ReverseHasLength ==
  ASSUME NEW raw \in Raw
  PROVE  Len(Reverse(raw)) = Len(raw)
<1>1. PICK n \in Nat : n = Len(raw)
  BY LenProperties DEF Raw
<1>2. \A i \in 1 .. n : raw[(n - i) + 1] \in Segment
  BY <1>1, ElementOfSeq DEF Raw
<1>3. PICK back : back = Reverse(raw)
  OBVIOUS
<1>4. back \in [1 .. n -> Segment]
  BY <1>1, <1>2, <1>3 DEF Reverse
<1>5. back \in Seq(Segment)
  BY <1>4, SeqDef
<1>6. 1 .. Len(back) = 1 .. n /\ Len(back) \in Nat
  BY <1>4, <1>5, LenProperties
<1>7. Len(back) = n
  BY <1>6
<1> QED
  BY <1>1, <1>3, <1>7

LEMMA PatternOf ==
  ASSUME NEW line, line.segs \in Raw \ {<<>>}
  PROVE  /\ CompilePattern(line).segs \in Raw
         /\ CompilePattern(line).anchored \/ Len(CompilePattern(line).segs) = 1
<1> DEFINE dirOnly == Absolute(Reverse(line.segs))
           rest == IF dirOnly THEN Front(line.segs) ELSE line.segs
           segs == IF Absolute(rest) THEN Tail(rest) ELSE rest
<1>1. /\ CompilePattern(line).segs = segs
      /\ CompilePattern(line).anchored = (Absolute(rest) \/ Len(segs) > 1)
  BY DEF CompilePattern
<1>0. dirOnly => Len(line.segs) > 1
  BY ReverseHasLength DEF Absolute
<1>00. Len(line.segs) \in Nat \ {0} /\ Len(Front(line.segs)) = Len(line.segs) - 1
  BY EmptySeq, FrontIsRaw DEF Raw
<1> HIDE DEF dirOnly
<1>2. rest \in Raw /\ Len(rest) \in Nat \ {0}
  BY <1>0, <1>00, FrontIsRaw
<1> HIDE DEF rest
<1>3. Absolute(rest) => rest # <<>>
  <2>1. Absolute(rest) => Len(rest) > 1
    BY DEF Absolute
  <2>2. Len(<<>>) = 0
    OBVIOUS
  <2> QED
    BY <2>1, <2>2
<1>4. Absolute(rest) => Tail(rest) \in Raw
  BY <1>2, <1>3, HeadTailProperties DEF Raw
<1>5. segs \in Raw
  BY <1>2, <1>4
<1>6. CASE Absolute(rest)
  BY <1>1, <1>5, <1>6
<1>7. CASE ~Absolute(rest)
  <2>1. Len(segs) > 1 \/ Len(segs) = 1
    BY <1>2, <1>7
  <2> HIDE DEF segs
  <2> QED
    BY <1>1, <1>5, <2>1
<1> QED
  BY <1>6, <1>7

\* The patterns that lines can become.
Patterns == {CompilePattern(line) : line \in Lines}

LEMMA PatternsHavePaths ==
  \A p \in Patterns : p.segs \in Raw /\ (p.anchored \/ Len(p.segs) = 1)
BY PatternOf DEF Patterns, Lines

LEMMA NamesAreLines ==
  [negated : BOOLEAN, segs : Seq(STRING) \ {<<>>}] \subseteq Lines
BY StringsAreRaw DEF Lines

LEMMA CompiledInSteps ==
  ASSUME NEW lines \in Seq(Lines)
  PROVE  Compiled(lines) \in Seq(Patterns)
<1> DEFINE V == Seq(Patterns)
           Iter(h) == [s \in SUBSET DOMAIN lines |->
                         IF s = {} THEN <<>>
                         ELSE WithLine(h[s \ {Max(s)}], lines[Max(s)])]
           h == CHOOSE h : h = Iter(h)
           G == [x \in V \X Lines |-> WithLine(x[1], x[2])]
<1>1. Compiled(lines) = h[DOMAIN lines]
  BY DEF Compiled, FoldLeft, MapThenFoldSet
<1>2. /\ DOMAIN lines = 1 .. Len(lines) /\ Len(lines) \in Nat
      /\ \A s \in SUBSET DOMAIN lines : s # {} => Max(s) \in DOMAIN lines /\ lines[Max(s)] \in Lines
      /\ <<>> \in V
  <2>1. DOMAIN lines = 1 .. Len(lines) /\ Len(lines) \in Nat /\ <<>> \in V
    BY LenProperties, EmptySeq
  <2>2. ASSUME NEW s \in SUBSET DOMAIN lines, s # {}
        PROVE  Max(s) \in DOMAIN lines /\ lines[Max(s)] \in Lines
    <3>1. Max(s) \in 1 .. Len(lines)
      BY <2>1, <2>2, MaxIn
    <3> QED
      BY <2>1, <3>1, ElementOfSeq
  <2> QED
    BY <2>1, <2>2
<1> HIDE DEF V
<1>3. G \in [V \X Lines -> V] /\ \A v \in V, n \in Lines : G[<<v, n>>] = WithLine(v, n)
  <2>1. ASSUME NEW v \in V, NEW n \in Lines PROVE WithLine(v, n) \in V
    <3>1. CompilePattern(n) \in Patterns
      BY DEF Patterns
    <3>2. Append(v, CompilePattern(n)) \in V
      BY <3>1, AppendProperties DEF V
    <3> QED
      BY <3>2 DEF WithLine
  <2> QED
    BY <2>1
<1> HIDE DEF G
<1>4. h = Iter(h)
  <2>1. PICK g \in [SUBSET (1 .. Len(lines)) -> V] : IsFold(g, G, <<>>, lines)
    BY <1>2, <1>3, FoldExists
  <2>2. ASSUME NEW s \in SUBSET DOMAIN lines, s # {}
        PROVE  g[s] = WithLine(g[s \ {Max(s)}], lines[Max(s)])
    <3>1. g[s] = G[<<g[s \ {Max(s)}], lines[Max(s)]>>]
      BY <1>2, <2>1, <2>2 DEF IsFold
    <3>2. g[s \ {Max(s)}] \in V /\ lines[Max(s)] \in Lines
      BY <1>2, <2>1, <2>2
    <3> QED
      BY <1>3, <3>1, <3>2
  <2>3. g[{}] = <<>>
    BY <2>1 DEF IsFold
  <2>4. g = Iter(g)
    BY <1>2, <2>1, <2>2, <2>3
  <2> QED
    BY <2>4
<1>5. h[{}] = <<>>
  BY <1>4
<1>6. ASSUME NEW s \in SUBSET DOMAIN lines, s # {}, h[s \ {Max(s)}] \in V
      PROVE  h[s] = G[<<h[s \ {Max(s)}], lines[Max(s)]>>]
  <2>1. h[s] = WithLine(h[s \ {Max(s)}], lines[Max(s)])
    BY <1>4, <1>6
  <2> QED
    BY <1>2, <1>3, <1>6, <2>1
<1> HIDE DEF h
<1>7. Folds(h, V, Lines, G, <<>>, lines)
  BY <1>2, <1>3, <1>5, <1>6 DEF Folds
<1>8. PICK f \in [0 .. Len(lines) -> V] : f[Len(lines)] = h[DOMAIN lines]
  BY <1>7, FoldRuns
<1> QED
  BY <1>1, <1>2, <1>8 DEF V

-----------------------------------------------------------------------------
(***************************************************************************)
(* The rules of the project that is served.                                *)
(***************************************************************************)
LEMMA RulesAreTyped ==
  ASSUME launch \in Launches, ProjectLoaded
  PROVE  /\ Rules.ownIgnore \in Seq(Patterns)
         /\ \A inc \in project.Include : inc \in Raw
<1>1. PICK file : file = ProjectFile
  OBVIOUS
<1>2. file \in Range(launch.projects)
  BY <1>1 DEF ProjectLoaded, ProjectFile, Range
<1>3. /\ {file.dir, file.project_root, file.remote_local_root} \cup file.include \subseteq Seq(STRING)
      /\ file.ignore \in Seq([negated : BOOLEAN, segs : Seq(STRING) \ {<<>>}])
  BY <1>2, LaunchAssumption DEF LaunchAssumption
<1>4. project.Ignore = file.ignore /\ project.Include = file.include
  BY <1>1 DEF ProjectLoaded, LoadedProject
<1>5. file.ignore \in Seq(Lines)
  BY <1>3, NamesAreLines, SeqMonotonic
<1>6. Rules.ownIgnore = Compiled(project.Ignore)
  BY DEF Rules, Matcher
<1>7. \A inc \in file.include : inc \in Raw
  BY <1>3, StringsAreRaw
<1> QED
  BY <1>4, <1>5, <1>6, <1>7, CompiledInSteps

LEMMA PathsAreTrees ==
  ASSUME NEW p \in Paths
  PROVE  /\ p \in Raw
         /\ \A i \in 0 .. Len(p) - 1 : SubSeq(p, 1, i) \in Paths
<1>0. PICK l \in Launches : \E d \in Range(l.directories) : p \in d.dirs \cup d.files
  BY DEF Paths, Directories
<1>1. PICK d \in Range(l.directories) : p \in d.dirs \cup d.files
  BY <1>0
<1>2. p \in Seq(STRING) /\ \A i \in 0 .. Len(p) - 1 : SubSeq(p, 1, i) \in d.dirs
  BY <1>1, LaunchAssumption DEF LaunchAssumption
<1>3. d.dirs \subseteq Paths
  BY <1>1 DEF Paths, Directories
<1> QED
  BY <1>2, <1>3, StringsAreRaw

LEMMA EntriesAre == Plan!Entry = Paths \ {<<>>}
BY DEF Plan!Entry, Plan!Base

-----------------------------------------------------------------------------
(***************************************************************************)
(* What SyncPlan needs to know of the matcher.                             *)
(***************************************************************************)
LEMMA MinIn ==
  ASSUME NEW s \in SUBSET Nat, s # {}
  PROVE  Min(s) \in s
<1>1. \E m \in s : \A n \in s : m <= n
  BY LeastNumber
<1> QED
  BY <1>1 DEF Min

LEMMA TrimmedIsRaw ==
  ASSUME NEW raw \in Raw
  PROVE  Trimmed(raw) \in Raw
<1> DEFINE named == {i \in 1 .. Len(raw) : raw[i] # ""}
<1>1. Len(raw) \in Nat
  BY LenProperties DEF Raw
<1>2. CASE named = {}
  <2>1. Trimmed(raw) = <<"">>
    BY <1>2 DEF Trimmed
  <2>2. "" \in Segment
    BY DEF Segment
  <2>3. <<>> \in Raw
    BY EmptySeq DEF Raw
  <2> QED
    BY <2>1, <2>2, <2>3, AppendIsRaw
<1>3. CASE named # {}
  <2>1. Trimmed(raw) = SubSeq(raw, Min(named), Max(named))
    BY <1>3 DEF Trimmed
  <2>2. named \in SUBSET Nat /\ named \in SUBSET (1 .. Len(raw))
    <3>1. named \in SUBSET (1 .. Len(raw))
      OBVIOUS
    <3>2. 1 .. Len(raw) \subseteq Nat
      BY <1>1
    <3> QED
      BY <3>1, <3>2
  <2> HIDE DEF named
  <2>3. Min(named) \in 1 .. Len(raw) /\ Max(named) \in 1 .. Len(raw)
    BY <1>1, <1>3, <2>2, MinIn, MaxIn
  <2>4. \A i \in Min(named) .. Max(named) : raw[i] \in Segment
    <3>1. \A i \in Min(named) .. Max(named) : i \in 1 .. Len(raw)
      BY <1>1, <2>3
    <3> QED
      BY <3>1, ElementOfSeq DEF Raw
  <2>5. Min(named) \in Int /\ Max(named) \in Int
    BY <1>1, <2>3
  <2> QED
    BY <2>1, <2>4, <2>5, SubSeqProperties DEF Raw
<1> QED
  BY <1>2, <1>3

LEMMA PrefixOf ==
  ASSUME NEW p \in Raw, NEW i \in 0 .. Len(p)
  PROVE  /\ SubSeq(p, 1, i) \in Raw /\ Len(SubSeq(p, 1, i)) = i
         /\ \A j \in 1 .. i : SubSeq(p, 1, i)[j] = p[j]
<1>1. Len(p) \in Nat
  BY LenProperties DEF Raw
<1>2. \A j \in 1 .. i : p[j] \in Segment
  <2>1. \A j \in 1 .. i : j \in 1 .. Len(p)
    BY <1>1
  <2> QED
    BY <2>1, ElementOfSeq DEF Raw
<1>3. /\ SubSeq(p, 1, i) \in Seq(Segment)
      /\ Len(SubSeq(p, 1, i)) = IF 1 <= i THEN i - 1 + 1 ELSE 0
      /\ \A j \in 1 .. i - 1 + 1 : SubSeq(p, 1, i)[j] = p[1 + j - 1]
  BY <1>1, <1>2, SubSeqProperties
<1>4. PICK q : q = SubSeq(p, 1, i)
  OBVIOUS
<1>5. q \in Raw /\ Len(q) = i /\ \A j \in 1 .. i : q[j] = p[j]
  BY <1>1, <1>3, <1>4 DEF Raw
<1> QED
  BY <1>4, <1>5

\* The string prefix test with a slash is the one on names.
LEMMA UnderIsPrefix ==
  ASSUME NEW p \in Raw, NEW d \in Raw
  PROVE  /\ Plan!Under(p, d) <=> IsStrictPrefix(d, p)
         /\ Plan!Under(p, d) => Len(d) \in 0 .. Len(p) - 1 /\ d = SubSeq(p, 1, Len(d))
<1>1. Len(p) \in Nat /\ Len(d) \in Nat
  BY LenProperties DEF Raw
<1>2. SubSeq(d, 1, Len(d)) = d
  BY SubSeqFull DEF Raw
<1>3. ASSUME Plan!Under(p, d)
      PROVE  Len(d) \in 0 .. Len(p) - 1 /\ d = SubSeq(p, 1, Len(d)) /\ d # p
  <2>1. Len(d) < Len(p) /\ \A i \in 1 .. Len(d) : p[i] = d[i]
    BY <1>3 DEF Plan!Under
  <2>2. PICK q : q = SubSeq(p, 1, Len(d))
    OBVIOUS
  <2>3. q \in Raw /\ Len(q) = Len(d) /\ \A i \in 1 .. Len(d) : q[i] = p[i]
    BY <1>1, <2>1, <2>2, PrefixOf
  <2>4. Len(d) = Len(q) /\ \A i \in 1 .. Len(d) : d[i] = q[i]
    BY <2>1, <2>3
  <2>5. d = q
    BY <2>3, <2>4, SeqEqual DEF Raw
  <2> QED
    BY <1>1, <2>1, <2>2, <2>5
<1>4. ASSUME IsStrictPrefix(d, p) PROVE Plan!Under(p, d)
  <2>1. Len(d) <= Len(p) /\ d = SubSeq(p, 1, Len(d)) /\ d # p
    BY <1>2, <1>4 DEF IsStrictPrefix, IsPrefix
  <2>2. Len(d) # Len(p)
    <3>1. SubSeq(p, 1, Len(p)) = p
      BY SubSeqFull DEF Raw
    <3> QED
      BY <2>1, <3>1
  <2>3. \A i \in 1 .. Len(d) : SubSeq(p, 1, Len(d))[i] = p[i]
    BY <1>1, <2>1, PrefixOf
  <2> QED
    BY <1>1, <2>1, <2>2, <2>3 DEF Plan!Under
<1> QED
  BY <1>1, <1>2, <1>3, <1>4 DEF IsStrictPrefix, IsPrefix

LEMMA IncludedAsPlanned ==
  ASSUME NEW p \in Raw, \A inc \in project.Include : inc \in Raw
  PROVE  Plan!MatchInclude(Verdicts, p) <=> Included(project.Include, p)
<1>1. Verdicts.include = {Trimmed(inc) : inc \in project.Include}
  BY DEF Verdicts
<1>2. Verdicts.include = {} <=> project.Include = {}
  BY <1>1
<1>3. ASSUME NEW inc \in project.Include
      PROVE  Plan!Under(p, Trimmed(inc)) <=> IsStrictPrefix(Trimmed(inc), p)
  BY TrimmedIsRaw, UnderIsPrefix
<1>4. (\E t \in Verdicts.include : p = t \/ Plan!Under(p, t)) <=>
        \E inc \in project.Include : p = Trimmed(inc) \/ IsStrictPrefix(Trimmed(inc), p)
  BY <1>1, <1>3
<1> QED
  BY <1>2, <1>4 DEF Plan!MatchInclude, Included

LEMMA IgnoredAsPlanned ==
  ASSUME NEW p \in Plan!Entry, NEW isDir \in BOOLEAN
  PROVE  Plan!Ignored(Verdicts, p, isDir) <=> IgnoredByRules(Rules, p, isDir)
<1>1. Verdicts.ignored = {v \in Plan!Entry \X BOOLEAN : IgnoredSelf(Rules, v[1], v[2])}
  BY DEF Verdicts
<1>2. \A a \in Plan!Entry, b \in BOOLEAN :
        <<a, b>> \in Verdicts.ignored <=> IgnoredSelf(Rules, a, b)
  BY <1>1
<1>3. p \in Raw /\ Len(p) \in Nat
  BY EntriesAre, PathsAreTrees, LenProperties DEF Raw
<1>4. ASSUME NEW a \in Plan!Entry, Plan!Under(p, a)
      PROVE  Len(a) \in 1 .. Len(p) - 1 /\ a = SubSeq(p, 1, Len(a))
  <2>1. a \in Raw /\ a # <<>>
    BY EntriesAre, PathsAreTrees
  <2>2. Len(a) \in 0 .. Len(p) - 1 /\ a = SubSeq(p, 1, Len(a))
    BY <1>3, <1>4, <2>1, UnderIsPrefix
  <2>3. Len(a) # 0
    BY <2>1, EmptySeq DEF Raw
  <2> QED
    BY <1>3, <2>2, <2>3
<1>5. ASSUME NEW i \in 1 .. Len(p) - 1
      PROVE  SubSeq(p, 1, i) \in Plan!Entry /\ Plan!Under(p, SubSeq(p, 1, i))
  <2>1. PICK q : q = SubSeq(p, 1, i)
    OBVIOUS
  <2>2. i \in 0 .. Len(p) /\ i \in 0 .. Len(p) - 1
    BY <1>3
  <2>3. q \in Raw /\ Len(q) = i /\ \A j \in 1 .. i : q[j] = p[j]
    BY <1>3, <2>1, <2>2, PrefixOf
  <2>4. q \in Paths
    BY <2>1, <2>2, EntriesAre, PathsAreTrees
  <2>5. q # <<>>
    BY <1>3, <2>3, EmptySeq
  <2>6. Plan!Under(p, q)
    BY <1>3, <2>3 DEF Plan!Under
  <2> QED
    BY <2>1, <2>4, <2>5, <2>6, EntriesAre
<1>6. (\E a \in Plan!Entry : Plan!Under(p, a) /\ <<a, TRUE>> \in Verdicts.ignored) <=>
        \E i \in 1 .. Len(p) - 1 : IgnoredSelf(Rules, SubSeq(p, 1, i), TRUE)
  BY <1>2, <1>4, <1>5
<1> QED
  BY <1>2, <1>6 DEF Plan!Ignored, IgnoredByRules

\* BuildPlan's model has one verdict per path and kind: what the matcher says
\* with its ancestors and the prefixes of include is no more than those.
THEOREM VerdictsSuffice == ToolsSpec => []VerdictsAreEnough
<1>1. ASSUME AnswerInv PROVE VerdictsAreEnough
  <2>1. ASSUME Started, NEW p \in Plan!Entry, NEW isDir \in BOOLEAN
        PROVE  Plan!Excluded(Verdicts, p, isDir) <=>
                 (~Included(project.Include, p) \/ IgnoredByRules(Rules, p, isDir))
    <3>1. p \in Raw
      BY EntriesAre, PathsAreTrees
    <3>2. \A inc \in project.Include : inc \in Raw
      BY <1>1, <2>1, RulesAreTyped DEF AnswerInv, StartInv, Started
    <3> QED
      BY <3>1, <3>2, IncludedAsPlanned, IgnoredAsPlanned DEF Plan!Excluded
  <2> QED
    BY <2>1 DEF VerdictsAreEnough
<1> QED
  BY <1>1, AlwaysAnswerInv, PTL

-----------------------------------------------------------------------------
(***************************************************************************)
(* A finite set under a strict total order can be listed in it.            *)
(***************************************************************************)
Orders(R, S) ==
  /\ \A x \in S : <<x, x>> \notin R
  /\ \A x, y, z \in S : <<x, y>> \in R /\ <<y, z>> \in R => <<x, z>> \in R
  /\ \A x, y \in S : x = y \/ <<x, y>> \in R \/ <<y, x>> \in R

LEMMA Injective ==
  ASSUME NEW S, NEW T, NEW f \in [S -> T], \A x, y \in S : x # y => f[x] # f[y]
  PROVE  f \in Injection(S, T)
BY DEF Injection, IsInjective

LEMMA Listable ==
  ASSUME NEW S, IsFiniteSet(S), NEW R, Orders(R, S)
  PROVE  \E s \in [1 .. Cardinality(S) -> S] :
           /\ \A i, j \in 1 .. Cardinality(S) : i < j => <<s[i], s[j]>> \in R
           /\ \A i, j \in 1 .. Cardinality(S) : i # j => s[i] # s[j]
<1> DEFINE n == Cardinality(S)
           below(x) == {y \in S : <<y, x>> \in R}
           pos == [x \in S |-> Cardinality(below(x)) + 1]
<1>1. n \in Nat
  BY FS_CardinalityType
<1>2. ASSUME NEW x \in S
      PROVE  IsFiniteSet(below(x)) /\ Cardinality(below(x)) \in Nat
  BY FS_Subset, FS_CardinalityType
<1>3. ASSUME NEW x \in S PROVE pos[x] \in 1 .. n
  <2>1. below(x) \in SUBSET S /\ x \notin below(x)
    BY DEF Orders
  <2>2. Cardinality(below(x)) <= n /\ Cardinality(below(x)) # n
    BY <2>1, FS_Subset
  <2> QED
    BY <1>1, <1>2, <2>2
<1>4. ASSUME NEW x \in S, NEW y \in S, <<x, y>> \in R PROVE pos[x] < pos[y]
  <2>1. below(x) \in SUBSET below(y)
    BY <1>4 DEF Orders
  <2>2. x \in below(y) /\ x \notin below(x)
    BY <1>4 DEF Orders
  <2>3. Cardinality(below(x)) <= Cardinality(below(y))
    BY <1>2, <2>1, FS_Subset
  <2>4. Cardinality(below(x)) # Cardinality(below(y))
    BY <1>2, <2>1, <2>2, FS_Subset
  <2>5. Cardinality(below(x)) \in Nat /\ Cardinality(below(y)) \in Nat
    BY <1>2
  <2>6. pos[x] = Cardinality(below(x)) + 1 /\ pos[y] = Cardinality(below(y)) + 1
    OBVIOUS
  <2> HIDE DEF pos, below
  <2> QED
    BY <2>3, <2>4, <2>5, <2>6
<1>5. pos \in [S -> 1 .. n]
  BY <1>3
<1> HIDE DEF pos, below
<1>6. ASSUME NEW x \in S, NEW y \in S, x # y PROVE pos[x] # pos[y]
  <2>1. <<x, y>> \in R \/ <<y, x>> \in R
    BY <1>6 DEF Orders
  <2>2. pos[x] \in Int /\ pos[y] \in Int
    BY <1>3
  <2> QED
    BY <1>4, <2>1, <2>2
<1>7. pos \in Surjection(S, 1 .. n)
  <2>1. pos \in Injection(S, 1 .. n)
    BY <1>5, <1>6, Injective
  <2>2. IsFiniteSet(1 .. n) /\ Cardinality(1 .. n) = n
    BY <1>1, FS_Interval
  <2> QED
    BY <2>1, <2>2, FS_Injection
<1>8. \A i \in 1 .. n : \E x \in S : pos[x] = i
  BY <1>7 DEF Surjection
<1> DEFINE s == [i \in 1 .. n |-> CHOOSE x \in S : pos[x] = i]
<1>9. \A i \in 1 .. n : s[i] \in S /\ pos[s[i]] = i
  BY <1>8
<1>10. s \in [1 .. n -> S]
  BY <1>9
<1> HIDE DEF s
<1>11. ASSUME NEW i \in 1 .. n, NEW j \in 1 .. n, i < j PROVE <<s[i], s[j]>> \in R
  <2>1. s[i] \in S /\ s[j] \in S /\ pos[s[i]] = i /\ pos[s[j]] = j
    BY <1>9
  <2>2. s[i] # s[j] /\ ~(<<s[j], s[i]>> \in R)
    BY <1>4, <1>11, <2>1
  <2> QED
    BY <2>1, <2>2 DEF Orders
<1>12. \A i, j \in 1 .. n : i # j => s[i] # s[j]
  BY <1>9
<1> QED
  BY <1>10, <1>11, <1>12

LEMMA ListsAll ==
  ASSUME NEW S, IsFiniteSet(S), NEW s \in [1 .. Cardinality(S) -> S],
         \A i, j \in 1 .. Cardinality(S) : i # j => s[i] # s[j]
  PROVE  \A x \in S : \E i \in 1 .. Cardinality(S) : s[i] = x
<1>1. Cardinality(S) \in Nat
  BY FS_CardinalityType
<1>2. IsFiniteSet(1 .. Cardinality(S)) /\ Cardinality(1 .. Cardinality(S)) = Cardinality(S)
  BY <1>1, FS_Interval
<1>3. s \in Injection(1 .. Cardinality(S), S)
  BY Injective
<1>4. s \in Surjection(1 .. Cardinality(S), S)
  BY <1>2, <1>3, FS_Injection
<1> QED
  BY <1>4 DEF Surjection

-----------------------------------------------------------------------------
(***************************************************************************)
(* The walk, and the order of the .gitignore files.                        *)
(***************************************************************************)
\* The i-th name of a .gitignore in d, and that d and e begin alike.
NameIn(d, i) == IF i = Len(d) + 1 THEN ".gitignore" ELSE d[i]
Alike(d, e, n) == \A k \in 1 .. n : d[k] = e[k]

LEMMA FoundNames ==
  ASSUME NEW d \in Raw, NEW i \in 1 .. Len(d) + 1
  PROVE  Found(d)[i] = NameIn(d, i)
<1> DEFINE T == Segment \cup {".gitignore"}
<1>1. Len(d) \in Nat /\ d \in Seq(T)
  BY LenProperties, SeqMonotonic DEF Raw
<1>2. \A k \in 1 .. Len(d) : Append(d, ".gitignore")[k] = d[k]
  BY <1>1, AppendProperties
<1>3. Append(d, ".gitignore")[Len(d) + 1] = ".gitignore"
  BY <1>1, AppendProperties
<1>4. i = Len(d) + 1 \/ i \in 1 .. Len(d)
  BY <1>1
<1> QED
  BY <1>2, <1>3, <1>4 DEF Found, NameIn

LEMMA WalkedAt ==
  ASSUME NEW d \in Raw, NEW e \in Raw
  PROVE  WalkedBefore(d, e) <=>
           \E i \in 1 .. Len(d) + 1 :
             i <= Len(e) + 1 /\ Alike(d, e, i - 1) /\ Rank[NameIn(d, i)] < Rank[NameIn(e, i)]
<1>1. Len(d) \in Nat /\ Len(e) \in Nat
  BY LenProperties DEF Raw
<1>2. ASSUME NEW i \in 1 .. Len(d) + 1, i <= Len(e) + 1
      PROVE  /\ SubSeq(d, 1, i - 1) = SubSeq(e, 1, i - 1) <=> Alike(d, e, i - 1)
             /\ Found(d)[i] = NameIn(d, i) /\ Found(e)[i] = NameIn(e, i)
  <2>1. i - 1 \in 0 .. Len(d) /\ i - 1 \in 0 .. Len(e) /\ i \in 1 .. Len(e) + 1
    BY <1>1, <1>2
  <2>2. PICK q : q = SubSeq(d, 1, i - 1)
    OBVIOUS
  <2>3. PICK r : r = SubSeq(e, 1, i - 1)
    OBVIOUS
  <2>4. q \in Raw /\ Len(q) = i - 1 /\ \A j \in 1 .. i - 1 : q[j] = d[j]
    BY <2>1, <2>2, PrefixOf
  <2>5. r \in Raw /\ Len(r) = i - 1 /\ \A j \in 1 .. i - 1 : r[j] = e[j]
    BY <2>1, <2>3, PrefixOf
  <2>6. q = r <=> Alike(d, e, i - 1)
    BY <2>4, <2>5, SeqEqual DEF Alike, Raw
  <2> QED
    BY <2>1, <2>2, <2>3, <2>6, FoundNames
<1> QED
  BY <1>2 DEF WalkedBefore

\* What the order takes for granted: names have ranks, and a .gitignore is no
\* directory with another in it.
Walkable(D) ==
  /\ D \subseteq Raw
  /\ \A d \in D : /\ ".gitignore" \in DOMAIN Rank
                  /\ \A i \in 1 .. Len(d) : d[i] \in DOMAIN Rank
  /\ \A d, e \in D :
       Len(d) < Len(e) /\ Alike(d, e, Len(d)) => e[Len(d) + 1] # ".gitignore"

LEMMA Ranked ==
  ASSUME NEW D, Walkable(D), NEW d \in D, NEW i \in 1 .. Len(d) + 1
  PROVE  NameIn(d, i) \in DOMAIN Rank /\ Rank[NameIn(d, i)] \in Nat
<1>1. i = Len(d) + 1 \/ i \in 1 .. Len(d)
  BY LenProperties DEF Walkable, Raw
<1> QED
  BY <1>1, RankAssumption DEF Walkable, NameIn

LEMMA WalkedNever ==
  ASSUME NEW D, Walkable(D), NEW d \in D
  PROVE  ~WalkedBefore(d, d)
<1>1. \A i \in 1 .. Len(d) + 1 : ~(Rank[NameIn(d, i)] < Rank[NameIn(d, i)])
  BY Ranked
<1> QED
  BY <1>1, WalkedAt DEF Walkable

LEMMA WalkedOn ==
  ASSUME NEW D, Walkable(D), NEW d \in D, NEW e \in D, NEW f \in D,
         WalkedBefore(d, e), WalkedBefore(e, f)
  PROVE  WalkedBefore(d, f)
<1>1. /\ d \in Raw /\ e \in Raw /\ f \in Raw
      /\ Len(d) \in Nat /\ Len(e) \in Nat /\ Len(f) \in Nat
  BY LenProperties DEF Walkable, Raw
<1>2. PICK i \in 1 .. Len(d) + 1 :
        i <= Len(e) + 1 /\ Alike(d, e, i - 1) /\ Rank[NameIn(d, i)] < Rank[NameIn(e, i)]
  BY <1>1, WalkedAt
<1>3. PICK j \in 1 .. Len(e) + 1 :
        j <= Len(f) + 1 /\ Alike(e, f, j - 1) /\ Rank[NameIn(e, j)] < Rank[NameIn(f, j)]
  BY <1>1, WalkedAt
<1>4. CASE i < j
  <2>1. i \in 1 .. j - 1 /\ i # Len(e) + 1 /\ i # Len(f) + 1 /\ i <= Len(f) + 1
    BY <1>1, <1>2, <1>3, <1>4
  <2>2. NameIn(e, i) = NameIn(f, i)
    BY <1>3, <2>1 DEF NameIn, Alike
  <2>3. Alike(d, f, i - 1)
    <3>1. \A k \in 1 .. i - 1 : k \in 1 .. j - 1
      BY <1>2, <1>3, <1>4
    <3> QED
      BY <1>2, <1>3, <3>1 DEF Alike
  <2> QED
    BY <1>1, <1>2, <2>1, <2>2, <2>3, WalkedAt
<1>5. CASE j < i
  <2>1. j \in 1 .. i - 1 /\ j # Len(d) + 1 /\ j # Len(e) + 1 /\ j \in 1 .. Len(d) + 1
    BY <1>1, <1>2, <1>3, <1>5
  <2>2. NameIn(d, j) = NameIn(e, j)
    BY <1>2, <2>1 DEF NameIn, Alike
  <2>3. Alike(d, f, j - 1)
    <3>1. \A k \in 1 .. j - 1 : k \in 1 .. i - 1
      BY <1>2, <1>3, <1>5
    <3> QED
      BY <1>2, <1>3, <3>1 DEF Alike
  <2> QED
    BY <1>1, <1>3, <2>1, <2>2, <2>3, WalkedAt
<1>6. CASE i = j
  <2>1. Alike(d, f, i - 1)
    BY <1>2, <1>3, <1>6 DEF Alike
  <2>2. i \in 1 .. Len(e) + 1 /\ i \in 1 .. Len(f) + 1
    BY <1>1, <1>2, <1>3, <1>6
  <2>3. Rank[NameIn(d, i)] < Rank[NameIn(f, i)]
    BY <1>2, <1>3, <1>6, <2>2, Ranked
  <2> QED
    BY <1>1, <2>1, <2>2, <2>3, WalkedAt
<1> QED
  BY <1>2, <1>3, <1>4, <1>5, <1>6

\* Where two of them part, there is an order; and they do.
LEMMA WalkedApart ==
  ASSUME NEW D, Walkable(D), NEW d \in D, NEW e \in D, d # e
  PROVE  WalkedBefore(d, e) \/ WalkedBefore(e, d)
<1>1. d \in Raw /\ e \in Raw /\ Len(d) \in Nat /\ Len(e) \in Nat
  BY LenProperties DEF Walkable, Raw
<1> DEFINE T == {i \in 1 .. Len(d) + 1 : i <= Len(e) + 1 /\ NameIn(d, i) # NameIn(e, i)}
<1>2. T # {}
  <2> SUFFICES ASSUME \A i \in 1 .. Len(d) + 1 : i <= Len(e) + 1 => NameIn(d, i) = NameIn(e, i)
               PROVE  FALSE
    OBVIOUS
  <2>1. ASSUME NEW k \in 1 .. Len(d), k <= Len(e) PROVE d[k] = e[k]
    <3>1. k \in 1 .. Len(d) + 1 /\ k <= Len(e) + 1 /\ k # Len(d) + 1 /\ k # Len(e) + 1
      BY <1>1, <2>1
    <3>2. NameIn(d, k) = NameIn(e, k)
      BY <3>1
    <3> QED
      BY <3>1, <3>2 DEF NameIn
  <2>2. CASE Len(d) = Len(e)
    BY <1>1, <2>1, <2>2, SeqEqual DEF Raw
  <2>3. CASE Len(d) < Len(e)
    <3>1. Alike(d, e, Len(d))
      BY <1>1, <2>1, <2>3 DEF Alike
    <3>2. Len(d) + 1 \in 1 .. Len(d) + 1 /\ Len(d) + 1 <= Len(e) + 1 /\ Len(d) + 1 # Len(e) + 1
      BY <1>1, <2>3
    <3>3. NameIn(d, Len(d) + 1) = NameIn(e, Len(d) + 1)
      BY <3>2
    <3> QED
      BY <2>3, <3>1, <3>2, <3>3 DEF NameIn, Walkable
  <2>4. CASE Len(e) < Len(d)
    <3>1. Alike(e, d, Len(e))
      BY <1>1, <2>1, <2>4 DEF Alike
    <3>2. Len(e) + 1 \in 1 .. Len(d) + 1 /\ Len(e) + 1 <= Len(e) + 1 /\ Len(e) + 1 # Len(d) + 1
      BY <1>1, <2>4
    <3>3. NameIn(d, Len(e) + 1) = NameIn(e, Len(e) + 1)
      BY <3>2
    <3> QED
      BY <2>4, <3>1, <3>2, <3>3 DEF NameIn, Walkable
  <2> QED
    BY <1>1, <2>2, <2>3, <2>4
<1>3. PICK i \in T : \A k \in T : i <= k
  <2>1. T \in SUBSET Nat
    BY <1>1
  <2> HIDE DEF T
  <2> QED
    BY <1>2, <2>1, LeastNumber
<1>4. i \in 1 .. Len(d) + 1 /\ i \in 1 .. Len(e) + 1 /\ NameIn(d, i) # NameIn(e, i)
  BY <1>1, <1>3
<1>5. ASSUME NEW k \in 1 .. i - 1 PROVE d[k] = e[k]
  <2>1. k \in 1 .. Len(d) + 1 /\ k <= Len(e) + 1 /\ k # Len(d) + 1 /\ k # Len(e) + 1 /\ ~(i <= k)
    BY <1>1, <1>4
  <2>2. NameIn(d, k) = NameIn(e, k)
    BY <1>3, <2>1
  <2> QED
    BY <2>1, <2>2 DEF NameIn
<1>6. Alike(d, e, i - 1) /\ Alike(e, d, i - 1)
  BY <1>5 DEF Alike
<1>7. Rank[NameIn(d, i)] < Rank[NameIn(e, i)] \/ Rank[NameIn(e, i)] < Rank[NameIn(d, i)]
  <2>1. /\ NameIn(d, i) \in DOMAIN Rank /\ Rank[NameIn(d, i)] \in Nat
        /\ NameIn(e, i) \in DOMAIN Rank /\ Rank[NameIn(e, i)] \in Nat
    BY <1>4, Ranked
  <2>2. Rank[NameIn(d, i)] # Rank[NameIn(e, i)]
    BY <1>4, <2>1, RankAssumption
  <2> QED
    BY <2>1, <2>2
<1> QED
  BY <1>1, <1>4, <1>6, <1>7, WalkedAt

LEMMA SlashesOf ==
  ASSUME NEW d \in Raw
  PROVE  /\ Slashes(d) \in Nat
         /\ d = <<>> => Slashes(d) = 0 /\ Len(d) = 0
         /\ d # <<>> => Slashes(d) = Len(d) - 1 /\ Len(d) > 0
<1>1. Len(d) \in Nat /\ Len(<<>>) = 0 /\ (d # <<>> => Len(d) # 0)
  BY LenProperties, EmptySeq DEF Raw
<1> QED
  BY <1>1 DEF Slashes

\* The order of sortByDepth, as a set of pairs.
Sorted(D) == {x \in D \X D : SortedBefore(x[1], x[2])}

LEMMA SortedOrders ==
  ASSUME NEW D, Walkable(D)
  PROVE  Orders(Sorted(D), D)
<1>1. \A d, e \in D : <<d, e>> \in Sorted(D) <=> SortedBefore(d, e)
  BY DEF Sorted
<1>2. \A d \in D : Slashes(d) \in Nat
  BY SlashesOf DEF Walkable
<1>3. ASSUME NEW d \in D PROVE ~SortedBefore(d, d)
  BY <1>2, WalkedNever DEF SortedBefore
<1>4. ASSUME NEW d \in D, NEW e \in D, NEW f \in D, SortedBefore(d, e), SortedBefore(e, f)
      PROVE  SortedBefore(d, f)
  <2>1. Slashes(d) \in Nat /\ Slashes(e) \in Nat /\ Slashes(f) \in Nat
    BY <1>2
  <2>2. WalkedBefore(d, e) /\ WalkedBefore(e, f) => WalkedBefore(d, f)
    BY WalkedOn
  <2> QED
    BY <1>4, <2>1, <2>2 DEF SortedBefore
<1>5. ASSUME NEW d \in D, NEW e \in D, d # e PROVE SortedBefore(d, e) \/ SortedBefore(e, d)
  <2>1. WalkedBefore(d, e) \/ WalkedBefore(e, d)
    BY <1>5, WalkedApart
  <2>2. Slashes(d) \in Nat /\ Slashes(e) \in Nat
    BY <1>2
  <2> QED
    BY <2>1, <2>2 DEF SortedBefore
<1> QED
  BY <1>1, <1>3, <1>4, <1>5 DEF Orders

\* sortByDepth lists all of them, and in its order.
LEMMA SortIs ==
  ASSUME NEW D, Walkable(D), IsFiniteSet(D)
  PROVE  /\ SortByDepth(D) \in Seq(D)
         /\ \A x \in D : \E i \in DOMAIN SortByDepth(D) : SortByDepth(D)[i] = x
         /\ \A i, j \in DOMAIN SortByDepth(D) :
              i < j => SortedBefore(SortByDepth(D)[i], SortByDepth(D)[j])
<1> DEFINE n == Cardinality(D)
           Good(s) == \A i, j \in DOMAIN s : i < j => SortedBefore(s[i], s[j])
<1>1. n \in Nat
  BY FS_CardinalityType
<1>2. \E s \in SetToSeqs(D) : Good(s)
  <2>1. PICK s \in [1 .. n -> D] :
          /\ \A i, j \in 1 .. n : i < j => <<s[i], s[j]>> \in Sorted(D)
          /\ \A i, j \in 1 .. n : i # j => s[i] # s[j]
    BY SortedOrders, Listable
  <2>2. s \in SetToSeqs(D)
    BY <2>1 DEF SetToSeqs
  <2>3. Good(s)
    BY <2>1 DEF Sorted
  <2> QED
    BY <2>2, <2>3
<1>3. PICK s : s = SortByDepth(D)
  OBVIOUS
<1>4. s \in SetToSeqs(D) /\ Good(s)
  <2>1. s = CHOOSE t \in SetToSeqs(D) : Good(t)
    BY <1>3 DEF SortByDepth
  <2> HIDE DEF Good
  <2> QED
    BY <1>2, <2>1
<1>5. s \in [1 .. n -> D] /\ \A i, j \in 1 .. n : i # j => s[i] # s[j]
  BY <1>4 DEF SetToSeqs
<1>6. s \in Seq(D) /\ DOMAIN s = 1 .. n
  BY <1>1, <1>5, SeqDef
<1>7. \A x \in D : \E i \in DOMAIN s : s[i] = x
  BY <1>5, <1>6, ListsAll
<1> QED
  BY <1>3, <1>4, <1>6, <1>7

\* No directory of the root with rules of its own comes before .gitignore there.
RootFirst(D) ==
  <<>> \in D => \A d \in D : Len(d) = 1 => Rank[".gitignore"] < Rank[d[1]]

LEMMA OutermostFirst ==
  ASSUME NEW D, Walkable(D), IsFiniteSet(D), RootFirst(D),
         NEW i \in DOMAIN SortByDepth(D), NEW j \in DOMAIN SortByDepth(D), i < j
  PROVE  ~IsStrictPrefix(SortByDepth(D)[j], SortByDepth(D)[i])
<1>1. PICK d : d = SortByDepth(D)[i]
  OBVIOUS
<1>2. PICK e : e = SortByDepth(D)[j]
  OBVIOUS
<1>3. d \in D /\ e \in D /\ SortedBefore(d, e)
  BY <1>1, <1>2, SortIs, ElementOfSeq, LenProperties
<1>4. d \in Raw /\ e \in Raw /\ Len(d) \in Nat /\ Len(e) \in Nat
  BY <1>3, LenProperties DEF Walkable, Raw
<1> SUFFICES ASSUME IsStrictPrefix(e, d) PROVE FALSE
  BY <1>1, <1>2
<1>5. Len(e) < Len(d)
  BY <1>4, UnderIsPrefix
<1>6. e = <<>> /\ Len(d) = 1 /\ Len(e) = 0 /\ WalkedBefore(d, e)
  <2>1. /\ Slashes(d) \in Nat /\ Slashes(e) \in Nat
        /\ Slashes(d) = Len(d) - 1
        /\ e = <<>> => Slashes(e) = 0 /\ Len(e) = 0
        /\ e # <<>> => Slashes(e) = Len(e) - 1
    BY <1>4, <1>5, SlashesOf
  <2>2. Slashes(d) < Slashes(e) \/ (Slashes(d) = Slashes(e) /\ WalkedBefore(d, e))
    BY <1>3 DEF SortedBefore
  <2>3. e = <<>>
    BY <1>4, <1>5, <2>1, <2>2
  <2>4. Slashes(e) = 0 /\ Len(e) = 0
    BY <2>1, <2>3
  <2>5. Len(d) = 1 /\ Len(e) = 0 /\ Slashes(d) = 0
    BY <1>4, <1>5, <2>1, <2>2, <2>4
  <2>6. WalkedBefore(d, e)
    BY <2>2, <2>4, <2>5
  <2> QED
    BY <2>3, <2>5, <2>6
<1>7. PICK k \in 1 .. Len(d) + 1 : k <= Len(e) + 1 /\ Rank[NameIn(d, k)] < Rank[NameIn(e, k)]
  BY <1>4, <1>6, WalkedAt
<1>8. k = 1 /\ NameIn(d, k) = d[1] /\ NameIn(e, k) = ".gitignore"
  BY <1>6, <1>7 DEF NameIn
<1>9. Rank[".gitignore"] < Rank[d[1]]
  BY <1>3, <1>6 DEF RootFirst
<1>10. Rank[".gitignore"] \in Nat /\ Rank[d[1]] \in Nat
  <2>1. 1 \in 1 .. Len(d)
    BY <1>6
  <2> QED
    BY <1>3, <2>1, RankAssumption DEF Walkable
<1> QED
  BY <1>7, <1>8, <1>9, <1>10

-----------------------------------------------------------------------------
(***************************************************************************)
(* Where each match overrides what was before, the last one decides.       *)
(***************************************************************************)
Overrides(f, n, H, val) ==
  \A i \in 1 .. n : f[i] = IF i \in H THEN val[i] ELSE f[i - 1]

LEMMA LastDecides ==
  ASSUME NEW n \in Nat, NEW f, NEW H, NEW val, Overrides(f, n, H, val)
  PROVE  /\ (\A i \in 1 .. n : i \notin H) => f[n] = f[0]
         /\ \A i \in 1 .. n : i \in H /\ (\A j \in i + 1 .. n : j \notin H) => f[n] = val[i]
<1>0. \A i \in 1 .. n : f[i] = IF i \in H THEN val[i] ELSE f[i - 1]
  BY DEF Overrides
<1>1. ASSUME \A i \in 1 .. n : i \notin H PROVE f[n] = f[0]
  <2> DEFINE T == {i \in 0 .. n : f[i] = f[0]}
  <2>1. 0 \in T
    OBVIOUS
  <2>2. ASSUME NEW i \in 1 .. n, i - 1 \in T PROVE i \in T
    BY <1>0, <1>1, <2>2
  <2> HIDE DEF T
  <2>3. \A i \in 0 .. n : i \in T
    BY <2>1, <2>2, Inductive
  <2> QED
    BY <2>3 DEF T
<1>2. ASSUME NEW m \in 1 .. n, m \in H, \A j \in m + 1 .. n : j \notin H PROVE f[n] = val[m]
  <2> DEFINE T == {i \in 0 .. n : i >= m => f[i] = val[m]}
  <2>1. 0 \in T
    OBVIOUS
  <2>2. ASSUME NEW i \in 1 .. n, i - 1 \in T PROVE i \in T
    <3>1. CASE i < m
      BY <3>1
    <3>2. CASE i = m
      BY <1>0, <1>2, <3>2
    <3>3. CASE i > m
      <4>1. i \in m + 1 .. n /\ i - 1 >= m
        BY <3>3
      <4> QED
        BY <1>0, <1>2, <2>2, <4>1
    <3> QED
      BY <3>1, <3>2, <3>3
  <2> HIDE DEF T
  <2>3. \A i \in 0 .. n : i \in T
    BY <2>1, <2>2, Inductive
  <2> QED
    BY <2>3 DEF T
<1> QED
  BY <1>1, <1>2

\* The places of the patterns that match, and what the last of them says.
Matching(ps, rel, isDir) == {i \in DOMAIN ps : Matches(ps[i], rel, isDir)}
Verdicted(ps, rel, isDir) == ~ps[Max(Matching(ps, rel, isDir))].negate

LEMMA PatternsNegate == \A p \in Patterns : p.negate \in BOOLEAN
BY DEF Patterns, Lines, CompilePattern

LEMMA AppliedInSteps ==
  ASSUME NEW ps \in Seq(Patterns), NEW rel, NEW isDir, NEW b \in BOOLEAN
  PROVE  \E f \in [0 .. Len(ps) -> BOOLEAN] :
           /\ f[0] = b
           /\ \A i \in 1 .. Len(ps) :
                f[i] = IF Matches(ps[i], rel, isDir) THEN ~ps[i].negate ELSE f[i - 1]
           /\ f[Len(ps)] = ApplyPatterns(ps, rel, isDir, b)
<1> DEFINE V == BOOLEAN
           Op(v, p) == IF Matches(p, rel, isDir) THEN ~p.negate ELSE v
           Iter(h) == [s \in SUBSET DOMAIN ps |->
                         IF s = {} THEN b
                         ELSE Op(h[s \ {Max(s)}], ps[Max(s)])]
           h == CHOOSE h : h = Iter(h)
           G == [x \in V \X Patterns |-> Op(x[1], x[2])]
<1>1. ApplyPatterns(ps, rel, isDir, b) = h[DOMAIN ps]
  BY DEF ApplyPatterns, FoldLeft, MapThenFoldSet
<1>2. /\ DOMAIN ps = 1 .. Len(ps) /\ Len(ps) \in Nat
      /\ \A s \in SUBSET DOMAIN ps : s # {} => Max(s) \in DOMAIN ps /\ ps[Max(s)] \in Patterns
      /\ \A i \in 1 .. Len(ps) : ps[i] \in Patterns
  <2>1. DOMAIN ps = 1 .. Len(ps) /\ Len(ps) \in Nat
    BY LenProperties
  <2>2. ASSUME NEW s \in SUBSET DOMAIN ps, s # {}
        PROVE  Max(s) \in DOMAIN ps /\ ps[Max(s)] \in Patterns
    <3>1. Max(s) \in 1 .. Len(ps)
      BY <2>1, <2>2, MaxIn
    <3> QED
      BY <2>1, <3>1, ElementOfSeq
  <2> QED
    BY <2>1, <2>2, ElementOfSeq
<1>3. G \in [V \X Patterns -> V] /\ \A v \in V, p \in Patterns : G[<<v, p>>] = Op(v, p)
  <2>1. ASSUME NEW v \in V, NEW p \in Patterns PROVE Op(v, p) \in V
    BY PatternsNegate
  <2> HIDE DEF Op, V
  <2> QED
    BY <2>1
<1>0. b \in V
  OBVIOUS
<1> HIDE DEF V, Op
<1> HIDE DEF G
<1>4. h = Iter(h)
  <2>1. PICK g \in [SUBSET (1 .. Len(ps)) -> V] : IsFold(g, G, b, ps)
    BY <1>0, <1>3, FoldExists
  <2>2. ASSUME NEW s \in SUBSET DOMAIN ps, s # {}
        PROVE  g[s] = Op(g[s \ {Max(s)}], ps[Max(s)])
    <3>1. g[s] = G[<<g[s \ {Max(s)}], ps[Max(s)]>>]
      BY <1>2, <2>1, <2>2 DEF IsFold
    <3>2. g[s \ {Max(s)}] \in V /\ ps[Max(s)] \in Patterns
      BY <1>2, <2>1, <2>2
    <3> QED
      BY <1>3, <3>1, <3>2
  <2>3. g[{}] = b
    BY <2>1 DEF IsFold
  <2>4. g = Iter(g)
    BY <1>2, <2>1, <2>2, <2>3
  <2> QED
    BY <2>4
<1>5. h[{}] = b
  BY <1>4
<1>6. ASSUME NEW s \in SUBSET DOMAIN ps, s # {}, h[s \ {Max(s)}] \in V
      PROVE  h[s] = G[<<h[s \ {Max(s)}], ps[Max(s)]>>]
  <2>1. h[s] = Op(h[s \ {Max(s)}], ps[Max(s)])
    BY <1>4, <1>6
  <2> QED
    BY <1>2, <1>3, <1>6, <2>1
<1> HIDE DEF h
<1>7. Folds(h, V, Patterns, G, b, ps)
  BY <1>0, <1>2, <1>3, <1>5, <1>6 DEF Folds
<1>8. PICK f \in [0 .. Len(ps) -> V] :
        /\ f[0] = b
        /\ \A i \in 1 .. Len(ps) : f[i] = G[<<f[i - 1], ps[i]>>]
        /\ f[Len(ps)] = h[DOMAIN ps]
  BY <1>7, FoldRuns
<1>9. ASSUME NEW i \in 1 .. Len(ps)
      PROVE  f[i] = Op(f[i - 1], ps[i])
  <2>1. i - 1 \in 0 .. Len(ps) /\ ps[i] \in Patterns
    BY <1>2
  <2> QED
    BY <1>3, <1>8, <2>1
<1>10. f \in [0 .. Len(ps) -> BOOLEAN]
  BY <1>8 DEF V
<1> QED
  BY <1>1, <1>8, <1>9, <1>10 DEF Op

LEMMA AppliedIs ==
  ASSUME NEW ps \in Seq(Patterns), NEW rel, NEW isDir, NEW b \in BOOLEAN
  PROVE  /\ ApplyPatterns(ps, rel, isDir, b) \in BOOLEAN
         /\ Matching(ps, rel, isDir) = {} => ApplyPatterns(ps, rel, isDir, b) = b
         /\ Matching(ps, rel, isDir) # {} =>
              ApplyPatterns(ps, rel, isDir, b) = Verdicted(ps, rel, isDir)
<1> DEFINE n == Len(ps)
           H == Matching(ps, rel, isDir)
           val == [i \in 1 .. Len(ps) |-> ~ps[i].negate]
<1>1. PICK f \in [0 .. n -> BOOLEAN] :
        /\ f[0] = b
        /\ \A i \in 1 .. n :
             f[i] = IF Matches(ps[i], rel, isDir) THEN ~ps[i].negate ELSE f[i - 1]
        /\ f[n] = ApplyPatterns(ps, rel, isDir, b)
  BY AppliedInSteps
<1>2. n \in Nat /\ DOMAIN ps = 1 .. n
  BY LenProperties
<1>3. \A i \in 1 .. n : i \in H <=> Matches(ps[i], rel, isDir)
  BY <1>2 DEF Matching
<1>4. \A i \in 1 .. n : f[i] = IF i \in H THEN val[i] ELSE f[i - 1]
  BY <1>1, <1>3
<1>5. /\ (\A i \in 1 .. n : i \notin H) => f[n] = f[0]
      /\ \A i \in 1 .. n : i \in H /\ (\A j \in i + 1 .. n : j \notin H) => f[n] = val[i]
  <2> HIDE DEF n, H, val
  <2>1. Overrides(f, n, H, val)
    BY <1>4 DEF Overrides
  <2> QED
    BY <1>2, <2>1, LastDecides
<1>6. H \in SUBSET (1 .. n)
  BY <1>2 DEF Matching
<1> HIDE DEF H
<1>7. H # {} => f[n] = ~ps[Max(H)].negate
  <2> SUFFICES ASSUME H # {} PROVE f[n] = ~ps[Max(H)].negate
    OBVIOUS
  <2>1. PICK m : m = Max(H)
    OBVIOUS
  <2>2. m \in H /\ \A j \in H : m >= j
    BY <1>2, <1>6, <2>1, MaxIn
  <2>3. m \in 1 .. n /\ \A j \in m + 1 .. n : j \notin H
    BY <1>2, <1>6, <2>2
  <2>4. f[n] = val[m]
    BY <1>5, <2>2, <2>3
  <2> QED
    BY <2>1, <2>3, <2>4
<1>8. H = {} => f[n] = b
  BY <1>1, <1>5
<1>9. f[n] \in BOOLEAN
  BY <1>1, <1>2
<1> QED
  BY <1>1, <1>7, <1>8, <1>9 DEF Verdicted, H

-----------------------------------------------------------------------------
(***************************************************************************)
(* One path, without its ancestors.                                        *)
(***************************************************************************)
\* What New makes: the .gitignore of a directory is applied after those above.
Ordered(m, D) ==
  /\ D \subseteq Raw /\ DOMAIN m.gitignoreBy = D
  /\ m.ownIgnore \in Seq(Patterns) /\ \A d \in D : m.gitignoreBy[d] \in Seq(Patterns)
  /\ m.gitignoreDirs \in Seq(D)
  /\ \A d \in D : \E i \in DOMAIN m.gitignoreDirs : m.gitignoreDirs[i] = d
  /\ \A i, j \in DOMAIN m.gitignoreDirs :
       i < j => ~IsStrictPrefix(m.gitignoreDirs[j], m.gitignoreDirs[i])
  /\ \A pat \in PatternsOf(m) : ~EndsInStars(pat)

Below(d, rel) == SubSeq(rel, Len(d) + 1, Len(rel))

\* Whether the .gitignore of d has a say on rel, and what it is.
HasASay(m, d, rel, isDir) ==
  IsStrictPrefix(d, rel) /\ Matching(m.gitignoreBy[d], Below(d, rel), isDir) # {}
Saying(m, d, rel, isDir) == Verdicted(m.gitignoreBy[d], Below(d, rel), isDir)

FilesRun(f, m, ds, rel, isDir) ==
  /\ f \in [0 .. Len(ds) -> BOOLEAN] /\ f[0] = FALSE
  /\ \A i \in 1 .. Len(ds) :
       f[i] = IF HasASay(m, ds[i], rel, isDir) THEN Saying(m, ds[i], rel, isDir)
              ELSE f[i - 1]
  /\ IgnoredSelf(m, rel, isDir) = ApplyPatterns(m.ownIgnore, rel, isDir, f[Len(ds)])

LEMMA FilesInSteps ==
  ASSUME NEW m, NEW D, Ordered(m, D), NEW rel, NEW isDir
  PROVE  \E f : FilesRun(f, m, m.gitignoreDirs, rel, isDir)
<1>0. PICK ds : ds = m.gitignoreDirs
  OBVIOUS
<1>a. PICK b : b = FALSE
  OBVIOUS
<1> DEFINE V == BOOLEAN
           Op(v, d) == IF IsStrictPrefix(d, rel)
                       THEN ApplyPatterns(m.gitignoreBy[d], SubSeq(rel, Len(d) + 1, Len(rel)),
                                          isDir, v)
                       ELSE v
           Iter(h) == [s \in SUBSET DOMAIN ds |->
                         IF s = {} THEN b
                         ELSE Op(h[s \ {Max(s)}], ds[Max(s)])]
           h == CHOOSE h : h = Iter(h)
           G == [x \in V \X D |-> Op(x[1], x[2])]
<1>1. IgnoredSelf(m, rel, isDir) = ApplyPatterns(m.ownIgnore, rel, isDir, h[DOMAIN ds])
  BY <1>0, <1>a DEF IgnoredSelf, FoldLeft, MapThenFoldSet
<1>2. /\ ds \in Seq(D) /\ DOMAIN ds = 1 .. Len(ds) /\ Len(ds) \in Nat
      /\ \A s \in SUBSET DOMAIN ds : s # {} => Max(s) \in DOMAIN ds /\ ds[Max(s)] \in D
      /\ \A i \in 1 .. Len(ds) : ds[i] \in D
  <2>1. ds \in Seq(D) /\ DOMAIN ds = 1 .. Len(ds) /\ Len(ds) \in Nat
    BY <1>0, LenProperties DEF Ordered
  <2>2. ASSUME NEW s \in SUBSET DOMAIN ds, s # {}
        PROVE  Max(s) \in DOMAIN ds /\ ds[Max(s)] \in D
    <3>1. Max(s) \in 1 .. Len(ds)
      BY <2>1, <2>2, MaxIn
    <3> QED
      BY <2>1, <3>1, ElementOfSeq
  <2> QED
    BY <2>1, <2>2, ElementOfSeq
<1>3. ASSUME NEW v \in V, NEW d \in D
      PROVE  /\ Op(v, d) \in V
             /\ Op(v, d) = IF HasASay(m, d, rel, isDir) THEN Saying(m, d, rel, isDir) ELSE v
  <2>1. m.gitignoreBy[d] \in Seq(Patterns)
    BY DEF Ordered
  <2>2. CASE IsStrictPrefix(d, rel)
    <3>1. Op(v, d) = ApplyPatterns(m.gitignoreBy[d], Below(d, rel), isDir, v)
      BY <2>2 DEF Below
    <3>2. HasASay(m, d, rel, isDir) <=> Matching(m.gitignoreBy[d], Below(d, rel), isDir) # {}
      BY <2>2 DEF HasASay
    <3>3. v \in BOOLEAN
      OBVIOUS
    <3> HIDE DEF Op
    <3> QED
      BY <2>1, <3>1, <3>2, <3>3, AppliedIs DEF Saying
  <2>3. CASE ~IsStrictPrefix(d, rel)
    BY <2>3 DEF HasASay
  <2> QED
    BY <2>2, <2>3
<1>4. b \in V
  BY <1>a
<1> HIDE DEF V, Op
<1>5. G \in [V \X D -> V] /\ \A v \in V, d \in D : G[<<v, d>>] = Op(v, d)
  BY <1>3
<1> HIDE DEF G
<1>6. h = Iter(h)
  <2>1. PICK g \in [SUBSET (1 .. Len(ds)) -> V] : IsFold(g, G, b, ds)
    BY <1>2, <1>4, <1>5, FoldExists
  <2>2. ASSUME NEW s \in SUBSET DOMAIN ds, s # {}
        PROVE  g[s] = Op(g[s \ {Max(s)}], ds[Max(s)])
    <3>1. g[s] = G[<<g[s \ {Max(s)}], ds[Max(s)]>>]
      BY <1>2, <2>1, <2>2 DEF IsFold
    <3>2. g[s \ {Max(s)}] \in V /\ ds[Max(s)] \in D
      BY <1>2, <2>1, <2>2
    <3> QED
      BY <1>5, <3>1, <3>2
  <2>3. g[{}] = b
    BY <2>1 DEF IsFold
  <2>4. g = Iter(g)
    BY <1>2, <2>1, <2>2, <2>3
  <2> QED
    BY <2>4
<1>7. h[{}] = b
  BY <1>6
<1>8. ASSUME NEW s \in SUBSET DOMAIN ds, s # {}, h[s \ {Max(s)}] \in V
      PROVE  h[s] = G[<<h[s \ {Max(s)}], ds[Max(s)]>>]
  <2>1. h[s] = Op(h[s \ {Max(s)}], ds[Max(s)])
    BY <1>6, <1>8
  <2> QED
    BY <1>2, <1>5, <1>8, <2>1
<1> HIDE DEF h
<1>9. Folds(h, V, D, G, b, ds)
  BY <1>2, <1>4, <1>5, <1>7, <1>8 DEF Folds
<1>10. PICK f \in [0 .. Len(ds) -> V] :
         /\ f[0] = b
         /\ \A i \in 1 .. Len(ds) : f[i] = G[<<f[i - 1], ds[i]>>]
         /\ f[Len(ds)] = h[DOMAIN ds]
  BY <1>9, FoldRuns
<1>11. ASSUME NEW i \in 1 .. Len(ds)
       PROVE  f[i] = IF HasASay(m, ds[i], rel, isDir) THEN Saying(m, ds[i], rel, isDir)
                     ELSE f[i - 1]
  <2>1. f[i - 1] \in V /\ ds[i] \in D
    BY <1>2, <1>10
  <2>2. f[i] = Op(f[i - 1], ds[i])
    BY <1>5, <1>10, <2>1
  <2> QED
    BY <1>3, <2>1, <2>2
<1>12. f \in [0 .. Len(ds) -> BOOLEAN]
  BY <1>10 DEF V
<1>13. IgnoredSelf(m, rel, isDir) = ApplyPatterns(m.ownIgnore, rel, isDir, f[Len(ds)])
  BY <1>1, <1>10
<1>14. FilesRun(f, m, ds, rel, isDir)
  BY <1>a, <1>10, <1>11, <1>12, <1>13 DEF FilesRun
<1> QED
  BY <1>0, <1>14

\* Of two directories above a path, the shallower is above the deeper.
LEMMA AboveEachOther ==
  ASSUME NEW rel \in Raw, NEW d \in Raw, NEW e \in Raw,
         IsStrictPrefix(d, rel), IsStrictPrefix(e, rel)
  PROVE  /\ Len(d) = Len(e) => d = e
         /\ Len(e) < Len(d) => IsStrictPrefix(e, d)
<1>1. Plan!Under(rel, d) /\ Plan!Under(rel, e)
  BY UnderIsPrefix
<1>2. \A i \in 1 .. Len(d) : rel[i] = d[i]
  BY <1>1 DEF Plan!Under
<1>3. \A i \in 1 .. Len(e) : rel[i] = e[i]
  BY <1>1 DEF Plan!Under
<1>4. Len(d) \in Nat /\ Len(e) \in Nat
  BY LenProperties DEF Raw
<1>5. ASSUME Len(d) = Len(e) PROVE d = e
  <2>1. \A i \in 1 .. Len(d) : d[i] = e[i]
    BY <1>2, <1>3, <1>5
  <2> QED
    BY <1>5, <2>1, SeqEqual DEF Raw
<1>6. ASSUME Len(e) < Len(d) PROVE IsStrictPrefix(e, d)
  <2>1. \A i \in 1 .. Len(e) : d[i] = e[i]
    BY <1>2, <1>3, <1>4, <1>6
  <2>2. Plan!Under(d, e)
    BY <1>6, <2>1 DEF Plan!Under
  <2> QED
    BY <2>2, UnderIsPrefix
<1> QED
  BY <1>5, <1>6

\* The .gitignore files together: the deepest that has a say decides.
Undecided(b, m, D, rel, isDir) ==
  /\ b \in BOOLEAN
  /\ (\A d \in D : ~HasASay(m, d, rel, isDir)) => b = FALSE
  /\ \A d \in D :
       /\ HasASay(m, d, rel, isDir)
       /\ \A e \in D : HasASay(m, e, rel, isDir) => Len(e) <= Len(d)
       => b = Saying(m, d, rel, isDir)

LEMMA FilesDecide ==
  ASSUME NEW m, NEW D, Ordered(m, D), NEW rel \in Raw, NEW isDir
  PROVE  \E b : /\ Undecided(b, m, D, rel, isDir)
                /\ IgnoredSelf(m, rel, isDir) = ApplyPatterns(m.ownIgnore, rel, isDir, b)
<1>0. PICK ds : ds = m.gitignoreDirs
  OBVIOUS
<1>1. PICK n : n = Len(ds)
  OBVIOUS
<1>2. /\ ds \in Seq(D) /\ n \in Nat /\ DOMAIN ds = 1 .. n
      /\ \A i \in 1 .. n : ds[i] \in D
  BY <1>0, <1>1, LenProperties, ElementOfSeq DEF Ordered
<1> DEFINE H == {i \in 1 .. n : HasASay(m, ds[i], rel, isDir)}
           val == [i \in 1 .. n |-> Saying(m, ds[i], rel, isDir)]
<1>a. PICK f : FilesRun(f, m, ds, rel, isDir)
  BY <1>0, FilesInSteps
<1>3. /\ f \in [0 .. n -> BOOLEAN] /\ f[0] = FALSE
      /\ \A i \in 1 .. n :
           f[i] = IF HasASay(m, ds[i], rel, isDir)
                  THEN Saying(m, ds[i], rel, isDir) ELSE f[i - 1]
      /\ IgnoredSelf(m, rel, isDir) = ApplyPatterns(m.ownIgnore, rel, isDir, f[n])
  BY <1>1, <1>a DEF FilesRun
<1>4. Overrides(f, n, H, val)
  <2>1. \A i \in 1 .. n : f[i] = IF i \in H THEN val[i] ELSE f[i - 1]
    BY <1>3
  <2> HIDE DEF H, val
  <2> QED
    BY <2>1 DEF Overrides
<1>5. H \in SUBSET (1 .. n) /\ \A i \in 1 .. n : val[i] = Saying(m, ds[i], rel, isDir)
  OBVIOUS
<1>6. \A i \in 1 .. n : i \in H <=> HasASay(m, ds[i], rel, isDir)
  OBVIOUS
<1> HIDE DEF H, val
<1>7. /\ (\A i \in 1 .. n : i \notin H) => f[n] = f[0]
      /\ \A i \in 1 .. n : i \in H /\ (\A j \in i + 1 .. n : j \notin H) => f[n] = val[i]
  BY <1>2, <1>4, LastDecides
<1>8. ASSUME \A d \in D : ~HasASay(m, d, rel, isDir) PROVE f[n] = FALSE
  <2>1. \A i \in 1 .. n : i \notin H
    BY <1>2, <1>6, <1>8
  <2> QED
    BY <1>3, <1>7, <2>1
<1>9. ASSUME NEW d \in D, HasASay(m, d, rel, isDir),
             \A e \in D : HasASay(m, e, rel, isDir) => Len(e) <= Len(d)
      PROVE  f[n] = Saying(m, d, rel, isDir)
  <2>1. PICK i \in 1 .. n : ds[i] = d
    BY <1>0, <1>2 DEF Ordered
  <2>2. i \in H
    BY <1>6, <1>9, <2>1
  <2>3. PICK k : k = Max(H)
    OBVIOUS
  <2>4. k \in H /\ \A j \in H : k >= j
    BY <1>2, <1>5, <2>2, <2>3, MaxIn
  <2>5. k \in 1 .. n /\ (\A j \in k + 1 .. n : j \notin H) /\ k >= i
    BY <1>2, <1>5, <2>2, <2>4
  <2>6. ds[k] \in D /\ HasASay(m, ds[k], rel, isDir) /\ Len(ds[k]) <= Len(d)
    BY <1>2, <1>6, <1>9, <2>4, <2>5
  <2>7. /\ d \in Raw /\ ds[k] \in Raw
        /\ IsStrictPrefix(d, rel) /\ IsStrictPrefix(ds[k], rel)
    BY <1>9, <2>6 DEF HasASay, Ordered
  <2>8. ds[k] = d
    <3>1. Len(d) \in Nat /\ Len(ds[k]) \in Nat
      BY <2>7, LenProperties DEF Raw
    <3> SUFFICES ASSUME Len(ds[k]) < Len(d) PROVE FALSE
      BY <2>6, <2>7, <3>1, AboveEachOther
    <3>2. IsStrictPrefix(ds[k], ds[i])
      BY <2>1, <2>7, AboveEachOther
    <3>3. k # i
      BY <2>1, <3>1
    <3>4. i < k
      BY <2>5, <3>3
    <3> QED
      BY <1>0, <1>2, <2>5, <3>2, <3>4 DEF Ordered
  <2>9. f[n] = val[k]
    BY <1>7, <2>4, <2>5
  <2> QED
    BY <1>5, <2>5, <2>8, <2>9
<1>10. f[n] \in BOOLEAN
  BY <1>2, <1>3
<1>11. PICK b : b = f[n]
  OBVIOUS
<1>12. Undecided(b, m, D, rel, isDir)
  BY <1>8, <1>9, <1>10, <1>11 DEF Undecided
<1> QED
  BY <1>3, <1>11, <1>12

\* Such patterns match what git has them match.
LEMMA RestOf ==
  ASSUME NEW p \in Raw, NEW i \in 1 .. Len(p) + 1
  PROVE  /\ SubSeq(p, i, Len(p)) \in Raw /\ Len(SubSeq(p, i, Len(p))) = Len(p) - i + 1
         /\ i <= Len(p) => SubSeq(p, i, Len(p))[1] = p[i]
<1>1. PICK n \in Nat : n = Len(p)
  BY LenProperties DEF Raw
<1>2. \A j \in i .. n : p[j] \in Segment
  <2>1. \A j \in i .. n : j \in 1 .. Len(p)
    BY <1>1
  <2> QED
    BY <2>1, ElementOfSeq DEF Raw
<1>3. /\ SubSeq(p, i, n) \in Seq(Segment)
      /\ Len(SubSeq(p, i, n)) = IF i <= n THEN n - i + 1 ELSE 0
      /\ \A j \in 1 .. n - i + 1 : SubSeq(p, i, n)[j] = p[i + j - 1]
  BY <1>1, <1>2, SubSeqProperties
<1>4. PICK q : q = SubSeq(p, i, n)
  OBVIOUS
<1>5. q \in Seq(Segment) /\ Len(q) = n - i + 1 /\ (i <= n => q[1] = p[i])
  BY <1>1, <1>3, <1>4
<1> QED
  BY <1>1, <1>4, <1>5 DEF Raw

LEMMA AnywhereAsGit ==
  ASSUME NEW segs \in Raw, Len(segs) = 1, segs[1] # "**", NEW rel \in Raw
  PROVE  (\E i \in 1 .. Len(rel) : MatchSegs(segs, SubSeq(rel, i, Len(rel)))) <=>
         Fits(<<"**">> \o segs, rel)
<1>1. PICK n \in Nat : n = Len(rel)
  BY LenProperties DEF Raw
<1>2. ASSUME NEW i \in 1 .. n
      PROVE  MatchSegs(segs, SubSeq(rel, i, n)) <=> i = n /\ <<segs[1], rel[n]>> \in Globs
  <2>0. i \in 1 .. Len(rel) + 1 /\ i <= Len(rel) /\ n - i + 1 \in Nat
    BY <1>1
  <2>1. PICK q \in Raw : q = SubSeq(rel, i, n) /\ Len(q) = n - i + 1 /\ q[1] = rel[i]
    BY <1>1, <2>0, RestOf
  <2>2. MatchSegs(segs, q) <=> LooselyFits(segs, q)
    BY <2>1, MatchMeansFits
  <2>3. LooselyFits(segs, q) <=> Len(q) = 1 /\ <<segs[1], q[1]>> \in Globs
    <3>1. Len(q) \in Nat
      BY <2>0, <2>1
    <3> QED
      BY <3>1, OneNameFits
  <2> QED
    BY <2>1, <2>2, <2>3
<1>3. PICK pat : pat = <<"**">> \o segs
  OBVIOUS
<1>4. Len(pat) = 2 /\ pat[1] = "**" /\ pat[2] = segs[1]
  <2>1. PICK star \in Raw : star = <<"**">> /\ Len(star) = 1 /\ star[1] = "**"
    <3>1. <<"**">> \in Raw
      <4>1. "**" \in Segment
        BY DEF Segment
      <4> QED
        BY <4>1 DEF Raw
    <3>2. Len(<<"**">>) = 1 /\ <<"**">>[1] = "**"
      OBVIOUS
    <3> QED
      BY <3>1, <3>2
  <2>2. /\ Len(star \o segs) = Len(star) + Len(segs)
        /\ \A i \in 1 .. Len(star) + Len(segs) :
             (star \o segs)[i] = IF i <= Len(star) THEN star[i] ELSE segs[i - Len(star)]
    BY ConcatProperties DEF Raw
  <2> QED
    BY <1>3, <2>1, <2>2
<1>5. Fits(pat, rel) <=> LooselyFits(pat, rel)
  BY <1>4, FitsIsLoose
<1>6. LooselyFits(pat, rel) <=> n >= 1 /\ <<segs[1], rel[n]>> \in Globs
  BY <1>1, <1>4, AnywhereFits
<1>7. (\E i \in 1 .. n : MatchSegs(segs, SubSeq(rel, i, n))) <=>
      n >= 1 /\ <<segs[1], rel[n]>> \in Globs
  BY <1>2
<1> QED
  BY <1>1, <1>3, <1>5, <1>6, <1>7

LEMMA MatchesAsGit ==
  ASSUME NEW p \in Patterns, ~EndsInStars(p), NEW rel \in Raw, NEW isDir
  PROVE  Matches(p, rel, isDir) <=> GitMatches(p, rel, isDir)
<1>1. PICK segs \in Raw : segs = p.segs
  BY PatternsHavePaths
<1>2. Len(segs) \in Nat /\ Len(rel) \in Nat
  BY LenProperties DEF Raw
<1>3. Len(segs) # 0 => segs[Len(segs)] # "**"
  <2>1. segs # <<>> => segs[Len(segs)] # "**"
    BY <1>1 DEF EndsInStars, Last
  <2>2. Len(<<>>) = 0
    OBVIOUS
  <2> QED
    BY <2>1, <2>2
<1>4. CASE p.anchored
  <2>1. MatchSegs(segs, rel) <=> Fits(segs, rel)
    BY <1>2, <1>3, MatchMeansFits, FitsIsLoose
  <2> QED
    BY <1>1, <1>4, <2>1 DEF Matches, GitMatches
<1>5. CASE ~p.anchored
  <2>1. Len(segs) = 1 /\ segs[1] # "**"
    BY <1>1, <1>3, <1>5, PatternsHavePaths
  <2>2. (\E i \in 1 .. Len(rel) : MatchSegs(segs, SubSeq(rel, i, Len(rel)))) <=>
        Fits(<<"**">> \o segs, rel)
    BY <2>1, AnywhereAsGit
  <2> QED
    BY <1>1, <1>5, <2>2 DEF Matches, GitMatches
<1> QED
  BY <1>4, <1>5

LEMMA MatchingAsGit ==
  ASSUME NEW ps \in Seq(Patterns), \A p \in ToSet(ps) : ~EndsInStars(p),
         NEW rel \in Raw, NEW isDir
  PROVE  Matching(ps, rel, isDir) = {i \in DOMAIN ps : GitMatches(ps[i], rel, isDir)}
<1>1. ASSUME NEW i \in DOMAIN ps PROVE ps[i] \in Patterns /\ ~EndsInStars(ps[i])
  <2>1. i \in 1 .. Len(ps)
    BY LenProperties
  <2> QED
    BY <2>1, ElementOfSeq DEF ToSet
<1> QED
  BY <1>1, MatchesAsGit DEF Matching

LEMMA HitsAre ==
  ASSUME NEW m, NEW D, Ordered(m, D), NEW rel \in Raw, NEW isDir, NEW h
  PROVE  h \in Hits(m, rel, isDir) <=>
           \/ \E i \in Matching(m.ownIgnore, rel, isDir) :
                h = <<Len(rel), i, ~m.ownIgnore[i].negate>>
           \/ \E d \in D : /\ IsStrictPrefix(d, rel)
                           /\ \E i \in Matching(m.gitignoreBy[d], Below(d, rel), isDir) :
                                h = <<Len(d), i, ~m.gitignoreBy[d][i].negate>>
<1> DEFINE ofGit(ps, sub) == {i \in DOMAIN ps : GitMatches(ps[i], sub, isDir)}
           own == {<<Len(rel), i, ~m.ownIgnore[i].negate>> : i \in ofGit(m.ownIgnore, rel)}
           file(d) == {<<Len(d), i, ~m.gitignoreBy[d][i].negate>> :
                         i \in ofGit(m.gitignoreBy[d], Below(d, rel))}
           above == {d \in D : IsStrictPrefix(d, rel)}
<1>1. Hits(m, rel, isDir) = own \cup UNION {file(d) : d \in above}
  BY DEF Hits, Below, Ordered
<1>2. h \in own <=> \E i \in ofGit(m.ownIgnore, rel) :
                      h = <<Len(rel), i, ~m.ownIgnore[i].negate>>
  OBVIOUS
<1>3. \A d \in D :
        h \in file(d) <=> \E i \in ofGit(m.gitignoreBy[d], Below(d, rel)) :
                            h = <<Len(d), i, ~m.gitignoreBy[d][i].negate>>
  OBVIOUS
<1> HIDE DEF own, file
<1>4. ofGit(m.ownIgnore, rel) = Matching(m.ownIgnore, rel, isDir)
  <2>1. m.ownIgnore \in Seq(Patterns) /\ \A p \in ToSet(m.ownIgnore) : ~EndsInStars(p)
    BY DEF Ordered, PatternsOf
  <2> QED
    BY <2>1, MatchingAsGit
<1>5. ASSUME NEW d \in D, IsStrictPrefix(d, rel)
      PROVE  ofGit(m.gitignoreBy[d], Below(d, rel)) = Matching(m.gitignoreBy[d], Below(d, rel), isDir)
  <2>1. m.gitignoreBy[d] \in Seq(Patterns) /\ \A p \in ToSet(m.gitignoreBy[d]) : ~EndsInStars(p)
    BY DEF Ordered, PatternsOf
  <2>2. Below(d, rel) \in Raw
    <3>1. d \in Raw /\ Len(rel) \in Nat
      BY LenProperties DEF Ordered, Raw
    <3>2. Len(d) \in 0 .. Len(rel) - 1
      BY <1>5, <3>1, UnderIsPrefix
    <3>3. Len(d) + 1 \in 1 .. Len(rel) + 1
      BY <3>1, <3>2
    <3> QED
      BY <3>3, RestOf DEF Below
  <2> QED
    BY <2>1, <2>2, MatchingAsGit
<1> HIDE DEF ofGit
<1> QED
  BY <1>1, <1>2, <1>3, <1>4, <1>5

LEMMA MatchingIn ==
  ASSUME NEW ps \in Seq(Patterns), NEW rel, NEW isDir
  PROVE  /\ Matching(ps, rel, isDir) \subseteq Nat
         /\ Matching(ps, rel, isDir) # {} =>
              /\ Max(Matching(ps, rel, isDir)) \in Matching(ps, rel, isDir)
              /\ \A i \in Matching(ps, rel, isDir) : i <= Max(Matching(ps, rel, isDir))
<1>1. PICK H : H = Matching(ps, rel, isDir)
  OBVIOUS
<1>2. H \in SUBSET (1 .. Len(ps)) /\ Len(ps) \in Nat
  BY <1>1, LenProperties DEF Matching
<1>3. H # {} => Max(H) \in H /\ \A y \in H : Max(H) >= y
  BY <1>2, MaxIn
<1>4. H \subseteq Nat
  BY <1>2
<1>5. H # {} => \A y \in H : y <= Max(H)
  BY <1>3, <1>4
<1> QED
  BY <1>1, <1>3, <1>4, <1>5

\* The project's own list comes above all files.
LEMMA OwnDecides ==
  ASSUME NEW m, NEW D, Ordered(m, D), NEW rel \in Raw, NEW isDir,
         Matching(m.ownIgnore, rel, isDir) # {}
  PROVE  ExcludedSelf(m, rel, isDir) <=> Verdicted(m.ownIgnore, rel, isDir)
<1>1. PICK O : O = Matching(m.ownIgnore, rel, isDir)
  OBVIOUS
<1>2. PICK n : n = Max(O)
  OBVIOUS
<1>3. O \subseteq Nat /\ n \in O /\ \A i \in O : i <= n
  BY <1>1, <1>2, MatchingIn DEF Ordered
<1>4. Len(rel) \in Nat /\ \A d \in D : IsStrictPrefix(d, rel) => Len(d) < Len(rel) /\ Len(d) \in Nat
  BY UnderIsPrefix, LenProperties DEF Ordered, Raw
<1> DEFINE hits == Hits(m, rel, isDir)
           g == <<Len(rel), n, ~m.ownIgnore[n].negate>>
<1>5. g \in hits
  BY <1>1, <1>3, HitsAre
<1>6. ASSUME NEW h \in hits
      PROVE  \/ h[1] = Len(rel) /\ h[2] \in O /\ h[2] <= n /\ h[3] = ~m.ownIgnore[h[2]].negate
             \/ h[1] \in Nat /\ h[1] < Len(rel)
  <2>1. \/ \E i \in O : h = <<Len(rel), i, ~m.ownIgnore[i].negate>>
        \/ \E d \in D : /\ IsStrictPrefix(d, rel)
                        /\ \E i \in Matching(m.gitignoreBy[d], Below(d, rel), isDir) :
                             h = <<Len(d), i, ~m.gitignoreBy[d][i].negate>>
    BY <1>1, HitsAre
  <2> QED
    BY <1>3, <1>4, <2>1
<1>7. g[1] = Len(rel) /\ g[2] = n /\ g[3] = ~m.ownIgnore[n].negate
  OBVIOUS
<1> HIDE DEF hits, g
<1>8. Decides(g, hits)
  BY <1>3, <1>4, <1>6, <1>7 DEF Decides
<1>9. ASSUME NEW h \in hits, Decides(h, hits) PROVE h[3] = ~m.ownIgnore[n].negate
  <2>1. g[1] < h[1] \/ (g[1] = h[1] /\ g[2] <= h[2])
    BY <1>5, <1>9 DEF Decides
  <2>2. ~(h[1] \in Nat /\ h[1] < Len(rel))
    BY <1>4, <1>7, <2>1
  <2>3. h[1] = Len(rel) /\ h[2] \in O /\ h[2] <= n /\ h[3] = ~m.ownIgnore[h[2]].negate
    BY <1>6, <2>2
  <2>4. n <= h[2]
    BY <1>4, <1>7, <2>1, <2>3
  <2>5. h[2] = n
    <3>1. h[2] \in Nat /\ n \in Nat /\ h[2] <= n
      BY <1>3, <2>3
    <3> QED
      BY <2>4, <3>1
  <2> QED
    BY <2>3, <2>5
<1>10. ExcludedSelf(m, rel, isDir) <=> \E h \in hits : Decides(h, hits) /\ h[3]
  BY DEF ExcludedSelf, hits
<1>11. Verdicted(m.ownIgnore, rel, isDir) = ~m.ownIgnore[n].negate
  BY <1>1, <1>2 DEF Verdicted
<1> QED
  BY <1>5, <1>7, <1>8, <1>9, <1>10, <1>11

\* Without it, the deepest .gitignore with a say.
LEMMA DeepestDecides ==
  ASSUME NEW m, NEW D, Ordered(m, D), NEW rel \in Raw, NEW isDir,
         Matching(m.ownIgnore, rel, isDir) = {},
         NEW d \in D, HasASay(m, d, rel, isDir),
         \A e \in D : HasASay(m, e, rel, isDir) => Len(e) <= Len(d)
  PROVE  ExcludedSelf(m, rel, isDir) <=> Saying(m, d, rel, isDir)
<1>1. PICK O : O = Matching(m.gitignoreBy[d], Below(d, rel), isDir)
  OBVIOUS
<1>2. PICK n : n = Max(O)
  OBVIOUS
<1>3. O \subseteq Nat /\ n \in O /\ (\A i \in O : i <= n) /\ IsStrictPrefix(d, rel)
  BY <1>1, <1>2, MatchingIn DEF Ordered, HasASay
<1>4. \A e \in D : Len(e) \in Nat /\ e \in Raw
  BY LenProperties DEF Ordered, Raw
<1> DEFINE hits == Hits(m, rel, isDir)
           g == <<Len(d), n, ~m.gitignoreBy[d][n].negate>>
<1>5. g \in hits
  BY <1>1, <1>3, HitsAre
<1>6. ASSUME NEW h \in hits
      PROVE  \/ /\ h[1] = Len(d) /\ h[2] \in O /\ h[2] <= n
                /\ h[3] = ~m.gitignoreBy[d][h[2]].negate
             \/ h[1] \in Nat /\ h[1] < Len(d)
  <2>1. PICK e \in D : /\ IsStrictPrefix(e, rel)
                       /\ \E i \in Matching(m.gitignoreBy[e], Below(e, rel), isDir) :
                            h = <<Len(e), i, ~m.gitignoreBy[e][i].negate>>
    BY HitsAre
  <2>2. HasASay(m, e, rel, isDir)
    BY <2>1 DEF HasASay
  <2>3. Len(e) <= Len(d)
    BY <2>2
  <2>4. CASE Len(e) = Len(d)
    <3>1. e = d
      BY <1>3, <1>4, <2>1, <2>4, AboveEachOther
    <3>2. \E i \in O : h = <<Len(d), i, ~m.gitignoreBy[d][i].negate>>
      BY <1>1, <2>1, <3>1
    <3> QED
      BY <1>3, <3>2
  <2>5. CASE Len(e) < Len(d)
    <3>1. h[1] = Len(e)
      BY <2>1
    <3> QED
      BY <1>4, <2>5, <3>1
  <2> QED
    BY <1>4, <2>3, <2>4, <2>5
<1>7. g[1] = Len(d) /\ g[2] = n /\ g[3] = ~m.gitignoreBy[d][n].negate
  OBVIOUS
<1> HIDE DEF hits, g
<1>8. Decides(g, hits)
  BY <1>3, <1>4, <1>6, <1>7 DEF Decides
<1>9. ASSUME NEW h \in hits, Decides(h, hits) PROVE h[3] = ~m.gitignoreBy[d][n].negate
  <2>1. g[1] < h[1] \/ (g[1] = h[1] /\ g[2] <= h[2])
    BY <1>5, <1>9 DEF Decides
  <2>2. ~(h[1] \in Nat /\ h[1] < Len(d))
    BY <1>4, <1>7, <2>1
  <2>3. h[1] = Len(d) /\ h[2] \in O /\ h[2] <= n /\ h[3] = ~m.gitignoreBy[d][h[2]].negate
    BY <1>6, <2>2
  <2>4. n <= h[2]
    BY <1>4, <1>7, <2>1, <2>3
  <2>5. h[2] = n
    <3>1. h[2] \in Nat /\ n \in Nat /\ h[2] <= n
      BY <1>3, <2>3
    <3> QED
      BY <2>4, <3>1
  <2> QED
    BY <2>3, <2>5
<1>10. ExcludedSelf(m, rel, isDir) <=> \E h \in hits : Decides(h, hits) /\ h[3]
  BY DEF ExcludedSelf, hits
<1>11. Saying(m, d, rel, isDir) = ~m.gitignoreBy[d][n].negate
  BY <1>1, <1>2 DEF Saying, Verdicted
<1> QED
  BY <1>5, <1>7, <1>8, <1>9, <1>10, <1>11

LEMMA SelfAsGit ==
  ASSUME NEW m, NEW D, Ordered(m, D), NEW rel \in Raw, NEW isDir
  PROVE  IgnoredSelf(m, rel, isDir) <=> ExcludedSelf(m, rel, isDir)
<1>1. PICK b : /\ Undecided(b, m, D, rel, isDir)
               /\ IgnoredSelf(m, rel, isDir) = ApplyPatterns(m.ownIgnore, rel, isDir, b)
  BY FilesDecide
<1>2. m.ownIgnore \in Seq(Patterns) /\ b \in BOOLEAN
  BY <1>1 DEF Ordered, Undecided
<1>3. CASE Matching(m.ownIgnore, rel, isDir) # {}
  <2>1. IgnoredSelf(m, rel, isDir) = Verdicted(m.ownIgnore, rel, isDir)
    BY <1>1, <1>2, <1>3, AppliedIs
  <2> QED
    BY <1>3, <2>1, OwnDecides
<1>4. CASE Matching(m.ownIgnore, rel, isDir) = {}
  <2>1. IgnoredSelf(m, rel, isDir) = b
    BY <1>1, <1>2, <1>4, AppliedIs
  <2>2. CASE \A d \in D : ~HasASay(m, d, rel, isDir)
    <3>1. b = FALSE
      BY <1>1, <2>2 DEF Undecided
    <3>2. \A h : h \notin Hits(m, rel, isDir)
      <4>1. \A d \in D : IsStrictPrefix(d, rel) =>
                           Matching(m.gitignoreBy[d], Below(d, rel), isDir) = {}
        BY <2>2 DEF HasASay
      <4> QED
        BY <1>4, <4>1, HitsAre
    <3>3. ~ExcludedSelf(m, rel, isDir)
      BY <3>2 DEF ExcludedSelf
    <3> QED
      BY <2>1, <3>1, <3>3
  <2>3. CASE \E d \in D : HasASay(m, d, rel, isDir)
    <3>1. /\ Len(rel) \in Nat
          /\ \A d \in D : /\ Len(d) \in Nat
                          /\ HasASay(m, d, rel, isDir) => Len(d) + 1 \in 1 .. Len(rel)
      BY UnderIsPrefix, LenProperties DEF Ordered, Raw, HasASay
    <3> DEFINE T == {k \in 1 .. Len(rel) :
                       \E d \in D : HasASay(m, d, rel, isDir) /\ k = Len(d) + 1}
    <3>2. T \in SUBSET (1 .. Len(rel)) /\ T # {}
      BY <2>3, <3>1
    <3>3. \A d \in D : HasASay(m, d, rel, isDir) => Len(d) + 1 \in T
      BY <3>1
    <3>4. \A k \in T : \E d \in D : HasASay(m, d, rel, isDir) /\ k = Len(d) + 1
      OBVIOUS
    <3> HIDE DEF T
    <3>5. PICK k \in T : \A y \in T : k >= y
      BY <3>1, <3>2, MaxIn
    <3>6. PICK d \in D : HasASay(m, d, rel, isDir) /\ k = Len(d) + 1
      BY <3>4
    <3>7. \A e \in D : HasASay(m, e, rel, isDir) => Len(e) <= Len(d)
      BY <3>1, <3>3, <3>5, <3>6
    <3>8. b = Saying(m, d, rel, isDir)
      BY <1>1, <3>6, <3>7 DEF Undecided
    <3>9. ExcludedSelf(m, rel, isDir) <=> Saying(m, d, rel, isDir)
      BY <1>4, <3>6, <3>7, DeepestDecides
    <3> QED
      BY <2>1, <3>8, <3>9
  <2> QED
    BY <2>2, <2>3
<1> QED
  BY <1>3, <1>4

-----------------------------------------------------------------------------
(***************************************************************************)
(* The rules of the project, and its paths.                                *)
(***************************************************************************)
\* What a project has under the name of a .gitignore is no directory.
LEMMA ProjectsAreWalkable ==
  ASSUME NEW l \in Launches, NEW t \in Range(l.directories),
         NEW D, D \subseteq DOMAIN t.gitignores
  PROVE  /\ Walkable(D) /\ IsFiniteSet(D)
         /\ \A d \in D : Compiled(t.gitignores[d]) \in Seq(Patterns)
<1>1. /\ IsFiniteSet(t.dirs)
      /\ \A p \in t.dirs : ToSet(p) \cup {".gitignore"} \subseteq DOMAIN Rank
      /\ DOMAIN t.gitignores \subseteq t.dirs
      /\ \A p \in DOMAIN t.gitignores :
           /\ Found(p) \notin t.dirs
           /\ t.gitignores[p] \in Seq([negated : BOOLEAN, segs : Seq(STRING) \ {<<>>}])
  BY ProjectAssumption DEF ProjectAssumption
<1>2. \A p \in t.dirs : p \in Seq(STRING) /\ \A i \in 0 .. Len(p) - 1 : SubSeq(p, 1, i) \in t.dirs
  BY LaunchAssumption DEF LaunchAssumption
<1>3. D \subseteq t.dirs /\ IsFiniteSet(D)
  BY <1>1, FS_Subset
<1>4. D \subseteq Raw
  BY <1>2, <1>3, StringsAreRaw
<1>5. ASSUME NEW d \in D
      PROVE  ".gitignore" \in DOMAIN Rank /\ \A i \in 1 .. Len(d) : d[i] \in DOMAIN Rank
  <2>1. ToSet(d) \subseteq DOMAIN Rank /\ ".gitignore" \in DOMAIN Rank
    BY <1>1, <1>3
  <2>2. DOMAIN d = 1 .. Len(d)
    BY <1>4, LenProperties DEF Raw
  <2> QED
    BY <2>1, <2>2 DEF ToSet
<1>6. ASSUME NEW d \in D, NEW e \in D, Len(d) < Len(e), Alike(d, e, Len(d)),
             e[Len(d) + 1] = ".gitignore"
      PROVE  FALSE
  <2>1. d \in Raw /\ e \in Raw /\ Len(d) \in Nat /\ Len(e) \in Nat
    BY <1>4, LenProperties DEF Raw
  <2>2. PICK q : q = SubSeq(e, 1, Len(d) + 1)
    OBVIOUS
  <2>3. Len(d) + 1 \in 0 .. Len(e)
    BY <1>6, <2>1
  <2>4. q \in Raw /\ Len(q) = Len(d) + 1 /\ \A j \in 1 .. Len(d) + 1 : q[j] = e[j]
    BY <2>1, <2>2, <2>3, PrefixOf
  <2>5. q \in t.dirs
    <3>1. CASE Len(d) + 1 = Len(e)
      <4>1. q = e
        BY <2>1, <2>2, <3>1, SubSeqFull DEF Raw
      <4> QED
        BY <1>3, <4>1
    <3>2. CASE Len(d) + 1 # Len(e)
      <4>1. Len(d) + 1 \in 0 .. Len(e) - 1
        BY <2>1, <2>3, <3>2
      <4> QED
        BY <1>2, <1>3, <2>2, <4>1
    <3> QED
      BY <3>1, <3>2
  <2>6. q = Found(d)
    <3> DEFINE T == Segment \cup {".gitignore"}
    <3>1. d \in Seq(T) /\ q \in Seq(T)
      BY <2>1, <2>4, SeqMonotonic DEF Raw
    <3>2. Found(d) \in Seq(T) /\ Len(Found(d)) = Len(d) + 1
      BY <3>1, AppendProperties DEF Found
    <3>3. ASSUME NEW j \in 1 .. Len(d) + 1 PROVE q[j] = Found(d)[j]
      <4>1. Found(d)[j] = NameIn(d, j)
        BY <2>1, FoundNames
      <4>2. j = Len(d) + 1 \/ j \in 1 .. Len(d)
        BY <2>1
      <4> QED
        BY <1>6, <2>4, <4>1, <4>2 DEF NameIn, Alike
    <3> HIDE DEF T
    <3> QED
      BY <2>4, <3>1, <3>2, <3>3, SeqEqual
  <2> QED
    BY <1>1, <2>5, <2>6
<1>7. Walkable(D)
  BY <1>4, <1>5, <1>6 DEF Walkable
<1>8. ASSUME NEW d \in D PROVE Compiled(t.gitignores[d]) \in Seq(Patterns)
  <2>2. t.gitignores[d] \in Seq(Lines)
    BY <1>1, NamesAreLines, SeqMonotonic
  <2> QED
    BY <2>2, CompiledInSteps
<1> QED
  BY <1>3, <1>7, <1>8

LEMMA FilesAreTyped ==
  ASSUME launch \in Launches, ProjectLoaded, NEW pat \in PatternsOf(Rules)
  PROVE  pat \in Patterns
<1>1. PICK t : t = Tree
  OBVIOUS
<1>2. t \in Range(launch.directories)
  BY <1>1, RootIsSound DEF Tree, Range
<1>3. PICK D : D = IF project.UseGitignore THEN DOMAIN t.gitignores \ t.unreadable ELSE {}
  OBVIOUS
<1>4. PICK m : m = Rules
  OBVIOUS
<1>5. m.gitignoreBy = [d \in D |-> Compiled(t.gitignores[d])]
  BY <1>1, <1>3, <1>4 DEF Rules, Matcher
<1>6. \A d \in D : m.gitignoreBy[d] \in Seq(Patterns)
  <2>1. D \subseteq DOMAIN t.gitignores
    BY <1>3
  <2> QED
    BY <1>2, <1>5, <2>1, ProjectsAreWalkable
<1>7. m.ownIgnore \in Seq(Patterns)
  BY <1>4, RulesAreTyped
<1>8. \E ps \in Seq(Patterns) : pat \in ToSet(ps)
  <2>1. pat \in ToSet(m.ownIgnore) \/ \E d \in D : pat \in ToSet(m.gitignoreBy[d])
    BY <1>4, <1>5 DEF PatternsOf
  <2> QED
    BY <1>6, <1>7, <2>1
<1>9. PICK ps \in Seq(Patterns) : pat \in ToSet(ps)
  BY <1>8
<1>10. PICK i \in DOMAIN ps : pat = ps[i]
  BY <1>9 DEF ToSet
<1> QED
  BY <1>10, LenProperties, ElementOfSeq

LEMMA MatchesAreSplits ==
  ASSUME launch \in Launches, ProjectLoaded,
         NEW pat \in PatternsOf(Rules), NEW p \in Plan!Entry
  PROVE  MatchSegs(pat.segs, p) <=>
           \/ Fits(pat.segs, p)
           \/ EndsInStars(pat) /\ MatchSegs(Front(pat.segs), p)
<1>1. PICK segs \in Raw : segs = pat.segs
  BY FilesAreTyped, PatternsHavePaths
<1>2. Len(segs) \in Nat /\ p \in Raw /\ Len(p) \in Nat
  BY EntriesAre, PathsAreTrees, LenProperties DEF Raw
<1>3. MatchSegs(segs, p) <=> LooselyFits(segs, p)
  BY <1>2, MatchMeansFits
<1>4. EndsInStars(pat) <=> segs # <<>> /\ segs[Len(segs)] = "**"
  BY <1>1 DEF EndsInStars, Last
<1>5. CASE EndsInStars(pat)
  <2>1. Front(segs) \in Raw /\ Len(Front(segs)) \in Nat
    BY FrontIsRaw, LenProperties DEF Raw
  <2>2. MatchSegs(Front(segs), p) <=> LooselyFits(Front(segs), p)
    BY <1>2, <2>1, MatchMeansFits
  <2>3. LooselyFits(segs, p) <=> Fits(segs, p) \/ LooselyFits(Front(segs), p)
    BY <1>2, <1>4, <1>5, FitsOrStops
  <2> QED
    BY <1>1, <1>3, <1>5, <2>2, <2>3
<1>6. CASE ~EndsInStars(pat)
  <2>1. Len(segs) # 0 => segs[Len(segs)] # "**"
    <3>1. Len(<<>>) = 0
      OBVIOUS
    <3> QED
      BY <1>4, <1>6, <3>1
  <2>2. Fits(segs, p) <=> LooselyFits(segs, p)
    BY <1>2, <2>1, FitsIsLoose
  <2> QED
    BY <1>1, <1>3, <1>6, <2>2
<1> QED
  BY <1>5, <1>6

\* matchSegs: whatever the patterns of a project, and its files, backtracking
\* over "**" misses no way to match that git has, and finds no other but the
\* one in which a "**" at the end stands for nothing.
THEOREM MatchesAreFound == ToolsSpec => []MatchIsSplit
<1>1. ASSUME AnswerInv PROVE MatchIsSplit
  BY <1>1, MatchesAreSplits DEF AnswerInv, StartInv, MatchIsSplit, Started
<1> QED
  BY <1>1, AlwaysAnswerInv, PTL

LEMMA RulesAreOrdered ==
  ASSUME launch \in Launches, ProjectLoaded, RootFirst(DOMAIN Rules.gitignoreBy),
         \A pat \in PatternsOf(Rules) : ~EndsInStars(pat)
  PROVE  \E D : Ordered(Rules, D)
<1>1. PICK t : t = Tree
  OBVIOUS
<1>2. t \in Range(launch.directories)
  BY <1>1, RootIsSound DEF Tree, Range
<1>3. PICK D : D = IF project.UseGitignore THEN DOMAIN t.gitignores \ t.unreadable ELSE {}
  OBVIOUS
<1>4. PICK m : m = Rules
  OBVIOUS
<1>5. /\ m.gitignoreDirs = SortByDepth(D)
      /\ m.gitignoreBy = [d \in D |-> Compiled(t.gitignores[d])]
      /\ m.ownIgnore = Rules.ownIgnore
  BY <1>1, <1>3, <1>4 DEF Rules, Matcher
<1>6. D \subseteq DOMAIN t.gitignores
  BY <1>3
<1>7. /\ Walkable(D) /\ IsFiniteSet(D)
      /\ \A d \in D : Compiled(t.gitignores[d]) \in Seq(Patterns)
  BY <1>2, <1>6, ProjectsAreWalkable
<1>8. DOMAIN m.gitignoreBy = D /\ RootFirst(D)
  BY <1>4, <1>5
<1>9. m.ownIgnore \in Seq(Patterns)
  BY <1>5, RulesAreTyped
<1>10. \A d \in D : m.gitignoreBy[d] \in Seq(Patterns)
  BY <1>5, <1>7
<1>11. /\ m.gitignoreDirs \in Seq(D)
       /\ \A d \in D : \E i \in DOMAIN m.gitignoreDirs : m.gitignoreDirs[i] = d
       /\ \A i, j \in DOMAIN m.gitignoreDirs :
            i < j => ~IsStrictPrefix(m.gitignoreDirs[j], m.gitignoreDirs[i])
  BY <1>5, <1>7, <1>8, SortIs, OutermostFirst
<1>12. D \subseteq Raw
  BY <1>7 DEF Walkable
<1>13. Ordered(m, D)
  BY <1>4, <1>8, <1>9, <1>10, <1>11, <1>12 DEF Ordered
<1> QED
  BY <1>4, <1>13

\* The rules of gitignore(5), for any .gitignore files, any own list and paths
\* of any depth: ignore applies them as git does (IgnoresAsGit), unless a
\* directory of the root that has rules is walked before the root's .gitignore.
THEOREM RulesDecideAsGit ==
  ToolsSpec => [](RootFirst(DOMAIN Rules.gitignoreBy) => IgnoresAsGit)
<1>1. ASSUME AnswerInv, RootFirst(DOMAIN Rules.gitignoreBy) PROVE IgnoresAsGit
  <2>1. ASSUME Started, \A pat \in PatternsOf(Rules) : ~EndsInStars(pat),
               NEW p \in Plan!Entry, NEW isDir \in BOOLEAN
        PROVE  IgnoredByRules(Rules, p, isDir) <=> ExcludedByGit(Rules, p, isDir)
    <3>1. PICK m : m = Rules
      OBVIOUS
    <3>2. PICK D : Ordered(m, D)
      BY <1>1, <2>1, <3>1, RulesAreOrdered DEF AnswerInv, StartInv, Started
    <3>3. p \in Raw /\ Len(p) \in Nat
      BY EntriesAre, PathsAreTrees, LenProperties DEF Raw
    <3>4. IgnoredSelf(m, p, isDir) <=> ExcludedSelf(m, p, isDir)
      BY <3>2, <3>3, SelfAsGit
    <3>5. ASSUME NEW i \in 1 .. Len(p) - 1
          PROVE  IgnoredSelf(m, SubSeq(p, 1, i), TRUE) <=> ExcludedSelf(m, SubSeq(p, 1, i), TRUE)
      <4>1. i \in 0 .. Len(p)
        BY <3>3
      <4>2. SubSeq(p, 1, i) \in Raw
        BY <3>3, <4>1, PrefixOf
      <4> QED
        BY <3>2, <4>2, SelfAsGit
    <3> QED
      BY <3>1, <3>4, <3>5 DEF IgnoredByRules, ExcludedByGit
  <2> QED
    BY <2>1 DEF IgnoresAsGit
<1> QED
  BY <1>1, AlwaysAnswerInv, PTL
=============================================================================
