--------------------------- MODULE ConnectorProofs ---------------------------
(***************************************************************************)
(* No run of Connector leaks a slot, and it implements ConnectionCap.      *)
(*                                                                         *)
(* The invariant: the types, SlotsHeld, OneSemaphore, and that whoever has *)
(* a connection open is at a stage that knows of it.                       *)
(***************************************************************************)
EXTENDS Connector, Integers, FiniteSetTheorems, TLAPS

ConnectionsKnown ==
  \A v \in VM : \A c \in connected[v] : call[c].at \in Dialled /\ call[c].vm = v

Inv == TypeOK /\ OneSemaphore /\ SlotsHeld /\ ConnectionsKnown

USE ConnectorAssumption

-----------------------------------------------------------------------------
\* What a change of stage leaves alone.
LEMMA GotoEffect ==
  ASSUME TypeOK, NEW c \in Call, call[c].at # "idle",
         NEW s \in Active \cup {"ended"}, Goto(c, s)
  PROVE  /\ call' \in [Call -> CallRecord]
         /\ call'[c].at = s /\ call'[c].vm = call[c].vm /\ call'[c].sem = call[c].sem
         /\ \A d \in Call : d # c => call'[d] = call[d]
<1> DEFINE k == call[c]
<1>1. k \in [at : Active \cup {"ended"}, vm : VM, sem : Channel, cancelled : BOOLEAN]
  BY DEF TypeOK, CallRecord
<1>2. call' = [call EXCEPT ![c] = [k EXCEPT !.at = s]]
  BY DEF Goto
<1>3. call'[c] = [k EXCEPT !.at = s]
  BY <1>2 DEF TypeOK
<1>4. [k EXCEPT !.at = s] \in
        [at : Active \cup {"ended"}, vm : VM, sem : Channel, cancelled : BOOLEAN]
  BY <1>1
<1>5. call'[c].at = s /\ call'[c].vm = k.vm /\ call'[c].sem = k.sem
  BY <1>1, <1>3
<1>6. call' \in [Call -> CallRecord]
  BY <1>2, <1>4 DEF TypeOK, CallRecord
<1> QED
  BY <1>2, <1>5, <1>6 DEF TypeOK

LEMMA AtWork ==
  ASSUME TypeOK, NEW c \in Call, call[c].at # "idle"
  PROVE  call[c].vm \in VM /\ call[c].sem \in Channel
BY DEF TypeOK, CallRecord

LEMMA HoldersFinite ==
  ASSUME NEW ch PROVE IsFiniteSet(Holders(ch)) /\ Cardinality(Holders(ch)) \in Nat
<1>1. Holders(ch) \in SUBSET Call
  BY DEF Holders
<1> QED
  BY <1>1, FS_Subset, FS_CardinalityType

\* Steps in which nobody takes or gives back a slot.
LEMMA SameHolders ==
  ASSUME SlotsHeld, tokens' = tokens,
         \A d \in Call :
           /\ call'[d].at \in Holding <=> call[d].at \in Holding
           /\ call[d].at \in Holding => call'[d].sem = call[d].sem
  PROVE  SlotsHeld'
<1>1. \A ch : Holders(ch)' = Holders(ch)
  BY DEF Holders
<1> QED
  BY <1>1 DEF SlotsHeld

\* Steps that change the stage of a call at work, and neither the semaphores
\* nor, but for c itself, who is connected.
LEMMA SameSemaphores ==
  ASSUME OneSemaphore, UNCHANGED sems, NEW c \in Call, call[c].at # "idle",
         call'[c].vm = call[c].vm /\ call'[c].sem = call[c].sem,
         \A d \in Call : d # c => call'[d] = call[d]
  PROVE  OneSemaphore'
BY DEF OneSemaphore, At

-----------------------------------------------------------------------------
LEMMA InitInv == Init => Inv
<1> SUFFICES ASSUME Init PROVE Inv
  OBVIOUS
<1>1. TypeOK
  BY DEF Init, TypeOK, CallRecord
<1>2. OneSemaphore /\ ConnectionsKnown
  BY DEF Init, OneSemaphore, ConnectionsKnown, At
<1>3. \A ch \in Channel : Holders(ch) = {}
  BY DEF Init, Holders, Holding, Dialled
<1>4. SlotsHeld
  BY <1>3, FS_EmptySet DEF Init, SlotsHeld
<1> QED
  BY <1>1, <1>2, <1>4 DEF Inv

LEMMA ConnectInv ==
  ASSUME Inv, NEW c \in Call, NEW v \in VM, Connect(c, v)
  PROVE  Inv'
<1> USE DEF Inv
<1>1. PICK ch \in Semaphore(v) :
        /\ sems' = [sems EXCEPT ![v] = ch]
        /\ call' = [call EXCEPT ![c] = [at |-> "waiting", vm |-> v, sem |-> ch,
                                        cancelled |-> FALSE]]
  BY DEF Connect
<1>2. UNCHANGED <<tokens, connected>> /\ call[c].at \in {"idle", "ended"}
  BY DEF Connect
<1>3. /\ ch \in Channel
      /\ sems[v] # NoChannel => ch = sems[v]
      /\ sems[v] = NoChannel => \A w \in VM : ch # sems[w]
  BY <1>1 DEF Semaphore, TypeOK
<1>4. /\ call'[c] = [at |-> "waiting", vm |-> v, sem |-> ch, cancelled |-> FALSE]
      /\ \A d \in Call : d # c => call'[d] = call[d]
  BY <1>1 DEF TypeOK
<1>5. TypeOK'
  <2>1. [at |-> "waiting", vm |-> v, sem |-> ch, cancelled |-> FALSE] \in CallRecord
    BY <1>3 DEF CallRecord, Active
  <2> QED
    BY <1>1, <1>2, <1>3, <2>1 DEF TypeOK
<1>6. OneSemaphore'
  <2>1. \A w \in VM : sems'[w] = IF w = v THEN ch ELSE sems[w]
    BY <1>1 DEF TypeOK
  <2>2. ASSUME NEW d \in Call, ~At(d, "idle")' PROVE call'[d].sem = sems'[call'[d].vm]
    <3>1. CASE d = c
      BY <1>4, <2>1, <3>1
    <3>2. CASE d # c
      <4>1. call'[d] = call[d] /\ call[d].at # "idle"
        BY <1>4, <2>2, <3>2 DEF At
      <4>2. call[d].sem = sems[call[d].vm] /\ call[d].vm \in VM /\ call[d].sem \in Channel
        BY <4>1, AtWork DEF OneSemaphore, At
      <4> QED
        BY <1>3, <2>1, <4>1, <4>2
    <3> QED
      BY <3>1, <3>2
  <2>3. \A w, x \in VM : sems'[w] = sems'[x] => w = x \/ sems'[w] = NoChannel
    BY <1>3, <2>1 DEF OneSemaphore
  <2> QED
    BY <2>2, <2>3 DEF OneSemaphore
<1>7. SlotsHeld'
  BY <1>2, <1>4, SameHolders DEF Holding, Dialled
<1>8. ConnectionsKnown'
  BY <1>2, <1>4 DEF ConnectionsKnown, TypeOK, Dialled
<1> QED
  BY <1>5, <1>6, <1>7, <1>8

LEMMA CancelInv ==
  ASSUME Inv, NEW c \in Call, Cancel(c)
  PROVE  Inv'
<1> USE DEF Inv
<1> DEFINE k == call[c]
<1>1. UNCHANGED <<sems, tokens, connected>> /\ k.at \in Active
  BY DEF Cancel
<1>2. call' = [call EXCEPT ![c] = [k EXCEPT !.cancelled = TRUE]]
  BY DEF Cancel
<1>3. k \in [at : Active \cup {"ended"}, vm : VM, sem : Channel, cancelled : BOOLEAN]
  BY <1>1 DEF TypeOK, CallRecord, Active, Holding, Dialled
<1>4. call'[c] = [k EXCEPT !.cancelled = TRUE]
  BY <1>2 DEF TypeOK
<1>5. /\ call'[c].at = k.at /\ call'[c].vm = k.vm /\ call'[c].sem = k.sem
      /\ \A d \in Call : d # c => call'[d] = call[d]
  BY <1>2, <1>3, <1>4 DEF TypeOK
<1>6. TypeOK'
  <2>1. [k EXCEPT !.cancelled = TRUE] \in CallRecord
    BY <1>3 DEF CallRecord
  <2> QED
    BY <1>1, <1>2, <2>1 DEF TypeOK
<1>7. OneSemaphore'
  BY <1>1, <1>5, SameSemaphores DEF Active, Holding, Dialled
<1>8. SlotsHeld'
  BY <1>1, <1>5, SameHolders
<1>9. ConnectionsKnown'
  BY <1>1, <1>5 DEF ConnectionsKnown, TypeOK
<1> QED
  BY <1>6, <1>7, <1>8, <1>9

LEMMA AcquireInv ==
  ASSUME Inv, NEW c \in Call, Acquire(c)
  PROVE  Inv'
<1> USE DEF Inv
<1>0. PICK ch : ch = call[c].sem
  OBVIOUS
<1>1. /\ call[c].at = "waiting" /\ tokens[ch] < MaxConcurrentPerVM
      /\ tokens' = [tokens EXCEPT ![ch] = @ + 1]
      /\ UNCHANGED <<sems, connected>>
  BY <1>0 DEF Acquire, At, HasRoom
<1>2. ch \in Channel
  BY <1>0, <1>1, AtWork
<1>3. /\ call' \in [Call -> CallRecord]
      /\ call'[c].at = "key" /\ call'[c].vm = call[c].vm /\ call'[c].sem = ch
      /\ \A d \in Call : d # c => call'[d] = call[d]
  BY <1>0, <1>1, GotoEffect DEF Acquire, Active, Holding, Dialled
<1>4. TypeOK'
  BY <1>1, <1>2, <1>3 DEF TypeOK
<1>5. OneSemaphore'
  BY <1>0, <1>1, <1>3, SameSemaphores
<1>6. ASSUME NEW x \in Channel PROVE tokens'[x] = Cardinality(Holders(x)')
  <2>1. CASE x = ch
    <3>1. Holders(ch)' = Holders(ch) \cup {c} /\ c \notin Holders(ch)
      BY <1>0, <1>1, <1>3 DEF Holders, Holding, Dialled
    <3>2. Cardinality(Holders(ch)') = Cardinality(Holders(ch)) + 1
      BY <3>1, HoldersFinite, FS_AddElement
    <3> QED
      BY <1>1, <1>2, <2>1, <3>2 DEF SlotsHeld, TypeOK
  <2>2. CASE x # ch
    <3>1. Holders(x)' = Holders(x)
      BY <1>0, <1>1, <1>3, <2>2 DEF Holders, Holding, Dialled
    <3> QED
      BY <1>1, <2>2, <3>1 DEF SlotsHeld, TypeOK
  <2> QED
    BY <2>1, <2>2
<1>7. SlotsHeld'
  BY <1>6 DEF SlotsHeld
<1>8. ConnectionsKnown'
  BY <1>1, <1>3 DEF ConnectionsKnown, TypeOK, Dialled
<1> QED
  BY <1>4, <1>5, <1>7, <1>8

LEMMA ReleaseInv ==
  ASSUME Inv, NEW c \in Call, Release(c)
  PROVE  Inv'
<1> USE DEF Inv
<1>0. PICK ch : ch = call[c].sem
  OBVIOUS
<1>1. /\ call[c].at = "release" /\ tokens[ch] > 0
      /\ tokens' = [tokens EXCEPT ![ch] = @ - 1]
      /\ UNCHANGED <<sems, connected>>
  BY <1>0 DEF Release, At
<1>2. ch \in Channel
  BY <1>0, <1>1, AtWork
<1>3. /\ call' \in [Call -> CallRecord]
      /\ call'[c].at = "ended" /\ call'[c].vm = call[c].vm /\ call'[c].sem = ch
      /\ \A d \in Call : d # c => call'[d] = call[d]
  BY <1>0, <1>1, GotoEffect DEF Release
<1>4. TypeOK'
  BY <1>1, <1>2, <1>3 DEF TypeOK
<1>5. OneSemaphore'
  BY <1>0, <1>1, <1>3, SameSemaphores
<1>6. ASSUME NEW x \in Channel PROVE tokens'[x] = Cardinality(Holders(x)')
  <2>1. CASE x = ch
    <3>1. Holders(ch)' = Holders(ch) \ {c} /\ c \in Holders(ch)
      BY <1>0, <1>1, <1>3 DEF Holders, Holding, Dialled
    <3>2. Cardinality(Holders(ch)') = Cardinality(Holders(ch)) - 1
      BY <3>1, HoldersFinite, FS_RemoveElement
    <3> QED
      BY <1>1, <1>2, <2>1, <3>2 DEF SlotsHeld, TypeOK
  <2>2. CASE x # ch
    <3>1. Holders(x)' = Holders(x)
      BY <1>0, <1>1, <1>3, <2>2 DEF Holders, Holding, Dialled
    <3> QED
      BY <1>1, <2>2, <3>1 DEF SlotsHeld, TypeOK
  <2> QED
    BY <2>1, <2>2
<1>7. SlotsHeld'
  BY <1>6 DEF SlotsHeld
<1>8. ConnectionsKnown'
  BY <1>1, <1>3 DEF ConnectionsKnown, TypeOK, Dialled
<1> QED
  BY <1>4, <1>5, <1>7, <1>8

\* The other steps of a call keep its slot, or its lack of one; they connect
\* it, disconnect it, or leave its connection alone.
LEMMA StageInv ==
  ASSUME Inv, NEW c \in Call, call[c].at # "idle", UNCHANGED <<sems, tokens>>,
         NEW s \in Active \cup {"ended"}, Goto(c, s),
         s \in Holding <=> call[c].at \in Holding,
         \/ /\ UNCHANGED connected
            /\ call[c].at \in Dialled => s \in Dialled
         \/ /\ connected' = [connected EXCEPT ![call[c].vm] = @ \cup {c}]
            /\ s \in Dialled
         \/ connected' = [connected EXCEPT ![call[c].vm] = @ \ {c}]
  PROVE  Inv'
<1> USE DEF Inv
<1>1. /\ call' \in [Call -> CallRecord]
      /\ call'[c].at = s /\ call'[c].vm = call[c].vm /\ call'[c].sem = call[c].sem
      /\ \A d \in Call : d # c => call'[d] = call[d]
  BY GotoEffect
<1>2. call[c].vm \in VM
  BY AtWork
<1>3. TypeOK'
  BY <1>1, <1>2 DEF TypeOK
<1>4. OneSemaphore'
  BY <1>1, SameSemaphores
<1>5. SlotsHeld'
  BY <1>1, SameHolders
<1>6. ConnectionsKnown'
  BY <1>1, <1>2 DEF ConnectionsKnown, TypeOK
<1> QED
  BY <1>3, <1>4, <1>5, <1>6

LEMMA NextInv == Inv /\ [Next]_vars => Inv'
<1> SUFFICES ASSUME Inv, [Next]_vars PROVE Inv'
  OBVIOUS
<1>1. CASE UNCHANGED vars
  BY <1>1 DEF vars, Inv, TypeOK, OneSemaphore, SlotsHeld, Holders, ConnectionsKnown, At
<1>2. ASSUME NEW c \in Call, NEW v \in VM, Connect(c, v) PROVE Inv'
  BY <1>2, ConnectInv
<1>3. ASSUME NEW c \in Call, Cancel(c) \/ Acquire(c) \/ Release(c) PROVE Inv'
  BY <1>3, CancelInv, AcquireInv, ReleaseInv
<1>4. ASSUME NEW c \in Call,
             \/ GiveUp(c) \/ LoadSigner(c) \/ Dial(c) \/ Handshake(c)
             \/ StartSFTP(c) \/ Work(c) \/ CloseClient(c)
      PROVE  Inv'
  <2> USE StageInv DEF At, Active, Holding, Dialled
  <2>1. CASE GiveUp(c)
    BY <2>1 DEF GiveUp
  <2>2. CASE LoadSigner(c)
    BY <2>2 DEF LoadSigner
  <2>3. CASE Dial(c)
    BY <2>3 DEF Dial
  <2>4. CASE Handshake(c)
    BY <2>4 DEF Handshake
  <2>5. CASE StartSFTP(c)
    BY <2>5 DEF StartSFTP
  <2>6. CASE Work(c)
    BY <2>6 DEF Work
  <2>7. CASE CloseClient(c)
    BY <2>7 DEF CloseClient
  <2> QED
    BY <1>4, <2>1, <2>2, <2>3, <2>4, <2>5, <2>6, <2>7
<1> QED
  BY <1>1, <1>2, <1>3, <1>4 DEF Next, OwnStep, Answered

LEMMA Invariant == Spec => []Inv
BY InitInv, NextInv, PTL DEF Spec

\* Type correctness: a call at work has a VM and a semaphore of its own record,
\* and no channel ever holds more tokens than it has room for.
THEOREM TypeCorrect == Spec => []TypeOK
<1>1. Inv => TypeOK
  BY DEF Inv
<1> QED
  BY <1>1, Invariant, PTL

\* The first calls to a VM agree on its semaphore, whatever order they come in,
\* and no VM takes the semaphore of another.
THEOREM SemaphoresApart == Spec => []OneSemaphore
<1>1. Inv => OneSemaphore
  BY DEF Inv
<1> QED
  BY <1>1, Invariant, PTL

-----------------------------------------------------------------------------
\* No way out of Connect or of a handler, and no number of calls, leaks a slot
\* or gives one back twice.
THEOREM NoSlotLeaks == Spec => []SlotsHeld
<1>1. Inv => SlotsHeld
  BY DEF Inv
<1> QED
  BY <1>1, Invariant, PTL

\* Who has a connection has the slot for it.
LEMMA Covered == Inv => ConnectionsCovered
BY DEF Inv, ConnectionsCovered, ConnectionsKnown, OneSemaphore, TypeOK, Holders, At,
       Holding, Dialled

THEOREM NoConnectionLeaks == Spec => []ConnectionsCovered
BY Covered, Invariant, PTL

LEMMA HoldersBounded ==
  ASSUME Inv, NEW v \in VM, NEW c \in Holders(sems[v])
  PROVE  Cardinality(Holders(sems[v])) <= MaxConcurrentPerVM
<1>1. c \in Call /\ call[c].at # "idle" /\ call[c].sem = sems[v]
  BY DEF Holders, Holding, Dialled
<1>2. sems[v] \in Channel
  BY <1>1, AtWork DEF Inv
<1> QED
  BY <1>2 DEF Inv, SlotsHeld, TypeOK

\* However many calls there are, no VM has too many connections.
THEOREM Capped == Spec => []ConnectionsCapped
<1>1. ASSUME Inv, NEW v \in VM PROVE Cardinality(connected[v]) <= MaxConcurrentPerVM
  <2>1. connected[v] \in SUBSET Holders(sems[v])
    BY <1>1, Covered DEF ConnectionsCovered
  <2>2. CASE connected[v] = {}
    BY <2>2, FS_EmptySet
  <2>3. CASE connected[v] # {}
    <3>1. PICK c : c \in Holders(sems[v])
      BY <2>1, <2>3
    <3>2. Cardinality(Holders(sems[v])) <= MaxConcurrentPerVM
      BY <1>1, <3>1, HoldersBounded
    <3>3. /\ Cardinality(connected[v]) <= Cardinality(Holders(sems[v]))
          /\ Cardinality(connected[v]) \in Nat
      BY <2>1, HoldersFinite, FS_Subset, FS_CardinalityType
    <3> QED
      BY <3>2, <3>3, HoldersFinite
  <2> QED
    BY <2>2, <2>3
<1>2. Inv => ConnectionsCapped
  BY <1>1 DEF ConnectionsCapped
<1> QED
  BY <1>2, Invariant, PTL

\* Connector implements ConnectionCap: Dial opens, CloseClient closes, and all
\* the other steps stutter.
LEMMA DialOpens ==
  ASSUME Inv, NEW c \in Call, Dial(c)
  PROVE  [Cap!CapNext]_connected
<1> DEFINE v == call[c].vm
<1>1. CASE UNCHANGED connected
  BY <1>1
<1>2. CASE connected' = [connected EXCEPT ![v] = @ \cup {c}]
  <2>1. c \in Call /\ call[c].at = "dial" /\ v \in VM /\ call[c].sem = sems[v]
    BY AtWork DEF Dial, At, Inv, OneSemaphore
  <2>2. \A w \in VM : c \notin connected[w]
    BY <2>1 DEF Inv, ConnectionsKnown, Dialled
  <2>3. c \in Holders(sems[v]) /\ connected[v] \in SUBSET Holders(sems[v])
    BY <2>1, Covered DEF Holders, Holding, ConnectionsCovered
  <2>4. Cardinality(Holders(sems[v])) <= MaxConcurrentPerVM
    BY <2>1, <2>3, HoldersBounded
  <2>5. /\ Cardinality(connected[v]) <= Cardinality(Holders(sems[v]))
        /\ Cardinality(Holders(sems[v])) = Cardinality(connected[v])
             => Holders(sems[v]) = connected[v]
        /\ Cardinality(connected[v]) \in Nat
    BY <2>3, HoldersFinite, FS_Subset, FS_CardinalityType
  <2>6. Cardinality(connected[v]) < MaxConcurrentPerVM
    BY <2>1, <2>2, <2>3, <2>4, <2>5, HoldersFinite
  <2>7. Cap!Cardinality(connected[v]) = Cardinality(connected[v])
    BY DEF Cap!Cardinality, Cardinality
  <2>8. Cap!Open(c, v)
    BY <1>2, <2>2, <2>6, <2>7 DEF Cap!Open
  <2> QED
    BY <2>1, <2>8 DEF Cap!CapNext
<1> QED
  BY <1>1, <1>2 DEF Dial

LEMMA CloseClientCloses ==
  ASSUME Inv, NEW c \in Call, CloseClient(c)
  PROVE  [Cap!CapNext]_connected
<1> DEFINE v == call[c].vm
<1>1. v \in VM /\ connected' = [connected EXCEPT ![v] = @ \ {c}]
  BY AtWork DEF CloseClient, At, Inv
<1>2. CASE c \in connected[v]
  BY <1>1, <1>2 DEF Cap!Close, Cap!CapNext
<1>3. CASE c \notin connected[v]
  <2>1. connected' = connected
    BY <1>1, <1>3 DEF Inv, TypeOK
  <2> QED
    BY <2>1
<1> QED
  BY <1>2, <1>3

\* Connector implements the abstract specification of its promise.
THEOREM ImplementsCap == Spec => CapSpec
<1>1. Init => Cap!CapInit
  BY DEF Init, Cap!CapInit
<1>2. Inv /\ [Next]_vars => [Cap!CapNext]_connected
  <2> SUFFICES ASSUME Inv, [Next]_vars PROVE [Cap!CapNext]_connected
    OBVIOUS
  <2>1. CASE \E c \in Call : Dial(c)
    BY <2>1, DialOpens
  <2>2. CASE \E c \in Call : CloseClient(c)
    BY <2>2, CloseClientCloses
  <2>3. CASE UNCHANGED connected
    BY <2>3
  <2> QED
    BY <2>1, <2>2, <2>3
       DEF Next, OwnStep, Answered, Connect, Cancel, Acquire, GiveUp, LoadSigner,
           Handshake, StartSFTP, Work, Release, vars
<1> QED
  BY <1>1, <1>2, Invariant, PTL DEF Spec, CapSpec, Cap!CapSpec
=============================================================================
