---------------------------- MODULE ExecRunProofs ----------------------------
(***************************************************************************)
(* Proofs about ExecRun: for every cap, window and amount of output, what  *)
(* Run returns is final, and says so when it is not all there was.         *)
(***************************************************************************)
EXTENDS ExecRun, TLAPS

\* A stream is read in the order it arrives, and arrives as it was written.
InOrder == \A s \in Stream : read[s] <= arrived[s] /\ arrived[s] <= written[s]

\* What a reader that came to its end left in the result, and why it ended.
ReaderDone(s) ==
  /\ result.kept[s] = Kept(s)
  /\ result.truncated[s] = TooMuch(s)
  /\ TooMuch(s) \/ (read[s] = arrived[s] /\ channel # "open")
ReadersDone ==
  \A s \in Stream : IF s \in reading THEN ~result.truncated[s] ELSE ReaderDone(s)

\* Before Run made its choice only a reader with too much closes the session.
ClosedForACause ==
  /\ at = "start" => ~closed
  /\ at = "select" /\ closed => Truncated

\* The server closes the channel when it said all, or because of us.
ClosedInTurn ==
  channel = "closed" => closed \/ (command = "over" /\ arrived = written)

\* What is true of a result with an exit status.
Genuine ==
  /\ result.exit = "status" => at = "returned" /\ ~Truncated
  /\ result.exit = "status" /\ channel # "lost" =>
       command = "over" /\ arrived = written

Settled == /\ at = "returned" => WaitDone
           /\ at \in {"start", "failed"} => reading = Stream

Inv == /\ TypeOK
       /\ InOrder
       /\ ReadersDone
       /\ ClosedForACause
       /\ ClosedInTurn
       /\ Genuine
       /\ Settled

LEMMA InvInit == Init => Inv
<1> SUFFICES ASSUME Init PROVE Inv
  OBVIOUS
<1> USE ExecAssumption DEF ExecAssumption, Init, Stream
<1>1. TypeOK
  <2>1. /\ [s \in Stream |-> 0] \in [Stream -> 0 .. MaxOutput]
        /\ [s \in Stream |-> 0] \in [Stream -> 0 .. MaxOutput + 1]
        /\ [s \in Stream |-> 0] \in [Stream -> 0 .. MaxWritten]
        /\ [s \in Stream |-> FALSE] \in [Stream -> BOOLEAN]
    OBVIOUS
  <2>2. result \in [kept : [Stream -> 0 .. MaxOutput],
                    truncated : [Stream -> BOOLEAN],
                    exit : {"unset", "none", "status"}, timedOut : BOOLEAN,
                    err : BOOLEAN]
    BY <2>1
  <2> QED
    BY <2>1, <2>2 DEF TypeOK
<1>2. InOrder /\ ClosedForACause /\ ClosedInTurn
  BY DEF InOrder, ClosedForACause, ClosedInTurn
<1>3. ReadersDone
  BY DEF ReadersDone
<1>4. Genuine /\ Settled
  BY DEF Genuine, Settled
<1> QED
  BY <1>1, <1>2, <1>3, <1>4 DEF Inv

-----------------------------------------------------------------------------
LEMMA StartKeeps == Inv /\ Start => Inv'
<1> SUFFICES ASSUME Inv, Start PROVE Inv'
  OBVIOUS
<1> USE DEF Inv, Start, server
<1>1. TypeOK'
  BY DEF TypeOK
<1>2. InOrder' /\ ClosedForACause' /\ ClosedInTurn'
  BY DEF InOrder, ClosedForACause, ClosedInTurn, Truncated
<1>3. ReadersDone'
  BY DEF ReadersDone, Settled, TypeOK
<1>4. Genuine' /\ Settled'
  BY DEF Genuine, Settled, Truncated, WaitDone, TypeOK
<1> QED
  BY <1>1, <1>2, <1>3, <1>4

LEMMA ReadKeeps == ASSUME NEW s \in Stream PROVE Inv /\ Read(s) => Inv'
<1> SUFFICES ASSUME Inv, Read(s) PROVE Inv'
  OBVIOUS
<1> USE ExecAssumption DEF ExecAssumption, Inv, Read, server
<1>1. TypeOK'
  BY DEF TypeOK, Limit
<1>2. InOrder'
  BY DEF InOrder, Unread, TypeOK
<1>3. ReadersDone'
  BY DEF ReadersDone, ReaderDone, Kept, TooMuch, TypeOK
<1>4. ClosedForACause' /\ ClosedInTurn'
  BY DEF ClosedForACause, ClosedInTurn, Truncated
<1>5. Genuine' /\ Settled'
  BY DEF Genuine, Settled, Truncated, WaitDone
<1> QED
  BY <1>1, <1>2, <1>3, <1>4, <1>5

LEMMA ReaderEndsKeeps == ASSUME NEW s \in Stream PROVE Inv /\ ReaderEnds(s) => Inv'
<1> SUFFICES ASSUME Inv, ReaderEnds(s) PROVE Inv'
  OBVIOUS
<1> USE ExecAssumption DEF ExecAssumption, Inv, ReaderEnds, server
<1>1. TypeOK'
  <2>1. Kept(s) \in 0 .. MaxOutput /\ TooMuch(s) \in BOOLEAN
    BY DEF Kept, TooMuch, TypeOK
  <2>2. result' \in [kept : [Stream -> 0 .. MaxOutput],
                     truncated : [Stream -> BOOLEAN],
                     exit : {"unset", "none", "status"}, timedOut : BOOLEAN,
                     err : BOOLEAN]
    BY <2>1 DEF TypeOK
  <2>3. closed' \in BOOLEAN
    BY <2>1 DEF ClosedAfter, TypeOK
  <2> QED
    BY <2>2, <2>3 DEF TypeOK
<1>2. InOrder'
  BY DEF InOrder
<1>3. ReadersDone'
  BY DEF ReadersDone, ReaderDone, Kept, TooMuch, Limit, Unread, InOrder, TypeOK
<1>4. ClosedForACause'
  <2>1. CASE TooMuch(s)
    <3>1. result'.truncated[s]
      BY <2>1 DEF TypeOK, TooMuch
    <3> QED
      BY <3>1 DEF ClosedForACause, Truncated, Started
  <2>2. CASE ~TooMuch(s)
    <3>1. closed' = closed /\ at' = at
      BY <2>2 DEF ClosedAfter, TypeOK
    <3>2. \A t \in Stream : result.truncated[t] => result'.truncated[t]
      BY DEF ReadersDone, TypeOK
    <3> QED
      BY <3>1, <3>2 DEF ClosedForACause, Truncated
  <2> QED
    BY <2>1, <2>2
<1>5. ClosedInTurn'
  BY DEF ClosedInTurn, ClosedAfter
<1>6. Genuine' /\ Settled'
  BY DEF Genuine, Settled, Truncated, WaitDone, Started, TypeOK
<1> QED
  BY <1>1, <1>2, <1>3, <1>4, <1>5, <1>6
LEMMA FinishKeeps == Inv /\ Finish => Inv'
<1> SUFFICES ASSUME Inv, Finish PROVE Inv'
  OBVIOUS
<1> USE DEF Inv, Finish, server
<1>1. TypeOK'
  BY DEF TypeOK
<1>2. InOrder' /\ ClosedForACause' /\ ClosedInTurn'
  BY DEF InOrder, ClosedForACause, ClosedInTurn
<1>3. result'.kept = result.kept /\ result'.truncated = result.truncated
  BY DEF TypeOK
<1>4. ReadersDone'
  BY <1>3 DEF ReadersDone, ReaderDone, Kept, TooMuch
<1>5. Genuine'
  <2> SUFFICES ASSUME result'.exit = "status"
               PROVE  /\ ~Truncated'
                      /\ channel # "lost" => command = "over" /\ arrived = written
    BY DEF Genuine
  <2>1. ~Truncated
    BY DEF TypeOK
  <2>2. ~Truncated'
    BY <2>1, <1>3 DEF Truncated
  <2>3. ~closed
    BY <2>1 DEF ClosedForACause
  <2>4. channel = "closed" \/ channel = "lost"
    BY DEF WaitDone, TypeOK
  <2> QED
    BY <2>2, <2>3, <2>4 DEF ClosedInTurn
<1>6. Settled'
  BY DEF Settled, WaitDone
<1> QED
  BY <1>1, <1>2, <1>4, <1>5, <1>6

\* The timer's and the context's case of select.
LEMMA CutShortKeeps == Inv /\ (TimeOut \/ Abort) => Inv'
<1> SUFFICES ASSUME Inv, TimeOut \/ Abort PROVE Inv'
  OBVIOUS
<1> USE DEF Inv, TimeOut, Abort, server
<1>1. TypeOK'
  BY DEF TypeOK
<1>2. InOrder' /\ ClosedForACause' /\ ClosedInTurn'
  BY DEF InOrder, ClosedForACause, ClosedInTurn
<1>3. result'.kept = result.kept /\ result'.truncated = result.truncated
  BY DEF TypeOK
<1>4. ReadersDone'
  BY <1>3 DEF ReadersDone, ReaderDone, Kept, TooMuch
<1>5. result'.exit # "status"
  BY DEF TypeOK, Genuine
<1>6. Genuine' /\ Settled'
  BY <1>5 DEF Genuine, Settled
<1> QED
  BY <1>1, <1>2, <1>4, <1>6

LEMMA DrainKeeps == Inv /\ Drain => Inv'
<1> SUFFICES ASSUME Inv, Drain PROVE Inv'
  OBVIOUS
<1> USE DEF Inv, Drain, server
<1>1. TypeOK'
  BY DEF TypeOK
<1>2. InOrder' /\ ClosedForACause' /\ ClosedInTurn'
  BY DEF InOrder, ClosedForACause, ClosedInTurn
<1>3. /\ result'.kept = result.kept
      /\ result'.truncated = result.truncated
      /\ result'.exit = result.exit
  BY DEF TypeOK
<1>4. ReadersDone'
  BY <1>3 DEF ReadersDone, ReaderDone, Kept, TooMuch
<1>5. Genuine' /\ Settled'
  BY <1>3 DEF Genuine, Settled, Truncated, WaitDone
<1> QED
  BY <1>1, <1>2, <1>4, <1>5

-----------------------------------------------------------------------------
\* What is not the client's only adds to what was written and what arrived,
\* until the channel is closed.
External == \/ \E event \in {"timer", "context"} : Fire(event)
            \/ \E s \in Stream : Write(s) \/ Deliver(s)
            \/ Exit \/ Over \/ Hangup \/ Lose

LEMMA ExternalKeeps == Inv /\ External => Inv'
<1> SUFFICES ASSUME Inv, External PROVE Inv'
  OBVIOUS
<1> USE ExecAssumption DEF ExecAssumption, Inv, client, server
<1>1. ASSUME NEW event \in {"timer", "context"}, Fire(event) PROVE Inv'
  BY <1>1 DEF Fire, TypeOK, InOrder, ReadersDone, ReaderDone, Kept, TooMuch,
              ClosedForACause, ClosedInTurn, Genuine, Settled, Truncated, WaitDone
<1>2. ASSUME NEW s \in Stream, Write(s) PROVE Inv'
  <2> USE <1>2 DEF Write
  <2>1. TypeOK'
    BY DEF TypeOK
  <2>2. InOrder'
    BY DEF InOrder, TypeOK
  <2>3. ReadersDone' /\ ClosedForACause' /\ Settled'
    BY DEF ReadersDone, ReaderDone, Kept, TooMuch, ClosedForACause, Settled,
           Truncated, WaitDone
  <2>4. ClosedInTurn' /\ Genuine'
    BY DEF ClosedInTurn, Genuine, Truncated
  <2> QED
    BY <2>1, <2>2, <2>3, <2>4
<1>3. ASSUME NEW s \in Stream, Deliver(s) PROVE Inv'
  <2> USE <1>3 DEF Deliver
  <2>1. TypeOK'
    BY DEF TypeOK
  <2>2. InOrder'
    BY DEF InOrder, TypeOK
  <2>3. ReadersDone' /\ ClosedForACause' /\ Settled'
    BY DEF ReadersDone, ReaderDone, Kept, TooMuch, ClosedForACause, Settled,
           Truncated, WaitDone
  <2>4. ClosedInTurn' /\ Genuine'
    BY DEF ClosedInTurn, Genuine, Truncated, Settled, WaitDone
  <2> QED
    BY <2>1, <2>2, <2>3, <2>4
<1>4. CASE Exit \/ Over
  <2>1. /\ command # "over" /\ command' \in {"exited", "over"}
        /\ status' \in BOOLEAN
        /\ UNCHANGED <<at, reading, read, result, closed, ready>>
        /\ UNCHANGED <<written, arrived, channel>>
    BY <1>4 DEF Exit, Over, TypeOK
  <2>2. TypeOK' /\ InOrder'
    BY <2>1 DEF TypeOK, InOrder
  <2>3. ReadersDone' /\ ClosedForACause' /\ Settled'
    BY <2>1 DEF ReadersDone, ReaderDone, Kept, TooMuch, ClosedForACause, Settled,
                Truncated, WaitDone
  <2>4. ClosedInTurn' /\ Genuine'
    BY <2>1 DEF ClosedInTurn, Genuine, Truncated
  <2> QED
    BY <2>2, <2>3, <2>4
<1>5. CASE Hangup \/ Lose
  <2> USE <1>5 DEF Hangup, Lose
  <2>1. TypeOK' /\ InOrder'
    BY DEF TypeOK, InOrder
  <2>2. ReadersDone' /\ ClosedForACause'
    BY DEF ReadersDone, ReaderDone, Kept, TooMuch, ClosedForACause, Truncated
  <2>3. ClosedInTurn' /\ Settled'
    BY DEF ClosedInTurn, Settled, WaitDone
  <2>4. Genuine'
    BY DEF Genuine, Settled, WaitDone, Truncated
  <2> QED
    BY <2>1, <2>2, <2>3, <2>4
<1> QED
  BY <1>1, <1>2, <1>3, <1>4, <1>5 DEF External

LEMMA InvKept == Inv /\ [Next]_vars => Inv'
<1>1. Inv /\ UNCHANGED vars => Inv'
  BY DEF Inv, vars, client, server, TypeOK, InOrder, ReadersDone, ReaderDone, Kept, TooMuch,
         ClosedForACause, ClosedInTurn, Genuine, Settled, Truncated, WaitDone
<1>2. Next => \/ Start \/ Finish \/ TimeOut \/ Abort \/ Drain \/ External
              \/ \E s \in Stream : Read(s) \/ ReaderEnds(s)
  BY DEF Next, RunStep, ServerStep, External
<1> QED
  BY <1>1, <1>2, StartKeeps, ReadKeeps, ReaderEndsKeeps, FinishKeeps, CutShortKeeps,
     DrainKeeps, ExternalKeeps

THEOREM Invariance == Spec => []Inv
  BY InvInit, InvKept, PTL DEF Spec

-----------------------------------------------------------------------------
(***************************************************************************)
(* The theorems.                                                           *)
(***************************************************************************)

\* Type correctness of Run's goroutines and the channel they work on.
THEOREM TypeCorrect == Spec => []TypeOK
<1>1. Inv => TypeOK
  BY DEF Inv
<1> QED
  BY <1>1, Invariance, PTL

\* Run never returns an exit status with less than the whole output, but over
\* a lost connection: neither the cap, nor the timer, nor a close of its own
\* session can cost the caller output without a word.
THEOREM NoLossUntold == Spec => []NoSilentLoss
<1>1. Inv => NoSilentLoss
  <2> SUFFICES ASSUME Inv, at = "returned", result.exit = "status", channel # "lost",
                      NEW s \in Stream
               PROVE  result.kept[s] = written[s] /\ ~result.truncated[s]
    BY DEF NoSilentLoss
  <2>1. ~result.truncated[s]
    BY DEF Inv, Genuine, Truncated
  <2>2. ReaderDone(s)
    BY DEF Inv, Settled, WaitDone, ReadersDone
  <2>3. result.kept[s] = read[s] /\ read[s] = arrived[s]
    BY <2>1, <2>2 DEF ReaderDone, Kept
  <2>4. arrived[s] = written[s]
    BY DEF Inv, Genuine
  <2> QED
    BY <2>1, <2>3, <2>4
<1> QED
  BY <1>1, Invariance, PTL

\* What Run reports as truncated was longer than the cap, and fills it.
THEOREM TruncationTrue == Spec => []TruncatedIsTrue
<1>1. Inv => TruncatedIsTrue
  <2> SUFFICES ASSUME Inv, at = "returned", NEW s \in Stream, result.truncated[s]
               PROVE  written[s] > MaxOutput /\ result.kept[s] = MaxOutput
    BY DEF TruncatedIsTrue
  <2>1. ReaderDone(s)
    BY DEF Inv, Settled, WaitDone, ReadersDone
  <2>2. read[s] > MaxOutput /\ result.kept[s] = MaxOutput
    BY <2>1 DEF ReaderDone, Kept, TooMuch
  <2>3. read[s] <= arrived[s] /\ arrived[s] <= written[s]
    BY DEF Inv, InOrder
  <2> QED
    BY <2>2, <2>3, ExecAssumption DEF ExecAssumption, Inv, TypeOK
<1> QED
  BY <1>1, Invariance, PTL

\* Nobody changes the result after Run returned it: no goroutine is left.
THEOREM NoLateWrites == Spec => ReturnedIsFinal
<1>1. Inv /\ [Next]_vars => [at = "returned" => result' = result]_vars
  <2> SUFFICES ASSUME Inv, Next, at = "returned" PROVE result' = result
    BY DEF vars
  <2>1. reading = {}
    BY DEF Inv, Settled, WaitDone
  <2> QED
    BY <2>1 DEF Next, RunStep, ServerStep, Start, Read, ReaderEnds, Finish, TimeOut,
                Abort, Drain, Fire, Write, Exit, Over, Deliver, Hangup, Lose, client
<1> QED
  BY <1>1, Invariance, PTL DEF Spec, ReturnedIsFinal
=============================================================================
