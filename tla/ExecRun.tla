------------------------------- MODULE ExecRun -------------------------------
(***************************************************************************)
(* Run (internal/sshlayer/exec.go): one command over one SSH channel.  Two *)
(* readers fill the result from stdout and stderr, a third goroutine waits *)
(* for them and for the session's end, and Run selects between it, a timer *)
(* and the request's context.  Output is counted, not named: the bytes of  *)
(* a stream arrive in order, so how many were kept says which.             *)
(*                                                                         *)
(* The command, its server and the channel between are external.           *)
(***************************************************************************)
EXTENDS Naturals

CONSTANTS
  MaxOutput,   \* MaxOutputBytes
  Window,      \* how many unread bytes the channel takes, both streams together
  MaxWritten   \* bound: the bytes a command writes to a stream

ASSUME ExecAssumption ==
  /\ MaxOutput \in Nat
  /\ Window \in Nat \ {0}
  /\ MaxWritten \in Nat

VARIABLES
  at,        \* how far Run is
  reading,   \* the streams whose reader has not come to its end
  read,      \* read[s]: what the reader of s has read
  result,    \* the Result that the goroutines share
  closed,    \* has the session been closed from here?
  ready,     \* which of the timer and the context have fired
  command,   \* external: is the command running, did it exit, is all output in?
  status,    \* external: has an exit status been received?
  written,   \* external: written[s]: what the command wrote to s
  arrived,   \* external: arrived[s]: what of it has arrived
  channel    \* external: is the channel open, closed by the server, or lost?

client == <<at, reading, read, result, closed>>
server == <<command, status, written, arrived, channel>>
vars == <<client, ready, server>>

Stream == {"stdout", "stderr"}

TypeOK ==
  /\ at \in {"start", "select", "drain", "abort", "returned", "failed"}
  /\ reading \in SUBSET Stream
  /\ read \in [Stream -> 0 .. MaxOutput + 1]
  /\ result \in [kept : [Stream -> 0 .. MaxOutput], truncated : [Stream -> BOOLEAN],
                 exit : {"unset", "none", "status"}, timedOut : BOOLEAN,
                 err : BOOLEAN]
  /\ closed \in BOOLEAN
  /\ ready \in SUBSET {"timer", "context"}
  /\ command \in {"running", "exited", "over"}
  /\ status \in BOOLEAN
  /\ written \in [Stream -> 0 .. MaxWritten]
  /\ arrived \in [Stream -> 0 .. MaxWritten]
  /\ channel \in {"open", "closed", "lost"}

Init ==
  /\ at = "start"
  /\ reading = Stream
  /\ read = [s \in Stream |-> 0]
  /\ result = [kept |-> [s \in Stream |-> 0],
               truncated |-> [s \in Stream |-> FALSE],
               exit |-> "unset", timedOut |-> FALSE, err |-> FALSE]
  /\ closed = FALSE
  /\ ready = {}
  /\ command = "running"
  /\ status = FALSE
  /\ written = [s \in Stream |-> 0]
  /\ arrived = [s \in Stream |-> 0]
  /\ channel = "open"

Unread(s) == arrived[s] - read[s]
Started == at \notin {"start", "failed"}
Truncated == \E s \in Stream : result.truncated[s]

-----------------------------------------------------------------------------
\* NewSession, the pipes and session.Start.
Start ==
  /\ at = "start"
  /\ \/ at' = "select" /\ UNCHANGED <<result, closed>>
     \/ /\ at' = "failed"
        /\ result' = [result EXCEPT !.err = TRUE]
        /\ closed' = TRUE
  /\ UNCHANGED <<reading, read, ready, server>>

\* Mutant of Limit: it cannot tell the cap from more.
LimitAtCap == MaxOutput

\* One byte past the cap.
Limit == MaxOutput + 1

\* readCapped: ReadAll of the limited reader, one byte.
Read(s) ==
  /\ Started /\ s \in reading
  /\ read[s] < Limit
  /\ Unread(s) > 0
  /\ read' = [read EXCEPT ![s] = @ + 1]
  /\ UNCHANGED <<at, reading, result, closed, ready, server>>

\* Mutants of TooMuch, Kept and ClosedAfter: the cap itself counts as too much;
\* the byte past it is kept; a reader that has enough leaves the session open.
TooMuchAtCap(s) == read[s] >= MaxOutput
KeptAll(s) == read[s]
ClosedAfterNone(s) == closed

TooMuch(s) == read[s] > MaxOutput
Kept(s) == IF TooMuch(s) THEN MaxOutput ELSE read[s]
ClosedAfter(s) == closed \/ TooMuch(s)

\* readCapped returns, at its limit or at the end of the stream: an error of
\* Read is dropped.  A reader that has too much closes the session.
ReaderEnds(s) ==
  /\ Started /\ s \in reading
  /\ read[s] = Limit \/ (Unread(s) = 0 /\ channel # "open")
  /\ reading' = reading \ {s}
  /\ result' = [result EXCEPT !.kept[s] = Kept(s), !.truncated[s] = TooMuch(s)]
  /\ closed' = ClosedAfter(s)
  /\ UNCHANGED <<at, read, ready, server>>

\* Mutant of WaitDone: the readers are not waited for.
WaitDoneEarly == channel # "open"

\* waitDone has its value: the readers are through, and session.Wait, which
\* returns when the channel is closed at both ends.
WaitDone == reading = {} /\ channel # "open"

\* The three cases of select; any that is ready may be taken.
Finish ==
  /\ at = "select"
  /\ WaitDone
  /\ at' = "returned"
  /\ result' = [result EXCEPT !.exit = IF status /\ ~Truncated THEN "status"
                                                               ELSE "none"]
  /\ closed' = TRUE
  /\ UNCHANGED <<reading, read, ready, server>>

TimeOut ==
  /\ at = "select"
  /\ "timer" \in ready
  /\ at' = "drain"
  /\ result' = [result EXCEPT !.timedOut = TRUE, !.exit = "none"]
  /\ closed' = TRUE
  /\ UNCHANGED <<reading, read, ready, server>>

Abort ==
  /\ at = "select"
  /\ "context" \in ready
  /\ at' = "abort"
  /\ closed' = TRUE
  /\ UNCHANGED <<reading, read, result, ready, server>>

\* <-waitDone, after a timeout or a cancelled request.
Drain ==
  /\ at \in {"drain", "abort"}
  /\ WaitDone
  /\ at' = "returned"
  /\ result' = [result EXCEPT !.err = at = "abort"]
  /\ UNCHANGED <<reading, read, closed, ready, server>>

RunStep == \/ Start
           \/ \E s \in Stream : Read(s) \/ ReaderEnds(s)
           \/ Finish \/ TimeOut \/ Abort \/ Drain

-----------------------------------------------------------------------------
\* External.

Fire(event) ==
  /\ at \notin {"start", "failed", "returned"}
  /\ event \notin ready
  /\ ready' = ready \cup {event}
  /\ UNCHANGED <<client, server>>

\* The command, and what it leaves running behind it, write.
Write(s) ==
  /\ Started /\ command # "over"
  /\ written[s] < MaxWritten
  /\ written' = [written EXCEPT ![s] = @ + 1]
  /\ UNCHANGED <<client, ready, command, status, arrived, channel>>

\* The command exits, and its exit status is sent, possibly before the rest of
\* its output; one that is killed may have none.
Exit ==
  /\ Started /\ command = "running"
  /\ command' = "exited"
  /\ status' \in {FALSE, channel = "open"}
  /\ UNCHANGED <<client, ready, written, arrived, channel>>

\* Nobody has its output open any more.
Over ==
  /\ command = "exited"
  /\ command' = "over"
  /\ UNCHANGED <<client, ready, status, written, arrived, channel>>

\* The server passes output on as long as the channel has room for it.
Deliver(s) ==
  /\ channel = "open"
  /\ arrived[s] < written[s]
  /\ Unread("stdout") + Unread("stderr") < Window
  /\ arrived' = [arrived EXCEPT ![s] = @ + 1]
  /\ UNCHANGED <<client, ready, command, status, written, channel>>

\* The server closes the channel once all is said, or because we did.
Hangup ==
  /\ Started /\ channel = "open"
  /\ closed \/ (command = "over" /\ arrived = written)
  /\ channel' = "closed"
  /\ UNCHANGED <<client, ready, command, status, written, arrived>>

Lose ==
  /\ Started /\ channel = "open"
  /\ channel' = "lost"
  /\ UNCHANGED <<client, ready, command, status, written, arrived>>

ServerStep == \/ \E s \in Stream : Deliver(s)
              \/ Hangup

Next ==
  \/ RunStep
  \/ ServerStep
  \/ \E event \in {"timer", "context"} : Fire(event)
  \/ \E s \in Stream : Write(s)
  \/ Exit
  \/ Over
  \/ Lose

Spec == Init /\ [][Next]_vars

\* The goroutines run on; the server passes output on, and answers a close.
\* Neither the command nor the timer need ever end.
FairSpec ==
  /\ Spec
  /\ WF_vars(Start) /\ WF_vars(Finish) /\ WF_vars(TimeOut \/ Abort) /\ WF_vars(Drain)
  /\ \A s \in Stream : WF_vars(Read(s)) /\ WF_vars(ReaderEnds(s)) /\ WF_vars(Deliver(s))
  /\ WF_vars(Hangup)

-----------------------------------------------------------------------------
(***************************************************************************)
(* Properties.                                                             *)
(***************************************************************************)

\* The readers write to the same Result that Run returns: whichever way Run
\* takes, nobody changes the result once it is returned.
ReturnedIsFinal == [][at = "returned" => result' = result]_vars

\* The caller is told of every loss: output is missing from a result with an
\* exit status only if the connection was lost, never because of the cap, the
\* timer or a session closed from here.
NoSilentLoss ==
  at = "returned" /\ result.exit = "status" /\ channel # "lost" =>
    \A s \in Stream : result.kept[s] = written[s] /\ ~result.truncated[s]

\* Truncated means that there was more than the cap, by a byte at least, and
\* that all the cap allows was kept.
TruncatedIsTrue ==
  at = "returned" =>
    \A s \in Stream : result.truncated[s] =>
      written[s] > MaxOutput /\ result.kept[s] = MaxOutput

\* Whatever is to end a run does: the command with all its output, one stream
\* beyond the cap (with the command blocked on it, and the other one silent),
\* the timer, or the client; also when the command itself never ends.
Ending == command = "over" \/ Truncated \/ ready # {}
RunReturns == Started /\ Ending ~> at = "returned"
=============================================================================
