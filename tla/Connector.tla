------------------------------ MODULE Connector ------------------------------
(***************************************************************************)
(* Connector (internal/sshlayer/client.go): a tool call gets a connection  *)
(* to its VM once it has a slot of the VM's semaphore, a buffered channel  *)
(* made at the VM's first call, and gives both back when its handler       *)
(* returns.  A token in a channel is a taken slot.                         *)
(***************************************************************************)
EXTENDS Naturals, FiniteSets

CONSTANTS
  VM,
  Call,                \* the tool calls (at most one at a time each)
  MaxConcurrentPerVM,
  Channel, NoChannel   \* the channels that can be made

ASSUME ConnectorAssumption ==
  /\ IsFiniteSet(Call)
  /\ MaxConcurrentPerVM \in Nat \ {0}
  /\ NoChannel \notin Channel

VARIABLES
  sems,       \* sems[v]: v's semaphore
  tokens,     \* tokens[ch]: how many tokens are in ch
  connected,  \* connected[v]: the calls that have a connection to v open
  call        \* call[c]: how far c is, its VM, its semaphore, its context

vars == <<sems, tokens, connected, call>>

\* The stages of a call: those with a slot, and those with a connection.
Dialled == {"handshake", "sftp", "open", "closing"}
Holding == Dialled \cup {"key", "dial", "release"}
Active  == Holding \cup {"waiting"}

CallRecord ==
  [at : {"idle"}] \cup
  [at : Active \cup {"ended"}, vm : VM, sem : Channel, cancelled : BOOLEAN]

TypeOK ==
  /\ sems \in [VM -> Channel \cup {NoChannel}]
  /\ tokens \in [Channel -> 0 .. MaxConcurrentPerVM]
  /\ connected \in [VM -> SUBSET Call]
  /\ call \in [Call -> CallRecord]

Init ==
  /\ sems = [v \in VM |-> NoChannel]
  /\ tokens = [ch \in Channel |-> 0]
  /\ connected = [v \in VM |-> {}]
  /\ call = [c \in Call |-> [at |-> "idle"]]

At(c, stage) == call[c].at = stage
Goto(c, stage) == call' = [call EXCEPT ![c].at = stage]

-----------------------------------------------------------------------------
\* Mutant of Semaphore: every call makes the channel anew.
SemaphoreAnew(v) == Channel \ {sems[w] : w \in VM}

\* semaphore(), under the mutex: v's channel, or a new one.
Semaphore(v) == IF sems[v] # NoChannel THEN {sems[v]}
                ELSE Channel \ {sems[w] : w \in VM}

\* A handler calls Connect.
Connect(c, v) ==
  /\ call[c].at \in {"idle", "ended"}
  /\ \E ch \in Semaphore(v) :
       /\ sems' = [sems EXCEPT ![v] = ch]
       /\ call' = [call EXCEPT ![c] = [at |-> "waiting", vm |-> v, sem |-> ch,
                                       cancelled |-> FALSE]]
  /\ UNCHANGED <<tokens, connected>>

\* The client gives the call up.
Cancel(c) ==
  /\ call[c].at \in Active
  /\ ~call[c].cancelled
  /\ call' = [call EXCEPT ![c].cancelled = TRUE]
  /\ UNCHANGED <<sems, tokens, connected>>

\* Mutant of HasRoom: the channel is one too long.
HasRoomForOneMore(ch) == tokens[ch] <= MaxConcurrentPerVM

HasRoom(ch) == tokens[ch] < MaxConcurrentPerVM

\* The two cases of select; both may be ready.
Acquire(c) ==
  /\ At(c, "waiting")
  /\ HasRoom(call[c].sem)
  /\ tokens' = [tokens EXCEPT ![call[c].sem] = @ + 1]
  /\ Goto(c, "key")
  /\ UNCHANGED <<sems, connected>>

GiveUp(c) ==
  /\ At(c, "waiting")
  /\ call[c].cancelled
  /\ Goto(c, "ended")
  /\ UNCHANGED <<sems, tokens, connected>>

\* Mutant of LoadSigner: a missing key leaves Connect without release().
LoadSignerLeaks(c) ==
  /\ At(c, "key")
  /\ Goto(c, "dial") \/ Goto(c, "ended")
  /\ UNCHANGED <<sems, tokens, connected>>

LoadSigner(c) ==
  /\ At(c, "key")
  /\ Goto(c, "dial") \/ Goto(c, "release")
  /\ UNCHANGED <<sems, tokens, connected>>

\* DialContext: it gives up after ConnectTimeout, or with the context.
Dial(c) ==
  /\ At(c, "dial")
  /\ \/ /\ Goto(c, "handshake")
        /\ connected' = [connected EXCEPT ![call[c].vm] = @ \cup {c}]
     \/ Goto(c, "release") /\ UNCHANGED connected
  /\ UNCHANGED <<sems, tokens>>

\* Mutant of Handshake: its error leaves the connection open.
HandshakeLeaks(c) ==
  /\ At(c, "handshake")
  /\ Goto(c, "sftp") \/ Goto(c, "release")
  /\ UNCHANGED <<sems, tokens, connected>>

\* NewClientConn, within what is left of ConnectTimeout.
Handshake(c) ==
  /\ At(c, "handshake")
  /\ Goto(c, "sftp") \/ Goto(c, "closing")
  /\ UNCHANGED <<sems, tokens, connected>>

\* sftp.NewClient.  The deadline has been cleared: the VM may take its time.
StartSFTP(c) ==
  /\ At(c, "sftp")
  /\ Goto(c, "open") \/ Goto(c, "closing")
  /\ UNCHANGED <<sems, tokens, connected>>

\* The handler's requests, up to its return, which runs closeFn.
Work(c) ==
  /\ At(c, "open")
  /\ Goto(c, "closing")
  /\ UNCHANGED <<sems, tokens, connected>>

\* Mutant of CloseClient: only the SFTP session is closed.
CloseClientForgotten(c) ==
  /\ At(c, "closing")
  /\ Goto(c, "release")
  /\ UNCHANGED <<sems, tokens, connected>>

\* Whatever the way out of Connect or out of the handler, the connection is
\* closed before the slot is given back.
CloseClient(c) ==
  /\ At(c, "closing")
  /\ Goto(c, "release")
  /\ connected' = [connected EXCEPT ![call[c].vm] = @ \ {c}]
  /\ UNCHANGED <<sems, tokens>>

\* release(): it would block on an empty channel.
Release(c) ==
  /\ At(c, "release")
  /\ tokens[call[c].sem] > 0
  /\ tokens' = [tokens EXCEPT ![call[c].sem] = @ - 1]
  /\ Goto(c, "ended")
  /\ UNCHANGED <<sems, connected>>

\* What c does in bounded time whatever the VM does, and what it does not.
OwnStep(c) == \/ GiveUp(c) \/ LoadSigner(c) \/ Dial(c) \/ Handshake(c)
              \/ CloseClient(c) \/ Release(c)
Answered(c) == StartSFTP(c) \/ Work(c)

Next ==
  \E c \in Call :
    \/ \E v \in VM : Connect(c, v)
    \/ Cancel(c)
    \/ Acquire(c)
    \/ OwnStep(c)
    \/ Answered(c)

Spec == Init /\ [][Next]_vars

\* Senders that wait for room in a channel are served in order.  Nothing makes a
\* VM answer: once the deadline of the handshake is cleared no timer runs.
Fairness == \A c \in Call : WF_vars(OwnStep(c)) /\ SF_vars(Acquire(c))
FairSpec == Spec /\ Fairness

-----------------------------------------------------------------------------
(***************************************************************************)
(* Properties.                                                             *)
(***************************************************************************)

\* No way out of Connect or of a handler leaks a slot or gives one back twice:
\* the tokens are the calls between their Acquire and their Release.
Holders(ch) == {c \in Call : call[c].at \in Holding /\ call[c].sem = ch}
SlotsHeld == \A ch \in Channel : tokens[ch] = Cardinality(Holders(ch))

\* Nor does it leave a connection behind: whoever has one open still has the
\* slot it was opened under.
ConnectionsCovered == \A v \in VM : connected[v] \subseteq Holders(sems[v])

\* All calls to a VM contend for one semaphore, and no two VMs share theirs.
OneSemaphore ==
  /\ \A c \in Call : At(c, "idle") \/ call[c].sem = sems[call[c].vm]
  /\ \A v, w \in VM : sems[v] = sems[w] => v = w \/ sems[v] = NoChannel

\* "this semaphore caps concurrent connections directly": no VM ever has more
\* than MaxConcurrentPerVM of them, also while they are set up or torn down.
ConnectionsCapped ==
  \A v \in VM : Cardinality(connected[v]) <= MaxConcurrentPerVM

\* Connector implements its promise: every connection is one more of a call
\* that has none, to a VM that has room for it.
Cap == INSTANCE ConnectionCap
         WITH VM <- VM, Call <- Call, MaxConcurrentPerVM <- MaxConcurrentPerVM,
              connected <- connected
CapSpec == Cap!CapSpec

\* The calls that hold a slot of v until the VM answers them.
Unanswered(v) == {c \in Call : call[c].at \in {"sftp", "open"} /\ call[c].vm = v}

\* Only VMs that do not answer hold calls up: a call that waits for ever waits,
\* from some time on, for slots that are all held by such calls.
OnlySilenceBlocks ==
  \A c \in Call : \A v \in VM :
    <>[](At(c, "waiting") /\ call[c].vm = v) =>
      <>[](Cardinality(Unanswered(v)) = MaxConcurrentPerVM)

\* "E_CONCURRENCY_TIMEOUT", "E_TRANSFER_TIMEOUT": a call that waits for a slot of
\* its VM does not wait for ever.
WaitingEnds == \A c \in Call : At(c, "waiting") ~> ~At(c, "waiting")
=============================================================================
