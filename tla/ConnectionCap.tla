---------------------------- MODULE ConnectionCap ----------------------------
(***************************************************************************)
(* What Connector promises of itself (internal/sshlayer/client.go): every  *)
(* call has a connection of its own, to one VM, and no VM ever has more    *)
(* than MaxConcurrentPerVM of them.                                        *)
(***************************************************************************)
EXTENDS Naturals, FiniteSets

CONSTANTS
  VM,
  Call,               \* the tool calls (at most one at a time each)
  MaxConcurrentPerVM

VARIABLE connected    \* connected[v]: the calls that have a connection to v

CapInit == connected = [v \in VM |-> {}]

Open(c, v) ==
  /\ \A w \in VM : c \notin connected[w]
  /\ Cardinality(connected[v]) < MaxConcurrentPerVM
  /\ connected' = [connected EXCEPT ![v] = @ \cup {c}]

Close(c, v) ==
  /\ c \in connected[v]
  /\ connected' = [connected EXCEPT ![v] = @ \ {c}]

CapNext == \E c \in Call, v \in VM : Open(c, v) \/ Close(c, v)

CapSpec == CapInit /\ [][CapNext]_connected
=============================================================================
