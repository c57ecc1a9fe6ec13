------------------------------- MODULE Session -------------------------------
(***************************************************************************)
(* SFTP sessions: every tool call that touches a VM has a connection of    *)
(* its own, and all of them work on the one remote tree.  Any request may  *)
(* be refused, or lose the connection before or after the server carried   *)
(* it out; both are faults, at most MaxFaults of them.                     *)
(***************************************************************************)
EXTENDS Tree

CONSTANTS
  Caller,      \* the tool calls (at most one at a time each)
  MaxFaults    \* bound: requests that fail for an outside reason

ASSUME MaxFaultsAssumption == MaxFaults \in Nat

VARIABLES
  local,   \* the project root
  fs,      \* the remote base
  conn,    \* conn[c]: is c's connection up?
  faults

session == <<local, fs, conn, faults>>

SessionTypeOK ==
  /\ local \in [Path -> Node]
  /\ fs \in [Path -> Node]
  /\ conn \in [Caller -> BOOLEAN]
  /\ faults \in 0 .. MaxFaults

(***************************************************************************)
(* One request of c, which turns fs into `new` if the server is `able`.    *)
(***************************************************************************)
Request(c, ok, able, new) ==
  \/ /\ conn[c] /\ able /\ ok
     /\ fs' = new
     /\ UNCHANGED <<conn, faults>>
  \/ /\ ~ok
     /\ ~conn[c] \/ ~able
     /\ UNCHANGED <<fs, conn, faults>>
  \/ /\ conn[c] /\ able /\ ~ok
     /\ faults < MaxFaults
     /\ faults' = faults + 1
     /\ \/ UNCHANGED <<fs, conn>>                     \* refused
        \/ /\ conn' = [conn EXCEPT ![c] = FALSE]      \* lost, before or after
           /\ fs' \in {fs, new}

\* The same for a request that names p: one that goes through a link changes
\* nothing here, and may or may not succeed there.
RequestAt(c, ok, p, able, new) ==
  IF LeadsOut(fs, p)
  THEN \E there \in BOOLEAN : Request(c, ok, there, fs)
  ELSE Request(c, ok, able, new)

\* A request that only reads.
Ask(c, ok, able) == Request(c, ok, able, fs)
=============================================================================
