------------------------------ MODULE StallConn ------------------------------
(***************************************************************************)
(* The write guard on the client connection: stallConn in                  *)
(* internal/proxy/stall.go.  Bytes are counted in units, time in ticks.    *)
(*                                                                         *)
(* A transfer is cut into chunks and each chunk gets a fresh deadline.  A  *)
(* unit leaves when the source has it (Write: at once; ReadFrom: when the  *)
(* upstream has sent it), the socket buffer has room for it and, as Go     *)
(* checks before every write to the socket, the deadline has not passed.   *)
(***************************************************************************)
EXTENDS Naturals

CONSTANTS
    Total,        \* units to transfer
    ChunkSize,    \* stallChunk
    SockCap,      \* units the socket buffers
    Timeout       \* ticks a deadline is set ahead

ASSUME StallAssumption ==
    /\ Total \in Nat
    /\ ChunkSize \in Nat \ {0}
    /\ SockCap \in Nat \ {0}
    /\ Timeout \in Nat \ {0}

VARIABLES
    op,         \* which of the two loops runs, "Write" or "ReadFrom"
    pc,         \* "arm", "copy", or how the transfer ended
    written,    \* units handed to the socket
    chunkLeft,  \* units of the current chunk not written
    arrived,    \* units the source has
    buffered,   \* units in the socket the client has not taken
    elapsed,    \* ticks since the deadline was set
    (* History of the current window. *)
    taken,      \* units the client took
    undrained   \* ticks in which it left the socket full

windowVars == <<taken, undrained>>
vars == <<op, pc, written, chunkLeft, arrived, buffered, elapsed, windowVars>>

TypeOK ==
    /\ op \in {"Write", "ReadFrom"}
    /\ pc \in {"arm", "copy", "finished", "stalled"}
    /\ written \in 0 .. Total
    /\ chunkLeft \in 0 .. ChunkSize
    /\ arrived \in 0 .. Total
    /\ buffered \in 0 .. SockCap
    /\ elapsed \in 0 .. Timeout
    /\ taken \in Nat
    /\ undrained \in 0 .. elapsed

Init ==
    /\ op \in {"Write", "ReadFrom"}
    /\ pc = "arm"
    /\ written = 0
    /\ chunkLeft = 0
    /\ arrived = IF op = "ReadFrom" THEN 0 ELSE Total
    /\ buffered \in 0 .. SockCap
    /\ elapsed = 0
    /\ taken = 0
    /\ undrained = 0

Smaller(a, b) == IF a < b THEN a ELSE b

\* Slip: the deadline is set once, for the whole transfer.
ArmOnce ==
    /\ pc = "arm"
    /\ IF written = Total
          THEN /\ pc' = "finished"
               /\ UNCHANGED <<chunkLeft, windowVars>>
          ELSE /\ pc' = "copy"
               /\ chunkLeft' = Smaller(ChunkSize, Total - written)
               /\ UNCHANGED windowVars
    /\ UNCHANGED <<op, written, arrived, buffered, elapsed>>

\* SetWriteDeadline for the next chunk, never longer than what is left.
Arm ==
    /\ pc = "arm"
    /\ IF written = Total
          THEN /\ pc' = "finished"
               /\ UNCHANGED <<chunkLeft, elapsed, windowVars>>
          ELSE /\ pc' = "copy"
               /\ chunkLeft' = Smaller(ChunkSize, Total - written)
               /\ elapsed' = 0
               /\ taken' = 0
               /\ undrained' = 0
    /\ UNCHANGED <<op, written, arrived, buffered>>

Expired == elapsed = Timeout

Copy ==
    /\ pc = "copy"
    /\ ~ Expired
    /\ written < arrived
    /\ buffered < SockCap
    /\ written' = written + 1
    /\ buffered' = buffered + 1
    /\ chunkLeft' = chunkLeft - 1
    /\ pc' = IF chunkLeft = 1 THEN "arm" ELSE "copy"
    /\ UNCHANGED <<op, arrived, elapsed, windowVars>>

\* Slip: a write that timed out is tried again.
StallRetries ==
    /\ pc = "copy"
    /\ Expired
    /\ written < arrived
    /\ pc' = "arm"
    /\ UNCHANGED <<op, written, chunkLeft, arrived, buffered, elapsed, windowVars>>

\* The write that is blocked, or the next one, runs into the deadline.
Stall ==
    /\ pc = "copy"
    /\ Expired
    /\ written < arrived
    /\ pc' = "stalled"
    /\ UNCHANGED <<op, written, chunkLeft, arrived, buffered, elapsed, windowVars>>

SourceDelivers ==
    /\ arrived < Total
    /\ arrived' = arrived + 1
    /\ UNCHANGED <<op, pc, written, chunkLeft, buffered, elapsed, windowVars>>

ClientTakes ==
    /\ buffered > 0
    /\ buffered' = buffered - 1
    /\ taken' = IF pc = "copy" /\ ~ Expired THEN taken + 1 ELSE taken
    /\ UNCHANGED <<op, pc, written, chunkLeft, arrived, elapsed, undrained>>

(***************************************************************************)
(* Time passes only while the copy waits: on the network's scale the code  *)
(* takes none.                                                             *)
(***************************************************************************)
Tick ==
    /\ pc = "copy"
    /\ ~ Expired
    /\ ~ (written < arrived /\ buffered < SockCap)
    /\ elapsed' = elapsed + 1
    /\ undrained' = IF buffered = SockCap THEN undrained + 1 ELSE undrained
    /\ UNCHANGED <<op, pc, written, chunkLeft, arrived, buffered, taken>>

Next == Arm \/ Copy \/ Stall \/ SourceDelivers \/ ClientTakes \/ Tick

\* The copy runs, time passes, and the upstream delivers what it announced.
Spec ==
    /\ Init /\ [][Next]_vars
    /\ WF_vars(Arm \/ Copy \/ Stall)
    /\ WF_vars(Tick)
    /\ WF_vars(SourceDelivers)

-----------------------------------------------------------------------------
(* Properties. *)

(***************************************************************************)
(* A client that takes at least a chunk in every window is not torn down   *)
(* by a Write: a stall means it took less ("a peer accepting at least one  *)
(* chunk per window survives arbitrarily large transfers").                *)
(***************************************************************************)
ProgressSurvives == op = "Write" /\ pc = "stalled" => taken < ChunkSize

(***************************************************************************)
(* What is reported as a stall is the client's: it left the socket full    *)
(* for the whole window (stallError: "names the peer's behavior").         *)
(***************************************************************************)
StallIsTheClients == pc = "stalled" => undrained = Timeout

(***************************************************************************)
(* The transfer completes or fails, also if the upstream takes its time: a *)
(* client that stops draining cannot pin its session.                      *)
(***************************************************************************)
TransferEnds == <>(pc \in {"finished", "stalled"})
=============================================================================
