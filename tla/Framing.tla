-------------------------------- MODULE Framing --------------------------------
(***************************************************************************)
(* How the proxy cuts the client's stream of bytes into messages:          *)
(* ReadStartup, ReadHeader and ReadPayload of internal/pgwire and the ways *)
(* msgFilter of internal/proxy/pg takes a payload.  The stream may arrive  *)
(* in any pieces and stop after any byte.                                  *)
(*                                                                         *)
(* Positions count bytes from the start of the stream.  One io.ReadFull    *)
(* or io.CopyN is the span from .. target; pos is how far it got.          *)
(***************************************************************************)
EXTENDS Naturals

CONSTANTS
    LengthValues,  \* how many values a length field has: 2^32
    MaxStartup,    \* maxStartupLength
    MaxMessage,    \* maxMessageLength
    Chunk,         \* first buffer of ReadPayload
    ScratchMax,    \* scratchMax
    MaxHeld,       \* maxHeldBytes
    MaxSent        \* bound: bytes the client sends

ASSUME FramingAssumption ==
    /\ MaxMessage \in Nat /\ MaxMessage >= 4
    /\ MaxStartup \in Nat /\ MaxStartup >= 8
    /\ LengthValues \in Nat
    /\ MaxMessage < LengthValues /\ MaxStartup < LengthValues
    /\ Chunk \in Nat \ {0} /\ ScratchMax \in Nat /\ MaxHeld \in Nat
    /\ MaxSent \in Nat

VARIABLES
    sent, hungUp,        \* bytes the client has sent, and that it sends no more
    stage,               \* what is being read
    from, pos, target,   \* the read under way
    size,                \* PayloadLen of the current message
    base,                \* where its payload begins
    capacity,            \* of the buffer the payload goes to
    boundary,            \* where the client's current message ends
    outcome

clientVars  == <<sent, hungUp>>
readVars    == <<from, pos, target>>
messageVars == <<size, base, capacity, boundary>>
vars == <<clientVars, stage, readVars, messageVars, outcome>>

Lengths == 0 .. LengthValues - 1

Stage == {"startupHead", "startupBody", "head", "take", "grow", "chunk",
          "fill", "stream", "ended"}
Reading == {"startupHead", "startupBody", "head", "chunk", "fill", "stream"}

Outcome == {"none", "halfClose", "torn", "invalid", "noStartup"}

TypeOK ==
    /\ sent \in Nat /\ hungUp \in BOOLEAN
    /\ stage \in Stage
    /\ from \in Nat /\ pos \in Nat /\ target \in Nat
    /\ size \in Nat /\ base \in Nat /\ capacity \in Nat /\ boundary \in Nat
    /\ outcome \in Outcome

Init ==
    /\ sent = 0 /\ hungUp = FALSE
    /\ stage = "startupHead"
    /\ from = 0 /\ pos = 0 /\ target = 8
    /\ size = 0 /\ base = 0 /\ capacity = 0 /\ boundary = 0
    /\ outcome = "none"

Least(a, b) == IF a < b THEN a ELSE b

Full == pos = target

\* io.EOF: the stream is over and the read under way wants more.
Starved == stage \in Reading /\ pos < target /\ pos = sent /\ hungUp

-----------------------------------------------------------------------------
(* The client. *)

Send ==
    /\ ~ hungUp /\ sent < MaxSent
    /\ sent' = sent + 1
    /\ UNCHANGED <<hungUp, stage, readVars, messageVars, outcome>>

HangUp ==
    /\ ~ hungUp
    /\ hungUp' = TRUE
    /\ UNCHANGED <<sent, stage, readVars, messageVars, outcome>>

-----------------------------------------------------------------------------
(* Reading. *)

ReadOn ==
    /\ stage \in Reading
    /\ pos < target /\ pos < sent
    /\ pos' = Least(target, sent)
    /\ UNCHANGED <<clientVars, stage, from, target, messageVars, outcome>>

Begin(what, n) ==
    /\ stage' = what
    /\ from' = pos
    /\ target' = pos + n
    /\ pos' = pos

End(how) ==
    /\ stage' = "ended"
    /\ outcome' = how
    /\ UNCHANGED <<clientVars, readVars, messageVars>>

ReadStartupHead(length) ==
    /\ stage = "startupHead" /\ Full
    /\ IF length < 8 \/ length > MaxStartup
       THEN End("noStartup")
       ELSE /\ Begin("startupBody", length - 8)
            /\ boundary' = from + length
            /\ capacity' = length - 8
            /\ UNCHANGED <<clientVars, size, base, outcome>>

ReadStartupBody ==
    /\ stage = "startupBody" /\ Full
    /\ Begin("head", 5)
    /\ UNCHANGED <<clientVars, messageVars, outcome>>

NoStartup ==
    /\ Starved /\ stage \in {"startupHead", "startupBody"}
    /\ End("noStartup")

\* int(length - 4), where the subtraction wraps around below zero.
PayloadLen(length) ==
    IF length >= 4 THEN length - 4 ELSE length + LengthValues - 4

\* Slip: a length that does not count itself is let through.
ReadAnyHeader(length) ==
    /\ stage = "head" /\ Full
    /\ IF length > MaxMessage
       THEN End("invalid")
       ELSE /\ size' = PayloadLen(length)
            /\ base' = pos
            /\ boundary' = from + 1 + length
            /\ capacity' = 0
            /\ stage' = "take"
            /\ UNCHANGED <<clientVars, readVars, outcome>>

ReadHeader(length) ==
    /\ stage = "head" /\ Full
    /\ IF length < 4 \/ length > MaxMessage
       THEN End("invalid")
       ELSE /\ size' = PayloadLen(length)
            /\ base' = pos
            /\ boundary' = from + 1 + length
            /\ capacity' = 0
            /\ stage' = "take"
            /\ UNCHANGED <<clientVars, readVars, outcome>>

\* Only an EOF before the first byte of a header is a clean close.
NoHeader ==
    /\ Starved /\ stage = "head"
    /\ End(IF pos = from THEN "halfClose" ELSE "torn")

-----------------------------------------------------------------------------
(* The ways a payload is taken. *)

\* Into the scratch buffer, or at the end of the held batch.
TakeInto(room) ==
    /\ stage = "take" /\ size <= room
    /\ capacity' = size
    /\ Begin("fill", size)
    /\ UNCHANGED <<clientVars, size, base, boundary, outcome>>

\* relay, stream and discardPayload: copied or thrown away as it arrives.
TakeStreaming ==
    /\ stage = "take"
    /\ Begin("stream", size)
    /\ UNCHANGED <<clientVars, messageVars, outcome>>

\* Slip: the buffer is made as large as the header claims.
TakeAtOnce ==
    /\ stage = "take" /\ size > ScratchMax
    /\ capacity' = size
    /\ stage' = "grow"
    /\ UNCHANGED <<clientVars, readVars, size, base, boundary, outcome>>

TakeGrowing ==
    /\ stage = "take" /\ size > ScratchMax
    /\ capacity' = Least(size, Chunk)
    /\ stage' = "grow"
    /\ UNCHANGED <<clientVars, readVars, size, base, boundary, outcome>>

\* Slips: the buffer doubles past the payload; it never grows.
Double(have) == IF have = capacity THEN 2 * capacity ELSE capacity
Keep(have) == capacity

Grown(have) == IF have = capacity THEN Least(2 * capacity, size) ELSE capacity

\* The head of ReadPayload's loop.
GrowOrReturn ==
    /\ stage = "grow"
    /\ IF pos - base < size
       THEN /\ capacity' = Grown(pos - base)
            /\ Begin("chunk", capacity' - (pos - base))
            /\ UNCHANGED <<clientVars, size, base, boundary, outcome>>
       ELSE /\ Begin("head", 5)
            /\ UNCHANGED <<clientVars, messageVars, outcome>>

ChunkRead ==
    /\ stage = "chunk" /\ Full
    /\ stage' = "grow"
    /\ UNCHANGED <<clientVars, readVars, messageVars, outcome>>

PayloadTaken ==
    /\ stage \in {"fill", "stream"} /\ Full
    /\ Begin("head", 5)
    /\ UNCHANGED <<clientVars, messageVars, outcome>>

\* Slip: an EOF between two reads is passed on as it is.
PayloadMissing ==
    /\ Starved /\ stage \in {"chunk", "fill", "stream"}
    /\ End(IF pos = from THEN "halfClose" ELSE "torn")

\* io.EOF becomes ErrUnexpectedEOF, wherever the stream ends.
PayloadTorn ==
    /\ Starved /\ stage \in {"chunk", "fill", "stream"}
    /\ End("torn")

-----------------------------------------------------------------------------

Reader ==
    \/ ReadOn
    \/ \E length \in Lengths : ReadStartupHead(length) \/ ReadHeader(length)
    \/ ReadStartupBody \/ NoStartup \/ NoHeader
    \/ TakeInto(ScratchMax) \/ TakeInto(MaxHeld) \/ TakeStreaming \/ TakeGrowing
    \/ GrowOrReturn \/ ChunkRead \/ PayloadTaken \/ PayloadTorn

Next == Send \/ HangUp \/ Reader

\* The reading goroutine runs; a read returns when there is something to read.
Spec == Init /\ [][Next]_vars /\ WF_vars(Reader)

-----------------------------------------------------------------------------
(* Properties. *)

(***************************************************************************)
(* The proxy stays in step with the client: it looks for a header exactly  *)
(* where the message before it ended, never one byte of the next message   *)
(* is taken for payload, in whichever way and in however many reads the    *)
(* payload was taken.                                                      *)
(***************************************************************************)
InStep ==
    /\ stage = "head" => from = boundary
    /\ stage \in {"grow", "chunk", "fill", "stream"} => pos <= boundary

(***************************************************************************)
(* A stream counts as closed cleanly only if it ended between two          *)
(* messages.  One that ends inside a message, be it right after the header *)
(* or just where a read was complete, counts as torn.                      *)
(***************************************************************************)
CleanCloseOnlyBetweenMessages ==
    outcome = "halfClose" => hungUp /\ pos = sent /\ pos = boundary

(***************************************************************************)
(* No header alone makes the proxy allocate: a buffer beyond the fixed     *)
(* budgets is at most twice as large as what the client has sent of the    *)
(* payload.                                                                *)
(***************************************************************************)
BufferFollowsBytes ==
    \/ capacity + 8 <= MaxStartup
    \/ capacity <= Chunk \/ capacity <= ScratchMax \/ capacity <= MaxHeld
    \/ capacity <= 2 * (pos - base)

(***************************************************************************)
(* Once the client has hung up, the reader comes to an end: neither        *)
(* doubling nor a payload of no bytes keeps its loop going.                *)
(***************************************************************************)
ReaderEnds == hungUp ~> stage = "ended"
=============================================================================
