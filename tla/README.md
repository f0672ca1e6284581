# A TLA+ model of tapaside

tapaside is a sidecar between a PostgreSQL client and its database. It relays
the wire protocol and refuses, before the database sees it, what a policy
blocks. This directory holds TLA+ modules translated from its source, the TLC
runs that check them on small instances, and TLAPS proofs of their safety
properties for every value of the constants.

Paths are relative to the repository; `pg.go` is
`internal/proxy/pg/pg.go`, `proxy.go` and `stall.go` are in `internal/proxy`,
`pgwire.go` in `internal/pgwire`, `sqlscan.go` and `scanner.go` in
`internal/sqlscan`.

## The system

| part | state it keeps | operations | what makes it correct |
|---|---|---|---|
| **Server** (`proxy.go`) | semaphore of slots, map of connections, wait group, `sessCtx` | accept, admit or reject, spawn, drain, force-close | slots and map match the sessions; shutdown loses, interrupts and leaks nothing, and ends |
| **Startup** (`pg.go`: `ServeConn`, `negotiateStartup`) | the read deadline, packets read, the upstream connection | read a packet, deny encryption, clear the deadline, dial, forward | the slot is not held by an idle client; no deadline is left on a session; the upstream is always released |
| **Relay** (`pg.go`: `relay`) | the channel of two results, the two connections | start the pumps, half-close, close, join | both goroutines end; a half-closing client is served out; the first result is the causal one |
| **Message filter** (`pg.go`: `copyMessages`, `msgFilter`) | `heldBuf`, `prefixForwarded`, `skipUntilSync`, `forwardSync` | forward, hold, release, refuse, deny, swallow, settle | nothing refused gets through; each exchange is ended exactly once; the flags tell the truth about the wire |
| **Response pump** (`pg.go`: `copyResponses`, `syncWriter`) | the client's lock, `txStatus` | store a status, forward whole or under the lock | messages to the client do not interleave; the status is true |
| **Write-stall guard** (`stall.go`) | the write deadline of the client connection | arm, copy a chunk, fail | progress survives, no progress does not |
| **Wire format** (`pgwire.go`) | a position in the client's stream, a payload buffer | read a startup packet, a header, a payload; write a message | the reader stays in step; memory follows the bytes that came; a torn stream is not a clean close |
| **SQL classification** (`sqlscan.go`, `scanner.go`) | none | split a text, classify a statement | no write is taken for a read; quoted text decides nothing |
| **Policy** (`internal/policy`) | none | load, evaluate | the verdict |
| **Command line, audit** (`main.go`, `internal/cli`, `internal/exit`) | none | parse flags, start the server, print usage | |

The server runs one goroutine per session, which runs startup and then relay.
Relay runs two more, the pumps. They share the client's connection under
`syncWriter.mu`, the atomic `txStatus`, and the channel of results. The server
reaches into a session only by canceling its context and closing its
connection. The hard behaviours are therefore

- the order of two pumps on one client: lock, status, and which ends first;
- a long sequence of messages over which a few flags must track what the
  backend has been sent;
- blocking: on a client that stops reading, on the lock, on the other pump;
- connections that end in the middle of a message, half-close, or never speak;
- lengths announced by a client, which may be anything;
- SQL in which a comment, a literal or a nested quote hides or shows a verb;
- shutdown while sessions are accepted, ending, or stuck.

`PROJECT.json` lists each at its line under `hazards`, with the properties
about it.

## The modules

| module | models | its actions |
|---|---|---|
| `PgMessages` | message kinds, SQL classes, the policy's verdict | (operators only) |
| `MsgFilter` | the client-to-upstream pump | one action per way `handle` disposes of a message, two for an answer (load the status, then write under the lock), the ways the pump ends, and a client that dies inside a message |
| `BatchGate` | the abstract specification of `MsgFilter` | expose, hand over, refuse, deny, settle, shut |
| `Session` | `MsgFilter` with `copyResponses`, a client and a backend | the response pump between every two points where the other pump can run |
| `Relay` | `relay` and where its pumps block and end | peers, both pumps, the receives and closes of `relay` |
| `ServeConn` | startup up to relay | one action per read, answer, dial and forward, and per way each fails |
| `Server` | accept loop, sessions, shutdown | one per statement of `Serve` another goroutine can run between; one per deferred call of a session |
| `ServerPromise` | the abstract specification of `Server` | admit, finish, stop, cut all, return |
| `StallConn` | the two loops of `stallConn` | arm, copy a unit, stall; time and the peers |
| `Framing` | `ReadStartup`, `ReadHeader`, `ReadPayload` and the filter's ways to take a payload | one per read that begins or ends, and per way a stream gives out |
| `SqlScan` | the scanner, `Split`, `significantWords`, `classify` | (operators only) |
| `SqlTexts` | a text that grows, and a second lexer to compare with | one more symbol |
| `MCMsgFilter`, `MCSession`, `MCSqlTexts` | messages and alphabets for TLC | |
| `MsgFilterProofs`, `SessionProofs`, `RelayProofs`, `ServeConnProofs`, `ServerProofs`, `StallConnProofs`, `FramingProofs`, `SqlTextsProofs` | the proofs about the modules they are named after | |

`Session` extends `MsgFilter` and replaces its chaotic peers by real ones. The
other modules cut the system where the interface is narrow: `Relay` reduces a
message to *allowed*, *refused* or *invalid*; `ServeConn` reduces relay to
something that may end; `Server` reduces a session to running, ended, released
and gone. Neither assumes that a session ends, forced or not. A forced close
gets a session out of its startup (`ForcedStartupEnds` of `ServeConn`), but
relay takes no context, and a pump that is blocked on the upstream does not
notice that the client's connection is closed: such a session is what `Serve`
abandons after its second drain. What does end a session in relay is the subject
of `DepartedClientEndsSession` and `EndedPumpEndsSession` of `Relay`. The stall that `Relay` takes for granted is `TransferEnds` of
`StallConn`. `MsgFilter` takes whole messages off the stream, which `InStep` of
`Framing` justifies, and the verdict on a query from a table of SQL classes,
which `SqlScan` decides.

### State and code

`MsgFilter` keeps the flags of `msgFilter` under their names. `heldBuf` is a
sequence of messages and `heldLen` its length in bytes, header included, so the
budget is computed as in `holdBudget`. `pc` is where `copyMessages` stands:
reading, about to load the status, about to write, or returned in one of three
ways. The scratch buffer is left out: it changes no outcome, and the cases where
its size decides between buffering and streaming are in `Streamed`. The
variables `openUpstream`, `closersSent` and `readiesSent` belong to an observer
of the wires; no action reads the first, and the other two only bound the
client. A message cut off in its payload goes upstream or into `heldBuf` as
`Torn`.

In `Session` the backend is PostgreSQL as the code and its tests use it: a
statement may fail, an error in a batch makes it discard up to the Sync, an
error in a transaction fails the transaction. `rpc` splits `copyResponses` at
its four blocking points. The client sends when the filter reads.

In `Relay` a message of the client is a token. An answer of the backend is one
token if nothing of it is read under the client's lock (it has no payload, or is a
ReadyForQuery), and otherwise a header and a payload that may come much later: the
response pump keeps the lock in between (`copy`), and when the pause uses up the
deadline that `stallConn.ReadFrom` armed (`late`) the write fails as a stall. A
pump stands at a read, at the lock, or at a write, since that is where it blocks.
A peer is lost in one of two ways: it leaves or resets, which the pumps see as one
of the errors `isDisconnect` lists, or its host vanishes, and the connection times
out, which is an error like any other. `upset` remembers what went wrong, so that a
property can ask for the cause.

In `Server` a session's goroutine is split at its deferred calls (`handle`
closes the connection, then the slot is released, then the map entry goes),
since the accept loop and the shutdown run between them.

In `StallConn` time passes only while the copy waits.

`ServerPromise` sees of a server its phase, the sessions that run and those of
them that were cut. `Server` maps to it by `Phase`, which is where `Serve`
stands, by the connections whose handler runs, and by those of them whose
connection is closed.

In `Framing` a byte is a position. One `io.ReadFull` or `io.CopyN` is the span
`from .. target`, and `pos` is how far it got, so a stream that arrives in
pieces or stops anywhere needs no buffer in the model. `boundary` is where the
client's message ends by the length it announced; the reader computes with
`size`, as `PayloadLen` does, in arithmetic that wraps around. Which of the ways
a payload is taken depends on the filter's state; `Framing` lets it take any
that its size permits.

In `SqlScan` a text is a sequence of symbols: a byte with a meaning of its own
is one, so is a keyword in any case, and `"w"` stands for letters that spell
none. The scanner's `skippableLen` and its helpers are functions from a position
to the position behind the construct there. The lexer in `SqlTexts` is written
the other way, as the comments of `scanner.go` state the rules: an automaton
that reads each symbol once, never looks ahead, and never cuts a text up.

Operators whose comment starts with **Slip** are plausible mistakes in the
operator that follows: a missing mark, a flag not reset, a lock not taken. No
specification uses them. Each property has one that breaks it (`mutants` in
`PROJECT.json`), which shows the property looks at the code it is about.

## The runs

Pass:

| run | question | distinct states |
|---|---|---|
| `filter_enforced` | Does the filter hold its invariants and implement `BatchGate`, whatever the client sends and the peers do? | 457,000 |
| `session` | With a client that may pipeline: is each exchange ended once and in one piece, is the backend resynchronized, is the status true when the client waited for it? | 199,000 |
| `session_transparent` | Does a session without policy stay untouched? | 3,100 |
| `relay` | Does a session end cleanly, however it ends, and does a reply get its turn? | 186,000 |
| `serveconn` | Is startup bounded, its deadline gone afterwards, the upstream released, a forced close its end, with or without a deadline? | 29,000 |
| `server` | Do slots, map and shutdown agree, does `Serve` keep `ServerPromise`, does it return, and does nobody wait for a slot? | 19,000 |
| `stall` | Does the guard spare a client that makes progress, and end every transfer? | 3,200 |
| `framing` | Does the reader stay in step with any announced lengths and any cut, does its buffer follow the bytes, does it end? | 66,000 |
| `sqlscan` | Do the scanner and the classifier agree with a lexer that never jumps, and does a read-only text only read? | 135,000 |

Violated, each a statement of a comment that the code does not keep (details
under `findings`):

| run | what TLC shows |
|---|---|
| `pipelined_status` | `readyStatus` can report a status the backend has left or not reached when the client pipelines: "tell the client the truth" (`pg.go:325`) holds when the client has nothing else under way, which is what `LoneReadyTruthful` says in `session`. |
| `interrupted_batch` | A Query inside a batch clears `prefixForwarded` because "nothing stays pending upstream" (`pg.go:422`). If a released message fails, the backend discards the query until a Sync; the next denied batch then swallows its Sync. |
| `stall_source` | In `ReadFrom` the deadline also runs while the copy waits for the upstream, so an upstream that pauses inside a message is logged as a stalled client (`stall.go:99`). |

The run in which `BackendResynced` holds has `Interrupts = FALSE`: a client
that sends no Query or FunctionCall inside a batch. That is how drivers behave,
and the violation run shows the rest.

### Bounds

- `MaxHeldBytes = 12`: one held message leaves room for a second, not a third;
  one of eight bytes never fits. Fits, exactly full, and does not fit all occur.
  `ScratchMax = 4` is below the largest message and above the others.
- `WireCap`, `SockCap`: one message per socket, so every write can block, and
  a write of a whole batch still goes out as one.
- `MaxExchanges` (2 for the filter, 3 for a session): a denied batch, the one
  before it that left a flag behind, and the one after it that finds out.
- `Window = 2`: a client that may pipeline and need not; the violation of
  `interrupted_batch` needs only 1.
- `MaxRequests = 3` in `Relay`: one being written, one on the lock, one in the
  socket.
- `MaxPackets = 4` in `ServeConn`: one more than `MaxStartupReads`.
- `MaxConns = 2` with three connections: full, and one turned away.
  `MaxFailures` bounds the backoff.
- `Total = 5`, `ChunkSize = 2`, `SockCap = 3`, `Timeout = 3`: two full chunks
  and a rest, a window longer than a chunk.
- `Framing`: `LengthValues = 16` in place of 2^32, with `MaxStartup = 9` and
  `MaxMessage = 14` below it, so lengths below the minimum (which wrap around),
  at it, at the maximum and above it all occur. `Chunk = 2` doubles three times
  on the way to the largest payload, `ScratchMax = 1` and `MaxHeld = 3` leave
  payloads that fit neither, and `MaxSent = 32` is a startup packet and two
  messages of any length up to 11, or one of the largest and a part of another.
- `sqlscan`: each of eight alphabets has the symbols of one kind of construct
  and something to hide in it; texts of up to 5 to 8 symbols are long enough for
  the construct to open, nest, close and be left
  (`/*` `/*` `*/` `*/` is eight).

`CHECK_DEADLOCK FALSE` everywhere: a client may fall silent, a session and the
server may be over.

### Fairness

Runnable goroutines run (weak fairness of each pump and of `Serve`). A waiter on
`sync.Mutex` gets it: the mutex has a starvation mode, which is strong fairness
of the locking steps. `AfterFunc` closes the listener of a canceled context, and
timers fire; the kernel gives a connection up whose peer's host is gone (Go
enables keepalive on both connections). The backend works off its input, finishes
an answer it has begun, and closes on its own EOF, as `relay` assumes; there is no
timeout on the upstream side, so with a backend that pauses forever inside an
answer a reply would wait for the lock forever. In `Server` a session that ends
runs its deferred calls, and none has to end; accept failures in a row are bounded
by `MaxFailures`, without which `NobodyQueues` could not hold of any server. A
client that reads keeps reading until it stops for good;
nothing makes a client send, leave, or read again, and nothing makes anything
fail. In `Framing` only the reader is fair: `ReaderEnds` needs a client that
hung up, and no client has to. `SqlTexts` has no liveness. Liveness of `Relay` is
checked with the stall guard on: with it disabled a client that stops reading may
pin its session, as its comment says.

## What is proved

Each proof module proves its component's type correctness and its safety
properties for every value of the constants, from the assumptions the component
names at its `CONSTANTS` and no others. In each, the properties are not
inductive one by one; an invariant says what they rest on, has one step per
action, and implies them.

**`MsgFilterProofs`**, for any budget, wire capacity, policy and set of client
messages: `TypeCorrect`, `NothingRefusedIsForwarded`, `PrefixIsTracked`,
`DenyIsSettledRight`, `HeldStaysWithinBudget`, `TornEndsTheStream`, and
`ImplementsGate`: `FilterSpec => GateSpec`. `MaxHeldBytes` may be zero: nothing
is then ever held. `FilterInv` adds that everything upstream and in `heldBuf`
may be forwarded (`Forwardable`); that while the pump lives the held batch is
whole batch messages (`Holdable`), so releasing it never ends an exchange and
always opens the batch at the backend, which ties `prefixForwarded` to the
wire; and that the pump owes the client nothing while it reads. `TornIsLast` is
inductive on top of `FilterInv`: what a live pump sends consists of whole
messages, and the pump does not survive a fragment.

**`SessionProofs`**, with the second pump, a client and a backend:
`FramesStayIntact`, `StaysTransparent`, `SessionRefuses`. `SessionInv` takes
over `FilterInv` and adds the lock (`ResponsesOK`: who holds it, and that a
header on the client's wire without its payload is the last thing there). It
holds whatever the client does.

Its second half assumes `~ Interrupts`, a client that sends no Query or
FunctionCall inside a batch; `interrupted_batch` shows that it must be assumed.
`ReadiesConserved`, `BackendGetsItsSync`, `LoneReadyIsTruthful`,
`SessionTypeCorrect`. `CalmInv` adds to `SessionInv`

- `Owed`: the count of `ReadyConservation`, for which the module proves how
  counting in a sequence goes along with `Append`, `\o` and `Tail`;
- `BatchKnown`: what the filter takes for an open batch is one to the client;
- `SyncsFollow`: behind whatever opens a batch at the backend there is a Sync or
  the batch is still open, and no Query or FunctionCall comes before that Sync.
  Without the last part a discarded Query would lose its ReadyForQuery.

`RequestEffect` reduces the branches of `handle` to four effects (passed on
behind what was held, kept, answered, part of a denied batch), which is what the
rest of the argument is about. `TruthInv` adds that the last status reported is
the backend's, unless a batch is open or its Sync under way.

**`RelayProofs`**, for sockets of any size and any number of messages:
`PumpsAreJoined`, `HalfCloseIsServedOut`, `ResultIsCausal`, `TypeCorrect`. The
invariant accounts for the two results (in the channel or received: as many as
pumps have ended), ties every error on its way to a fault, and follows a session
without upsets to its end (`SmoothOK`).

**`ServeConnProofs`**, for any `maxStartupReads` and number of packets:
`DeadlineIsOff`, `UpstreamIsReleased`, `AnswersAreOwed`, `TypeCorrect`.
`PhaseOK` says what has been read, answered and opened at each phase.

**`ServerProofs`**, for any finite set of connections, with or without a limit
and a timeout: `SlotsAreCounted`, `ForceCloseIsComplete`, `NothingIsLeft`,
`SessionsStayDetached` (the run has a timeout; that without one nothing is ever
interrupted is in the theorem), `TypeCorrect`, and `ImplementsPromise`:
`Spec => ServerPromise`. The invariant says for each place `Serve` may stand at
whose the current connection is, whose the slots are, and what is in the map.

**`StallConnProofs`**, for any size, chunk, socket and timeout:
`ProgressIsEnough`, `TypeCorrect`. `WindowOK` bounds what a client can have taken
in a window by the part of the chunk written and what the socket held before.

**`FramingProofs`**, for any width of a length, any limits and any first chunk:
`StaysInStep`, `CleanCloseIsClean`, `BufferStaysBounded`, `TypeCorrect`.
`TargetOK` says where each kind of read ends relative to the message.

**`SqlTextsProofs`**, for texts of any length over every symbol:
`OrdinarySemicolonsAreVisible`, `SplitIsRight`, `ReadOnlyReads` and
`HiddenDecidesNothing`, that is, all that `sqlscan` checks. The module has no
inductive invariant of the state beyond the type of the text (`AlwaysTyped`); the
induction is over the text.

- *Induction.* The scanner and the automaton are recursive functions. The
  library's induction theorems take an operator as a parameter, which the provers
  cannot instantiate; the module states induction about a set instead (`Induct`,
  `InductDown`, from the least element of a set of naturals), and proves that a
  function that calls itself at most once, with a rank that shrinks, exists
  (`RecursionExists`), so that the equations of the scans may be used
  (`QuotedScanDef`, ... `WalkDef`).
- *The cursor against the automaton.* `Fresh` is the invariant of the cursor:
  before a position where it may stop the automaton is in code and nothing it has
  read since its last construct can be the first half of something. One lemma per
  construct (`LineCovered`, `BlockCovered`, `QuotedCovered`, `EscapeCovered`,
  `DollarCovered`) shows that what the scanner jumps over is hidden to the
  automaton up to where the cursor lands, and that it is `Fresh` again there, or
  one end of line short of it; `CursorAgrees` puts the jumps together. What is
  equal is not quite the set of positions: the end of line that ends a comment is
  code to the scanner and the comment's last symbol to the automaton. No word and
  no semicolon is an end of line, so nothing depends on it.
- *A statement against its text.* A statement is cut out, trimmed, and scanned
  again from its own first symbol. `SimHolds` runs the automaton over both side by
  side: they agree in everything, positions shifted (`Same`), or neither has met a
  construct since the statement began (`Untouched`), for nothing reaches across a
  semicolon or a blank. The blanks that were trimmed neither open nor hide anything
  (`BlanksOpenNothing`), so what is visible in a statement is what is visible
  there in its text (`VisibleInText`). `InOrderIs` and `InOrderMoved` are the facts
  about sorting a set of positions that make the words equal too (`StmtWords`).
- *The verdict.* `ReadOnlyIs` puts the verdict on a text in terms of the automaton
  alone: the visible words between neighbouring visible semicolons. `ReadingWords`
  says what words `classify` takes for a read, and `ReadOnlyReads` follows. For
  `HiddenDecidesNothing`, a blanked text must show the same words and semicolons:
  no construct opens in it (`BlankedOpensNothing`). The one that nearly does is a
  `$`: it opens a tag only where no word ends, and the symbol before it may have
  been blanked. `NoWordCloses` says that one was no part of a word.

In `SqlScan` the elements of a set of positions are put in order by counting
(`InOrder`), since the provers cannot expand the `SelectSeq` that
`SetToSortSeq` or a filter would use.

Only model-checked: liveness, which is out of the prover's reach, as is ENABLED.
Every safety invariant of a passing run is stated by a theorem.

## Not modelled

- `internal/cli`, `main.go`, `internal/exit`: sequential flag parsing and
  printing. The audit subcommand prints its usage only.
- `policy.Load`: reads a file once. `Enforces` and the verdict are in
  `PgMessages` and `SqlScan`.
- Writing in `pgwire.go` (`Encode`, `Bytes`, `WriteTo`): straight-line code that
  produces a message of the length it announces. `ParseQueryText` and the
  statement in a Parse are a text or a failure (the class *malformed*).
- What PostgreSQL itself makes of a text. `SqlScan` is checked against the rules
  `scanner.go` states, not against PostgreSQL's lexer, which knows more: bytes
  from 0x80 up are letters to it (to the scanner, and here, they are marks
  without a meaning), an identifier may contain `$`, and a literal may continue
  on the next line.
- The gap between writing what was held and writing the message after it: `Send`
  in `MsgFilter` does both in one step, and a write that fails in between ends
  the pump as one that fails before.
- TCP: a socket is a bounded queue. Data of a client that resets is not lost
  before the pump sees the reset, which is one of the orders TCP allows.
- `stall.go`: the splice that `ReadFrom` hands to the kernel, and short writes of
  connections that do not keep the contract of `io.Writer`.

## Plan

Done, in this order: `PgMessages`, `MsgFilter`, `BatchGate` and its proofs,
`Session`, `Relay`, `ServeConn`, `Server`, `StallConn`; then `SqlScan` with its
reference lexer, `Framing`, `ServerPromise`, and the proofs of every component
that has state; then the proofs about `SqlTexts`, which complete those of the
safety properties.

Left:

1. An abstract specification of `Relay` (a session that is open, half-closed,
   over), with a refinement.
2. The words of `SqlScan` at the level of bytes, so that `isWordByte` and the
   case folding of keywords are part of what `sqlscan` checks.
3. `Server` composed with `ServeConn` and `Relay`, to say which sessions the
   forced close ends and which are abandoned.
