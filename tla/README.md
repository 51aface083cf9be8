# airfrog in TLA+

airfrog is firmware (Rust, no_std, Embassy) for an ESP32-C3 that debugs another microcontroller
over SWD and offers what it finds over WiFi: web pages, a REST API and a binary API.  This directory
holds TLA+ models of its core, the TLC configurations that check them, and proofs TLAPS checks.

## 1. The system

One executor runs all tasks; a task gives way only where it awaits.  Tasks share no locks, only
bounded channels (capacity 2, or 1 for RTT answers) and signals (one value, the latest wins).

| Component | State it keeps | Operations | Talks to |
|---|---|---|---|
| SWD driver, `airfrog-swd/src/interface.rs` | cached SELECT, power, IDCODE, IDR, MCU, reset version, power check | resets V1 / V2 / multi-drop, DP and AP accesses, memory, raw accesses, keepalive | the target, bit by bit |
| Debug interface, `airfrog-swd/src/debug.rs` | the driver | `reset_swd_target` (V1, multi-drop, V2 in turn), memory blocks, flash | driver |
| Target task, `airfrog/src/target/` | the debug interface, settings, next refresh | serves requests, binary API sessions, its timer | request channel, one response signal per owner, the Firmware task's control signal |
| HTTP server tasks, `airfrog/src/http/` | one connection each | route a request, wait for one or two tasks, time out | Target, Firmware and RTT tasks |
| Firmware task, `airfrog/src/firmware/` | Started/Stopped, the firmware found | control, decoders, commands, handlers | Target task, RTT control |
| RTT task, `airfrog/src/firmware/rtt.rs` | control block, up buffer, local ring | poll, restart, read, start, stop | Target task, one answer channel per server |
| Firmware decoders | nothing shared | parse the target's memory | reader and writer of the Firmware task |
| Binary API, `airfrog-swd/src/bin.rs`, `airfrog-bin` | a session | commands over TCP | driver, in place of all else the Target task does |
| Configuration and main loop, `config.rs`, `flash.rs`, `main.rs` | the stored configuration | store, reboot, start the network | flash, WiFi controller |
| WiFi controller, `airfrog-util/src/net.rs` | mode, connection | apply STA / AP control, connect, reconnect | signals to and from main |
| Pages, registers, devices, line protocol | none | rendering, constants, bit banging | |

What is hard here: a timeout drops the future it guards but not what that future has sent; answers
are matched to questions only by owner; a control signal keeps only its latest value; the target
runs, resets and disappears while it is read; the driver works from cached facts about hardware it
cannot see; posted AP accesses report their errors later; a multi-step reset fails in the middle; the
flash controller keeps what an operation that failed has left in it; bytes of a connection come cut
anywhere, and what is refused is still in the stream.

What makes the components correct: the driver's cached facts are true and its accesses hit what was
asked (SWD); every task that waits will be answered, with the answer to its own question (tasks);
RTT reads only a target that is there (Firmware and RTT); the byte stream arrives in order, complete
(RTT); the interface servers run on is one the radio runs, and a lost station comes back (WiFi); an accepted
configuration is stored, and before a reboot (main loop); a bulk transfer moves each word asked for
once, in order, and leaves the address increment off (memory); an erase or a write that reports
success has done what was asked and nothing else, and an error reported is the operation's own
(flash); what is executed is what a client sent, whole, and each answer is that request's (HTTP,
binary API).

## 2. Modules

| Module | Models |
|---|---|
| `SwdTarget` | the debug port and access ports of a target, external to the repository: which outcomes one SWD transaction may have |
| `SwdInterface` | the driver and `reset_swd_target`, one action per public operation, a connection attempt part by part |
| `SwdInterfaceProofs`, `BulkTransferProofs`, `AirfrogTasksProofs`, `BinApiProofs`, `HttpConnectionProofs`, `RttStreamProofs`, `AirfrogMainProofs`, `FlashProgramProofs` | the theorems about the module each is named for |
| `BulkTransfer` | bulk reads and writes of memory with the address increment around them, word by word, among all operations of `SwdInterface`, which it extends |
| `FlashProgram` | erasing and programming of flash on an STM32F4 and an STM32G0, access by access, with the flash controller as an external part |
| `AirfrogTasks` | HTTP servers, Target, Firmware and RTT tasks, their channels, signals and timeouts |
| `BinApi` | a binary API session, command by command; extends `AirfrogTasks`, of which a session takes the Target task |
| `HttpConnection` | one connection of an HTTP server, byte by byte: how requests are cut out and answered |
| `ByteStream` | what RTT promises, abstractly |
| `RttStream` | the bytes RTT moves, one target access per step; implements `ByteStream` |
| `AirfrogMain` | main and the WiFi controller: start of the network, configuration store, reboot |
| `MC*` | constants and symmetry for TLC |

### How code and model correspond

**SwdTarget / SwdInterface.**  An operation of the driver is an operator from a state record to the
set of states it may end in, composed of transactions with `Then`, which is Rust's `?`: the first
error ends the operation and leaves everything done before it.  Each transaction has every outcome
the wire allows: no acknowledgement (with or without the target gone for good), WAIT, FAULT, damaged
parity on the way in or out, a bus error that shows at once or with the next CTRL/STAT.  `drv` holds
the fields of `SwdInterface`, `dp` the target.  One object, one owner, no concurrency: an operation
is one step, except connecting, whose parts (`boot.at`) are steps so that the target may go away
between them.  `obs` and `last` are history: the properties read them, no operation does.
What the model takes as the target's behaviour: a line reset sets DPBANKSEL to 0 and keeps APSEL,
APBANKSEL, power and CSW; a sticky flag makes the target FAULT everything but IDCODE and CTRL/STAT
reads and ABORT writes; a write with a damaged data phase is dropped; a target that did not
acknowledge may be gone until the next reset sequence.  Memory contents are abstracted to the
address a word was read at, which is what the properties need.

**BulkTransfer.**  `xfer` is a transfer under way: where it is (`at`), what it was asked for, the
words left in its chunk (`todo`) and done (`count`, what an error returns), and what it has moved.
The caller's call is `BulkStart`; `BulkIncOn` and `BulkIncOff` are the `set_addr_inc` of debug.rs
around it; `BulkChunk` begins a chunk of `read_mem_bulk` / `write_mem_bulk`; `BulkRead`,
`BulkReadLast` and `BulkWrite` are the turns of the loops of `read_drw_bulk` and `write_drw_bulk`, and
`BulkCheck` their error check at the end of a fast chunk.  A step is one word, so the target may go
away between two.  A word read is the address it was read at; reads are posted, so the first AP read
of a chunk returns an older word and the last comes from RDBUFF, as in the code.  The target's TAR
wraps at the end of a page of `PageWords` words, which stands for the 1 KB of SWD_MEMORY_BOUNDARY.
Addresses are words, which leaves out the check for alignment; they wrap, as u32 arithmetic does in
the release build (Cargo.toml:85, `overflow-checks = false`).  The raw bulk accesses of one AP register
(`DoRawBulk`, in `SwdInterface`) are a step of two words each: they use the same loops.  The step is the
whole handler, of the REST API or of the binary API: both put the address increment on before, only the
REST API takes it off again.

**FlashProgram.**  An operation is a sequence of runs, `op.todo`, one for each sector, word or doubleword
its function works on; a run is the sequence of accesses made for it, of which `op.at` is next.  Each access
is a step with an action of its own, and each may fail, which ends the operation except where the code ignores
errors while it cleans up.  `op.cr` is the local copy the code modifies and writes back.  The
controller is written after ST's reference manuals as far as the code relies on it: CR with LOCK, PG,
SER/PER, MER and the sector or page number, keys, error bits, a job that ends by itself (`Finish`), and the
half-written doubleword of an STM32G0.  `used` is the words that are not blank.  A target may reset at
any step.  Words are programmed whole, by their numbers; `SectorOf` says which sector a word is in, and
`BitsOf` which bits are set in a sector's number: of these CR keeps what fits its field.

**AirfrogTasks.**  A step is what a task does between two awaits that are not ready.  `tq`, `fq`,
`rq` are the request channels, `tsig`, `fsig`, `rch` the answers, `ctrl` and `rctrl` the control
signals.  A message carries a history flag `fresh`: its sender still waits for its answer.  A
timeout (`SrvTimeout`, `FwDecodeTimeout`, `FwHandlerTimeout`) happens only to a future that is
blocked, because a guarded future is polled before its timer.  What an SWD operation does to the
target is the outcome connected / not connected; what a decoder finds is an input.

**BinApi.**  `api.at` is the await the session is at; `api.taken` what it has read of the command under
way, `api.todo` what the client still has to send of its own.  A step reads one item: a command byte,
the arguments, or the words after them, as `async_recv` does.  The client sends items in order, may put
a refused value in any, and never has to wait for an answer.  What a command does to the target is
`SwdInterface`.  `BinAccept` and `BinEnd` of `AirfrogTasks` are the first and last step of a session.

**HttpConnection.**  `server.at` is the await of one server task.  `ReadHead` is a turn of the loop of
`handle_request` that fills the header buffer, up to the parsing of the head; `ReadBody` one of the loop
that reads the rest of a body; `Route` everything `AirfrogTasks` has in detail.  A byte is the number of its
request, its place there and whether it ends a line, so that it shows where each byte ends up and where a
blank line is, in a body as well.  What is up to a blank line and not a head as a client sent it, be it
left of a request that was not read or joined to the head that follows, is whatever its bytes happen to
say: `Parse` refuses it, or takes it for a request that states any length the server has room for, and
routes it.

**RttStream.**  A byte is its number.  Each read or write of the target by the RTT task is one step,
with the target writing or resetting in between.  A reset makes the control block read as zero until
the firmware sets it up again; the bytes stay in RAM.  `faith` is what may still be promised of the
stream: "exact", "again" after a failed write (bytes may come twice), "broken" after a reset, "torn" after a
reset between two accesses of one start or poll, which the code cannot tell.

**AirfrogMain.**  `main` is the await main is at; `control`, `status`, `store` and `reboot` are the
signals.  The controller's `select3` is split by what wakes it (`CtlControl`, `CtlConnect`,
`CtlDisconnected`), with its order of polling as guards; `ctl.connected` outlives a change of mode as
`sta_connected` does.  A mode is the set of interfaces it runs, so `enable_mode` and `disable_mode`
add and remove one.  A name in a configuration is "whole" or "cut"; addresses and passwords decide
nothing here.  Reading, writing and the radio may fail (`Fails`); the history `failed` says so, since
what the properties promise then is less; `due` is the configuration a client was told is accepted.  Power may
go at any step, also within a write.

`AirfrogMain` and `AirfrogTasks` meet only in "servers run": the first says when and on which
interface, the second what they do then.  `RttStream` details the RTT task of `AirfrogTasks`, which
has the same awaits but no bytes.  `HttpConnection` details what comes before and after a request of a
server of `AirfrogTasks`.  `AirfrogTasks` uses of `SwdInterface` whether a target is connected;
`FlashProgram` takes of it accesses that succeed or fail.  `BinApi` and `AirfrogTasks` are composed, and
so are `BulkTransfer` and `SwdInterface`; all in one would be out of TLC's reach.

## 3. Runs

| Run | Shows | Bounds |
|---|---|---|
| `swd` | cached SELECT true, connection facts true, single reads and writes hit their word, bulk transfers move the words asked for, each once and in order, and leave the address increment off | transfers of up to 3 words from any of 4, in pages of 2: within a page, up to its end, across one and two ends, and around the end of memory; 1 AP; an STM32F4, a target of an unknown IDCODE and an RP2040, which answers multi-drop only and is probed as an STM32G0 first |
| `swd_raw` | with raw accesses, single and bulk, which switch the power check off and may leave it so: any reset sequence, failing or not, leaves it on | 2 APs, so that the cached SELECT may name the wrong one, 1 word, one kind (a Cortex-M33, of which nothing more is read) |
| `flash` | an erase touches only what was asked and does it; a write that succeeds is in flash; errors are the operation's own; unlocking may be repeated; every operation ends | both MCUs, one of another kind, one unknown; 2 sectors of 2 words; erasing sectors 1 and 2, the second of which does not exist; blocks of 1 and 2 words from words 0 and 1, so that a doubleword is whole, cut, and crossed |
| `tasks` | no wait without its question on its way, every answer is to the last question | two servers, all routes, binary API sessions in between, nothing times out |
| `tasks_timeouts` | no timeout leaves a waiter behind; RTT reads its own answers and runs only with the Firmware task | one server asking the Firmware and the RTT task, firmware whose control block is found or not, every timeout |
| `tasks_control` | what a binary API session handles is a whole command the client sent; liveness: a target that stays away ends with the Firmware task stopped, and a session ends unless a client goes on with it | REST resets, raw resets, settings; every shape of command (`Sends`), with every part that can be refused |
| `rtt_stream` | in order, none skipped, exactly once while no write fails, a refinement of `ByteStream`; a reset between polls is noticed before its ring is read | a ring of 4 in the target and a local one of 3, up to 2 bytes per access, 5 bytes, one reset: both rings wrap, full and empty |
| `rtt_drains` | liveness: what the target writes reaches a client | rings of 4 and 5, up to 3 bytes, 9 bytes |
| `main` | servers run on an interface that works; a configuration is stored before a reboot; airfrog ends up serving; an accepted configuration gets into flash, and stays there until another is accepted; a lost station comes back | both modes, radio and flash that fail, one loss of power; reboots and reconnections unbounded |
| `http` | whatever is routed is one piece of what was sent, leftovers included; a request whose head was found is routed with exactly its body; a client that waits gets one answer for each, its own, and gets it; a client that goes frees the server | 3 requests on a connection, connections unbounded; a header buffer of 5 bytes with heads that leave room, fill it and exceed it, bodies of up to 2 bytes read and of up to 3 left, with a blank line and without, that come with the head in part, whole, or not; leftovers may state any length up to 2 |
| `own_response`, `no_panic` | counterexamples, see section 6 | |

Two servers are enough for what one may do to another: they share the three request channels, and
each has answers of its own; with a channel capacity of two, two servers and the two other askers
fill it.  One server suffices where a timeout makes a server its own rival.  Three requests are one more
than an error in the first needs to show in the second, and in the third that it lasts.  An operation
on flash never depends on more than the one before it, but through CR and SR, which are in the state.

**Fairness.**  `TargetFairness` and `FwFairness` are weak fairness on what the executor does with a
woken task and strong fairness where a sender that waits for room may lose it to another, or where
the timer competes with requests: the timer's deadline stays expired and the loop checks it after
each request.  `BinFairness` has the session go on where it needs nothing of the client, and give a silent
client up where it has a timeout.  `FairSpec` of `RttStream` assumes that the Target task answers,
timers expire and clients keep reading.  `FairSpec` of `FlashProgram` has the operation make its next
access, of which none need fail, and the controller end its jobs.  `Spec` of `HttpConnection` has the
server go on when there is something to read or to say: a client may stop anywhere, but reads its
answers.  Nothing assumes that a target answers, that a connection succeeds or that RTT is started
again.  `MainFairness` has main and the controller run when they can, and main's timeout expire; that
a station ever connects is an assumption of `Reconnects` alone, in its formula: `connect_async` is
called again whenever it fails.

**Deadlock** is not checked in two runs, because the system really stops there: in `rtt_stream` the
RTT task may panic (section 6), in `main` a radio that fails to start leaves main waiting for a
status nobody signals, with no server and no way to reboot but the power.

## 4. Proofs

TLAPS proves, for every value of the constants their named assumptions allow, 38 theorems: every invariant and
action property of the passing runs is stated by one, and one refinement is proved beside them.  Every
inductive invariant was first checked by TLC on the instance of a run.  The proofs go bottom-up, like the
models: lemmas about operators, what each step does to one part of the state, then the temporal step.

**`SwdInterfaceProofs`**, for every set of APs, memory size and set of target kinds, with and without raw
accesses: `Typing` (TypeOK), `Coherence` (SelectCoherent), `Connected` (ConnectedFacts), `Gated`
(PowerCheckOn), `ReadsReturn` (ReadReturnsRequested) and `WritesLand` (WritesLandAsAsked).  The first four
follow from `Invariance`, `Spec => []IInv`.  `SelectCoherent` is not inductive: it says nothing while the
debug domain is not powered up, and raising it needs the target's DPBANKSEL to be 0 by then.  `DpBankZero`
adds that, and `BootFacts` what a half-finished connection has established; `PowerCheckOn` is needed because
an AP access under a switched-off check could run before power-up.  Each transaction leaves the state record
in a set of reachable ones (`Reach`, what no standard operation changes), composed with one lemma about
`Then`.  The last two theorems are about what an operation returns and writes.  A state is `Clear` while the
wire is undisturbed, and `Aimed` at a register once the power check has passed and the cached SELECT names its
bank; that SELECT is the target's, by SelectCoherent, so an access that is aimed hits that register of the
MEM-AP and no other.  Each read or write is then followed transaction by transaction: it is `Lost`, with
nothing written, or `Passed`, with TAR or RDBUFF where the next transaction needs it.  Assumptions:
`TargetAssumption` (AP 0 exists, at least one word, kinds known), `RawApiAssumption`.

**`BulkTransferProofs`**, for memory of every size and pages that divide it, transfers of every length and all
operations of the driver among them: `BulkTyping` (BulkTypeOK), `BulkOrdered` (BulkInOrder), `BulkIncOffLast`
(IncOffAfterSuccess), all parts of `BulkInvariance`, `BulkSpec => []BulkIInv`; and, since the words of a
transfer are steps `Spec` does not have, once more what holds of `SwdInterface` alone: `BulkCoherence`,
`BulkConnected`, `BulkReadsReturn`, `BulkWritesLand`.  `BulkInOrder` says nothing of the target, which decides
what the next word will be.  `BulkIInv` adds how far the transfer has come, its chunk within its page
(`Progress`); that nothing has disturbed the wire since it began, else it would have ended (`Steady`); that
the increment is on, SELECT names DRW's bank, and TAR and the word posted in RDBUFF are at the next word,
unless the target flags an error (`Placed`); and that what has moved is what is counted (`Accounted`).  A
flagged error excuses `Placed`, because the access that follows fails.  Within a page the target's increment
and the code's u32 address agree (`NextWord`), which is why each chunk must end with its page.  Each way a
transfer goes on is a lemma about the transfer alone (`ChunkHolds`, `WordHolds`, `DoneHolds`, `FailedHolds`),
and what its transactions do to the target another (`BegunSeen`, `WriteWordSeen`, `FetchSeen`); the steps
combine one of each.  Assumptions: `MaxLenAssumption`, and those of `SwdInterface`.

**`AirfrogTasksProofs`**, for any number of servers (`TasksAssumption`): `TasksTypeCorrect` (TypeOK),
`WaitsAreAnswered` (NoOrphanedWait), `RttReadsItsOwn` (RttReadsOwn), `AnswersAreOwn` (AnswersOwn, under
`~Timeouts`: with them it is false, see `own_response`) and `RttRunsUnderFw` (RttFollowsFw).  A channel
with its handler and its answers is one record (`TargetChan`, `FwChan`, `RttChan`: queue, message being
handled, signals, who waits).  Every action, each way through it, is proved once to be a step of the three
(`ChanStep`: ask, read an answer, give up, receive, respond); each theorem is then about those few steps.  `TypeInv` adds to TypeOK what each await implies.  `Cared` (who waits is
pending) is inductive for each owner; `Sole` adds for an owner that never gives up that nothing else
of its own is about, which is why its answer is its own.  `Quiet` says that RTT is stopped or told to
stop, the form of RttFollowsFw every step keeps.

**`BinApiProofs`**: `SessionsImplementTasks`, `BinSpec => Spec`: a session step by step is a refinement of
the session as one step of the Target task, so that all theorems about the tasks hold of it.
`CommandsAreWhole` (OnlyWholeCommands) needs `ApiInv`: what has been read and what is still to be read of the
client's own item list make up one command it sends, at each await.

**`HttpConnectionProofs`**, for buffers, requests and connections of any size: `HttpTypeCorrect` (TypeOK),
`RoutedWhole` (RoutedInOnePiece), `RequestsAreWhole` (OnlyWholeRequests), `ClientsGetTheirAnswers` (AnswersOwn).
`HttpInv` says that what the task holds and what is still to come is one piece of what the client sent
(`Stream` of `Line`), and that a head was cut at the first blank line and, where it is a head the client
sent, states that request's length (`HeadRead`).  None of this asks what leftovers say: what is left at the
front of the stream may be refused or routed, and the rest is a piece still.  `InOrder` says what of the last request is left at
each await of the task, for a client that waits for answers and has been answered no request the server had
not read to its end; it implies that no answer is early or late, and that a head that comes is that
request's.  `RequestsAreWhole` and `ClientsGetTheirAnswers` promise nothing of order after such a request,
because the code does not keep it (section 6).  Assumption: `HttpAssumption`.

**`RttStreamProofs`**, for rings and accesses of every size (`RttStreamAssumption`): `StreamTypeCorrect`
(TypeOK), `ResetsAreNoticed` (ResetNoticed), `NothingIsLost` (NothingLost) and `RttImplementsStream`
(ImplementsStream).  A ring is read through its items (`Count`, `Nth`), about which there is a lemma for writing
and one for dropping, wrapping or not; nothing else argues with `%`.  `StreamInv`: a poll asks
for what the ring holds and the local buffer has room for (`Polling`); past the read position it does not go
by what the target was before a reset (`Synced`); both rings hold bytes that were written, and a poll the first
of those unread (`Meant`); and the bytes run on from one ring to the other, but for the chunk both hold
before the new read position is written (`Flowing`).  The refinement is proved step by step: a `Put`, a `Get`, a reset, or a step
nobody sees.

**`AirfrogMainProofs`**, for any configurations, failures and losses of power: `MainTypeCorrect` (TypeOK),
`ServersAreServed` (ServedRuns), `RebootsKeepUpdates` (the action property RebootKeepsUpdate).
`ServedRuns` is about servers that run; `Starting` says for each await before that what the signals on their
way and the controller will make of the radio, stale ones included.  `Keeps` follows an accepted
configuration from the store signal into flash.

**`FlashProgramProofs`**, for both MCUs, any sectors, blocks of any length and alignment, with accesses that
fail and a target that resets anywhere: `FlashTypeCorrect` (TypeOK), `FlashEraseExact` (EraseExact),
`FlashWriteDone` (WriteDone), `FlashErrorsAreOwn` (ErrorsAreOwn) and `FlashUnlockOpens` (UnlockOpens).  What is
true at an access depends on which accesses its run has made (`Past`).  So a run is known only by what comes
before what in it (`Ordered`, `RunOk`), which is shown of every run an operation begins with, for every block and
every sector (`Begins`), and the invariant speaks of what is past: an STM32G0 that has been waited for is
idle and its errors are then the operation's own (`Idle`); CR, and the copy of it, name just the sector asked for
(`Modes`, `Erasing`); a job and what it has done are within what was asked (`Own`); and unless something has
failed each target of the operation is done, is the job under way, or belongs to a run that is left (`SetUp`,
`Doing`, `Blank`).  All accesses share one form (`StepForm`): what an access can make of the controller
(`Effects`) and how the operation goes on.  `FlashAssumption`: what is written is in flash, and sectors that
exist have different numbers that fit CR's field.

**Only model-checked.**  Liveness (`DisconnectStopsFw`, `SessionsEnd`, `Serves`, `Stored`, `Reconnects`,
`Answered`, `ServerFreed`, `Drains`, `OperationsEnd`): fairness and ENABLED are out of TLAPS's reach
here.  So are the two counterexamples of section 6, which are behaviours.  No module uses RECURSIVE.

## 5. Plan

The modules planned are written, and the safety properties planned are proved.  What is left:

1. The liveness properties rest on TLC's instances alone; a prover that handles fairness could take them over.
2. What section 7 leaves out, above all the DHCP and DNS tasks and a client that stops reading.
3. A new operation of the driver joins `StandardOps` or `BulkOps`; its proof is then one more lemma on `Reach`
   or one more pair of step lemmas, and the theorems stay as they are.

## 6. Where the code does not do what it says

Two runs end in a counterexample to what a comment or an assertion says:

- `own_response`: `handle_target_command` ("Handles commands by sending to the Target and returning
  the response", http/server.rs:388) waits on a signal it has not emptied.  After a router timeout
  the late answer is taken for the answer of the next request, and so on for every later one.
- `no_panic`: `expect("Internal error: No STA config")` (main.rs:292).  The REST API accepts a name
  longer than its field and cuts it, maybe within a character; the name is then no string, there is no
  station to wait for, and main panics at this and every later start.

Other differences, seen while modelling, which no run is spent on:

- rtt.rs:494: the RTT task "is yielding in all cases" (rtt.rs:569), but the answer of a server that timed
  out fills that server's channel of one, and the RTT task then waits for it for good (`RttReply`).
- rtt.rs:513-515: when the restart after a target reset fails, RTT stays stopped; the page says "trying
  to restore" (assets/rtt.js:63), but only a new connection starts RTT again.
- rtt.rs:553: a buffer read as size zero (the target was reset between two accesses of a poll, which
  nothing tells) divides by zero; rtt.rs:153 accepts an index equal to the number of up buffers.
- rtt.rs:505-515: what the target wrote since a reset was noticed may be delivered again.
- firmware/mod.rs: after a decoder's timeout the reader takes the late answer for that of its next
  read; RTT keeps running on the old control block when a new detection finds no firmware.
- target/mod.rs:763: a raw reset connects without starting the Firmware task.
- interface.rs:1071: a raw AP read after a reset that failed compares with a cached SELECT nothing has
  written, and may read another AP than docs/REST-API.md:707 says.
- interface.rs:1142: the raw bulk accesses take a register, as docs/REST-API.md:743 and
  docs/BINARY-API.md:188 say, but always move DRW's words: `read_drw_bulk` and `write_drw_bulk` name DRW,
  and selecting its bank puts AP 0 back.  With a count of 0 a read takes one from zero (interface.rs:912);
  the binary API does not check the count, and leaves the increment it switched on to the next.
- interface.rs:1393: `addr_inc()` does not follow `set_addr_inc()`; nothing calls it.
- interface.rs:1867, 1883: with `last` true the fast accesses end the line's idle cycles the other way
  round than the parameter's name says.
- interface.rs:939, 1597: a fast write is said to avoid "checking DP CTRL/STAT for errors until the end",
  but `write_drw_bulk` checks after every word (interface.rs:975), and once more at the end.
- docs/REST-API.md:60, 639: `/api/rtt/read` is `/api/rtt/data` in the code.
- debug.rs, STM32F4: `erase_sector` sets the sector's number on top of the one CR holds, so that 1 and then
  2 erases 3, and after `erase_all` everything, where docs/REST-API.md:575 says one sector; the number
  has no bound, as an STM32G0's has; error bits are never cleared (debug.rs:459), so that one failed
  operation fails all that follow; a single word is written before PG is set (debug.rs:809); unlocking writes the
  keys to a controller that may be unlocked; a bulk write that an access ends leaves the increment on.
- debug.rs, STM32G0: the errors asked for leave out PGSERR, so that an erase after a failed write, or a write
  after a failed erase, may be dropped and succeed; a lost second half leaves the controller busy, and
  `stm32g0_wait_not_busy` waits for good; a word is written by programming its neighbour again.
- debug.rs: an erase of flash that is locked, or of a target that resets meanwhile, reports success.
- http/server.rs:171, 193: a request that is answered before its body is read (a method or a syntax there
  is not, a body that is too large, a head that is) leaves the rest to be taken for the next request, and a body of
  no stated length, or chunked, as well; alone, or joined to the head that follows, it is routed if it
  parses, as a request nobody sent (`Parse` has it); of requests sent without waiting, what came with the one before is lost.
- http/server.rs:830: the connection is said to end at a timeout, but neither reads nor writes have one: a
  silent client keeps one of the four servers.
- bin.rs:33: "closed if no activity in this time" (and target/mod.rs:125), but the arguments of a command are
  read without a timeout (bin.rs:186), and the Target task serves nothing else meanwhile.
- bin.rs: an unknown command closes the session without the answer docs/BINARY-API.md:136 gives it, and a
  client that closes its connection without the acknowledgement of line 19.
- airfrog-core/src/stm.rs: the table of an STM32F4's large-bank sectors has three of 16 KB and eight of 128 KB.
- net.rs: a reconfiguration that fails signals no status, and main waits for one.

## 7. Not modelled

- The SWD line protocol (protocol.rs): fixed bit sequences, no state; `SwdTarget` has its outcomes.
- Firmware decoders: parsers over external crates; what they find is an input of `AirfrogTasks`.
- Pages, assets, JSON, device information, error conversions: rendering and wording.
- In `AirfrogMain`: a network that cannot be built at all (an access point password that is cut to
  nothing), OTA updates (a TODO in main.rs), the DHCP and DNS tasks.
- What `Stored` excuses, since the code does it: a configuration that is accepted but not yet in flash when
  power is lost, one that comes in the second before a reset, and one whose write fails, are lost.
- In `BinApi`: a client that does not read its answers, and a socket whose buffers fill.
- In `HttpConnection`: keep-alive's header, paths and query strings; a client that stops reading.
- Registers and device tables (airfrog-core): constants; the fields the driver tests are in `SwdTarget`
  and `FlashProgram`.
