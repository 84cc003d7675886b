# Formal model of the Llama attention accelerator

This directory is a TLA+ development for the FPGA attention accelerator of this
repository: specifications of its control logic, TLC configurations that check
them on small instances, and theorems proved with TLAPS. `PROJECT.json` lists the
runs, the source lines every definition translates, one seeded bug per property
(a *mutant*: an operator marked `Mutant` in the module, which TLC must refute when
it takes the place of the original), the hazards and the theorems.

## 1. The system

The host program loads Q, K and V of one attention layer into DDR and starts the
accelerator through a GPIO register. The accelerator computes causal grouped-query
FlashAttention and writes the context back to DDR. In the product configuration:
128 positions, head dimension 128, eight GQA groups of four query heads, 4x4 tiles.

    test program (PS)  --GPIO-->  attention_board_top
                                     |  start edge, soft reset, status pages
                                  fpt_attention_board_engine
       DDR <--AXI--> aq_axi_master_fixed
                      |        |        ^
                V loader   raw Q/K     context writer
                      |     reader        ^
                      v        v          |
        V cache   RoPE preparation -> rotated Q/K cache
             \         QK array (4 systolic tiles, 1 read channel)
              \           | score stream
               \       score-tile FIFO
                \         | tiles
                 \     online softmax
                  +--> context backend (update PEs, dividers)

Beside it the repository has a Python client for a TCP protocol by which a PC sends
Q, K and V to the board and receives the context, with the protocol's C header (the
server program itself is not in the repository), and a small TCP echo program for the
board's processor with which the network link is brought up.

    fpga_attention_client.py  --TCP, attention_protocol-->  (attention server)
    eth_echo_test.py          --TCP-->  lwIP --callbacks--> echo_server.c
                                          ^-- main loop of main.c <-- timer interrupt

### Components, their state, operations and correctness

| component | state | operations | what makes it correct |
|---|---|---|---|
| score-tile FIFO (`flash_score_tile_fifo.sv`) | tile in progress, circular memory, pointers, counters, order flag | accept a score, store a tile, hand over a tile, clear | a bounded queue of whole tiles; scores sit where their coordinates say |
| board engine (`fpt_attention_board_engine.sv`) | FSM, latched DONE/ERROR, stage flags, counters | start, load V, launch, run, complete, fail | DONE and ERROR tell the truth about the run just made |
| board top (`attention_board_top.sv`) | start edge register | start pulse, soft reset, status words | one start per level written |
| test program (`fpt_attention_board_test.c`) | run number, poll budget, status read | reset, start, poll, judge | a pass is a complete clean run; it always ends |
| QK array (`qk_parallel_systolic_gqa_top.sv`, `qk_systolic_tile.sv`) | position, per-lane tile and feed counters, one outstanding request | start, feed a lane, skip a tile, merge results | every score of the group once, in the legacy order, from the right vectors |
| rotated Q/K cache (`rope_qk_group_cache.sv`) | memories, registered read | load, read | the vector delivered answers the request registered |
| score path (`qk_flash_attention_pipeline_top.sv`, `flash_attention_consumer_top.sv`) | group launched | start group, transfer, take | tiles arrive complete, in sequence, of one group; groups drain |
| V loader (`fpt_v_ddr_loader.sv`) | FSM, half vector, address | start, issue, stream, finish | a clean end means the whole V is in the cache |
| raw Q/K reader (`fpt_raw_qk_ddr_reader.sv`) | line buffer and tag, fill FSM | answer, miss, fill | an answer is the line asked for, of this run |
| context writer (`fpt_context_ddr_writer.sv`) | block buffer, packing registers, counters | start, accept a word, write a block, finish | a clean end means the whole context is in DDR |
| AXI master (`aq_axi_master_fixed.v`) | read and write machines, error flags | split a request into bursts, count beats, end | every beat of a request once; done after the last |
| online softmax (`flash_online_softmax_frontend.sv`) | maximum, denominator and presence of every row, tile in work | accept, prepare, rescale, weigh a column, hand over | what is handed over is the softmax of the row so far; the denominator fits |
| context backend (`flash_context_fusion_backend.sv`, update elements, dividers, V cache read) | accumulators, position in the tile, state of every element and divider | read V, update, divide, normalise, emit | every word is the attention of its row; every tile is finished |
| RoPE preparation (`rope_group_bridge.sv`, `rope_group_prepare.sv`, `rope_pair_pipeline.sv`) | group, pair in work | fetch, rotate, store, launch | the cache holds the rotated heads of the group before it is read |
| group sequencer (`flash_attention_system_with_rope_top.sv`) | group, totals | start, launch, count | the groups run in order, once; no start meets a busy stage |
| network client (`fpga_attention_client.py`) | READY, IN_FLIGHT or CLOSED, request in work, position in the stream | connect, send a request, collect header and context, fail, close | a context is the answer to this very request; a connection is only used again between frames |
| attention protocol (`attention_protocol.py`, `attention_protocol.h`) | none | pack, unpack, check a header | both sides mean the same bytes by a field |
| TCP echo program (`eth_echo/main.c`, `echo_server.c`) | timer flags, connection, bytes taken and written | main loop, receive, accept, close, error | what comes back is what was sent, all of it |

The components talk by valid/ready handshakes and one-cycle start and done pulses
within one clock domain, by GPIO and DDR with the processor, and by AXI bursts
with the memory. The code that is hard to test is where these meet:

* *one-cycle pulses and one-edge delays*: flags sampled one edge after what sets
  them (`error_latched`), start pulses only an idle stage sees, done pulses in any order;
* *back pressure at capacity*: accept and hand over in the same edge, entries
  reserved before they are needed, a channel stalled in the middle of a burst;
* *several lanes on one channel*: address, owner and delivery of a request
  over two edges, with work that ends in any order;
* *the soft reset*: it strikes at any time and does not reach the memory, which
  goes on serving the burst it has accepted;
* *runs after runs*: what an aborted, failed or finished run leaves behind;
* *a byte stream*: messages cut and merged anywhere, answers that come late or to
  somebody else, a peer that closes half way, a send buffer that is full.

Section `hazards` of `PROJECT.json` lists these at their lines.

## 2. How the models are built

Everything in the RTL runs on one clock. A step of a specification is one rising
edge (`Edge`): all registers take their next value from the current ones, as
non-blocking assignments do, and the inputs of the edge (handshake signals, work
that ends, faults that strike) are quantified parameters. So a wait of any length
is a choice of the environment, and nothing rests on the latency of an arithmetic
unit or of the memory. The two network programs are sequential: there a step is one
call that blocks, one frame, one callback or one interrupt. Assignments that a later one in the same `always_ff` block
overrides are merged into the value that wins.

Data is abstracted to what tells two data apart: a score is the coordinates it was
presented with, a vector is the request it answers, a memory beat its address and
the run in which it was read, a context word its row-major index and its run. A
property can then say that a datum is the *right* one.

History variables (section `VARIABLES \* history` of each module) are written only
for the properties and are read by no guard.

| module | models | correspondence |
|---|---|---|
| `TileQueue` | what the FIFO promises (abstract) | a queue of whole tiles and a partial one |
| `ScoreTileFifo` | `flash_score_tile_fifo.sv` | registers under their names, the seven parallel memories as one record; `Assemble`, `Enqueue`, `Dequeue`, `Clear` are the four outcomes of an edge |
| `MCScoreTileFifo` | constants of its run | |
| `ScoreTileFifoProofs` | theorems about it | |
| `ScoreStream` | what the QK array promises (abstract) | the n-th score sent is the n-th of the legacy order |
| `QkArray` | `qk_parallel_systolic_gqa_top.sv`, controller of `qk_systolic_tile.sv`, read channel of `rope_qk_group_cache.sv` | `Idle`, `Start`, `StartTiles`, `RunOn`, `NextLane`, `NextTiles` are the cases of the scheduler; `TilesStep` and `CacheStep` run at the same edge |
| `ScorePath` | `qk_flash_attention_pipeline_top.sv`, `flash_attention_consumer_top.sv` | composes `QkArray` with `ScoreTileFifo`, register by register: a step is one edge of both |
| `ScorePathProofs` | theorems about `QkArray` and `ScorePath` | |
| `GroupSequenceProofs` | theorems about `GroupSequence` | |
| `GroupSequence` | system top, wrapper, bridge, preparation, rotated cache, group registers of the pipeline | one next-value operator per register block, all stepping at each edge |
| `OnlineSoftmax` | `flash_online_softmax_frontend.sv` | one action per state; `Weight` and `LastWeight` are the two ends of ST_WEIGHT |
| `MCOnlineSoftmax` | constants of its runs | |
| `OnlineSoftmaxProofs` | theorems about it | |
| `ContextFusion` | `flash_context_fusion_backend.sv`, update elements, dividers, read port of the V cache | one action per state of the controller, elements, dividers and cache stepping at the same edge |
| `BoardEngine` | `fpt_attention_board_engine.sv` | one action per state; the three stages as seen through their ports |
| `BoardFirmware` | `attention_board_top.sv`, `run_engine`, `reset_engine`, `main` of the test program | extends `BoardEngine`: clock edges interleave with host steps |
| `BoardProofs` | theorems about both | |
| `ReadChannel` | V loader, raw reader, read half of the AXI master | one action per state of each machine, all stepping at each edge |
| `ReadChannelProofs` | theorems about it | |
| `ContextWriter` | context writer, write half of the AXI master | the same |
| `ContextWords` | the numbering of context words | row and column of a word, shared by `ContextFusion`, which emits it, and `ContextWriter`, which takes it |
| `ContextPathProofs` | theorems about `ContextWriter` and `ContextFusion` | |
| `ProtocolHeader` | header fields, constants and checks of a response | `validate_response_fields` and `unpack_response_header` under their names |
| `ProtocolBytes` | bytes of the headers in C and in Python | access functions and offsets under their names |
| `AttentionClient` | class `AttentionClient` and the functions it calls | one action per blocking call or outcome; the server, external, answers each request at most once, rightly or not, early, late or never |
| `EchoServer` | `main`, the callbacks of `echo_server.c` | one action per branch of the main loop; callbacks run inside the frame that causes them |
| `NetworkProofs` | theorems about the client, the header bytes and the echo | |

`ScorePath` composes array and FIFO in full detail, so that the back pressure the array
meets is the FIFO's own, and shows in the composition that the array implements
`ScoreStream`, the stream it promises. Elsewhere composition is by contracts.
`BoardEngine` keeps its stages as it sees them;
`LoaderIsAStage` of `ReadChannel`, `WriterIsAStage` of `ContextWriter` and the theorem
`CoreKeepsItsContract` about `GroupSequence` show that the detailed loader, writer and
core take only steps which the stages of `BoardEngine` can take (`BoardEngine`'s own
actions, instantiated over the detailed state).

`GroupSequence`, `OnlineSoftmax` and `ContextFusion` hand over to one another by what
each assumes: the array reads a complete cache (`VectorIsRotated`), tiles come to the
backend in the order in which the FIFO hands them over (`TilesInSequence`), and a clear
pulse finds the core at rest (`ControllersInStep`). The softmax is checked for tiles in
any order, since it has a check of its own; that the order of the FIFO never trips this check
is shown by two theorems, one on each side (`TilesFollowRows`, `NoFalseAlarm`), and that no
row is without a key by two more (`FirstTilesHaveKeys`, `EveryRowIsDivided`).

### Abstractions to know about

* `QkArray`: the MAC grid inside a tile, its flush and the scaler are phases that
  end whenever the environment says. The sum of products is the sequence of
  vectors accumulated. The cache is complete and enabled for the whole launch, as
  the bridge's ACTIVE state guarantees. The three statistic counters are left out.
* `ScorePath`: the softmax is whoever takes tiles. A group may be launched when
  array and FIFO are empty; the real top also waits for softmax and backend, which
  only removes behaviours.
* `GroupSequence`: a raw pair is where it was read and in which run, a rotated pair is
  that and the ROM address of its angle. The rotation pipeline, the array's work and the
  rest of the core may take any number of edges. The array asks in the order of one
  lane; `QkArray` has the others. The three totals, which take the same figures from
  every group, are one count.
* `OnlineSoftmax`: scores are the fixed-point integers the BF16 inputs become, and the
  exponential is a function of the distance to the maximum on a scale `ONE`. Group,
  head and row base are one block number. `out_valid` and `busy` are the state.
* `ContextFusion`: numbers are symbols: an accumulator is the sequence of products in
  it, the tile whose maximum they are relative to and the tile whose denominator they
  are divided by. The product with `alpha` is right only if the accumulator is relative
  to the tile before; the memory of the accumulators starts as a value that is wrong
  for every use, since the hardware does not initialise it. The elements of one
  row run in step, those of different rows do not. Every row has a key and is divided,
  which `FirstTilesHaveKeys` and `EveryRowIsDivided` prove of path and softmax.
* `AttentionClient`: the stream from the server is a sequence of frames with positions, so
  that what `recv_exact` collected is what lies between two positions; a header is two
  units and a context three, enough for every cut. Anything that does not begin at a
  frame is taken for a header with another magic, a context of other bytes for one with
  another CRC. Checks of the caller's inputs change nothing and are left out.
* `EchoServer`: a byte is its number in the stream, a chain the set of the ends of its
  pbufs. What lwIP does is its documented contract: data in order, `tcp_write` fails if
  the send buffer has no room, refused data is delivered again (from a chain that the
  callback has freed, so with whatever the buffers hold by then), lost segments are sent
  again by the slow timer. The result of `tcp_close`, which the code ignores, and a
  callback with an error *and* a chain, which lwIP does not make, are left out. So is an
  error of `tcp_output` (`echo_server.c:51`): the callback runs inside `tcp_input`, where
  lwIP puts the output off and returns `ERR_OK` at once. Where the fast timer
  delivers refused data again, output is real and may fail; that error, after data was
  refused and hence already lost (`echo_loss`), is not followed.
* `BoardEngine`: faults of a stage strike while it is active, those of the memory
  while transfers are outstanding. The error of the core is one flag.
* `ReadChannel`: V is loaded in the 8-lane mode. The core asks for one line pair
  at a time, and only for lines that exist. The host holds the soft reset for
  `RESET_HOLD_LOOPS`; that this outlasts the burst the memory is serving (RREADY is
  high during a reset) is the guard `memory.left = 0` of `ReleaseReset`.
* `ContextWriter`: the words come in the row-major order of
  `flash_context_fusion_backend.sv`, so that its check of row and column never fires. That
  the backend keeps this order is not taken on trust: `WordsInPlace` proves it of
  `ContextFusion`. A soft reset in the middle of a write
  burst leaves that burst open in the memory, which takes the first beats of the
  next run for it. `quiet` records whether a run was started on a memory without
  an open burst, and the properties are stated for such runs. Without it
  `CleanContextIsComplete` does not hold; the test program resets a running
  engine only after minutes without a result.
* The profiling counters of the engine other than `cycle_count`, the 32-bit width
  of the array's three counters, and the range checks that hold of every
  coordinate the model can produce are left out.

## 3. The runs

| run | instance | shows |
|---|---|---|
| `fifo` | one head of 4x4 scores, 2x2 tiles, three entries, any coordinate at any time | `EntryReserved`: no stored tile is overwritten though the last element of a tile is accepted whatever the occupancy; `StoredTilesWellPlaced`: unless the order flag is up every stored score is where its coordinates say and only the final tile is flagged last; `ImplementsQueue`: refinement of `TileQueue` |
| `score_path` | two lanes, three tiles per row (so the last pair is half empty), two heads, two groups, causal or not, two FIFO entries | `TilesInSequence`: the softmax gets every tile of the launched group in order, with the right masks, and the order flag stays low; `VectorIsAwaited`: the vector in flight belongs to the lane the request names, which still waits for it, and no tile above the diagonal is read; `ImplementsStream`: refinement of `ScoreStream`; `GroupDrains`: a launched group is taken to the end, whichever lanes finish first and however slow the softmax |
| `read_channel` | five vectors in bursts of four beats (10 = 4 + 4 + 2), two lines, two runs | `CleanLoadIsComplete`, `ResponseIsTheRequested`, `NoErrorWithoutFault`, `HandoverIsClean`, `ReadsEnd`, `LoaderIsAStage` |
| `context_writer` | two blocks of four beats in bursts of three, three runs | `CleanContextIsComplete` (in place *and* acknowledged), `NoErrorWithoutFault`, `RunEnds`, `WriterIsAStage` |
| `board_engine` | any timing of stages and faults, starts at any edge, resets | `FaultIsReported`, `NoSpuriousError`, `CleanDoneMeansAllFinished`, `StagesInTurn`, `StartedRunEnds` |
| `board_firmware` | three runs, two polls each, stages that may never end | `PassIsHonest`, `CleanRunPasses`, `StartTakenOnce`, `BenchmarkEnds` |
| `group_sequence` | two runs of two groups of two heads, four tokens in two banks, resets at any edge | `VectorIsRotated`: a vector the array takes is of its own group and run, at the place asked for, whatever the cache held before; `ControllersInStep`; `GroupsInOrder`; `RunEnds` |
| `online_softmax` | three tiles of 2x2 in any order of two blocks and six columns, scores that move the maximum by nothing, a little or beyond the table, any masks | `SoftmaxOfTheRow`: against the two-pass softmax of the whole row, weights (`WeightsOfTheRow`) and denominator (`SumOfTheRow`, with `LOSS` and `GAIN` zero: exactly); `DenominatorInRange` |
| `context_fusion` | two groups, two row blocks of two causal tiles, two chunks of features, elements of the two rows ending in any order | `ContextIsAttention`: against the sum over exactly the unmasked keys; `TilesConsumed` |
| `attention_client` | three requests over two connections, two request ids used again, frames of 2 + 3 units | `ContextIsOwn`: a context returned is the whole, intact answer to this very request; `ReuseAtBoundary`: a client that is READY has read its stream to the end of a frame; `FailureHasCause`: no cut of the stream makes a request fail; `RequestEnds`: also against a server that never answers |
| `echo` | four units, send buffer and window of two | `EchoIsExact`: a client with at most a send buffer on the way gets back what it sent, whatever chains, losses and late acknowledgements; `AllEchoed`: all of it |
| `echo_loss` | the same, any client | expected violation: see section 6 |

### Bounds, and why they are enough

* FIFO: three entries are the smallest memory in which first, middle and last entry
  differ and both pointers wrap apart. A stream found out of order is checked at that state but not
  followed further (`InOrderSoFar`), since every property but the pointer ones is
  conditional on the flag; the pointer properties are proved for every input.
* Score path: three tiles per row with two lanes make every case of the next-position
  chain happen, with a lane beyond the end; two heads make head changes happen; two entries let
  the FIFO stall the array in the middle of a tile's results; two groups follow each other.
  `DimMod = HEAD_DIM = 2` is the product's case, where the feed counter of a lane
  wraps to zero.
* Read channel: bursts of four beats over a load of ten and lines of four give a
  load of several bursts, a short last burst, and a request of exactly one burst. Two runs
  are one aborted or finished run and its successor.
* Writer: a block of four beats in bursts of three gives two bursts and a short one;
  two blocks give a block that is not the last; three runs let a run follow one that
  followed another without a reset between some.
* Engine: no bound but the width of the cycle counter, which no guard reads.
* Firmware: the gate run, which passes, and two measured ones, so that a run follows one
  that failed or was given up; two polls, so that a run is published at the first, the
  second or no poll. The cycle counter is one value wide, as no guard reads it.
* Groups: two heads and two groups make every carry of the fetch counters happen; two
  tokens per bank and two halves of a head make the addressing matter; two runs let the
  cache and the flags hold those of an earlier group and of an earlier run, finished or
  reset.
* Softmax: three tiles let the maximum move twice, or stay and then move, or appear
  only in the last tile. With `ONE = 16`, the exponential 2^-d and distances up to 3,
  rescaling a key that stays within the table is exact, so that the denominator can be
  compared with the reference; a key beyond it counts between zero and the last entry.
  Tables that are inexact are left to the theorems (section 4).
  A tile out of sequence is checked at that state but not followed further (`StopAtError`).
* Backend: two chunks make the chunk loops wrap, two row blocks the first-tile test
  matter after an earlier block, two groups the address and the last flag. Symbolic
  terms need no arithmetic.
* Client: a context of three units and a header of two can be cut everywhere; two
  connections and three requests let a request follow a success, a failure or an
  interruption on the same and on a new connection; two ids and two token counts let
  crossed answers match in one, the other or none. One of the ids is 0, which the
  caller's checks allow and an unsolicited refusal carries too.
* Echo: a window of two units lets a chain have one or two pbufs, four units make window
  and send buffer fill twice. `MaxEchoed` only bounds how often refused data comes back.
* Symmetry is not used: lanes, groups, lines and runs are ordered.

### Fairness

* `ScorePath`: the clock runs, the work of every lane ends (floating-point pipelines of
  fixed latency), and the softmax comes back for each tile.
* `AttentionClient`: the client's thread runs and a receive without data ends after
  `io_timeout`. Nothing is assumed of the server's progress.
* `EchoServer`: the main loop runs, the timer ticks, a frame of the client is read some day
  and what is sent to it again and again reaches it (strong fairness, since a frame may be
  lost any number of times in a row but not for ever).
* `BoardEngine`: the clock runs, and each busy stage ends some day; the latter is
  shown for loader and writer by `ReadsEnd` and `RunEnds`.
* `ReadChannel`, `ContextWriter`: the memory takes every address, delivers or takes
  every beat and answers, as AXI requires; the V cache and the core come back.
  Nothing is assumed of the host.
* `GroupSequence`: the reader accepts and answers (`ReadsEnd`), the arithmetic ends, the
  array and what follows it go on (`GroupDrains`, `TilesConsumed`), the
  context is taken (`RunEnds` of `ContextWriter`). Nothing is assumed of starts and
  resets.
* `ContextFusion`: the floating-point cores of each row accept and deliver, and the
  writer is ready, again and again.
* `BoardFirmware`: only that the processor goes on and that each GPIO write is seen by
  a clock edge before the next one. Stages may hang for ever; the poll limit is what ends
  the program. Deadlock is not checked in this run: the program stops with the test.

## 4. What is proved

TLAPS proves these for every value of the constants allowed by the named
assumptions: `FifoAssumption`, `QkAssumption`, `PathAssumption`, `CycleAssumption`,
`SoftmaxAssumption`, `FusionAssumption` and `GroupAssumption` (the checks of the RTL's initial
blocks, the widths of registers, and the first entry of the table), `TableAssumption` (how far
the table is from an exponential; every table satisfies it with some `LOSS` and `GAIN`),
`ReadAssumption` (whole
vectors and pairs, something to load, no empty burst), `WriterAssumption` (rows of whole
beats of at least two words, something to write, no empty burst), `FirmwareAssumption` (at
least one run and one poll), `ProtocolAssumption` and
`ClientAssumption` (the constants of the protocol, and what the caller's checks let
through), `EchoAssumption` (window and send buffer hold something).

`BoardProofs`, the engine. The invariant is `IInv`, the conjunction of

* `TypeOK`;
* `ControlInv`: in which states a stage can be busy, started or done;
* `FinishedInv`: the latched done flags and the FSM state say which stages finished
  in this run;
* `FaultInv`: a fault keeps some error flag up until the flag is latched.

`FaultIsReported` by itself is not inductive: it speaks of the moment DONE is up,
while the fault struck long before in a stage whose flag may have been cleared since. The
heart is the clause on `core.clear`: the core clears its errors one edge after its
start, so a fault must not hide only there. `Invariance` proves `Spec => []IInv` with
one lemma per kind of step (`InitInv`, `ResetInv`, `StartInv`, `RunInv`, the last by
the state of the engine), on top of two lemmas that say field by field what an
edge does to the stages (`StageFields`) and which inputs it can have (`EdgeInputs`).
`TypeCorrect`, `FaultReported`, `NoFalseAlarm`, `CleanDone` and `StagesAreInTurn`
follow from it.

`ScoreTileFifoProofs`. The invariant is `TypeOK /\ EntryReserved`. The two need
each other: the occupancy stays in range because a tile in progress owns an entry,
and an entry can only be owned by pointers in range. The arithmetic of the ring is
in lemmas on `SlotFrom` and `next_ptr`, which keep the products and the modulus
away from the steps. `TypeCorrect` and `NoOverwrite` follow.

Two theorems go on from there. `TilesWellPlaced` says what the entries hold. It needs
the same of the tile in progress (`ProgressInPlace`): each score so far was written to the
cell of its own coordinates, because the order checker compared these with the count. A
stored tile is then whole, and neither a transfer into another entry nor the pointers'
moves touch it (`StayInPlace`, `SlotsDiffer`). `Refinement` maps the ring, from the read
pointer on, and the tile in progress to the sequences of `TileQueue` (`QueueIsRing`). One
lemma per outcome of an edge shows which action of the queue it is; the four outcomes are
`ClearFlushes`, `AssembleAccepts`, `EnqueueAccepts` (with or without a delivery in the same
edge) and `DequeueDelivers`. Counters that wrap are compared modulo their width.

`OnlineSoftmaxProofs`, the denominator. `DenominatorInRange` says that that of an active row
is at least 1.0 and at most 1.0 for each key so far: the first bound is why the backend
may keep 31 bits of the reciprocal, the second why the denominator fits `L_W` bits. It
is assumed of the table only that it starts with 1.0 and holds nothing larger
(`SoftmaxAssumption`). The property speaks of the moment of hand-over, so the invariant
follows the tile through its states:

* `WorkOrder`: the new maximum is not below the old one nor any score of the tile, and
  is one of them. Without it no distance is known not to be negative;
* `WorkBounds`, `KeptRows`: what the row brings along obeys the bounds for the tiles
  before, which the check of the sequence ties to the column expected;
* `SumBounds`: the factor is 1.0 if the maximum stays; if it is a score of this tile,
  the sum holds 1.0 once that column has passed. So one of the two summands always
  brings the 1.0;
* `Fresh`: the columns and the sum start from zero.

The rounding shift and the modulus are nonlinear and live in lemmas (`QuotientAtMost`,
`QuotientAtLeast`, `Rescaling`, `SmallModulo`, `MultiplesApart`), the existence of a
maximum in `BoundedMaximum`. `UpdatedDenominator` puts the two bounds of a row together.
`Invariance` follows by one lemma per action, `TypeCorrect` and `DenominatorBounded`
from it.

`OnlineSoftmaxProofs`, the weights. `WeightsOfTheRow` compares an output with all tiles
given since column 0, and so does the invariant `GivenInv`. `InRow` says that the first n of
them belong to one block and where, `Top` that a pair of flag and number is the maximum of
their unmasked scores for a row. `Kept` says this of what the rows keep, for the tiles
*before* the one in work; `AtWork` says it of the work registers, for all of them, from the
preparation on (`TopPrepared`); when the output is taken the rows have caught up. That the
check of the sequence accepts exactly the next tile of the block rests on the position not
wrapping within a row (`PlaceArithmetic`): it wraps to 0 at the end of a row of the full
width, where 0 begins another row. `TopOfKeys` ties the tiles to the set of keys the
property speaks of. `WeightsAreSoftmax` follows.

`OnlineSoftmaxProofs`, the sum. `SumOfTheRow` compares the denominator with the sum, over every
key of the row block, of what the key counts at the maximum of the whole block. The hardware
never computes this sum: it weighs each key at the maximum it knows then, and multiplies
what it has when the maximum moves. A table has `exp(d + e)` for `exp(d) * exp(e)` only up
to an error, which `TableAssumption` names: `LOSS` is how much a rescaled key may lack,
`GAIN` how much it may have too much. The theorem holds for every table and says that the error of
the denominator is this, once for each key and each tile after it, and nothing else. For the table of
`mem/exp_lut_q15.mem` the two are about 500 units of 2^-15 each, since its grid is 1/64; on
the instance they are zero and the sum is exact.

* The sums are recursive functions (`SumTo`). `EveryNumber` is induction over a set of numbers, from the
  well-foundedness of `<`; with it `SumRecursion` shows that the function exists and obeys its
  recursion, `SumCongruence`, `SumType` and `SumComparison` that sums agree, are numbers
  and compare as their terms do.
* `KeyRescaled` is the step for one key, inside the table, at its end and beyond it. `TileShares`
  and the lemmas after it carry it through the two sums. The bounds are whole
  numbers, so that rounding to the nearest one never leaves them (`DenominatorRescaled`),
  and `DenominatorInRange` keeps the sum from wrapping.
* `SumInv` follows the sum through the states: what the rows keep is `Between` the bounds of the
  tiles before the one in work (`SumsAtRest`, `SumsPreparing`, `SumsAtWork`), the columns that
  have passed are in `tile_sum` (`TileWeighed`), and both together are the output (`SumsOut`).
  `Slack` counts how often the error was added; it grows by the keys so far with each tile.

`SumIsSoftmax` follows from `SumInvariance`, and `OutputIsSoftmax` joins it to the weights.

The softmax and its producer. The check of the sequence must fire on tiles out of order
(`WeightsAreSoftmax` rests on it) and must not fire otherwise: `NoFalseAlarm` takes tiles in the
order of their rows (`TileInOrder`, a condition on the inputs of a step) and shows that
`protocol_error` stays low, however many tiles of a row are left out at its end.
`TilesFollowRows` shows of the score path, from `PathInv`, that the tiles taken come in this order;
it is the carry of the digits of a tile's number (`NextPlace`). In the same way
`FirstTilesHaveKeys` shows that the first tile of a row block leaves each row a key, and
`EveryRowIsDivided` that then no output has an inactive row or a denominator below 1.0
(`Attended` keeps the flags of the rows). The two sides speak of different models, so the step from one
to the other is made here: a tile that `ScorePath` takes is one that `OnlineSoftmax` accepts.

`NetworkProofs`, the bytes. The C side reads and writes header fields byte by byte, the PC side by
`struct` formats. `Le16RoundTrip` and `Le32RoundTrip` say that a written field is read back
for every value, buffer and place (through `Digit` and `Quotient`, which split a number by
256), `MagicKept` that the magic is accepted and survives the other fields, `LayoutsAgree`
that offsets and formats describe the same bytes. This is what lets `ProtocolHeader` and
`AttentionClient` take a header for the record of its fields.

`ScorePathProofs`, the read channel. `VectorIsAwaited` says that the vector in flight belongs to the lane that
asked for it, and that this lane still waits for it. It needs two more facts. `LanesInv`:
the lanes whose tile was sent, is skipped or beyond the last column are idle, so that
the scheduler never leaves a row of tiles while a lane is in need (`NoneNeeds`), since it
drops a pending request when it does. `FlightInv`: a request is pending exactly while
something is in flight, and there is only one such thing. `NeedsStays` keeps an unserved
lane as it is, `ArbNeeds` shows that the arbiter picks a lane in need, `RunningChannel`
follows the vector through an edge. That the checker of skipped tiles stays silent needs
the positions of tiles to be multiples of the tile size (`TilesApart`, `RowInTile`).

`ScorePathProofs`, the stream. `Refinement` shows that the array implements `ScoreStream`,
for every number of lanes, with or without skipping. Both number the scores, but the
array has only positions: `Number` counts in digits, head, row tile, column tile and place in
the tile, `PlaceInv` says that the score sent next has the number made of the array's own
registers, and each move of the scheduler is one carry. That a score is the sum of its *own*
products is `FedInv`: the tile of every lane from the emitting one on holds the first vectors
of its own dot products, and the lane's feed counter is their number modulo its width. A lane
that was served out of turn, or a counter that was not reset, would break it long before
the score is sent.

`ScorePathProofs`, the way to the softmax. `PathInv` counts: the scores of the tiles taken,
of those waiting and of the one in progress are all that was sent (`Counted`). As the array
numbers its scores in digits, quotient and remainder of this count by the size of a tile are
the tile and the cell where the FIFO expects the next one, so its order check stays silent;
`Waiting` says for each entry which tile it holds, with which mask. `TilesArriveInSequence`
follows. `ArrayInPath` carries the theorems about the array over, since a step of the path is
one of the array or leaves it alone.

`BoardProofs`, the test program. The invariant of the engine carries over, as each clock edge is one
of its steps and the processor changes none of its registers. `Levels` adds what the GPIO
register and the edge detector show at each place of the program, `OneRun` that from the
edge that saw the start the engine has left IDLE and no fault is older than the run,
`Verdict` that the status word that showed DONE still describes the run when it is judged.
`PassIsHonestAlways`, `CleanRunPassesAlways` and `StartTakenOnceAlways` follow.

`NetworkProofs`, the client. `ContextIsOwn` speaks of the end of a request and says nothing of
the stream before. The invariant follows the answer to the request in work: it was not put
yet (`Waiting`), it is the last frame and begins where the client began to read
(`Answered`), or a refusal nobody asked for stands before it (`Refused`). Frames do not
overlap and the client is behind the server (`StreamInv`), so a position names at most one
frame (`OneFrame`). `RestInv` ties the end of one request to the begin of the next: a
client that is READY is between frames. One lemma per action of client and server;
`ContextIsOwnAlways`, `FailureHasCauseAlways` and `ReuseAtBoundaryAlways` follow.

`NetworkProofs`, the echo. As long as the client never has more than a send buffer on the way, what
was echoed is what was consumed and nothing was refused (`Served`). The reason is `Budget`:
a unit was sent when all but the last `SndBuf` units before it had come back, and carries
this acknowledgement, so that the chain it ends finds room (`WholeChainWritten`).
`EchoIsExactAlways` follows.

`GroupSequenceProofs`. Five controllers with one-cycle pulses between them make one
machine, and the invariant `IInv` says which:

* `Control`: where each may be while the others are where they are, and which pulse may be
  up; `ControllersInStep` is a consequence. One long lemma (`ControlStep`) from lemmas
  that say what an edge does to each register block (`SysMoves`, `BridgeMoves`, ...);
* `Progress`: the groups finished are those below the active one, and the total agrees;
* `InWork`: the raw pair on its way through reader and rotor is the one the counters of
  the preparation name;
* `Filled`: the RAMs, which are not cleared between groups, hold the rotated pair of this
  group and run in every place before the one in work (`Earlier` orders the places as the
  counters do), hence everywhere once the preparation is done. `PlacesDiffer` is the
  arithmetic of the addressing: two places never share a word;
* `Reading`: what the output registers hold was read at the request still present.

`InStep`, `InOrder` and `IsRotated` follow. `CoreKeepsItsContract` shows that the core is the
stage `BoardEngine` takes it for, with no fault of its own, if it is never started while it
works; that the engine never does is part of `StagesInTurn`. `VectorIsRotated` alone says nothing of a
group that is still prepared, and would be lost at its first vector.

`ReadChannelProofs`. The memory, the master and the owner each count the beats of a request
in their own way: beats left in the burst, beats to be asked for less one, vectors stored
and half vectors held. `Channel` is the equation between them in each state of the master,
for every length and every burst size; with `NextBeat`, the beat that crosses is the one
whose place the owner's counter says. `Turns` tells which client is awake, so that the
beats are counted by one of them. `LoaderData` and `RawData` say what was stored where, and
`Errors` that no error flag is up without a fault; it is here that a wrong count would
show. During a soft reset only the memory is still at work; `ReleaseIsQuiet` shows that
what the reset leaves satisfies all of it again. `LoadIsComplete`, `ResponseIsRight`,
`ErrorsAreFaults` and `CleanHandover` follow from `Invariance`.

`LoaderKeepsItsContract` proves `LoaderIsAStage`: every step of the loader, with all its
registers and outside a soft reset, is one that `BoardEngine` allows the stage for V. With `WriterKeepsItsContract`
and `CoreKeepsItsContract` the theorems about the board rest on the components the board has.

`ContextPathProofs`, the writer. A word on its way to DDR is counted in words, lanes, beats,
bursts and blocks. `Counts` ties the counters of the writer together, `Filled` says what pack
register and block buffer hold, `Progress` is the equation between the address and the beats
left of the master and the beat the writer is at, state by state, for bursts of every length.
`Complete` says what of it the memory has: nothing else is open or unanswered, and every beat
before the one in work is in its place. It is conditional on `quiet`, as the property is;
the other parts are not, since after a soft reset the machines count correctly even though the
memory does not. `ContextArrives` and `WriterAccusesOnlyMemory` follow.

The condition `quiet` excludes runs started on a burst that a soft reset left open.
`ResetsAreHarmless` says which resets never leave one: those at which the memory has no
open burst and is offered no address. The second half is needed, since the memory takes an
address on offer at the very edge of the reset; with the first alone TLC finds a run
that is disturbed. `Undisturbed` says that between runs, and during such a reset, the memory has
nothing to do.

`ContextPathProofs`, the backend. The reference `Attention` speaks of all keys of a row,
while a step of an element adds one product. `Terms` is the sequence of the products of the
first keys that the row may see, `Sum` the symbol the hardware should have for it. `Held` says
for each state and each chunk of features which of these the memory of O holds: of the tile
before, of this tile, or divided. `Elements` says the same of an element at work, `Fetched` of
the V vectors, `Dividers` that the rows' dividers, started by one pulse, run in step and hold
quotients of this tile when they are read. The steps between the symbols are lemmas:
`PlusNext` (one more product, which is void for a masked key by `TermsMasked`),
`RescaledBefore` (the old accumulator, brought to the new maximum), `DividedDone`, `NextTile`.
`Order` places the tile in work in the order of the FIFO and counts the words emitted.
`AttentionEmitted` and `WordsInPlace` follow.

Model-checked only: the liveness properties (`GroupDrains`, `ReadsEnd`, `RunEnds` of writer and
of group sequence, `StartedRunEnds`, `BenchmarkEnds`, `TilesConsumed`, `RequestEnds`, `AllEchoed`),
as the prover has no reasoning about fairness. Every other property of a passing run is also a
theorem.

## 5. Plan

Done, in this order: score-tile FIFO and its abstract queue; board engine with
proofs, and the firmware around it; QK array, its abstract stream and the score
path; read and write paths to DDR with soft resets; group sequence and
RoPE preparation; online softmax with proofs; context backend; network client and
protocol; echo program; the array and the FIFO composed in detail; proofs about the
read channel of the array, the test program, the client, the header bytes and the echo;
proofs of what the FIFO's entries hold and of its refinement, of the group sequence and of
the read path to DDR; proofs of the stream of the array and of the score path as a whole, of
the contracts of loader, writer and core, of the writer, of the backend, of weights and sum of the
softmax, of its composition with the score path, and of the resets the writer survives.

Next:

1. `SystolicTile`: the skewed grid and its flush, against the plain product.
2. The profiling counters of the engine.

## 6. Findings and observations

`echo_recv` (`eth_echo/echo_server.c:34`) acknowledges the whole chain before it writes
any of it. If the send buffer is full, `tcp_write` fails, the loop breaks, and the rest of
the chain is freed without having been echoed; the result it returns makes lwIP keep the
freed chain and deliver it again. The header and the README of the program promise that
data is returned as it is, and the test `eth_echo_test.py` sends 1 MiB before it reads. The
run `echo_loss` shows a stream with units missing; the run `echo` shows that a client with no
more than a send buffer on the way is served exactly.

Two comments disagree with the code, with no consequence found:

* `fpt_attention_board_engine.sv:35` says "All counters are reset by a new
  command_start". A start that finds the engine in COMPLETE or FAILED only lowers
  DONE and returns to IDLE; the counters keep the last run's values until a second
  start. The test program is not affected, as it resets the engine before every run.
* `flash_online_softmax_frontend.sv:7` says that the denominator "is rescaled with RNE".
  Lines 254-257 add one half and shift, which rounds a tie up, to an odd value as well.
  The difference is one unit in 2^15, on ties only.

What the models show beside their properties:

* The clear pulse of a start reaches the consumer but neither the bridge, the
  preparation nor the array. That is harmless because the pulse only comes when they
  rest (`ControllersInStep`).
* The ACTIVE state of the bridge and the completion flag of the cache each suffice to
  keep the array from an unfinished cache; a mutant that drops one alone is not caught.
* In the first tile of a row block both `alpha = 0` and the zero seed of the elements
  discard the old accumulator. The seed matters while the memory is uninitialised, where
  zero times an undefined pattern need not be zero.

## 7. What is not modelled, and why

* The MAC grid inside a tile, the engine's profiling counters: planned above.
* `qk_systolic_gqa_top.sv`: the single-lane array, instantiated only when
  `QK_LANES = 1` without causal skipping, which the product does not use.
* Floating-point wrappers and conversions, the contents of the exponential table:
  arithmetic on data without control of its own.
* The counters of tiles and vectors in softmax and backend, which nothing reads but
  the status pages, and the checks of the backend that no tile of a run fails.
* The processing system, its DDR controller and GPIO: external; modelled from how
  the code uses them (bursts, beats, responses, and a register the host writes).
* Python programs that prepare models, vectors and golden data; Tcl scripts;
  the generated board design; test benches.
* `vitis/src/fpt_golden_vectors.h`: 71 thousand lines of generated numbers. By lines it is
  nearly all of the repository's C; the logic of the system is in the RTL.
* The attention server, which is not in the repository: the client is modelled against any
  server that answers each request at most once (early, late, wrongly, crossed, cut or
  not at all) and may refuse a connection unasked. One that answered a request
  twice could pass the second answer for that of a later request with the same
  `request_id` and `valid_tokens`, which the header cannot tell apart. The checks of the
  request header, which only the server would make, are left out.

## 8. Running

    tlc -config MCScoreTileFifo.cfg MCScoreTileFifo
    tlc -config BoardEngine.cfg BoardEngine          # and so on, see PROJECT.json
    tlapm BoardProofs.tla
    tlapm ScoreTileFifoProofs.tla
    tlapm ScorePathProofs.tla
    tlapm OnlineSoftmaxProofs.tla
    tlapm NetworkProofs.tla
    tlapm GroupSequenceProofs.tla
    tlapm ReadChannelProofs.tla
    tlapm ContextPathProofs.tla
