# TLA+ models of the basic_systemverilog hardware library

The repository is a library of building blocks: Konstantin Pavlov's modules
(`basic_verilog/*.sv`, `*.v`), the Altera Advanced Synthesis Cookbook
(`basic_verilog/Advanced Synthesis Cookbook/`, *ASC* below), UART and SPI links
(`SvLibDR/`), AXI and Avalon templates, and an AXI-Stream video VIP.  There is
no single program.  The blocks are small synchronous machines that whoever
instantiates them composes with others; beside them stand the cookbook's C++
programs, which compute a circuit, a schedule or a stimulus and print it.
What is hard to get right, and hard to test, sits in two places: where two
clocks, two handshakes or two blocks meet, and where a program decides
something that the circuit it prints must agree with.  That is where the models
are.

Contents: [how things are modelled](#how-things-are-modelled) ·
[inventory](#inventory) · [modules](#modules) · [runs](#runs-and-bounds) ·
[fairness](#fairness) · [proofs](#proofs) · [findings](#findings-and-observations) ·
[not modelled](#not-modelled) · [what could follow](#what-could-follow)

## How things are modelled

* A register is a variable; a step is an edge of a clock.  All non-blocking
  assignments of an `always` block read the old state and are primed together;
  where a later assignment of a block overrides an earlier one, the model says
  which wins.
* Input pins are chosen anew at every edge, under the restrictions that the
  block's header or its test bench states, which are named where they apply.
* Blocks with two clocks have one action per clock and one for both edges at
  once.  In the latter every bit that is being sampled settles by itself, in each
  flop that samples it, on its value before or after the edge: the outcomes of
  metastability a synchronizer lets through.
* An asynchronous reset is an action of its own, possible between any two edges,
  and sets every register in its sensitivity list; registers without a reset
  keep their value.  A synchronous reset is an input of the edge.
* Combinational outputs are operators.  Data words are members of a small set.
* A program that prints a circuit is modelled twice over: what it computes
  itself (tables, schedules, polynomials), and the circuit that its text
  describes, driven as the test bench in the repository, or the one the program
  prints, drives it.  The text itself is left out.
* A search or a pass of a program is a state machine whose steps are its loop
  iterations or recursive calls; what `rand()` may return is a choice.
* A call of an external library is a step that may succeed or fail; the calls
  are where another client of the same resource can come in between.
* Variables marked *history* are no registers: they record what the outside has
  seen (the last word taken, the events still owed, the damage done to a word),
  so that a promise about behaviour can be stated.

## Inventory

What each part keeps, what it does, what is hard about it, and what makes it
correct.  "M" marks the parts that are modelled; `PROJECT.json` lists every part
with its files, and the hazards with their lines.

| Part | State and operations | Hard | Correct when |
| --- | --- | --- | --- |
| M `ASC/ecc/reed_sol.cpp` | field arithmetic, generator polynomial, multiplier packed into six-input gates; the circuits it prints: encoder, syndromes, decoder, clocked transmitter and receiver | greedy packing; a receiver of four pipelined parts that hand a word on by clock counts while the next word arrives | every pattern of at most t wrong symbols is repaired, every damage up to 2t is seen |
| M `ASC/ecc/ecc_generate.cpp`, `ecc_2bit.cpp` | parity table, syndrome table, correction table; encoder, decoder, a memory with two ports | the three tables are built by different loops; the 64 bit decoder is split in two | one wrong bit corrected, two reported, the word last written is read |
| M `ASC/debug/read_c_probe.cpp` | chain locks, open nodes, two-character buffer, saved bytes; scan, command, main loop | every library call may fail with something locked or open; another client; results that main ignores | everything taken is given back, the right node found, no stale byte saved |
| M `ASC/interlaken_lane/make_lane_traffic.cpp` | metaframe counter, scrambler, CRC, error schedule, line weight, 64 bits of residue; four passes, then the bench it prints on `lane_rx` | each pass must agree with a receiver written elsewhere; the bench waits for reports one by one | clean lanes raise nothing, each injected error is answered, the text comes back |
| M `ASC/communication/gear_expt.cpp`, `gear_expt2.cpp` with `gearbox_40_67.v`, `gearbox_67_40.v` | storage, holding, choices of the phases, backtracking; printed schedule; gearbox pipelines, slip | the schedule is turned by hand because hardware shifts a clock earlier; slips move the cut in a pipeline | a schedule is found and, run round and round, loses and repeats no bit |
| M `ASC/random/make_scrambler.cpp` | window of words, drawn order, tables turned for the latency of the mux | draws that must never run dry; recentring at the end of the period; hand-made latency adjustment | the order is a permutation with bounded reach and the second unit undoes it under stalls |
| M `ASC/storage/mlab_dcfifo.v` with `mlab_fifo_cells.v`, `gray_to_bin.v` | binary and gray pointers of each domain, two reset filters, two synchronizers, a RAM with a two-stage write port, used-word counts; write, read, reset | two clocks in any interleaving, gray words caught half way, RAM written later than its pointer moves, one register without reset | never over- or underrun, words in order and only once, counts safe to act on, a written word is offered |
| M `fifo_single_clock_reg_v1`, `_v2`, `fifo_single_clock_ram` with `true_dual_port_write_first_2_clock_ram.sv` | word count, shift register or ring with pointers, output buffer; `{w_req, r_req}` case, reset | simultaneous requests when full or empty, RAM port registered a clock behind the pointers | all three look alike from outside and are queues of DEPTH words |
| M `lifo.sv` | word count, words, output buffer | which end is written and which is read | the word written last comes out first (it does not, see the findings) |
| M `ASC/storage/ready_skid.v` | main register, backup register, registered `ready_i`; accept, stall, dump | `ready` is a clock old, so one word is always in flight | two-word queue, no word lost under any stalls |
| M `ASC/storage/rx_buffer_fifo_2.v` | three stores, pointers, `dout_wait`, overflow | cannot refuse a word | loses a word exactly when it says so |
| M `ASC/storage/tx_buffer_fifo_8word.v` | eight stores, pointers, late `din_ready` and `hungry` | writer and reader act on flags a clock old | never meets full stores, every request answered or reported |
| M `cdc_strobe.sv` (`cdc_data.sv`: its synchronizer alone) | gray event counter, two-stage receiver | pulse length, clock ratio and three resets | one strobe per event, none lost when paced, none invented (a reset may add one, see the findings) |
| M `ASC/interlaken_lane`: `word_align_control.v`, `frame_sync_control.v`, joined by `lane_rx.v` | alignment and frame machines, error and tally counters, metaframe counter, descrambler state | two machines feeding each other across registers; a line that slips and corrupts at any time | locks are earned and lost for the documented reasons only; a good line ends locked |
| `ASC/arbitration`: `tx_4channel_arbiter.v`, `arbiter.v` | rotating base, grant registered behind registered requests | `tx_4channel_arbiter.v:161`: grants answer old requests while words are taken from the channel as it is now | no starvation, each word sent once |
| `round_robin_enc.sv`, `round_robin_performance_enc.sv` | priority pointer | requests come and go while the pointer moves | a held request is served within a round |
| `ASC/synchronization`: `clock_mux.v`, `reset_filter.v`, `reset_control.v` | enables per clock on both edges; shift registers released in turn | `clock_mux.v:61`: two clocks may be on their way to being enabled at once | never two clocks through; minimum pulse, ordered release |
| `SvLibDR` packet link: `TxUART_logic`, `RxUART_logic`, `RxUART_timeout` over `SingleTxUART`, `SingleRxUART` | byte counters, running sums, timeout counter | lost or corrupted bytes, timeout racing a late byte | a packet is reported only if it was sent |
| `SvLibDR` SPI master and slave, `spi_master.sv` | sequence counters, shifters on both clock edges | four modes of polarity and phase | what one sends the other holds |
| `uart_tx.sv`, `uart_rx.sv`, `Uart*.v`, `ASC/communication/uart.v` | sample counters, shifters | independent bit clocks | every byte is received within the clock tolerance |
| `preview_fifo.sv`, `read_ahead_buf.sv`, `ASC/storage/fifo.v`, `buf_2to3.v`, `buf_3to2.v` | interleaved FIFOs, pointers, byte stores | flags of two stores read separately | queues |
| `pulse_gen.sv`, `pulse_stretch.sv`, `delayed_event.sv`, `ActionBurst*.v`, `debounce.v`, `encoder.v` | one counter each | parameters at their limits | pulse lengths and counts as documented |
| `avalon_mm_master_templates`, `axi_master_slave_templates`, `axi4l_logger.sv` | address, length, burst and pending counters around a FIFO | flags that lag the FIFO by a clock | no FIFO over- or underrun |
| everything else | tables, XOR networks, arithmetic, single counters, simulation classes, vendored processors, scripts | | see [not modelled](#not-modelled) |

The hardware parts interact through three conventions: request and acknowledge
sampled at the same edge (`w_req`/`full`, `rdreq`/`rdempty`), valid and ready
with a registered ready (`ready_skid`, the buffers), and single-clock strobes
(`cdc_strobe`, the lane's verdicts).  The programs interact with the hardware
through what they print: `make_lane_traffic.cpp` writes the words and the bench
that `lane_rx.v` is run with; the schedule of `gear_expt.cpp` is the case table of
`gearbox_40_67.v`, that of `gear_expt2.cpp` the one of `gearbox_67_40.v`;
`ecc_generate.cpp` prints the memory, `reed_sol.cpp` both ends of a link.

## Modules

| Module | Models | Notes |
| --- | --- | --- |
| `GaloisField` | the field and its multipliers, inverse, divider | constant multiplier, three forms of the general one, the greedy packing |
| `ReedSolomonCode` | the circuits of `reed_sol.cpp` without control of their own | generator polynomial, encoder step, syndromes, one round of the location polynomial, magnitude, roots, correction |
| `ReedSolomonFlat` | three of the program's test benches | arithmetic, syndromes, decoder without latency |
| `ReedSolomonLink` | `reed_sol_tx` and `reed_sol_rx` on a noisy line | clock by clock, seven clocks a round, delay line |
| `EccCode` | what both ECC programs print | encoder and decoder for 2, 8, 16, 32 and 64 bits |
| `EccRam`, `EccRam_proof` | `soft_ecc_ram_8bit` with bits that flip, and the benches | two ports, errors injected at one of them; theorems, also of `EccCode` |
| `CProbe`, `CProbe_proof` | `read_c_probe.cpp` | one step per library call; theorems |
| `LaneTraffic` | the passes of `make_lane_traffic.cpp` | frame, disparity, gearbox |
| `LaneBench`, `LaneBench_proof` | the bench it prints, on `lane_rx` with its data path | composes `LaneTraffic`, `FrameSync`, decoder, scrambler, CRC check; theorems |
| `GearSearch` | `gear_expt.cpp` and `gear_expt2.cpp` | the recursive search, its frames on a stack |
| `GearLink` | the two gearboxes with the schedules that `GearSearch` prints | `gearbox_40_67_tb.sv` |
| `WordScramble`, `WordScramble_proof` | `make_scrambler.cpp`, then the two units of its bench | draws, undo table, latency adjustment, stalls; theorems |
| `BoundedQueue` | abstract specification | what every buffer promises: at most Capacity words, in order, none lost or repeated; `offered` and `delivered` are the words at its two ends; a reset empties it |
| `DualClockFifo`, `DualClockFifo_proof` | `mlab_dcfifo.v` above the coding of its pointers | a pointer is the number of words moved since the reset; any Depth and SYNC_STAGES; theorems |
| `MlabDcFifo`, `MlabDcFifo_proof` | the registers of `mlab_dcfifo.v` and `mlab_fifo_cells.v` | implements `DualClockFifo` and `BoundedQueue`; theorems |
| `FifoRegV1`, `FifoRegV2`, `FifoRam` | one file each | an Edge operator each, without a specification of its own |
| `Lifo` | `lifo.sv` | beside it the stack that its header promises |
| `FifoFamily` | the three FIFOs on the same inputs | compares them with each other and with `BoundedQueue` |
| `CdcStrobe` | `cdc_strobe.sv` | sender, receiver and their resets |
| `ReadySkid` | `ready_skid.v` | implements `BoundedQueue` |
| `RxBuffer`, `TxBuffer` | `rx_buffer_fifo_2.v`, `tx_buffer_fifo_8word.v` | |
| `StreamWords` | | the words the stream buffers carry |
| `WordAlign`, `FrameSync` | `word_align_control.v`, `frame_sync_control.v` | the two machines |
| `LaneRx`, `LaneRx_proof` | `lane_rx.v` | composes the two with the descrambler's verdicts and the line; theorems |
| `MCBuffers`, `MCBuffers_proof` | | small instances of the buffers for TLC, one of them at work in each behaviour; theorems about each unit |
| `MCFaults` | | `EccRam` and `LaneRx` on small instances, one of them at work in each behaviour |
| `MCPrograms` | | `CProbe` and `WordScramble`, the same |
| `MCLinks` | | `ReedSolomonLink`, `GearLink` and `LaneBench`, the same |

Registers keep the source's names.  Where two instances of a block meet in one
module their registers carry its number (`cnt1`, `cnt2`) or role (`align` and
`frame` for the two `state` registers).  Modules that share an `MC` module have
their unit's name in their `Init`, `Next` and `Spec` (`EccNext`, `RsSpec`, ...).

**The strobe.**  `owed` is what the sender has sent and the receiver has not taken,
`Pending` the strobes that lie in the counter and the two stages.  They are equal as
long as the events are paced, but for `torn`: in reset both stages sample the counter,
each flop by itself, and when they settle apart they make a strobe that belongs to no
event, while the event is still to come.  `NoEventLost` says that this is the only
exception; that there is one contradicts the header (`strobe_reset`).

**The Reed Solomon link.**  A symbol is a number of SYMBOL_SIZE bits; addition is
the XOR of its bits.  `GaloisField` builds every multiplier from the sets of bit
positions that its gates read, as the program does, rather than from the product
it should have, so that a lost or repeated term shows.  `ReedSolomonFlat` lets the
signals of the decoder settle round by round.  `ReedSolomonLink` has a variable
per register group of transmitter and receiver; `located`, `searched` and the
entries of the delay line remember what the line did to the word a part is
working on, and are handed on at the clock the part takes the word over.

**The probe reader.**  `at` names the library call that comes next, and an action is
that call with the code up to the next one, error paths included.  `holder` says who
has each chain.  The library may report that a lock was lost without having said
so before (`LockUntold`), which is what the retry of `jtag_command` is for.  What the
library does inside is external.

**The lane** is modelled at two levels.  `LaneRx` works on words, not bits, and lets
the line do anything: the gearbox is aligned or not, a word is damaged or not, and a
misframed word that happens to look framed is allowed whenever the lane is not
aligned; `lfsr_ok` stands for the 58-bit state.  `LaneTraffic` and `LaneBench` follow
one stimulus exactly: a word is its kind and number, a CRC the sequence of what it
covers, a scrambler state its seed and age, so that equal values mean equal
histories.  The 20 to 67 bit gearbox gives a word every three or four clocks.

**The gearboxes.**  `GearSearch` follows the programs choice by choice, at the real
sizes (106 positions, 68 phases), and prints the schedule; `GearLink` takes the
schedule from there, never from the Verilog tables, and drives both gearboxes with
bits that are their places in the stream.  Two bits that are merged onto one position
become `Mixed`, a position nobody wrote is `Zero`.

**The dual clock FIFO** is described twice.  In `DualClockFifo` a pointer is a
natural number and a synchronizer holds older values of it: the argument why the
FIFO is safe, free of coding.  In `MlabDcFifo` pointers are RAM_ADDR_WIDTH + 1
bits wide, cross as gray words bit by bit, full is found by comparing gray words
with their two top bits inverted, and the RAM takes two more clocks to hold a
word, returning junk for a cell that is being written.  `RefinesProtocol` maps a
gray word to the youngest count that has this code, and `wrbin` and `rdbin` to the
history variables `written` and `read`.  That the bits implement the counts is
the soundness of the gray coding; that they implement the queue also covers the
RAM pipeline, which the protocol does not have.

## Runs and bounds

| Run | Shows | Bounds, and why they are enough |
| --- | --- | --- |
| `rs_flat` | arithmetic right for all operands; syndromes see any damage up to 2t; all patterns of up to t wrong symbols repaired | field of 16, k = 9, t = 3, sizes that the program itself names for testing; two messages, two error values at every set of at most three places.  The code is linear: what the decoder does depends on the damage only |
| `rs_link_stream` | violation | the link of `links` without clocks between words, as the printed bench runs it |
| `links`: Reed Solomon | syndrome right at every word's end; the search finds the damage of the right word while the next one arrives | field of 32, k = 27, t = 2 (the least with a multi-step search); four words, of which two may be damaged at the first, last and a middle symbol; a clock left out within a word, 6 between words |
| `links`: gearboxes | schedules found; every bit once and in order for ever; whole words soon after a slip; framing found | the real sizes; words modulo the 40 of a whole schedule |
| `links`: lanes | clean lanes pass, injected errors answered in order, words recovered, bits on the line in order | metaframe 6 for 2048 words: the least that holds its four control words and two of payload; the error schedule is whole |
| `lane_late` | violation | the lanes of `links`, alone |
| `faults`: codes | one wrong bit corrected wherever it is, two reported, three seen; the 8 bit memory reads back | all widths; every place of one and two wrong bits, and of three for 2, 8 and 16 bits; all words of 2 and 8 bits, words with one bit or all bits for the others (the code is linear; `EveryWordDecoded` is about every word).  Two cells, three writes or upsets |
| `faults`: alignment | both locks earned, lost for documented reasons, in step with the transmitter, and a good line ends locked | Window 4 for 64, Limit 2 for 16, metaframe 4 (the least with all its control words).  Only the comparisons with these numbers matter, and each is met below, at and above its limit.  MinGap 1: at least one clock between words, where the gearbox of the lane always leaves two |
| `lane_rx_loss` | violation | the alignment of `faults`, alone |
| `programs`: probe reader | locks and nodes given back, the first wanted node found, no stale byte saved, the file completed | two chains of two devices, any set of them wanted; two failing calls at any place; bytes that decode to hex digits or not |
| `programs`: scrambler | draws never run dry, bounded displacement, order restored under stalls | displacement 2 of 15, period 8 of 64, every draw; the three phases of the draw (start, middle, recentring) all have at least a word |
| `dcfifo_bits` | refinement of queue and protocol; flags move | four words, three stages as in the code, nine words: the pointers wrap their eight values and go on; reset at any time.  The reader keeps `rdreq` low in reset |
| `buffers` | the pointer protocol's inductive invariant; skid buffer, transmit buffer and single clock FIFOs are queues, and the FIFOs look alike; losses and answers reported; events never lost; nobody waits for ever | dual clock FIFO: Depth 3, two stages, seven words between resets, so each pointer passes Depth twice.  Two words, as order shows with two; all slots of the transmit buffer; DEPTH 4; six events owed, more than the four values of the gray counter |
| `strobe_reset` | violation | three events owed; `strb1` low in reset |
| `lifo_stack` | violation | DEPTH 4, two words |
| `fifo_init` | violation | the FIFOs started with INIT_CNT = DEPTH = 4 words |

In `buffers`, `faults`, `programs` and `links` the units do not interact; one model
holds several because each is small.  Exactly one of them, `unit`, is at work in a
behaviour, the others stay in one initial state (the buffers in reset), and every
property of a unit is about the behaviours in which it is at work.

Where a bench or a program ends, after its words, clocks or calls, a stuttering
`Ended` says so, and TLC looks for deadlocks everywhere else; the check is off only in
`rs_flat`, `rs_link_stream` and `lane_late`, whose benches simply stop.  Edges that
change no register are stuttering steps.

A property of a run states something several steps have to go wrong for.  What
each says is in the comment above it; which line it guards is in the hazard list
of `PROJECT.json`.

## Fairness

* `MlabDcFifo`: both clocks keep running and `arst` is not held for ever.  Requests
  are inputs and never forced.  An edge is therefore owed only while an edge
  *without* a request would still change a register (`[]<>~ENABLED <<WrQuiet>>_vars
  \/ []<><<WrEdge \/ BothEdges>>_vars`); weak fairness of the edge itself would
  force a request as the only way to change the state.
* `CdcStrobe`: the same for `clk2`; nothing is assumed of `clk1`, which may stop
  after an event.
* `ReadySkid`: the reset ends and the sink is ready again and again, valid or not.
  This is what the block needs: `ready_i` follows `ready_o` even when the stage is
  empty, so a sink that waits for `valid_o` before it raises `ready_o` would wait
  for ever.
* `RxBuffer`: the reset ends, and edges with `dout_wait` low keep coming while one
  without an arrival would change a register.  Stores move although words may be
  refused.
* `LaneRx`: the clock runs and words keep coming.  Nothing is assumed of the line
  itself; `Settles` is conditional on its becoming good for good.
* `GearLink`: the programs and the clock run.  `Locks` is conditional on no wrong
  framing passing for a right one by chance for ever, which depends on the data.
* `CProbe`: the program runs on and no other client keeps a chain for ever.
  `Completes` is conditional on the other client's accesses coming to an end, as
  the retry of `jtag_command` can be starved by a client that keeps coming back;
  failing calls and useless answers are bounded by Faults and Idles.

In the `MC` modules the same fairness is asked of the steps of the unit at work.  The
other modules claim nothing about what eventually happens.

## Proofs

Checked by `tlapm` with no step left open, for every value of the constants that
satisfies the named assumptions.

**`DualClockFifo_proof`** (assumes Depth and SYNC_STAGES positive):
`TypeCorrect`, `InvCorrect`, `OccupancyCorrect`, `UsedWordsCorrect`.  Occupancy
(`rd <= wr <= rd + Depth`) is not inductive: a domain decides on a pointer of the
other that passed SYNC_STAGES + 2 registers.  `Inv` adds that these copies are
ordered by age (`WritePointersOrdered`, `ReadPointersOrdered`), that the oldest copy
still bounds the domain's own pointer (`FlagsLate`, `CountsLate`), and what the
filters force while a domain is in reset, where `rdempty` alone survives
(`InReset`).  A shift into a synchronizer keeps the order (`ShiftOrdered`); each
domain's edge is one lemma for any sampled value in the allowed interval, so the
step with both edges follows from the two.  The reader's low `rdreq` in reset is
part of the specification, and must be (see the findings).

**`CProbe_proof`** (any number of chains, devices and nodes, any bounds):
`LocksCorrect`, `OpenCorrect`, `FirstWantedCorrect` and `SampleCorrect`.  That a chain is only held inside
the scan of it or inside a command is inductive once one knows where the
program is when it holds which chain, and that the node returned is the one open;
`IInv` says this of every library call, and each group of calls (scan, unlock,
command, main) is a lemma.  `SampleGenuine` is an action property: a byte is saved
only by `Decode`, whose guard is that the two characters are hex digits.  Before the
first answer the buffer is uninitialised (`~heard`), and the buffer that a failed
command leaves behind later was made useless by decoding it in place
(`StaleUseless`, `DecodedUseless`).  For `FirstWanted` the invariant `ScanInv` says at
each call which nodes the scan has left behind, and that every wanted one among them
could not be looked at.

**`WordScramble_proof`** (a window of any size, any period at least one word longer than
the window): `SlotLeftCorrect`, `DisplacedCorrect` and `BackInOrderCorrect`.  That the draw finds a word is a
matter of counting: `Window` says that always MAX_DISPLACE + 1 slots are filled, each
with the word its place implies, and that none of these has come out.  Taking a word
and shifting one in keeps that number only because the word in the last slot must go
(`Refilled`, by a bijection of the slots), and the slots the draw is barred from near
the end of the period are fewer (`Drawable`).  The stream is then an injection of the
period into itself, so every word is in it (`WholeStream`), and as none is displaced by
more than MAX_DISPLACE the counterpart's window holds it, in one slot only
(`UndoWindow`, `IndexFound`).

`BackInOrderCorrect` follows a word through both units, for every stall.  `Run` says what
each register of a unit holds after n of its clocks: the window the last words, a layer of
the mux the words that the lower digits of an *older* index leave, one digit more per
layer; `Both` ties the two clocks and the words taken together.  The heart is `TableHolds`
with `LayerMoves`: because `Skew` delays digit m by m places and `latency_adjustment` turns
the table by the window's reach, the digit that layer m takes at a clock is that of the
index whose word layer m - 1 passes on.  Then the last layer holds the word the index
names (`DoutHolds`), which is the word the first pass chose, and for the counterpart the
next word of the stream (`TurnLeads`).  The recursive functions (powers of two, the sum
over layers) are shown to be what they describe by induction over sets of numbers
(`Induct`, `Recursion`).  Beyond the module's assumption it needs `CountFits`: the period
is a power of two, since the counter wraps at its width, and the layers are as many as the
start count, which is taken from the period's bits, allows for.  Both hold for the
program's 15 and 64 and for the 2 and 8 of the run; nothing in the program checks them.

**`LaneRx_proof`** (any window, any error limit from 1 to below the window, any metaframe
of at least 4 words, at least one clock between words): `LocksEarnedCorrect`,
`LossesJustifiedCorrect`, `InStepCorrect`, `DeafLockLeftCorrect`.  Each machine has an
invariant of its own that ties its counters to what really came (`AlignInv`: a
verification that has counted n words saw more than n framed ones in a row, and a
locked machine that hears nothing has counted as many errors as it can; `FrameInv`: the
tally is a number of good, then of missing, sync words in a row).  `ErrInv` bounds the
errors a settled lock has counted by the misframed words since its window began, by a
bijection of these words as they grow older (`LateGrows`).  `LineInv` says that a
detected sync word is the last one and that no word comes in the next clock: this is
why thawing the frame counter one clock late does no harm.  A limit equal to the window
is excluded, for then the errors are restarted before they reach it.

**`MCBuffers_proof`** (any set of words, any depth, any bounds): each unit has an
invariant of its own, and a step of one unit leaves the others where they are.
`LossIffOverflowCorrect`: the words in the receive buffer are, in order, those still owed
to the reader, read from the output register and the two places between its two bit
pointers, and with one place in use at most while the output is empty (`RxInv`), so that
overflow is raised by exactly the write that finds no place.  `TxReadyCorrect`: the parts
of `TxReady` are inductive together.  `NoEventLostCorrect` (assumes `~StrobeInReset`, see
the findings): `StrobeInv` says which strobes are pending between the gray counter of the
sender and its copies, whatever a flop samples of a changing counter (`StrobeSampled`),
in reset too, where the two stages may settle apart (`torn`).
`SameViewCorrect` and `QueuesKeptCorrect` (assume INIT_CNT = 0: a reset empties the RAM
variant) relate the variants to one sequence, which the second and third keep in a ring
that starts at their read pointer (`PairInv`, `RamInv`).
`VariantsAlike` (INIT_CNT below DEPTH; at DEPTH it is false, see the findings) is the
claim of the header of `v1` for any start that leaves a free place.  `SkidInvCorrect`, that
the source of `ready_skid` never sees ready while the backup is occupied, and
`SkidQueueCorrect`, that the unit implements the two-word `BoundedQueue`: each step is shown
to be a push, a pop, both, a reset or a stutter of the queue by cases on where the word
goes.  `DcFifoCorrect` carries the theorem of `DualClockFifo_proof` over to this module.

**`MlabDcFifo_proof`** (any RAM_ADDR_WIDTH of at least two, any number of stages; assumes
`~RequestInReset`, for `rdempty` survives the reset, see the findings):
`ProtocolCorrect`, that the coded registers implement the counts of `DualClockFifo`, and
`QueueCorrect`, that they implement the queue.  Three things are needed.
*Gray coding*: one bit changes when a count goes up by one (`CountUp`), decoding undoes
coding (`GrayBack`), and full is the gray code half the counts away (`GrayFull`), so a
pointer sampled while it changes is the old or the new count (`GraySampled`).
*Counts*: a coded pointer determines its count because the counts in flight are less than
2^(RAM_ADDR_WIDTH + 1) apart (`Coding`, with the invariant of the protocol taken over
from `DualClockFifo_proof`).
*The RAM*: a word is written two clocks after the request, and the write pointer that
the reader sees is later still (`Pipeline`), so that no cell is read before it is
written.  The numbers are proved about by well-foundedness of the naturals over sets of
numbers (`LeastNumber`, `SetInduction`, `Iterates`), the bits of a number by dividing
it by two.

**`LaneBench_proof`** (any metaframe, any number of nybbles to a word): `BitsInOrderCorrect`,
for blocks of up to 58 bits.  The residue holds the last bits read, in order, and among
them all that are not sent; as no block is cut after the three framing bits there may be
six more than a block, and the residue has 64 bits.
`RecoveredCorrect`, for the same blocks, any gaps between words and any word lock: what a
locked lane hands out is what was framed.  *The program's side* (`TxInv`): every word has
the kind of its place, is scrambled with the state that follows from the word before it
(`Follows`: a new sequence begins at a state word, and only once), at most one state word
is damaged and then the synchronization word after it is damaged too (`WordsFit`); while
the words are written the error schedule says which of this has happened (`Writing`).
*The receiver's side* (`RxInv`): the registers hold the word before `pos` (`Heard`), the
frame counter is right whenever the lock is sought or held (`InFrame`), the scrambler
holds the state it loaded unless that word was damaged, in which case the next
synchronization word ends the search (`Verifying`), and a lock is in tune or has been put
out of step by the new sequence (`Locked`).  Why the bench's last step means in tune again
is in `Steps`: of the two mismatches it waited for, the damaged state word explains one at
most, so the new sequence had begun before the lock was lost.
`CleanLanesPassCorrect`, for the same blocks and any word lock, also one that comes with a
sync word: a lane without damage locks within the window and not before three frames have
passed, and from then on no CRC check fails, no scrambler state mismatches and no sync
word is missed; its lock is late in the bench's sense only when the word lock came with a
sync word, which `lane_late` shows to happen. One assumption more: at least two idle clocks lie between two words, for the
two stages of `lane_rx_crc` (67 bits in blocks of 20 leave two, or three). *The program's
side* (`CleanTx`): every metaframe carries the sum of its own words, and the words of a
frame still being written are summed so far. *The receiver's side* (`CleanInv`): the
clocks since a word say which stage of the CRC holds what (`Ticks`); from word lock to
sync lock every step is due at a known clock (`Acquiring`, with the words seen counted by
`SinceLock`); once the lane is locked the words and the sum in the stages are those of the
frame being heard (`Staged`, `Scheduled`, `InSum`), so the sum compared at the end of a
frame is the one framed (`NoError`). Only the first frame end of the search may show
a wrong sum, as the receiver may not have heard that frame from its start; it is over
before the lock.

**`EccRam_proof`** (memory of any size, any words, any bits inverted at port b, any bits
that flip, any number of writes and upsets): `EveryWordDecoded`, about every word of 8, 16,
32 and 64 bits where the run takes samples of the wide ones and for any two or three wrong
bits; `SingleFixedCorrect`, `MoreSeenCorrect` (with the 2-bit code) and
`ReadBackCorrect`.  *Parity*: a tree of six-term helpers is the exclusive or of all terms
(`XorIsParity`), and the parity of an exclusive or is the sum of the parities
(`OddSymDiff`), so that the syndrome of what is received is that of the wrong bits alone
(`SyndromeOfHits`, from `CodeClean`: a word of the code has none).  *Tables*: the places the
encoder gives to the data bits are the numbers that are no power of two, in ascending order,
and the ranges from which the decoder takes its corrections are the same numbers
(`RangesAre`, `PlaceHolds`); neither program text refers to the other, and the mutant of
`SingleFixed` shows one value too many shifting all bits after it.  A number
below 128 is known by its bits (`BitsKnown`), so that one wrong bit is named by its syndrome
(`SyndromeOfOne`), two have an even parity and a syndrome that is not zero, and the split of
the 64 bit decoder makes no difference (`Flips`).  The 2-bit code rests on its
distance of four (`Distance2`).  *Memory*: `Inv` says that a cell, and what the ports have
read, is the code of its word with the flips of its history, which is all `ReadBack` needs.
TLC has checked `Inv` on the configuration of the run.

Only model-checked: all liveness (out of the prover's reach); the field, the
Reed Solomon code and the searches, whose correctness is a computation over all values of a
size and not a step argument; the gearboxes with the schedules found (that model has no
constant: its run visits every state there is); the second verdict of the lane's bench
(`ErrorsAnswered`), which is about one schedule of errors, run whole.

## Findings and observations

The violation runs, with the lines quoted in `PROJECT.json`:

1. `word_align_control.v:43`: the error counter is not cleared when the lane locks, so
   errors from before the lock end it (`lane_rx_loss`).
2. `reed_sol.cpp:1901`: the printed receiver copies the syndrome register seven clocks
   after it was complete.  Its own bench sends words without a pause, so the register
   already holds the next word's sum (`rs_link_stream`).
3. `cdc_strobe.sv:101`: at an edge in reset both stages of the receiver are loaded from a
   counter that may be changing, each flop by itself.  If the first settles on the old
   value and the second on the new, and the reset ends, one event gives two strobes,
   against "only one single-cycle strobe will be generated" (`strobe_reset`).
4. `lifo.sv:111`: writes go behind the words held, reads take the first of them.  The
   module that its header calls a LIFO, "also known as "stack"", gives out the word
   written first (`lifo_stack`).
5. `fifo_single_clock_reg_v2.sv:103`: started full (INIT_CNT = DEPTH) the write pointer
   lies outside its array, and the FIFO differs from `v1`, although both headers call them
   identical from outside (`fifo_init`); `VariantsAlike` proves that they are with any
   smaller INIT_CNT.
6. `make_lane_traffic.cpp:607`: the bench calls a sync lock late when the word lock came
   with a sync word.  The lane does lock at the fourth good sync word after it, as the
   comment asks; the bench's number is a word short (`lane_late`).

Seen while modelling, without a run of their own.  Where a model shows it, the change
that brings it out is named:

* `reed_sol.cpp:1199`: `disc_cor_reg` and `elp_div_disc_reg` capture the slice
  `[t*m:0]`, one bit too wide, and clear the lowest bit of the next coefficient.  Words
  with exactly t wrong symbols are not all repaired, although the clocks between words
  are left (in `MCLinks.cfg`: MaxErrors = 2 and the invariant
  `SearchFindsAllDamage`).
* `reed_sol.cpp`, receiver: the output `failure` is never assigned; some registers have
  no reset.
* `make_scrambler.cpp:411`: `dout_active` is set at the starting count although `ena` may
  be low.  A unit that is stalled at that very count says valid one word early, against
  "indicate (fresh) valid output data" (`:404`); in `MCPrograms.cfg` the invariant
  `ValidIsFresh` shows it.  `BackInOrder` leaves that stall out.  The count is worked
  out from CNTR_BITS where the latency it stands for is that of NUM_SEL select bits, and
  the counter wraps at its width, not at the period (`:373`): with other sizes than 15 and
  64 the output may be wrong (see `CountFits`).
* `make_lane_traffic.cpp:379`: `running_disparity` is never updated, so the words are
  weighed one by one.
* `gear_expt2.cpp:275`: a data shift without a code of its own would be printed as 15,
  which the gearbox takes for *no data*; the schedule found has none (`ScheduleFound`).
* `gearbox_40_67.v:54`: slips are locked out for three clocks, fewer than the seven to
  eleven that a slip takes through the gearbox, so several may be under way at once.
  The lane locks all the same.
* `read_c_probe.cpp:298`: `main` ignores what `jtag_command` returns, and the buffer is
  not initialised: before the first answer of the probe anything may be saved.
* `ecc_generate.cpp:640`: the data input of the memory is registered before the encoder,
  address and write enable are not: the word stored is that of the clock before.
* `mlab_dcfifo.v:101`: `rdempty` has no reset.  A FIFO that held words and whose reader
  keeps `rdreq` high through the reset is read although it is empty (in
  `MlabDcFifo.cfg`: RequestInReset = TRUE, which `RefinesQueue` refutes).
* `rx_buffer_fifo_2.v:110` says it does not read on consecutive cycles; it does.
* `cdc_strobe.sv:88`: the event counter is not gated by `nrst1`, so a strobe input
  held high during `nrst1` counts at every edge.  The model excludes it with
  `StrobeInReset = FALSE`; with TRUE, strobes come out that no event caused.
* `word_align_control.v`: the word that ends a window is counted in no window.
* `frame_sync_control` needs at least one clock without a word between two words
  (`MinGap`); the gearbox provides it.
* `edge_detect.sv` calls its reset `anrst`; `spi_master`, `uart_rx`, `read_ahead_buf`
  and `delayed_event` connect `nrst`.

## Not modelled

* **Programs that print tables or permutations**: AES and RC4 (`crypto/aes/*.cpp`,
  `rc4.cpp`), `prio_encode.cpp`, `tester.cpp`, `make_comp.cpp`, `make_sum.cpp`,
  `make_mask.cpp`, `cordic_angle_table.cpp`, `div_tbl_gen.cpp`, `test_stimulus.cpp`,
  `bmp_to_font.cpp`, the VPI and text utilities.  One loop each, with floating point or
  file formats, and no state to reach that running them once does not.
* **No state, or none that matters**: arithmetic, compare, muxing, translation, video,
  crc, ethernet_fec, crypto, float, gray and bit-order helpers.
* **Single counters and shift registers**: counters, dividers, modulators, delays,
  moving averages, PRBS, pulse and burst generators.  A simulation reaches all of it.
* **Left out of modelled parts**: the values of CRC32 and scrambler bits; the noise burst at
  the end of the lane bench (`LaneRx` covers recovery); optional output registers of
  `ram_block`; the parity check of `mlab_fifo_cells`; the combinational `fail` outputs of
  the single clock FIFOs; all printed text.
* **Real time**: UART sampling margins and `clock_mux` depend on the lengths of bits and
  pulses, which a model of edges does not have.
* **Vendor parts**: Avalon and AXI templates, `axi4l_logger` (vendor FIFOs that are not in
  the repository), KCPSM6, PacoBlaze, the vm80a netlist.
* **Not hardware**: bitmap and VIP classes, example and benchmark projects, scripts.

## What could follow

The arbiters and round robin encoders (bounded waiting), the `SvLibDR` packet link
(timeouts against late bytes), `preview_fifo`, the two byte gearboxes of `ASC/storage`,
the SPI pair.  Proofs: `ErrorsAnswered` of the lane's bench.
