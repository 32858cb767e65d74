# A TLA+ model of HFT-OS 1.0

HFT-OS is a bare-metal trading kernel: it polls a receive ring that a NIC fills
with MoldUDP64 packets, keeps the best AAPL bid, and answers each better bid with
an OUCH order in a transmit ring. The repository also holds the QEMU plugin that
plays the NIC, the Python generator that feeds it, the RTL of a SmartNIC parser
with its simulation test bench, and tools around them. These modules model the
parts whose behaviour is hard to test - two threads over shared memory, two rings,
a lossy feed, a parser that meets a length field at any place in a beat, a test
bench that must not mislay what it compares - check them with TLC and prove the
central facts with TLAPS.

All paths below are relative to the repository root; `vpi/` stands for
`Nasdaq-HFT-FPGA-master/tb/vpi/`.

## 1. The system

| Part | Source | State it keeps | Operations |
|---|---|---|---|
| Boot | `src/entry.asm`, `pci_enumerate` and the serial port in `src/kernel.c` | `nic_mmio_base`, the scan | scan PCI, print |
| Kernel | `src/kernel.c`, `src/memmap.h` | `rx_head`, `tx_idx`, `tx_head`, `next_order_id`, `best_bid_price`, `best_bid_shares` | `init_rx_ring`, `init_tx_ring`, `poll_rx_loop`, `handle_packet`, `send_ouch`, `reclaim_tx` |
| Shared memory | `src/memmap.h` | RX and TX descriptor rings, packet buffers, NIC registers | read and written by kernel and NIC |
| NIC plugin | `qemu-plugin/hw_nic_sim.c` | `rx_tail`, the socket | `nic_sim_realize`, `nic_sim_rx_bh` |
| Transmit engine | not in the repository | HEAD, what it may send | implied by `reclaim_tx`, `send_ouch` |
| Generator | `generator/moldudp64generator.py` | none | warm-up, fixed, ramp, burst-pause, jitter |
| Missing-message detector | `nic/verilog/miss_msg.v` | `sid_q`, `seq_q` | one clocked update per header; two reports |
| MoldUDP64 parser | `nic/verilog/moldudp64parser.v`, `header.v` | state machine, message count, sequence number | one AXI beat per cycle |
| Dispatch | `nic/verilog/dispatch.v` | state machine, bytes still to come, half a length | cut messages out of beats, on two output pipes |
| Test bench feed | `vpi/tv.c`, `moldudp64.c`, `axis.c`, `tb.c` | log file, session, sequence number, packet and place in it | read a log, make packets, cut them into beats, end the test |
| Expected messages | `vpi/tb_itch.h`, `tb_itch.c` | a linked list | push at packing, pop at comparison, free |
| ITCH structures | `vpi/inc/gen/`, `tb_utils.c` | a packed structure, the simulator's signals | copy a message in, hand its fields out by position |
| FPGA top and bench | `Nasdaq-HFT-FPGA-master/top.v`, `tb/hft_tb.v` | the signals, a watchdog | drive beats, compare, stop |
| Parser variants | `nic/moldudp64_parser.c`, `nic/unpack11.S` | a ring of 16 parsed messages | parse one packet |
| NIC backend | `nic/verilog/nic.v` | `rx_tail` | does not compile |
| Boot sector | `boot/`, `linker.ld` | none | load, enter protected mode |
| Timing | `obs/`, `pipeline/`, `core/`, `perf/`, `replay/`, `matrix/` | stage stamps | time and report |
| Performance tools | `tools/`, `ci/`, `perf_manifest.json` | files | build, run, compare, bisect |

**Interaction.** The generator sends UDP datagrams to port 9000. The plugin's
bottom half runs on QEMU's main-loop thread from the moment the device is
realised; it takes datagrams off the socket and writes each into the RX ring with
four separate writes into guest memory: length, packet, DD bit, TAIL register.
The kernel runs on the virtual CPU's thread, sees only that memory, and clears DD
before it reads the packet. The two share no lock. In the other direction
the kernel fills TX slots and rings TAIL; a transmit engine would send
them and move HEAD.

The RTL parser is a separate artefact. The test bench reads an exchange log, packs
messages into MoldUDP64 packets and drives them, eight bytes a cycle, into the
design; it appends every packed message to a list. Whenever the design announces a
decoded message, the bench pops the list, copies the message through a C structure
into some two hundred Verilog signals and compares these with the design's.

**What is hard.** The copy of a packet and the kernel's reads of it interleave;
the plugin looks neither at DD nor at RXDESC_HEAD and may lap the kernel; it runs
before the rings exist; the kernel's copy of HEAD is stale; order ids and prices
are 32-bit; a spin inside the packet handler waits for a device. On the feed side
packets are lost, repeated and cut off with their session; a message can end
behind any byte of a beat, with the next length in this beat, the next, or half in
each; the list is filled at one clock edge and emptied at the other, several
packets apart; the bench stops at once when its log ends.

**What makes each part correct.**

* Boot: the rings lie over the first Ethernet device's registers, or the stub's.
* Receive path: each datagram is judged once, whole, in order.
* Transmit path: each order reaches the wire once, in order, unchanged; a slot is
  refilled only after it was sent; every order is sent in the end.
* Decision: one order for each strictly better AAPL bid; book and orders agree;
  ids do not repeat.
* Detector: reports only messages that are missing; and all of them (it does not).
* Parser and dispatch: the messages of a packet come out once, in order, with
  their bytes and their numbers, for every alignment.
* Test bench: the beats of a packet are the packet; every message of the log is
  compared, with itself; nothing it compares is stale, shifted or cut.

## 2. The modules

| Module | Models | Correspondence |
|---|---|---|
| `PciBoot` | `entry.asm`, `pci_enumerate`, serial port | one configuration read or one character per step; the port sends at its own pace |
| `PciBoot_proofs` | theorems about `PciBoot` | |
| `MemMap` | shared memory | a slot is a descriptor with the buffer its `addr` always names; one variable per register used |
| `HwNicSim` | plugin | `nic_pc` is the position in `nic_sim_rx_bh`; one action per guest-memory write, two for the packet copy |
| `TxEngine` | external transmit engine | `OnDoorbell` is the device's side of the TAIL write, `TxSend` sends one descriptor; `TxPresent = FALSE` is the NIC as shipped |
| `Kernel` | kernel from the rings on | `pc` is the next statement; a step ends at each access to a descriptor, a buffer or a register |
| `HftOs` | all of them, and the generator | `Arrive`, `Nic`, `Cpu`, `Engine` |
| `Bids` | what one datagram is worth, without rings | the best bid, the orders; `Bid` is one judgement |
| `BestBid` | the promise to traffic that waits for the boot, over `Bids` | an inbox taken in order; `Safety` and `Fairness` apart |
| `LateBid` | what is left of it when traffic does not wait, over `Bids` | an inbox taken in any order, of which the boot may lose some |
| `HftOs_proofs` | theorems about its transmit side, its book and its receive side, and that it implements `BestBid` or `LateBid` | |
| `MissDet` | detector | `sid_q`, `seq_q`, the next-state and report equations of `miss_msg.v` |
| `MoldLink` | test bench's sender, a lossy link, detector | `SendPacket`, `EndSession` are the sender, each with the link's and the detector's part; `Duplicate` is the link's |
| `MoldLink_proofs` | theorems about `MoldLink` | |
| `Dispatch` | `dispatch.v` | a register is a variable, a combinational signal an operator of the same name |
| `MoldParser` | `moldudp64parser.v` around `Dispatch`, the bench's driver, a consumer | one step is one clock edge; `finished` compares what came out with what went in |
| `MoldParser_proofs` | theorems about `MoldParser` | |
| `ItchQueue` | what the list of expected messages promises | a queue |
| `ItchFifo` | the list as `tb_itch.h` builds it | `read`, `write`, `next` are the pointers, `mem` the allocated nodes |
| `ItchFifo_proofs` | theorems about `ItchFifo` | |
| `TbFeed` | `tv.c`, `moldudp64.c`, `axis.c`, `tb.c` over `ItchFifo` | `pc` is the place in `$tb`, `$tb_init`, `$tb_end`; `Posedge` is the clock, with `$tb_itch` |
| `Recursions` | lemmas: induction, and what it shows of recursive functions | |
| `TbFeed_proofs` | theorems about `TbFeed`; first, where a packet's messages lie and what the decoder reads there | |
| `ItchTables` | the 23 structures, their put calls, their signals | one table per generated file |
| `ItchFormat` | a message's way through them | `Fill` is the copy, `Put` one or more `tb_vpi_put_*` calls |
| `ItchFormat_proofs` | theorems about `ItchFormat`; first, what the three tables have in common | |
| `MCHftOs`, `MCPciBoot`, `MCTbFeed`, `MCMoldParser` | TLC instances | traffic, machines, logs, packets |

`Kernel` steps, in the order of the code: `RxClear`, `RxFill` (one descriptor
each), `RxRegs`, `TxInit`; then the loop `ReclaimTx`, `CheckDD`, `ReadLength`,
`ClearDD` (with the length tests), `LoadPayloadLen`, `Filter`, `Decide`, and for a
better bid `SpinTx`/`TxSlotFree`, `BuildOrder`, `RingDoorbell`; then `AdvanceRx`.
Steps nothing else can observe in between are one step: the decision with the book
update and `next_order_id++`, the filling of a TX slot no doorbell has yet named,
the constant setup of the ring base registers.

`TbFeed` follows the simulator's order: at a falling edge `$tb` runs to its end
(`TbNotReady`, `TbNoData`, `TbNewPacket` with `ReadMsg`, `NoMsg`, `FinishPacket`,
or `TbSamePacket`; then `Beat` or `BeatOfNothing`), at the rising edge the design
samples the beat (`Decode`) and, if it announces a message, `$tb_itch` pops the list. At the
end `FreeNode` and `FreeRest` are `$tb_end`.

### Abstractions

* *Packets (kernel).* A packet is the record of the fields `handle_packet` reads. A
  copy in progress, or a short datagram, ends at a field's end or after the low byte of
  the price (`Cuts`), so that prices tear (`TornPrice`); shares would tear in the same way.
* *Copy.* `address_space_write` of the packet is a prefix, then the whole. The cut
  is chosen freely, since the code leaves it to `memcpy`.
* *Order of memory accesses.* Program order, on both sides: x86 keeps the order of
  stores and of loads, and QEMU's own thread runs on the same kind of host.
  `poll_rx_loop` reads `status` through a plain pointer, but the `pause` and the
  volatile register read in `reclaim_tx` (inline assembly with no memory clobber)
  do not oblige a compiler to reload it; builds at `-O3` do reload it, and that
  is what is modelled.
* *Registers.* In `HftOs` `nic_mmio_base` is the stub 0x00500000, where the plugin
  writes; `PciBoot` shows when it is.
* *Reclaim.* `reclaim_tx` walks `tx_head` to the HEAD it read; the walk ends
  because HEAD is in the ring (`TypeOK`), so it is one assignment.
* *Console.* A string of `serial_write` that does not vary counts as one character;
  hexadecimal numbers are printed digit by digit.
* *Pacing.* The generator sleeps between datagrams and hears nothing from the kernel, so no
  datagram may be held back for one that was lost. `Paced` says, slot by slot, what the sleep is good
  for: no datagram comes while the slot it goes to holds a packet the kernel has not stepped
  over. A packet the boot has wiped holds nothing up, nor does a kernel that waits at another
  slot than the plugin fills. `RoomWhenIdle` shows that `Paced` admits all traffic whose gaps are long
  enough for the kernel to run out of packets, also where the two are apart.
* *Detector and parser.* Built with `_INC_MOLD_IDS`, as in the bench.
* *Bytes.* In `TbFeed` a byte is its field, the field's value and its place in it, so
  that endianness and cut are visible and the value is not; in `MoldParser` a message is
  the sequence of its bytes, and in its run byte b of message m is 40m + b; in `ItchFormat` byte b of message n is 100n + b.
  Unknown bits are a value of their own.
* *The sequence number of the parser* has `SEQ_LO` and `SEQ_HI` values for its two
  parts, in two and six bytes of the header: up to 2^16 and 2^48, as in the code. The run gives
  each two, so that carry and wrap happen; the theorem is about all.
* *The design behind the parser* (ITCH decoder) is a submodule that the repository
  does not hold. In `TbFeed` it is what the bench needs it to be: a decoder of
  packets with a latency and the right to refuse one beat at a time. It keeps the packet's bytes,
  how many messages it found in them and where the next one begins, and finds a message in the
  beat that holds its last byte.
* *Left out.* Timing taps, tracing and the generated printing code, which no state
  depends on.

Bounds: `MaxDatagrams` (datagrams per behaviour) is the only bound on `HftOs`; ring
sizes and `U32`, `U8` are parameters. `MoldLink` has `MaxSeq`, `MaxCnt`,
`MaxPackets` and the range of sessions `FirstSid .. LastSid`. `MoldParser` has
`MaxPackets`, `ItchFormat` `MaxMessages`; `TbFeed` ends with its log, `PciBoot`
with its scan, of which `BUSES`, `DEVS` and `FNS` are the size.

### Fairness

`WF(Nic)`: QEMU's main loop keeps running a scheduled bottom half, which always
reschedules itself, and a received datagram is always carried to the end of its
loop body. `WF(Cpu)`: the kernel has one thread, interrupts are off, it never
halts. `WF(Engine)`: a device with work keeps working; used only where an engine
is present. Arrivals are not fair: nothing makes a generator send. `PciBoot` has
`WF(Kernel)` for the same reason as `Cpu` and `WF(Uart)`: a serial port shifts out
what it holds. `TbFeed` has `WF(Next)`: a simulator runs until `$finish`; the
design may be as late as its latency and may refuse a beat, but not two in a row.
`MoldLink`, `MoldParser` and `ItchFormat` state safety only and have no fairness;
their runs set `CHECK_DEADLOCK FALSE` because a feed ends.

## 3. The runs

| Run | Instance | Shows |
|---|---|---|
| `paced` | RX 2, TX 3, 3 datagrams of 7 kinds, paced, after boot | the whole system implements `BestBid`: its steps (`KeepsPromise`) and its fairness, that every datagram is judged in the end (`JudgesAll`); every order is sent; no spin lasts for ever |
| `boot` | RX 2, TX 3, 4 datagrams of full length, paced, from before boot and on after a wipe | the system implements `LateBid`: no datagram is judged twice or by another's bytes, none is lost after boot; every order is a quote some datagram carried whole; the slot filled next is free when the kernel is idle |
| `flood` | RX 2, TX 2, 4 rising quotes, any timing, U32 = 4 | types; orders on the wire in order; ids below prices; book agrees with orders; no order changes |
| `pci` | 2 x 2 x 2 places, up to two functions of four kinds | the first Ethernet function decides; the console is whole and tells the base in use; boot ends |
| `mold` | 2 sessions, the second the last id there is, numbers to 5, 3 packets each of up to 2 messages, loss and repetition of any packet, window 2 | a session hides no more messages than it delivered data packets and repeated messages; no report covers a delivered message |
| `rtl` | 2 packets of one or two messages of 12 to 19 bytes, the bench's gap | messages whole, numbered, counted |
| `feed` | logs of up to 3 messages of 12, 19, 50 bytes, three nodes, latency 3 or 7, refused beats | packets whole, comparison right, list is a queue, watchdog quiet, test ends and everything was compared and freed |
| `format` | 2 messages of all 23 kinds | every byte of a message reaches its own signal and nothing else does |

*Why the bounds are enough.* Ring sizes of two and three let a ring be empty, partly
full, full and wrapped, with `rx_head` and `rx_tail` in every relation; three or
four datagrams lap an RX ring of two and wrap a TX ring of two or three. Four also leave, behind
one wiped at boot, enough to fill the slots in which the kernel does not look and to reach the one where it
does. `U32 = 4`
lets price and id reach the top of their word; `U8 = 2` lets a price tear. Two sessions with
numbers to five and packets of two let a gap be smaller than, equal to and larger than the
detector's drift, in a session entered by its first packet and in one entered by the end of
the one before; with the first session 1, one from the detector's 0 after reset, a lost end
puts the second outside a window of two. (The share of repeated messages in
`HiddenBounded` is reached only with numbers to seven and one session; there the proof
stands in for the run.) Eight consecutive message lengths, in pairs,
put both the end of a message and the next length at every place of a beat, and a
second packet meets every state the first can leave behind. Three nodes let the
list be empty, hold one, two and three messages and reuse a freed node; two
messages of any two kinds are enough for one to leave something behind for the
other.

Runs that end in a counterexample, each against a sentence of the repository:

| Run | The code | The sentence |
|---|---|---|
| `lapped` | the plugin does not look at DD: after a burst longer than the ring (or one datagram during boot) kernel and plugin look at different slots | `README.md:52` "When a packet arrives, it is parsed and handed to the trading decision logic", `src/kernel.c:390` "clear DD so NIC can reuse slot" |
| `no_engine` | with the NIC as shipped, the order that finds the ring full spins for ever | `README.md:56` "Completed TX descriptors are reclaimed asynchronously" |
| `mold_gap` | the detector expects `seq + cnt + 1`, the sender goes on at `seq + cnt` | `nic/verilog/miss_msg.v:4` "detect if there are missing packets" |
| `one_hot` | a last message that ends 7 or 8 bytes into the last beat sets `fsm_len_split` or `fsm_len_align` beside `fsm_invalid` | `nic/verilog/dispatch.v:250` "sva_fsm_onehot : assert( $onehot(f_fsm))" |

The last has a consequence. In the cycle after the packet `fsm_msg_q` is set though no
packet is on the bus. `hft_tb.v:322` keeps three idle cycles after a packet, with last still up, and marks them "TODO remove :
back to back bug"; they clear the state, and `MessagesWhole` holds (`GAP = 3`, and
also 2). With `GAP` 1 or 0 it does not: the next packet's first beat comes out as ten
bytes of a message. The comment's bug is this one, as far as this model tells.

More observations no run states. `memmap.h:20` calls RXDESC_HEAD the place
"where the software has finished processing packets", but the kernel writes it
once, at start; nothing reads it. `OrdersAreQuotes` needs datagrams of full length: the plugin writes the
length of a short datagram while `init_rx_ring` is setting every length to 64, and the
kernel may then parse a 16-byte datagram as a full one (add such a datagram to
`BootTraffic` to see it). It also needs pacing: in a burst a price can be torn, and a datagram can be taken twice and the one
before it never, when the plugin refills a slot between the kernel's clearing of DD and its reading
of the packet (`src/kernel.c:390`).
The generator sends one price per invocation, so its "AAPL flood" makes at most
one order and never fills the TX ring; the runs use rising prices instead. TAIL
names the slot just filled (`src/kernel.c:310`); a device that reads it as e1000
does would leave the last order unsent (`DoorbellInclusive = FALSE` violates
`OrdersSent`). `AllCompared` is limited to designs that announce a message within
the gap: the bench ends three cycles after the last beat and does not ask whether its
list is empty, so that a slower design's last message is never compared. `hft_tb.v:278`
declares ten of the twenty bytes of `end_of_snapshot` and never compares them.

## 4. The proofs

`HftOs_proofs` proves, for all ring sizes, word sizes, traffic, pacing and both
readings of the doorbell, from `RingAssumption` (ring sizes positive, TX at least
two, `U8` divides `U32`), `DatagramAssumption` (what a datagram is) and
`EngineAssumption`:

| Theorem | States |
|---|---|
| `TypeCorrect` | `[]TypeOK` |
| `TxRingOrdered` | `[]TxInv` |
| `OrdersNeverChange` | `OrdersOnlyGrow` |
| `WireOrder` | `[]WireInOrder` |
| `OrderIdsBounded` | `[]OrderIdBelowPrice` |
| `BookMatchesOrders` | `[]PricesRise` |

It also proves, of the receive side, what follows. `AfterBoot` stands for paced traffic that
waits for the boot, that of `paced`; `Late` for paced traffic of full length, whenever it starts,
that of `boot`; `Orderly` for one or the other.

| Theorem | Under | States |
|---|---|---|
| `RxRingOrdered` | `AfterBoot` | `[]RxInv` |
| `PromiseKept` | `AfterBoot` | `KeepsPromise`: every step is one of `BestBid`, or changes nothing it sees |
| `SlotsKept` | `Late` | `[]LateInv` |
| `LatePromiseKept` | `Late` | `KeepsLatePromise`: every step is one of `LateBid`, or changes nothing it sees |
| `RoomWhenKernelIsIdle` | `Late` | `[]RoomWhenIdle` |
| `OrdersWereQuoted` | `Orderly` | `[]OrdersAreQuotes` |

`MoldLink_proofs` proves, for all widths, windows, sessions and packet sizes, from
`WidthAssumption` and `BoundAssumption` (the last conjunct of which keeps the detector's number from
wrapping):

| Theorem | Under | States |
|---|---|---|
| `FeedFollowed` | | `[]MoldInv` |
| `TypesHold` | | `[]TypeOK` |
| `OnlyMissingReported` | | `[]ReportsAreMissing` |
| `HiddenAreFew` | `FirstSid < SID_GAP_MAX` | `[]HiddenBounded` |
| `DeafBeyondWindow` | `FirstSid >= SID_GAP_MAX` | `[](reports = {})` |

`ItchFifo_proofs` proves, for every set of nodes and of items, from
`NodeAssumption` (NULL is neither a node nor an item):

| Theorem | States |
|---|---|
| `FifoWellFormed` | `FifoSpec => []FifoInv` |
| `FifoImplementsQueue` | `FifoSpec => IsQueue` |

`PciBoot_proofs` proves, for every bus within PCI's limits and every set of machines,
from `ScanAssumption` and `MachineAssumption` (what a configuration space is, that a BAR has
32 bits, and that no two functions share a place):

| Theorem | States |
|---|---|
| `Booted` | `[]BootInv` |
| `TypesHold` | `[]TypeOK` |
| `FirstIsFound` | `[]FirstEthernetDecides` |
| `ConsoleTold` | `[]ConsoleWhole` |
| `BaseIsTold` | `[]ConsoleTellsBase` |

`TbFeed_proofs` proves, for all logs of ITCH lengths, packet sizes, latencies and refusals, from
`FeedAssumption`: a packet is no larger than a `size_t`, a packet has room for a message, `malloc`
finds a node for each message of the log, and `Item` contains them.

| Theorem | States |
|---|---|
| `FeedInOrder` | `[]FeedInv` |
| `TypesHold` | `[]TypeOK` |
| `PacketsAreWhole` | `[]PacketsWhole` |
| `EveryCompareIsEqual` | `[]ComparedEqual` |
| `IdsCountTheLog` | `[]IdsCount` |
| `EveryMessageIsCompared` | `[]AllCompared` |
| `WatchdogStaysQuiet` | `[]NoLivelock`, if no latency is above seven |
| `BenchListIsQueue` | `IsQueue` |

`MoldParser_proofs` proves, for packets of any number of messages of any bytes and any number of
packets, from `ParserAssumption` (what a packet is: messages of nine bytes or more, as many as a
count and as long as a length can tell; a sequence number of two parts, which fit into two bytes and
six) and from `GAP >= 2`, idle
cycles behind a packet:

| Theorem | States |
|---|---|
| `Invariant` | `[]ParserInv` |
| `TypeCorrect` | `[]TypeOK` |
| `AllWhole` | `[]MessagesWhole` |
| `AllNumbered` | `[]NumberedInOrder` |
| `CountRight` | `[]CountIsWhatRemains` |

`ItchFormat_proofs` proves, for the 23 kinds of message as the repository declares them and for
any number of messages, from `BoundAssumption` (that number is one):

| Theorem | States |
|---|---|
| `Invariant` | `[]FormatInv` |
| `TypeCorrect` | `[]TypeOK` |
| `NoReadBeyond` | `[]ReadsWithinMessage` |
| `AllArgumentsTaken` | `[]EveryArgumentTaken` |
| `NothingLeftOver` | `[]OnlyItsKind` |
| `AllBytesShown` | `[]EveryByteShown` |

*The transmit path.* `TxInv` says that `tx_head`, HEAD, the engine's limit and `tx_idx`
stand in this order around the TX ring and that, while a slot is being filled, the
next one is not `tx_head`: the kernel's stale `tx_head` is always behind HEAD, so a
slot it takes for free was sent. Given that, each step either leaves the sequence
of orders (wire, ring, in hand) as it is, or is the one `Decide` step that
appends an order (`SameOrders`, `NewOrder`); moving an order from hand to ring to
wire changes where it is and not what it is. `OrdersInv` then holds the facts about the
sequence together: the n-th order has id n, prices rise, the last price is the
best bid, and `next_order_id` is one more than the number of orders. None of these is
inductive alone: ids are below prices only because prices rise by at least one
with each id, and `next_order_id` does not wrap only because prices do not.

*The receive path, after boot.* Datagram n goes into slot n - 1, modulo the ring. `PlaceInv` ties both
indices to counts: `rx_tail` to what was received, `rx_head` to what was handled, and
the first is at most one ring ahead of the second. That is the fact the
code never checks: only pacing gives it, and everything else needs it. `RingInv`
says that a set DD bit stands for a datagram not yet taken and that the packets not stepped
over are whole, `LengthInv` that a length is its own packet's, `JudgeInv` what the kernel
has found out about the packet it is at. DD comes last on one side and is cleared
first on the other, so the kernel holds a packet across many steps in which its DD bit is
already clear; `RingInv` therefore counts a packet as in the ring until `AdvanceRx`. The
refinement then follows step by step: `Arrive` appends to the
inbox, the `Decide` step (or the step that finds the packet useless) judges its head, all others
stutter.

*The receive path, before boot.* A datagram that `RxClear` wipes has moved `rx_tail` and not
`rx_head`, and no count ties the two together any more: after a wipe the kernel waits at a slot the
plugin may fill last, and then reads newer packets before older ones. What remains is true of each slot by itself. `LateInv`
says that the plugin is not writing a slot in which the kernel has work left (`LatePlace`), that an
unread slot holds the packet of the last datagram put there (`LateRing`), and that every length
is one of a whole message, the 64 of `init_rx_ring` included (`LateLength`; hence the full length in
`Late`). The refinement maps the inbox of `LateBid` to the datagrams on their way into the ring and
those whose slot is unread: a wipe loses one, `Decide` judges one, whichever it is, and
a datagram is never overwritten unread. `RoomInv` is why pacing by slot does not stop the traffic. Go round
the ring from the slot the plugin fills next: if one of the slots before the
kernel's is unread, then so are all from the kernel's on. The plugin fills
the slots in that very order and the kernel empties its own first, so each step keeps this; and a kernel that
finds nothing at its slot has nothing unread before it either.

*The detector.* It either expects only what lies behind all that has arrived (`Ahead`), or has
lost the feed for good, every later packet being of a session outside its window (`Astray`);
a report covers only what lies between the last number expected and the packet at
hand. Neither half is inductive: the jump over a lost session leads from the
first to the second, and back there is no way, since a session it has left never returns
(`LinkInv`). `SyncInv` is the account behind `HiddenAreFew`: what the detector overlooked of the
present session and how far it runs ahead of it are *together* at most the packets and
repeated messages that made it, so that every message hidden is paid for by drift. `DeafBeyondWindow` is the other
case: `tv.h:16` opens the bench's first session with an id of all ones, which is outside
the window of a detector that starts at 0, so in that session nothing is ever reported. `BoundAssumption`
lets a feed begin and end with that id, `FirstSid = LastSid = SID_MOD - 1`; the model's sender opens
no session after it, since what its incremented id would be is not modelled.

*Boot.* `ScanInv`: the scan has passed no Ethernet function, and the base is decided when it is over.
It rests on `Address`, that a configuration address names one place. `TextInv`: the kernel writes
into an empty register only, and what the port sent, what it holds and what is still to print
are what was said. `TellInv` adds that wherever the base is announced its eight digits follow, and
that by then it is decided; the digits are read back one power of sixteen at a time.

*The parser.* The registers are a function of the place of the beat on the bus, and `ParserInv`
is that function. In the header the parser's state counts the beats; between packets all is at
rest, in the first idle cycle perhaps with a last output. In the body `Passing(k, r)` says that k messages of the packet have come out, whole
and under their numbers, and that the design has had r bytes of what follows. There are
three ways for a beat to cut it: between two messages (`Aligned`, r = 0), inside a length
(`Split`, r = 1), behind one (`Within`). For each, the bytes `dispatch.v` masks, shifts and
gives out on its two pipes are those of the packet from there on, and the next beat leads to one of
the three again, at most one message ending in a beat. Where messages end is a recursive function, `EndOf`.
Two bounds came out of the attempt and are sharp, as TLC shows. A message needs nine
bytes, where the comment at `dispatch.v:152` asks for seven only: one of seven or eight that
lies, but for its length, wholly in the packet's last beat is lost, since none is begun there (`sel_data_start`).
And the gap needs two cycles, because a packet whose last message ends seven or eight bytes into the
last beat (`one_hot`) leaves `dispatch` in a state that takes so long to clear. The bench has three.

*The list.* `FifoInv` says that `read`, the links and `write` spell the
sequence of nodes that were pushed and not pulled (`Linked`), that the sequence names
no node twice and exactly the allocated ones (`Owned`). The second part is what makes the
first inductive: a push writes the link of the newest node and of one from
malloc, and only because that one is nowhere in the list do all other links stay. Under
`FifoInv` a push appends to the contents, a pull takes their head, and each is a step
of `ItchQueue`.

*The test bench.* Six counts run through it: messages read, packed, sent, decoded, announced
and popped. `FeedInv` says that each is behind the one before and that the messages in
between are exactly those held somewhere: in `msgs`, in the packet, on the wires, in the decoder,
in the list. `PacketInv` gives the packet's layout (`Packed`: message j of the packet begins at `Off`, a sum
over the log), `BeatInv` and `DutInv` say that the decoder has a prefix of it and found
every message whose last byte it has, `PendInv` and `ListInv` that what waits in the design
is the front of what waits in the list. The parts need one another: a beat extends the prefix
only because its bytes are the packet's next ones, the message that ends in it is the next one
only because all before it are found, and it is compared with its own copy only because the
list begins at the first message not popped. At most one message ends per beat, since a
message and its length take at least 14 bytes. `AllCompared` rests on ages: after the last beat,
what waits has waited as long as the gap has lasted (`AgeInv`), and the design announces by its
latency.

*The watchdog.* The bench stops a simulation in which no message is announced for twenty cycles. `QuietInv`
bounds the cycles since the last one, as long as no beat is refused, by what the decoder has had meanwhile: eight bytes a
cycle, behind the end of the last message found (or behind the start of the packet, plus the cycles before it). The next
message ends within 52 bytes, or 72 with a header, so that at most twelve
cycles pass with nothing to announce, thirteen from reset. When there is something, an edge
announces it or makes it a cycle older; the oldest is thus at most thirteen cycles behind
and younger than the latency. Hence seven, which is sharp: with a latency of eight the watchdog
stops the bench at a first message of fifty bytes.

*The format.* The tables come first. `AdminAgree`, `OrderAgree` and `TradeAgree` go through the
kinds: each has as many fields in its structure as signals, every signal is as wide as its
field (but for `end_of_snapshot`, half as wide), and the widths add up to the length of the message; `PutsFit`
says that the put calls are the structure's fields. From then on nothing depends on a kind. Where a field
begins in a structure and where a kind's arguments begin among all are sums of lengths, `Ends`,
so that fields do not overlap and the n-th kind's arguments are those of its declarations
(`PlacesAre`, `ArgsAre`). `FormatInv` says where the scan is (`PlaceOK`), that the structure is the last
message's (`Fill(Zeroed)`), and that the flags and the arguments of the kinds done show it
(`PutSoFar`). A put changes the arguments it takes only, which lie behind all those done; the signal takes
the first bytes of the vector, which are the field's and never its padding (`AssignIs`). At the
comparison all kinds are done, and the parts of a message, joined, are the message
(`FlattenedIs`).

`SizeTo`, `BytesTo`, `Sums` and `Ends` are recursive functions; that the recursion defines them is not
taken for granted, nor that `EndOf` is, nor what the fold in `FlattenSeq` is. `Recursions` shows it (`Recursion`) by the least number at which a function
built so far could fail, and so does each induction (`Induct`): every set of
naturals that is not empty has a least element.

*What the proofs changed.* The bound on hidden messages was once stated as one per packet
delivered. The proof of it failed at a repetition: a packet delivered twice moves the detector's
number on by its messages and one, and can then hide as many. The run's
bounds were too small to show that. `HiddenBounded` has the right account. The decoder in `TbFeed` once
went through the whole packet at each edge, with a RECURSIVE operator; it now keeps its place
in it, as a design does, and can be proved about. The registers of `Dispatch` and `MoldParser` were
one-hot bit vectors, joined by bit operations; each bit is now a flag of its own. The layout of `ItchFormat` was a
sum anew for each field; it is now one function of where the parts end.

Only model-checked is all liveness (`JudgesAll`, `OrdersSent`, `SpinEnds`, `Ends`, `BootEnds`), which
is beyond this prover. Every invariant and every action property of the passing runs is a theorem.

## 5. Not modelled, and why

* `nic/verilog/nic.v` does not compile (a stray colon, undeclared signals); its
  offsets disagree with `memmap.h`.
* `moldudp64_parser.c` and `unpack11.S` are prototypes nothing calls; the ring the
  first writes has no reader.
* Parser: heartbeat packets, the heartbeat countdown, and pauses inside a packet. The
  bench sends none of them; the hazards they bring are listed without a property.
* `top.v`, and the ITCH decoder: wiring of submodules that are not in the repository.
* The boot sector: a straight line of BIOS calls.
* `obs/`, `perf/`, `replay/`, `matrix/`, `core/`, `pipeline/`: declarations and time
  stamps. `tools/`, `ci/`: scripts without state of their own.
* `vpi/`: printing, `axis_send_64b`, and list operations nothing calls, among them
  `slisth_unpull`, which on an empty list sets `read` where it means `write`.

## 6. Plan

Models: in `MoldLink`, the sender's id after the session of all ones has ended, which wraps; heartbeats
and pauses in `MoldParser`, with the assertions they break.

Proofs: the detector over such a wrap, once modelled.
