# Sumeru: TLA+ models, checks and proofs

Sumeru is a RISC-V system on an FPGA: a three-stage pipeline with an instruction
cache and a write-back data cache, an SDRAM controller shared through a memory
arbitrator, a UART with DMA, a timer and an interrupt controller (`src/cpu`), and
the system libraries that run on it (`src/sw/sys-libs`). This directory models the
parts whose correctness depends on orders of events that no simulation run
covers: the memory system, both caches, the pipeline with its interrupts, the UART with
its driver, the driver's ring buffers, the heap, and the protocol that loads a program.

## 1. The system

| part | source | state | operations | interacts with | hard behaviours |
|---|---|---|---|---|---|
| memory arbitrator | `cpu/memory_arbitrator.vhd` | grant state, channel, strobe parities | grant, strobe seen, busy done | 8 masters, SDRAM controller | requests in any order; one strobe shared through parities; fixed priority |
| SDRAM controller | `cpu/sdram_controller.vhd` | start-up, busy and beat counters, open rows, refresh counter, strobe pipeline | start-up, activate, precharge, read/write, refresh, terminate burst | arbitrator, chip | refresh against pending requests; cycle-exact beats and times |
| SDRAM chip | `cpu/simulation/sim_sdram_mt48lc16m16a2.vhd` | clock enable, open rows, burst, CAS pipeline | commands | controller | timing assertions |
| data cache | `cpu/readwritecache_256x4x32.vhd` | tags, valid/dirty, byte enables, line transfer | write, store line, load line, initialise, flush by alias | iexec, channel 1 | partial lines, write-back, RAM outputs during writes |
| instruction cache | `cpu/readcache_256x4x32.vhd` | tags, line transfer, flush | load line, flush | ifetch, channel 0 | flush while loading, coherence with DMA and FENCE.I |
| pipeline | `cpu/cpu_stage_{ifetch,idecode,iexec}.vhd` | pc, valid/busy, control transfer, CSR latency | fetch, decode, execute, load/store, divide, interrupt, SWITCH | caches, CSRs, interrupts | transfer during a line load, interrupt return address |
| interrupt controller, timer | `cpu/intr_controller.vhd`, `cpu/csr_timer.vhd` | frozen, toggles, count | trigger, reset | pipeline, UART | toggles lost while frozen |
| UART, peripheral DMA | `cpu/csr_uart_rs232.vhd`, `cpu/periph_dma.vhd` | positions, toggles, bit counters | receive, transmit, read, write | channel 2, driver | position visible before data, re-arming during a byte |
| boot loader | `cpu/memory_loader.vhd` | word counter | write ROM to memory | channel 7 | hand-over of the channel |
| ring buffer | `sw/sys-libs/drivers/consprod.c` | prod, cons, buffer | produce, consume, with or without waiting | driver, tasks | stale pointer copies, full and empty |
| UART driver | `sw/sys-libs/drivers/{interrupts,uart0}.c` | flags, last position, active | start, stop, handlers | UART, rings | handler against task, stale position |
| interrupt entry and return | `sw/conf/entry.S` | saved registers | enter, return | pipeline | CSR write before SWITCH |
| heap | `sw/sys-libs/libc/{malloc,realloc}.c` | block list, free list | malloc, free, realloc, add block | tasks | coalescing, rounding, a failing realloc |
| boot monitor and clients | `cpu/BOOTCODE/{boot,uart0}.c`, `tools/bootloader_uart_client.c`, `tools/bluetooth/bluetooth_bootloader_client` | address, command, reply | set address, write, read, version, jump | UART | damaged and lost bytes, no framing, no time-out |

`PROJECT.json` lists every part with its status and every hazard at its line.

## 2. Modules

| module | models |
|---|---|
| `Bits` | bits as 0 and 1 |
| `MemoryService` | what the arbitrator promises: each request of each master is performed exactly once, one at a time |
| `MemoryArbitrator` | the arbitrator, with masters and a controller that may answer and be busy at any time |
| `MemoryArbitrator_proofs` | proofs for any number of channels and any requests |
| `SdramController` | the controller, one step per clock |
| `Sdram` | the chip: power-up, clock enable, banks, bursts, CAS latency and the assertions of its simulation model |
| `MemorySystem` | masters of channels 0 to 2, arbitrator, controller and chip on one clock |
| `MemorySystem_proofs`, `MemoryTiming_proofs`, `MemoryData_proofs` | proofs about the composed system: grants, rows and refresh; the chip's times; the data bus |
| `ReadWriteCache` | the data cache between iexec's load and store states and its memory channel |
| `ReadWriteCache_proofs` | proofs for any tags and line length |
| `ReadCache` | the instruction cache and the memory behind its channel |
| `InstructionFetch` | `ReadCache` with fetches of any address, FENCE.I and writes by other masters |
| `InstructionSet` | decoded instructions, and the entry and return sequence of `entry.S` as a program |
| `Isa` | what a program sees: instructions in program order, interrupts between them |
| `Pipeline` | ifetch, idecode and iexec with `ReadCache`, a data cache of any latency and the interrupt controller; the mapping to `Isa` |
| `Heap` | what malloc, free and realloc promise |
| `Malloc` | the allocator's headers and chains; the mapping to `Heap` |
| `BootProtocol` | the boot ROM's command loop, the serial and the Bluetooth client, and lines that damage or lose a byte |
| `BoundedFifo` | a queue with a capacity |
| `ConsProd` | the ring buffer |
| `Components_proofs` | proofs about `InstructionFetch`, for any number of lines and tags, and about `ConsProd`: it is that queue |
| `Uart` | the UART's receiver, transmitter and control registers, and the peripheral DMA |
| `UartDriver` | `Uart` with timer, interrupt controller, the interrupt handlers and a task that starts, stops, writes and reads |
| `UartDriver_proofs`, `UartReceiver_proofs` | proofs for any buffers and rings: the sending side, the receiving side |
| `MC_*` | instances for TLC |

**Time.** The hardware is synchronous: one step is one rising edge of `clk`, in which
every register changes at once. The chip and the RAMs are clocked by `clk_n`, half a
period later; a step therefore carries the effect of the command or write enable
that the previous edge has set (`MetaQ`, `LineQ`, `MetaRam`, `Chip!WriteBeat`). In `Malloc`
a call is one step, since nothing is allocated in handlers and the default locks do nothing.
In `BootProtocol` a step is a byte arriving or a message being sent.

**Data.** In `MemorySystem` addresses are a bank and a row, and a halfword is where it
belongs: `dq` is the bank, row and beat on the bus. In `ReadWriteCache` one index of the
direct-mapped cache is modelled, a halfword stands for its two bytes, and the
values are 0, 1 and `Undef`; only one halfword, chosen initially and arbitrarily, is
ever stored with both 0 and 1, which is enough to show a wrong or stale value. In
`ConsProd` each access to a shared pointer or cell is a step, so an interrupt handler
may be on either side. `Uart` and `UartDriver` are asynchronous instead: receiver,
transmitter, DMA, interrupts and processor step in any order, since they meet only through
toggles and positions. A handler runs to its end before the task goes on; the hardware
steps between its statements. Bytes are numbered, so a lost, repeated or reordered one
shows; 8-bit positions have `MaxLen` in place of 255; a line of the data cache may hold
old bytes of the receive buffer (`rx_cache`). Two facts of timing are built in: the receiver
in `RXD_IDLE` acknowledges a new buffer before the next instruction, and the timer does not
expire between `timer_set` and the return of its handler.

In `InstructionFetch` the word at address `a` is `a`, except one watched word that other masters
change. In `Pipeline` an instruction is a class with registers and an immediate; the ALU is
addition, the divider some other function whose result exists only after its eight stages, and
addresses count instructions. The data cache answers a load, whose `hit` is combinational, in the first
or any later cycle of `LS_WAIT`, and a store, whose `write_strobe` is a register, from the second on. An instruction has happened, for the mapping to `Isa`, when iexec
accepts it: what it will still write is added to the registers and the memory (`Registers`,
`Memory`, `SwitchTo`). In `Malloc` addresses and sizes are those of the source, for 32-bit
pointers. In `BootProtocol` a byte has 4 bits, an address 2 bytes, a block and a line of the
data cache 4; `mem` is memory as the processor sees it, `sdram` what has been written back, by the flush after
each block or by an eviction (`Evict`), which may come at any time. The ROM's buffer
is modelled with room for the checksum: `boot.c:45` declares 16 bytes and line 65 reads 17 into it.

Definitions named `X_<fault>` are faults used to check that each property can fail: a
property is trusted only if a fault of the code it speaks about breaks it.

## 3. Runs

| run | question | bounds |
|---|---|---|
| `arbitrator` | are requests served once, as asked, and strobes routed; is a request served unless higher channels keep asking? | 3 channels, 2 requests |
| `memory_caches` | are both caches served and refreshes done, does each beat read reach its cache? | the two caches on conflicting rows, 2 banks, refresh every 24 cycles, start-up of 32 cycles; the access times of the source |
| `memory_dma` | does each beat written reach its place, is the chip's protocol kept, is a refresh put off by one access at most? | the data cache and the DMA, otherwise as `memory_caches` |
| `write_recovery` | is tWR kept? (it is not) | both caches, as `memory_caches` |
| `ring` | is the ring a FIFO queue, do waiting calls return? | 4 cells (a queue of 2), 2 byte values, calls of up to 2 bytes |
| `dcache` | do loads see the last store, do flushes reach memory, does every access complete? | 2 tags, lines of 2 words, the second halfword watched |
| `instruction_fetch` | is what hits the word asked for, and not older than the last FENCE.I? | 2 lines, 2 tags, any word of memory watched |
| `pipeline` | does the pipeline implement the instruction set, never stop, and take interrupts? | 20 programs of 4 instructions and the handler, 16 addresses, 3 registers, 4 values, a cache of 2 lines |
| `uart_transmit` | are written bytes sent once, in order, and no completion lost, across a restart? | buffers of 2, rings of 3, 4 bytes out, 1 in, 2 starts |
| `uart_liveness` | are received bytes delivered once and in order; is everything sent, and everything delivered or dropped for a reason? | buffers and rings of 2, cache lines of 2, 4 bytes in one direction, 1 start |
| `malloc` | do malloc, free and realloc keep their promise and the chains sound? | 4 buffers of 96, 72, 48 and 20 bytes, requests of 0, 1, 20 and 60 bytes |
| `boot` | is the program in memory before the jump, does a load without faults complete? | images of 0 to 7 bytes, either client, one byte damaged or lost, a load address that starts a line and one that does not |

*Why the bounds suffice.* The arbitrator's arms are the same for every channel, and
three give one below and one above any channel (its theorems hold for any number).
24 refresh cycles are longer than an access, so refreshes fall due before, during
and after each kind of access; two rows of a bank give hit, miss and conflict. A
line of two words has a first, an inner and a last beat. A ring of four cells is
empty, partly full, full and wrapped, with calls longer than the room left (its theorems hold for any size). Four bytes fill the receive or the
transmit buffer twice. The two lines of the instruction cache make the handler evict the
program, and every line is flushed at another step. The programs put an instruction that
produces a result, or FENCE.I, before one of each class that uses it or follows it, and
FENCE.I on the path not taken. The first two buffers given to `Malloc` touch and the second is
of a size that leaves remainders below and above the size of a free header; the last is too
small to be accepted. The images end before, at and after a block's end and contain bytes
that are commands.

**Fairness.** Weak fairness of the clock; the arbitrator alone also assumes a controller
that answers, which `memory_caches` shows of the real one, and the data cache a memory
that answers, which `CachesServed` shows of the memory system. `Pipeline` likewise assumes that
neither cache leaves an access pending for ever; its clock is weakly fair, written as "infinitely
often disabled or changing", which says the same since all changes are steps of the clock.
`InterruptTaken` has the premise that instructions at which an interrupt may be taken are
executed again and again: a loop of branches, JALRs and CSR accesses takes none.
`BootProtocol` assumes that both programs and both lines go on. `ConsProd` assumes that
each side keeps calling with a positive length (strong fairness): the handlers are
called by recurring interrupts and tasks read or write in loops. `UartDriver` assumes that
clocks run and handlers execute (weak fairness), and that a pending UART interrupt gets its
turn although the timer has priority (strong fairness): the timer counts from the end of
its handler, which leaves the controller free for a period.

**Finding.** `write_recovery`: after a burst write the controller may close the row one
clock period (13.3 ns at 75 MHz) after the last halfword. The chip's model states 15 ns
(`tWRm`) and asserts it, but its assertion compares with a time that is never set, so
simulation stays silent.

**The first PRECHARGE.** The controller raises `cke` one edge before it issues the PRECHARGE of the
start-up, and the chip's clock follows `cke` with a delay of one edge (`ckez`). The first edge that
the chip sees is the one with the PRECHARGE, and its counter `MRD_chk`, which must be 2, is 1: its
simulation model warns of a tMRD violation at every start. No mode register was loaded before, so
nothing is lost. `ChipProtocol` asks tMRD of every PRECHARGE but this one; it asks everything else
from power-up on, when the chip has all banks active and its times at 0 (`ChipInit`).

**Two windows in reception.** `RxExactlyOnce` and `RxDelivered` hold until a handler reads the
position in one of two windows, which the model records in `window`:

* *stale*: the receive handler asks for a new buffer while a byte is arriving, and the timer
  handler reads the position before that byte's stop bit. It is still the old one (255):
  the old buffer is delivered a second time and `g_uart0_rx_lastpos` is 255, which no
  position of the new buffer exceeds, so nothing of it is delivered. TLC reaches this state.
* *early*: the position counts a byte whose DMA is still under way, and the handler copies it
  before the DMA is done. Whether the DMA can be that late depends on access times that
  `UartDriver` does not have.

Nothing in the repository states what the driver promises here, so this is a limit of the
properties and not a finding. Reception across a stop and a start is not promised either: bytes left in the buffer are discarded.

**What the pipeline relies on.** `ProgramSpec` holds for programs that execute SWITCH only to
return from a handler. It depends on details that look accidental: without the load that
`entry.S` has between the write of PCSWITCH and SWITCH, with a divider count of 7 (the source has 9,
8 would do), without the bypass, or with interrupts during branches or CSR accesses, TLC finds a program that
goes wrong.

**What the boot protocol does not promise.** A damaged or lost byte that the ROM takes for a
command is excluded by `LoadedBeforeJump`: payload bytes may then be taken for commands, and
among them for a jump. A block that does not start a cache line ends in the next one, which
`boot.c:68` does not flush: the end of such an image, after the line in which its last block starts, is in the
SDRAM only if the line happens to be evicted. The property promises the whole image for load addresses that
are multiples of 16, and nothing in the repository says that others may be used. After any lost byte both sides wait for ever (`boot` therefore does not
check for deadlock).

**A failing realloc.** When malloc fails inside realloc the source copies the block to NULL and
frees it (`realloc.c:42-44`). `Malloc` does the same and records it in `lowmem`;
`Heap` allows it, and only then.

## 4. Proofs

TLAPS proves the following, for every value of the constants that the named assumptions
allow. Each invariant was checked with TLC on the instances of section 3 before it was proved.

* `MemoryArbitrator_proofs`, for every number of channels and every set of requests: `TypeOK`, `RequestIntact`,
  `StrobeRouting`, `StrobeParity` are invariants and the arbitrator implements `MemoryService`.
  The inductive invariant is their conjunction; `StrobeParity` relates the saved parity of the
  granted channel to the controller's strobe: without it routing is not preserved by a grant.
  The refinement maps a pending request to one the service has not performed; a step in which
  the controller toggles its strobe performs it.
* `ReadWriteCache_proofs`, for every set of tags, line length and watched halfword: `ReadsLastWrite`,
  `FlushWritesBack`, `NeverLost`, `DirtyWhenNewer`, `UndefinedNotRead` and the action property `InitThenWrite`.
  The invariant says where the last value stored is (`Coherent`): in the line, or in memory
  *after the beat in progress* (`MemQ`), which covers the last halfword of a store that is
  taken when the cache is already IDLE. `Handshake` and `Channel` tie the cache's state to
  those of iexec and of the memory; the bursts count together.
* `Components_proofs`, in two parts. Instruction fetch, for every number of lines and tags:
  `FetchedFresh`. Unless a flush is due, valid lines hold words that may be fetched (`LinesFresh`);
  a flush has invalidated the lines from the last down to where it is (`Flushed`), and a line being
  loaded is invalid and holds the words whose halves have arrived (`Loading`). The ring (an instance
  of `ConsProd`, whose assumptions on the constants are `RingOk`), for every size N >= 2 and all
  lengths: `TypeOK`, `SnapshotsSafe`, `CallsAccountBytes`, and it implements `BoundedFifo` of
  capacity N - 2. The inductive invariant adds that a running call's locals follow the shared
  pointer it owns, that a side about to advance has found room or data and that the consumer then
  holds the byte it read (`LocalsFollow`), and that what a running call has moved is its length less
  what is left, and that only a call that waits spins (`RunningCalls`).
* `UartDriver_proofs`, for every size of buffers, rings and cache lines, any number of bytes and of
  restarts: `TxOwnership` and the action property `TxInOrder`. A completion is in one place at a time
  (the transmitter, its toggle, the interrupt controller or the handler), and the bytes sent, in the buffer
  and in the ring are in order and are all the bytes written, less those given up
  (`InOrder`, `Accounted`).
* `UartReceiver_proofs`, with the same generality but for an engine started once (`MaxStarts = 1`, as in
  the run): `RxExactlyOnce`. One interrupt is in progress at a time (`IntrInv`); the invariant of the receiving side holds until one of the two windows is hit (section 3). It accounts
  for each byte up to the one in the frame: dropped, given to the ring, or in the buffer, where
  a DMA under way counts as done (`Byte`). With a second start the property is false, as TLC
  shows: `uart0_start_engine` discards what the buffer still held, and the driver keeps no record of it.
* `MemorySystem_proofs`, for every set of banks, rows and requests and all waiting periods of the
  controller: `OneCommandPerGrant`, and the masters and the controller implement the environment
  of `MemoryArbitrator` (`ArbitratorSpec`). With the arbitrator's own theorems, cited through an instance of their
  module, the composed system implements `MemoryService`. The inductive invariant `ControlInv` says that the
  controller stays busy until after a read's strobe has left the pipeline `strobe_r2`, `strobe_r1`,
  `strobe` (`StrobePipe`), that what was issued is what was latched (`Issue`), and that `bank_states`
  is what the chip has open after the command under way (`Rows`), from the edge on at which its clock runs
  (`PowerUp` says which one that is: the PRECHARGE of the start-up is on it).
  `RefreshNotStarved` is proved under `RefreshFits`: the waiting periods are short beside the refresh
  period (24 <= 578 in the source, 24 <= 24 in the runs) and the start-up. Its invariant bounds
  the edges before the next REFRESH (`Delay`) and shows that a due refresh comes before
  `cycle_counter` overflows.
* `MemoryTiming_proofs`: `ChipProtocol`, for every length of the waiting periods that is `LongEnough` (tRCD and tRP at
  least 1, tRFC at least 4; the source has 1, 1 and 6). The invariant adds, for each bank, what
  the ages of the last commands will be when the controller is ready again (`Ages`). tRAS, of 4 cycles, is not
  covered by the wait after ACTIVE alone: a row is closed only after the access it was
  opened for, because the request stays latched and a refresh does not come first. `OpenedFor` says so.
  For the start-up, `StartupAt` gives the ages and the command of each cycle, counted from the one that
  enables the chip's clock: the banks that are active at power-up are closed in time for LMR, and that
  comes in time for the first ACTIVE.
* `MemoryData_proofs`, for every set of banks, rows and requests and all waiting periods: `ReadAligned`, `WriteAligned`,
  `NoContention` and the action property `BurstWritten`. The invariant `BusInv` says that from the edge that issues an
  access until the arbitrator is IDLE again, the number k of edges since then determines what the controller
  (`CommandAt`), the chip with its CAS pipeline (`WriteAt`, `ReadAt`) and the granted master (`MasterAt`) are
  doing; at all other times nothing moves (`Quiet`). One equation, `Left + k = Length(sdc_op)`, ties k to the
  controller's counter: its waits are exactly as long as the bursts, so the next grant finds a quiet bus.

Assumptions are those named in the component modules: at least one channel, line, tag and
word, a request set that is not empty, a ring of at least two cells; for `MemorySystem`, a start-up of at
least 8 cycles that is longer than the refresh period. `PowerAssumption` states facts about powers of two
that hold for every such start-up, since the provers do not compute them; TLC evaluates
all of them for the instances.

Only model-checked: all liveness properties (fairness is outside the prover's reach); `Pipeline` and its refinement of `Isa`; `Malloc`, which walks its
chains with recursive operators, and `BootProtocol`, which computes checksums bit by bit: the prover can use neither.

## 5. Not modelled

* *Vendored and generated code*: bluez and pygattlib under `tools/bluetooth/contrib` (more than nine
  tenths of the repository's lines, none of them written for this system), the RISC-V test
  suite, CoreMark, Dhrystone and the other kernels, PLL and RAM instances, host scripts. Counted
  over the whole repository the mapped lines are therefore well below one per cent; of the files listed
  as components in `PROJECT.json` they are a quarter, and of the caches, the pipeline, the
  memory system, the UART and the drivers most of what is not a declaration.
* *Arithmetic units*: vendor megafunctions and combinational logic; simulation and the ISA tests
  reach them well. `Pipeline` models when their results are ready.
* *The rest of the C library*: sequential string, formatting and sorting functions.
* *The boot loader in hardware* (`memory_loader.vhd`): 1024 single writes before the processor is enabled. Their
  number is even, so channel 7 is switched over to the unused `pbus_mc_in` (`cpu.vhd:156`) with the
  `op_start` of both 0.
* *GPIO, counters, testbench*: registers with one assignment each, and wiring.
* *Left out of modelled parts*: set and clear forms of CSR instructions and other CSRs (`Pipeline`);
  sizes near 2^32, for which the rounding wraps, calloc and the lock callbacks (`Malloc`); baud
  rates and bits of a frame (`Uart`); setup, hold and auto precharge (`Sdram`); Bluetooth connection
  set-up (`BootProtocol`).

What could follow: the rings' pointers in `UartDriver` in place of queues, for the stores of
`consprod_init`; reception across a restart; the DMA's delay from `MemorySystem`; and an
inductive invariant for the control of `Pipeline`, with the refinement of `Isa` as a theorem.
