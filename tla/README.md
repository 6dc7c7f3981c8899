# TLA+ for AjarDSP

AjarDSP is a 16-bit fixed-point VLIW signal processor written in Verilog
(`src/rtl/verilog`), with a system-on-chip around two of its cores
(`src/rtl/verilog/soc`) and software tools (`src/sw`). This directory holds TLA+
modules of the hardware and of the tools that feed and watch it, TLC configurations that
check them on small instances, and TLAPS proofs of what matters most.

Run everything from this directory: `tlc -workers 2 -config VliwFetch.cfg VliwFetch.tla`,
`tlapm VliwFetchProofs.tla`. `PROJECT.json` lists the runs, the lines of the source each
definition stands for, the hazards, and for every checked property a *mutant*: a
plausible bug in the code that makes TLC refute the property.

## 1. Inventory

The hardware is synchronous logic. What is hard there is *cycles*: which register is looked
at in the cycle in which another one changes, who owns a shared bus when a registered answer
arrives, which of two clock domains moves first. The tools are a chain (compiler, assembler,
host, debug port) in which each link must agree with the decoders of the core, and a debugger
of two threads.

### The core

| component (source) | state | operations | interacts with |
|---|---|---|---|
| fetch and aligner (`vliwfetch.v`, `imem.v`) | FSM of four states, `pc`, two 64-bit queue words, `fetch_address`, `insn_on_top`, `jump_pc_r` | prime, run, accept a jump, jump | gets `jump_en/jump_pc` from the PCU and the packet length from the decoder; shows four halfwords |
| decoder (`vliwdec.v`, `insns.v`) | none | splits a packet of 1-4 halfwords over the units | fetch, all units |
| PCU (`pcu.v`) | two-stage pipe, delay-slot shift registers, RETPC, RETIPC, three block-repeat registers, interrupt enable | jump, call, return, block repeat, EINT/DINT, interrupt | redirects fetch, suppresses instructions |
| LSU 0 and 1 (`lsu.v`) | three-stage pipes, pointer-update results | loads, stores, push/pop, pointer arithmetic; LSU 0 also external accesses | register files, `dmem.v`, bus interface |
| data memory (`dmem.v`) | two ports, `resolve_cycle_r` | access; one-cycle stall on a bank conflict with a burst | LSUs, bus interface |
| stall handshake (`ajardsp_top.v:373-393`) | `m_if_stall_r` | set by an external request, cleared by the acknowledge | gates the clock of the whole core |
| CUs, multipliers, BMU (`cu.v`, `int_*.v`, `shifter.v`, `bmu.v`) | pipes | arithmetic, compare, predicate write | register files |
| registers (`accrf.v`, `ptrrf.v`, `pred.v`, `sp.v`, `specregs.v`, `curegs.v`) | values | multi-port read and write | all units |

### The system on chip

| component (source) | state | operations | interacts with |
|---|---|---|---|
| arbiter, multiplexers, decoder (`soc_top.v`) | `active_wb_master` | move to the next master whenever the active one does not drive `cyc` | five masters, five slaves |
| DSP bus master (`wb_ajardsp.v`) | FSM of eight states, address, burst count, flags, `read_data` | read, write, burst with back-off every 16 words, boot burst out of reset | core, bus, `imem`, `dmem` |
| on-chip RAM (`wb_ram.v`) | two-state FSM, registered `wb_ack_o` | read, write | bus |
| SDRAM slave and controller (`wb_sdram_ctrl.v`, `sdram_ctrl.v`) | handshake FSM; DDR FSM on a clock twice as fast, `clk_edge_odd`, open row, refresh timer | read, write, row change, refresh | bus, DDR chip |
| debug port (`wb_debug.v`, `uart.v`) | byte FSM, bus FSM | read, write on the host's command, also the reset register of the cores | bus, UART, host tools |
| VGA (`wb_vga_ctrl.v`, `async_fifo.v`) | FIFO, line and pixel counters, bus FSM | fetch the frame in bursts, restart at vertical sync | bus, pixel clock |
| Ethernet (`wb_eth_ctrl.v`) | receive FSM, FIFO, bus FSM | write received frames to a ring in SDRAM | bus, PHY clock |
| ADC (`wb_adc_ctrl.v`) | sample FIFO | sample, read | bus, ADC |
| misc (`wb_misc_io.v`) | `reset_ctrl`, LEDs, switches | read, write | bus, resets of the cores |

### The tools

| component (source) | state | operations | interacts with |
|---|---|---|---|
| assembler (`asm/asm.c`, `ajardsp-insns.c`, `symtab.c`) | `imem`, `dmem` and their addresses, the symbol table, the pass | two passes over the parsed elements; images, map | the decoders of the core, `wb_debug` |
| disassembler (`asm/disasm.c`) | none | search of the same table | the assembler |
| host (`target/wb_debug.c`) | the command line and the command being done, its address and remaining length, file position, three variables that keep old values | load images, read and write words, dump | debug port over a serial line |
| debugger (`simdebug/`) | mode, cycles left, break points, copies of registers and memory, views | step, run, stop, edit, break points, quit | two threads; the simulated design |
| compiler back end (`gcc/config/ajardsp`, `crt.s`) | a function's insns and their issue groups | frames, NOP insertion, printing of packets | the assembler, the latencies of the core |

`src/doc` and the comments are what the code is compared with.

### What is hard, and what correctness means

* **Fetch.** The queue is one or two words behind depending on alignment, and a bundle of
  1-4 halfwords may straddle words. Correct: the decoder always sees the four halfwords at
  `pc` (`WindowAtPc`), in program order, with the right delay slot (`ImplementsOrder`).
* **PCU.** A jump is decided one cycle after its packet issued, a block repeat when its
  end address is at the decoder, an interrupt in any cycle; fetch looks at the request in
  one of its four states only. Correct: no acknowledged interrupt is lost
  (`AckIsAccepted`), and calls, returns, interrupts and loops behave as in a machine
  without a pipeline (`ImplementsFlow`).
* **Core against bus.** Requests are a combinational function of a pipeline stage that the
  stall freezes; the acknowledge is a pulse; the loaded word is not latched but must still
  be on the shared bus three cycles later. Correct: a load gets its own word, and no
  acknowledge is taken for another access.
* **Bus.** Registered acknowledges (RAM), requests that cannot be withdrawn (SDRAM) and
  masters that leave in the middle (VGA) share one arbiter without time-outs. Correct:
  every answer belongs to the access it answers, and everyone is served.
* **Clock domains.** The FIFO between PHY clock and bus clock computes its flags from pointers of
  both; the master behind it looks at flags and data before its registered read enable has moved
  the pointer. Correct: every word received is stored, once, in order (`EveryWordStored`).
* **Pipelines and ports.** Register files go on writing while the core stands still, units share
  ports, results land in different stages. Correct: packets do what the documented latencies say,
  however long a stall lasts (`ImplementsPackets`).
* **From source to memory.** Opcodes are written down in three places and addresses computed in two
  passes; the host never hears whether a write was done. Correct: the decoders carry out what the
  source says (`RunsAsWritten`, `LabelsHold`), and the right words are at the right place when the cores are
  released (`BootsLoadedProgram`).
* **Compiled code.** A result is there one packet later than the next, on every way the program can
  go, and a frame is laid out by moving two pointers. Correct: the NOPs are enough (`CompiledRuns`) and
  nothing overwrites a frame (`FramesKept`).
* **Debugger.** A condition variable without its mutex, counters and lists without a lock. Correct, for
  a user who waits until the simulator waits: views show the design, runs have the length asked for.

## 2. Modules

| module | models |
|---|---|
| `ProgAddr` | program addresses, wrap-around, halfwords of a word |
| `VliwFetch` | `vliwfetch.v` with the output register of `imem.v` |
| `BundleOrder` | abstract: packets in program order, one delay slot behind a jump |
| `Pcu` (extends `VliwFetch`) | `pcu.v`; every cycle any control instruction may be decoded |
| `ProgramFlow` | abstract: the program flow of a machine without a pipeline |
| `PcuFlow` (extends `Pcu`) | refinement mapping from `Pcu` to `ProgramFlow`, and the rules programs must keep |
| `WbAjardsp` | `wb_ajardsp.v`, the stall of `ajardsp_top.v`, LSU 0's external pipe, the bank conflict of `dmem.v` |
| `DspOnBus` / `MCDspOnBus` | one `WbAjardsp` against the weakest bus that keeps the protocol |
| `UnitOps`, `PacketFlow` | abstract: what packets read and write, with the documented latencies |
| `DspUnits` / `MCDspUnits` (extends `DspOnBus`) | LSU, CU and BMU pipelines, ports of `accrf.v`, `pred.v`, special-register bus, ports of `dmem.v`, behind the stall and the bus of `DspOnBus` |
| `WbSdram` | `wb_sdram_ctrl.v` and the accesses of `sdram_ctrl.v` |
| `SocBus` / `MCSocBus` | `soc_top.v`: two `WbAjardsp`, `WbSdram`, RAM, debug port, VGA, Ethernet, misc |
| `EthRing` | `async_fifo.v` with two clocks, the bus master of `wb_eth_ctrl.v`, `WbSdram` |
| `InsnTable` | the instruction table of `ajardsp-insns.c` |
| `Assembler` | `asm.c`, `symtab.c`: encoders, both passes, output |
| `Disasm` | `disasm.c` |
| `HwDecode` | `vliwdec.v`, the dispatch of `ajardsp_top.v`, the decoders of LSU, CU, BMU and PCU |
| `DebugLink` | `wb_debug.c`, the serial line, `wb_debug.v` |
| `Compiler` | insn patterns, frames, NOP insertion and printing of the GCC back end; `crt.s` |
| `CoreRun` | programs on the core packet by packet, with the latencies of the units or without |
| `Toolchain` / `MCToolchain` | composes the eight above |
| `SimDebug` / `MCSimDebug` | `debug-pli.c`, `debug-gui.c`: simulator thread and GUI thread |
| `VliwFetchProofs`, `PcuFlowProofs` (also `Pcu`), `DspProofs`, `DspUnitsProofs`, `SocProofs`, `EthProofs`, `SimDebugProofs`, `DebugLinkProofs` | theorems about the modules they are named after |

### Correspondence with the code

**Time.** A step is one rising edge of the clock of the component, with its enable high;
all `always` blocks take it together, so an action is a conjunction of next values, and
blocking wires are operators. The names are those of the code. In `SocBus` all components
share the 40 MHz bus clock. Of the SDRAM controller's double clock, two half cycles are one
step; `early` is the phase of `clk_edge_odd`, which nothing in the code aligns with the bus
clock, so both are possible from the start.

**Data** is represented by where it comes from: an instruction word by its own address, a
bus word by the address it was read from or written to. "The right word" is then an equation
between addresses, which is what all data properties here say. Bus addresses are records of
the slave they select, the region's user, and a word number.

**Programs** are not fixed. `VliwFetch` takes any packet length (0-4, 0 is what the decoder
makes of an illegal packet) and any jump in any cycle. `Pcu` takes any control instruction
the constants allow, in any cycle in which instructions issue. `WbAjardsp` takes any external
access from a set, in any packet. Interrupt requests, refreshes, FIFO levels and host commands
are nondeterministic in the same way.

**Instruction details.** `inst.ok` in `Pcu` is the value its predicate will have. A 32-bit
jump with a false predicate changes nothing and is a NOP; BKREP writes its begin and end
registers even when its predicate is false (`pcu.v:227`), so it keeps both cases. In the code
instructions of a suppressed packet are NOPs, hence `Decoded`.

**Races in the simulation model.** `wb_ack_o` of `wb_ram.v` and `m_wb_cyc_o` of
`wb_vga_ctrl.v` are assigned with `=` in clocked blocks and read by other clocked
blocks. Synthesis builds registers, and the modules model registers.

**VGA.** The fill level is a difference modulo 512 with a read pointer that comes from the
pixel clock, so "full" may be seen in any cycle of a burst; in the model a burst may end
in any cycle. Vertical sync may come in any cycle as well.

**Debug port in `SocBus`.** A command needs at least five bytes at 115200 baud, some 17000 bus cycles. A
boot burst started by the previous command is over by then; this is the one timing fact used
(`Booting` in `DebugCommand`). The bytes are in `DebugLink`, where the bus is one nondeterministic
delay of at most `BusBytes` bytes.

**Host and debug port (`DebugLink`).** A step of the host is a call of its loop body or the start and end of a
command; a step of the port is a clock that changes its bus FSM or its transmitter, a byte received or a byte sent, with the
UART taken as atomic. The commands of the command line are records (`Command`): the files of a load are given with it, as lines that are already
numbers. Addresses are multiples of four, as the slaves ignore the two low bits; a length fits an `int` and an address plus the
length an `unsigned int`; the length of `load-imem` is not 0, because that loader sends a word before it looks at the length and
would write behind a range of no bytes. At the end of a file `fscanf` leaves its variables alone, so the last line is sent again, or
garbage in the first round (`Scan`). `LinkSpec` is the link alone with any command line; `Toolchain` composes the same actions with the assembler and starts
the host on the files the assembler wrote (`WithFile`). `ResetCtrl` is the address of `reset_ctrl`, whose write releases the cores.

**Units (`DspUnits`).** One bit per register, two accumulators, one predicate, one control register
(`satctrl`, `mulsign`), one cell of dmem; bursts touch other cells (`BurstCells`). One
operation stands for each way of using the ports. What an idle unit latches is left out (`Idle`): nothing reads it. Memory accesses are not predicated, and programs are prudent (section 5).

**Two clocks (`EthRing`).** Each clock has its own action, so edges come in any order. Gray-coded
pointers change one bit per edge, so a comparison across clocks sees the old or the new value;
metastability is not modelled. One relation between the clocks is used: two
acknowledges of the SDRAM slave are at least three bus cycles apart, the time from `fifo_ren` over `raddr` to `rdata`.

**Assembler.** One step is one element of the lists the parser built. `exit(1)` and a crash (operands
read past their list, a write past `imem[]`) are ends of the program. `ImemSize` and `DmemSize` stand for 65536.

**Compiled programs.** The compiler proper is not in the repository. A function is given as its insns;
the scheduler is the environment: any issue groups, in order, that the units, dependences and
latencies of `ajardsp.md` permit within a basic block (`Schedules` in `MCToolchain`). A group starts as
soon as its first insn may, so an insn without operands is not delayed behind one that waits. `CoreRun` runs the
image symbolically: a value is an expression over what the registers held at reset, an address is a
number, and the outcome of a predicated branch is given, so every path is taken. Jumps have no delay slots here (the compiler
emits none without its hardware-loop pass) and let every result land.

**Debugger.** A handler is its statements, run one at a time; the simulator takes a step per
element read out. A clock cycle leaves any of the designs in `Cycles`, whatever ports wrote it. `QuitEnds` and `StopsWhenAsked` do not
speak of the lost wakeup (section 4): the user who closes a window there waits for the simulator to wait. Not modelled: spurious wakeups, a program without a source window, window geometry,
list stores and columns, the value of the cycle label, the marks of break points.

## 3. Runs

All passing runs together fire every action and every disjunct. Deadlock is not checked
in the two flow runs and in `dsp_units` (a step that would break a rule of section 5 is removed,
which can leave none), nor in `toolchain` and `simdebug`, whose programs end.

| run | instance | checks |
|---|---|---|
| `fetch` | W = 4 words: 16 addresses, all alignments, wrap-around; all lengths, all jumps | types, window, inductive invariant, order, liveness |
| `pcu_flow_jumps` | W = 2; calls, returns, EINT, DINT, interrupts, all delay-slot counts | types, no lost interrupt, `JumpShadow`, refinement of `ProgramFlow` |
| `pcu_flow_loops` | W = 2; BKREP, JUMP, RETI, EINT; one-halfword packets, count 1 | refinement of `ProgramFlow` |
| `dsp_prudent` | one core, reads, writes, bursts of 0-3 words in both directions, one nowait burst, LSU 1 | loads, stalls, stray acknowledges, the inductive invariant, liveness |
| `dsp_units` | ten packets that use every unit and port, loads, bursts with and without waiting | refinement of `PacketFlow` |
| `soc_shared` | two cores booted in turn, debug reads; RAM, SDRAM, misc | every answer goes to its owner |
| `soc_streams` | a core reading and writing bursts against VGA and Ethernet at the SDRAM | burst words |
| `soc_fair` | a core and the debug port against the frame buffer | they are served |
| `soc_boot_together` | two cores released by one write | violation, section 4 |
| `toolchain` | every table entry with two choices of operands and three predicates; programs that are refused; layouts with labels, alignment, data and command lines; compiled functions in the schedules of half a function at a time, packed and not | the decoders do what the source says, labels, disassembler, loading, dumps, termination, NOPs, frames |
| `simdebug` | two registers, a pipeline stage, a word of memory, all of one bit where they are edited, and the numbers 1 and 2 typed into them, of which 2 does not fit; three designs that differ in the registers or in the word; a patient user and one who sets break points at any time; the `.lineno` file in both formats | views, run lengths, Stop, Quit |
| `eth_ring` | a FIFO of eight words (`Quarter` = 2) with up to eight waiting | flags, ring words, every word stored |

**Bounds and why they are enough.** *W*: the code's W is 2^14; the queue spans two words and
compares bit 2 of the address, so four words hold every distinction and the wrap; the PCU
compares addresses for equality only, so two words (8 addresses: the vector 4, an unaligned
7) suffice. What the small W cannot show, the theorems of section 6 say for every even W. *Loop count* 1
makes a loop of two iterations; nested reloading of the count in the loop is reached through
`CountMayBeWritten`. *BackOff* 2 stands for 16: a burst of three words contains a back-off,
the length modulo the period is zero and non-zero; in `soc_shared` the boot burst is 3 words,
in `soc_boot_together` 4; `dsp_units` needs only a gap (1). *Words*: two words per stream suffice to
tell a word from its successor. *Quarter*: the code has 9 address bits, quarters of 128 words; the flags compare whole pointers
and the quarters they are in, so two words tell the ends of a quarter apart; quarters of four words pass as well (two
minutes), and `EthProofs` says it for every size. *Toolchain*: `ImemSize` 256 and `DmemSize` 16 hold every program but those meant to overflow;
operands are sampled at both ends of their fields; `MaxPackets` 200 is beyond the longest run. Nothing is cut off by a state constraint.

Assumptions about the environment that a bound makes, each refuted if dropped: `Backlog` at most the
depth (9 in a FIFO of 8 refutes `FlagsHonest`: `wfull` is not connected); `BusBytes` = 1, the bus serves the debug port within one byte
time (some 3500 bus cycles; 2 refutes `WritesInRange`: a frame-buffer burst that held the bus longer would let the next command overwrite the
registers of this one); `ReadSizes` = {4}, `read()` of four bytes returns four (a shorter one refutes `DumpShowsMemory`).

**Fairness.** `VliwFetch`: the clock enable is high again and again, which is what the
handshakes that lower it are for (`CoreAdvances` of `DspOnBus`). `DspOnBus`: the bus grants a master that
keeps asking and acknowledges one that keeps `cyc` (`FairBus`), discharged for the real bus by
`CoreServed`. `SocBus`: the clock runs (`WF(Next)`); a refresh or row change does not keep
the controller away from a held request for ever (`DdrServes`, the DDR FSM is a finite chain
back to `s_row_active` and refreshes are thousands of cycles apart); vertical sync
comes once per frame (`VerticalSync`). The arbiter needs no fairness: it moves by itself.
`EthRing`: both clocks run, and a bus access is granted and served again and again (what `SocBus` discharges for its
masters). `Toolchain`: host and debug port go on (`WF`). `SimDebug`: both threads are
scheduled, and the simulator gets the GDK lock though handlers take it again and again (`SF(SimNext)`); the user need not do anything.
Starvation by the Ethernet port is not checked: `wb_eth_ctrl.v` holds `cyc` as long as
its FIFO is not empty, and whether that ends depends on the relation of PHY rate and SDRAM
rate, which the model does not have.

## 4. Where the code differs from what is said of it

`PROJECT.json` quotes, for each finding, the line of the document, comment or test that says otherwise. One is
shown by a run:

* `soc_boot_together`: when one write to `reset_ctrl` releases both cores, the RAM's
  registered acknowledge for a core that just backed off is taken by the other, and a word of
  its boot code is wrong. Released in turn, as the `do.sh` scripts do, both boot correctly.

The others were met while modelling; the runs leave the case out, by a rule, an assumption or `Diverges` of `Toolchain`.

*Core.*

* A burst from or to dmem in a packet whose other half accesses dmem through LSU 1, right behind an
  external access: the burst starts in the acknowledge cycle of the access before, its bank conflict
  keeps the packet in stage 0, and when it ends it starts again, for ever (`dmem.v:217`, `lsu.v:583`).
* CU 1 and the BMU share ports, and CU 1 loses (`accrf.v:150`); LSU 0 reading a special register takes the bus from
  LSU 1's write of the packet before, and LSU 0 writing one takes it from LSU 1's read in the packet behind (`ajardsp_top.v:886`);
  `mvfs16` right after `mvts16` sees the old value (`lsu.v:861`).
* `cmp16gt` is true for equal operands (`cu.v:448`); the four unsigned compares encode signed ones.
* A compare sets its predicate whatever its guard; a negated guard changes the comparison (`cu.v:429`). BKREP, EINT and DINT are not
  guarded, and push and pop move the pointer although their guard is false.
* `ldinc16` and `stinc16` with a pointer as data do not increment (`lsu.v:983`).
* There are no jumps through a pointer register: `pcu-insns.txt:22-33` describes them, `#if 0` takes them out of the assembler's table
  (`ajardsp-insns.c:1860`, `:1958`), `pcu.v` does not decode the branch and of the call writes only RETPC. The compiler still writes
  one for a computed jump (`ajardsp.md:851`), which the assembler then refuses.

*Bus.*

* A frame-buffer read withdrawn at vertical sync or on a full FIFO still runs
  in the SDRAM controller, and its `rd_ack` completes the next master's read with stale data (`wb_vga_ctrl.v:259`).
* `soc_top.v` routes 0x00000000-0xBFFFFFFF to SDRAM, the slave answers below
  0x10000000; any other address hangs the bus (`wb_sdram_ctrl.v:159`).

*Tools.*

* The assembler takes packets that overfill a unit; the dispatch drops an instruction (`asm.c:325`). Offsets of `ldoff`/`stoff` from 2048 on
  become negative (`ajardsp-insns.c:1239`). `mpy16` and `mac16` take halves of `acc4`-`acc7` and encode those of `acc0`-`acc3`;
  `ldimm16 #sym, $acc` encodes a pointer (`ajardsp-insns.c:1217`); `.skip 0` emits a word; code of exactly 65536 halfwords gives an empty image.
* The disassembler cannot name predicated 16-bit instructions or negated predicates; its `main` reads each 32 bits as one instruction.
* The debugger waits for ever on the `.lineno` format the assembler writes (`debug-gui.c:596`), loses a wakeup (`:960`) and walks a list of freed
  links (`:82`).
* The compiler inserts no NOP when only the second half of a result is used (`ajardsp.c:174`), lets a five-halfword packet be formed around a stack-pointer
  swap (`ajardsp.md:331`), and looks for stack-passed parameters in the saved registers (`ajardsp.c:941`).

Three more things no document speaks of; the first two are in no run, the third is in `simdebug`:

* The RAM's registered acknowledge outlasts a write and the end of a burst. A core that reads the RAM in the
  packet behind its `stext32` to the RAM takes it as the answer (with `Requests0` = {a write, a read} TLC refutes `AnswersOwn`),
  and so does core 1 when core 0 ends a burst from the RAM right before it.
* When the user edits the program counter in the debugger, the arrow stays where it was: it follows `CurrValue`, which
  only the simulator writes (`debug-gui.c:648`).
* A number too wide for its cell stays in the view as it was typed (`debug-gui.c:355`, `:446`, `debug-pli.c:202`), while
  `vpi_put_value` leaves its low bits in the design (`debug-pli.c:125`, `:210`). After the next step the view shows those, and a word
  turns red though the program did not write it. `ViewsShowDesign` says it this way: of the cells edited since the last clock cycle
  the design holds the low bits of what is shown, of all others what is shown.

`soc_streams` is not in conflict with the first of the bus findings: the late `rd_ack` only harms a read that has
entered the slave within a few cycles of the withdrawal. The rotation puts the debug port directly
behind the VGA; core 0 is three turns behind it and arrives too late, and the Ethernet port only
writes, so it does not look at `rd_ack`. `SocProofs` shows that this is all: only a read of the debug port can be harmed.

## 5. Rules programs must keep

### External accesses

`dsp_prudent` holds for programs that keep the two rules of `Prudent` in `DspOnBus`; without either
of them TLC refutes one of its properties. Nothing in the core enforces them.

* From the start of a burst with the `nowait` flag until the cycle after its acknowledge, no packet
  makes an external access. The FSM looks at requests in `wb_m_idle` only, so a load issued
  meanwhile is not started, and the acknowledge of the burst lets the core go on with another word.
  No register tells a program whether the burst is over.
* The packet of the first core finding does not occur. With the `nowait` flag it would not hang, but
  behind an `ldext32` the bank conflict would make the core take the loaded word one cycle too late.

### The bus

What `SocProofs` proves of the whole bus rests on `BusRules`: with the frame buffer on, the debug host does not read the SDRAM; only core 0 uses
the RAM once it has booted, and reads it word by word; and a host that releases the cores in turn (`OneAtATime`). Each rule excludes one of the
facts of section 4 (without the first TLC refutes `AnswersOwn` for a debug read behind a withdrawn one), and `soc_shared` and `soc_streams` keep
them all. The frame buffer, the Ethernet port, other debug commands, refreshes and the clock phase are free.

### Units of a packet, and packets behind each other

`dsp_units` holds for programs that keep U1-U4 of `DspUnits`; without any one of them TLC refutes
`ImplementsPackets` at once. `ajar_quickref.txt` states parts of U1 only.

* U1: no two units of a packet need one port: not the BMU and the second CU; not a `mac` of a CU and an LSU
  that reads an accumulator through its third read port; not two writes nor two reads of special registers. Three packets of the
  instance break it on purpose.
* U2: an LSU does not read a special register in the packet after one in which the other LSU writes one. LSU 0 gets address, enable and
  data of the bus when it does either: its read loses the write of LSU 1, and its write leaves the read of LSU 1 a bus that nobody
  drives, which `Lsu1Reads` models as any value. An access that LSU 0 and LSU 1 make in turn needs a packet in between.
* U3: a packet that a stall holds in stage 1 writes no special register: the units behind it would
  see the new value if the stall lasts, and not if there is none.
* U4: LSU 1 does not load in the packet of a burst from or to dmem, nor does the next one store; during a burst that is not
  waited for, LSU 1 only stores, in packets in which LSU 0 leaves dmem alone, and not right after a load.

### The command line of the host

`BootsLoadedProgram` is claimed of command lines that mean what they say (`Orderly`): no command writes over what an earlier load has put in its
place, and no load comes after the write that releases the cores. `WritesInRange` and `DumpShowsMemory` need no such rule.

### Program control

`pcu.v` and `vliwfetch.v` implement `ProgramFlow` only for programs that keep these rules.
No document states them as a whole; `PcuFlow` does (R1-R3), and dropping any of them makes TLC
find a run in which a jump is lost or a loop miscounts.

* R1: no jump and no BKREP in a delay slot or at a loop end. Fetch looks at a request only
  while RUNNING, so a jump in a delay slot is lost, and a block repeat pre-empts the
  jump in the pipe.
* R2: the end of a loop is reached by running into it. A branch to an unaligned loop end shows
  its address in a cycle without instructions, and the hit is taken or suppressed wrongly.
* R3: a loop has at least three packets and is not nested. A shorter one meets its end before
  BKREP has written the registers.

Other facts a programmer meets: a loop runs count + 1 times; a write of BKREP_CNT in the cycle
of a hit or of a BKREP is lost (the hazard list has both); an interrupt handler that uses a block
repeat destroys the interrupted one's registers; `doc/pcu-insns.txt` describes the count as an
operand of BKREP, whereas the code takes it from BKREP_CNT.

## 6. Proofs

Every theorem is for all values of the constants, all programs within the named rules and all sequences of inputs. Assumptions:
those on constants in the modules (`WAssumption`: W is even; `PcuAssumption`, `WbAjardspAssumption`, `DspUnitsAssumption`,
`SocBusAssumption`, `EthRingAssumption`, `SimDebugAssumption`, `DebugLinkAssumption`), and the hypotheses in the table.

| module | theorem | says | for |
|---|---|---|---|
| `VliwFetchProofs` | `FetchTypes`, `QueueTheorem`, `WindowTheorem` | the queue, the window at pc | everything |
| | `OrderTheorem` | refinement of `BundleOrder` | everything |
| `PcuFlowProofs` | `PcuTypes`, `ShadowTheorem`, `AckTheorem` | no acknowledged interrupt is lost | everything |
| | `PcuImplementsFetch`, `PcuWindow` | the PCU is an environment `FetchSpec` allows | everything |
| | `FlowInvTheorem`, `PcuImplementsFlow` | refinement of `ProgramFlow` | programs that keep R1-R3 |
| `DspProofs` | `DspTypes` | types, bursts never count below zero | everything |
| | `HandshakeTheorem`, `LoadTheorem`, `StrayAckTheorem`, `StallTheorem` | loads, acknowledges, stalls | prudent programs |
| `DspUnitsProofs` | `UnitsInvTheorem`, `UnitsImplementPackets` | refinement of `PacketFlow` | prudent packets that keep U1-U4 |
| `SocProofs` | `BusInvHolds`, `SocAnswers`, `SocBursts`, `SocDebugReads`, `SocWrites` | answers and words of all masters | `BusRules`, cores released in turn |
| | `SocLoads` | loads of both cores on the real bus | the same, prudent programs |
| | `SocAwaitedLoads` | the same without a rule on packets | the same, no burst with `nowait` (`Awaited`) |
| `EthProofs` | `EthFlags`, `EthWords` | flags of the FIFO, words in the ring | `Backlog` at most the depth |
| `SimDebugProofs` | `RunsTheorem` | length of runs | a patient user |
| | `ViewsTheorem` | views show the design, an edited cell what was typed | a patient user who does not edit pc |
| `DebugLinkProofs` | `LinkWritesInRange` | nothing is written outside the ranges named | any command line and files; `BusBytes` at most 1 |
| | `LinkBootsLoadedProgram` | the images are complete when the cores are released | the same, command lines that are `Orderly` |
| | `LinkDumpShowsMemory` | dumps come behind all writes and show the memory | the same as the first, `ReadSizes` = {4} |

*Fetch.* `WindowAtPc` is not inductive: it does not say what the queue holds
in states that show nothing, nor what the next fetch returns. `QueueAhead` does, state by state:
in `RUNNING` the older word is the one of `pc`, the newer its successor and `fetch_address` is one
further, except right after an aligned jump, when `insn_on_top` says that the queue is one word
behind. The step `Running` rests on one arithmetic fact: a packet advances by at most four
halfwords, so it enters the next word or stays, and because W is even bit 2 tells the two
apart also at the wrap (`StepOfWord`, `ParityTellsNextWord`). Order follows from the window: each
action of the stage is an `OrderNext` step under the mapping.

*PCU.* "An acknowledged interrupt is accepted" needs that fetch is RUNNING when the
acknowledge comes. `JumpShadow` is the strengthening: the shift register `dslot_r` covers exactly the
cycles in which fetch is JUMPING or PRIMING_QUEUE_1 after a jump, and after reset interrupts are not
enabled. It is inductive together with the types.

*Program flow.* The refinement needs that a redirection has the pipeline for itself: a jump or BKREP in the pipe finds fetch RUNNING,
and the suppression and call registers are set only while it is JUMPING (`OneInFlight`). With R2 and R3 (`LoopEndIsSequential`,
`LoopIsLong`) and `JumpShadow` this is inductive, `FlowInv`; R1 is what keeps it so. The mapping is then a function of three phases, `ViewIdle`,
`ViewJump` and `ViewJumping`, and each cycle takes one to another as an action of `ProgramFlow`, or stutters.

*Bus interface.* `LoadGetsItsWord` speaks of one cycle, three after the acknowledge. `Handshake`
follows a load there: while it is stalled the FSM is in `wb_m_read` with its address, or in
`wb_m_read_ack` owning the bus, or the acknowledge pulse is up and the bus is still owned; in the next
cycle `read_data` has the word and nothing may hold the clock. That last point needs the other parts:
the stall is always owed to an access under way or to its acknowledge (`StallIsOwed`), and only a
burst from or to dmem can raise a bank conflict, in a packet that does not follow an access
(`PortIsFree`). The key lemma is `HeldAlone`: a packet that is not stalled by the bus, but by a bank
conflict, or that meets an acknowledge nobody waits for, makes no external access.

*Units.* When the clock enable is high, a cycle is a step of `PacketFlow`; otherwise it must be a stutter, although the register files are
not gated and the ports of dmem go on. Two facts carry that. Writing what the same ports wrote the cycle before leaves the file
alone (`WrittenAgain`), because a unit that stands still presents the same result. And a stall that has dmem is that of a burst, with no load waiting for
what the ports show (`PortsHeld`, `HeldPorts`): that is what U4 is for. `UnitsInv` adds to `Handshake` that the two descriptions of a
pipeline agree (`InPipe`).

*Bus.* Each core is an instance of `DspProofs`. `BusInv` says who may still drive `cyc` after its answer: only the owner
(`AfterAnswer`). So the memories serve the active master: the SDRAM slave is busy only with what that master still asks for
(`SdramSide`, `DdrSide`). The frame buffer is the exception to all of it: it may leave in any cycle, and even takes an answer in the cycle after it has
dropped `cyc`. While it drives `cyc` or takes answers it stays at its word (`Driven`, `VgaMoves`), which is what its own answers need; and a
read it has withdrawn is a state of its own (`Withdrawn`): CAS latency with the debug port on the bus, then data with the debug or the Ethernet port
on it, the slave idle or writing in between. There the read ends, one turn before core 0. The RAM acknowledges an access that is there, or one whose master has left and behind which comes a master that does not
look at the RAM (`RamSide`). That last disjunct is where `BusRules` and the order of the rotation enter, and with them that only one core boots at
a time (`BootsInTurn`): a write that resets a core in a burst leaves the bus with the debug port. The loads follow from `Handshake`, whose
assumption on the bus (`Shown` of `DspOnBus`: a word stays while the master owns the bus) is proved of this one.

*FIFO.* `RingInv` gives each word its number (modulo twice the depth) and relates the distance of the pointers to the number of words held.
The distance is ambiguous when both pointers are in one quarter, and `dir` decides: right as long as the two move through the quarters without
overtaking (`Pointers`). Arithmetic modulo the depth is done once, in lemmas (`Division`, `ModUnique`, `ModApart`, `Increment`, `QuadrantBounds`).
The reader must not move past the last word although its flag lags behind its own read enable: the handshake with the slave is longer than the lag
(`MasterAndSlave`, `OutputFresh`).

*Debugger.* The views are brought up to date one after another while the simulator does not run, so `ReadOut` says by the place of the simulator which are
done; a word not drawn again shows its copy. A clock cycle forgets the edits, and none is made until the simulator waits again (`EditsKnown`, `Unmixed`),
so while it reads out the views are the design itself. Cycles are counted between the load and the store of `--SimCyclesLeftToRun`, at which a handler could come between; a patient
user's can not, but Stop (`Handling`, `Patient`). `Running` then follows count and list (`Walking`) from clock to clock. A handler
that starts a run leaves its four assignments in the order `Handling` lists.

*Link.* The port keeps no record of the commands it was sent, only of bytes in the wrong place: a byte on the line, a byte in a
register, an access in the bus FSM. `LinkInv` therefore says that there are accesses `q`, those sent and not yet done, and places `p` of
their bytes, such that the line holds the bytes from the place of the present one on (`Flight`), the registers of the port those before (`Partial`),
and the access of a busy bus FSM is the first of `q` (`Ready`). The hypothesis on `BusBytes` enters here: during an access one byte may arrive,
the command byte of the next, which reaches no register; a second one would change the address under the access. What the bytes are for is said of `q` and the
memory together: `Due` is what an address will hold when all of `q` is done. Every write done or on the way is named by a command
(`AllNamed`, hence `WritesInRange`); the words of a finished load are due at their places (`Kept`), those of the present one up to the line it has read
(`Progress`, the words behind the end of the file included); and nothing of a load is behind the write that releases the cores, on the
line or done (`LoadsFirst`, `LoadsBefore`), hence `BootsLoadedProgram`. A word of a file is never garbage because garbage is sent after the last line only. `DumpShowsMemory`
needs where the word of a dump is (`Reading`): while the host waits in `read()`, its request is the last on the way, or nothing is on the way and the
word is in one place between the slave and the terminal; and no answer is under way when the host does not wait. The host adds accesses at the end of `q`,
the port moves the places, `BusAck` takes the first access away. The steps of `Toolchain` are those of the link or leave its variables alone. That
the command lines of `toolchain` are `Orderly` TLC checks as an assumption (`OrderlyCommandLines`); those of the `do.sh` scripts are.
Writing the proof found a mistake in the model: two arms of a CASE in `ReceiveByte` overlapped, so TLC took the first
while the definition allowed either.

*Only model-checked.* Liveness (`IssuesAgain`, `CoreAdvances`, `CoreServed`, `DebugServed`, `EveryWordStored`,
`CommandsEnd`, `StopsWhenAsked`, `QuitEnds`), which is out of the prover's reach. The tools: `RunsAsWritten`, `LabelsHold`, `DisasmNames`, `CompiledRuns` and `FramesKept`
quantify over the programs of an instance, and what they say is computed by recursion (`Compiler`, `CoreRun`, `Toolchain`).

## 7. What is left

1. The write of BKREP_CNT that is lost in the cycle of a hit (`pcu.v:227`): no document says what it should do, so no property covers it.

**Not modelled, and why.**

* Datapaths whose meaning is their formula: multiplier, shifter, saturation, post-increment with
  modulo and bit reversal, CRC; fonts and configuration. A property would restate the formula.
* UART: sampling points of a serial line are timing, and `DebugLink` takes bytes as atomic.
* ADC: samples and reads are not related by any flag, so nothing is promised.
* VGA timing and an underrun of its FIFO, overrun of the Ethernet FIFO: they depend on the relation of two rates.
* The frame parser and the address filter of the Ethernet receiver: a chain of nibbles without choices.
* Initialisation, refresh and row bookkeeping of the DDR controller: how long an access takes, not what it does. Electrical
  timing, metastability: below the level of a clocked model.
* Lexer and grammar of the assembler, `targetmon.c`, `ethraw.c`: text and a terminal.
* The hooks of the GCC back end that steer register allocation, addressing and costs, and its hardware-loop pass: they are
  read by a compiler that is not in the repository. Insn patterns that differ from the modelled ones by an opcode only.
* Test benches, the older single-core top level, the frame viewer: no part of the system.
