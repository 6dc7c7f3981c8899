------------------------------- MODULE SocBus -------------------------------
(* The system bus of the SoC (soc_top.v): the round-robin arbiter, the address *)
(* decoder, the masters (two cores, VGA, debug port, Ethernet) and the slaves   *)
(* (on-chip RAM, SDRAM, and the slaves that acknowledge combinationally).        *)
(* All of them share the 40 MHz bus clock: a step is one edge, and every          *)
(* component takes it.  A word of data is represented by the address it was read  *)
(* from or written to.                                                             *)
EXTENDS Naturals

CONSTANTS
    Requests0, Requests1,   \* external accesses of the programs on the two cores
    BackOff, BootLen,
    DebugRequests,          \* accesses the debug host commands over the UART
    VgaOn, EthOn            \* whether the frame buffer is enabled, a link is up

M_DSP_0 == "M_DSP_0"
M_DSP_1 == "M_DSP_1"
M_VGA   == "M_VGA"
M_DEBUG == "M_DEBUG"
M_ETH   == "M_ETH"
Masters == {M_DSP_0, M_DSP_1, M_VGA, M_DEBUG, M_ETH}

Address(s, m, n) == [slave |-> s, owner |-> m, word |-> n]
NoAddress == Address("none", "none", 0)

(* Both cores boot from the same words: soc_top.v gives them one EXT_BOOT_ADDR. *)
BootBurst == [op |-> "burst", adr |-> Address("ram", "boot", 0), len |-> BootLen, flags |-> {"imem"}]

ASSUME SocBusAssumption ==
    /\ BackOff \in Nat \ {0} /\ BootLen \in Nat
    /\ \A r \in Requests0 \cup Requests1 :
          r.op \in {"read", "write", "burst"} /\ (r.op = "burst" => r.len \in Nat)

VARIABLES
    active_wb_master,
    (* the cores *)
    state_0, cyc_0, we_0, adr_0, len_0, flags_0, dmem_en_0, ack_0, read_data_0,
    stall_0, resolve_0, stage0_0, stage1_0,
    state_1, cyc_1, we_1, adr_1, len_1, flags_1, dmem_en_1, ack_1, read_data_1,
    stall_1, resolve_1, stage0_1, stage1_1,
    (* wb_vga_ctrl.v, wb_debug.v and wb_eth_ctrl.v as masters *)
    vga_state, vga_cyc, vga_word,
    dbg_state, dbg_cyc, dbg_we, dbg_adr, dbg_dat, rd_data_32_r,
    eth_state, eth_cyc, eth_word,
    (* wb_ram.v, wb_sdram_ctrl.v, wb_misc_io.v *)
    ram_state, ram_ack, ram_dat,
    sd_state, ddr, early, burst_addr, sd_dat,
    reset_ctrl              \* the cores out of reset

vars0 == <<state_0, cyc_0, we_0, adr_0, len_0, flags_0, dmem_en_0, ack_0, read_data_0,
           stall_0, resolve_0, stage0_0, stage1_0>>
vars1 == <<state_1, cyc_1, we_1, adr_1, len_1, flags_1, dmem_en_1, ack_1, read_data_1,
           stall_1, resolve_1, stage0_1, stage1_1>>
vgaVars == <<vga_state, vga_cyc, vga_word>>
dbgVars == <<dbg_state, dbg_cyc, dbg_we, dbg_adr, dbg_dat, rd_data_32_r>>
ethVars == <<eth_state, eth_cyc, eth_word>>
slaveVars == <<ram_state, ram_ack, ram_dat, sd_state, ddr, early, burst_addr, sd_dat, reset_ctrl>>
vars == <<active_wb_master, vars0, vars1, vgaVars, dbgVars, ethVars, slaveVars>>

D0 == INSTANCE WbAjardsp WITH Requests <- Requests0, Lsu1 <- {FALSE}, Boot <- BootBurst,
        Zero <- NoAddress, wb_state_r <- state_0, wb_cyc_o <- cyc_0, wb_we_o <- we_0,
        wb_adr_o <- adr_0, m_if_burst_len_r <- len_0, burst_flags <- flags_0,
        dmem_en <- dmem_en_0, m_if_ack <- ack_0, read_data <- read_data_0,
        m_if_stall_r <- stall_0, resolve_cycle_r <- resolve_0, pipe_0 <- stage0_0, pipe_1 <- stage1_0

D1 == INSTANCE WbAjardsp WITH Requests <- Requests1, Lsu1 <- {FALSE}, Boot <- BootBurst,
        Zero <- NoAddress, wb_state_r <- state_1, wb_cyc_o <- cyc_1, wb_we_o <- we_1,
        wb_adr_o <- adr_1, m_if_burst_len_r <- len_1, burst_flags <- flags_1,
        dmem_en <- dmem_en_1, m_if_ack <- ack_1, read_data <- read_data_1,
        m_if_stall_r <- stall_1, resolve_cycle_r <- resolve_1, pipe_0 <- stage0_1, pipe_1 <- stage1_1

Sd == INSTANCE WbSdram WITH state_r <- sd_state, read_data_r <- sd_dat

----------------------------------------------------------------------------
(* What the masters drive, the master multiplexer and the address decoder. *)
Cyc(m) == CASE m = M_DSP_0 -> cyc_0 [] m = M_DSP_1 -> cyc_1 [] m = M_VGA -> vga_cyc
                            [] m = M_DEBUG -> dbg_cyc [] m = M_ETH -> eth_cyc
Adr(m) == CASE m = M_DSP_0 -> adr_0 [] m = M_DSP_1 -> adr_1
                            [] m = M_VGA -> Address("sdram", M_VGA, vga_word)
                            [] m = M_DEBUG -> dbg_adr
                            [] m = M_ETH -> Address("sdram", M_ETH, eth_word)
We(m) == CASE m = M_DSP_0 -> we_0 [] m = M_DSP_1 -> we_1 [] m = M_VGA -> FALSE
                           [] m = M_DEBUG -> dbg_we [] m = M_ETH -> TRUE

wb_cyc_o_w == Cyc(active_wb_master)
wb_adr_o_w == Adr(active_wb_master)
wb_we_o_w  == We(active_wb_master)
wb_cti_incr == active_wb_master \in {M_VGA, M_ETH}

Selected(s) == wb_cyc_o_w /\ wb_adr_o_w.slave = s

(* Addresses that no other slave claims ("sdram", "sdram_high") answer for SDRAM;   *)
(* the VGA and ADC registers and the misc block acknowledge in the same cycle.       *)
wb_ack_i_w == CASE wb_adr_o_w.slave = "ram" -> ram_ack
                [] wb_adr_o_w.slave \in {"sdram", "sdram_high"} -> Sd!wb_ack_o
                [] OTHER -> wb_cyc_o_w
wb_dat_i_w == CASE wb_adr_o_w.slave = "ram" -> ram_dat
                [] wb_adr_o_w.slave \in {"sdram", "sdram_high"} -> sd_dat
                [] OTHER -> wb_adr_o_w

Ack(m) == active_wb_master = m /\ wb_ack_i_w

(* Mutants of Successor: a master that the rotation leaves out. *)
SuccessorNotCore0 ==
    [m \in Masters |-> CASE m = M_DSP_0 -> M_DSP_1 [] m = M_DSP_1 -> M_VGA [] m = M_VGA -> M_DEBUG
                         [] m = M_DEBUG -> M_ETH [] m = M_ETH -> M_DSP_1]
SuccessorNotDebug ==
    [m \in Masters |-> CASE m = M_DSP_0 -> M_DSP_1 [] m = M_DSP_1 -> M_VGA [] m = M_VGA -> M_ETH
                         [] m = M_DEBUG -> M_ETH [] m = M_ETH -> M_DSP_0]

Successor ==
    [m \in Masters |-> CASE m = M_DSP_0 -> M_DSP_1 [] m = M_DSP_1 -> M_VGA [] m = M_VGA -> M_DEBUG
                         [] m = M_DEBUG -> M_ETH [] m = M_ETH -> M_DSP_0]

(* Mutant of Arbiter: the bus changes hands within an access when another master asks. *)
ArbiterPreempts ==
    active_wb_master' = IF wb_cyc_o_w /\ ~\E m \in Masters \ {active_wb_master} : Cyc(m)
                        THEN active_wb_master ELSE Successor[active_wb_master]

(* The arbiter moves on whenever the active master does not drive cyc. *)
Arbiter == active_wb_master' = IF wb_cyc_o_w THEN active_wb_master ELSE Successor[active_wb_master]

----------------------------------------------------------------------------
(* The masters.                                                                  *)

Dsp0 == IF M_DSP_0 \in reset_ctrl THEN D0!Cycle(Ack(M_DSP_0), wb_dat_i_w) ELSE D0!HeldInReset
Dsp1 == IF M_DSP_1 \in reset_ctrl THEN D1!Cycle(Ack(M_DSP_1), wb_dat_i_w) ELSE D1!HeldInReset

(* wb_vga_ctrl.v: a burst begins when the line FIFO is low (low) and goes on with    *)
(* cyc held until the FIFO reads as full (full).  The level is a difference modulo    *)
(* the FIFO's size with a pointer that the display moves, so it may read as full in    *)
(* any cycle, also one without an acknowledge.  Vertical sync starts again from the     *)
(* frame base in whatever state the master is.                                           *)
VgaRestart ==
    /\ vga_state' = "m_s_idle" /\ vga_cyc' = FALSE /\ vga_word' = 0

(* Mutant of VgaBurst: the address moves on without waiting for the acknowledge. *)
VgaBurstBlindly(low, full) ==
    /\ vga_cyc' = (vga_state = "m_s_begin_burst")
    /\ vga_state' = IF vga_state = "m_s_idle"
                    THEN IF low THEN "m_s_begin_burst" ELSE "m_s_idle"
                    ELSE IF full THEN "m_s_idle" ELSE "m_s_begin_burst"
    /\ vga_word' = IF vga_state = "m_s_begin_burst" THEN 1 - vga_word ELSE vga_word

VgaBurst(low, full) ==
    /\ vga_cyc' = (vga_state = "m_s_begin_burst")
    /\ vga_state' = IF vga_state = "m_s_idle"
                    THEN IF low THEN "m_s_begin_burst" ELSE "m_s_idle"
                    ELSE IF full THEN "m_s_idle" ELSE "m_s_begin_burst"
    /\ vga_word' = IF vga_state = "m_s_begin_burst" /\ Ack(M_VGA) THEN 1 - vga_word
                   ELSE vga_word

Vga == \/ ~VgaOn /\ UNCHANGED vgaVars
       \/ VgaOn /\ (VgaRestart \/ \E low, full \in BOOLEAN : VgaBurst(low, full))

(* wb_debug.v, from the cycle in which the last byte of a command has arrived.  A    *)
(* command takes five bytes or more, some 17000 bus cycles at 115200 baud, so a boot  *)
(* that an earlier command started is over (Booting) when the next one arrives.        *)
Booting == \/ M_DSP_0 \in reset_ctrl /\ D0!Bursting /\ "imem" \in flags_0
           \/ M_DSP_1 \in reset_ctrl /\ D1!Bursting /\ "imem" \in flags_1

DebugCommand ==
    /\ dbg_state = "WB_IDLE" /\ ~Booting
    /\ \E r \in DebugRequests :
          /\ dbg_state' = IF r.op = "write" THEN "WB_WRITE_1" ELSE "WB_READ_1"
          /\ dbg_adr' = r.adr
          /\ dbg_dat' = r.dat
    /\ UNCHANGED <<dbg_cyc, dbg_we, rd_data_32_r>>

(* Mutant of DebugAsk: the answer is not waited for. *)
DebugAskBlindly ==
    /\ dbg_state \in {"WB_WRITE_1", "WB_READ_1"}
    /\ dbg_cyc' = TRUE
    /\ dbg_we' = (dbg_state = "WB_WRITE_1")
    /\ dbg_state' = IF dbg_state = "WB_WRITE_1" THEN "WB_WRITE_2" ELSE "WB_READ_2"
    /\ UNCHANGED <<dbg_adr, dbg_dat, rd_data_32_r>>

DebugAsk ==
    /\ dbg_state \in {"WB_WRITE_1", "WB_READ_1"}
    /\ dbg_cyc' = TRUE
    /\ dbg_we' = (dbg_state = "WB_WRITE_1")
    /\ dbg_state' = IF ~Ack(M_DEBUG) THEN dbg_state
                    ELSE IF dbg_state = "WB_WRITE_1" THEN "WB_WRITE_2" ELSE "WB_READ_2"
    /\ UNCHANGED <<dbg_adr, dbg_dat, rd_data_32_r>>

(* The read data is sampled one cycle after the acknowledge. *)
DebugRelease ==
    /\ dbg_state \in {"WB_WRITE_2", "WB_READ_2"}
    /\ dbg_state' = "WB_IDLE"
    /\ dbg_cyc' = FALSE
    /\ dbg_we' = FALSE
    /\ rd_data_32_r' = IF dbg_state = "WB_READ_2" THEN wb_dat_i_w ELSE rd_data_32_r
    /\ UNCHANGED <<dbg_adr, dbg_dat>>

Debug == \/ DebugCommand \/ DebugAsk \/ DebugRelease
         \/ dbg_state = "WB_IDLE" /\ UNCHANGED dbgVars

(* wb_eth_ctrl.v: writes received words to the ring buffer, holding cyc from word to *)
(* word while the receive FIFO has more.                                             *)
EthStart ==
    /\ eth_state = "m_s_idle"
    /\ eth_state' = "m_s_begin_burst" /\ eth_cyc' = TRUE
    /\ UNCHANGED eth_word

EthTaken(more) ==
    /\ eth_state = "m_s_begin_burst" /\ Ack(M_ETH)
    /\ eth_word' = 1 - eth_word
    /\ eth_cyc' = more
    /\ eth_state' = IF more THEN "m_s_begin_burst" ELSE "m_s_idle"

EthWait ==
    /\ eth_state = "m_s_begin_burst" => ~Ack(M_ETH)
    /\ UNCHANGED ethVars

Eth == \/ EthOn /\ (EthStart \/ \E more \in BOOLEAN : EthTaken(more))
       \/ EthWait

----------------------------------------------------------------------------
(* The slaves. *)

(* Mutant of Ram: it acknowledges in every cycle of a held access. *)
RamPipelined ==
    /\ ram_ack' = (ram_state = "wb_ack_s")
    /\ ram_state' = IF Selected("ram") THEN "wb_ack_s" ELSE "wb_idle_s"
    /\ ram_dat' = IF Selected("ram") THEN wb_adr_o_w ELSE ram_dat

(* wb_ram.v: one wait state; the acknowledge is a register, so it is seen in the     *)
(* cycle after wb_ack_s, while the FSM is already looking for the next access.       *)
Ram ==
    /\ ram_ack' = (ram_state = "wb_ack_s")
    /\ ram_state' = IF ram_state = "wb_idle_s" /\ Selected("ram") THEN "wb_ack_s" ELSE "wb_idle_s"
    /\ ram_dat' = IF Selected("ram") THEN wb_adr_o_w ELSE ram_dat

Sdram(go) ==
    Sd!SdramCycle(wb_cyc_o_w /\ wb_adr_o_w.slave \in {"sdram", "sdram_high"}, wb_we_o_w, wb_adr_o_w,
                  wb_cti_incr, go)

(* wb_misc_io.v, register reset_ctrl: only the debug host writes it. *)
MiscIo == reset_ctrl' = IF active_wb_master = M_DEBUG /\ Selected("reset_ctrl") /\ wb_we_o_w
                        THEN dbg_dat ELSE reset_ctrl

----------------------------------------------------------------------------
Init ==
    /\ active_wb_master = M_DSP_0
    /\ D0!Reset /\ D1!Reset
    /\ vga_state = "m_s_idle" /\ vga_cyc = FALSE /\ vga_word = 0
    /\ dbg_state = "WB_IDLE" /\ dbg_cyc = FALSE /\ dbg_we = FALSE
    /\ dbg_adr = NoAddress /\ dbg_dat = {} /\ rd_data_32_r = NoAddress
    /\ eth_state = "m_s_idle" /\ eth_cyc = FALSE /\ eth_word = 0
    /\ ram_state = "wb_idle_s" /\ ram_ack = FALSE /\ ram_dat = NoAddress
    /\ Sd!SdramInit
    /\ reset_ctrl = {}

(* One edge of the bus clock; go: the DDR side is ready for a request. *)
Clock(go) ==
    /\ Arbiter /\ Ram /\ Sdram(go) /\ MiscIo
    /\ Dsp0 /\ Dsp1 /\ Vga /\ Debug /\ Eth

Next == \E go \in BOOLEAN : Clock(go)

Spec == Init /\ [][Next]_vars

(* A host that releases one core at a time, as the do.sh scripts of the tests do. *)
OneAtATime == ~({M_DSP_0, M_DSP_1} \subseteq dbg_dat' \ reset_ctrl)
InTurnSpec == Init /\ [][Next /\ OneAtATime]_vars

(* The clock runs; refreshes and row changes do not keep a held request out of SDRAM *)
(* for ever; and vertical sync comes once per frame.                                   *)
DdrServes == Clock(TRUE) /\ sd_state \in {"wb_s_read", "wb_s_write"} /\ ddr = "ready"
VerticalSync == Next /\ VgaOn /\ VgaRestart

Fairness == WF_vars(Next) /\ WF_vars(DdrServes) /\ WF_vars(VerticalSync)

FairSpec == Spec /\ Fairness

----------------------------------------------------------------------------
(* The states in which a master takes an acknowledge for its current word. *)
Takes(m) == CASE m = M_DSP_0 -> state_0 \in {"wb_m_read", "wb_m_write", "wb_m_burst_1"}
              [] m = M_DSP_1 -> state_1 \in {"wb_m_read", "wb_m_write", "wb_m_burst_1"}
              [] m = M_VGA   -> vga_state = "m_s_begin_burst"
              [] m = M_DEBUG -> dbg_state \in {"WB_WRITE_1", "WB_READ_1"}
              [] m = M_ETH   -> eth_state = "m_s_begin_burst"

(* The access a memory has just performed is the one the master it acknowledges     *)
(* asked for: an acknowledge, registered in the slave, never outlives the turn of    *)
(* the master it was meant for.                                                       *)
AnswersOwn ==
    LET m == active_wb_master
        done == IF wb_adr_o_w.slave = "ram" THEN ram_dat ELSE burst_addr
    IN  wb_ack_i_w /\ Takes(m) /\ wb_adr_o_w.slave \in {"ram", "sdram"} => done = Adr(m)

(* A word read in a burst (by a core or by the VGA) is the word at the driven address. *)
BurstWordsOwn ==
    LET m == active_wb_master
    IN  /\ wb_ack_i_w /\ ~wb_we_o_w
        /\ \/ m = M_DSP_0 /\ state_0 = "wb_m_burst_1"
           \/ m = M_DSP_1 /\ state_1 = "wb_m_burst_1"
           \/ m = M_VGA /\ vga_state = "m_s_begin_burst"
        => wb_dat_i_w = Adr(m)

(* ldext32 on either core loads the word of its own address, although read_data      *)
(* follows the shared bus until the cycle in which the core goes on.                  *)
LoadsOwn == D0!LoadGetsItsWord /\ D1!LoadGetsItsWord

(* The debug port reads the word its host asked for. *)
DebugReadsOwn == dbg_state = "WB_READ_2" => active_wb_master = M_DEBUG /\ wb_dat_i_w = dbg_adr

(* While SDRAM takes write data, the bus still belongs to the access whose address    *)
(* was latched.                                                                        *)
WritesOwn == ddr = "write_data" => wb_cyc_o_w /\ wb_we_o_w /\ wb_adr_o_w = burst_addr

(* A core that waits for an external access, or for its boot code, goes on, however   *)
(* long bursts, the frame buffer and the Ethernet port keep the bus.                    *)
CoreServed == (stall_0 /\ M_DSP_0 \in reset_ctrl) ~> (~stall_0 \/ M_DSP_0 \notin reset_ctrl)

(* A command of the debug host is carried out. *)
DebugServed == dbg_state # "WB_IDLE" ~> dbg_state = "WB_IDLE"
=============================================================================
