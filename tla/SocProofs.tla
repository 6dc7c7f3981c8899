----------------------------- MODULE SocProofs -----------------------------
(* Proofs about the system bus (SocBus): each answer of a memory goes to the    *)
(* access it belongs to, for every pair of programs that keep BusRules, every    *)
(* back-off period and boot length, every host that releases one core at a time, *)
(* and every pace of the SDRAM.  Each core is an instance of DspProofs.          *)
EXTENDS SocBus, TLAPS

(* What the bus does not protect a system from (see the README): a read of the    *)
(* SDRAM by the master behind a frame buffer that withdraws its own, which is the  *)
(* debug port, and the acknowledge of the RAM that outlasts a write and the end of *)
(* a burst.  Boot bursts read the RAM, otherwise only core 0 does, word by word.    *)
BusRules ==
  /\ VgaOn => \A r \in DebugRequests : r.adr.slave = "sdram" => r.op = "write"
  /\ \A r \in Requests0 : r.adr.slave = "ram" => r.op = "read"
  /\ \A r \in Requests1 : r.adr.slave # "ram"

P0 == INSTANCE DspProofs WITH Requests <- Requests0, Lsu1 <- {FALSE}, Boot <- BootBurst,
        Zero <- NoAddress, Other <- NoAddress, owned <- (active_wb_master = M_DSP_0),
        wb_state_r <- state_0, wb_cyc_o <- cyc_0, wb_we_o <- we_0,
        wb_adr_o <- adr_0, m_if_burst_len_r <- len_0, burst_flags <- flags_0,
        dmem_en <- dmem_en_0, m_if_ack <- ack_0, read_data <- read_data_0,
        m_if_stall_r <- stall_0, resolve_cycle_r <- resolve_0, pipe_0 <- stage0_0, pipe_1 <- stage1_0

P1 == INSTANCE DspProofs WITH Requests <- Requests1, Lsu1 <- {FALSE}, Boot <- BootBurst,
        Zero <- NoAddress, Other <- NoAddress, owned <- (active_wb_master = M_DSP_1),
        wb_state_r <- state_1, wb_cyc_o <- cyc_1, wb_we_o <- we_1,
        wb_adr_o <- adr_1, m_if_burst_len_r <- len_1, burst_flags <- flags_1,
        dmem_en <- dmem_en_1, m_if_ack <- ack_1, read_data <- read_data_1,
        m_if_stall_r <- stall_1, resolve_cycle_r <- resolve_1, pipe_0 <- stage0_1, pipe_1 <- stage1_1

----------------------------------------------------------------------------
(* The masters.                                                                  *)
TypeOK ==
  /\ P0!TypeOK /\ P1!TypeOK
  /\ active_wb_master \in Masters
  /\ vga_state \in {"m_s_idle", "m_s_begin_burst"} /\ vga_cyc \in BOOLEAN
  /\ ~VgaOn => ~vga_cyc /\ vga_state = "m_s_idle"
  /\ dbg_state \in {"WB_IDLE", "WB_WRITE_1", "WB_READ_1", "WB_WRITE_2", "WB_READ_2"}
  /\ dbg_cyc \in BOOLEAN /\ dbg_we \in BOOLEAN
  /\ eth_state \in {"m_s_idle", "m_s_begin_burst"} /\ eth_cyc \in BOOLEAN
  /\ ram_state \in {"wb_idle_s", "wb_ack_s"} /\ ram_ack \in BOOLEAN
  /\ sd_state \in {"wb_s_idle", "wb_s_read", "wb_s_write", "wb_s_ack", "wb_s_ack_wait"}
  /\ ddr \in {"ready", "read_cmd", "read_cl", "read_data", "read_wait_0", "write_data"}
  /\ early \in BOOLEAN

(* The debug port and the Ethernet port drive cyc and we by their states.        *)
Ports ==
  /\ dbg_state = "WB_IDLE" => ~dbg_cyc
  /\ dbg_state \in {"WB_WRITE_2", "WB_READ_2"} => dbg_cyc
  /\ dbg_cyc => (dbg_we <=> dbg_state \in {"WB_WRITE_1", "WB_WRITE_2"})
  /\ ~dbg_cyc => ~dbg_we
  /\ VgaOn /\ dbg_adr.slave = "sdram" => dbg_state \notin {"WB_READ_1", "WB_READ_2"}
  /\ eth_cyc <=> eth_state = "m_s_begin_burst"

(* The RAM is read by the boot bursts and, word by word, by core 0.              *)
IsBurst(state) == state \in {"wb_m_burst", "wb_m_burst_0", "wb_m_burst_1", "wb_m_back_off"}

RamUse(state, cyc, adr, flags) ==
  adr.slave = "ram" =>
    /\ state # "wb_m_write"
    /\ state = "wb_m_idle" => ~cyc
    /\ IsBurst(state) => flags = BootBurst.flags

Cores ==
  /\ P0!Request /\ P1!Request
  /\ RamUse(state_0, cyc_0, adr_0, flags_0)
  /\ RamUse(state_1, cyc_1, adr_1, flags_1)
  /\ state_1 = "wb_m_read" => adr_1.slave # "ram"

(* A core that boots.                                                            *)
Boots0 == M_DSP_0 \in reset_ctrl /\ IsBurst(state_0) /\ adr_0.slave = "ram"
Boots1 == M_DSP_1 \in reset_ctrl /\ IsBurst(state_1) /\ adr_1.slave = "ram"

(* Boots come one after the other; a core in reset, which drives nothing once it  *)
(* has seen that, was put there while the debug port had the bus.                 *)
BootsInTurn ==
  /\ ~(Boots0 /\ Boots1)
  /\ dbg_state \in {"WB_WRITE_1", "WB_WRITE_2"} /\ dbg_adr.slave = "reset_ctrl" =>
       (~Boots0 /\ ~Boots1) \/ reset_ctrl = dbg_dat
  /\ M_DSP_0 \notin reset_ctrl => (~cyc_0 /\ state_0 = "wb_m_burst") \/ active_wb_master = M_DEBUG
  /\ M_DSP_1 \notin reset_ctrl => (~cyc_1 /\ state_1 = "wb_m_burst") \/ active_wb_master = M_DEBUG

(* A master that still drives cyc after its answer has the bus.  (The frame buffer *)
(* may stop waiting at any time.)                                                   *)
AfterAnswer ==
  \A m \in Masters \ {M_VGA} : Cyc(m) /\ ~Takes(m) => active_wb_master = m

----------------------------------------------------------------------------
(* The memories.  asks: the active master asks for something and is not answered  *)
(* yet.                                                                            *)
asks == wb_cyc_o_w /\ Takes(active_wb_master)

(* The frame buffer has the bus; while it drives cyc or takes answers it is at the  *)
(* word it asked for.                                                                *)
VgaHas == VgaOn /\ active_wb_master = M_VGA
Driven == wb_cyc_o_w \/ Takes(active_wb_master)

(* The RAM acknowledges an access that is still there; the acknowledge of a master *)
(* that has left comes to one that does not look at the RAM.                       *)
RamSide ==
  /\ ram_state = "wb_ack_s" =>
       /\ ~ram_ack
       /\ \/ wb_cyc_o_w /\ wb_adr_o_w.slave = "ram"
          \/ ~wb_cyc_o_w /\ active_wb_master = M_DSP_0 /\ ~Boots1
          \/ ~wb_cyc_o_w /\ active_wb_master = M_DSP_1
  /\ ram_ack /\ Takes(active_wb_master) /\ wb_adr_o_w.slave = "ram" =>
       wb_cyc_o_w /\ ram_dat = wb_adr_o_w
  /\ wb_cyc_o_w /\ ~Takes(active_wb_master) /\ wb_adr_o_w.slave = "ram" =>
       ram_state = "wb_ack_s"

(* The SDRAM works on the request of the active master, from the cycle in which   *)
(* its FSM leaves idle to the acknowledge.                                         *)
SdramSide ==
  /\ sd_state \in {"wb_s_read", "wb_s_write", "wb_s_ack"} =>
       (asks \/ VgaHas) /\ wb_adr_o_w.slave = "sdram"
  /\ sd_state \in {"wb_s_read", "wb_s_write"} => (wb_we_o_w <=> sd_state = "wb_s_write")
  /\ sd_state = "wb_s_ack" /\ Driven =>
       burst_addr = wb_adr_o_w /\ (~wb_we_o_w => sd_dat = wb_adr_o_w)
  /\ wb_cyc_o_w /\ ~Takes(active_wb_master) /\ wb_adr_o_w.slave = "sdram" =>
       sd_state = "wb_s_ack_wait" \/ VgaHas

(* A read that the frame buffer has withdrawn goes on while the two masters behind  *)
(* it come to the bus; the slave must not read for them until it is over.            *)
Withdrawn ==
  /\ VgaOn
  /\ \/ ddr = "read_cl" /\ sd_state = "wb_s_idle" /\ active_wb_master = M_DEBUG
     \/ ddr = "read_data" /\ sd_state = "wb_s_idle" /\ active_wb_master \in {M_DEBUG, M_ETH}
     \/ ddr = "read_data" /\ sd_state = "wb_s_write" /\ active_wb_master = M_DEBUG

DdrSide ==
  /\ ddr \in {"read_cmd", "read_cl", "read_data"} =>
       \/ sd_state = "wb_s_read" /\ (Driven => burst_addr = wb_adr_o_w)
       \/ Withdrawn
  /\ ddr = "write_data" =>
       /\ sd_state = IF early THEN "wb_s_ack" ELSE "wb_s_write"
       /\ burst_addr = wb_adr_o_w /\ wb_we_o_w

BusInv ==
  /\ TypeOK /\ Ports /\ Cores /\ BootsInTurn /\ AfterAnswer
  /\ RamSide /\ SdramSide /\ DdrSide /\ DebugReadsOwn

(* The loads of a core, and the promise of DspOnBus about the words it reads.     *)
Loads0 == P0!Handshake /\ P0!Shown(wb_dat_i_w)
Loads1 == P1!Handshake /\ P1!Shown(wb_dat_i_w)



----------------------------------------------------------------------------
(* The rotation of the arbiter.                                                  *)
LEMMA Rotation ==
  /\ Successor[M_DSP_0] = M_DSP_1 /\ Successor[M_DSP_1] = M_VGA
  /\ Successor[M_VGA] = M_DEBUG /\ Successor[M_DEBUG] = M_ETH
  /\ Successor[M_ETH] = M_DSP_0
BY DEF Successor, Masters, M_DSP_0, M_DSP_1, M_VGA, M_DEBUG, M_ETH

----------------------------------------------------------------------------
(* Core 0 as an instance of DspProofs.                                          *)
LEMMA Assumption0 == P0!WbAjardspAssumption
BY SocBusAssumption DEF P0!WbAjardspAssumption, BootBurst

LEMMA SameCycle0 ==
  ASSUME NEW ack, NEW d
  PROVE  /\ D0!Cycle(ack, d) => P0!Cycle(ack, d)
         /\ D0!HeldInReset => P0!HeldInReset
<1>1. D0!Cycle(ack, d) => P0!Cycle(ack, d)
  BY DEF P0!Cycle, D0!Cycle, P0!WbIdle, D0!WbIdle, P0!StartSingle, D0!StartSingle,
         P0!StartBurst, D0!StartBurst, P0!req, D0!req, P0!WbRead, D0!WbRead,
         P0!WbReadAck, D0!WbReadAck, P0!WbWrite, D0!WbWrite, P0!WbBurstWait,
         D0!WbBurstWait, P0!WbBurst, D0!WbBurst, P0!BurstWord, D0!BurstWord,
         P0!BurstEnd, D0!BurstEnd, P0!CoreStall, D0!CoreStall, P0!Pipeline, D0!Pipeline,
         P0!clk_en, D0!clk_en, P0!dmem_stall_req, D0!dmem_stall_req, P0!Packets,
         D0!Packets, P0!NextWordOf, D0!NextWordOf, P0!NoRequest, D0!NoRequest
<1>2. D0!HeldInReset => P0!HeldInReset
  BY DEF P0!HeldInReset, D0!HeldInReset, P0!Empty, D0!Empty, P0!NoRequest, D0!NoRequest
<1>. QED
  BY <1>1, <1>2

LEMMA Core0 ==
  ASSUME TypeOK, Arbiter, Dsp0
  PROVE  /\ P0!Grant
         /\ Ack(M_DSP_0) \in BOOLEAN
         /\ M_DSP_0 \in reset_ctrl => P0!Cycle(Ack(M_DSP_0), wb_dat_i_w)
         /\ M_DSP_0 \notin reset_ctrl => P0!HeldInReset
<1>1. P0!Grant
  <2>1. cyc_0 \in BOOLEAN
    BY DEF TypeOK, P0!TypeOK
  <2>2. CASE active_wb_master = M_DSP_0
    <3>1. active_wb_master' = M_DSP_0 <=> cyc_0
      BY <2>2, Rotation DEF Arbiter, wb_cyc_o_w, Cyc, M_DSP_0, M_DSP_1, M_VGA
    <3>. QED
      BY <2>1, <2>2, <3>1 DEF P0!Grant
  <2>3. CASE active_wb_master # M_DSP_0
    BY <2>3 DEF P0!Grant
  <2>. QED
    BY <2>2, <2>3
<1>2. Ack(M_DSP_0) \in BOOLEAN
  BY DEF Ack
<1>. QED
  BY <1>1, <1>2, SameCycle0 DEF Dsp0

LEMMA CoreTypes0 ==
  ASSUME TypeOK, Cores, Arbiter, Dsp0
  PROVE  P0!TypeOK' /\ P0!Request'
<1>. P0!TypeOK /\ P0!Request
  BY DEF TypeOK, Cores
<1>1. CASE M_DSP_0 \in reset_ctrl
  BY <1>1, Core0, P0!TypesStep, P0!RequestStep, Assumption0
<1>2. CASE M_DSP_0 \notin reset_ctrl
  <2>1. PICK o \in BOOLEAN : (active_wb_master' = M_DSP_0) = o
    OBVIOUS
  <2>. QED
    BY <1>2, <2>1, Core0, P0!ResetStep, Assumption0
<1>. QED
  BY <1>1, <1>2

----------------------------------------------------------------------------
(* Core 1 as an instance of DspProofs.                                          *)
LEMMA Assumption1 == P1!WbAjardspAssumption
BY SocBusAssumption DEF P1!WbAjardspAssumption, BootBurst

LEMMA SameCycle1 ==
  ASSUME NEW ack, NEW d
  PROVE  /\ D1!Cycle(ack, d) => P1!Cycle(ack, d)
         /\ D1!HeldInReset => P1!HeldInReset
<1>1. D1!Cycle(ack, d) => P1!Cycle(ack, d)
  BY DEF P1!Cycle, D1!Cycle, P1!WbIdle, D1!WbIdle, P1!StartSingle, D1!StartSingle,
         P1!StartBurst, D1!StartBurst, P1!req, D1!req, P1!WbRead, D1!WbRead,
         P1!WbReadAck, D1!WbReadAck, P1!WbWrite, D1!WbWrite, P1!WbBurstWait,
         D1!WbBurstWait, P1!WbBurst, D1!WbBurst, P1!BurstWord, D1!BurstWord,
         P1!BurstEnd, D1!BurstEnd, P1!CoreStall, D1!CoreStall, P1!Pipeline, D1!Pipeline,
         P1!clk_en, D1!clk_en, P1!dmem_stall_req, D1!dmem_stall_req, P1!Packets,
         D1!Packets, P1!NextWordOf, D1!NextWordOf, P1!NoRequest, D1!NoRequest
<1>2. D1!HeldInReset => P1!HeldInReset
  BY DEF P1!HeldInReset, D1!HeldInReset, P1!Empty, D1!Empty, P1!NoRequest, D1!NoRequest
<1>. QED
  BY <1>1, <1>2

LEMMA Core1 ==
  ASSUME TypeOK, Arbiter, Dsp1
  PROVE  /\ P1!Grant
         /\ Ack(M_DSP_1) \in BOOLEAN
         /\ M_DSP_1 \in reset_ctrl => P1!Cycle(Ack(M_DSP_1), wb_dat_i_w)
         /\ M_DSP_1 \notin reset_ctrl => P1!HeldInReset
<1>1. P1!Grant
  <2>1. cyc_1 \in BOOLEAN
    BY DEF TypeOK, P1!TypeOK
  <2>2. CASE active_wb_master = M_DSP_1
    <3>1. active_wb_master' = M_DSP_1 <=> cyc_1
      BY <2>2, Rotation DEF Arbiter, wb_cyc_o_w, Cyc, M_DSP_0, M_DSP_1, M_VGA
    <3>. QED
      BY <2>1, <2>2, <3>1 DEF P1!Grant
  <2>3. CASE active_wb_master # M_DSP_1
    BY <2>3 DEF P1!Grant
  <2>. QED
    BY <2>2, <2>3
<1>2. Ack(M_DSP_1) \in BOOLEAN
  BY DEF Ack
<1>. QED
  BY <1>1, <1>2, SameCycle1 DEF Dsp1

LEMMA CoreTypes1 ==
  ASSUME TypeOK, Cores, Arbiter, Dsp1
  PROVE  P1!TypeOK' /\ P1!Request'
<1>. P1!TypeOK /\ P1!Request
  BY DEF TypeOK, Cores
<1>1. CASE M_DSP_1 \in reset_ctrl
  BY <1>1, Core1, P1!TypesStep, P1!RequestStep, Assumption1
<1>2. CASE M_DSP_1 \notin reset_ctrl
  <2>1. PICK o \in BOOLEAN : (active_wb_master' = M_DSP_1) = o
    OBVIOUS
  <2>. QED
    BY <1>2, <2>1, Core1, P1!ResetStep, Assumption1
<1>. QED
  BY <1>1, <1>2

----------------------------------------------------------------------------
(* One edge of the clock, as the bus sees it.                                    *)

(* An answer that a master looks at comes while it drives cyc.  (The frame buffer   *)
(* also takes one that comes just after it has withdrawn its request.)               *)
Answers == wb_ack_i_w /\ Takes(active_wb_master) /\ ~VgaHas => wb_cyc_o_w

LEMMA AnswersLemma ==
  ASSUME RamSide, SdramSide
  PROVE  Answers
BY DEF Answers, RamSide, SdramSide, asks, wb_ack_i_w, Sd!wb_ack_o

(* What a master does with its request: it holds the access, goes on with the next  *)
(* word, drives it for one more cycle, or takes cyc back.                            *)
Held(m)   == Takes(m)' /\ Cyc(m)' /\ Adr(m)' = Adr(m) /\ We(m)' = We(m)
GoesOn(m) == Takes(m)' /\ Cyc(m)' /\ Adr(m)'.slave = Adr(m).slave /\ We(m)' = We(m)
Stays(m)  == ~Takes(m)' /\ Cyc(m)' /\ Adr(m)' = Adr(m) /\ m \notin {M_VGA, M_ETH}
Leaves(m) == /\ ~Takes(m)' /\ ~Cyc(m)'
             /\ \/ m = M_DSP_0 /\ IsBurst(state_0)
                \/ m = M_DSP_1 /\ IsBurst(state_1)
                \/ m = M_ETH

Moves(m) ==
  /\ (m # active_wb_master \/ ~Cyc(m)) /\ Cyc(m)' => Takes(m)'
  /\ m = active_wb_master /\ Cyc(m) =>
       /\ Takes(m) /\ ~wb_ack_i_w => Held(m)
       /\ Takes(m) /\ wb_ack_i_w => GoesOn(m) \/ Stays(m) \/ Leaves(m)
       /\ ~Takes(m) => ~Cyc(m)' /\ (Adr(m).slave = "ram" => ~Takes(m)')

LEMMA CoreMoves0 ==
  ASSUME TypeOK, Cores, BootsInTurn, AfterAnswer, Answers, Arbiter, Dsp0
  PROVE  Moves(M_DSP_0)
<1>. DEFINE m == M_DSP_0
<1>. USE DEF M_DSP_0, M_DSP_1, M_VGA, M_DEBUG, M_ETH, Masters
<1>. /\ P0!TypeOK /\ P0!Request
     /\ P0!TypeOK' /\ P0!Request'
  BY CoreTypes0 DEF TypeOK, Cores
<1>1. /\ Cyc(m) = cyc_0 /\ Adr(m) = adr_0 /\ We(m) = we_0
      /\ Takes(m) <=> P0!Waiting
      /\ Cyc(m)' = cyc_0' /\ Adr(m)' = adr_0' /\ We(m)' = we_0'
      /\ Takes(m)' <=> P0!Waiting'
  BY DEF Cyc, Adr, We, Takes, P0!Waiting
<1>2. CASE m \notin reset_ctrl
  <2>1. ~cyc_0'
    BY <1>2, Core0, P0!ResetStep, Assumption0
  <2>2. m = active_wb_master => ~cyc_0
    BY <1>2 DEF BootsInTurn
  <2>. QED
    BY <1>1, <2>1, <2>2 DEF Moves
<1>3. CASE m \in reset_ctrl
  <2>1. Ack(m) \in BOOLEAN /\ P0!Cycle(Ack(m), wb_dat_i_w)
    BY <1>3, Core0
  <2>2. Ack(m) /\ P0!Waiting => cyc_0
    BY <1>1 DEF Ack, Answers, VgaHas, wb_cyc_o_w
  <2>3. P0!Waiting /\ ~Ack(m) =>
          /\ P0!Waiting' /\ cyc_0' /\ adr_0' = adr_0
          /\ cyc_0 => we_0' = we_0
    BY <2>1, P0!RequestHeld, Assumption0 DEF P0!Waiting
  <2>4. P0!Waiting /\ Ack(m) =>
          \/ P0!Waiting' /\ cyc_0' /\ adr_0'.slave = adr_0.slave /\ we_0' = we_0
          \/ ~P0!Waiting' /\ cyc_0' /\ adr_0' = adr_0
          \/ ~P0!Waiting' /\ ~cyc_0' /\ IsBurst(state_0)
    <3>1. P0!NextWordOf(adr_0).slave = adr_0.slave
      BY DEF P0!NextWordOf
    <3>. QED
      BY <2>1, <3>1, P0!RequestAnswered, Assumption0 DEF P0!Waiting, IsBurst
  <2>5. ~P0!Waiting => ~cyc_0'
    BY <2>1, P0!RequestOver, Assumption0
  <2>6. ~P0!Waiting /\ cyc_0 /\ adr_0.slave = "ram" => ~P0!Waiting'
    <3>1. ~P0!Waiting /\ cyc_0 /\ adr_0.slave = "ram" => state_0 = "wb_m_read_ack"
      BY DEF P0!Waiting, P0!Request, P0!TypeOK, Cores, RamUse
    <3>. QED
      BY <2>1, <3>1, P0!RequestOver, Assumption0 DEF P0!Waiting
  <2>7. (m # active_wb_master \/ ~Cyc(m)) /\ Cyc(m)' => Takes(m)'
    BY <1>1, <2>2, <2>3, <2>5 DEF Ack
  <2>8. ASSUME m = active_wb_master, Cyc(m)
        PROVE  /\ Takes(m) /\ ~wb_ack_i_w => Held(m)
               /\ Takes(m) /\ wb_ack_i_w => GoesOn(m) \/ Stays(m) \/ Leaves(m)
               /\ ~Takes(m) => ~Cyc(m)' /\ (Adr(m).slave = "ram" => ~Takes(m)')
    <3>1. Ack(m) <=> wb_ack_i_w
      BY <2>8 DEF Ack
    <3>2. Takes(m) /\ ~wb_ack_i_w => Held(m)
      BY <1>1, <2>3, <2>8, <3>1 DEF Held
    <3>3. Takes(m) /\ wb_ack_i_w => GoesOn(m) \/ Stays(m) \/ Leaves(m)
      BY <1>1, <2>4, <2>8, <3>1 DEF GoesOn, Stays, Leaves
    <3>4. ~Takes(m) => ~Cyc(m)' /\ (Adr(m).slave = "ram" => ~Takes(m)')
      BY <1>1, <2>5, <2>6, <2>8
    <3>. QED
      BY <3>2, <3>3, <3>4
  <2>. QED
    BY <2>7, <2>8 DEF Moves
<1>. QED
  BY <1>2, <1>3

LEMMA CoreMoves1 ==
  ASSUME TypeOK, Cores, BootsInTurn, AfterAnswer, Answers, Arbiter, Dsp1
  PROVE  Moves(M_DSP_1)
<1>. DEFINE m == M_DSP_1
<1>. USE DEF M_DSP_0, M_DSP_1, M_VGA, M_DEBUG, M_ETH, Masters
<1>. /\ P1!TypeOK /\ P1!Request
     /\ P1!TypeOK' /\ P1!Request'
  BY CoreTypes1 DEF TypeOK, Cores
<1>1. /\ Cyc(m) = cyc_1 /\ Adr(m) = adr_1 /\ We(m) = we_1
      /\ Takes(m) <=> P1!Waiting
      /\ Cyc(m)' = cyc_1' /\ Adr(m)' = adr_1' /\ We(m)' = we_1'
      /\ Takes(m)' <=> P1!Waiting'
  BY DEF Cyc, Adr, We, Takes, P1!Waiting
<1>2. CASE m \notin reset_ctrl
  <2>1. ~cyc_1'
    BY <1>2, Core1, P1!ResetStep, Assumption1
  <2>2. m = active_wb_master => ~cyc_1
    BY <1>2 DEF BootsInTurn
  <2>. QED
    BY <1>1, <2>1, <2>2 DEF Moves
<1>3. CASE m \in reset_ctrl
  <2>1. Ack(m) \in BOOLEAN /\ P1!Cycle(Ack(m), wb_dat_i_w)
    BY <1>3, Core1
  <2>2. Ack(m) /\ P1!Waiting => cyc_1
    BY <1>1 DEF Ack, Answers, VgaHas, wb_cyc_o_w
  <2>3. P1!Waiting /\ ~Ack(m) =>
          /\ P1!Waiting' /\ cyc_1' /\ adr_1' = adr_1
          /\ cyc_1 => we_1' = we_1
    BY <2>1, P1!RequestHeld, Assumption1 DEF P1!Waiting
  <2>4. P1!Waiting /\ Ack(m) =>
          \/ P1!Waiting' /\ cyc_1' /\ adr_1'.slave = adr_1.slave /\ we_1' = we_1
          \/ ~P1!Waiting' /\ cyc_1' /\ adr_1' = adr_1
          \/ ~P1!Waiting' /\ ~cyc_1' /\ IsBurst(state_1)
    <3>1. P1!NextWordOf(adr_1).slave = adr_1.slave
      BY DEF P1!NextWordOf
    <3>. QED
      BY <2>1, <3>1, P1!RequestAnswered, Assumption1 DEF P1!Waiting, IsBurst
  <2>5. ~P1!Waiting => ~cyc_1'
    BY <2>1, P1!RequestOver, Assumption1
  <2>6. ~P1!Waiting /\ cyc_1 /\ adr_1.slave = "ram" => ~P1!Waiting'
    <3>1. ~P1!Waiting /\ cyc_1 /\ adr_1.slave = "ram" => state_1 = "wb_m_read_ack"
      BY DEF P1!Waiting, P1!Request, P1!TypeOK, Cores, RamUse
    <3>. QED
      BY <2>1, <3>1, P1!RequestOver, Assumption1 DEF P1!Waiting
  <2>7. (m # active_wb_master \/ ~Cyc(m)) /\ Cyc(m)' => Takes(m)'
    BY <1>1, <2>2, <2>3, <2>5 DEF Ack
  <2>8. ASSUME m = active_wb_master, Cyc(m)
        PROVE  /\ Takes(m) /\ ~wb_ack_i_w => Held(m)
               /\ Takes(m) /\ wb_ack_i_w => GoesOn(m) \/ Stays(m) \/ Leaves(m)
               /\ ~Takes(m) => ~Cyc(m)' /\ (Adr(m).slave = "ram" => ~Takes(m)')
    <3>1. Ack(m) <=> wb_ack_i_w
      BY <2>8 DEF Ack
    <3>2. Takes(m) /\ ~wb_ack_i_w => Held(m)
      BY <1>1, <2>3, <2>8, <3>1 DEF Held
    <3>3. Takes(m) /\ wb_ack_i_w => GoesOn(m) \/ Stays(m) \/ Leaves(m)
      BY <1>1, <2>4, <2>8, <3>1 DEF GoesOn, Stays, Leaves
    <3>4. ~Takes(m) => ~Cyc(m)' /\ (Adr(m).slave = "ram" => ~Takes(m)')
      BY <1>1, <2>5, <2>6, <2>8
    <3>. QED
      BY <3>2, <3>3, <3>4
  <2>. QED
    BY <2>7, <2>8 DEF Moves
<1>. QED
  BY <1>2, <1>3

(* The frame buffer may leave at any time; as long as it drives cyc or takes answers    *)
(* it stays at its word until that is acknowledged.                                       *)
LEMMA VgaMoves ==
  ASSUME TypeOK, Vga
  PROVE  /\ vga_state' \in {"m_s_idle", "m_s_begin_burst"} /\ vga_cyc' \in BOOLEAN
         /\ ~VgaOn => Moves(M_VGA) /\ vga_state' = "m_s_idle" /\ ~vga_cyc'
         /\ /\ Cyc(M_VGA)' \/ Takes(M_VGA)'
            /\ ~(Takes(M_VGA) /\ Ack(M_VGA))
            => Adr(M_VGA)' = Adr(M_VGA)
<1>. USE DEF M_DSP_0, M_DSP_1, M_VGA, M_DEBUG, M_ETH
<1>1. CASE ~VgaOn
  <2>1. vga_cyc' = vga_cyc /\ vga_state' = vga_state /\ vga_word' = vga_word
    BY <1>1 DEF Vga, vgaVars
  <2>. QED
    BY <1>1, <2>1 DEF Moves, Cyc, Adr, Address, TypeOK
<1>2. CASE VgaOn /\ VgaRestart
  BY <1>2 DEF VgaRestart, Cyc, Takes
<1>3. CASE VgaOn /\ \E low, full \in BOOLEAN : VgaBurst(low, full)
  <2>. PICK low \in BOOLEAN, full \in BOOLEAN : VgaBurst(low, full)
    BY <1>3
  <2>1. vga_state' \in {"m_s_idle", "m_s_begin_burst"} /\ vga_cyc' \in BOOLEAN
    BY DEF VgaBurst, TypeOK
  <2>2. ~(Takes(M_VGA) /\ Ack(M_VGA)) => vga_word' = vga_word
    BY DEF VgaBurst, Takes
  <2>. QED
    BY <1>3, <2>1, <2>2 DEF Adr, Address
<1>. QED
  BY <1>1, <1>2, <1>3 DEF Vga

LEMMA DebugMoves ==
  ASSUME TypeOK, Ports, Answers, Debug
  PROVE  Moves(M_DEBUG)
<1>. USE DEF M_DSP_0, M_DSP_1, M_VGA, M_DEBUG, M_ETH, Masters
<1>1. /\ Cyc(M_DEBUG) = dbg_cyc /\ Cyc(M_DEBUG)' = dbg_cyc'
      /\ Adr(M_DEBUG) = dbg_adr /\ Adr(M_DEBUG)' = dbg_adr'
      /\ We(M_DEBUG) = dbg_we /\ We(M_DEBUG)' = dbg_we'
      /\ Takes(M_DEBUG) <=> dbg_state \in {"WB_WRITE_1", "WB_READ_1"}
      /\ Takes(M_DEBUG)' <=> dbg_state' \in {"WB_WRITE_1", "WB_READ_1"}
  BY DEF Cyc, Adr, We, Takes
<1>2. CASE DebugCommand \/ (dbg_state = "WB_IDLE" /\ UNCHANGED dbgVars)
  BY <1>1, <1>2 DEF Moves, DebugCommand, dbgVars, Ports
<1>3. CASE DebugAsk
  <2>1. Ack(M_DEBUG) <=> active_wb_master = M_DEBUG /\ wb_ack_i_w
    BY DEF Ack
  <2>2. Ack(M_DEBUG) => dbg_cyc
    BY <1>1, <1>3, <2>1 DEF Answers, VgaHas, wb_cyc_o_w, DebugAsk
  <2>3. dbg_cyc => dbg_we' = dbg_we
    <3>1. dbg_we' \in BOOLEAN /\ (dbg_we' <=> dbg_state = "WB_WRITE_1")
      BY <1>3 DEF DebugAsk
    <3>2. dbg_we \in BOOLEAN /\ (dbg_cyc => (dbg_we <=> dbg_state = "WB_WRITE_1"))
      BY <1>3 DEF DebugAsk, Ports, TypeOK
    <3>. QED
      BY <3>1, <3>2
  <2>4. ~Ack(M_DEBUG) => dbg_cyc' /\ dbg_adr' = dbg_adr /\ dbg_state' = dbg_state
    BY <1>3 DEF DebugAsk
  <2>5. Ack(M_DEBUG) => /\ dbg_cyc' /\ dbg_adr' = dbg_adr
                        /\ dbg_state' \in {"WB_WRITE_2", "WB_READ_2"}
    BY <1>3 DEF DebugAsk
  <2>6. dbg_state \in {"WB_WRITE_1", "WB_READ_1"}
    BY <1>3 DEF DebugAsk
  <2>. QED
    BY <1>1, <2>1, <2>2, <2>3, <2>4, <2>5, <2>6 DEF Moves, Held, Stays
<1>4. CASE DebugRelease
  BY <1>1, <1>4 DEF Moves, DebugRelease
<1>. QED
  BY <1>2, <1>3, <1>4 DEF Debug

LEMMA EthMoves ==
  ASSUME TypeOK, Ports, Answers, Eth
  PROVE  Moves(M_ETH)
<1>. USE DEF M_DSP_0, M_DSP_1, M_VGA, M_DEBUG, M_ETH, Masters
<1>1. /\ Cyc(M_ETH) = eth_cyc /\ Cyc(M_ETH)' = eth_cyc'
      /\ Adr(M_ETH).slave = "sdram" /\ Adr(M_ETH)'.slave = "sdram"
      /\ eth_word' = eth_word => Adr(M_ETH)' = Adr(M_ETH)
      /\ We(M_ETH) = TRUE /\ We(M_ETH)' = TRUE
      /\ Takes(M_ETH) <=> eth_state = "m_s_begin_burst"
      /\ Takes(M_ETH)' <=> eth_state' = "m_s_begin_burst"
      /\ Ack(M_ETH) <=> active_wb_master = M_ETH /\ wb_ack_i_w
  BY DEF Cyc, Adr, We, Takes, Address, Ack
<1>2. CASE EthStart
  BY <1>1, <1>2 DEF Moves, EthStart, Ports
<1>3. CASE \E more \in BOOLEAN : EthTaken(more)
  <2>. PICK more \in BOOLEAN : EthTaken(more)
    BY <1>3
  <2>1. M_ETH = active_wb_master /\ wb_ack_i_w /\ Takes(M_ETH) /\ Cyc(M_ETH)
    BY <1>1 DEF EthTaken, Ports
  <2>2. /\ more => Takes(M_ETH)' /\ Cyc(M_ETH)'
        /\ ~more => ~Takes(M_ETH)' /\ ~Cyc(M_ETH)'
    BY <1>1 DEF EthTaken
  <2>3. more => GoesOn(M_ETH)
    BY <1>1, <2>2 DEF GoesOn
  <2>4. ~more => Leaves(M_ETH)
    BY <2>2 DEF Leaves
  <2>. QED
    BY <2>1, <2>2, <2>3, <2>4 DEF Moves
<1>4. CASE EthWait
  <2>1. eth_state' = eth_state /\ eth_cyc' = eth_cyc /\ eth_word' = eth_word
    BY <1>4 DEF EthWait, ethVars
  <2>2. Takes(M_ETH) => ~Ack(M_ETH)
    BY <1>1, <1>4 DEF EthWait
  <2>3. Takes(M_ETH) <=> Cyc(M_ETH)
    BY <1>1 DEF Ports
  <2>. QED
    BY <1>1, <2>1, <2>2, <2>3 DEF Moves, Held
<1>. QED
  BY <1>2, <1>3, <1>4 DEF Eth

(* The bus: an access keeps the master that has it until cyc is low, and a master   *)
(* comes to the bus with a request that is not answered yet.                          *)
LEMMA BusMoves ==
  ASSUME TypeOK, Ports, Cores, BootsInTurn, AfterAnswer, Answers, NEW go, Clock(go)
  PROVE  /\ wb_cyc_o_w => active_wb_master' = active_wb_master
         /\ ~VgaHas /\ asks /\ ~wb_ack_i_w =>
              asks' /\ wb_adr_o_w' = wb_adr_o_w /\ wb_we_o_w' = wb_we_o_w
         /\ ~VgaHas /\ asks /\ wb_ack_i_w =>
              \/ asks' /\ wb_adr_o_w'.slave = wb_adr_o_w.slave /\ wb_we_o_w' = wb_we_o_w
              \/ /\ wb_cyc_o_w' /\ ~Takes(active_wb_master)' /\ wb_adr_o_w' = wb_adr_o_w
                 /\ ~wb_cti_incr
              \/ /\ ~wb_cyc_o_w' /\ ~Takes(active_wb_master)'
                 /\ \/ active_wb_master = M_DSP_0 /\ IsBurst(state_0)
                    \/ active_wb_master = M_DSP_1 /\ IsBurst(state_1)
                    \/ active_wb_master = M_ETH
         /\ ~VgaHas /\ wb_cyc_o_w /\ ~Takes(active_wb_master) =>
              ~wb_cyc_o_w' /\ (wb_adr_o_w.slave = "ram" => ~Takes(active_wb_master)')
         /\ ~wb_cyc_o_w =>
              /\ active_wb_master' = Successor[active_wb_master]
              /\ wb_cyc_o_w' => Takes(active_wb_master)' \/ VgaHas'
         /\ AfterAnswer'
<1>. Arbiter /\ Dsp0 /\ Dsp1 /\ Vga /\ Debug /\ Eth
  BY DEF Clock
<1>1. \A m \in Masters : (m = M_VGA /\ VgaOn) \/ Moves(m)
  BY CoreMoves0, CoreMoves1, VgaMoves, DebugMoves, EthMoves DEF Masters
<1>2. PICK m \in Masters : m = active_wb_master
  BY DEF TypeOK
<1>3. PICK n \in Masters : n = active_wb_master'
  BY <1>2, Rotation DEF Arbiter, Masters
<1>4. /\ wb_cyc_o_w = Cyc(m) /\ wb_adr_o_w = Adr(m) /\ wb_we_o_w = We(m)
      /\ Takes(active_wb_master) = Takes(m)
  BY <1>2 DEF wb_cyc_o_w, wb_adr_o_w, wb_we_o_w
<1>5. /\ wb_cyc_o_w' = Cyc(n)' /\ wb_adr_o_w' = Adr(n)' /\ wb_we_o_w' = We(n)'
      /\ Takes(active_wb_master)' = Takes(n)'
  BY <1>3 DEF wb_cyc_o_w, wb_adr_o_w, wb_we_o_w, Cyc, Adr, We, Takes
<1>6. n = IF Cyc(m) THEN m ELSE Successor[m]
  BY <1>2, <1>3, <1>4 DEF Arbiter
<1>7. AfterAnswer'
  <2>. SUFFICES ASSUME NEW k \in Masters \ {M_VGA}, Cyc(k)', ~Takes(k)'
                PROVE  active_wb_master' = k
    BY DEF AfterAnswer
  <2>1. k = active_wb_master /\ Cyc(k)
    BY <1>1 DEF Moves
  <2>. QED
    BY <1>2, <1>3, <1>6, <2>1
<1>8. ASSUME ~VgaHas, Cyc(m), Takes(m)
      PROVE  /\ ~wb_ack_i_w => Held(m)
             /\ wb_ack_i_w => GoesOn(m) \/ Stays(m) \/ Leaves(m)
  BY <1>1, <1>2, <1>8 DEF Moves, VgaHas
<1>9. ~VgaHas /\ Cyc(m) /\ ~Takes(m) => ~Cyc(m)' /\ (Adr(m).slave = "ram" => ~Takes(m)')
  BY <1>1, <1>2 DEF Moves, VgaHas
<1>10. ~Cyc(m) => (Cyc(n)' => Takes(n)' \/ VgaHas')
  <2>. SUFFICES ASSUME ~Cyc(m) PROVE Cyc(n)' => Takes(n)' \/ VgaHas'
    OBVIOUS
  <2>1. n # active_wb_master \/ ~Cyc(n)
    BY <1>2
  <2>2. CASE n = M_VGA /\ VgaOn
    BY <1>3, <2>2 DEF VgaHas
  <2>3. CASE Moves(n)
    BY <2>1, <2>3 DEF Moves
  <2>. QED
    BY <1>1, <2>2, <2>3
<1>11. wb_cti_incr <=> m \in {M_VGA, M_ETH}
  BY <1>2 DEF wb_cti_incr
<1>12. CASE Cyc(m) /\ Takes(m)
  BY <1>2, <1>3, <1>4, <1>5, <1>6, <1>7, <1>8, <1>11, <1>12
     DEF asks, Held, GoesOn, Stays, Leaves
<1>13. CASE Cyc(m) /\ ~Takes(m)
  BY <1>2, <1>3, <1>4, <1>5, <1>6, <1>7, <1>9, <1>13 DEF asks
<1>14. CASE ~Cyc(m)
  BY <1>2, <1>3, <1>4, <1>5, <1>6, <1>7, <1>10, <1>14 DEF asks
<1>. QED
  BY <1>12, <1>13, <1>14

(* The frame buffer reads the SDRAM.                                              *)
LEMMA VgaAccess ==
  /\ active_wb_master = M_VGA => wb_adr_o_w.slave = "sdram" /\ ~wb_we_o_w
  /\ active_wb_master' = M_VGA => wb_adr_o_w'.slave = "sdram" /\ ~wb_we_o_w'
<1>1. Adr(M_VGA).slave = "sdram" /\ Adr(M_VGA)'.slave = "sdram"
  BY DEF Adr, Address, M_DSP_0, M_DSP_1, M_VGA, M_DEBUG, M_ETH
<1>2. ~We(M_VGA) /\ ~We(M_VGA)'
  BY DEF We, M_DSP_0, M_DSP_1, M_VGA, M_DEBUG, M_ETH
<1>3. /\ active_wb_master = M_VGA => wb_adr_o_w = Adr(M_VGA) /\ wb_we_o_w = We(M_VGA)
      /\ active_wb_master' = M_VGA => wb_adr_o_w' = Adr(M_VGA)' /\ wb_we_o_w' = We(M_VGA)'
  BY DEF wb_adr_o_w, wb_we_o_w, Adr, We
<1>. QED
  BY <1>1, <1>2, <1>3

LEMMA VgaKeeps ==
  ASSUME TypeOK, NEW go, Clock(go), VgaHas, VgaHas', Driven',
         ~(Takes(active_wb_master) /\ wb_ack_i_w)
  PROVE  wb_adr_o_w' = wb_adr_o_w
<1>1. /\ wb_adr_o_w = Adr(M_VGA) /\ wb_adr_o_w' = Adr(M_VGA)'
      /\ wb_cyc_o_w' = Cyc(M_VGA)' /\ Takes(active_wb_master)' = Takes(M_VGA)'
  BY DEF VgaHas, wb_adr_o_w, wb_cyc_o_w, Cyc, Adr, Takes
<1>2. Cyc(M_VGA)' \/ Takes(M_VGA)'
  BY <1>1 DEF Driven
<1>3. ~(Takes(M_VGA) /\ Ack(M_VGA))
  BY DEF VgaHas, Ack
<1>. QED
  BY <1>1, <1>2, <1>3, VgaMoves DEF Clock

LEMMA CoreBoots0 ==
  ASSUME BusRules, TypeOK, Cores, Arbiter, Dsp0
  PROVE  /\ Boots0' => Boots0 \/ M_DSP_0 \in reset_ctrl' \ reset_ctrl
         /\ RamUse(state_0, cyc_0, adr_0, flags_0)'
         /\ M_DSP_0 \notin reset_ctrl => ~cyc_0' /\ state_0' = "wb_m_burst"
<1>. /\ P0!TypeOK /\ P0!Request
     /\ RamUse(state_0, cyc_0, adr_0, flags_0)
  BY DEF TypeOK, Cores
<1>1. CASE M_DSP_0 \notin reset_ctrl
  <2>1. /\ state_0' = "wb_m_burst" /\ ~cyc_0' /\ adr_0' = BootBurst.adr /\ flags_0' = BootBurst.flags
    BY <1>1, Core0, P0!ResetStep, Assumption0
  <2>. QED
    BY <1>1, <2>1 DEF Boots0, RamUse
<1>2. CASE M_DSP_0 \in reset_ctrl
  <2>1. Ack(M_DSP_0) \in BOOLEAN /\ P0!Cycle(Ack(M_DSP_0), wb_dat_i_w)
    BY <1>2, Core0
  <2>2. state_0 # "wb_m_idle" => flags_0' = flags_0
    BY <2>1, P0!FsmStep, Assumption0 DEF P0!Busy
  <2>3. CASE P0!Waiting /\ ~Ack(M_DSP_0)
    <3>1. state_0' = state_0 /\ adr_0' = adr_0 /\ flags_0' = flags_0 /\ state_0 # "wb_m_idle"
      BY <2>1, <2>2, <2>3, P0!RequestHeld, Assumption0 DEF P0!Waiting
    <3>. QED
      BY <1>2, <2>3, <3>1 DEF Boots0, RamUse, IsBurst, Cores
  <2>4. CASE P0!Waiting /\ Ack(M_DSP_0)
    <3>1. P0!NextWordOf(adr_0).slave = adr_0.slave
      BY DEF P0!NextWordOf
    <3>2. /\ adr_0'.slave = adr_0.slave /\ flags_0' = flags_0
          /\ \/ state_0 = "wb_m_burst_1" /\ state_0' \in {"wb_m_burst_1", "wb_m_back_off"}
             \/ state_0' = "wb_m_idle" /\ (cyc_0' => state_0 = "wb_m_write")
             \/ state_0' = "wb_m_read_ack"
      BY <2>1, <2>2, <2>4, <3>1, P0!RequestAnswered, Assumption0 DEF P0!Waiting
    <3>. QED
      BY <1>2, <2>4, <3>2 DEF Boots0, RamUse, IsBurst
  <2>5. CASE ~P0!Waiting
    <3>1. ~cyc_0'
      BY <2>1, <2>5, P0!RequestOver, Assumption0
    <3>2. \/ /\ adr_0' = adr_0 /\ flags_0' = flags_0
             /\ \/ state_0' = "wb_m_idle"
                \/ IsBurst(state_0) /\ state_0' \in {"wb_m_burst_0", "wb_m_burst_1"}
          \/ \E r \in Requests0 :
                /\ adr_0' = r.adr
                /\ \/ r.op = "read" /\ state_0' = "wb_m_read"
                   \/ r.op = "write" /\ state_0' = "wb_m_write"
                   \/ r.op = "burst" /\ state_0' = "wb_m_burst"
      BY <2>1, <2>5, P0!RequestOver, Assumption0 DEF P0!Bursting, IsBurst
    <3>3. CASE /\ adr_0' = adr_0 /\ flags_0' = flags_0
               /\ \/ state_0' = "wb_m_idle"
                  \/ IsBurst(state_0) /\ state_0' \in {"wb_m_burst_0", "wb_m_burst_1"}
      BY <1>2, <3>1, <3>3 DEF Boots0, RamUse, IsBurst
    <3>4. CASE \E r \in Requests0 :
                  /\ adr_0' = r.adr
                  /\ \/ r.op = "read" /\ state_0' = "wb_m_read"
                     \/ r.op = "write" /\ state_0' = "wb_m_write"
                     \/ r.op = "burst" /\ state_0' = "wb_m_burst"
      <4>1. /\ adr_0'.slave = "ram" => state_0' = "wb_m_read"
            /\ state_0' \in {"wb_m_read", "wb_m_write", "wb_m_burst"}
        BY <3>4 DEF BusRules
      <4>. QED
        BY <1>2, <4>1 DEF Boots0, RamUse, IsBurst
    <3>. QED
      BY <3>2, <3>3, <3>4
  <2>. QED
    BY <2>3, <2>4, <2>5
<1>. QED
  BY <1>1, <1>2

LEMMA CoreBoots1 ==
  ASSUME BusRules, TypeOK, Cores, Arbiter, Dsp1
  PROVE  /\ Boots1' => Boots1 \/ M_DSP_1 \in reset_ctrl' \ reset_ctrl
         /\ RamUse(state_1, cyc_1, adr_1, flags_1)'
         /\ M_DSP_1 \notin reset_ctrl => ~cyc_1' /\ state_1' = "wb_m_burst"
         /\ state_1' = "wb_m_read" => adr_1'.slave # "ram"
<1>. /\ P1!TypeOK /\ P1!Request
     /\ RamUse(state_1, cyc_1, adr_1, flags_1)
  BY DEF TypeOK, Cores
<1>1. CASE M_DSP_1 \notin reset_ctrl
  <2>1. /\ state_1' = "wb_m_burst" /\ ~cyc_1' /\ adr_1' = BootBurst.adr /\ flags_1' = BootBurst.flags
    BY <1>1, Core1, P1!ResetStep, Assumption1
  <2>. QED
    BY <1>1, <2>1 DEF Boots1, RamUse
<1>2. CASE M_DSP_1 \in reset_ctrl
  <2>1. Ack(M_DSP_1) \in BOOLEAN /\ P1!Cycle(Ack(M_DSP_1), wb_dat_i_w)
    BY <1>2, Core1
  <2>2. state_1 # "wb_m_idle" => flags_1' = flags_1
    BY <2>1, P1!FsmStep, Assumption1 DEF P1!Busy
  <2>3. CASE P1!Waiting /\ ~Ack(M_DSP_1)
    <3>1. state_1' = state_1 /\ adr_1' = adr_1 /\ flags_1' = flags_1 /\ state_1 # "wb_m_idle"
      BY <2>1, <2>2, <2>3, P1!RequestHeld, Assumption1 DEF P1!Waiting
    <3>. QED
      BY <1>2, <2>3, <3>1 DEF Boots1, RamUse, IsBurst, Cores
  <2>4. CASE P1!Waiting /\ Ack(M_DSP_1)
    <3>1. P1!NextWordOf(adr_1).slave = adr_1.slave
      BY DEF P1!NextWordOf
    <3>2. /\ adr_1'.slave = adr_1.slave /\ flags_1' = flags_1
          /\ \/ state_1 = "wb_m_burst_1" /\ state_1' \in {"wb_m_burst_1", "wb_m_back_off"}
             \/ state_1' = "wb_m_idle" /\ (cyc_1' => state_1 = "wb_m_write")
             \/ state_1' = "wb_m_read_ack"
      BY <2>1, <2>2, <2>4, <3>1, P1!RequestAnswered, Assumption1 DEF P1!Waiting
    <3>. QED
      BY <1>2, <2>4, <3>2 DEF Boots1, RamUse, IsBurst
  <2>5. CASE ~P1!Waiting
    <3>1. ~cyc_1'
      BY <2>1, <2>5, P1!RequestOver, Assumption1
    <3>2. \/ /\ adr_1' = adr_1 /\ flags_1' = flags_1
             /\ \/ state_1' = "wb_m_idle"
                \/ IsBurst(state_1) /\ state_1' \in {"wb_m_burst_0", "wb_m_burst_1"}
          \/ \E r \in Requests1 :
                /\ adr_1' = r.adr
                /\ \/ r.op = "read" /\ state_1' = "wb_m_read"
                   \/ r.op = "write" /\ state_1' = "wb_m_write"
                   \/ r.op = "burst" /\ state_1' = "wb_m_burst"
      BY <2>1, <2>5, P1!RequestOver, Assumption1 DEF P1!Bursting, IsBurst
    <3>3. CASE /\ adr_1' = adr_1 /\ flags_1' = flags_1
               /\ \/ state_1' = "wb_m_idle"
                  \/ IsBurst(state_1) /\ state_1' \in {"wb_m_burst_0", "wb_m_burst_1"}
      BY <1>2, <3>1, <3>3 DEF Boots1, RamUse, IsBurst
    <3>4. CASE \E r \in Requests1 :
                  /\ adr_1' = r.adr
                  /\ \/ r.op = "read" /\ state_1' = "wb_m_read"
                     \/ r.op = "write" /\ state_1' = "wb_m_write"
                     \/ r.op = "burst" /\ state_1' = "wb_m_burst"
      <4>1. /\ adr_1'.slave = "ram" => state_1' = "wb_m_read"
            /\ state_1' \in {"wb_m_read", "wb_m_write", "wb_m_burst"}
            /\ adr_1'.slave # "ram"
        BY <3>4 DEF BusRules
      <4>. QED
        BY <1>2, <4>1 DEF Boots1, RamUse, IsBurst
    <3>. QED
      BY <3>2, <3>3, <3>4
  <2>. QED
    BY <2>3, <2>4, <2>5
<1>. QED
  BY <1>1, <1>2

LEMMA BootsStep ==
  ASSUME BusRules, TypeOK, Ports, Cores, BootsInTurn, NEW go, Clock(go), OneAtATime
  PROVE  /\ active_wb_master # M_DEBUG => (Boots0' => Boots0) /\ (Boots1' => Boots1)
         /\ BootsInTurn' /\ Cores'
<1>. USE DEF M_DSP_0, M_DSP_1, M_DEBUG
<1>. Arbiter /\ Dsp0 /\ Dsp1 /\ Debug /\ MiscIo
  BY DEF Clock
<1>1. reset_ctrl' # reset_ctrl =>
        /\ active_wb_master = M_DEBUG /\ active_wb_master' = M_DEBUG
        /\ dbg_state \in {"WB_WRITE_1", "WB_WRITE_2"} /\ dbg_adr.slave = "reset_ctrl"
        /\ reset_ctrl' = dbg_dat
  BY DEF MiscIo, Selected, Arbiter, wb_cyc_o_w, wb_adr_o_w, wb_we_o_w, Cyc, Adr, We, Ports, M_VGA, M_ETH
<1>2. /\ Boots0' => Boots0 \/ M_DSP_0 \in reset_ctrl' \ reset_ctrl
      /\ Boots1' => Boots1 \/ M_DSP_1 \in reset_ctrl' \ reset_ctrl
  BY CoreBoots0, CoreBoots1
<1>3. dbg_state # "WB_IDLE" => dbg_dat' = dbg_dat /\ dbg_adr' = dbg_adr
  BY DEF Debug, DebugCommand, DebugAsk, DebugRelease, dbgVars
<1>4. reset_ctrl' # reset_ctrl => ~Boots0 /\ ~Boots1 /\ dbg_dat' = dbg_dat
  BY <1>1, <1>3 DEF BootsInTurn
<1>5. ~(Boots0' /\ Boots1')
  <2>1. CASE reset_ctrl' = reset_ctrl
    BY <1>2, <2>1 DEF BootsInTurn
  <2>2. CASE reset_ctrl' # reset_ctrl
    BY <1>1, <1>2, <1>4, <2>2 DEF OneAtATime
  <2>. QED
    BY <2>1, <2>2
<1>6. dbg_state' \in {"WB_WRITE_1", "WB_WRITE_2"} /\ dbg_adr'.slave = "reset_ctrl" =>
        (~Boots0' /\ ~Boots1') \/ reset_ctrl' = dbg_dat'
  <2>1. CASE reset_ctrl' # reset_ctrl
    BY <1>1, <1>3, <2>1
  <2>2. CASE reset_ctrl' = reset_ctrl /\ DebugCommand
    <3>1. ~Booting
      BY <2>2 DEF DebugCommand
    <3>2. ~Boots0
      <4>1. Boots0 => M_DSP_0 \in reset_ctrl /\ D0!Bursting /\ "imem" \in flags_0
        BY DEF Boots0, Cores, RamUse, IsBurst, D0!Bursting, BootBurst
      <4>. QED
        BY <3>1, <4>1 DEF Booting
    <3>3. ~Boots1
      <4>1. Boots1 => M_DSP_1 \in reset_ctrl /\ D1!Bursting /\ "imem" \in flags_1
        BY DEF Boots1, Cores, RamUse, IsBurst, D1!Bursting, BootBurst
      <4>. QED
        BY <3>1, <4>1 DEF Booting
    <3>. QED
      BY <1>2, <2>2, <3>2, <3>3
  <2>3. CASE reset_ctrl' = reset_ctrl /\ ~DebugCommand
    <3>1. dbg_state' \in {"WB_WRITE_1", "WB_WRITE_2"} =>
            dbg_state \in {"WB_WRITE_1", "WB_WRITE_2"}
      BY <2>3 DEF Debug, DebugAsk, DebugRelease, dbgVars
    <3>. QED
      BY <1>2, <1>3, <2>3, <3>1 DEF BootsInTurn
  <2>. QED
    BY <2>1, <2>2, <2>3
<1>7. /\ M_DSP_0 \notin reset_ctrl' => (~cyc_0' /\ state_0' = "wb_m_burst") \/ active_wb_master' = M_DEBUG
      /\ M_DSP_1 \notin reset_ctrl' => (~cyc_1' /\ state_1' = "wb_m_burst") \/ active_wb_master' = M_DEBUG
  BY <1>1, CoreBoots0, CoreBoots1
<1>8. BootsInTurn'
  BY <1>5, <1>6, <1>7 DEF BootsInTurn
<1>9. Cores'
  BY CoreBoots0, CoreBoots1, CoreTypes0, CoreTypes1 DEF Cores
<1>. QED
  BY <1>1, <1>2, <1>8, <1>9

----------------------------------------------------------------------------
(* The parts of BusInv, one step each.                                           *)
LEMMA SdramBits ==
  ASSUME TypeOK, NEW go \in BOOLEAN, Sdram(go)
  PROVE  /\ sd_state' \in {"wb_s_idle", "wb_s_read", "wb_s_write", "wb_s_ack", "wb_s_ack_wait"}
         /\ ddr' \in {"ready", "read_cmd", "read_cl", "read_data", "read_wait_0", "write_data"}
         /\ early' = early
BY DEF TypeOK, Sdram, Sd!SdramCycle, Sd!SdramIdle, Sd!SdramAccess, Sd!SdramAck, Sd!Ddr,
       Sd!AfterAccept, Sd!rd_ack

LEMMA TypesStep ==
  ASSUME BusRules, TypeOK, Ports, Cores, Answers, NEW go \in BOOLEAN, Clock(go)
  PROVE  TypeOK' /\ Ports'
<1>. Arbiter /\ Dsp0 /\ Dsp1 /\ Vga /\ Debug /\ Eth /\ Ram /\ Sdram(go)
  BY DEF Clock
<1>1. /\ P0!TypeOK' /\ P1!TypeOK'
      /\ vga_state' \in {"m_s_idle", "m_s_begin_burst"} /\ vga_cyc' \in BOOLEAN
      /\ ~VgaOn => ~vga_cyc' /\ vga_state' = "m_s_idle"
  BY CoreTypes0, CoreTypes1, VgaMoves
<1>2. active_wb_master' \in Masters
  BY Rotation DEF Arbiter, Masters, TypeOK
<1>3. /\ dbg_state' \in {"WB_IDLE", "WB_WRITE_1", "WB_READ_1", "WB_WRITE_2", "WB_READ_2"}
      /\ dbg_cyc' \in BOOLEAN /\ dbg_we' \in BOOLEAN
  BY DEF TypeOK, Debug, DebugCommand, DebugAsk, DebugRelease, dbgVars
<1>4. eth_state' \in {"m_s_idle", "m_s_begin_burst"} /\ eth_cyc' \in BOOLEAN
  BY DEF TypeOK, Eth, EthStart, EthTaken, EthWait, ethVars
<1>5. ram_state' \in {"wb_idle_s", "wb_ack_s"} /\ ram_ack' \in BOOLEAN
  BY DEF TypeOK, Ram
<1>6. TypeOK'
  BY <1>1, <1>2, <1>3, <1>4, <1>5, SdramBits DEF TypeOK
<1>7. Ports'
  <2>1. DebugAsk /\ Ack(M_DEBUG) => dbg_cyc
    BY DEF DebugAsk, Ack, Answers, VgaHas, wb_cyc_o_w, Cyc, Takes,
           M_DSP_0, M_DSP_1, M_VGA, M_DEBUG, M_ETH
  <2>2. /\ dbg_state' = "WB_IDLE" => ~dbg_cyc' /\ ~dbg_we'
        /\ dbg_state' \in {"WB_WRITE_2", "WB_READ_2"} => dbg_cyc'
        /\ dbg_cyc' => (dbg_we' <=> dbg_state' \in {"WB_WRITE_1", "WB_WRITE_2"})
        /\ ~dbg_cyc' => ~dbg_we'
    <3>1. CASE DebugAsk
      BY <2>1, <3>1 DEF TypeOK, Ports, DebugAsk
    <3>2. CASE ~DebugAsk
      BY <3>2 DEF TypeOK, Ports, Debug, DebugCommand, DebugRelease, dbgVars
    <3>. QED
      BY <3>1, <3>2
  <2>3. eth_cyc' <=> eth_state' = "m_s_begin_burst"
    BY DEF TypeOK, Ports, Eth, EthStart, EthTaken, EthWait, ethVars
  <2>4. VgaOn /\ dbg_adr'.slave = "sdram" => dbg_state' \notin {"WB_READ_1", "WB_READ_2"}
    <3>1. CASE DebugCommand
      BY <3>1 DEF BusRules, DebugCommand
    <3>2. CASE ~DebugCommand
      BY <3>2 DEF Ports, Debug, DebugAsk, DebugRelease, dbgVars
    <3>. QED
      BY <3>1, <3>2
  <2>. QED
    BY <2>2, <2>3, <2>4 DEF Ports
<1>. QED
  BY <1>6, <1>7

(* The RAM acknowledges two cycles after it has seen an access; by then the master    *)
(* still waits, or has left the bus to one that does not look at the RAM.               *)
LEMMA RamStep ==
  ASSUME BusRules, TypeOK, Ports, Cores, BootsInTurn, AfterAnswer, RamSide, SdramSide,
         NEW go \in BOOLEAN, Clock(go), OneAtATime
  PROVE  RamSide'
<1>. /\ Ram /\ Arbiter /\ Answers
     /\ ram_ack \in BOOLEAN /\ ram_state \in {"wb_idle_s", "wb_ack_s"}
  BY AnswersLemma DEF Clock, TypeOK
<1>. USE BusMoves DEF asks, Ram, Selected, M_DSP_0, M_DSP_1, M_VGA, M_DEBUG, M_ETH
<1>1. wb_adr_o_w.slave = "ram" => (wb_ack_i_w <=> ram_ack) /\ ~VgaHas
  BY VgaAccess DEF wb_ack_i_w, VgaHas
<1>0. VgaHas' => wb_adr_o_w'.slave # "ram"
  BY VgaAccess DEF VgaHas
<1>2. CASE ram_state = "wb_ack_s"
  <2>1. ram_state' = "wb_idle_s" /\ ram_ack'
    BY <1>2
  <2>2. ram_ack' /\ Takes(active_wb_master)' /\ wb_adr_o_w'.slave = "ram" =>
          wb_cyc_o_w' /\ ram_dat' = wb_adr_o_w'
    <3>1. CASE wb_cyc_o_w /\ wb_adr_o_w.slave = "ram"
      BY <1>1, <1>2, <3>1 DEF RamSide
    <3>2. CASE ~wb_cyc_o_w /\ active_wb_master = M_DSP_0 /\ ~Boots1
      <4>1. active_wb_master' = M_DSP_1 /\ ~Boots1'
        BY <3>2, BootsStep, Rotation
      <4>2. P1!TypeOK' /\ Cores'
        BY BootsStep, TypesStep DEF TypeOK
      <4>3. Takes(M_DSP_1)' /\ adr_1'.slave = "ram" => FALSE
        <5>. SUFFICES ASSUME Takes(M_DSP_1)', adr_1'.slave = "ram" PROVE FALSE
          OBVIOUS
        <5>1. state_1' \in {"wb_m_read", "wb_m_write", "wb_m_burst_1"}
          BY DEF Takes
        <5>2. state_1' = "wb_m_burst_1"
          BY <4>2, <5>1 DEF Cores, RamUse
        <5>3. M_DSP_1 \in reset_ctrl'
          BY <4>1, <5>2, BootsStep DEF BootsInTurn
        <5>. QED
          BY <4>1, <5>2, <5>3 DEF Boots1, IsBurst
      <4>. QED
        BY <4>1, <4>3 DEF wb_adr_o_w, Adr, Takes
    <3>3. CASE ~wb_cyc_o_w /\ active_wb_master = M_DSP_1
      <4>1. active_wb_master' = M_VGA
        BY <3>3, Rotation
      <4>. QED
        BY <4>1, VgaAccess
    <3>. QED
      BY <1>2, <3>1, <3>2, <3>3 DEF RamSide
  <2>3. wb_cyc_o_w' /\ ~Takes(active_wb_master)' => wb_adr_o_w'.slave # "ram"
    BY <1>0, <1>1, <1>2 DEF RamSide
  <2>. QED
    BY <2>1, <2>2, <2>3 DEF RamSide
<1>3. CASE ram_state = "wb_idle_s"
  <2>1. ~ram_ack' /\ ram_state' = IF Selected("ram") THEN "wb_ack_s" ELSE "wb_idle_s"
    BY <1>3
  <2>2. Selected("ram") => asks /\ ~VgaHas
    BY <1>1, <1>3 DEF RamSide
  <2>3. Selected("ram") /\ ~wb_ack_i_w =>
          wb_cyc_o_w' /\ wb_adr_o_w'.slave = "ram"
    BY <2>2
  <2>4. ASSUME Selected("ram"), wb_ack_i_w
        PROVE  \/ wb_cyc_o_w' /\ wb_adr_o_w'.slave = "ram"
               \/ ~wb_cyc_o_w' /\ active_wb_master' = M_DSP_0 /\ ~Boots1'
               \/ ~wb_cyc_o_w' /\ active_wb_master' = M_DSP_1
    <3>1. active_wb_master' = active_wb_master /\ wb_cyc_o_w
      BY <2>4
    <3>2. active_wb_master # M_ETH
      BY <2>4 DEF wb_adr_o_w, Adr, Address
    <3>3. active_wb_master = M_DSP_0 /\ IsBurst(state_0) => ~Boots1'
      <4>. SUFFICES ASSUME active_wb_master = M_DSP_0, IsBurst(state_0) PROVE ~Boots1'
        OBVIOUS
      <4>1. cyc_0 /\ adr_0.slave = "ram" /\ M_DSP_0 \in reset_ctrl
        BY <2>4 DEF wb_cyc_o_w, wb_adr_o_w, Cyc, Adr, BootsInTurn
      <4>2. Boots0
        BY <4>1 DEF Boots0
      <4>. QED
        BY <4>2, BootsStep DEF BootsInTurn
    <3>. QED
      BY <2>2, <2>4, <3>1, <3>2, <3>3
  <2>5. wb_cyc_o_w' /\ ~Takes(active_wb_master)' /\ wb_adr_o_w'.slave = "ram" =>
          ram_state' = "wb_ack_s"
    <3>1. CASE VgaHas /\ wb_cyc_o_w
      BY <1>0, <3>1 DEF VgaHas
    <3>2. CASE ~(VgaHas /\ wb_cyc_o_w)
      BY <1>0, <2>1, <3>2
    <3>. QED
      BY <3>1, <3>2
  <2>. QED
    BY <2>1, <2>3, <2>4, <2>5 DEF RamSide
<1>. QED
  BY <1>2, <1>3

(* One cycle of the two FSMs of the SDRAM, with the request that is there.              *)
LEMMA SdramMoves ==
  ASSUME TypeOK, SdramSide, NEW go \in BOOLEAN, Clock(go)
  PROVE  /\ sd_state = "wb_s_idle" =>
              sd_state' = IF wb_cyc_o_w /\ wb_adr_o_w.slave = "sdram"
                          THEN IF wb_we_o_w THEN "wb_s_write" ELSE "wb_s_read"
                          ELSE "wb_s_idle"
         /\ sd_state = "wb_s_read" =>
              sd_state' = IF ~wb_cyc_o_w THEN "wb_s_idle"
                          ELSE IF ddr = "read_data" THEN "wb_s_ack" ELSE "wb_s_read"
         /\ sd_state = "wb_s_write" =>
              sd_state' = IF ~wb_cyc_o_w THEN "wb_s_idle"
                          ELSE IF (IF early THEN go /\ ddr = "ready" ELSE ddr = "write_data")
                          THEN "wb_s_ack" ELSE "wb_s_write"
         /\ sd_state = "wb_s_ack" =>
              sd_state' = IF wb_cti_incr THEN "wb_s_idle" ELSE "wb_s_ack_wait"
         /\ sd_state = "wb_s_ack_wait" => sd_state' = "wb_s_idle"
         /\ IF ddr = "ready" /\ go /\ sd_state \in {"wb_s_read", "wb_s_write"} /\ wb_cyc_o_w
            THEN /\ ddr' = IF sd_state = "wb_s_write" THEN "write_data"
                           ELSE IF early THEN "read_cl" ELSE "read_cmd"
                 /\ burst_addr' = wb_adr_o_w
            ELSE /\ ddr' = CASE ddr = "read_cmd" -> "read_cl"
                             [] ddr = "read_cl" -> "read_data"
                             [] ddr = "read_data" /\ early -> "read_wait_0"
                             [] OTHER -> "ready"
                 /\ burst_addr' = burst_addr
         /\ sd_dat' = IF ddr = "read_data" THEN burst_addr ELSE sd_dat
         /\ early' = early
<1>. DEFINE cyc == wb_cyc_o_w /\ wb_adr_o_w.slave \in {"sdram", "sdram_high"}
<1>. Sdram(go)
  BY DEF Clock
<1>1. sd_state \in {"wb_s_read", "wb_s_write"} => (cyc <=> wb_cyc_o_w)
  BY DEF SdramSide
<1>2. /\ sd_state = "wb_s_idle" =>
           sd_state' = IF wb_cyc_o_w /\ wb_adr_o_w.slave = "sdram"
                       THEN IF wb_we_o_w THEN "wb_s_write" ELSE "wb_s_read"
                       ELSE "wb_s_idle"
      /\ sd_state = "wb_s_read" =>
           sd_state' = IF ~wb_cyc_o_w THEN "wb_s_idle"
                       ELSE IF ddr = "read_data" THEN "wb_s_ack" ELSE "wb_s_read"
      /\ sd_state = "wb_s_write" =>
           sd_state' = IF ~wb_cyc_o_w THEN "wb_s_idle"
                       ELSE IF (IF early THEN go /\ ddr = "ready" ELSE ddr = "write_data")
                       THEN "wb_s_ack" ELSE "wb_s_write"
      /\ sd_state = "wb_s_ack" =>
           sd_state' = IF wb_cti_incr THEN "wb_s_idle" ELSE "wb_s_ack_wait"
      /\ sd_state = "wb_s_ack_wait" => sd_state' = "wb_s_idle"
  BY <1>1 DEF TypeOK, Sdram, Sd!SdramCycle, Sd!SdramIdle, Sd!SdramAccess, Sd!SdramAck,
              Sd!rd_req, Sd!wr_req, Sd!rd_ack, Sd!wr_ack, Sd!Accepts
<1>3. Sd!Accepts(cyc, go) <=>
        ddr = "ready" /\ go /\ sd_state \in {"wb_s_read", "wb_s_write"} /\ wb_cyc_o_w
  BY <1>1 DEF Sd!Accepts, Sd!rd_req, Sd!wr_req
<1>4. CASE Sd!Accepts(cyc, go)
  BY <1>1, <1>2, <1>3, <1>4
     DEF Sdram, Sd!SdramCycle, Sd!Ddr, Sd!AfterAccept, Sd!wr_req, Sd!rd_ack
<1>5. CASE ~Sd!Accepts(cyc, go)
  BY <1>2, <1>3, <1>5 DEF Sdram, Sd!SdramCycle, Sd!Ddr, Sd!rd_ack
<1>. QED
  BY <1>4, <1>5

(* The frame buffer has the bus: a read that it withdraws is left to the SDRAM alone.   *)
LEMMA SdramVgaStep ==
  ASSUME TypeOK, Ports, Cores, BootsInTurn, AfterAnswer, RamSide, SdramSide, DdrSide,
         NEW go \in BOOLEAN, Clock(go), VgaHas
  PROVE  SdramSide' /\ DdrSide'
<1>. USE DEF M_DSP_0, M_DSP_1, M_VGA, M_DEBUG, M_ETH
<1>1. wb_adr_o_w.slave = "sdram" /\ ~wb_we_o_w
  BY VgaAccess DEF VgaHas
<1>2. /\ sd_state \in {"wb_s_idle", "wb_s_read", "wb_s_ack", "wb_s_ack_wait"}
      /\ wb_ack_i_w <=> sd_state = "wb_s_ack"
      /\ wb_cti_incr /\ ~Withdrawn
  BY <1>1 DEF TypeOK, SdramSide, VgaHas, Withdrawn, wb_ack_i_w, wb_cti_incr, Sd!wb_ack_o
<1>3. CASE wb_cyc_o_w
  <2>1. VgaHas' /\ wb_adr_o_w'.slave = "sdram" /\ ~wb_we_o_w'
    BY <1>3, VgaAccess DEF VgaHas, Clock, Arbiter
  <2>2. sd_state = "wb_s_read" /\ Driven' => wb_adr_o_w' = wb_adr_o_w
    BY <1>2, <2>1, VgaKeeps
  <2>3. /\ sd_state' = "wb_s_ack" =>
             sd_state = "wb_s_read" /\ ddr = "read_data" /\ burst_addr' = burst_addr
                /\ sd_dat' = burst_addr
        /\ sd_state' # "wb_s_write"
        /\ sd_state = "wb_s_read" /\ ddr # "read_data" => sd_state' = "wb_s_read"
    BY <1>1, <1>2, <1>3, SdramMoves
  <2>4. Driven
    BY <1>3 DEF Driven
  <2>5. SdramSide'
    BY <1>2, <2>1, <2>2, <2>3, <2>4 DEF SdramSide, DdrSide
  <2>6. DdrSide'
    <3>1. CASE ddr = "ready" /\ go /\ sd_state = "wb_s_read"
      BY <1>3, <2>2, <2>3, <3>1, SdramMoves DEF DdrSide
    <3>2. CASE ~(ddr = "ready" /\ go /\ sd_state = "wb_s_read")
      <4>1. /\ ddr' \in {"read_cmd", "read_cl", "read_data"} => ddr \in {"read_cmd", "read_cl"}
            /\ ddr' # "write_data" /\ burst_addr' = burst_addr
        BY <1>2, <3>2, SdramMoves
      <4>. QED
        BY <1>2, <2>2, <2>3, <2>4, <4>1 DEF DdrSide
    <3>. QED
      BY <3>1, <3>2
  <2>. QED
    BY <2>5, <2>6
<1>4. CASE ~wb_cyc_o_w
  <2>1. active_wb_master' = M_DEBUG /\ ~VgaHas'
    BY <1>4, Rotation DEF VgaHas, Clock, Arbiter
  <2>2. sd_state' = "wb_s_idle"
    BY <1>2, <1>4, SdramMoves
  <2>3. wb_cyc_o_w' => Takes(active_wb_master)'
    BY <1>4, <2>1, BusMoves, AnswersLemma
  <2>4. /\ ddr' \in {"read_cmd", "read_cl", "read_data"} => ddr' \in {"read_cl", "read_data"}
        /\ ddr' # "write_data"
    BY <1>4, SdramMoves
  <2>5. VgaOn
    BY DEF VgaHas
  <2>. QED
    BY <2>1, <2>2, <2>3, <2>4, <2>5 DEF SdramSide, DdrSide, Withdrawn
<1>. QED
  BY <1>3, <1>4

(* Another master has the bus: the SDRAM FSM leaves idle for a request that is not      *)
(* answered yet, and that stays until it is; it does not read while a withdrawn read is   *)
(* still on its way.                                                                       *)
LEMMA SdramOtherStep ==
  ASSUME TypeOK, Ports, Cores, BootsInTurn, AfterAnswer, RamSide, SdramSide, DdrSide,
         NEW go \in BOOLEAN, Clock(go), ~VgaHas
  PROVE  SdramSide' /\ DdrSide'
<1>. Answers
  BY AnswersLemma
<1>1. wb_adr_o_w.slave = "sdram" => (wb_ack_i_w <=> sd_state = "wb_s_ack")
  BY DEF wb_ack_i_w, Sd!wb_ack_o
<1>2. sd_state \in {"wb_s_read", "wb_s_write"} => asks /\ wb_cyc_o_w /\ wb_adr_o_w.slave = "sdram"
  BY DEF SdramSide, asks
<1>3. sd_state = "wb_s_idle" /\ wb_cyc_o_w /\ wb_adr_o_w.slave = "sdram" => asks
  BY DEF SdramSide, asks
<1>4. sd_state \in {"wb_s_read", "wb_s_write"} \/ sd_state' \in {"wb_s_read", "wb_s_write"} =>
        /\ asks /\ asks' /\ wb_adr_o_w' = wb_adr_o_w /\ wb_we_o_w' = wb_we_o_w
        /\ wb_adr_o_w.slave = "sdram"
  <2>1. sd_state \in {"wb_s_read", "wb_s_write"} \/ sd_state' \in {"wb_s_read", "wb_s_write"} =>
          asks /\ ~wb_ack_i_w /\ wb_adr_o_w.slave = "sdram"
    BY <1>1, <1>2, <1>3, SdramMoves DEF TypeOK
  <2>. QED
    BY <2>1, BusMoves
<1>5. sd_state \in {"wb_s_read", "wb_s_write"} => Driven /\ (wb_we_o_w <=> sd_state = "wb_s_write")
  BY <1>2 DEF SdramSide, Driven
<1>6. SdramSide'
  <2>1. sd_state' \in {"wb_s_read", "wb_s_write", "wb_s_ack"} => asks' /\ wb_adr_o_w'.slave = "sdram"
    BY <1>4, SdramMoves DEF TypeOK
  <2>2. sd_state' \in {"wb_s_read", "wb_s_write"} => (wb_we_o_w' <=> sd_state' = "wb_s_write")
    BY <1>4, <1>5, SdramMoves DEF TypeOK
  <2>3. sd_state' = "wb_s_ack" =>
          burst_addr' = wb_adr_o_w' /\ (~wb_we_o_w' => sd_dat' = wb_adr_o_w')
    <3>1. CASE sd_state = "wb_s_read"
      BY <1>4, <1>5, <3>1, SdramMoves DEF DdrSide, Withdrawn
    <3>2. CASE sd_state = "wb_s_write"
      BY <1>2, <1>4, <1>5, <3>2, SdramMoves DEF DdrSide
    <3>. QED
      BY <3>1, <3>2, SdramMoves DEF TypeOK
  <2>4. wb_cyc_o_w' /\ ~Takes(active_wb_master)' /\ wb_adr_o_w'.slave = "sdram" =>
          sd_state' = "wb_s_ack_wait" \/ VgaHas'
    <3>1. wb_cyc_o_w' /\ ~Takes(active_wb_master)' /\ ~VgaHas' =>
            asks /\ wb_ack_i_w /\ wb_adr_o_w' = wb_adr_o_w /\ ~wb_cti_incr
      BY BusMoves DEF asks
    <3>. QED
      BY <1>1, <3>1, SdramMoves
  <2>. QED
    BY <2>1, <2>2, <2>3, <2>4 DEF SdramSide
<1>7. ASSUME Withdrawn, ddr = "read_cl"
      PROVE  Withdrawn'
  <2>. USE DEF M_DSP_0, M_DSP_1, M_VGA, M_DEBUG, M_ETH
  <2>1. sd_state = "wb_s_idle" /\ active_wb_master = M_DEBUG /\ VgaOn /\ ddr' = "read_data"
    BY <1>7, SdramMoves DEF Withdrawn
  <2>2. CASE wb_cyc_o_w
    <3>1. active_wb_master' = M_DEBUG
      BY <2>1, <2>2 DEF Clock, Arbiter
    <3>2. dbg_cyc /\ wb_adr_o_w = dbg_adr /\ wb_we_o_w = dbg_we
      BY <2>1, <2>2 DEF wb_cyc_o_w, wb_adr_o_w, wb_we_o_w, Cyc, Adr, We
    <3>3. wb_adr_o_w.slave = "sdram" => wb_we_o_w
      BY <2>1, <3>2 DEF Ports, TypeOK
    <3>4. sd_state' \in {"wb_s_idle", "wb_s_write"}
      BY <2>1, <3>3, SdramMoves
    <3>. QED
      BY <2>1, <3>1, <3>4 DEF Withdrawn
  <2>3. CASE ~wb_cyc_o_w
    <3>1. active_wb_master' = M_ETH
      BY <2>1, <2>3, Rotation DEF Clock, Arbiter
    <3>2. sd_state' = "wb_s_idle"
      BY <2>1, <2>3, SdramMoves
    <3>. QED
      BY <2>1, <3>1, <3>2 DEF Withdrawn
  <2>. QED
    BY <2>2, <2>3
<1>8. DdrSide'
  <2>1. CASE ddr = "ready" /\ go /\ sd_state \in {"wb_s_read", "wb_s_write"}
    <3>1. /\ ddr' = IF sd_state = "wb_s_write" THEN "write_data"
                    ELSE IF early THEN "read_cl" ELSE "read_cmd"
          /\ burst_addr' = wb_adr_o_w'
          /\ sd_state = "wb_s_read" => sd_state' = "wb_s_read"
          /\ sd_state = "wb_s_write" => sd_state' = IF early' THEN "wb_s_ack" ELSE "wb_s_write"
      <4>1. wb_cyc_o_w /\ wb_adr_o_w' = wb_adr_o_w
        BY <1>2, <1>4, <2>1
      <4>2. /\ ddr' = IF sd_state = "wb_s_write" THEN "write_data"
                      ELSE IF early THEN "read_cl" ELSE "read_cmd"
            /\ burst_addr' = wb_adr_o_w /\ early' = early
        BY <2>1, <4>1, SdramMoves
      <4>3. /\ sd_state = "wb_s_read" => sd_state' = "wb_s_read"
            /\ sd_state = "wb_s_write" => sd_state' = IF early THEN "wb_s_ack" ELSE "wb_s_write"
        BY <2>1, <4>1, SdramMoves
      <4>. QED
        BY <4>1, <4>2, <4>3
    <3>. QED
      BY <1>4, <1>5, <2>1, <3>1 DEF DdrSide
  <2>2. CASE ~(ddr = "ready" /\ go /\ sd_state \in {"wb_s_read", "wb_s_write"})
    <3>1. /\ ddr' \in {"read_cmd", "read_cl", "read_data"} => ddr \in {"read_cmd", "read_cl"}
          /\ ddr' # "write_data" /\ burst_addr' = burst_addr
      BY <2>2, SdramMoves
    <3>2. CASE ddr \in {"read_cmd", "read_cl"} /\ ~Withdrawn
      <4>1. sd_state = "wb_s_read" /\ burst_addr = wb_adr_o_w
        BY <1>5, <3>2 DEF DdrSide
      <4>2. sd_state' = "wb_s_read" /\ wb_adr_o_w' = wb_adr_o_w
        BY <1>2, <1>4, <3>2, <4>1, SdramMoves
      <4>. QED
        BY <3>1, <4>1, <4>2 DEF DdrSide
    <3>3. CASE ddr \in {"read_cmd", "read_cl"} /\ Withdrawn
      <4>1. ddr = "read_cl"
        BY <3>3 DEF Withdrawn
      <4>. QED
        BY <1>7, <3>1, <3>3, <4>1 DEF DdrSide
    <3>. QED
      BY <3>1, <3>2, <3>3 DEF DdrSide
  <2>. QED
    BY <2>1, <2>2
<1>. QED
  BY <1>6, <1>8

LEMMA SdramStep ==
  ASSUME TypeOK, Ports, Cores, BootsInTurn, AfterAnswer, RamSide, SdramSide, DdrSide,
         NEW go \in BOOLEAN, Clock(go)
  PROVE  SdramSide' /\ DdrSide'
BY SdramVgaStep, SdramOtherStep

(* The word of an answered read is on the bus ...                                        *)
LEMMA AnswerIsWord ==
  ASSUME RamSide, SdramSide, wb_ack_i_w, Takes(active_wb_master), ~wb_we_o_w
  PROVE  wb_dat_i_w = wb_adr_o_w
BY DEF RamSide, SdramSide, Driven, wb_ack_i_w, wb_dat_i_w, Sd!wb_ack_o

(* ... and stays there as long as the address does, unless the data of a withdrawn       *)
(* read comes late to a master that does not wait for an acknowledge.                     *)
LEMMA WordStays ==
  ASSUME SdramSide, DdrSide, NEW go \in BOOLEAN, Clock(go), ~VgaHas,
         wb_cyc_o_w, wb_dat_i_w = wb_adr_o_w, wb_adr_o_w' = wb_adr_o_w,
         asks \/ Withdrawn => wb_ack_i_w
  PROVE  wb_dat_i_w' = wb_adr_o_w'
<1>. Sdram(go) /\ Ram
  BY DEF Clock
<1>1. wb_adr_o_w.slave = "ram" => ram_dat' = wb_adr_o_w
  BY DEF Ram, Selected
<1>2. CASE wb_adr_o_w.slave \in {"sdram", "sdram_high"}
  <2>1. wb_ack_i_w <=> sd_state = "wb_s_ack"
    BY <1>2 DEF wb_ack_i_w, Sd!wb_ack_o
  <2>2. ~Withdrawn
    BY <2>1 DEF Withdrawn
  <2>3. ddr # "read_data"
    BY <2>1, <2>2 DEF DdrSide, SdramSide
  <2>4. sd_dat' = sd_dat
    BY <2>3 DEF Sdram, Sd!SdramCycle, Sd!Ddr, Sd!rd_ack
  <2>. QED
    BY <1>2, <2>4 DEF wb_dat_i_w
<1>3. CASE wb_adr_o_w.slave \notin {"sdram", "sdram_high"}
  BY <1>1, <1>3 DEF wb_dat_i_w
<1>. QED
  BY <1>2, <1>3

(* The word the debug port reads is still on the bus one cycle after its acknowledge.  *)
LEMMA DebugReadStep ==
  ASSUME BusRules, TypeOK, Ports, Cores, BootsInTurn, AfterAnswer, RamSide, SdramSide, DdrSide,
         NEW go \in BOOLEAN, Clock(go)
  PROVE  DebugReadsOwn'
<1>. SUFFICES ASSUME dbg_state' = "WB_READ_2"
              PROVE  active_wb_master' = M_DEBUG /\ wb_dat_i_w' = dbg_adr'
  BY DEF DebugReadsOwn
<1>. USE DEF M_DSP_0, M_DSP_1, M_VGA, M_DEBUG, M_ETH
<1>. Debug /\ Answers
  BY AnswersLemma DEF Clock
<1>1. dbg_state = "WB_READ_1" /\ Ack(M_DEBUG) /\ dbg_adr' = dbg_adr
  BY DEF Debug, DebugCommand, DebugAsk, DebugRelease, dbgVars
<1>2. /\ active_wb_master = M_DEBUG /\ wb_ack_i_w /\ Takes(active_wb_master)
      /\ wb_cyc_o_w = dbg_cyc /\ wb_adr_o_w = dbg_adr /\ wb_we_o_w = dbg_we
  BY <1>1 DEF Ack, Takes, wb_cyc_o_w, wb_adr_o_w, wb_we_o_w, Cyc, Adr, We
<1>3. wb_cyc_o_w /\ ~wb_we_o_w /\ ~VgaHas
  BY <1>1, <1>2 DEF Answers, VgaHas, Ports
<1>4. active_wb_master' = M_DEBUG
  BY <1>2, <1>3, BusMoves
<1>5. wb_adr_o_w' = dbg_adr
  BY <1>1, <1>4 DEF wb_adr_o_w, Adr
<1>6. wb_dat_i_w = wb_adr_o_w
  BY <1>2, <1>3, AnswerIsWord
<1>. QED
  BY <1>1, <1>2, <1>3, <1>4, <1>5, <1>6, WordStays

----------------------------------------------------------------------------
(* BusInv holds in every state.                                                  *)
LEMMA BusInit ==
  ASSUME BusRules, Init
  PROVE  BusInv
<1>. USE DEF M_DSP_0, M_DSP_1, M_VGA, M_DEBUG, M_ETH, Masters
<1>1. P0!TypeOK
  <2>1. P0!Init
    BY DEF Init, D0!Reset, P0!Init, P0!Reset, D0!Empty, P0!Empty, D0!NoRequest, P0!NoRequest
  <2>. QED
    BY <2>1, P0!InitTypes, Assumption0
<1>2. P1!TypeOK
  <2>1. P1!Init
    BY DEF Init, D1!Reset, P1!Init, P1!Reset, D1!Empty, P1!Empty, D1!NoRequest, P1!NoRequest
  <2>. QED
    BY <2>1, P1!InitTypes, Assumption1
<1>3. /\ active_wb_master = M_DSP_0 /\ reset_ctrl = {}
      /\ state_0 = "wb_m_burst" /\ ~cyc_0 /\ adr_0 = BootBurst.adr /\ flags_0 = BootBurst.flags
      /\ state_1 = "wb_m_burst" /\ ~cyc_1 /\ adr_1 = BootBurst.adr /\ flags_1 = BootBurst.flags
      /\ vga_state = "m_s_idle" /\ vga_cyc = FALSE
      /\ dbg_state = "WB_IDLE" /\ dbg_cyc = FALSE /\ dbg_we = FALSE
      /\ eth_state = "m_s_idle" /\ eth_cyc = FALSE
      /\ ram_state = "wb_idle_s" /\ ram_ack = FALSE
      /\ sd_state = "wb_s_idle" /\ ddr = "ready" /\ early \in BOOLEAN
  BY DEF Init, D0!Reset, D1!Reset, Sd!SdramInit
<1>4. TypeOK
  BY <1>1, <1>2, <1>3 DEF TypeOK
<1>5. Ports
  BY <1>3 DEF Ports
<1>6. Cores
  BY <1>3 DEF Cores, P0!Request, P1!Request, RamUse
<1>7. BootsInTurn
  BY <1>3 DEF BootsInTurn, Boots0, Boots1
<1>8. \A m \in Masters : ~Cyc(m)
  BY <1>3 DEF Cyc
<1>9. ~wb_cyc_o_w
  BY <1>3, <1>8 DEF wb_cyc_o_w
<1>10. ~Takes(active_wb_master)
  BY <1>3 DEF Takes
<1>. QED
  BY <1>3, <1>4, <1>5, <1>6, <1>7, <1>8, <1>9, <1>10
     DEF BusInv, AfterAnswer, RamSide, SdramSide, DdrSide, Driven, DebugReadsOwn

LEMMA BusStep ==
  ASSUME BusRules, BusInv, Next, OneAtATime
  PROVE  BusInv'
<1>. PICK go \in BOOLEAN : Clock(go)
  BY DEF Next
<1>. /\ TypeOK /\ Ports /\ Cores /\ BootsInTurn /\ AfterAnswer
     /\ RamSide /\ SdramSide /\ DdrSide /\ DebugReadsOwn /\ Answers
  BY AnswersLemma DEF BusInv
<1>. QED
  BY TypesStep, BootsStep, BusMoves, RamStep, SdramStep, DebugReadStep DEF BusInv

LEMMA BusStutter ==
  ASSUME BusInv, UNCHANGED vars
  PROVE  BusInv'
<1>. USE DEF vars, vars0, vars1, vgaVars, dbgVars, ethVars, slaveVars
<1>1. TypeOK' /\ Ports' /\ Cores' /\ BootsInTurn'
  <2>1. P0!TypeOK' /\ P1!TypeOK'
    BY DEF BusInv, TypeOK, P0!TypeOK, P1!TypeOK
  <2>2. TypeOK' /\ Ports'
    BY <2>1 DEF BusInv, TypeOK, Ports
  <2>3. Cores'
    BY DEF BusInv, Cores, P0!Request, P1!Request, RamUse
  <2>4. BootsInTurn'
    BY DEF BusInv, BootsInTurn, Boots0, Boots1
  <2>. QED
    BY <2>2, <2>3, <2>4
<1>2. AfterAnswer'
  BY DEF BusInv, AfterAnswer, Cyc, Takes
<1>3. /\ wb_cyc_o_w' = wb_cyc_o_w /\ wb_adr_o_w' = wb_adr_o_w /\ wb_we_o_w' = wb_we_o_w
      /\ Takes(active_wb_master)' = Takes(active_wb_master)
      /\ wb_dat_i_w' = wb_dat_i_w /\ Boots1' = Boots1
  BY DEF wb_cyc_o_w, wb_adr_o_w, wb_we_o_w, Cyc, Adr, We, Takes, wb_dat_i_w, Boots1
<1>4. RamSide' /\ SdramSide' /\ DdrSide' /\ DebugReadsOwn'
  BY <1>3 DEF BusInv, RamSide, SdramSide, DdrSide, DebugReadsOwn,
              asks, VgaHas, Driven, Withdrawn
<1>. QED
  BY <1>1, <1>2, <1>4 DEF BusInv

(* In every state of a system that keeps BusRules, under a host that boots one core    *)
(* at a time: where each access is on its way through masters, arbiter and slaves.     *)
THEOREM BusInvHolds == ASSUME BusRules PROVE InTurnSpec => []BusInv
<1>1. Init => BusInv
  BY BusInit
<1>2. BusInv /\ [Next /\ OneAtATime]_vars => BusInv'
  BY BusStep, BusStutter
<1>. QED
  BY <1>1, <1>2, PTL DEF InTurnSpec

(* No answer comes to the wrong access: when a memory acknowledges a waiting master,    *)
(* the access it has performed is the one that master drives (wb_ram.v 67-90,            *)
(* wb_sdram_ctrl.v 141-212 behind the arbiter of soc_top.v 403-568).                       *)
THEOREM SocAnswers == ASSUME BusRules PROVE InTurnSpec => []AnswersOwn
<1>1. BusInv => AnswersOwn
  BY DEF BusInv, AnswersOwn, RamSide, SdramSide, Driven, wb_ack_i_w, wb_adr_o_w, Sd!wb_ack_o
<1>. QED
  BY <1>1, BusInvHolds, PTL

(* Each word a core or the frame buffer reads in a burst, boot code among them, is the   *)
(* word at the address it drives, whoever had the bus in its back-offs.                   *)
THEOREM SocBursts == ASSUME BusRules PROVE InTurnSpec => []BurstWordsOwn
<1>1. BusInv => BurstWordsOwn
  <2>. SUFFICES ASSUME BusInv, wb_ack_i_w, ~wb_we_o_w,
                       \/ active_wb_master = M_DSP_0 /\ state_0 = "wb_m_burst_1"
                       \/ active_wb_master = M_DSP_1 /\ state_1 = "wb_m_burst_1"
                       \/ active_wb_master = M_VGA /\ vga_state = "m_s_begin_burst"
                PROVE  wb_dat_i_w = Adr(active_wb_master)
    BY DEF BurstWordsOwn
  <2>1. Takes(active_wb_master)
    BY DEF Takes, M_DSP_0, M_DSP_1, M_VGA, M_DEBUG, M_ETH
  <2>. QED
    BY <2>1, AnswerIsWord DEF BusInv, wb_adr_o_w
<1>. QED
  BY <1>1, BusInvHolds, PTL

(* The debug host reads the word it asked for, although wb_debug.v samples the shared   *)
(* bus one cycle after the acknowledge (wb_debug.v 219-238).                               *)
THEOREM SocDebugReads == ASSUME BusRules PROVE InTurnSpec => []DebugReadsOwn
<1>1. BusInv => DebugReadsOwn
  BY DEF BusInv
<1>. QED
  BY <1>1, BusInvHolds, PTL

(* While the SDRAM takes the data of a write, the bus still shows that write: the early *)
(* acknowledge of an odd clock phase lets nobody in before.                               *)
THEOREM SocWrites == ASSUME BusRules PROVE InTurnSpec => []WritesOwn
<1>1. BusInv => WritesOwn
  BY VgaAccess DEF BusInv, WritesOwn, SdramSide, DdrSide, TypeOK, asks, VgaHas
<1>. QED
  BY <1>1, BusInvHolds, PTL

----------------------------------------------------------------------------
(* Loads over the shared bus.                                                    *)

(* DspOnBus!Prudent for the programs of both cores.                               *)
Prudent0 == P0!clk_en => P0!Prudent(stage0_0')
Prudent1 == P1!clk_en => P1!Prudent(stage0_1')
PrudentSpec == Init /\ [][Next /\ OneAtATime /\ Prudent0 /\ Prudent1]_vars

LEMMA LoadsStep0 ==
  ASSUME BusRules, BusInv, Loads0, NEW go \in BOOLEAN, Clock(go), BusInv',
         Prudent0
  PROVE  Loads0'
<1>. USE DEF M_DSP_0, M_DSP_1, M_VGA, M_DEBUG, M_ETH
<1>. /\ TypeOK /\ Ports /\ Cores /\ BootsInTurn /\ AfterAnswer /\ RamSide /\ SdramSide /\ DdrSide
     /\ Arbiter /\ Dsp0 /\ Answers /\ P0!TypeOK
  BY AnswersLemma DEF BusInv, Clock, TypeOK
<1>1. CASE M_DSP_0 \notin reset_ctrl
  <2>1. PICK o \in BOOLEAN : (active_wb_master' = M_DSP_0) = o
    OBVIOUS
  <2>2. P0!Handshake' /\ state_0' = "wb_m_burst" /\ ~ack_0'
    BY <1>1, <2>1, Core0, P0!ResetStep, Assumption0
  <2>. QED
    BY <2>2 DEF Loads0, P0!Shown, P0!Loading
<1>2. CASE M_DSP_0 \in reset_ctrl
  <2>1. Ack(M_DSP_0) \in BOOLEAN /\ P0!Cycle(Ack(M_DSP_0), wb_dat_i_w) /\ P0!Grant
    BY <1>2, Core0
  <2>2. /\ Cyc(M_DSP_0) = cyc_0
        /\ Takes(M_DSP_0) <=> P0!Waiting
        /\ active_wb_master = M_DSP_0 =>
             wb_cyc_o_w = cyc_0 /\ wb_adr_o_w = adr_0 /\ wb_we_o_w = we_0
        /\ active_wb_master' = M_DSP_0 => wb_adr_o_w' = adr_0'
    BY DEF Cyc, Takes, P0!Waiting, wb_cyc_o_w, wb_adr_o_w, wb_we_o_w, Adr, We
  <2>3. P0!Answered(Ack(M_DSP_0))
    BY <2>2 DEF P0!Answered, Ack, Answers, VgaHas
  <2>4. P0!Handshake'
    BY <2>1, <2>3, P0!HandshakeStep, Assumption0 DEF Loads0, Prudent0
  <2>5. ASSUME active_wb_master' = M_DSP_0, P0!Loading'
        PROVE  wb_dat_i_w' = adr_0'
    <3>1. /\ adr_0' = adr_0
          /\ (state_0 = "wb_m_read" /\ Ack(M_DSP_0)) \/ state_0 = "wb_m_read_ack"
      BY <2>1, <2>5, P0!LoadingStep, Assumption0 DEF Loads0
    <3>2. active_wb_master = M_DSP_0 /\ cyc_0 /\ ~we_0
      <4>1. CASE state_0 = "wb_m_read" /\ Ack(M_DSP_0)
        BY <2>2, <4>1 DEF Ack, Answers, VgaHas, P0!Waiting, P0!Request, Cores
      <4>2. CASE state_0 = "wb_m_read_ack"
        <5>1. cyc_0 /\ ~we_0
          BY <4>2 DEF P0!Request, Cores
        <5>2. Cyc(M_DSP_0) /\ ~Takes(M_DSP_0)
          BY <2>2, <4>2, <5>1 DEF P0!Waiting
        <5>. QED
          BY <5>1, <5>2 DEF AfterAnswer, Masters
      <4>. QED
        BY <3>1, <4>1, <4>2
    <3>3. wb_dat_i_w = wb_adr_o_w
      <4>1. CASE state_0 = "wb_m_read" /\ Ack(M_DSP_0)
        BY <2>2, <3>2, <4>1, AnswerIsWord DEF Ack, P0!Waiting
      <4>2. CASE state_0 = "wb_m_read_ack"
        BY <2>2, <3>2, <4>2 DEF Loads0, P0!Shown, P0!Loading
      <4>. QED
        BY <3>1, <4>1, <4>2
    <3>4. (asks \/ Withdrawn => wb_ack_i_w) /\ ~VgaHas
      BY <2>2, <3>1, <3>2 DEF asks, Ack, P0!Waiting, Withdrawn, VgaHas
    <3>. QED
      BY <2>2, <2>5, <3>1, <3>2, <3>3, <3>4, WordStays
  <2>. QED
    BY <2>4, <2>5 DEF Loads0, P0!Shown
<1>. QED
  BY <1>1, <1>2

LEMMA LoadsStep1 ==
  ASSUME BusRules, BusInv, Loads1, NEW go \in BOOLEAN, Clock(go), BusInv',
         Prudent1
  PROVE  Loads1'
<1>. USE DEF M_DSP_0, M_DSP_1, M_VGA, M_DEBUG, M_ETH
<1>. /\ TypeOK /\ Ports /\ Cores /\ BootsInTurn /\ AfterAnswer /\ RamSide /\ SdramSide /\ DdrSide
     /\ Arbiter /\ Dsp1 /\ Answers /\ P1!TypeOK
  BY AnswersLemma DEF BusInv, Clock, TypeOK
<1>1. CASE M_DSP_1 \notin reset_ctrl
  <2>1. PICK o \in BOOLEAN : (active_wb_master' = M_DSP_1) = o
    OBVIOUS
  <2>2. P1!Handshake' /\ state_1' = "wb_m_burst" /\ ~ack_1'
    BY <1>1, <2>1, Core1, P1!ResetStep, Assumption1
  <2>. QED
    BY <2>2 DEF Loads1, P1!Shown, P1!Loading
<1>2. CASE M_DSP_1 \in reset_ctrl
  <2>1. Ack(M_DSP_1) \in BOOLEAN /\ P1!Cycle(Ack(M_DSP_1), wb_dat_i_w) /\ P1!Grant
    BY <1>2, Core1
  <2>2. /\ Cyc(M_DSP_1) = cyc_1
        /\ Takes(M_DSP_1) <=> P1!Waiting
        /\ active_wb_master = M_DSP_1 =>
             wb_cyc_o_w = cyc_1 /\ wb_adr_o_w = adr_1 /\ wb_we_o_w = we_1
        /\ active_wb_master' = M_DSP_1 => wb_adr_o_w' = adr_1'
    BY DEF Cyc, Takes, P1!Waiting, wb_cyc_o_w, wb_adr_o_w, wb_we_o_w, Adr, We
  <2>3. P1!Answered(Ack(M_DSP_1))
    BY <2>2 DEF P1!Answered, Ack, Answers, VgaHas
  <2>4. P1!Handshake'
    BY <2>1, <2>3, P1!HandshakeStep, Assumption1 DEF Loads1, Prudent1
  <2>5. ASSUME active_wb_master' = M_DSP_1, P1!Loading'
        PROVE  wb_dat_i_w' = adr_1'
    <3>1. /\ adr_1' = adr_1
          /\ (state_1 = "wb_m_read" /\ Ack(M_DSP_1)) \/ state_1 = "wb_m_read_ack"
      BY <2>1, <2>5, P1!LoadingStep, Assumption1 DEF Loads1
    <3>2. active_wb_master = M_DSP_1 /\ cyc_1 /\ ~we_1
      <4>1. CASE state_1 = "wb_m_read" /\ Ack(M_DSP_1)
        BY <2>2, <4>1 DEF Ack, Answers, VgaHas, P1!Waiting, P1!Request, Cores
      <4>2. CASE state_1 = "wb_m_read_ack"
        <5>1. cyc_1 /\ ~we_1
          BY <4>2 DEF P1!Request, Cores
        <5>2. Cyc(M_DSP_1) /\ ~Takes(M_DSP_1)
          BY <2>2, <4>2, <5>1 DEF P1!Waiting
        <5>. QED
          BY <5>1, <5>2 DEF AfterAnswer, Masters
      <4>. QED
        BY <3>1, <4>1, <4>2
    <3>3. wb_dat_i_w = wb_adr_o_w
      <4>1. CASE state_1 = "wb_m_read" /\ Ack(M_DSP_1)
        BY <2>2, <3>2, <4>1, AnswerIsWord DEF Ack, P1!Waiting
      <4>2. CASE state_1 = "wb_m_read_ack"
        BY <2>2, <3>2, <4>2 DEF Loads1, P1!Shown, P1!Loading
      <4>. QED
        BY <3>1, <4>1, <4>2
    <3>4. (asks \/ Withdrawn => wb_ack_i_w) /\ ~VgaHas
      BY <2>2, <3>1, <3>2 DEF asks, Ack, P1!Waiting, Withdrawn, VgaHas
    <3>. QED
      BY <2>2, <2>5, <3>1, <3>2, <3>3, <3>4, WordStays
  <2>. QED
    BY <2>4, <2>5 DEF Loads1, P1!Shown
<1>. QED
  BY <1>1, <1>2

(* An ldext32 on either core loads the word of its own address, over the real bus: for   *)
(* every pair of prudent programs, with the other masters and slaves as they are.          *)
THEOREM SocLoads == ASSUME BusRules PROVE PrudentSpec => []LoadsOwn
<1>1. PrudentSpec => InTurnSpec
  BY PTL DEF PrudentSpec, InTurnSpec
<1>2. Init => Loads0 /\ Loads1
  <2>. SUFFICES ASSUME Init PROVE Loads0 /\ Loads1
    OBVIOUS
  <2>1. P0!Init /\ ~ack_0 /\ state_0 = "wb_m_burst"
    BY DEF Init, D0!Reset, P0!Init, P0!Reset, D0!Empty, P0!Empty, D0!NoRequest, P0!NoRequest
  <2>2. P1!Init /\ ~ack_1 /\ state_1 = "wb_m_burst"
    BY DEF Init, D1!Reset, P1!Init, P1!Reset, D1!Empty, P1!Empty, D1!NoRequest, P1!NoRequest
  <2>3. P0!Handshake /\ P1!Handshake
    BY <2>1, <2>2, P0!InitHandshake, P1!InitHandshake, Assumption0, Assumption1
  <2>. QED
    BY <2>1, <2>2, <2>3 DEF Loads0, Loads1, P0!Shown, P1!Shown, P0!Loading, P1!Loading
<1>3. BusInv /\ BusInv' /\ Loads0 /\ Loads1 /\ [Next /\ OneAtATime /\ Prudent0 /\ Prudent1]_vars
        => Loads0' /\ Loads1'
  <2>1. BusInv /\ BusInv' /\ Loads0 /\ Loads1 /\ Next /\ Prudent0 /\ Prudent1
          => Loads0' /\ Loads1'
    BY LoadsStep0, LoadsStep1 DEF Next
  <2>2. Loads0 /\ Loads1 /\ UNCHANGED vars => Loads0' /\ Loads1'
    <3>. SUFFICES ASSUME Loads0, Loads1, UNCHANGED vars PROVE Loads0' /\ Loads1'
      OBVIOUS
    <3>. USE DEF vars, vars0, vars1, vgaVars, dbgVars, ethVars, slaveVars
    <3>1. wb_dat_i_w' = wb_dat_i_w
      BY DEF wb_dat_i_w, wb_adr_o_w, Adr
    <3>2. P0!Handshake' /\ P1!Handshake'
      BY DEF Loads0, Loads1, P0!Handshake, P0!StallIsOwed, P0!PortIsFree, P0!LoadOnItsWay,
             P0!NoStrayAck, P0!JustStarted, P0!WaitsFor, P0!Waited, P0!NowaitBurst, P0!Busy,
             P0!Bursting, P0!SharesPort, P0!clk_en, P0!dmem_stall_req, P0!req,
             P1!Handshake, P1!StallIsOwed, P1!PortIsFree, P1!LoadOnItsWay,
             P1!NoStrayAck, P1!JustStarted, P1!WaitsFor, P1!Waited, P1!NowaitBurst, P1!Busy,
             P1!Bursting, P1!SharesPort, P1!clk_en, P1!dmem_stall_req, P1!req
    <3>. QED
      BY <3>1, <3>2 DEF Loads0, Loads1, P0!Shown, P1!Shown, P0!Loading, P1!Loading
  <2>. QED
    BY <2>1, <2>2
<1>4. Loads0 /\ Loads1 => LoadsOwn
  <2>1. P0!Handshake => D0!LoadGetsItsWord
    BY DEF P0!Handshake, P0!LoadOnItsWay, D0!LoadGetsItsWord, D0!clk_en, P0!clk_en,
           D0!dmem_stall_req, P0!dmem_stall_req
  <2>2. P1!Handshake => D1!LoadGetsItsWord
    BY DEF P1!Handshake, P1!LoadOnItsWay, D1!LoadGetsItsWord, D1!clk_en, P1!clk_en,
           D1!dmem_stall_req, P1!dmem_stall_req
  <2>. QED
    BY <2>1, <2>2 DEF Loads0, Loads1, LoadsOwn
<1>. QED
  BY <1>1, <1>2, <1>3, <1>4, BusInvHolds, PTL DEF PrudentSpec

(* The programs of the runs: they wait for each of their bursts, and need no other       *)
(* discipline.                                                                             *)
Awaited == \A r \in Requests0 \cup Requests1 : r.op = "burst" => "nowait" \notin r.flags

LEMMA AwaitedStep0 ==
  ASSUME Awaited, TypeOK, Arbiter, Dsp0, "nowait" \notin flags_0
  PROVE  "nowait" \notin flags_0' /\ Prudent0
<1>. P0!TypeOK
  BY DEF TypeOK
<1>1. CASE M_DSP_0 \in reset_ctrl
  <2>1. Ack(M_DSP_0) \in BOOLEAN /\ P0!Cycle(Ack(M_DSP_0), wb_dat_i_w)
    BY <1>1, Core0
  <2>2. "nowait" \notin flags_0'
    BY <2>1, P0!FlagsStep, Assumption0 DEF Awaited
  <2>3. P0!clk_en => ~stage0_0'.lsu_1
    BY <2>1 DEF P0!Cycle, P0!Pipeline, P0!Packets
  <2>. QED
    BY <2>2, <2>3, P0!PrudentStep, Assumption0 DEF Prudent0
<1>2. CASE M_DSP_0 \notin reset_ctrl
  <2>1. flags_0' = BootBurst.flags /\ ~stage0_0'.lsu_1
    BY <1>2, Core0 DEF P0!HeldInReset, P0!Empty
  <2>2. "nowait" \notin flags_0'
    BY <2>1 DEF BootBurst
  <2>. QED
    BY <2>1, <2>2, P0!PrudentStep, Assumption0 DEF Prudent0
<1>. QED
  BY <1>1, <1>2

LEMMA AwaitedStep1 ==
  ASSUME Awaited, TypeOK, Arbiter, Dsp1, "nowait" \notin flags_1
  PROVE  "nowait" \notin flags_1' /\ Prudent1
<1>. P1!TypeOK
  BY DEF TypeOK
<1>1. CASE M_DSP_1 \in reset_ctrl
  <2>1. Ack(M_DSP_1) \in BOOLEAN /\ P1!Cycle(Ack(M_DSP_1), wb_dat_i_w)
    BY <1>1, Core1
  <2>2. "nowait" \notin flags_1'
    BY <2>1, P1!FlagsStep, Assumption1 DEF Awaited
  <2>3. P1!clk_en => ~stage0_1'.lsu_1
    BY <2>1 DEF P1!Cycle, P1!Pipeline, P1!Packets
  <2>. QED
    BY <2>2, <2>3, P1!PrudentStep, Assumption1 DEF Prudent1
<1>2. CASE M_DSP_1 \notin reset_ctrl
  <2>1. flags_1' = BootBurst.flags /\ ~stage0_1'.lsu_1
    BY <1>2, Core1 DEF P1!HeldInReset, P1!Empty
  <2>2. "nowait" \notin flags_1'
    BY <2>1 DEF BootBurst
  <2>. QED
    BY <2>1, <2>2, P1!PrudentStep, Assumption1 DEF Prudent1
<1>. QED
  BY <1>1, <1>2

(* Programs without nowait bursts are prudent, so their loads get their words.            *)
THEOREM SocAwaitedLoads == ASSUME BusRules, Awaited PROVE InTurnSpec => []LoadsOwn
<1>. DEFINE Flags == "nowait" \notin flags_0 /\ "nowait" \notin flags_1
<1>1. Init => Flags
  BY DEF Init, D0!Reset, D1!Reset, BootBurst
<1>2. BusInv /\ Flags /\ [Next /\ OneAtATime]_vars =>
        Flags' /\ [Next /\ OneAtATime /\ Prudent0 /\ Prudent1]_vars
  <2>1. BusInv /\ Flags /\ Next => Flags' /\ Prudent0 /\ Prudent1
    BY AwaitedStep0, AwaitedStep1 DEF Next, Clock, BusInv
  <2>2. Flags /\ UNCHANGED vars => Flags'
    BY DEF vars, vars0, vars1
  <2>. QED
    BY <2>1, <2>2
<1>3. InTurnSpec => PrudentSpec
  BY <1>1, <1>2, BusInvHolds, PTL DEF InTurnSpec, PrudentSpec
<1>. QED
  BY <1>3, SocLoads, PTL

=============================================================================
