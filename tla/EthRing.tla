------------------------------ MODULE EthRing ------------------------------
(***************************************************************************)
(* The way of received Ethernet words into the ring buffer: the FIFO       *)
(* between the receive clock and the bus clock (async_fifo.v), the bus     *)
(* master behind it (wb_eth_ctrl.v) and the SDRAM slave (WbSdram).  Each   *)
(* clock has an action of its own, so its edges come in any order.         *)
(*                                                                         *)
(* The pointers are Gray coded: an edge moves one bit of one pointer, so   *)
(* comparing them across the clocks never sees a third value, and their    *)
(* upper two bits name the quadrant.  Words are named by their number.     *)
(***************************************************************************)
EXTENDS Integers

CONSTANTS
  Quarter,    \* words of a quadrant, 2^(AW-2) for the FIFO's AW bits of address
  Backlog,    \* most words that wait in the FIFO (wfull is not connected)
  NoAddress   \* of WbSdram

Depth == 4 * Quarter

(* Nothing stops the receiver at a full FIFO: that the bus keeps up with it is the *)
(* assumption on Backlog.                                                           *)
ASSUME EthRingAssumption == Quarter \in Nat \ {0} /\ Backlog \in 0 .. Depth

Numbers == 2 * Depth   \* words are numbered modulo this

VARIABLES
  (* The receiver: the word it writes at the next edge; the next number. *)
  rx_fifo_wr_en, rx_fifo_wr_data, received,
  (* The FIFO. *)
  waddr, raddr, dir, empty_pipe, full_pipe, mem, rdata,
  (* The master. *)
  m_state_r, fifo_ren, m_wb_cyc_o, m_wb_dat_o,
  wp,                  \* r_eth_rx_rb_wp in words
  bus,                 \* the arbiter: the master that has the bus
  (* The slave. *)
  state_r, ddr, early, burst_addr, read_data_r,
  held                 \* history: the words in the FIFO

Sd == INSTANCE WbSdram

rxVars == <<rx_fifo_wr_en, rx_fifo_wr_data, received>>
busVars == <<m_state_r, fifo_ren, m_wb_cyc_o, m_wb_dat_o, wp, bus, state_r, ddr,
             early, burst_addr, read_data_r>>
vars == <<rxVars, waddr, raddr, dir, empty_pipe, full_pipe, mem, rdata, busVars, held>>

Bit(b) == IF b THEN 1 ELSE 0

-----------------------------------------------------------------------------
(* async_fifo.v                                                            *)
Quadrant(p) == p \div Quarter

(* dir is set when the write pointer comes up behind the read pointer, and *)
(* cleared when the read pointer comes up behind the write pointer.        *)
(* Mutant: it is cleared in the quadrant of the write pointer.             *)
DirectionLate(w, r) ==
  IF Quadrant(w) = Quadrant(r) THEN FALSE
  ELSE dir \/ Quadrant(r) = (Quadrant(w) + 1) % 4
Direction(w, r) ==
  IF Quadrant(w) = (Quadrant(r) + 1) % 4 THEN FALSE
  ELSE dir \/ Quadrant(r) = (Quadrant(w) + 1) % 4

empty == waddr = raddr /\ ~dir
full == waddr = raddr /\ dir
rempty == empty_pipe[2]
wfull == full_pipe[2]

(* The flags are set at once, and cleared after two edges of the clock of  *)
(* the side that looks at them.                                            *)
Flag(pipe, set) == IF set THEN <<TRUE, TRUE>> ELSE <<FALSE, pipe[1]>>
Raised(pipe, set) == IF set THEN <<TRUE, TRUE>> ELSE pipe

-----------------------------------------------------------------------------
(* An edge of the receive clock.                                           *)
Receive(arrives) ==
  /\ rx_fifo_wr_en' = arrives
  /\ rx_fifo_wr_data' = IF arrives THEN received ELSE rx_fifo_wr_data
  /\ received' = (received + Bit(arrives)) % Numbers

WriteClock ==
  /\ UNCHANGED <<raddr, rdata, busVars>>
  /\ \E arrives \in BOOLEAN :
       /\ arrives => held + Bit(rx_fifo_wr_en) < Backlog
       /\ Receive(arrives)
  /\ waddr' = (waddr + Bit(rx_fifo_wr_en)) % Depth
  /\ mem' = IF rx_fifo_wr_en THEN [mem EXCEPT ![waddr] = rx_fifo_wr_data] ELSE mem
  /\ dir' = Direction(waddr', raddr)
  /\ full_pipe' = Flag(full_pipe, full \/ full')
  /\ empty_pipe' = Raised(empty_pipe, empty')
  /\ held' = held + Bit(rx_fifo_wr_en)

-----------------------------------------------------------------------------
(* An edge of the bus clock.                                               *)
m_wb_ack_i == bus = "eth" /\ Sd!wb_ack_o

TakeWord ==
  /\ fifo_ren' = TRUE
  /\ m_wb_dat_o' = rdata
  /\ m_wb_cyc_o' = TRUE
  /\ m_state_r' = "m_s_begin_burst"

Rest ==
  /\ fifo_ren' = FALSE
  /\ UNCHANGED <<m_wb_dat_o, m_wb_cyc_o, m_state_r>>

MasterIdle ==
  /\ m_state_r = "m_s_idle"
  /\ UNCHANGED wp
  /\ IF ~rempty THEN TakeWord ELSE Rest

(* Mutant: the request is dropped after each word, the state is not left.  *)
MasterBurstDropped ==
  /\ m_state_r = "m_s_begin_burst"
  /\ IF ~m_wb_ack_i THEN Rest /\ UNCHANGED wp
     ELSE /\ wp' = (wp + 1) % Numbers
          /\ IF ~rempty THEN TakeWord
             ELSE /\ fifo_ren' = FALSE /\ m_wb_cyc_o' = FALSE
                  /\ UNCHANGED <<m_wb_dat_o, m_state_r>>
MasterBurst ==
  /\ m_state_r = "m_s_begin_burst"
  /\ IF ~m_wb_ack_i THEN Rest /\ UNCHANGED wp
     ELSE /\ wp' = (wp + 1) % Numbers
          /\ IF ~rempty THEN TakeWord
             ELSE /\ fifo_ren' = FALSE /\ m_wb_cyc_o' = FALSE
                  /\ m_state_r' = "m_s_idle"
                  /\ UNCHANGED m_wb_dat_o

(* Other masters, when they have the bus, use the RAM; SocBus is about     *)
(* masters that meet at the SDRAM.                                         *)
Arbiter(leave) ==
  bus' = IF bus = "eth" THEN IF m_wb_cyc_o THEN "eth" ELSE "other"
         ELSE IF leave THEN "eth" ELSE "other"

ReadClock(leave, go) ==
  /\ UNCHANGED <<rxVars, waddr, mem>>
  /\ raddr' = (raddr + Bit(fifo_ren)) % Depth
  /\ rdata' = mem[raddr]
  /\ dir' = Direction(waddr, raddr')
  /\ empty_pipe' = Flag(empty_pipe, empty \/ empty')
  /\ full_pipe' = Raised(full_pipe, full')
  /\ held' = held - Bit(fifo_ren)
  /\ MasterIdle \/ MasterBurst
  /\ Arbiter(leave)
  /\ Sd!SdramCycle(bus = "eth" /\ m_wb_cyc_o, TRUE,
                   [slave |-> "sdram", word |-> wp], TRUE, go)

-----------------------------------------------------------------------------
Init ==
  /\ rx_fifo_wr_en = FALSE /\ rx_fifo_wr_data = 0 /\ received = 0
  /\ waddr = 0 /\ raddr = 0 /\ dir = FALSE
  /\ empty_pipe = <<TRUE, TRUE>> /\ full_pipe = <<FALSE, FALSE>>
  /\ mem = [a \in 0 .. Depth - 1 |-> 0] /\ rdata = 0
  /\ m_state_r = "m_s_idle" /\ fifo_ren = FALSE /\ m_wb_cyc_o = FALSE
  /\ m_wb_dat_o = 0 /\ wp = 0 /\ bus = "other"
  /\ Sd!SdramInit
  /\ held = 0

Next == WriteClock \/ \E leave, go \in BOOLEAN : ReadClock(leave, go)

(* Both clocks tick; the other masters leave the bus in the end, and the   *)
(* SDRAM is not refreshed for ever.                                        *)
Spec == Init /\ [][Next]_vars /\ WF_vars(WriteClock) /\ WF_vars(ReadClock(TRUE, TRUE))

-----------------------------------------------------------------------------
(* The flags, each seen from its own clock, never promise too much: a FIFO *)
(* that does not read as empty holds a word, and one that does not read as *)
(* full has room, while both pointers move (async_fifo.v 39-103).          *)
FlagsHonest == (~rempty => held > 0) /\ (~wfull => held < Depth)

(* Each word reaches the ring buffer once and in order: the word written   *)
(* at the write pointer is the one with its number, though the read enable *)
(* is a register and the flag and the data lag behind it.                  *)
RingWordOwn == m_wb_ack_i => m_wb_dat_o = wp

(* Every word received is stored in the end.                               *)
EveryWordStored == \A n \in 0 .. Numbers - 1 : (received = n) ~> (wp = n)
=============================================================================
