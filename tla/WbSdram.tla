------------------------------ MODULE WbSdram ------------------------------
(* The external memory as a bus slave: the handshake FSM of wb_sdram_ctrl.v    *)
(* (40 MHz) and the accesses of sdram_ctrl.v (clocked twice as fast), counted   *)
(* in bus cycles.  An access that sdram_ctrl has accepted runs to its end even   *)
(* when the request behind it is withdrawn.  A step is one edge of the bus        *)
(* clock; data is abstracted to the address it belongs to.                        *)
CONSTANT NoAddress

VARIABLES
    state_r,      \* wb_sdram_ctrl.v
    ddr,          \* sdram_ctrl.v: "ready" is s_row_active, and every state on the way to it
    early,        \* clk_edge_odd is low in the first half of a bus cycle
    burst_addr,   \* the address sdram_ctrl latched with the access it accepted
    read_data_r

sdramVars == <<state_r, ddr, early, burst_addr, read_data_r>>

SdramInit ==
    /\ state_r = "wb_s_idle" /\ ddr = "ready" /\ early \in BOOLEAN
    /\ burst_addr = NoAddress /\ read_data_r = NoAddress

wb_ack_o == state_r = "wb_s_ack"
rd_req(cyc) == state_r = "wb_s_read" /\ cyc
wr_req(cyc) == state_r = "wb_s_write" /\ cyc

(* s_row_active: a request is taken when the row is open, no refresh is due (both  *)
(* abstracted to the choice go), and clk_edge_odd is low.                           *)
Accepts(cyc, go) == go /\ ddr = "ready" /\ (rd_req(cyc) \/ wr_req(cyc))

rd_ack == ddr = "read_data"
wr_ack(cyc, go) == IF early THEN Accepts(cyc, go) /\ wr_req(cyc) ELSE ddr = "write_data"

(* Bus cycles of an access.  Accepted in the second half of a cycle: read command,  *)
(* CAS latency, data; or write command and data.  Accepted in the first half: the    *)
(* read data comes one cycle earlier, and a write is acknowledged in the same cycle.  *)
AfterAccept(cyc) ==
    IF wr_req(cyc) THEN "write_data"
    ELSE IF early THEN "read_cl" ELSE "read_cmd"

Ddr(cyc, adr, go) ==
    /\ ddr' = IF Accepts(cyc, go) THEN AfterAccept(cyc)
              ELSE CASE ddr = "read_cmd"  -> "read_cl"
                     [] ddr = "read_cl"   -> "read_data"
                     [] rd_ack /\ early   -> "read_wait_0"
                     [] OTHER             -> "ready"
    /\ burst_addr' = IF Accepts(cyc, go) THEN adr ELSE burst_addr
    /\ read_data_r' = IF rd_ack THEN burst_addr ELSE read_data_r
    /\ UNCHANGED early

(* Only addresses with adr[31:28] = 0 leave idle. *)
SdramIdle(cyc, we, adr) ==
    /\ state_r = "wb_s_idle"
    /\ state_r' = IF cyc /\ adr.slave = "sdram"
                  THEN IF we THEN "wb_s_write" ELSE "wb_s_read"
                  ELSE "wb_s_idle"

SdramAccess(cyc, go) ==
    /\ state_r \in {"wb_s_read", "wb_s_write"}
    /\ state_r' = IF ~cyc THEN "wb_s_idle"
                  ELSE IF (rd_req(cyc) /\ rd_ack) \/ (wr_req(cyc) /\ wr_ack(cyc, go))
                  THEN "wb_s_ack" ELSE state_r

(* Mutant of SdramAck: an incrementing master writes on without the idle cycle. *)
SdramAckStreaming(cti_incr) ==
    \/ /\ state_r = "wb_s_ack"
       /\ state_r' = IF cti_incr THEN "wb_s_write" ELSE "wb_s_ack_wait"
    \/ /\ state_r = "wb_s_ack_wait"
       /\ state_r' = "wb_s_idle"

(* Incrementing masters (cti = 3'b010) skip the wait cycle. *)
SdramAck(cti_incr) ==
    \/ /\ state_r = "wb_s_ack"
       /\ state_r' = IF cti_incr THEN "wb_s_idle" ELSE "wb_s_ack_wait"
    \/ /\ state_r = "wb_s_ack_wait"
       /\ state_r' = "wb_s_idle"

SdramCycle(cyc, we, adr, cti_incr, go) ==
    /\ SdramIdle(cyc, we, adr) \/ SdramAccess(cyc, go) \/ SdramAck(cti_incr)
    /\ Ddr(cyc, adr, go)
=============================================================================
