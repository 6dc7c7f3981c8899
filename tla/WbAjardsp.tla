----------------------------- MODULE WbAjardsp -----------------------------
(* The bus interface of one AjarDSP core: the Wishbone master FSM of          *)
(* wb_ajardsp.v, the stall handshake of ajardsp_top.v, the two pipeline        *)
(* registers of LSU 0 that hold an external access, and the bank conflict of   *)
(* dmem.v between LSU 1 and a burst.  A step is one clock edge; the bus around  *)
(* the master is the pair (ack, dat) it samples at that edge.                   *)
(* Data is abstracted to the address it was read from.                          *)
EXTENDS Naturals

CONSTANTS
    Requests,   \* the external accesses programs make (ldext32, stext32, extburst)
    Lsu1,       \* subset of BOOLEAN: whether LSU 1 may access dmem in a packet
    BackOff,    \* words between two back-offs of a burst (16 in the code)
    Boot,       \* the burst that reset starts (EXT_BOOT_ADDR, EXT_BOOT_LEN)
    Zero        \* what read_data holds before the first bus cycle

NoRequest == [op |-> "none"]

ASSUME WbAjardspAssumption ==
    /\ BackOff \in Nat \ {0}
    /\ Boot.op = "burst" /\ "nowait" \notin Boot.flags
    /\ \A r \in Requests : r.op \in {"read", "write", "burst"}
    /\ \A r \in Requests \cup {Boot} : r.op = "burst" => r.len \in Nat
    /\ Lsu1 \subseteq BOOLEAN

VARIABLES
    wb_state_r,        \* the FSM of wb_ajardsp.v
    wb_cyc_o,          \* cyc and stb, always equal
    wb_we_o,
    wb_adr_o,
    m_if_burst_len_r,  \* words left in the burst
    burst_flags,       \* m_if_burst_flags_r: "write_ext", "imem", "nowait"
    dmem_en,           \* m_if_dmem_ren | m_if_dmem_wen: the burst owns port B of dmem
    m_if_ack,
    read_data,
    m_if_stall_r,
    resolve_cycle_r,   \* dmem.v: second cycle of a bank conflict
    pipe_0, pipe_1     \* LSU 0: packet in stage 0, external access in stage 1

dspVars == <<wb_state_r, wb_cyc_o, wb_we_o, wb_adr_o, m_if_burst_len_r, burst_flags,
             dmem_en, m_if_ack, read_data, m_if_stall_r, resolve_cycle_r, pipe_0, pipe_1>>

Packets == [req : Requests \cup {NoRequest}, lsu_1 : Lsu1]
Empty == [req |-> NoRequest, lsu_1 |-> FALSE]
req == pipe_0.req

NextWordOf(adr) == [adr EXCEPT !.word = @ + 1]

(* The core is clocked unless an external access or a bank conflict stalls it. *)
dmem_stall_req == pipe_0.lsu_1 /\ dmem_en /\ ~resolve_cycle_r
clk_en == ~m_if_stall_r /\ ~dmem_stall_req

----------------------------------------------------------------------------
(* Reset, with AJARDSP_CONFIG_EXT_BOOT: the core is held in stall and the FSM   *)
(* starts copying the boot code into imem.                                       *)
Reset ==
    /\ wb_state_r = "wb_m_burst" /\ wb_cyc_o = FALSE /\ wb_we_o = FALSE
    /\ wb_adr_o = Boot.adr /\ m_if_burst_len_r = Boot.len /\ burst_flags = Boot.flags
    /\ dmem_en = FALSE /\ m_if_ack = FALSE /\ read_data = Zero
    /\ m_if_stall_r = TRUE /\ resolve_cycle_r = FALSE
    /\ pipe_0 = Empty /\ pipe_1 = NoRequest

(* The same values at every edge while the reset is held. *)
HeldInReset ==
    /\ wb_state_r' = "wb_m_burst" /\ wb_cyc_o' = FALSE /\ wb_we_o' = FALSE
    /\ wb_adr_o' = Boot.adr /\ m_if_burst_len_r' = Boot.len /\ burst_flags' = Boot.flags
    /\ dmem_en' = FALSE /\ m_if_ack' = FALSE /\ read_data' = Zero
    /\ m_if_stall_r' = TRUE /\ resolve_cycle_r' = FALSE
    /\ pipe_0' = Empty /\ pipe_1' = NoRequest

Bursting == wb_state_r \in {"wb_m_burst", "wb_m_burst_0", "wb_m_burst_1", "wb_m_back_off"}

(* wb_m_idle: the only state that looks at the requests of the core. *)
StartSingle ==
    /\ req.op \in {"read", "write"}
    /\ wb_state_r' = IF req.op = "read" THEN "wb_m_read" ELSE "wb_m_write"
    /\ wb_adr_o' = req.adr
    /\ UNCHANGED <<wb_we_o, m_if_burst_len_r, burst_flags, dmem_en>>

StartBurst ==
    /\ req.op = "burst"
    /\ wb_state_r' = "wb_m_burst"
    /\ wb_adr_o' = req.adr
    /\ m_if_burst_len_r' = req.len
    /\ burst_flags' = req.flags
    /\ wb_we_o' = ("write_ext" \in req.flags)
    /\ dmem_en' = ("imem" \notin req.flags)

WbIdle ==
    /\ wb_state_r = "wb_m_idle"
    /\ wb_cyc_o' = FALSE
    /\ m_if_ack' = FALSE
    /\ \/ StartSingle
       \/ StartBurst
       \/ /\ req = NoRequest
          /\ UNCHANGED <<wb_state_r, wb_we_o, wb_adr_o, m_if_burst_len_r, burst_flags, dmem_en>>

(* Mutant of WbRead: the bus is released together with the acknowledge. *)
WbReadReleased(ack) ==
    /\ wb_state_r = "wb_m_read"
    /\ wb_cyc_o' = ~ack /\ wb_we_o' = FALSE /\ m_if_ack' = FALSE
    /\ wb_state_r' = IF ack THEN "wb_m_read_ack" ELSE "wb_m_read"
    /\ UNCHANGED <<wb_adr_o, m_if_burst_len_r, burst_flags, dmem_en>>

(* A read keeps cyc up for one cycle after the acknowledge, in wb_m_read_ack. *)
WbRead(ack) ==
    /\ wb_state_r = "wb_m_read"
    /\ wb_cyc_o' = TRUE /\ wb_we_o' = FALSE /\ m_if_ack' = FALSE
    /\ wb_state_r' = IF ack THEN "wb_m_read_ack" ELSE "wb_m_read"
    /\ UNCHANGED <<wb_adr_o, m_if_burst_len_r, burst_flags, dmem_en>>

WbReadAck ==
    /\ wb_state_r = "wb_m_read_ack"
    /\ wb_cyc_o' = FALSE /\ wb_we_o' = FALSE /\ m_if_ack' = TRUE
    /\ wb_state_r' = "wb_m_idle"
    /\ UNCHANGED <<wb_adr_o, m_if_burst_len_r, burst_flags, dmem_en>>

WbWrite(ack) ==
    /\ wb_state_r = "wb_m_write"
    /\ wb_cyc_o' = TRUE /\ wb_we_o' = TRUE /\ m_if_ack' = ack
    /\ wb_state_r' = IF ack THEN "wb_m_idle" ELSE "wb_m_write"
    /\ UNCHANGED <<wb_adr_o, m_if_burst_len_r, burst_flags, dmem_en>>

(* The three states of a burst in which the bus is not requested. *)
WbBurstWait ==
    /\ wb_state_r \in {"wb_m_burst", "wb_m_burst_0", "wb_m_back_off"}
    /\ wb_cyc_o' = FALSE /\ m_if_ack' = FALSE
    /\ wb_state_r' = IF wb_state_r = "wb_m_burst" THEN "wb_m_burst_0" ELSE "wb_m_burst_1"
    /\ UNCHANGED <<wb_we_o, wb_adr_o, m_if_burst_len_r, burst_flags, dmem_en>>

(* Mutant of BurstWord: the end of the burst is tested with # instead of >, which  *)
(* a comment in the code warns of: a burst of no word counts below zero.             *)
BurstWordUnlessOne ==
    /\ m_if_burst_len_r # 1
    /\ m_if_burst_len_r' = m_if_burst_len_r - 1
    /\ wb_adr_o' = NextWordOf(wb_adr_o)
    /\ wb_cyc_o' = (m_if_burst_len_r % BackOff # 0)
    /\ wb_state_r' = IF m_if_burst_len_r % BackOff = 0 THEN "wb_m_back_off" ELSE "wb_m_burst_1"
    /\ m_if_ack' = FALSE
    /\ UNCHANGED <<wb_we_o, dmem_en>>

(* wb_m_burst_1 with an acknowledge: a word that is not the last ... *)
BurstWord ==
    /\ m_if_burst_len_r > 1
    /\ m_if_burst_len_r' = m_if_burst_len_r - 1
    /\ wb_adr_o' = NextWordOf(wb_adr_o)
    /\ wb_cyc_o' = (m_if_burst_len_r % BackOff # 0)
    /\ wb_state_r' = IF m_if_burst_len_r % BackOff = 0 THEN "wb_m_back_off" ELSE "wb_m_burst_1"
    /\ m_if_ack' = FALSE
    /\ UNCHANGED <<wb_we_o, dmem_en>>

(* Mutant of BurstEnd: the port of dmem is kept. *)
BurstEndPortKept ==
    /\ m_if_burst_len_r <= 1
    /\ m_if_ack' = TRUE
    /\ wb_cyc_o' = FALSE /\ wb_we_o' = FALSE
    /\ wb_state_r' = "wb_m_idle"
    /\ UNCHANGED <<wb_adr_o, m_if_burst_len_r, dmem_en>>

(* ... and the last one. *)
BurstEnd ==
    /\ m_if_burst_len_r <= 1
    /\ m_if_ack' = TRUE
    /\ wb_cyc_o' = FALSE /\ wb_we_o' = FALSE /\ dmem_en' = FALSE
    /\ wb_state_r' = "wb_m_idle"
    /\ UNCHANGED <<wb_adr_o, m_if_burst_len_r>>

WbBurst(ack) ==
    /\ wb_state_r = "wb_m_burst_1"
    /\ UNCHANGED burst_flags
    /\ \/ ack /\ BurstWord
       \/ ack /\ BurstEnd
       \/ /\ ~ack
          /\ wb_cyc_o' = TRUE /\ m_if_ack' = FALSE
          /\ UNCHANGED <<wb_state_r, wb_we_o, wb_adr_o, m_if_burst_len_r, dmem_en>>

(* Mutants of CoreStall: bursts are never waited for, and a request in stage 0   *)
(* goes before the acknowledge.                                                        *)
CoreStallNotForBursts ==
    m_if_stall_r' = IF m_if_ack THEN FALSE
                    ELSE m_if_stall_r \/ req.op \in {"read", "write"}

CoreStallRequestFirst ==
    m_if_stall_r' = IF \/ req.op \in {"read", "write"}
                       \/ req.op = "burst" /\ "nowait" \notin req.flags
                    THEN TRUE
                    ELSE m_if_stall_r /\ ~m_if_ack

(* ajardsp_top.v: the acknowledge clears the stall before a request can set it. *)
CoreStall ==
    m_if_stall_r' = IF m_if_ack THEN FALSE
                    ELSE \/ m_if_stall_r
                         \/ req.op \in {"read", "write"}
                         \/ req.op = "burst" /\ "nowait" \notin req.flags

(* lsu.v: the requests come from stage 0 and are not gated by clk_en. *)
Pipeline ==
    /\ pipe_0' \in IF clk_en THEN Packets ELSE {pipe_0}
    /\ pipe_1' = IF clk_en THEN req ELSE pipe_1
    /\ resolve_cycle_r' = dmem_stall_req

(* One clock edge of a core out of reset, with the bus answering (ack, dat). *)
Cycle(ack, dat) ==
    /\ WbIdle \/ WbRead(ack) \/ WbReadAck \/ WbWrite(ack) \/ WbBurstWait \/ WbBurst(ack)
    /\ read_data' = dat
    /\ CoreStall
    /\ Pipeline

----------------------------------------------------------------------------
(* What a core may rely on.                                                      *)

(* ldext32 loads the word of its own address: when the packet behind it is let   *)
(* go, three cycles after the acknowledge, read_data (which samples the shared    *)
(* bus on every cycle) still holds that word.                                     *)
LoadGetsItsWord == clk_en /\ pipe_1.op = "read" => read_data = pipe_1.adr

(* An acknowledge that the core does not wait for is the one of a nowait burst:   *)
(* none is left over to release the next access early.                             *)
NoStrayAck == m_if_ack => m_if_stall_r \/ "nowait" \in burst_flags

(* However its packets use the external bus, the core is clocked again and again:   *)
(* every access is acknowledged, and its packet then leaves the pipeline instead of    *)
(* asking for the access once more.                                                     *)
CoreAdvances == []<>clk_en
=============================================================================
