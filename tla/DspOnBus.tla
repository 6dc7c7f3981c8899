------------------------------ MODULE DspOnBus ------------------------------
(* One core's bus interface (WbAjardsp) against the least a bus must promise: *)
(* once the master drives cyc the bus becomes its own at some time, stays its  *)
(* own until the cycle after one in which cyc is low (the arbiter of            *)
(* soc_top.v), answers a waiting master only while cyc is high, and shows the     *)
(* word of a load from the cycle after its acknowledge on as long as it is its    *)
(* own.  SocBus.tla puts the real arbiter, slaves and other masters in the place  *)
(* of this environment, and SocProofs shows that they keep the promise.            *)
EXTENDS WbAjardsp

CONSTANT Other    \* what else the bus shows, another master's word or an old one

VARIABLE owned    \* the arbiter points at this master

vars == <<dspVars, owned>>

Init == Reset /\ owned \in BOOLEAN

(* read_data samples the bus in every cycle; the promise is about the two in which *)
(* it matters, the one with m_if_ack being the last.                                *)
Loading == wb_state_r = "wb_m_read_ack" \/ (m_if_ack /\ pipe_1.op = "read")
Shown(d) == owned /\ Loading => d = wb_adr_o

(* The grant may come in any cycle, also one in which cyc is low. *)
Grant == owned' \in IF owned THEN {wb_cyc_o} ELSE BOOLEAN

(* The acknowledge of a slave may outlast the access; the master looks at it only *)
(* while it waits for one.                                                          *)
Waiting == wb_state_r \in {"wb_m_read", "wb_m_write", "wb_m_burst_1"}
Answered(ack) == ack /\ Waiting => owned /\ wb_cyc_o

Step(ack, d) == Answered(ack) /\ Shown(d) /\ Cycle(ack, d) /\ Grant

Next == \E ack \in BOOLEAN, d \in {wb_adr_o, Other} : Step(ack, d)

Spec == Init /\ [][Next]_vars

(* The bus is fair: a master that keeps asking is granted the bus, and an owner   *)
(* that keeps cyc up is acknowledged.                                              *)
Granted == Next /\ wb_cyc_o /\ ~owned /\ owned'
Acknowledged == \E d \in {wb_adr_o, Other} : Step(TRUE, d)

FairBus == WF_vars(Next) /\ WF_vars(Granted) /\ WF_vars(Acknowledged)

----------------------------------------------------------------------------
(* Software discipline, which nothing in the core enforces.  From the start of an   *)
(* extburst with the nowait flag until the cycle after its acknowledge no packet      *)
(* with an external access enters the pipeline; no register shows whether the burst   *)
(* is over.                                                                            *)
NowaitBurst ==
    /\ "nowait" \in burst_flags
    /\ Bursting \/ (m_if_ack /\ ~m_if_stall_r)

(* For bursts from or to dmem: LSU 1 does not use dmem in the packet of such a burst  *)
(* when the packet before has an external access.  That access is acknowledged while  *)
(* the packet is in stage 0, the burst starts, and its own bank conflict then keeps    *)
(* the packet where it is until the burst is over and starts again (or, with nowait,   *)
(* lets an ldext32 before it take its word one cycle too late).                        *)
SharesPort(packet) ==
    packet.req.op = "burst" /\ "imem" \notin packet.req.flags /\ packet.lsu_1

Prudent(next) ==
    /\ NowaitBurst' => next.req = NoRequest
    /\ SharesPort(next) => req = NoRequest

PrudentNext == Next /\ (clk_en => Prudent(pipe_0'))
PrudentSpec == Init /\ [][PrudentNext]_vars /\ FairBus

----------------------------------------------------------------------------
(* The registers stay in their ranges. *)
TypeOK ==
    /\ wb_state_r \in {"wb_m_idle", "wb_m_read", "wb_m_write", "wb_m_read_ack", "wb_m_burst",
                       "wb_m_burst_0", "wb_m_burst_1", "wb_m_back_off"}
    /\ \A b \in {wb_cyc_o, wb_we_o, dmem_en, m_if_ack, m_if_stall_r, resolve_cycle_r, owned} :
           b \in BOOLEAN
    /\ m_if_burst_len_r \in Nat
    /\ pipe_0 \in Packets \cup {Empty}
    /\ pipe_1 \in Requests \cup {NoRequest}

(* While the FSM works on an access other than a nowait burst, the core stands    *)
(* still, except in the first cycle, when the request is still in stage 0.          *)
BusyMeansStalled ==
    wb_state_r # "wb_m_idle" /\ ~(Bursting /\ "nowait" \in burst_flags)
        => m_if_stall_r \/ req # NoRequest

----------------------------------------------------------------------------
(* Why these hold: Handshake, the inductive invariant of prudent programs.          *)

Busy == wb_state_r # "wb_m_idle"
Waited == Busy /\ ~(Bursting /\ "nowait" \in burst_flags)
WaitsFor(r) == r.op \in {"read", "write"} \/ (r.op = "burst" /\ "nowait" \notin r.flags)

(* The FSM has just started the request in stage 0, whose packet was held there by    *)
(* the stall of the access before (which is in stage 1).                               *)
JustStarted ==
    /\ req # NoRequest /\ pipe_1 # NoRequest
    /\ ~m_if_stall_r
    /\ req.op = "read"  => wb_state_r = "wb_m_read" /\ wb_adr_o = req.adr
    /\ req.op = "write" => wb_state_r = "wb_m_write"
    /\ req.op = "burst" => wb_state_r = "wb_m_burst" /\ burst_flags = req.flags

(* The stall belongs to an access under way or to its acknowledge. *)
StallIsOwed ==
    /\ m_if_ack => ~Busy
    /\ m_if_stall_r => Waited \/ m_if_ack
    /\ m_if_stall_r /\ req # NoRequest => pipe_1 # NoRequest
    /\ Waited /\ ~m_if_stall_r => JustStarted /\ WaitsFor(req)
    /\ NowaitBurst /\ req # NoRequest => JustStarted /\ ~WaitsFor(req)

(* Only a burst from or to dmem, in a packet that LSU 1 leaves alone, can be held up    *)
(* behind an access.                                                                     *)
PortIsFree ==
    /\ dmem_en => Bursting /\ "imem" \notin burst_flags
    /\ SharesPort(pipe_0) => pipe_1 = NoRequest

(* The way of a load from its request to the cycle in which the core takes the word:    *)
(* the address stays on the bus until read_data has sampled it for the last time.        *)
LoadOnItsWay ==
    \/ /\ m_if_stall_r
       /\ wb_adr_o = pipe_1.adr
       /\ \/ wb_state_r = "wb_m_read"
          \/ wb_state_r = "wb_m_read_ack" /\ owned /\ wb_cyc_o
          \/ m_if_ack /\ owned
    \/ clk_en /\ read_data = pipe_1.adr

Handshake ==
    /\ StallIsOwed
    /\ PortIsFree
    /\ pipe_1.op = "read" => LoadOnItsWay
    /\ NoStrayAck
=============================================================================
