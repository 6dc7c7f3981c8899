------------------------------ MODULE DspProofs ------------------------------
(* Proofs about the bus interface of a core (DspOnBus), for every set of        *)
(* requests, every back-off period and every bus that answers as that module says. *)
EXTENDS DspOnBus, TLAPS

(* A membership test is a Boolean value. *)
LEMMA Membership ==
  ASSUME NEW S, NEW x, NEW b
  PROVE  (b = (x \in S) => b \in BOOLEAN) /\ (b = (x \notin S) => b \in BOOLEAN)
<1>1. b = (x \notin S) => b \in BOOLEAN
  BY SMT
<1>2. ASSUME b = (x \in S)
      PROVE  b \in BOOLEAN
  <2>1. CASE x \in S
    BY <1>2, <2>1, SMT
  <2>2. CASE x \notin S
    <3>1. (x \in S) = FALSE
      BY <2>2, SMT
    <3>2. b = FALSE
      BY <1>2, <3>1, Zenon
    <3>. QED
      BY <3>2
  <2>. QED
    BY <2>1, <2>2
<1>. QED
  BY <1>1, <1>2

(* A request is one of the program's, or none. *)
LEMMA RequestKinds ==
  ASSUME TypeOK
  PROVE  /\ req \in Requests \cup {NoRequest}
         /\ req # NoRequest => req.op \in {"read", "write", "burst"}
         /\ req = NoRequest => req.op = "none"
<1>1. pipe_0 = Empty \/ pipe_0 \in Packets
  BY DEF TypeOK
<1>2. req \in Requests \cup {NoRequest}
  BY <1>1 DEF Packets, Empty, req
<1>3. NoRequest.op = "none"
  BY DEF NoRequest
<1>. QED
  BY <1>2, <1>3, WbAjardspAssumption

(* The reset values of wb_ajardsp.v, ajardsp_top.v and lsu.v are in range. *)
LEMMA InitTypes == Init => TypeOK
BY WbAjardspAssumption DEF Init, Reset, TypeOK, Packets, Empty, NoRequest

(* Every step keeps the registers in their ranges. *)
LEMMA TypesStep ==
  ASSUME TypeOK, NEW ack \in BOOLEAN, NEW d, Cycle(ack, d), Grant
  PROVE  TypeOK'
<1>1. wb_state_r' \in {"wb_m_idle", "wb_m_read", "wb_m_write", "wb_m_read_ack", "wb_m_burst",
                       "wb_m_burst_0", "wb_m_burst_1", "wb_m_back_off"}
  BY DEF Cycle, WbIdle, StartSingle, StartBurst, WbRead, WbReadAck, WbWrite, WbBurstWait,
         WbBurst, BurstWord, BurstEnd, TypeOK
<1>2. wb_cyc_o' \in BOOLEAN /\ m_if_ack' \in BOOLEAN
  BY DEF Cycle, WbIdle, WbRead, WbReadAck, WbWrite, WbBurstWait, WbBurst, BurstWord, BurstEnd
<1>3. wb_we_o' \in BOOLEAN /\ dmem_en' \in BOOLEAN
  <2>1. StartBurst => wb_we_o' \in BOOLEAN /\ dmem_en' \in BOOLEAN
    <3>1. StartBurst => /\ wb_we_o' = ("write_ext" \in req.flags)
                        /\ dmem_en' = ("imem" \notin req.flags)
      BY Zenon DEF StartBurst
    <3>. QED
      BY <3>1, Membership
  <2>. QED
    BY <2>1 DEF Cycle, WbIdle, StartSingle, WbRead, WbReadAck, WbWrite, WbBurstWait,
                WbBurst, BurstWord, BurstEnd, TypeOK
<1>4. m_if_burst_len_r' \in Nat
  <2>1. StartBurst => req.len \in Nat
    BY RequestKinds, WbAjardspAssumption DEF StartBurst, NoRequest
  <2>2. BurstWord => m_if_burst_len_r - 1 \in Nat
    BY DEF BurstWord, TypeOK
  <2>. QED
    BY <2>1, <2>2 DEF Cycle, WbIdle, StartSingle, StartBurst, WbRead, WbReadAck, WbWrite,
                      WbBurstWait, WbBurst, BurstWord, BurstEnd, TypeOK
<1>5. m_if_stall_r' \in BOOLEAN /\ resolve_cycle_r' \in BOOLEAN
  BY RequestKinds DEF Cycle, CoreStall, Pipeline, dmem_stall_req, TypeOK
<1>6. owned' \in BOOLEAN
  BY DEF Grant, TypeOK
<1>7. pipe_0' \in Packets \cup {Empty} /\ pipe_1' \in Requests \cup {NoRequest}
  BY RequestKinds DEF Cycle, Pipeline, TypeOK
<1>. QED
  BY <1>1, <1>2, <1>3, <1>4, <1>5, <1>6, <1>7 DEF TypeOK

(* Every register of wb_ajardsp.v and of the stall handshake keeps to its values, for   *)
(* every program; in particular the burst count never goes below zero, although a       *)
(* burst of no word is started like any other.                                           *)
THEOREM DspTypes == Spec => []TypeOK
<1>1. TypeOK /\ [Next]_vars => TypeOK'
  <2>1. TypeOK /\ Next => TypeOK'
    BY TypesStep DEF Next, Step
  <2>2. TypeOK /\ UNCHANGED vars => TypeOK'
    BY DEF TypeOK, vars, dspVars
  <2>. QED
    BY <2>1, <2>2
<1>. QED
  BY <1>1, InitTypes, PTL DEF Spec

----------------------------------------------------------------------------
(* The FSM in terms of the predicates of Handshake: an access, once begun, keeps its  *)
(* flags and ends with an acknowledge.                                                  *)
LEMMA FsmStep ==
  ASSUME TypeOK, NEW ack \in BOOLEAN, NEW d, Cycle(ack, d)
  PROVE  /\ Busy => burst_flags' = burst_flags
         /\ Busy /\ Busy' => ~m_if_ack' /\ (Bursting' <=> Bursting)
         /\ Busy /\ ~Busy' => m_if_ack' /\ ~Bursting'
         /\ Busy /\ dmem_en' => dmem_en /\ (Bursting => Busy')
         /\ ~Busy => ~m_if_ack'
         /\ ~Busy /\ req = NoRequest =>
               ~Busy' /\ burst_flags' = burst_flags /\ dmem_en' = dmem_en
<1>. USE DEF Busy, Bursting
<1>1. CASE WbIdle
  <2>1. req = NoRequest => ~StartSingle /\ ~StartBurst
    BY RequestKinds DEF StartSingle, StartBurst
  <2>. QED
    BY <1>1, <2>1 DEF WbIdle
<1>2. CASE WbRead(ack) \/ WbReadAck
  BY <1>2 DEF WbRead, WbReadAck
<1>3. CASE WbWrite(ack)
  BY <1>3 DEF WbWrite
<1>4. CASE WbBurstWait
  BY <1>4 DEF WbBurstWait
<1>5. CASE WbBurst(ack)
  BY <1>5 DEF WbBurst, BurstWord, BurstEnd
<1>. QED
  BY <1>1, <1>2, <1>3, <1>4, <1>5 DEF Cycle

(* A request in stage 0 of an idle FSM is started at once.                            *)
LEMMA StartStep ==
  ASSUME TypeOK, NEW ack \in BOOLEAN, NEW d, Cycle(ack, d), ~Busy, req # NoRequest
  PROVE  /\ Busy'
         /\ req.op = "read" => wb_state_r' = "wb_m_read" /\ wb_adr_o' = req.adr
         /\ req.op = "write" => wb_state_r' = "wb_m_write"
         /\ req.op # "burst" => dmem_en' = dmem_en
         /\ req.op = "burst" => /\ wb_state_r' = "wb_m_burst"
                                /\ burst_flags' = req.flags
                                /\ dmem_en' = ("imem" \notin req.flags)
<1>1. WbIdle /\ (StartSingle \/ StartBurst)
  BY DEF Cycle, Busy, WbIdle, WbRead, WbReadAck, WbWrite, WbBurstWait, WbBurst
<1>2. CASE StartSingle
  BY <1>2 DEF StartSingle, Busy
<1>3. CASE StartBurst
  BY <1>3 DEF StartBurst, Busy
<1>. QED
  BY <1>1, <1>2, <1>3

(* A packet that a bank conflict alone keeps in stage 0 makes no external access, and  *)
(* neither does one whose cycle has an acknowledge that nobody waits for.               *)
LEMMA HeldAlone ==
  ASSUME TypeOK, Handshake, ~m_if_stall_r, ~clk_en \/ m_if_ack
  PROVE  req = NoRequest
<1>. SUFFICES ASSUME req # NoRequest PROVE FALSE
  OBVIOUS
<1>1. CASE m_if_ack
  BY <1>1, RequestKinds DEF Handshake, NoStrayAck, StallIsOwed, NowaitBurst, JustStarted, Busy
<1>2. CASE ~clk_en
  <2>1. pipe_0.lsu_1 /\ dmem_en
    BY <1>2 DEF clk_en, dmem_stall_req
  <2>2. Bursting /\ "imem" \notin burst_flags
    BY <2>1 DEF Handshake, PortIsFree
  <2>3. JustStarted
    BY <2>2 DEF Handshake, StallIsOwed, Waited, NowaitBurst, Busy, Bursting
  <2>4. req.op = "burst" /\ burst_flags = req.flags
    BY <2>2, <2>3, RequestKinds DEF JustStarted, Bursting
  <2>5. SharesPort(pipe_0)
    BY <2>1, <2>2, <2>4 DEF SharesPort, req
  <2>. QED
    BY <2>3, <2>5 DEF Handshake, PortIsFree, JustStarted
<1>. QED
  BY <1>1, <1>2

(* The pipeline: with the clock enabled the packet moves on and a prudent one follows, *)
(* otherwise both stages stay.                                                           *)
LEMMA PipeStep ==
  ASSUME NEW ack \in BOOLEAN, NEW d, Cycle(ack, d), clk_en => Prudent(pipe_0')
  PROVE  /\ clk_en => /\ pipe_1' = req
                      /\ NowaitBurst' => req' = NoRequest
                      /\ SharesPort(pipe_0)' => req = NoRequest
         /\ ~clk_en => pipe_0' = pipe_0 /\ pipe_1' = pipe_1 /\ req' = req
BY DEF Cycle, Pipeline, Prudent, req, SharesPort

(* How the stall changes. *)
LEMMA StallStep ==
  ASSUME TypeOK, NEW ack \in BOOLEAN, NEW d, Cycle(ack, d)
  PROVE  /\ m_if_ack => ~m_if_stall_r'
         /\ ~m_if_ack => (m_if_stall_r' <=> m_if_stall_r \/ WaitsFor(req))
         /\ WaitsFor(req) => req # NoRequest
BY RequestKinds DEF Cycle, CoreStall, WaitsFor, TypeOK

(* Reset, in the middle of the boot burst, satisfies Handshake. *)
LEMMA InitHandshake == Init => Handshake
<1>. SUFFICES ASSUME Init PROVE Handshake
  OBVIOUS
<1>1. /\ wb_state_r = "wb_m_burst" /\ ~m_if_ack /\ m_if_stall_r /\ ~dmem_en
      /\ burst_flags = Boot.flags /\ pipe_0 = Empty /\ pipe_1 = NoRequest
  BY DEF Init, Reset
<1>2. req = NoRequest /\ req.op = "none"
  BY <1>1 DEF req, Empty, NoRequest
<1>3. Waited /\ ~NowaitBurst
  BY <1>1, WbAjardspAssumption DEF Waited, NowaitBurst, Busy, Bursting
<1>4. pipe_1.op # "read"
  BY <1>1 DEF NoRequest
<1>. QED
  BY <1>1, <1>2, <1>3, <1>4 DEF Handshake, StallIsOwed, PortIsFree, NoStrayAck

----------------------------------------------------------------------------
(* One step of a prudent program preserves Handshake.                                   *)
LEMMA HandshakeStep ==
  ASSUME TypeOK, Handshake, NEW ack \in BOOLEAN, NEW d,
         Answered(ack), Shown(d), Cycle(ack, d), Grant,
         clk_en => Prudent(pipe_0')
  PROVE  Handshake'
<1>. TypeOK'
  BY TypesStep
<1>1. m_if_ack' => ~Busy'
  BY FsmStep
<1>2. Waited /\ m_if_ack => FALSE
  BY DEF Handshake, StallIsOwed, Waited
(* What a step does to an access that is waited for, and to one that is not. *)
<1>3. Waited => m_if_stall_r'
  BY <1>2, StallStep DEF Handshake, StallIsOwed
<1>4. Waited => Waited' \/ m_if_ack'
  BY FsmStep DEF Waited
<1>5. ~Busy /\ WaitsFor(req) => Waited'
  BY StartStep, RequestKinds DEF WaitsFor, Waited, Bursting
<1>6. NowaitBurst => ~WaitsFor(req)
  BY StallStep DEF Handshake, StallIsOwed
<1>7. m_if_stall_r' => Waited' \/ m_if_ack'
  <2>1. CASE m_if_stall_r /\ ~m_if_ack
    BY <2>1, <1>4 DEF Handshake, StallIsOwed
  <2>2. CASE ~m_if_ack /\ WaitsFor(req)
    BY <2>2, <1>4, <1>5, <1>6 DEF Waited, NowaitBurst
  <2>. QED
    BY <2>1, <2>2, StallStep
<1>8. m_if_stall_r' /\ req' # NoRequest => pipe_1' # NoRequest
  <2>. SUFFICES ASSUME m_if_stall_r', req' # NoRequest PROVE pipe_1' # NoRequest
    OBVIOUS
  <2>1. CASE m_if_stall_r
    BY <2>1, PipeStep DEF clk_en, Handshake, StallIsOwed
  <2>2. CASE ~m_if_stall_r /\ clk_en
    BY <2>2, PipeStep, StallStep
  <2>3. CASE ~m_if_stall_r /\ ~clk_en
    BY <2>3, PipeStep, HeldAlone
  <2>. QED
    BY <2>1, <2>2, <2>3
<1>9. Waited' /\ ~m_if_stall_r' => JustStarted' /\ WaitsFor(req)'
  <2>. SUFFICES ASSUME Waited', ~m_if_stall_r' PROVE JustStarted' /\ WaitsFor(req)'
    OBVIOUS
  <2>1. ~Busy /\ req # NoRequest
    BY <1>3, FsmStep DEF Waited
  <2>2. WaitsFor(req)
    BY <2>1, StartStep, RequestKinds DEF Waited, WaitsFor, Bursting
  <2>3. m_if_stall_r /\ m_if_ack
    BY <2>1, <2>2, StallStep, HeldAlone
  <2>4. req' = req /\ pipe_1' # NoRequest
    BY <2>1, <2>3, PipeStep DEF clk_en, Handshake, StallIsOwed
  <2>. QED
    BY <2>1, <2>2, <2>4, StartStep DEF JustStarted, WaitsFor
<1>10. NowaitBurst' /\ req' # NoRequest => JustStarted' /\ ~WaitsFor(req)'
  <2>. SUFFICES ASSUME NowaitBurst', req' # NoRequest PROVE JustStarted' /\ ~WaitsFor(req)'
    OBVIOUS
  <2>1. ~clk_en /\ req' = req /\ pipe_1' = pipe_1 /\ req # NoRequest
    BY PipeStep
  <2>2. m_if_stall_r
    BY <2>1, HeldAlone
  <2>3. ~Waited
    BY <1>3, FsmStep DEF NowaitBurst, Waited
  <2>4. m_if_ack /\ ~Busy /\ pipe_1 # NoRequest
    BY <2>1, <2>2, <2>3 DEF Handshake, StallIsOwed
  <2>5. ~m_if_stall_r' /\ Bursting' /\ "nowait" \in burst_flags'
    BY <2>4, StallStep, FsmStep DEF NowaitBurst
  <2>6. req.op = "burst" /\ burst_flags' = req.flags
    BY <2>1, <2>4, <2>5, StartStep, RequestKinds DEF Bursting
  <2>. QED
    BY <2>1, <2>4, <2>5, <2>6, StartStep DEF JustStarted, WaitsFor
<1>11. PortIsFree'
  <2>1. dmem_en' => Bursting' /\ "imem" \notin burst_flags'
    <3>1. CASE Busy
      BY <3>1, FsmStep DEF Handshake, PortIsFree
    <3>2. CASE ~Busy /\ req = NoRequest
      BY <3>2, FsmStep DEF Handshake, PortIsFree, Busy, Bursting
    <3>3. CASE ~Busy /\ req # NoRequest
      BY <3>3, StartStep, RequestKinds DEF Handshake, PortIsFree, Busy, Bursting
    <3>. QED
      BY <3>1, <3>2, <3>3
  <2>2. SharesPort(pipe_0)' => pipe_1' = NoRequest
    BY PipeStep DEF Handshake, PortIsFree, SharesPort
  <2>. QED
    BY <2>1, <2>2 DEF PortIsFree
(* The bus stays with a load until its word has been sampled. *)
<1>12. wb_state_r = "wb_m_read" =>
         /\ wb_adr_o' = wb_adr_o
         /\ \/ wb_state_r' = "wb_m_read"
            \/ wb_state_r' = "wb_m_read_ack" /\ owned' /\ wb_cyc_o'
  BY DEF Cycle, WbIdle, WbRead, WbReadAck, WbWrite, WbBurstWait, WbBurst, Answered, Waiting, Grant
<1>13. wb_state_r = "wb_m_read_ack" => wb_adr_o' = wb_adr_o /\ m_if_ack'
  BY DEF Cycle, WbIdle, WbRead, WbReadAck, WbWrite, WbBurstWait, WbBurst
<1>14. pipe_1'.op = "read" => LoadOnItsWay'
  <2>. SUFFICES ASSUME pipe_1'.op = "read" PROVE LoadOnItsWay'
    OBVIOUS
  <2>1. CASE clk_en
    <3>1. pipe_1' = req /\ req.op = "read" /\ ~m_if_stall_r /\ WaitsFor(req) /\ req # NoRequest
      BY <2>1, PipeStep, StallStep DEF clk_en, WaitsFor
    <3>2. CASE Busy
      <4>1. Waited /\ JustStarted
        BY <3>1, <3>2, <1>6 DEF Waited, NowaitBurst, Handshake, StallIsOwed
      <4>. QED
        BY <3>1, <4>1, <1>3, <1>12 DEF JustStarted, LoadOnItsWay
    <3>3. CASE ~Busy
      <4>1. ~m_if_ack
        BY <3>1, HeldAlone
      <4>. QED
        BY <3>1, <3>3, <4>1, StallStep, StartStep DEF LoadOnItsWay
    <3>. QED
      BY <3>2, <3>3
  <2>2. CASE ~clk_en
    <3>1. /\ pipe_1' = pipe_1 /\ pipe_0' = pipe_0
          /\ m_if_stall_r /\ wb_adr_o = pipe_1.adr
          /\ pipe_1 # NoRequest
      BY <2>2, PipeStep DEF Handshake, LoadOnItsWay, NoRequest
    <3>2. CASE wb_state_r = "wb_m_read"
      BY <3>1, <3>2, <1>3, <1>12 DEF LoadOnItsWay, Waited, Busy, Bursting
    <3>3. CASE wb_state_r = "wb_m_read_ack" /\ owned /\ wb_cyc_o
      <4>1. owned'
        BY <3>3 DEF Grant
      <4>. QED
        BY <3>1, <3>3, <4>1, <1>3, <1>13 DEF LoadOnItsWay, Waited, Busy, Bursting
    <3>4. CASE m_if_ack /\ owned
      <4>1. ~m_if_stall_r' /\ read_data' = pipe_1.adr
        BY <3>1, <3>4, StallStep DEF Cycle, Shown, Loading
      <4>2. ~Busy
        BY <3>4 DEF Handshake, StallIsOwed
      <4>3. ~(pipe_0.lsu_1 /\ dmem_en')
        <5>. SUFFICES ASSUME pipe_0.lsu_1, dmem_en' PROVE FALSE
          OBVIOUS
        <5>1. req # NoRequest
          BY <4>2, FsmStep DEF Handshake, PortIsFree, Busy, Bursting
        <5>2. req.op = "burst" /\ "imem" \notin req.flags
          BY <4>2, <5>1, StartStep, RequestKinds DEF Handshake, PortIsFree, Busy, Bursting
        <5>. QED
          BY <3>1, <5>2 DEF Handshake, PortIsFree, SharesPort, req
      <4>4. clk_en'
        BY <3>1, <4>1, <4>3 DEF clk_en, dmem_stall_req
      <4>. QED
        BY <3>1, <4>1, <4>4 DEF LoadOnItsWay
    <3>. QED
      BY <2>2, <3>2, <3>3, <3>4, PipeStep DEF Handshake, LoadOnItsWay
  <2>. QED
    BY <2>1, <2>2
<1>15. NoStrayAck'
  BY <1>3, FsmStep DEF NoStrayAck, Waited
<1>16. StallIsOwed'
  BY <1>1, <1>7, <1>8, <1>9, <1>10 DEF StallIsOwed
<1>. QED
  BY <1>11, <1>14, <1>15, <1>16 DEF Handshake

----------------------------------------------------------------------------
(* Handshake, the inductive invariant: how the stall of ajardsp_top.v, the FSM of         *)
(* wb_ajardsp.v, the stages of LSU 0 and the port of dmem.v fit together in every cycle  *)
(* of a prudent program.                                                                  *)
THEOREM HandshakeTheorem == PrudentSpec => []Handshake
<1>1. TypeOK /\ Handshake /\ [PrudentNext]_vars => TypeOK' /\ Handshake'
  <2>1. TypeOK /\ Handshake /\ PrudentNext => TypeOK' /\ Handshake'
    BY TypesStep, HandshakeStep DEF PrudentNext, Next, Step
  <2>2. TypeOK /\ Handshake /\ UNCHANGED vars => TypeOK' /\ Handshake'
    BY DEF vars, dspVars, TypeOK, Handshake, StallIsOwed, PortIsFree, LoadOnItsWay, NoStrayAck,
           JustStarted, WaitsFor, Waited, NowaitBurst, Busy, Bursting, SharesPort, clk_en,
           dmem_stall_req, req
  <2>. QED
    BY <2>1, <2>2
<1>. QED
  BY <1>1, InitTypes, InitHandshake, PTL DEF PrudentSpec

(* An ldext32 of a prudent program loads the word of its own address, although           *)
(* read_data follows the shared bus in every cycle and is taken three cycles after the    *)
(* acknowledge.                                                                            *)
THEOREM LoadTheorem == PrudentSpec => []LoadGetsItsWord
<1>1. Handshake => LoadGetsItsWord
  BY DEF Handshake, LoadOnItsWay, LoadGetsItsWord, clk_en
<1>. QED
  BY <1>1, HandshakeTheorem, PTL

(* In a prudent program no acknowledge is left over for the next access: it releases     *)
(* exactly the access that set m_if_stall_r (ajardsp_top.v 373-392).                       *)
THEOREM StrayAckTheorem == PrudentSpec => []NoStrayAck
<1>1. Handshake => NoStrayAck
  BY DEF Handshake
<1>. QED
  BY <1>1, HandshakeTheorem, PTL

(* In a prudent program the core stands still while an access runs that it waits for.     *)
THEOREM StallTheorem == PrudentSpec => []BusyMeansStalled
<1>1. Handshake => BusyMeansStalled
  BY DEF Handshake, BusyMeansStalled, StallIsOwed, Waited, JustStarted, Busy
<1>. QED
  BY <1>1, HandshakeTheorem, PTL

----------------------------------------------------------------------------
(* The core as one master of a bus that has others, for SocProofs: what its signals   *)
(* do from cycle to cycle, whatever the bus shows.                                       *)

(* cyc is driven in the states that wait for an answer, once they have been entered,   *)
(* and in the cycle after a read or a write has got one; we goes with the access.       *)
Request ==
    /\ wb_state_r \in {"wb_m_burst", "wb_m_burst_0", "wb_m_back_off"} => ~wb_cyc_o
    /\ wb_state_r = "wb_m_read" /\ wb_cyc_o => ~wb_we_o
    /\ wb_state_r = "wb_m_read_ack" => wb_cyc_o /\ ~wb_we_o
    /\ wb_state_r = "wb_m_write" /\ wb_cyc_o => wb_we_o

LEMMA RequestStep ==
  ASSUME TypeOK, Request, NEW ack \in BOOLEAN, NEW d, Cycle(ack, d)
  PROVE  Request'
BY DEF Request, Cycle, WbIdle, StartSingle, StartBurst, WbRead, WbReadAck, WbWrite,
       WbBurstWait, WbBurst, BurstWord, BurstEnd, TypeOK

(* A request is held until it is answered.                                               *)
LEMMA RequestHeld ==
  ASSUME TypeOK, Request, NEW ack \in BOOLEAN, NEW d, Cycle(ack, d), Waiting, ~ack
  PROVE  /\ wb_state_r' = wb_state_r /\ wb_cyc_o' /\ wb_adr_o' = wb_adr_o
         /\ wb_cyc_o => wb_we_o' = wb_we_o
BY DEF Request, Waiting, Cycle, WbIdle, WbRead, WbReadAck, WbWrite, WbBurstWait, WbBurst,
       TypeOK

(* After the answer a burst goes on or leaves the bus; a read and a write drive the bus  *)
(* for one more cycle.                                                                    *)
LEMMA RequestAnswered ==
  ASSUME TypeOK, Request, NEW ack \in BOOLEAN, NEW d, Cycle(ack, d), Waiting, ack
  PROVE  \/ /\ wb_state_r = "wb_m_burst_1" /\ wb_state_r' = "wb_m_burst_1" /\ wb_cyc_o'
            /\ wb_adr_o' = NextWordOf(wb_adr_o) /\ wb_we_o' = wb_we_o
         \/ /\ wb_state_r = "wb_m_burst_1" /\ wb_state_r' \in {"wb_m_back_off", "wb_m_idle"}
            /\ ~wb_cyc_o' /\ (wb_adr_o' = wb_adr_o \/ wb_adr_o' = NextWordOf(wb_adr_o))
         \/ /\ wb_state_r = "wb_m_read" /\ wb_state_r' = "wb_m_read_ack" /\ wb_cyc_o'
            /\ wb_adr_o' = wb_adr_o
         \/ /\ wb_state_r = "wb_m_write" /\ wb_state_r' = "wb_m_idle" /\ wb_cyc_o'
            /\ wb_adr_o' = wb_adr_o
BY DEF Request, Waiting, Cycle, WbIdle, WbRead, WbReadAck, WbWrite, WbBurstWait, WbBurst,
       BurstWord, BurstEnd, TypeOK

(* In the other states cyc goes low; an address is taken from a request of the program.  *)
LEMMA RequestOver ==
  ASSUME TypeOK, NEW ack \in BOOLEAN, NEW d, Cycle(ack, d), ~Waiting
  PROVE  /\ ~wb_cyc_o'
         /\ \/ /\ wb_adr_o' = wb_adr_o /\ burst_flags' = burst_flags
               /\ wb_state_r \in {"wb_m_idle", "wb_m_read_ack"} => wb_state_r' = "wb_m_idle"
               /\ wb_state_r \notin {"wb_m_idle", "wb_m_read_ack"} =>
                     Bursting /\ wb_state_r' \in {"wb_m_burst_0", "wb_m_burst_1"}
            \/ /\ wb_state_r = "wb_m_idle"
               /\ \E r \in Requests :
                     /\ wb_adr_o' = r.adr
                     /\ \/ r.op = "read" /\ wb_state_r' = "wb_m_read"
                        \/ r.op = "write" /\ wb_state_r' = "wb_m_write"
                        \/ r.op = "burst" /\ wb_state_r' = "wb_m_burst" /\ burst_flags' = r.flags
<1>1. CASE wb_state_r # "wb_m_idle"
  BY <1>1 DEF Waiting, Bursting, Cycle, WbIdle, WbRead, WbReadAck, WbWrite, WbBurstWait, WbBurst,
              TypeOK
<1>2. CASE wb_state_r = "wb_m_idle" /\ req = NoRequest
  BY <1>2, RequestKinds DEF Cycle, WbIdle, StartSingle, StartBurst, WbRead, WbReadAck, WbWrite,
              WbBurstWait, WbBurst
<1>3. CASE wb_state_r = "wb_m_idle" /\ req # NoRequest
  <2>1. req \in Requests /\ (StartSingle \/ StartBurst) /\ ~wb_cyc_o'
    BY <1>3, RequestKinds DEF Cycle, WbIdle, WbRead, WbReadAck, WbWrite, WbBurstWait, WbBurst
  <2>. QED
    BY <1>3, <2>1 DEF StartSingle, StartBurst
<1>. QED
  BY <1>1, <1>2, <1>3

(* The two cycles in which a load needs its word on the bus follow the answer to it.      *)
LEMMA LoadingStep ==
  ASSUME TypeOK, Handshake, NEW ack \in BOOLEAN, NEW d, Cycle(ack, d), Loading'
  PROVE  /\ wb_adr_o' = wb_adr_o
         /\ (wb_state_r = "wb_m_read" /\ ack) \/ wb_state_r = "wb_m_read_ack"
<1>1. CASE wb_state_r' = "wb_m_read_ack"
  BY <1>1, RequestKinds DEF Cycle, WbIdle, StartSingle, StartBurst, WbRead, WbReadAck, WbWrite,
              WbBurstWait, WbBurst, BurstWord, BurstEnd
<1>2. CASE m_if_ack' /\ pipe_1'.op = "read"
  <2>1. Busy /\ ~m_if_ack
    BY <1>2, FsmStep DEF Handshake, StallIsOwed
  <2>2. CASE wb_state_r = "wb_m_read_ack"
    BY <2>2 DEF Cycle, WbIdle, WbRead, WbReadAck, WbWrite, WbBurstWait, WbBurst
  <2>3. CASE wb_state_r = "wb_m_read"
    BY <1>2, <2>3 DEF Cycle, WbIdle, WbRead, WbReadAck, WbWrite, WbBurstWait, WbBurst
  <2>4. CASE wb_state_r \notin {"wb_m_read", "wb_m_read_ack"}
    <3>1. clk_en
      BY <1>2, <2>1, <2>4 DEF Handshake, LoadOnItsWay, Cycle, Pipeline
    <3>2. req.op = "read" /\ req # NoRequest /\ ~m_if_stall_r
      BY <1>2, <3>1 DEF Cycle, Pipeline, NoRequest, clk_en
    <3>3. JustStarted
      BY <2>1, <3>2 DEF Handshake, StallIsOwed, Waited, NowaitBurst
    <3>. QED
      BY <2>4, <3>2, <3>3 DEF JustStarted
  <2>. QED
    BY <2>2, <2>3, <2>4
<1>. QED
  BY <1>1, <1>2 DEF Loading

(* The flags are those of the last burst started.                                          *)
LEMMA FlagsStep ==
  ASSUME TypeOK, NEW ack \in BOOLEAN, NEW d, Cycle(ack, d)
  PROVE  \/ burst_flags' = burst_flags
         \/ \E r \in Requests : r.op = "burst" /\ burst_flags' = r.flags
<1>1. CASE WbIdle
  BY <1>1, RequestKinds DEF WbIdle, StartSingle, StartBurst
<1>2. CASE ~WbIdle
  BY <1>2 DEF Cycle, WbRead, WbReadAck, WbWrite, WbBurstWait, WbBurst
<1>. QED
  BY <1>1, <1>2

(* Bursts that are all waited for, and an LSU 1 that keeps away from dmem, make a program  *)
(* prudent.                                                                                 *)
LEMMA PrudentStep ==
  ASSUME "nowait" \notin burst_flags', NEW next, ~next.lsu_1
  PROVE  Prudent(next)
BY DEF Prudent, NowaitBurst, SharesPort

(* A core that is held in reset drives no cyc, and shows the state in which it begins.   *)
LEMMA ResetStep ==
  ASSUME HeldInReset, NEW o \in BOOLEAN, owned' = o
  PROVE  /\ TypeOK' /\ Request' /\ Handshake'
         /\ wb_state_r' = "wb_m_burst" /\ ~wb_cyc_o' /\ ~m_if_ack' /\ pipe_1' = NoRequest
         /\ wb_adr_o' = Boot.adr /\ burst_flags' = Boot.flags
<1>1. /\ wb_state_r' = "wb_m_burst" /\ ~wb_cyc_o' /\ ~m_if_ack' /\ m_if_stall_r' /\ ~dmem_en'
      /\ burst_flags' = Boot.flags /\ pipe_0' = Empty /\ pipe_1' = NoRequest
      /\ wb_adr_o' = Boot.adr
  BY DEF HeldInReset
<1>2. TypeOK'
  BY WbAjardspAssumption DEF HeldInReset, TypeOK, Packets, Empty, NoRequest
<1>3. req' = NoRequest /\ req'.op = "none"
  BY <1>1 DEF req, Empty, NoRequest
<1>4. Waited' /\ ~NowaitBurst'
  BY <1>1, WbAjardspAssumption DEF Waited, NowaitBurst, Busy, Bursting
<1>5. pipe_1'.op # "read" /\ ~SharesPort(pipe_0)'
  BY <1>1, <1>3 DEF NoRequest, SharesPort, req
<1>6. Handshake'
  BY <1>1, <1>3, <1>4, <1>5 DEF Handshake, StallIsOwed, PortIsFree, NoStrayAck
<1>7. Request'
  BY <1>1 DEF Request
<1>. QED
  BY <1>1, <1>2, <1>6, <1>7

=============================================================================
