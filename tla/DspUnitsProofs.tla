--------------------------- MODULE DspUnitsProofs ---------------------------
(* Proofs about the units of the core (DspUnits): the pipelines do what PacketFlow   *)
(* says, for every set of packets that keeps U1 to U4 and every bus.  DspProofs says   *)
(* how stall and bus interface behave; the rest is about registers and ports.            *)
EXTENDS DspUnits, DspProofs

Results == {"cu_0", "cu_1", "bmu"}

(* What the pipelines hold, apart from the stall.                                       *)
InPipe ==
    /\ pipe_0 = [req |-> stage_0.req, lsu_1 |-> stage_0.lsu_1.op \in UsesDmem]
    /\ pipe_1 = stage_1.bundle.req
    /\ stage_1.lsu_0.op = stage_1.bundle.lsu_0.op
    /\ stage_1.lsu_1.op = stage_1.bundle.lsu_1.op
    /\ stage_1.bundle \in Bundles \cup {NoBundle}
    /\ Fits(stage_0)
    /\ stage_1.bmu.op = "none" \/ stage_1.cu_1.op = "none"
    /\ stage_2.bmu.op = "none" \/ stage_2.cu_1.op = "none"

(* Until the first packet of a program, nothing has happened.                            *)
Fresh ==
    /\ stage_0 = NoBundle /\ stage_1.bundle = NoBundle
    /\ TodoInFlow = [k \in Results |-> Idle]
    /\ stage_2 = [k \in Results |-> Executed(Idle, 0)]

(* A stall with a burst that has dmem is the stall of that burst, and no load waits in    *)
(* stage 1 for what the ports show; in the second cycle of a conflict that no stall goes    *)
(* with, port A still shows what it did.                                                     *)
PortsHeld ==
    /\ m_if_stall_r /\ dmem_en => pipe_1.op = "burst"
    /\ resolve_cycle_r =>
         /\ stage_1.lsu_1.op # "ld"
         /\ m_if_stall_r => pipe_1.op = "burst"
         /\ ~m_if_stall_r => /\ stage_0.lsu_1.op = "st" /\ stage_0.lsu_0.op \notin UsesDmem
                             /\ doa_r = doa_w

IsFile(f) == f = [r \in Accs |-> f[r]]

UnitsInv ==
    /\ TypeOK /\ Handshake
    /\ IsFile(acc)
    /\ InPipe
    /\ stage_0 \in Bundles \/ Fresh
    /\ PortsHeld
    /\ BusIsFree /\ SpecialNotHeld /\ PortIsLeft

-----------------------------------------------------------------------------
(* Register files.                                                               *)

LEMMA OverlayAt ==
  ASSUME NEW f, IsFile(f), NEW w
  PROVE  /\ IsFile(Overlay(f, w))
         /\ \A r \in Accs : Overlay(f, w)[r] = IF w.on /\ w.dst = r THEN w.val ELSE f[r]
<1>1. CASE w.on
  <2>1. Overlay(f, w) = [f EXCEPT ![w.dst] = w.val]
    BY <1>1 DEF Overlay
  <2>2. DOMAIN f = Accs
    BY DEF IsFile
  <2>3. Overlay(f, w) = [r \in Accs |-> IF r = w.dst THEN w.val ELSE f[r]]
    BY <2>1, <2>2
  <2>. QED
    BY <1>1, <2>3 DEF IsFile
<1>2. CASE ~w.on
  BY <1>2 DEF Overlay
<1>. QED
  BY <1>1, <1>2

(* The four write ports of accrf.v, one after the other.                                *)
Written(f, w_0, w_1, w_2, w_3) == Overlay(Overlay(Overlay(Overlay(f, w_0), w_1), w_2), w_3)

Alike(v, w) == (v.on <=> w.on) /\ (v.on => v.dst = w.dst /\ v.val = w.val)
SamePort(v, w) == (v.on <=> w.on) /\ v.dst = w.dst

LEMMA AlikeOverlay ==
  ASSUME NEW f, NEW v, NEW w, Alike(v, w)
  PROVE  Overlay(f, v) = Overlay(f, w)
BY DEF Alike, Overlay

LEMMA WrittenAt ==
  ASSUME NEW f, IsFile(f), NEW w_0, NEW w_1, NEW w_2, NEW w_3
  PROVE  /\ IsFile(Written(f, w_0, w_1, w_2, w_3))
         /\ \A r \in Accs : Written(f, w_0, w_1, w_2, w_3)[r] =
              IF w_3.on /\ w_3.dst = r THEN w_3.val
              ELSE IF w_2.on /\ w_2.dst = r THEN w_2.val
              ELSE IF w_1.on /\ w_1.dst = r THEN w_1.val
              ELSE IF w_0.on /\ w_0.dst = r THEN w_0.val
              ELSE f[r]
<1>. DEFINE f_0 == Overlay(f, w_0)
            f_1 == Overlay(f_0, w_1)
            f_2 == Overlay(f_1, w_2)
            f_3 == Overlay(f_2, w_3)
<1>1. IsFile(f_0) /\ \A r \in Accs : f_0[r] = IF w_0.on /\ w_0.dst = r THEN w_0.val ELSE f[r]
  BY OverlayAt
<1>2. IsFile(f_1) /\ \A r \in Accs : f_1[r] = IF w_1.on /\ w_1.dst = r THEN w_1.val ELSE f_0[r]
  <2>. HIDE DEF f_0
  <2>. QED
    BY <1>1, OverlayAt
<1>3. IsFile(f_2) /\ \A r \in Accs : f_2[r] = IF w_2.on /\ w_2.dst = r THEN w_2.val ELSE f_1[r]
  <2>. HIDE DEF f_1
  <2>. QED
    BY <1>2, OverlayAt
<1>4. IsFile(f_3) /\ \A r \in Accs : f_3[r] = IF w_3.on /\ w_3.dst = r THEN w_3.val ELSE f_2[r]
  <2>. HIDE DEF f_2
  <2>. QED
    BY <1>3, OverlayAt
<1>5. Written(f, w_0, w_1, w_2, w_3) = f_3
  BY DEF Written
<1>. HIDE DEF f_0, f_1, f_2, f_3
<1>. QED
  BY <1>1, <1>2, <1>3, <1>4, <1>5

(* Writing the same registers again leaves what the second writes bring: this is what a   *)
(* register file does in a stall.                                                            *)
LEMMA WrittenAgain ==
  ASSUME NEW f, IsFile(f), NEW w_0, NEW w_1, NEW w_2, NEW w_3,
         NEW v_0, NEW v_1, NEW v_2, NEW v_3,
         SamePort(v_0, w_0), SamePort(v_1, w_1), SamePort(v_2, w_2), SamePort(v_3, w_3)
  PROVE  Written(Written(f, w_0, w_1, w_2, w_3), v_0, v_1, v_2, v_3) =
           Written(f, v_0, v_1, v_2, v_3)
<1>. DEFINE g == Written(f, w_0, w_1, w_2, w_3)
            h == Written(g, v_0, v_1, v_2, v_3)
            k == Written(f, v_0, v_1, v_2, v_3)
<1>1. IsFile(g) /\ IsFile(k)
  BY WrittenAt
<1>2. IsFile(h)
  <2>. HIDE DEF g
  <2>. QED
    BY <1>1, WrittenAt
<1>3. \A r \in Accs : h[r] = k[r]
  <2>. SUFFICES ASSUME NEW r \in Accs PROVE h[r] = k[r]
    OBVIOUS
  <2>1. g[r] = IF w_3.on /\ w_3.dst = r THEN w_3.val
               ELSE IF w_2.on /\ w_2.dst = r THEN w_2.val
               ELSE IF w_1.on /\ w_1.dst = r THEN w_1.val
               ELSE IF w_0.on /\ w_0.dst = r THEN w_0.val
               ELSE f[r]
    BY WrittenAt
  <2>2. k[r] = IF v_3.on /\ v_3.dst = r THEN v_3.val
               ELSE IF v_2.on /\ v_2.dst = r THEN v_2.val
               ELSE IF v_1.on /\ v_1.dst = r THEN v_1.val
               ELSE IF v_0.on /\ v_0.dst = r THEN v_0.val
               ELSE f[r]
    BY WrittenAt
  <2>. HIDE DEF g
  <2>3. h[r] = IF v_3.on /\ v_3.dst = r THEN v_3.val
               ELSE IF v_2.on /\ v_2.dst = r THEN v_2.val
               ELSE IF v_1.on /\ v_1.dst = r THEN v_1.val
               ELSE IF v_0.on /\ v_0.dst = r THEN v_0.val
               ELSE g[r]
    BY <1>1, WrittenAt
  <2>. HIDE DEF h, k
  <2>. QED
    BY <2>1, <2>2, <2>3 DEF SamePort
<1>. HIDE DEF g, h, k
<1>4. h = k
  <2>1. h = [r \in Accs |-> h[r]] /\ k = [r \in Accs |-> k[r]]
    BY <1>1, <1>2 DEF IsFile
  <2>. QED
    BY <1>3, <2>1
<1>. QED
  BY <1>4 DEF g, h, k

-----------------------------------------------------------------------------
(* The accumulators of PacketFlow.                                               *)
Lsu0Now == LsuPort("lsu_0", rd_data_0, Word(pipe_1.adr))
Lsu1Now == LsuPort("lsu_1", rd_data_1, Word(pipe_1.adr))
Cu0Now == ResultPort(stage_2.cu_0)

LEMMA FlowFile == AccInFlow = Written(acc, Lsu0Now, Lsu1Now, Cu0Now, SharedPort)
BY DEF AccInFlow, AccNow, Written, Lsu0Now, Lsu1Now, Cu0Now

LEMMA FlowFileNext == AccInFlow' = Written(acc', Lsu0Now', Lsu1Now', Cu0Now', SharedPort')
BY DEF AccInFlow, AccNow, Written, Lsu0Now, Lsu1Now, Cu0Now

(* A load that LSU 0 has in stage 1 is the external access there; LSU 1 has none.        *)
LEMMA StageOps ==
  ASSUME InPipe
  PROVE  /\ stage_1.lsu_1.op # "ldext"
         /\ stage_1.lsu_0.op = "ldext" => pipe_1.op = "read"
         /\ pipe_1.op = "burst" => stage_1.lsu_0.op \notin {"ld", "ldext"}
<1>1. CASE stage_1.bundle = NoBundle
  BY <1>1 DEF InPipe, NoBundle, NoOp, Op, NoRequest
<1>2. CASE stage_1.bundle \in Bundles
  BY <1>2, DspUnitsAssumption DEF InPipe, LsuOps, NoRequest
<1>. QED
  BY <1>1, <1>2 DEF InPipe

(* The edge of the clock, in the terms of DspProofs.                                      *)
LEMMA Edge ==
  ASSUME UnitsInv, UnitsNext
  PROVE  \E ack \in BOOLEAN, d \in {wb_adr_o, Other} :
           /\ Answered(ack) /\ Shown(d) /\ Cycle(ack, d) /\ Grant
           /\ clk_en => Prudent(pipe_0')
BY DEF UnitsNext, UnitsCycle, PrudentNext, Next, Step

LEMMA PipeMoves ==
  ASSUME UnitsInv, UnitsNext
  PROVE  /\ resolve_cycle_r' = dmem_stall_req
         /\ clk_en => pipe_1' = req
         /\ ~clk_en => pipe_1' = pipe_1
BY Edge DEF Cycle, Pipeline

(* A core that stands still keeps what it shows.                                          *)
LEMMA HeldPorts ==
  ASSUME UnitsInv, UnitsNext, ~clk_en
  PROVE  /\ mem' = mem
         /\ stage_1.lsu_0.op = "ld" => rd_data_0' = rd_data_0
         /\ stage_1.lsu_1.op = "ld" => rd_data_1' = rd_data_1
         /\ dmem_stall_req /\ ~m_if_stall_r => doa_r' = doa_w'
<1>. DEFINE seen == AccNow(Word(read_data))
<1>1. Dmem(seen)
  BY DEF UnitsNext, UnitsCycle
<1>. HIDE DEF seen
<1>2. resolve_cycle_r' = dmem_stall_req
  BY PipeMoves
<1>3. CASE m_if_stall_r /\ dmem_en
  <2>1. stage_1.lsu_0.op # "ld" /\ stage_1.lsu_1.op # "ld"
    BY <1>3, StageOps DEF UnitsInv, PortsHeld, PortIsLeft
  <2>2. stage_0.lsu_0.op # "st" /\ stage_0.lsu_1.op # "st"
    BY <1>3 DEF UnitsInv, PortIsLeft
  <2>3. PortA.u.op # "st"
    BY <2>2 DEF PortA
  <2>4. mem' = mem
    BY <1>1, <1>3, <2>3 DEF Dmem
  <2>. QED
    BY <1>3, <2>1, <2>4
<1>4. CASE m_if_stall_r /\ ~dmem_en
  <2>1. ~dmem_stall_req
    BY <1>4 DEF dmem_stall_req
  <2>2. doa_w' = doa_w /\ dob_w' = dob_w /\ mem' = mem
    BY <1>1, <1>4 DEF Dmem
  <2>3. CASE resolve_cycle_r
    BY <1>4, <2>1, <2>2, <2>3, StageOps DEF UnitsInv, PortsHeld
  <2>4. CASE ~resolve_cycle_r
    BY <1>2, <2>1, <2>2, <2>4 DEF rd_data_0, rd_data_1
  <2>. QED
    BY <2>3, <2>4
<1>5. CASE ~m_if_stall_r
  <2>1. dmem_stall_req /\ dmem_en /\ ~resolve_cycle_r
    BY <1>5 DEF clk_en, dmem_stall_req
  <2>2. stage_0.lsu_0.op \notin UsesDmem /\ stage_1.lsu_1.op # "ld"
    BY <1>5, <2>1 DEF UnitsInv, PortIsLeft
  <2>3. PortA.u.op \notin {"ld", "st"}
    BY <2>1, <2>2 DEF PortA, UsesDmem
  <2>4. doa_w' = doa_w /\ doa_r' = doa_w /\ mem' = mem
    BY <1>1, <2>1, <2>3 DEF Dmem, Access
  <2>5. rd_data_0' = rd_data_0
    BY <1>2, <2>1, <2>4 DEF rd_data_0
  <2>. QED
    BY <2>2, <2>4, <2>5
<1>. QED
  BY <1>3, <1>4, <1>5

(* What a step does to the registers.                                                     *)
LEMMA RegisterStep ==
  ASSUME UnitsInv, UnitsNext
  PROVE  /\ acc' = AccNow(Word(read_data)) /\ IsFile(acc')
         /\ SpecialPort = SpecialInFlow
         /\ ~clk_en => SpecialPort = NoWrite
         /\ pred' = IF SpecialPort.reg = "pred" THEN SpecialPort.val ELSE PredNow
         /\ ctl' = IF SpecialPort.reg = "ctl" THEN SpecialPort.val ELSE ctl
<1>1. /\ acc' = AccNow(Word(read_data))
      /\ pred' = IF SpecialPort.reg = "pred" THEN SpecialPort.val ELSE PredNow
      /\ ctl' = IF SpecialPort.reg = "ctl" THEN SpecialPort.val ELSE ctl
  BY DEF UnitsNext, UnitsCycle, Registers
<1>2. IsFile(acc')
  <2>1. AccNow(Word(read_data)) =
          Written(acc, LsuPort("lsu_0", rd_data_0, Word(read_data)),
                  LsuPort("lsu_1", rd_data_1, Word(read_data)), Cu0Now, SharedPort)
    BY DEF AccNow, Written, Cu0Now
  <2>. QED
    BY <1>1, <2>1, WrittenAt DEF UnitsInv
<1>3. ~Moves(stage_1.lsu_1) => SpecialWrite("lsu_1") = NoWrite
  BY DEF Moves, SpecialWrite
<1>4. ~Moves(stage_1.lsu_0) => SpecialWrite("lsu_0") = NoWrite
  BY DEF Moves, SpecialWrite
<1>5. SpecialPort = SpecialInFlow
  BY <1>3 DEF SpecialPort, Lsu0HasBus, SpecialInFlow, UnitsInv, BusIsFree
<1>6. ~clk_en => SpecialPort = NoWrite
  BY <1>3, <1>4 DEF SpecialPort, UnitsInv, SpecialNotHeld
<1>. QED
  BY <1>1, <1>2, <1>5, <1>6

(* However long it stands still.                                                          *)
LEMMA StandsStill ==
  ASSUME UnitsInv, UnitsNext, ~clk_en
  PROVE  UNCHANGED <<AccInFlow, PredNow, ctl, mem, TodoInFlow, SpecialInFlow,
                     stage_1.bundle, stage_0, stage_1, stage_2>>
<1>1. UNCHANGED <<stage_0, stage_1, stage_2, pipe_1>>
  BY PipeMoves DEF UnitsNext, UnitsCycle, Stages
<1>2. pred' = PredNow /\ ctl' = ctl
  BY RegisterStep DEF NoWrite
<1>3. PredNow' = PredNow
  BY <1>1, <1>2 DEF PredNow, AfterCompares
<1>4. Lsu0Now' = Lsu0Now /\ Lsu1Now' = Lsu1Now
  BY <1>1, HeldPorts DEF Lsu0Now, Lsu1Now, LsuPort, LsuData
<1>5. Cu0Now' = Cu0Now /\ SharedPort' = SharedPort
  BY <1>1, <1>3 DEF Cu0Now, SharedPort, ResultPort
<1>6. AccInFlow' = AccInFlow
  <2>. DEFINE w_0 == LsuPort("lsu_0", rd_data_0, Word(read_data))
              w_1 == LsuPort("lsu_1", rd_data_1, Word(read_data))
  <2>1. acc' = Written(acc, w_0, w_1, Cu0Now, SharedPort)
    BY RegisterStep DEF AccNow, Written, Cu0Now
  <2>2. /\ SamePort(Lsu0Now, w_0) /\ SamePort(Lsu1Now, w_1)
        /\ SamePort(Cu0Now, Cu0Now) /\ SamePort(SharedPort, SharedPort)
    BY DEF SamePort, Lsu0Now, Lsu1Now, LsuPort, Write
  <2>3. IsFile(acc)
    BY DEF UnitsInv
  <2>. HIDE DEF w_0, w_1
  <2>4. Written(acc', Lsu0Now, Lsu1Now, Cu0Now, SharedPort) =
          Written(acc, Lsu0Now, Lsu1Now, Cu0Now, SharedPort)
    BY <2>1, <2>2, <2>3, WrittenAgain
  <2>. QED
    BY <1>4, <1>5, <2>4, FlowFile, FlowFileNext
<1>. QED
  BY <1>1, <1>2, <1>3, <1>6, HeldPorts DEF TodoInFlow, SpecialInFlow, SpecialWrite

-----------------------------------------------------------------------------
(* A core that is clocked.                                                       *)

(* The word an external load takes is its own, so the registers are what they are in     *)
(* PacketFlow, where it had that word from the start.                                      *)
LEMMA SeenIsFlow ==
  ASSUME UnitsInv, clk_en
  PROVE  AccNow(Word(read_data)) = AccInFlow
<1>1. stage_1.lsu_0.op = "ldext" => read_data = pipe_1.adr
  BY StageOps DEF UnitsInv, Handshake, LoadOnItsWay, clk_en
<1>2. LsuPort("lsu_0", rd_data_0, Word(read_data)) = LsuPort("lsu_0", rd_data_0, Word(pipe_1.adr))
  BY <1>1 DEF LsuPort, LsuData
<1>3. LsuPort("lsu_1", rd_data_1, Word(read_data)) = LsuPort("lsu_1", rd_data_1, Word(pipe_1.adr))
  BY StageOps DEF LsuPort, LsuData, UnitsInv
<1>. QED
  BY <1>2, <1>3 DEF AccNow, AccInFlow

(* The ports of dmem in a cycle that is not held up.                                       *)
LEMMA ClockedPorts ==
  ASSUME UnitsInv, UnitsNext, clk_en
  PROVE  /\ stage_0.lsu_0.op = "ld" => rd_data_0' = mem
         /\ stage_0.lsu_1.op = "ld" => rd_data_1' = mem
         /\ mem' \in IF Flow!Stores(stage_0, AccInFlow) = {} THEN {mem}
                     ELSE Flow!Stores(stage_0, AccInFlow)
<1>. DEFINE seen == AccInFlow
            p == stage_0
<1>1. Dmem(seen)
  BY SeenIsFlow DEF UnitsNext, UnitsCycle
<1>2. ~resolve_cycle_r'
  BY PipeMoves DEF clk_en
<1>3. /\ p.lsu_0.op = "st" => Lsu0Source = p.lsu_0.src
      /\ p.lsu_1.op = "st" => Lsu1Source = p.lsu_1.src
  BY DEF UnitsInv, InPipe, Fits, ReadsAcc, Lsu0Source, Lsu1Source
<1>4. p.lsu_1.op \in UsesDmem => ~dmem_en \/ resolve_cycle_r
  BY DEF clk_en, dmem_stall_req, UnitsInv, InPipe
<1>5. resolve_cycle_r => p.lsu_1.op = "st" /\ p.lsu_0.op \notin UsesDmem
  BY DEF clk_en, UnitsInv, PortsHeld
<1>6. Flow!Stores(p, seen) =
        (IF p.lsu_0.op = "st" THEN {seen[p.lsu_0.src]} ELSE {})
          \cup (IF p.lsu_1.op = "st" THEN {seen[p.lsu_1.src]} ELSE {})
  BY DEF Flow!Stores
<1>. HIDE DEF seen, p
<1>7. p.lsu_0.op = "ld" => doa_w' = mem
  BY <1>1, <1>5 DEF Dmem, Access, PortA, UsesDmem, p
<1>8. p.lsu_1.op = "ld" => dob_w' = mem
  BY <1>1, <1>4, <1>5 DEF Dmem, Access, UsesDmem, p
<1>9. mem' \in IF Flow!Stores(p, seen) = {} THEN {mem} ELSE Flow!Stores(p, seen)
  <2>. DEFINE stores == (IF PortA.u.op = "st" THEN {seen[PortA.source]} ELSE {})
                   \cup (IF ~dmem_en /\ p.lsu_1.op = "st" THEN {seen[Lsu1Source]} ELSE {})
  <2>1. mem' \in IF stores # {} THEN stores ELSE {mem}
    BY <1>1 DEF Dmem, p
  <2>2. stores = Flow!Stores(p, seen)
    <3>1. CASE resolve_cycle_r
      <4>1. PortA.u = p.lsu_1 /\ PortA.source = p.lsu_1.src /\ p.lsu_0.op # "st" /\ p.lsu_1.op = "st"
        BY <1>3, <1>5, <3>1 DEF PortA, UsesDmem, p
      <4>. QED
        BY <1>3, <1>6, <4>1
    <3>2. CASE ~resolve_cycle_r
      <4>1. PortA.u = p.lsu_0 /\ PortA.source = Lsu0Source
        BY <3>2 DEF PortA, p
      <4>2. p.lsu_1.op = "st" => ~dmem_en
        BY <1>4, <3>2 DEF UsesDmem
      <4>. QED
        BY <1>3, <1>6, <4>1, <4>2
    <3>. QED
      BY <3>1, <3>2
  <2>. QED
    BY <2>1, <2>2
<1>. QED
  BY <1>2, <1>7, <1>8, <1>9 DEF rd_data_0, rd_data_1, seen, p

(* LSU 1 reads a special register when LSU 0 leaves it the bus.                            *)
LEMMA BusIsOthers ==
  ASSUME UnitsInv
  PROVE  stage_0.lsu_1.op = "mvfs" => ~Lsu0HasBus
BY DEF UnitsInv, InPipe, Fits, BusIsFree, Lsu0HasBus, SpecialWrite, Moves

(* The write ports in the cycle after it.                                                  *)
LEMMA ClockedLsus ==
  ASSUME UnitsInv, UnitsNext, clk_en, stage_0 \in Bundles
  PROVE  /\ Alike(Lsu0Now', Flow!LsuWrite(stage_0.lsu_0, stage_0.req, AccInFlow, PredNow))
         /\ Alike(Lsu1Now', Flow!LsuWrite(stage_0.lsu_1, stage_0.req, AccInFlow, PredNow))
<1>. DEFINE p == stage_0
<1>1. /\ stage_1'.lsu_0 = LsuFetch(AccInFlow, p.lsu_0, Lsu0Source, ctl)
      /\ \E special \in Lsu1Reads :
            stage_1'.lsu_1 = LsuFetch(AccInFlow, p.lsu_1, Lsu1Source, special)
  BY SeenIsFlow DEF UnitsNext, UnitsCycle, Stages, Stage1
<1>2. pipe_1' = p.req
  BY PipeMoves DEF UnitsInv, InPipe, req
<1>3. /\ p.lsu_0.op \in LsuOps \cup {"ldext"} /\ p.lsu_1.op \in LsuOps
      /\ p.lsu_0.op = "mv" => Lsu0Source = p.lsu_0.src
      /\ p.lsu_1.op = "mv" => Lsu1Source = p.lsu_1.src
  BY DspUnitsAssumption DEF UnitsInv, InPipe, Fits, ReadsAcc, Lsu0Source, Lsu1Source
<1>. HIDE DEF p
<1>4. Alike(Lsu0Now', Flow!LsuWrite(p.lsu_0, p.req, AccInFlow, PredNow))
  <2>. DEFINE u == p.lsu_0
              w == Flow!LsuWrite(u, p.req, AccInFlow, PredNow)
  <2>1. /\ Lsu0Now'.on = (u.op \in WritesAcc /\ Committed(u, PredNow))
        /\ Lsu0Now'.dst = u.dst
        /\ Lsu0Now'.val = CASE u.op = "ldext" -> Word(p.req.adr)
                            [] u.op = "ld" -> rd_data_0'
                            [] OTHER -> IF u.op = "mvfs" THEN ctl ELSE AccInFlow[Lsu0Source]
    BY <1>1, <1>2 DEF Lsu0Now, LsuPort, LsuData, LsuFetch, Write
  <2>2. /\ w.on = (u.op \in WritesAcc /\ Committed(u, PredNow))
        /\ w.dst = u.dst
        /\ w.val = CASE u.op = "ldext" -> Word(p.req.adr)
                  [] u.op = "ld" -> mem
                  [] u.op = "mvfs" -> ctl
                  [] OTHER -> AccInFlow[u.src]
    BY DEF Flow!LsuWrite, Flow!LsuValue, Flow!Write, Flow!WritesAcc, Flow!Committed, WritesAcc,
           Committed
  <2>3. u.op = "ld" => rd_data_0' = mem
    BY ClockedPorts DEF p
  <2>4. u.op \in WritesAcc => u.op \in {"ldext", "ld", "mvfs", "mv"}
    BY <1>3 DEF WritesAcc, LsuOps
  <2>. HIDE DEF u, w
  <2>5. u.op = "mv" => Lsu0Source = u.src
    BY <1>3 DEF u
  <2>6. u.op \in WritesAcc => Lsu0Now'.val = w.val
    BY <2>1, <2>2, <2>3, <2>4, <2>5
  <2>7. Alike(Lsu0Now', w)
    BY <2>1, <2>2, <2>6 DEF Alike
  <2>. QED
    BY <2>7 DEF u, w
<1>5. Alike(Lsu1Now', Flow!LsuWrite(p.lsu_1, p.req, AccInFlow, PredNow))
  <2>. DEFINE u == p.lsu_1
              w == Flow!LsuWrite(u, p.req, AccInFlow, PredNow)
  <2>. PICK special \in Lsu1Reads :
              stage_1'.lsu_1 = LsuFetch(AccInFlow, u, Lsu1Source, special)
    BY <1>1
  <2>8. u.op = "mvfs" => special = ctl
    BY BusIsOthers DEF Lsu1Reads, p
  <2>1. /\ Lsu1Now'.on = (u.op \in WritesAcc /\ Committed(u, PredNow))
        /\ Lsu1Now'.dst = u.dst
        /\ Lsu1Now'.val = CASE u.op = "ldext" -> Word(p.req.adr)
                            [] u.op = "ld" -> rd_data_1'
                            [] OTHER -> IF u.op = "mvfs" THEN special ELSE AccInFlow[Lsu1Source]
    BY <1>2 DEF Lsu1Now, LsuPort, LsuData, LsuFetch, Write
  <2>2. /\ w.on = (u.op \in WritesAcc /\ Committed(u, PredNow))
        /\ w.dst = u.dst
        /\ w.val = CASE u.op = "ldext" -> Word(p.req.adr)
                  [] u.op = "ld" -> mem
                  [] u.op = "mvfs" -> ctl
                  [] OTHER -> AccInFlow[u.src]
    BY DEF Flow!LsuWrite, Flow!LsuValue, Flow!Write, Flow!WritesAcc, Flow!Committed, WritesAcc,
           Committed
  <2>3. u.op = "ld" => rd_data_1' = mem
    BY ClockedPorts DEF p
  <2>4. u.op \in WritesAcc => u.op \in {"ldext", "ld", "mvfs", "mv"}
    BY <1>3 DEF WritesAcc, LsuOps
  <2>. HIDE DEF u, w
  <2>5. u.op = "mv" => Lsu1Source = u.src
    BY <1>3 DEF u
  <2>6. u.op \in WritesAcc => Lsu1Now'.val = w.val
    BY <2>1, <2>2, <2>3, <2>4, <2>5, <2>8
  <2>7. Alike(Lsu1Now', w)
    BY <2>1, <2>2, <2>6 DEF Alike
  <2>. QED
    BY <2>7 DEF u, w
<1>. QED
  BY <1>4, <1>5 DEF p

(* The predicate after the compares and the special-register write of the packet before.  *)
After == AfterCompares(IF SpecialInFlow.reg = "pred" THEN SpecialInFlow.val ELSE PredNow,
                       Executed(TodoInFlow.cu_0, ctl), Executed(TodoInFlow.cu_1, ctl))

LEMMA ClockedResults ==
  ASSUME UnitsInv, UnitsNext, clk_en
  PROVE  /\ PredNow' = After
         /\ Cu0Now' = Flow!Landing(TodoInFlow.cu_0, After)
         /\ \A f : Overlay(f, SharedPort') =
               Overlay(Overlay(f, Flow!Landing(TodoInFlow.cu_1, After)),
                       Flow!Landing(TodoInFlow.bmu, After))
<1>1. /\ stage_2'.cu_0 = Executed(TodoInFlow.cu_0, ctl)
      /\ stage_2'.cu_1 = Executed(TodoInFlow.cu_1, ctl)
      /\ stage_2'.bmu = Executed(TodoInFlow.bmu, ctl)
  BY DEF UnitsNext, UnitsCycle, Stages, Stage2, TodoInFlow
<1>2. PredNow' = After
  BY <1>1, RegisterStep DEF PredNow, After
<1>3. /\ Cu0Now' = Flow!Landing(TodoInFlow.cu_0, After)
      /\ ResultPort(stage_2.cu_1)' = Flow!Landing(TodoInFlow.cu_1, After)
      /\ ResultPort(stage_2.bmu)' = Flow!Landing(TodoInFlow.bmu, After)
  BY <1>1, <1>2 DEF Cu0Now, ResultPort, Write, WritesAcc, Executed, Committed, Flow!Landing,
                    Flow!Write, Flow!WritesAcc, Flow!Executed, Flow!Committed
<1>4. \/ TodoInFlow.cu_1.op = "none" \/ TodoInFlow.bmu.op = "none"
  BY DEF UnitsInv, InPipe, TodoInFlow
<1>5. /\ TodoInFlow.cu_1.op = "none" => ~Flow!Landing(TodoInFlow.cu_1, After).on
      /\ TodoInFlow.bmu.op = "none" => ~Flow!Landing(TodoInFlow.bmu, After).on
  BY DEF Flow!Landing, Flow!Write, Flow!WritesAcc
<1>6. SharedPort' = IF Flow!Landing(TodoInFlow.bmu, After).on
                    THEN Flow!Landing(TodoInFlow.bmu, After)
                    ELSE Flow!Landing(TodoInFlow.cu_1, After)
  BY <1>3 DEF SharedPort
<1>. QED
  BY <1>2, <1>3, <1>4, <1>5, <1>6 DEF Overlay

(* The packet's own write to a special register.                                          *)
LEMMA ClockedSpecial ==
  ASSUME UnitsInv, UnitsNext, clk_en, stage_0 \in Bundles
  PROVE  SpecialInFlow' \in
           IF Flow!Moves(stage_0, AccInFlow, PredNow) = {} THEN {NoWrite}
           ELSE Flow!Moves(stage_0, AccInFlow, PredNow)
<1>. DEFINE p == stage_0
            Wrote(k) == [reg |-> SpecialOf(k.op), val |-> AccInFlow[k.src]]
            Does(k) == SpecialOf(k.op) # "none" /\ Committed(k, PredNow)
<1>1. /\ stage_1'.lsu_0 = LsuFetch(AccInFlow, p.lsu_0, Lsu0Source, ctl)
      /\ \E special \in Lsu1Reads :
            stage_1'.lsu_1 = LsuFetch(AccInFlow, p.lsu_1, Lsu1Source, special)
  BY SeenIsFlow DEF UnitsNext, UnitsCycle, Stages, Stage1
<1>2. /\ Does(p.lsu_0) => Lsu0Source = p.lsu_0.src /\ p.lsu_0.op # "mvfs"
      /\ Does(p.lsu_1) => Lsu1Source = p.lsu_1.src /\ p.lsu_1.op # "mvfs"
      /\ Does(p.lsu_1) => ~Does(p.lsu_0)
  BY DEF UnitsInv, InPipe, Fits, ReadsAcc, Moves, SpecialOf, Lsu0Source, Lsu1Source
<1>3. /\ SpecialWrite("lsu_0")' = IF Does(p.lsu_0) THEN Wrote(p.lsu_0) ELSE NoWrite
      /\ SpecialWrite("lsu_1")' = IF Does(p.lsu_1) THEN Wrote(p.lsu_1) ELSE NoWrite
  BY <1>1, <1>2 DEF SpecialWrite, LsuFetch
<1>4. Flow!Moves(p, AccInFlow, PredNow) =
        (IF Does(p.lsu_0) THEN {Wrote(p.lsu_0)} ELSE {})
          \cup (IF Does(p.lsu_1) THEN {Wrote(p.lsu_1)} ELSE {})
  BY DEF Flow!Moves, Flow!SpecialOf, SpecialOf, Flow!Committed, Committed
<1>5. Does(p.lsu_0) => Wrote(p.lsu_0) # NoWrite
  BY DEF NoWrite
<1>. HIDE DEF p, Wrote, Does
<1>6. SpecialInFlow' = IF Does(p.lsu_0) THEN Wrote(p.lsu_0)
                       ELSE IF Does(p.lsu_1) THEN Wrote(p.lsu_1) ELSE NoWrite
  BY <1>3, <1>5 DEF SpecialInFlow
<1>. QED
  BY <1>2, <1>4, <1>6 DEF p

(* The operations that enter stage 1 have read what their packet finds.                   *)
LEMMA ClockedTodo ==
  ASSUME UnitsInv, UnitsNext, clk_en
  PROVE  TodoInFlow' = [k \in Results |-> Fetched(stage_0[k], AccInFlow[stage_0[k].src],
                                                 AccInFlow[stage_0[k].dst])]
<1>. DEFINE Reads(k) == Fetched(stage_0[k], AccInFlow[stage_0[k].src], AccInFlow[stage_0[k].dst])
<1>1. PICK special : stage_1' = Stage1(AccInFlow, special)
  BY SeenIsFlow DEF UnitsNext, UnitsCycle, Stages
<1>2. stage_1'["cu_0"] = Reads("cu_0") /\ stage_1'["bmu"] = Reads("bmu")
  BY <1>1 DEF Stage1
<1>3. stage_1'["cu_1"] = Reads("cu_1")
  <2>1. stage_0.bmu.op # "none" => stage_0.cu_1.op = "none"
    BY DEF UnitsInv, InPipe, Fits
  <2>. QED
    BY <1>1, <2>1 DEF Stage1, Fetched, Cu1Source
<1>. HIDE DEF Reads
<1>4. TodoInFlow' = [k \in Results |-> Reads(k)]
  BY <1>2, <1>3 DEF TodoInFlow, Results
<1>. QED
  BY <1>4 DEF Reads

(* The packet takes effect.                                                               *)
LEMMA PacketStep ==
  ASSUME UnitsInv, UnitsNext, clk_en, stage_0 \in Bundles
  PROVE  Flow!Step(stage_0)
<1>. DEFINE p == stage_0
            lsu_0 == Overlay(AccInFlow, Flow!LsuWrite(p.lsu_0, p.req, AccInFlow, PredNow))
            lsu_1 == Overlay(lsu_0, Flow!LsuWrite(p.lsu_1, p.req, AccInFlow, PredNow))
            cu_0 == Overlay(lsu_1, Flow!Landing(TodoInFlow.cu_0, After))
            cu_1 == Overlay(cu_0, Flow!Landing(TodoInFlow.cu_1, After))
<1>1. stage_1'.bundle = p
  BY DEF UnitsNext, UnitsCycle, Stages, Stage1
<1>2. PredNow' = After
  BY ClockedResults
<1>3. ctl' = IF SpecialInFlow.reg = "ctl" THEN SpecialInFlow.val ELSE ctl
  BY RegisterStep
<1>4. AccInFlow' = Overlay(cu_1, Flow!Landing(TodoInFlow.bmu, After))
  <2>1. AccInFlow' = Overlay(Overlay(Overlay(Overlay(AccInFlow, Lsu0Now'), Lsu1Now'), Cu0Now'),
                             SharedPort')
    BY FlowFileNext, RegisterStep, SeenIsFlow DEF Written
  <2>2. Overlay(AccInFlow, Lsu0Now') = lsu_0
    BY ClockedLsus, AlikeOverlay
  <2>3. Overlay(lsu_0, Lsu1Now') = lsu_1
    BY ClockedLsus, AlikeOverlay
  <2>4. Cu0Now' = Flow!Landing(TodoInFlow.cu_0, After)
    BY ClockedResults
  <2>5. Overlay(cu_0, SharedPort') = Overlay(cu_1, Flow!Landing(TodoInFlow.bmu, After))
    BY ClockedResults
  <2>. QED
    BY <2>1, <2>2, <2>3, <2>4, <2>5
<1>5. TodoInFlow' = [k \in Results |-> Fetched(p[k], AccInFlow[p[k].src], AccInFlow[p[k].dst])]
  BY ClockedTodo
<1>6. mem' \in IF Flow!Stores(p, AccInFlow) = {} THEN {mem} ELSE Flow!Stores(p, AccInFlow)
  BY ClockedPorts
<1>7. SpecialInFlow' \in IF Flow!Moves(p, AccInFlow, PredNow) = {} THEN {NoWrite}
                         ELSE Flow!Moves(p, AccInFlow, PredNow)
  BY ClockedSpecial
<1>. HIDE DEF p
<1>8. After = Flow!AfterCompares(IF SpecialInFlow.reg = "pred" THEN SpecialInFlow.val ELSE PredNow,
                                 Flow!Executed(TodoInFlow.cu_0, ctl), Flow!Executed(TodoInFlow.cu_1, ctl))
  BY DEF After, AfterCompares, Flow!AfterCompares, Executed, Flow!Executed
<1>9. \A f, w : Overlay(f, w) = Flow!Overlay(f, w)
  BY DEF Overlay, Flow!Overlay
<1>10. \A u, x, y : Fetched(u, x, y) = Flow!Fetched(u, x, y)
  BY DEF Fetched, Flow!Fetched, Idle, Flow!Idle
<1>11. NoWrite = Flow!NoWrite
  BY DEF NoWrite, Flow!NoWrite
<1>12. TodoInFlow' = [k \in Results |-> Flow!Fetched(p[k], AccInFlow[p[k].src], AccInFlow[p[k].dst])]
  BY <1>5, <1>10
<1>. QED
  BY <1>1, <1>2, <1>3, <1>4, <1>6, <1>7, <1>8, <1>9, <1>11, <1>12 DEF Flow!Step, Results, p

(* Before the first packet a clocked core still shows what reset left.                    *)
LEMMA EmptyStep ==
  ASSUME UnitsInv, UnitsNext, clk_en, Fresh
  PROVE  UNCHANGED Flow!flowVars
<1>1. TodoInFlow' = TodoInFlow
  <2>1. stage_0.cu_0 = NoOp /\ stage_0.cu_1 = NoOp /\ stage_0.bmu = NoOp
    BY DEF Fresh, NoBundle
  <2>2. \A x, y : Fetched(NoOp, x, y) = Idle
    BY DEF Fetched, NoOp, Op
  <2>. QED
    BY <2>1, <2>2, ClockedTodo DEF Fresh, Results
<1>2. stage_1'.bundle = stage_1.bundle
  BY DEF Fresh, UnitsNext, UnitsCycle, Stages, Stage1
<1>3. \A k \in {"lsu_0", "lsu_1"} : stage_1[k].op = "none" /\ stage_1'[k].op = "none"
  BY DEF Fresh, NoBundle, NoOp, Op, UnitsInv, InPipe, UnitsNext, UnitsCycle, Stages, Stage1, LsuFetch
<1>4. SpecialInFlow = NoWrite /\ SpecialInFlow' = NoWrite
  BY <1>3 DEF SpecialInFlow, SpecialWrite, SpecialOf
<1>5. ctl' = ctl /\ pred' = PredNow
  BY <1>4, RegisterStep DEF NoWrite
<1>6. \A k \in Results : stage_2[k].op = "none" /\ stage_2'[k].op = "none"
  <2>1. \A c : Executed(Idle, c).op = "none"
    BY DEF Executed, Idle
  <2>2. \A k \in Results : stage_1[k] = Idle
    BY DEF Fresh, TodoInFlow, Results
  <2>. QED
    BY <2>1, <2>2 DEF Fresh, Results, UnitsNext, UnitsCycle, Stages, Stage2
<1>7. PredNow' = PredNow
  BY <1>5, <1>6 DEF PredNow, AfterCompares, Results
<1>8. /\ ~Lsu0Now'.on /\ ~Lsu1Now'.on /\ ~Cu0Now'.on /\ ~SharedPort'.on
  BY <1>3, <1>6 DEF Lsu0Now, Lsu1Now, Cu0Now, SharedPort, LsuPort, ResultPort, Write, WritesAcc, Results
<1>9. AccInFlow' = AccInFlow
  BY <1>8, FlowFileNext, RegisterStep, SeenIsFlow DEF Written, Overlay
<1>10. mem' = mem
  <2>1. Flow!Stores(stage_0, AccInFlow) = {}
    BY DEF Flow!Stores, Fresh, NoBundle, NoOp, Op
  <2>. QED
    BY <2>1, ClockedPorts
<1>. QED
  BY <1>1, <1>2, <1>4, <1>5, <1>7, <1>9, <1>10 DEF Flow!flowVars

-----------------------------------------------------------------------------
(* UnitsInv is inductive.                                                        *)

LEMMA CoreStep ==
  ASSUME UnitsInv, UnitsNext
  PROVE  TypeOK' /\ Handshake'
BY Edge, TypesStep, HandshakeStep DEF UnitsInv

(* A packet goes through the stages as a whole.                                           *)
LEMMA InPipeStep ==
  ASSUME UnitsInv, UnitsNext
  PROVE  InPipe' /\ (stage_0' \in Bundles \/ Fresh')
<1>1. /\ pipe_0' = [req |-> stage_0'.req, lsu_1 |-> stage_0'.lsu_1.op \in UsesDmem]
      /\ Fits(stage_0')
  BY DEF UnitsNext, UnitsCycle, InStep
<1>2. CASE clk_en
  <2>1. stage_0' \in Bundles
    BY <1>2 DEF UnitsNext, UnitsCycle, Stages
  <2>2. PICK seen, special : stage_1' = Stage1(seen, special) /\ stage_2' = Stage2
    BY <1>2 DEF UnitsNext, UnitsCycle, Stages
  <2>3. /\ stage_1'.bundle = stage_0
        /\ stage_1'.lsu_0.op = stage_0.lsu_0.op /\ stage_1'.lsu_1.op = stage_0.lsu_1.op
        /\ stage_1'.bmu.op = stage_0.bmu.op /\ stage_1'.cu_1.op = stage_0.cu_1.op
    BY <2>2 DEF Stage1, LsuFetch, Fetched, Idle
  <2>4. stage_2'.bmu.op = stage_1.bmu.op /\ stage_2'.cu_1.op = stage_1.cu_1.op
    BY <2>2 DEF Stage2, Executed
  <2>5. pipe_1' = stage_0.req
    BY <1>2, PipeMoves DEF UnitsInv, InPipe, req
  <2>6. stage_0 \in Bundles \cup {NoBundle}
    BY DEF UnitsInv, Fresh
  <2>7. stage_0.bmu.op = "none" \/ stage_0.cu_1.op = "none"
    BY DEF UnitsInv, InPipe, Fits
  <2>8. stage_1.bmu.op = "none" \/ stage_1.cu_1.op = "none"
    BY DEF UnitsInv, InPipe
  <2>. QED
    BY <1>1, <2>1, <2>3, <2>4, <2>5, <2>6, <2>7, <2>8 DEF InPipe
<1>3. CASE ~clk_en
  <2>1. UNCHANGED <<stage_0, stage_1, stage_2, pipe_1, TodoInFlow>>
    BY <1>3, StandsStill, PipeMoves
  <2>. QED
    BY <1>1, <2>1 DEF UnitsInv, InPipe, Fresh
<1>. QED
  BY <1>2, <1>3

(* The stall and the port of dmem.                                                         *)
LEMMA PortsHeldStep ==
  ASSUME UnitsInv, UnitsNext
  PROVE  PortsHeld'
<1>1. PICK ack \in BOOLEAN, d \in {wb_adr_o, Other} : Cycle(ack, d)
  BY Edge
<1>2. /\ TypeOK /\ Handshake /\ StallIsOwed /\ PortIsFree
  BY DEF UnitsInv, Handshake
<1>3. dmem_en => Bursting /\ Busy
  BY <1>2 DEF PortIsFree, Bursting, Busy
<1>4. ASSUME m_if_stall_r', dmem_en' PROVE pipe_1'.op = "burst"
  <2>1. ~m_if_ack
    BY <1>1, <1>2, <1>4, StallStep
  <2>2. CASE m_if_stall_r
    <3>1. ~clk_en /\ Busy
      BY <1>2, <2>1, <2>2 DEF StallIsOwed, Waited, clk_en
    <3>2. dmem_en
      BY <1>1, <1>2, <1>4, <3>1, FsmStep
    <3>. QED
      BY <2>2, <3>1, <3>2, PipeMoves DEF UnitsInv, PortsHeld
  <2>3. CASE ~m_if_stall_r
    <3>1. WaitsFor(req) /\ req # NoRequest
      BY <1>1, <1>2, <1>4, <2>1, <2>3, StallStep
    <3>2. pipe_1' = req
      BY <1>2, <2>3, <3>1, HeldAlone, PipeMoves
    <3>3. CASE ~Busy
      BY <1>1, <1>2, <1>3, <1>4, <3>1, <3>2, <3>3, StartStep
    <3>4. CASE Busy
      <4>1. Bursting
        BY <1>1, <1>2, <1>3, <1>4, <3>4, FsmStep
      <4>2. JustStarted
        BY <1>2, <2>3, <3>1, <3>4, <4>1 DEF StallIsOwed, Waited, NowaitBurst
      <4>. QED
        BY <1>2, <3>1, <3>2, <4>1, <4>2, RequestKinds DEF JustStarted, Bursting
    <3>. QED
      BY <3>3, <3>4
  <2>. QED
    BY <2>2, <2>3
<1>5. ASSUME resolve_cycle_r'
      PROVE  /\ stage_1'.lsu_1.op # "ld"
             /\ m_if_stall_r' => pipe_1'.op = "burst"
             /\ ~m_if_stall_r' => /\ stage_0'.lsu_1.op = "st" /\ stage_0'.lsu_0.op \notin UsesDmem
                                  /\ doa_r' = doa_w'
  <2>1. dmem_stall_req /\ dmem_en /\ ~clk_en
    BY <1>5, PipeMoves DEF dmem_stall_req, clk_en
  <2>2. UNCHANGED <<stage_0, stage_1, pipe_1>>
    BY <2>1, StandsStill, PipeMoves
  <2>3. stage_1.lsu_1.op # "ld"
    BY <2>1 DEF UnitsInv, PortIsLeft
  <2>4. CASE m_if_stall_r
    <3>1. ~m_if_ack
      BY <1>2, <1>3, <2>1 DEF StallIsOwed
    <3>2. m_if_stall_r'
      BY <1>1, <1>2, <2>4, <3>1, StallStep
    <3>3. pipe_1.op = "burst"
      BY <2>1, <2>4 DEF UnitsInv, PortsHeld
    <3>. QED
      BY <2>2, <2>3, <3>2, <3>3
  <2>5. CASE ~m_if_stall_r
    <3>1. req = NoRequest
      BY <1>2, <2>1, <2>5, HeldAlone
    <3>2. ~m_if_stall_r'
      BY <1>1, <1>2, <2>5, <3>1, StallStep
    <3>3. stage_0.lsu_1.op = "st" /\ stage_0.lsu_0.op \notin UsesDmem
      BY <2>1, <2>5 DEF UnitsInv, PortIsLeft
    <3>4. doa_r' = doa_w'
      BY <2>1, <2>5, HeldPorts
    <3>. QED
      BY <2>2, <2>3, <3>2, <3>3, <3>4
  <2>. QED
    BY <2>4, <2>5
<1>. QED
  BY <1>4, <1>5 DEF PortsHeld

LEMMA UnitsInvStep ==
  ASSUME UnitsInv, [UnitsNext]_execVars
  PROVE  UnitsInv'
<1>1. CASE UnitsNext
  <2>1. BusIsFree' /\ SpecialNotHeld' /\ PortIsLeft'
    BY <1>1 DEF UnitsNext
  <2>. QED
    BY <1>1, <2>1, CoreStep, RegisterStep, InPipeStep, PortsHeldStep DEF UnitsInv
<1>2. CASE UNCHANGED execVars
  <2>. USE <1>2 DEF execVars, unitVars, vars, dspVars
  <2>1. TypeOK' /\ Handshake'
    BY DEF UnitsInv, TypeOK, Handshake, StallIsOwed, PortIsFree, LoadOnItsWay, NoStrayAck,
           JustStarted, WaitsFor, Waited, NowaitBurst, Busy, Bursting, SharesPort, clk_en,
           dmem_stall_req, req
  <2>2. InPipe' /\ (stage_0' \in Bundles \/ Fresh')
    BY DEF UnitsInv, InPipe, Fresh, TodoInFlow
  <2>3. IsFile(acc') /\ PortsHeld' /\ BusIsFree' /\ SpecialNotHeld' /\ PortIsLeft'
    BY DEF UnitsInv, IsFile, PortsHeld, BusIsFree, SpecialNotHeld, PortIsLeft, clk_en,
           dmem_stall_req
  <2>. QED
    BY <2>1, <2>2, <2>3 DEF UnitsInv
<1>. QED
  BY <1>1, <1>2

LEMMA InitUnits == UnitsInit => UnitsInv
<1>. SUFFICES ASSUME UnitsInit PROVE UnitsInv
  OBVIOUS
<1>1. TypeOK /\ Handshake
  BY InitTypes, InitHandshake DEF UnitsInit
<1>2. /\ pipe_0 = Empty /\ pipe_1 = NoRequest /\ m_if_stall_r /\ ~dmem_en /\ ~resolve_cycle_r
  BY DEF UnitsInit, Init, Reset
<1>3. /\ stage_0 = NoBundle /\ stage_1.bundle = NoBundle
      /\ stage_1.lsu_0.op = "none" /\ stage_1.lsu_1.op = "none"
      /\ stage_1.cu_0 = Idle /\ stage_1.cu_1 = Idle /\ stage_1.bmu = Idle
      /\ stage_2 = [k \in Results |-> Executed(Idle, 0)]
  BY DEF UnitsInit, Results
<1>4. IsFile(acc)
  BY DEF UnitsInit, IsFile
<1>5. InPipe
  <2>1. Fits(NoBundle)
    BY DEF Fits, NoBundle, NoOp, Op, ReadsAcc, Moves, SpecialOf
  <2>2. (NoBundle.lsu_1.op \in UsesDmem) = FALSE
    BY DEF NoBundle, NoOp, Op, UsesDmem
  <2>3. pipe_0 = [req |-> NoRequest, lsu_1 |-> NoBundle.lsu_1.op \in UsesDmem]
    BY <1>2, <2>2 DEF Empty
  <2>4. NoBundle.req = NoRequest /\ NoBundle.lsu_0.op = "none" /\ NoBundle.lsu_1.op = "none"
    BY DEF NoBundle, NoOp, Op
  <2>5. stage_1.bmu.op = "none" /\ stage_2.bmu.op = "none"
    BY <1>3 DEF Results, Executed, Idle
  <2>. QED
    BY <1>2, <1>3, <2>1, <2>3, <2>4, <2>5 DEF InPipe
<1>6. Fresh
  BY <1>3 DEF Fresh, TodoInFlow, Results
<1>7. PortsHeld
  BY <1>2 DEF PortsHeld
<1>8. BusIsFree /\ SpecialNotHeld /\ PortIsLeft
  BY <1>2, <1>3 DEF BusIsFree, SpecialNotHeld, PortIsLeft, Moves, SpecialOf, dmem_stall_req
<1>. QED
  BY <1>1, <1>4, <1>5, <1>6, <1>7, <1>8 DEF UnitsInv

(* How the units, the stall and the ports of dmem fit together in every cycle, for every   *)
(* set of packets that keeps U1 to U4 and is prudent.                                        *)
THEOREM UnitsInvTheorem == UnitsSpec => []UnitsInv
BY InitUnits, UnitsInvStep, PTL DEF UnitsSpec

-----------------------------------------------------------------------------
(* The units implement PacketFlow.                                               *)

LEMMA InitFlow == UnitsInit => Flow!Init
<1>. SUFFICES ASSUME UnitsInit PROVE Flow!Init
  OBVIOUS
<1>1. UnitsInv
  BY InitUnits
<1>2. Fresh
  BY DEF UnitsInit, Fresh, TodoInFlow, Results
<1>3. /\ stage_1.lsu_0.op = "none" /\ stage_1.lsu_1.op = "none"
      /\ stage_2.cu_0.op = "none" /\ stage_2.cu_1.op = "none" /\ stage_2.bmu.op = "none"
  BY DEF UnitsInit, Executed, Idle
<1>4. ~Lsu0Now.on /\ ~Lsu1Now.on /\ ~Cu0Now.on /\ ~SharedPort.on
  BY <1>3 DEF Lsu0Now, Lsu1Now, Cu0Now, SharedPort, LsuPort, ResultPort, Write, WritesAcc
<1>5. AccInFlow = acc
  BY <1>4, FlowFile DEF Written, Overlay
<1>6. PredNow = pred
  BY <1>3 DEF PredNow, AfterCompares
<1>7. SpecialInFlow = NoWrite
  BY <1>3 DEF SpecialInFlow, SpecialWrite, SpecialOf
<1>8. TodoInFlow = [cu_0 |-> Flow!Idle, cu_1 |-> Flow!Idle, bmu |-> Flow!Idle]
  BY <1>2 DEF Fresh, Results, Idle, Flow!Idle
<1>9. NoBundle = Flow!Nothing
  BY DEF NoBundle, Flow!Nothing, NoRequest, NoOp, Op, Flow!NoOp, Flow!Op
<1>10. /\ acc = [r \in Accs |-> 0] /\ pred = 0 /\ ctl = 0 /\ mem = 1
  BY DEF UnitsInit
<1>. QED
  BY <1>2, <1>5, <1>6, <1>7, <1>8, <1>9, <1>10
  DEF Flow!Init, Fresh, NoWrite, Flow!NoWrite, Accs, Flow!Accs

LEMMA FlowStep ==
  ASSUME UnitsInv, [UnitsNext]_execVars
  PROVE  [Flow!Next]_Flow!flowVars
<1>1. CASE UnitsNext /\ clk_en /\ stage_0 \in Bundles
  BY <1>1, PacketStep DEF Flow!Next
<1>2. CASE UnitsNext /\ clk_en /\ Fresh
  BY <1>2, EmptyStep
<1>3. CASE UnitsNext /\ ~clk_en
  BY <1>3, StandsStill DEF Flow!flowVars
<1>4. CASE UNCHANGED execVars
  BY <1>4 DEF execVars, unitVars, vars, dspVars, Flow!flowVars, AccInFlow, TodoInFlow, SpecialInFlow,
     AccNow, PredNow, AfterCompares, LsuPort, LsuData, ResultPort, SharedPort, SpecialWrite,
     rd_data_0, rd_data_1
<1>. QED
  BY <1>1, <1>2, <1>3, <1>4 DEF UnitsInv

(* However long the core stands still, and wherever in a sequence of packets: every      *)
(* unit of ajardsp_top.v reads what the instruction set's latencies say, and every result  *)
(* lands once.  For every set of packets within U1 to U4, every word an external load can    *)
(* have and every bus that keeps the promise of DspOnBus.                                     *)
THEOREM UnitsImplementPackets == UnitsSpec => ImplementsPackets
BY InitFlow, FlowStep, UnitsInvTheorem, PTL DEF UnitsSpec, ImplementsPackets, Flow!FlowSpec
=============================================================================
