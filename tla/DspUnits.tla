------------------------------ MODULE DspUnits ------------------------------
(* The units of the core behind the stall and the bus interface of DspOnBus:   *)
(* LSU 0 and 1 (read and access dmem in stage 0, write in stage 1), CU 0 and 1   *)
(* and the BMU (read in stage 0, execute in stage 1, write in stage 2), the ports  *)
(* of accrf.v they share, pred.v, a control register (satctrl or mulsign of         *)
(* curegs.v), and the two ports of dmem.v.  The pipelines stop with clk_en; the       *)
(* register files do not, and are written again in every cycle of a stall.              *)
EXTENDS DspOnBus, UnitOps

CONSTANTS Bundles,    \* the packets of programs: [req, lsu_0, lsu_1, cu_0, cu_1, bmu]
          BurstCells, \* the value of the dmem cells that bursts access
          Word(_)     \* the value of an external word

(* LSU 0 has the external accesses: a load is an operation of its own, a store or a    *)
(* burst leaves it no other.                                                              *)
ASSUME DspUnitsAssumption ==
    \A b \in Bundles :
       /\ b.lsu_0.op \in LsuOps \cup {"ldext"} /\ b.lsu_1.op \in LsuOps
       /\ b.lsu_0.op = "ldext" => b.req.op = "read"
       /\ b.req # NoRequest => b.lsu_0.op \in {"none", "ldext"}
       /\ b.cu_0.op \in CuOps /\ b.cu_1.op \in CuOps /\ b.bmu.op \in BmuOps
       /\ \A u \in {b.lsu_0, b.lsu_1, b.cu_0, b.cu_1, b.bmu} : {u.src, u.dst} \subseteq Accs

VARIABLES
    acc, pred, ctl, mem,
    doa_w, dob_w, doa_r,   \* output registers of the two ports of the RAM, and the copy of A
    stage_0,               \* inst_pipe_0_r of the units
    stage_1,               \* inst_pipe_1_r with what stage 0 has read
    stage_2                \* inst_pipe_2_r and res_r of the CUs and the BMU

unitVars == <<acc, pred, ctl, mem, doa_w, dob_w, doa_r, stage_0, stage_1, stage_2>>
execVars == <<vars, unitVars>>

NoBundle == [req |-> NoRequest, lsu_0 |-> NoOp, lsu_1 |-> NoOp,
             cu_0 |-> NoOp, cu_1 |-> NoOp, bmu |-> NoOp]

----------------------------------------------------------------------------
(* dmem.v *)

rd_data_0 == IF resolve_cycle_r THEN doa_r ELSE doa_w
rd_data_1 == IF resolve_cycle_r THEN doa_w ELSE dob_w

(* The register files: every write port drives in every cycle. *)
LsuData(k, rd_data, ext) ==
    CASE stage_1[k].op = "ldext" -> ext
      [] stage_1[k].op = "ld"    -> rd_data
      [] OTHER                   -> stage_1[k].val

LsuPort(k, rd_data, ext) ==
    Write(stage_1[k].op \in WritesAcc /\ stage_1[k].commit, stage_1[k].dst, LsuData(k, rd_data, ext))

PredNow == AfterCompares(pred, stage_2.cu_0, stage_2.cu_1)

ResultPort(u) == Write(u.op \in WritesAcc /\ Committed(u, PredNow), u.dst, u.res)

(* CU 1 and the BMU share the last write port: the BMU goes first. *)
SharedPort == IF ResultPort(stage_2.bmu).on THEN ResultPort(stage_2.bmu) ELSE ResultPort(stage_2.cu_1)

(* What a reader sees, given the word an external load has: the registers and the   *)
(* writes of this cycle (the bypass).  The readers below take it as "seen".             *)
AccNow(ext) ==
    LET lsu_0 == Overlay(acc, LsuPort("lsu_0", rd_data_0, ext))
        lsu_1 == Overlay(lsu_0, LsuPort("lsu_1", rd_data_1, ext))
        cu_0 == Overlay(lsu_1, ResultPort(stage_2.cu_0))
    IN  Overlay(cu_0, SharedPort)

(* Read ports: the BMU takes those of CU 1, the third operand of a CU that of an LSU. *)
Cu1Source == IF stage_0.bmu.op # "none" THEN stage_0.bmu.src ELSE stage_0.cu_1.src
Lsu0Source == IF stage_0.cu_1.op = "mac" THEN stage_0.cu_1.dst ELSE stage_0.lsu_0.src
Lsu1Source == IF stage_0.cu_0.op = "mac" THEN stage_0.cu_0.dst ELSE stage_0.lsu_1.src

(* The special-register bus: LSU 0 has all of it whenever it reads (stage 0) or       *)
(* writes (stage 1), and its addresses and enables then stand for both.  A read of      *)
(* LSU 1 then shows the register that LSU 0 reads, or a bus that nobody drives.           *)
SpecialWrite(k) ==
    IF SpecialOf(stage_1[k].op) # "none" /\ stage_1[k].commit
    THEN [reg |-> SpecialOf(stage_1[k].op), val |-> stage_1[k].val] ELSE NoWrite

Lsu0HasBus == stage_0.lsu_0.op = "mvfs" \/ SpecialWrite("lsu_0") # NoWrite

SpecialPort == IF Lsu0HasBus THEN SpecialWrite("lsu_0") ELSE SpecialWrite("lsu_1")
Lsu1Reads == IF Lsu0HasBus THEN {0, 1} ELSE {ctl}

Registers(seen) ==
    /\ acc' = seen
    /\ pred' = IF SpecialPort.reg = "pred" THEN SpecialPort.val ELSE PredNow
    /\ ctl' = IF SpecialPort.reg = "ctl" THEN SpecialPort.val ELSE ctl

----------------------------------------------------------------------------
(* An access of an LSU on a port of the RAM, which shows what it writes. *)
Access(seen, u, source, out) == IF u.op = "st" THEN seen[source] ELSE IF u.op = "ld" THEN mem ELSE out

(* Mutant of PortA: LSU 1 is not given the port in the second cycle of a conflict. *)
PortALsu0 == [u |-> stage_0.lsu_0, source |-> Lsu0Source]

(* Port A belongs to LSU 0, and to LSU 1 in the second cycle of a bank conflict. *)
PortA == IF resolve_cycle_r THEN [u |-> stage_0.lsu_1, source |-> Lsu1Source]
                            ELSE [u |-> stage_0.lsu_0, source |-> Lsu0Source]

(* Port B belongs to a burst while it has dmem, else to LSU 1.  The clock enable of    *)
(* the RAM is also up while a burst has dmem.                                            *)
Dmem(seen) ==
    LET en == clk_en \/ dmem_en
        stores == (IF PortA.u.op = "st" THEN {seen[PortA.source]} ELSE {})
                  \cup (IF ~dmem_en /\ stage_0.lsu_1.op = "st" THEN {seen[Lsu1Source]} ELSE {})
    IN  /\ doa_w' = IF en THEN Access(seen, PortA.u, PortA.source, doa_w) ELSE doa_w
        /\ dob_w' = IF dmem_en THEN BurstCells
                    ELSE IF en THEN Access(seen, stage_0.lsu_1, Lsu1Source, dob_w) ELSE dob_w
        /\ doa_r' = doa_w
        /\ mem' \in IF en /\ stores # {} THEN stores ELSE {mem}

----------------------------------------------------------------------------
(* What a unit carries into stage 1: with its predicate, which LSUs test in stage 0. *)
LsuFetch(seen, u, source, special) ==
    [op |-> u.op, dst |-> u.dst, commit |-> Committed(u, PredNow),
     val |-> IF u.op = "mvfs" THEN special ELSE seen[source]]

Stage1(seen, special) ==
    [bundle |-> stage_0,
     lsu_0 |-> LsuFetch(seen, stage_0.lsu_0, Lsu0Source, ctl),
     lsu_1 |-> LsuFetch(seen, stage_0.lsu_1, Lsu1Source, special),
     cu_0 |-> Fetched(stage_0.cu_0, seen[stage_0.cu_0.src], seen[stage_0.cu_0.dst]),
     cu_1 |-> Fetched(stage_0.cu_1, seen[Cu1Source], seen[stage_0.cu_1.dst]),
     bmu |-> Fetched(stage_0.bmu, seen[stage_0.bmu.src], seen[stage_0.bmu.dst])]

Stage2 == [k \in {"cu_0", "cu_1", "bmu"} |-> Executed(stage_1[k], ctl)]

Stages(seen) ==
    IF clk_en
    THEN /\ stage_0' \in Bundles
         /\ \E special \in Lsu1Reads : stage_1' = Stage1(seen, special)
         /\ stage_2' = Stage2
    ELSE UNCHANGED <<stage_0, stage_1, stage_2>>

(* The bus interface sees of a packet its external access and whether LSU 1 uses dmem. *)
InStep == pipe_0' = [req |-> stage_0'.req, lsu_1 |-> stage_0'.lsu_1.op \in UsesDmem]

UnitsInit ==
    /\ Init
    /\ acc = [r \in Accs |-> 0] /\ pred = 0 /\ ctl = 0 /\ mem = 1
    /\ doa_w = 0 /\ dob_w = 0 /\ doa_r = 0
    /\ stage_0 = NoBundle
    /\ stage_1 = [bundle |-> NoBundle, lsu_0 |-> [op |-> "none", dst |-> "a", commit |-> TRUE, val |-> 0],
                  lsu_1 |-> [op |-> "none", dst |-> "a", commit |-> TRUE, val |-> 0],
                  cu_0 |-> Idle, cu_1 |-> Idle, bmu |-> Idle]
    /\ stage_2 = [k \in {"cu_0", "cu_1", "bmu"} |-> Executed(Idle, 0)]

UnitsCycle ==
    \E seen \in {AccNow(Word(read_data))} :
        Stages(seen) /\ InStep /\ PrudentNext /\ Registers(seen) /\ Dmem(seen)

----------------------------------------------------------------------------
(* What the pipelines ask of programs: without any of U1 to U4 the units do something  *)
(* else than PacketFlow.  ajar_quickref.txt limits a packet to two CUs and one BMU, to    *)
(* one access to a special register "per cycle" and to less than six read ports; no         *)
(* document states more, and nothing enforces it.                                             *)

ReadsAcc(u) == u.op \in {"st", "mv", "mvts_pred", "mvts_ctl"}
Moves(u) == SpecialOf(u.op) # "none"

(* U1. No two units of a packet need one port. *)
Fits(b) ==
    /\ b.bmu.op = "none" \/ b.cu_1.op = "none"
    /\ b.cu_0.op = "mac" => ~ReadsAcc(b.lsu_1)
    /\ b.cu_1.op = "mac" => ~ReadsAcc(b.lsu_0)
    /\ Moves(b.lsu_1) => ~Moves(b.lsu_0)
    /\ b.lsu_1.op = "mvfs" => b.lsu_0.op # "mvfs"

(* U2. An LSU does not read a special register in the packet after one in which the    *)
(* other LSU writes one: LSU 0 would take the bus from the write, or the write from the   *)
(* read of LSU 1.                                                                           *)
BusIsFree ==
    /\ Moves(stage_1.lsu_1) => stage_0.lsu_0.op # "mvfs"
    /\ Moves(stage_1.lsu_0) => stage_0.lsu_1.op # "mvfs"

(* U3. The packet that a stall holds in stage 1 writes no special register: the units   *)
(* behind it would see the new value if the stall lasts, and not if there is none.        *)
SpecialNotHeld == ~clk_en => ~Moves(stage_1.lsu_0) /\ ~Moves(stage_1.lsu_1)

(* U4. LSU 1 does not load in the packet of a burst from or to dmem, nor does the next  *)
(* one store; and while a burst runs that is not waited for, LSU 1 only stores, in         *)
(* packets in which LSU 0 leaves dmem alone, and not right after a load.                     *)
PortIsLeft ==
    /\ dmem_en /\ m_if_stall_r => /\ stage_1.lsu_1.op # "ld"
                                 /\ stage_0.lsu_0.op # "st" /\ stage_0.lsu_1.op # "st"
    /\ dmem_stall_req /\ ~m_if_stall_r => /\ stage_0.lsu_1.op = "st"
                                          /\ stage_0.lsu_0.op \notin UsesDmem
                                          /\ stage_1.lsu_1.op # "ld"

UnitsNext ==
    /\ UnitsCycle
    /\ Fits(stage_0') /\ BusIsFree' /\ SpecialNotHeld' /\ PortIsLeft'

UnitsSpec == UnitsInit /\ [][UnitsNext]_execVars

(* The packets seen through the pipelines: a packet takes effect when it enters stage 1;  *)
(* an external load already counts as the word it waits for.                                *)
AccInFlow == AccNow(Word(pipe_1.adr))
TodoInFlow == [k \in {"cu_0", "cu_1", "bmu"} |-> stage_1[k]]
SpecialInFlow ==
    IF SpecialWrite("lsu_0") # NoWrite THEN SpecialWrite("lsu_0") ELSE SpecialWrite("lsu_1")

Flow == INSTANCE PacketFlow WITH
    Packets <- Bundles, acc <- AccInFlow, pred <- PredNow, todo <- TodoInFlow,
    special <- SpecialInFlow, last <- stage_1.bundle

(* However long the core stands still, and wherever in a sequence of packets: every    *)
(* unit reads what the instruction set's latencies say, and every result lands once.      *)
ImplementsPackets == Flow!FlowSpec
=============================================================================
