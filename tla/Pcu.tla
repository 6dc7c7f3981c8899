--------------------------------- MODULE Pcu ---------------------------------
(***************************************************************************)
(* Program control (rtl/verilog/pcu.v) on top of the fetch stage: jumps    *)
(* with 0, 1 or 2 delay slots, calls, block repeat and the interrupt.      *)
(*                                                                         *)
(* One step is one clock edge with clk_en = 1 of both files.  The program  *)
(* is not fixed: each cycle the decoder may show a bundle of any length    *)
(* with any control instruction in it, so every program is covered.  The   *)
(* decoder's inst carries what the PCU acts on: the operation, its 16-bit  *)
(* operand, the number of delay slots and whether its predicate will hold. *)
(* A 32-bit jump or call whose predicate fails changes no register and is  *)
(* a NOP; BKREP sets its registers even then.                              *)
(***************************************************************************)
EXTENDS VliwFetch

CONSTANTS
  Ops,            \* the control operations programs use
  Targets,        \* operands of CALL, JUMP and BKREP
  BundleLengths,  \* lengths of bundles programs use
  RepeatCounts    \* values written to BKREP_CNT

AllOps == {"BKREP", "CALL_ABS", "RETS", "JUMP_ABS", "RETI", "EINT", "DINT",
           "HALT"}
Jumps == {"CALL_ABS", "JUMP_ABS", "RETS", "RETI"}

ASSUME PcuAssumption ==
  /\ Ops \subseteq AllOps
  /\ Targets \subseteq Addr
  /\ BundleLengths \subseteq Lengths
  /\ RepeatCounts \subseteq Nat
  /\ 4 \in Addr      \* the interrupt vector is in memory

VARIABLES
  inst_pipe_0_r,       \* the control instruction being executed
  call_pipe_1_r,       \* inst_pipe_1_r is a call that was taken
  req_dslots_pipe_r,   \* the delay slots it asked for
  prev_pc_r,           \* pc one cycle ago
  retpc_r, retipc_r,   \* return addresses of calls and of the interrupt
  bkrep_begin_pc_r, bkrep_end_pc_r, bkrep_cnt_r,
  dslot_r,             \* 2-bit shift register: 3, 1, 0 after a jump
  interrupt_dslot_r,   \* the cycle after an acknowledge
  interrupt_enable_r,
  invalidate_dslot_r   \* the second delay slot is suppressed

pcuVars == <<inst_pipe_0_r, call_pipe_1_r, req_dslots_pipe_r, prev_pc_r,
             retpc_r, retipc_r, bkrep_begin_pc_r, bkrep_end_pc_r, bkrep_cnt_r,
             dslot_r, interrupt_dslot_r, interrupt_enable_r,
             invalidate_dslot_r>>
vars == <<fetchVars, pcuVars>>

-----------------------------------------------------------------------------
Nop == [op |-> "NOP", opnd |-> 0, dslots |-> 2, ok |-> TRUE]

Insts == {Nop}
  \cup [op : Ops \cap {"CALL_ABS", "JUMP_ABS"}, opnd : Targets,
        dslots : 0 .. 2, ok : {TRUE}]
  \cup [op : Ops \cap {"RETS", "RETI"}, opnd : {0}, dslots : 0 .. 2, ok : {TRUE}]
  \cup [op : Ops \cap {"BKREP"}, opnd : Targets, dslots : {2}, ok : BOOLEAN]
  \cup [op : Ops \cap {"EINT", "DINT", "HALT"}, opnd : {0}, dslots : {2},
        ok : {TRUE}]

NoWrite == -1      \* no write to BKREP_CNT over the special-register bus

(* The combinational block.  A block-repeat jump is decided first, then    *)
(* the instruction in the pipe, and an interrupt only in their absence and *)
(* outside the two cycles that follow a jump.                              *)
BkrepHit == bkrep_cnt_r # 0 /\ bkrep_end_pc_r = pc
InstTaken == ~BkrepHit /\ inst_pipe_0_r.op # "NOP" /\ inst_pipe_0_r.ok
InstJumps == InstTaken /\ inst_pipe_0_r.op \in Jumps
(* Mutant of InterruptAck: an interrupt may follow a jump at once.         *)
InterruptAckAnySlot(req) ==
  /\ req
  /\ ~BkrepHit
  /\ ~InstTaken
  /\ interrupt_enable_r

InterruptAck(req) ==
  /\ req
  /\ ~BkrepHit
  /\ ~InstTaken
  /\ dslot_r % 2 = 0
  /\ interrupt_enable_r

InstTarget == CASE inst_pipe_0_r.op = "RETS" -> retpc_r
                [] inst_pipe_0_r.op = "RETI" -> retipc_r
                [] OTHER -> inst_pipe_0_r.opnd

jump_en(req) == BkrepHit \/ InstJumps \/ InterruptAck(req)
jump_pc == IF BkrepHit THEN bkrep_begin_pc_r
           ELSE IF InstJumps THEN InstTarget
           ELSE 4
req_dslots == IF InstJumps THEN inst_pipe_0_r.dslots ELSE 2

invalidate_insns(req) ==
  \/ interrupt_dslot_r = 1
  \/ InterruptAck(req)
  \/ req_dslots = 0
  \/ invalidate_dslot_r

(* A bundle leaves the stage with effect.                                  *)
Issues(req) == InstValid /\ ~invalidate_insns(req)

-----------------------------------------------------------------------------
PcuInit ==
  /\ inst_pipe_0_r = Nop
  /\ call_pipe_1_r = FALSE
  /\ req_dslots_pipe_r = 0
  /\ prev_pc_r = 0
  /\ retpc_r = 0 /\ retipc_r = 0
  /\ bkrep_begin_pc_r = 0 /\ bkrep_end_pc_r = 0 /\ bkrep_cnt_r = 0
  /\ dslot_r = 0 /\ interrupt_dslot_r = 0
  /\ interrupt_enable_r = FALSE
  /\ invalidate_dslot_r = FALSE

Pipeline(inst) ==
  /\ inst_pipe_0_r' = inst
  /\ call_pipe_1_r' = (inst_pipe_0_r.op = "CALL_ABS" /\ inst_pipe_0_r.ok)
  /\ req_dslots_pipe_r' = req_dslots
  /\ prev_pc_r' = pc

(* Mutants of DelaySlots: the shift register runs the wrong way, or covers *)
(* one cycle only.                                                         *)
DelaySlotsLeft(req) ==
  /\ dslot_r' = IF jump_en(req) THEN 3 ELSE (2 * dslot_r) % 4
  /\ invalidate_dslot_r' = (req_dslots \in {0, 1})
  /\ interrupt_dslot_r' = IF InterruptAck(req) THEN 1 ELSE 0

DelaySlotsShort(req) ==
  /\ dslot_r' = IF jump_en(req) THEN 1 ELSE dslot_r \div 2
  /\ invalidate_dslot_r' = (req_dslots \in {0, 1})
  /\ interrupt_dslot_r' = IF InterruptAck(req) THEN 1 ELSE 0

DelaySlots(req) ==
  /\ dslot_r' = IF jump_en(req) THEN 3 ELSE dslot_r \div 2
  /\ invalidate_dslot_r' = (req_dslots \in {0, 1})
  /\ interrupt_dslot_r' = IF InterruptAck(req) THEN 1 ELSE 0

(* Mutant of ReturnAddresses: every call returns behind two delay slots.   *)
ReturnAddressesTwoSlots(len, req) ==
  /\ retpc_r' = IF call_pipe_1_r THEN next_pc(len) ELSE retpc_r
  /\ retipc_r' = IF InterruptAck(req) THEN pc ELSE retipc_r

(* What a call returns to: the bundle behind its last delay slot.          *)
ReturnAddresses(len, req) ==
  /\ retpc_r' = IF ~call_pipe_1_r THEN retpc_r
                ELSE CASE req_dslots_pipe_r = 0 -> prev_pc_r
                       [] req_dslots_pipe_r = 1 -> pc
                       [] OTHER -> next_pc(len)
  /\ retipc_r' = IF InterruptAck(req) THEN pc ELSE retipc_r

InterruptEnable(req) ==
  interrupt_enable_r' =
    IF InterruptAck(req) THEN FALSE
    ELSE CASE inst_pipe_0_r.op \in {"RETI", "EINT"} -> TRUE
           [] inst_pipe_0_r.op = "DINT" -> FALSE
           [] OTHER -> interrupt_enable_r

(* Mutant of BlockRepeat: a suppressed bundle at the loop end is counted.  *)
BlockRepeatSuppressed(req, count) ==
  IF inst_pipe_0_r.op = "BKREP"
  THEN /\ bkrep_begin_pc_r' = pc
       /\ bkrep_end_pc_r' = inst_pipe_0_r.opnd
       /\ UNCHANGED bkrep_cnt_r
  ELSE /\ bkrep_cnt_r' = IF BkrepHit THEN bkrep_cnt_r - 1
                         ELSE IF count # NoWrite THEN count
                         ELSE bkrep_cnt_r
       /\ UNCHANGED <<bkrep_begin_pc_r, bkrep_end_pc_r>>

(* One of three writes wins: BKREP itself, the count-down, the bus.        *)
BlockRepeat(req, count) ==
  IF inst_pipe_0_r.op = "BKREP"
  THEN /\ bkrep_begin_pc_r' = pc
       /\ bkrep_end_pc_r' = inst_pipe_0_r.opnd
       /\ UNCHANGED bkrep_cnt_r
  ELSE /\ bkrep_cnt_r' = IF BkrepHit /\ ~invalidate_insns(req)
                         THEN bkrep_cnt_r - 1
                         ELSE IF count # NoWrite THEN count
                         ELSE bkrep_cnt_r
       /\ UNCHANGED <<bkrep_begin_pc_r, bkrep_end_pc_r>>

(* One clock edge: the decoder shows inst in a bundle of len halfwords,    *)
(* the interrupt request is req, the bus writes count to BKREP_CNT.        *)
Cycle(len, inst, req, count) ==
  /\ FetchCycle(len, jump_en(req), jump_pc)
  /\ Pipeline(inst)
  /\ DelaySlots(req)
  /\ ReturnAddresses(len, req)
  /\ InterruptEnable(req)
  /\ BlockRepeat(req, count)

Init == FetchInit /\ PcuInit

(* A bundle that does not issue hands no instruction to the pipe.          *)
Decoded(req) == IF Issues(req) THEN Insts ELSE {Nop}

Next == \E len \in BundleLengths, req \in BOOLEAN,
           count \in RepeatCounts \cup {NoWrite} :
          \E inst \in Decoded(req) : Cycle(len, inst, req, count)

Spec == Init /\ [][Next]_vars

-----------------------------------------------------------------------------
PcuTypeOK ==
  /\ FetchTypeOK
  /\ inst_pipe_0_r \in Insts
  /\ call_pipe_1_r \in BOOLEAN
  /\ req_dslots_pipe_r \in 0 .. 2
  /\ {prev_pc_r, retpc_r, retipc_r, bkrep_begin_pc_r, bkrep_end_pc_r}
       \subseteq Addr
  /\ bkrep_cnt_r \in Nat
  /\ dslot_r \in {0, 1, 3}
  /\ interrupt_dslot_r \in {0, 1}
  /\ interrupt_enable_r \in BOOLEAN
  /\ invalidate_dslot_r \in BOOLEAN

(* An acknowledged interrupt is never lost: the fetch stage, which looks   *)
(* at jump_en only while RUNNING, is RUNNING whenever the PCU acknowledges *)
(* one.  Otherwise the acknowledge would clear the enable and overwrite    *)
(* the return address without the handler being entered.  Holds for every  *)
(* program, also one with jumps in delay slots.                            *)
AckIsAccepted == \A req \in BOOLEAN : InterruptAck(req) => fetch_state = "RUNNING"

(* Why: the stage is JUMPING or PRIMING behind a jump only while dslot_r   *)
(* blocks interrupts, and behind the reset nothing can have enabled them.  *)
JumpShadow ==
  /\ fetch_state = "JUMPING" => dslot_r = 3
  /\ fetch_state = "PRIMING_QUEUE_1" => dslot_r % 2 = 1 \/ ~interrupt_enable_r
  /\ fetch_state = "PRIMING_QUEUE_0" =>
       ~interrupt_enable_r /\ inst_pipe_0_r = Nop
=============================================================================
