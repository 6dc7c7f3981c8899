---------------------------- MODULE PcuFlowProofs ----------------------------
(***************************************************************************)
(* Proofs about program control, for every instruction memory, every       *)
(* program and every pattern of interrupt requests.                        *)
(*                                                                         *)
(* The first part is about Pcu alone: the types, that an acknowledged      *)
(* interrupt is never lost, and that the theorems of the fetch stage carry *)
(* over to the stage driven by the PCU.  The second shows that the         *)
(* pipelined PCU implements ProgramFlow, for every program that keeps      *)
(* rules R1, R2 and R3 of PcuFlow and every write of BKREP_CNT.            *)
(***************************************************************************)
EXTENDS PcuFlow, VliwFetchProofs

(* What an instruction of the decoder can be.                              *)
LEMMA InstFields ==
  ASSUME NEW inst \in Insts
  PROVE  /\ inst.dslots \in 0 .. 2
         /\ inst.ok \in BOOLEAN
         /\ inst.op \in {"CALL_ABS", "JUMP_ABS", "BKREP"} => inst.opnd \in Addr
<1>1. CASE inst = Nop
  BY <1>1 DEF Nop
<1>2. CASE inst # Nop
  <2>0. inst.dslots \in 0 .. 2 \/ inst.dslots = 2
    BY <1>2 DEF Insts
  <2>1. inst.dslots \in 0 .. 2
    BY <2>0
  <2>3. inst.ok \in BOOLEAN
    BY <1>2 DEF Insts
  <2>2. inst.op \in {"CALL_ABS", "JUMP_ABS", "BKREP"} => inst.opnd \in Targets
    BY <1>2 DEF Insts
  <2> QED
    BY <2>1, <2>2, <2>3, PcuAssumption
<1> QED
  BY <1>1, <1>2

LEMMA NopIsInst == Nop \in Insts
BY DEF Insts

LEMMA ZeroIsAddr == 0 \in Addr /\ 0 \in WordAddr
BY WAssumption DEF Addr, WordAddr

(* The redirection the PCU asks for is an address, so a cycle of the whole *)
(* is a cycle of the fetch stage with some length and some jump.           *)
LEMMA JumpPcInAddr ==
  ASSUME PcuTypeOK
  PROVE  jump_pc \in Addr
<1>1. InstJumps => InstTarget \in Addr
  BY InstFields DEF InstJumps, InstTarget, PcuTypeOK, Jumps
<1> QED
  BY <1>1, PcuAssumption DEF jump_pc, PcuTypeOK

LEMMA CycleFetches ==
  ASSUME PcuTypeOK, [Next]_vars
  PROVE  [FetchNext]_fetchVars
<1>1. CASE UNCHANGED vars
  BY <1>1 DEF vars
<1>2. ASSUME NEW len \in BundleLengths, NEW req \in BOOLEAN, NEW count,
             NEW inst, Cycle(len, inst, req, count)
      PROVE  FetchNext
  <2>1. len \in Lengths /\ jump_pc \in Addr /\ jump_en(req) \in BOOLEAN
    BY PcuAssumption, JumpPcInAddr DEF jump_en, BkrepHit
  <2> QED
    BY <1>2, <2>1 DEF Cycle, FetchNext
<1> QED
  BY <1>1, <1>2 DEF Next

-----------------------------------------------------------------------------
(* One step per group of registers.                                        *)
LEMMA PcuTypesStep ==
  ASSUME PcuTypeOK, [Next]_vars
  PROVE  PcuTypeOK'
<1>1. FetchTypeOK'
  BY CycleFetches, TypesStep DEF PcuTypeOK
<1>2. CASE UNCHANGED vars
  BY <1>1, <1>2 DEF vars, pcuVars, PcuTypeOK, Insts, Nop
<1>3. ASSUME NEW len \in BundleLengths, NEW req \in BOOLEAN,
             NEW count \in RepeatCounts \cup {NoWrite},
             NEW inst \in Decoded(req), Cycle(len, inst, req, count)
      PROVE  PcuTypeOK'
  <2>1. inst_pipe_0_r' \in Insts' /\ call_pipe_1_r' \in BOOLEAN
    BY <1>3, NopIsInst DEF Cycle, Pipeline, Decoded, Insts, Nop
  <2>2. req_dslots \in 0 .. 2
    BY InstFields DEF req_dslots, PcuTypeOK
  <2>3. req_dslots_pipe_r' \in 0 .. 2 /\ prev_pc_r' \in Addr
    BY <1>3, <2>2 DEF Cycle, Pipeline, PcuTypeOK, FetchTypeOK
  <2>4. next_pc(len) \in Addr
    BY PlusInAddr, PcuAssumption DEF next_pc, PcuTypeOK, FetchTypeOK
  <2>5. retpc_r' \in Addr /\ retipc_r' \in Addr
    BY <1>3, <2>4 DEF Cycle, ReturnAddresses, PcuTypeOK, FetchTypeOK
  <2>6. /\ bkrep_begin_pc_r' \in Addr
        /\ bkrep_end_pc_r' \in Addr
        /\ bkrep_cnt_r' \in Nat
    <3>1. CASE inst_pipe_0_r.op = "BKREP"
      BY <1>3, <3>1, InstFields
         DEF Cycle, BlockRepeat, PcuTypeOK, FetchTypeOK
    <3>2. CASE inst_pipe_0_r.op # "BKREP"
      BY <1>3, <3>2, PcuAssumption
         DEF Cycle, BlockRepeat, PcuTypeOK, BkrepHit, NoWrite
    <3> QED
      BY <3>1, <3>2
  <2>7. /\ dslot_r' \in {0, 1, 3}
        /\ interrupt_dslot_r' \in {0, 1}
        /\ invalidate_dslot_r' \in BOOLEAN
    BY <1>3 DEF Cycle, DelaySlots, PcuTypeOK
  <2>8. interrupt_enable_r' \in BOOLEAN
    BY <1>3 DEF Cycle, InterruptEnable, PcuTypeOK
  <2> QED
    BY <1>1, <2>1, <2>3, <2>5, <2>6, <2>7, <2>8 DEF PcuTypeOK, Insts, Nop
<1> QED
  BY <1>2, <1>3 DEF Next

LEMMA PcuInitTypes == Init => PcuTypeOK
<1> SUFFICES ASSUME Init PROVE PcuTypeOK
  OBVIOUS
<1>1. FetchTypeOK
  BY InitTypes DEF Init
<1>2. inst_pipe_0_r \in Insts
  BY NopIsInst DEF Init, PcuInit
<1>3. {prev_pc_r, retpc_r, retipc_r, bkrep_begin_pc_r, bkrep_end_pc_r}
        \subseteq Addr
  BY ZeroIsAddr DEF Init, PcuInit
<1>4. /\ bkrep_cnt_r \in Nat /\ dslot_r \in {0, 1, 3}
      /\ req_dslots_pipe_r \in 0 .. 2 /\ interrupt_dslot_r \in {0, 1}
  BY DEF Init, PcuInit
<1>5. /\ call_pipe_1_r \in BOOLEAN
      /\ interrupt_enable_r \in BOOLEAN
      /\ invalidate_dslot_r \in BOOLEAN
  BY DEF Init, PcuInit
<1> QED
  BY <1>1, <1>2, <1>3, <1>4, <1>5 DEF PcuTypeOK

(* Every register of program control keeps to its values.                  *)
THEOREM PcuTypes == Spec => []PcuTypeOK
<1>1. PcuTypeOK /\ [Next]_vars => PcuTypeOK'
  BY PcuTypesStep
<1> QED
  BY <1>1, PcuInitTypes, PTL DEF Spec

(* The fetch stage driven by the PCU is a fetch stage: what is proved of   *)
(* it for arbitrary jump requests holds of the two together.               *)
THEOREM PcuImplementsFetch == Spec => FetchSpec
<1>1. PcuTypeOK /\ [Next]_vars => [FetchNext]_fetchVars
  BY CycleFetches
<1>2. Init => FetchInit
  BY DEF Init
<1> QED
  BY <1>1, <1>2, PcuTypes, PTL DEF Spec, FetchSpec

(* No program and no interrupt shows the decoder a wrong halfword.         *)
THEOREM PcuWindow == Spec => []WindowAtPc
BY PcuImplementsFetch, WindowTheorem, PTL

-----------------------------------------------------------------------------
(* Behind an accepted jump dslot_r counts along with the fetch stage; the  *)
(* stage is therefore never out of step when an interrupt is acknowledged. *)
LEMMA ShadowStep ==
  ASSUME PcuTypeOK, JumpShadow, [Next]_vars
  PROVE  JumpShadow'
<1>1. CASE UNCHANGED vars
  BY <1>1 DEF vars, fetchVars, pcuVars, JumpShadow, Nop
<1>2. ASSUME NEW len \in BundleLengths, NEW req \in BOOLEAN,
             NEW count \in RepeatCounts \cup {NoWrite},
             NEW inst \in Decoded(req), Cycle(len, inst, req, count)
      PROVE  JumpShadow'
  <2>1. dslot_r' = IF jump_en(req) THEN 3 ELSE dslot_r \div 2
    BY <1>2 DEF Cycle, DelaySlots
  <2>2. CASE PrimingQueue0
    <3>1. ~InterruptAck(req) /\ inst_pipe_0_r.op = "NOP"
      BY <2>2 DEF PrimingQueue0, JumpShadow, InterruptAck, Nop
    <3>2. ~interrupt_enable_r'
      BY <1>2, <2>2, <3>1
         DEF PrimingQueue0, JumpShadow, Cycle, InterruptEnable
    <3> QED
      BY <2>2, <3>2 DEF PrimingQueue0, JumpShadow
  <2>3. CASE PrimingQueue1
    BY <2>3 DEF PrimingQueue1, JumpShadow
  <2>4. CASE Jumping
    <3>1. dslot_r' \in {1, 3}
      BY <2>1, <2>4 DEF Jumping, JumpShadow
    <3>2. dslot_r' % 2 = 1
      <4>1. 1 % 2 = 1 /\ 3 % 2 = 1
        OBVIOUS
      <4> QED
        BY <3>1, <4>1
    <3>3. fetch_state' \in {"RUNNING", "PRIMING_QUEUE_1"}
      BY <2>4 DEF Jumping
    <3> QED
      BY <3>2, <3>3 DEF JumpShadow
  <2>5. CASE Running(len, jump_en(req), jump_pc)
    BY <2>1, <2>5 DEF Running, JumpShadow
  <2> QED
    BY <1>2, <2>2, <2>3, <2>4, <2>5 DEF Cycle, FetchCycle
<1> QED
  BY <1>1, <1>2 DEF Next

LEMMA ShadowInit == Init => JumpShadow
BY DEF Init, FetchInit, PcuInit, JumpShadow

(* The invariant behind the next theorem.                                  *)
THEOREM ShadowTheorem == Spec => []JumpShadow
<1>1. PcuTypeOK /\ JumpShadow /\ [Next]_vars => JumpShadow'
  BY ShadowStep
<1> QED
  BY <1>1, ShadowInit, PcuTypes, PTL DEF Spec

(* Whenever the PCU acknowledges an interrupt the fetch stage takes its    *)
(* jump: no program can lose an interrupt by where its jumps stand.        *)
THEOREM AckTheorem == Spec => []AckIsAccepted
<1>1. PcuTypeOK /\ JumpShadow => AckIsAccepted
  <2> SUFFICES ASSUME PcuTypeOK, JumpShadow, NEW req \in BOOLEAN,
                      InterruptAck(req)
               PROVE  fetch_state = "RUNNING"
    BY DEF AckIsAccepted
  <2> QED
    BY DEF InterruptAck, JumpShadow, PcuTypeOK, FetchTypeOK, States
<1> QED
  BY <1>1, PcuTypes, ShadowTheorem, PTL

-----------------------------------------------------------------------------

(* The second delay slot is suppressed.                                    *)
Suppressed == interrupt_dslot_r = 1 \/ invalidate_dslot_r

(* What the rules make of the pipeline: a jump or a BKREP reaches it only  *)
(* while the stage is RUNNING and nothing else is in flight.  FlowInv is   *)
(* inductive together with PcuTypeOK and JumpShadow.                       *)
OneInFlight ==
  /\ inst_pipe_0_r.op \in Jumps \cup {"BKREP"} => fetch_state = "RUNNING"
  /\ fetch_state # "JUMPING" => ~Suppressed /\ ~call_pipe_1_r
  /\ fetch_state = "JUMPING" =>
       /\ invalidate_dslot_r <=> req_dslots_pipe_r \in {0, 1}
       /\ interrupt_dslot_r = 1 => ~call_pipe_1_r

FlowInv ==
  /\ PcuTypeOK /\ JumpShadow
  /\ LoopEndIsSequential /\ LoopIsLong
  /\ OneInFlight

-----------------------------------------------------------------------------
(* What the refinement mapping is, phase by phase.                         *)
InstIsJump == inst_pipe_0_r.op \in Jumps

NoRedirection == [target |-> 0, slots |-> 0, call |-> FALSE]

(* Nothing is in flight.                                                   *)
ViewIdle ==
  fetch_state # "JUMPING" /\ ~InstIsJump =>
    /\ Pending = NoRedirection /\ NextToIssue = pc /\ ReturnPc = retpc_r

(* A jump is in the pipe.                                                  *)
ViewJump ==
  InstIsJump =>
    /\ inst_pipe_0_r.dslots = 0 =>
         /\ Pending = NoRedirection /\ NextToIssue = InstTarget
         /\ ReturnPc = IF inst_pipe_0_r.op = "CALL_ABS" THEN pc ELSE retpc_r
    /\ inst_pipe_0_r.dslots # 0 =>
         /\ Pending = [target |-> InstTarget, slots |-> inst_pipe_0_r.dslots,
                       call |-> inst_pipe_0_r.op = "CALL_ABS"]
         /\ NextToIssue = pc /\ ReturnPc = retpc_r

(* The stage is on its way to the target.                                  *)
ViewJumping ==
  fetch_state = "JUMPING" =>
    /\ Suppressed =>
         /\ Pending = NoRedirection /\ NextToIssue = jump_pc_r
         /\ ReturnPc = IF ~call_pipe_1_r THEN retpc_r
                       ELSE IF req_dslots_pipe_r = 0 THEN prev_pc_r ELSE pc
    /\ ~Suppressed =>
         /\ Pending = [target |-> jump_pc_r, slots |-> 1, call |-> call_pipe_1_r]
         /\ NextToIssue = pc /\ ReturnPc = retpc_r

(* The redirections of the PCU in the terms of OneInFlight.                *)
ViewPcu ==
  /\ InstJumps <=> InstIsJump
  /\ InstIsJump => /\ inst_pipe_0_r.ok /\ inst_pipe_0_r.dslots \in 0 .. 2
                   /\ fetch_state = "RUNNING" /\ ~BkrepHit
  /\ req_dslots = IF InstIsJump THEN inst_pipe_0_r.dslots ELSE 2
  /\ \A req \in BOOLEAN :
       /\ InterruptAck(req) =>
            fetch_state = "RUNNING" /\ ~BkrepHit /\ ~InstTaken /\ interrupt_enable_r
       /\ jump_en(req) <=> BkrepHit \/ InstIsJump \/ InterruptAck(req)
       /\ invalidate_insns(req) <=>
            Suppressed \/ InterruptAck(req)
              \/ (InstIsJump /\ inst_pipe_0_r.dslots = 0)
  /\ BkrepHit => /\ fetch_state = "RUNNING" \/ (fetch_state = "JUMPING" /\ Suppressed)
                 /\ ~InstIsJump

View == ViewIdle /\ ViewJump /\ ViewJumping /\ ViewPcu

LEMMA JumpFields ==
  ASSUME NEW inst \in Insts, inst.op \in Jumps
  PROVE  inst.ok /\ inst.op # "NOP" /\ inst.dslots \in 0 .. 2
<1>1. inst # Nop
  BY DEF Nop, Jumps
<1>2. inst.ok /\ inst.op # "NOP"
  BY <1>1 DEF Insts, Jumps
<1> QED
  BY <1>2, InstFields

LEMMA ViewLemma == FlowInv => View
<1> SUFFICES ASSUME FlowInv PROVE View
  OBVIOUS
<1> USE DEF InstIsJump
<1>1. InstIsJump => /\ inst_pipe_0_r.ok /\ inst_pipe_0_r.op # "NOP"
                    /\ inst_pipe_0_r.dslots \in 0 .. 2
                    /\ fetch_state = "RUNNING" /\ ~BkrepHit
  BY JumpFields DEF FlowInv, PcuTypeOK, OneInFlight, LoopEndIsSequential
<1>2. InstJumps <=> InstIsJump
  BY <1>1 DEF InstJumps, InstTaken
<1>3. req_dslots = IF InstIsJump THEN inst_pipe_0_r.dslots ELSE 2
  BY <1>2 DEF req_dslots
<1>4. \A req \in BOOLEAN :
        /\ InterruptAck(req) =>
             fetch_state = "RUNNING" /\ ~BkrepHit /\ ~InstTaken /\ interrupt_enable_r
        /\ jump_en(req) <=> BkrepHit \/ InstIsJump \/ InterruptAck(req)
        /\ invalidate_insns(req) <=>
             Suppressed \/ InterruptAck(req)
               \/ (InstIsJump /\ inst_pipe_0_r.dslots = 0)
  <2>1. \A req \in BOOLEAN : InterruptAck(req) => fetch_state = "RUNNING"
    BY DEF FlowInv, InterruptAck, JumpShadow, PcuTypeOK, FetchTypeOK, States
  <2>2. \A req \in BOOLEAN :
          InterruptAck(req) => ~BkrepHit /\ ~InstTaken /\ interrupt_enable_r
    BY DEF InterruptAck
  <2> QED
    BY <1>2, <1>3, <2>1, <2>2 DEF jump_en, invalidate_insns, Suppressed
<1>5. ~InterruptAck(FALSE)
  BY DEF InterruptAck
<1>6. invalidate_insns(FALSE) <=>
        Suppressed \/ (InstIsJump /\ inst_pipe_0_r.dslots = 0)
  BY <1>4, <1>5
<1>7. BkrepHit => /\ fetch_state = "RUNNING" \/ (fetch_state = "JUMPING" /\ Suppressed)
                  /\ ~InstIsJump
  BY <1>1, <1>6 DEF FlowInv, LoopEndIsSequential, OneInFlight
<1>8. ViewPcu
  BY <1>1, <1>2, <1>3, <1>4, <1>7 DEF ViewPcu
<1>9. ViewIdle
  BY <1>2, <1>6 DEF ViewIdle, Pending, NextToIssue, ReturnPc, NoRedirection, FlowInv, OneInFlight
<1>10. ViewJump
  <2> SUFFICES ASSUME InstIsJump PROVE ViewJump
    BY DEF ViewJump
  <2>1. InstJumps /\ fetch_state = "RUNNING" /\ ~call_pipe_1_r
        /\ req_dslots = inst_pipe_0_r.dslots /\ req_dslots \in 0 .. 2
    BY <1>1, <1>2, <1>3 DEF FlowInv, OneInFlight
  <2>2. CASE inst_pipe_0_r.dslots = 0
    BY <2>1, <2>2 DEF ViewJump, Pending, NextToIssue, ReturnPc, NoRedirection
  <2>3. CASE inst_pipe_0_r.dslots # 0
    BY <2>1, <2>3 DEF ViewJump, Pending, NextToIssue, ReturnPc, NoRedirection
  <2> QED
    BY <2>2, <2>3
<1>11. ViewJumping
  BY <1>1, <1>2, <1>3, <1>6
     DEF ViewJumping, Pending, NextToIssue, ReturnPc, NoRedirection, FlowInv, OneInFlight,
         PcuTypeOK, Suppressed
<1> QED
  BY <1>8, <1>9, <1>10, <1>11 DEF View

LEMMA ViewPrimed == FlowInv' => View'
BY ViewLemma, PTL

-----------------------------------------------------------------------------
(* FlowInv is inductive.                                                   *)
LEMMA FlowInvInit == Init => FlowInv
<1> SUFFICES ASSUME Init PROVE FlowInv
  OBVIOUS
<1>1. PcuTypeOK /\ JumpShadow
  BY PcuInitTypes, ShadowInit
<1>2. LoopEndIsSequential /\ LoopIsLong
  BY DEF Init, PcuInit, LoopEndIsSequential, LoopIsLong, BkrepHit
<1>3. OneInFlight
  BY DEF Init, PcuInit, FetchInit, OneInFlight, Suppressed, Nop, Jumps
<1> QED
  BY <1>1, <1>2, <1>3 DEF FlowInv

(* One disciplined clock edge.                                             *)
Step(len, inst, req, count) ==
  /\ len \in BundleLengths /\ req \in BOOLEAN
  /\ count \in RepeatCounts \cup {NoWrite} /\ inst \in Decoded(req)
  /\ NoControlInDelaySlot(inst)
  /\ Cycle(len, inst, req, count)
  /\ LoopEndIsSequential' /\ LoopIsLong'

(* Where the fetch stage goes.                                             *)
LEMMA FetchStep ==
  ASSUME View, NEW len, NEW inst, NEW req, NEW count, Step(len, inst, req, count)
  PROVE  /\ fetch_state \in {"PRIMING_QUEUE_0", "PRIMING_QUEUE_1"} =>
              fetch_state' \in {"PRIMING_QUEUE_1", "RUNNING"} /\ pc' = pc
         /\ fetch_state = "JUMPING" => fetch_state' # "JUMPING" /\ pc' = jump_pc_r
         /\ fetch_state = "RUNNING" =>
              /\ pc' = Plus(pc, len)
              /\ fetch_state' = IF BkrepHit \/ InstIsJump \/ InterruptAck(req)
                                THEN "JUMPING" ELSE "RUNNING"
              /\ BkrepHit \/ InstIsJump \/ InterruptAck(req) => jump_pc_r' = jump_pc
BY DEF Step, Cycle, FetchCycle, PrimingQueue0, PrimingQueue1, Jumping, Running, next_pc,
       View, ViewPcu

(* A control instruction is decoded only while nothing is in flight.       *)
LEMMA ControlStep ==
  ASSUME FlowInv, View, NEW len, NEW inst, NEW req, NEW count, Step(len, inst, req, count),
         inst.op \in Jumps \cup {"BKREP"}
  PROVE  fetch_state = "RUNNING" /\ ~InstIsJump /\ ~BkrepHit /\ ~InterruptAck(req)
<1>1. Issues(req) /\ Pending.slots = 0 /\ ~BkrepHit
  BY DEF Step, Decoded, Nop, Jumps, NoControlInDelaySlot
<1>2. InstValid /\ ~Suppressed /\ ~InterruptAck(req)
      /\ ~(InstIsJump /\ inst_pipe_0_r.dslots = 0)
  BY <1>1 DEF Issues, View, ViewPcu, Step
<1>3. fetch_state # "JUMPING"
  BY <1>1, <1>2 DEF View, ViewJumping
<1>4. ~InstIsJump
  BY <1>1, <1>2 DEF View, ViewJump
<1> QED
  BY <1>1, <1>2, <1>3, <1>4 DEF InstValid

LEMMA FlowInvStep ==
  ASSUME FlowInv, [DisciplinedNext]_vars
  PROVE  FlowInv'
<1>1. View
  BY ViewLemma
<1>2. [Next]_vars
  BY DEF DisciplinedNext, Next
<1>3. PcuTypeOK' /\ JumpShadow'
  BY <1>2, PcuTypesStep, ShadowStep DEF FlowInv
<1>4. CASE UNCHANGED vars
  <2>1. LoopEndIsSequential' /\ LoopIsLong'
    BY <1>4 DEF vars, pcuVars, fetchVars, FlowInv, LoopEndIsSequential, LoopIsLong, BkrepHit,
                BkrepInPipe, invalidate_insns, InterruptAck, InstTaken, req_dslots, InstJumps
  <2>2. OneInFlight'
    BY <1>4 DEF vars, pcuVars, fetchVars, FlowInv, OneInFlight, Suppressed
  <2> QED
    BY <1>3, <2>1, <2>2 DEF FlowInv
<1>5. ASSUME NEW len, NEW inst, NEW req, NEW count, Step(len, inst, req, count)
      PROVE  FlowInv'
  <2>1. LoopEndIsSequential' /\ LoopIsLong' /\ req \in BOOLEAN
    BY <1>5 DEF Step
  <2>2. /\ inst_pipe_0_r' = inst
        /\ call_pipe_1_r' = (inst_pipe_0_r.op = "CALL_ABS" /\ inst_pipe_0_r.ok)
        /\ req_dslots_pipe_r' = req_dslots
        /\ invalidate_dslot_r' = (req_dslots \in {0, 1})
        /\ interrupt_dslot_r' = IF InterruptAck(req) THEN 1 ELSE 0
    BY <1>5 DEF Step, Cycle, Pipeline, DelaySlots
  <2>3. inst.op \in Jumps \cup {"BKREP"} => fetch_state' = "RUNNING"
    BY <1>1, <1>5, ControlStep, FetchStep
  <2>4. fetch_state' # "JUMPING" => ~InterruptAck(req) /\ ~InstIsJump
    BY <1>1, <1>5, <2>1, FetchStep DEF View, ViewPcu
  <2>5. call_pipe_1_r' => InstIsJump
    BY <2>2 DEF InstIsJump, Jumps
  <2>6. req_dslots \in {0, 1} => InstIsJump
    BY <1>1 DEF View, ViewPcu
  <2>7. InterruptAck(req) => ~InstIsJump
    BY <1>1 DEF View, ViewPcu, InstJumps, InterruptAck
  <2>8. /\ invalidate_dslot_r' <=> req_dslots_pipe_r' \in {0, 1}
        /\ invalidate_dslot_r' => InstIsJump
        /\ interrupt_dslot_r' = 1 => InterruptAck(req)
    <3>1. invalidate_dslot_r' <=> req_dslots \in {0, 1}
      BY <2>2, Zenon
    <3> QED
      BY <2>2, <2>6, <3>1
  <2>9. Suppressed' => interrupt_dslot_r' = 1 \/ invalidate_dslot_r'
    BY DEF Suppressed
  <2>10. OneInFlight'
    BY <2>2, <2>3, <2>4, <2>5, <2>7, <2>8, <2>9 DEF OneInFlight
  <2> QED
    BY <1>3, <2>1, <2>10 DEF FlowInv
<1> QED
  BY <1>4, <1>5 DEF DisciplinedNext, Step

-----------------------------------------------------------------------------
(* The registers of the flow that the mapping reads ahead of the pipe.     *)
BeginNow == IF BkrepInPipe THEN pc ELSE bkrep_begin_pc_r
EndNow == IF BkrepInPipe THEN inst_pipe_0_r.opnd ELSE bkrep_end_pc_r
EnabledNow == CASE inst_pipe_0_r.op \in {"RETI", "EINT"} -> TRUE
                [] inst_pipe_0_r.op = "DINT" -> FALSE
                [] OTHER -> interrupt_enable_r

LEMMA FlowPlus == \A a, n : Flow!Plus(a, n) = Plus(a, n)
BY DEF Flow!Plus, Plus

(* What a step writes, whatever the fetch stage does.                      *)
LEMMA RegisterStep ==
  ASSUME FlowInv, View, NEW len, NEW inst, NEW req, NEW count, Step(len, inst, req, count)
  PROVE  /\ inst_pipe_0_r' = inst
         /\ BeginNow' = IF inst.op = "BKREP" THEN pc' ELSE BeginNow
         /\ EndNow' = IF inst.op = "BKREP" THEN inst.opnd ELSE EndNow
         /\ ~InterruptAck(req) =>
              /\ EnabledNow' = CASE inst.op \in {"RETI", "EINT"} -> TRUE
                                 [] inst.op = "DINT" -> FALSE
                                 [] OTHER -> EnabledNow
              /\ retipc_r' = retipc_r
         /\ BkrepHit /\ ~Suppressed => bkrep_cnt_r' = bkrep_cnt_r - 1
         /\ ~(BkrepHit /\ ~Suppressed) => bkrep_cnt_r' \in {bkrep_cnt_r} \cup RepeatCounts
         /\ retpc_r' = IF ~call_pipe_1_r THEN retpc_r
                       ELSE IF req_dslots_pipe_r = 0 THEN prev_pc_r
                       ELSE IF req_dslots_pipe_r = 1 THEN pc
                       ELSE Plus(pc, len)
         /\ prev_pc_r' = pc
         /\ req_dslots_pipe_r' = req_dslots
         /\ call_pipe_1_r' <=> inst_pipe_0_r.op = "CALL_ABS"
         /\ Suppressed' <=> InterruptAck(req) \/ (InstIsJump /\ inst_pipe_0_r.dslots \in {0, 1})
<1>1. inst_pipe_0_r' = inst /\ prev_pc_r' = pc /\ req_dslots_pipe_r' = req_dslots
  BY DEF Step, Cycle, Pipeline
<1>2. /\ bkrep_begin_pc_r' = BeginNow /\ bkrep_end_pc_r' = EndNow
  BY DEF Step, Cycle, BlockRepeat, BeginNow, EndNow, BkrepInPipe
<1>3. /\ BeginNow' = IF inst.op = "BKREP" THEN pc' ELSE BeginNow
      /\ EndNow' = IF inst.op = "BKREP" THEN inst.opnd ELSE EndNow
  BY <1>1, <1>2 DEF BeginNow, EndNow, BkrepInPipe
<1>4. ~InterruptAck(req) => interrupt_enable_r' = EnabledNow /\ retipc_r' = retipc_r
  BY DEF Step, Cycle, InterruptEnable, ReturnAddresses, EnabledNow
<1>5. ~InterruptAck(req) =>
        EnabledNow' = CASE inst.op \in {"RETI", "EINT"} -> TRUE
                        [] inst.op = "DINT" -> FALSE
                        [] OTHER -> EnabledNow
  BY <1>1, <1>4 DEF EnabledNow
<1>6. BkrepHit => ~InterruptAck(req) /\ ~InstIsJump
  BY DEF View, ViewPcu, InterruptAck
<1>7. BkrepInPipe => ~BkrepHit
  BY DEF FlowInv, LoopIsLong, BkrepHit
<1>8. /\ BkrepHit /\ ~Suppressed => bkrep_cnt_r' = bkrep_cnt_r - 1
      /\ ~(BkrepHit /\ ~Suppressed) => bkrep_cnt_r' \in {bkrep_cnt_r} \cup RepeatCounts
  <2>1. BkrepHit => (invalidate_insns(req) <=> Suppressed)
    BY <1>6 DEF View, ViewPcu, Step
  <2> QED
    BY <1>7, <2>1 DEF Step, Cycle, BlockRepeat, BkrepInPipe
<1>9. retpc_r' = IF ~call_pipe_1_r THEN retpc_r
                 ELSE IF req_dslots_pipe_r = 0 THEN prev_pc_r
                 ELSE IF req_dslots_pipe_r = 1 THEN pc
                 ELSE Plus(pc, len)
  BY DEF Step, Cycle, ReturnAddresses, next_pc
<1>10. call_pipe_1_r' <=> inst_pipe_0_r.op = "CALL_ABS"
  <2>1. inst_pipe_0_r.op = "CALL_ABS" => inst_pipe_0_r.ok
    BY DEF View, ViewPcu, InstIsJump, Jumps
  <2> QED
    BY <2>1 DEF Step, Cycle, Pipeline
<1>11. Suppressed' <=> InterruptAck(req) \/ (InstIsJump /\ inst_pipe_0_r.dslots \in {0, 1})
  <2>1. /\ invalidate_dslot_r' = (req_dslots \in {0, 1})
        /\ interrupt_dslot_r' = IF InterruptAck(req) THEN 1 ELSE 0
    BY DEF Step, Cycle, DelaySlots
  <2>2. invalidate_dslot_r' <=> req_dslots \in {0, 1}
    BY <2>1, Zenon
  <2>3. req_dslots = IF InstIsJump THEN inst_pipe_0_r.dslots ELSE 2
    BY DEF View, ViewPcu
  <2>4. interrupt_dslot_r' = 1 <=> InterruptAck(req)
    BY <2>1
  <2> QED
    BY <2>2, <2>3, <2>4 DEF Suppressed
<1> QED
  BY <1>1, <1>3, <1>4, <1>5, <1>8, <1>9, <1>10, <1>11

(* The end of the loop, in the flow and in the PCU.                        *)
LEMMA LoopEnds ==
  ASSUME FlowInv, NextToIssue = pc
  PROVE  Flow!AtLoopEnd <=> BkrepHit
BY DEF FlowInv, LoopIsLong, BkrepHit, Flow!AtLoopEnd, BkrepInPipe

-----------------------------------------------------------------------------
(* Each step of the pipeline is a step of the flow.                        *)

(* A cycle in which no bundle issues.                                      *)
LEMMA NoBundleStep ==
  ASSUME FlowInv, View, NEW len, NEW inst, NEW req, NEW count, Step(len, inst, req, count),
         inst = Nop, ~InterruptAck(req), ~(BkrepHit /\ ~Suppressed),
         NextToIssue' = NextToIssue, Pending' = Pending, ReturnPc' = ReturnPc
  PROVE  Flow!NoBundle
<1>1. inst.op = "NOP"
  BY DEF Nop
<1> QED
  BY <1>1, RegisterStep
     DEF Flow!NoBundle, Flow!CountMayBeWritten, BeginNow, EndNow, EnabledNow

(* A bundle that issues, but for where it leads.                           *)
LEMMA BundleStep ==
  ASSUME FlowInv, View, NEW len, NEW inst, NEW req, NEW count, Step(len, inst, req, count),
         ~InterruptAck(req), inst.op = "BKREP" => NextToIssue' = pc'
  PROVE  /\ inst \in Insts /\ len \in BundleLengths
         /\ Flow!RegisterEffects(inst)
         /\ inst_pipe_0_r' = inst
         /\ ~BkrepHit => Flow!CountMayBeWritten
<1>1. inst \in Insts /\ len \in BundleLengths
  BY NopIsInst DEF Step, Decoded
<1>2. Flow!RegisterEffects(inst)
  BY RegisterStep DEF Flow!RegisterEffects, BeginNow, EndNow, EnabledNow
<1> QED
  BY <1>1, <1>2, RegisterStep DEF Flow!CountMayBeWritten

LEMMA Kinds ==
  ASSUME NEW inst
  PROVE  /\ Flow!IsJump(inst) <=> inst.op \in Jumps
         /\ Flow!IsControl(inst) <=> inst.op \in Jumps \cup {"BKREP"}
BY DEF Flow!IsJump, Flow!IsControl, Jumps

(* An interrupt takes the place of a bundle.                               *)
LEMMA InterruptStep ==
  ASSUME FlowInv, View, View', NEW len, NEW inst, NEW req, NEW count,
         Step(len, inst, req, count), InterruptAck(req)
  PROVE  Flow!Interrupt
<1>1. /\ fetch_state = "RUNNING" /\ ~BkrepHit /\ ~InstTaken /\ ~InstIsJump
      /\ interrupt_enable_r
  BY DEF Step, View, ViewPcu, InstJumps
<1>2. inst = Nop
  BY DEF Step, Decoded, Issues, View, ViewPcu
<1>3. Pending = NoRedirection /\ NextToIssue = pc /\ ReturnPc = retpc_r
  BY <1>1 DEF View, ViewIdle
<1>4. fetch_state' = "JUMPING" /\ jump_pc_r' = 4 /\ Suppressed' /\ ~call_pipe_1_r'
  <2>1. jump_pc = 4
    BY <1>1 DEF jump_pc, InstJumps
  <2>2. inst_pipe_0_r.op # "CALL_ABS"
    BY <1>1 DEF InstIsJump, Jumps
  <2> QED
    BY <1>1, <2>1, <2>2, FetchStep, RegisterStep
<1>5. NextToIssue' = 4 /\ Pending' = NoRedirection /\ ReturnPc' = retpc_r'
  BY <1>4 DEF View, ViewJumping
<1>6. retpc_r' = retpc_r
  BY <1>1, RegisterStep DEF FlowInv, OneInFlight
<1>7. inst_pipe_0_r.op \in {"NOP", "BKREP"}
  <2>1. inst_pipe_0_r.op = "NOP" \/ ~inst_pipe_0_r.ok
    BY <1>1 DEF InstTaken
  <2>2. inst_pipe_0_r = Nop \/ inst_pipe_0_r.ok \/ inst_pipe_0_r.op = "BKREP"
    BY DEF FlowInv, PcuTypeOK, Insts
  <2> QED
    BY <2>1, <2>2 DEF Nop
<1>8. EnabledNow /\ ~EnabledNow' /\ retipc_r' = pc
  <2>1. EnabledNow
    BY <1>1, <1>7 DEF EnabledNow
  <2>2. interrupt_enable_r' = FALSE /\ retipc_r' = pc /\ inst_pipe_0_r' = Nop
    BY <1>2 DEF Step, Cycle, InterruptEnable, ReturnAddresses, Pipeline
  <2> QED
    BY <2>1, <2>2 DEF EnabledNow, Nop
<1>9. BeginNow' = BeginNow /\ EndNow' = EndNow /\ inst_pipe_0_r' = Nop
      /\ bkrep_cnt_r' \in {bkrep_cnt_r} \cup RepeatCounts
  <2>1. inst.op # "BKREP"
    BY <1>2 DEF Nop
  <2>2. BeginNow' = BeginNow /\ EndNow' = EndNow /\ inst_pipe_0_r' = Nop
    BY <1>2, <2>1, RegisterStep
  <2> QED
    BY <1>1, <2>2, RegisterStep
<1>10. ~Flow!AtLoopEnd
  BY <1>1, <1>3, LoopEnds
<1>11. EnabledNow' = FALSE
  BY <1>8 DEF EnabledNow
<1> QED
  BY <1>3, <1>5, <1>6, <1>8, <1>9, <1>10, <1>11
     DEF Flow!Interrupt, Flow!NoRedirect, NoRedirection, Flow!CountMayBeWritten,
         BeginNow, EndNow, EnabledNow

(* The bundle at the end of a loop.                                        *)
LEMMA LoopEndStep ==
  ASSUME FlowInv, View, View', NEW len, NEW inst, NEW req, NEW count,
         Step(len, inst, req, count), fetch_state = "RUNNING", BkrepHit
  PROVE  Flow!LoopEnd(inst, Plus(pc, len)) /\ NextToIssue = pc /\ ~InterruptAck(req)
<1>1. ~InstIsJump /\ ~InterruptAck(req) /\ ~Suppressed
  BY DEF View, ViewPcu, InterruptAck, FlowInv, OneInFlight
<1>2. Pending = NoRedirection /\ NextToIssue = pc /\ ReturnPc = retpc_r
  BY <1>1 DEF View, ViewIdle
<1>3. Flow!AtLoopEnd
  BY <1>2, LoopEnds
<1>4. ~Flow!IsControl(inst)
  BY ControlStep, Kinds
<1>5. ~BkrepInPipe
  BY DEF FlowInv, LoopIsLong, BkrepHit
<1>6. /\ fetch_state' = "JUMPING" /\ jump_pc_r' = bkrep_begin_pc_r /\ pc' = Plus(pc, len)
      /\ ~Suppressed' /\ ~call_pipe_1_r'
  <2>1. jump_pc = bkrep_begin_pc_r
    BY DEF jump_pc
  <2>2. inst_pipe_0_r.op # "CALL_ABS"
    BY <1>1 DEF InstIsJump, Jumps
  <2> QED
    BY <1>1, <2>1, <2>2, FetchStep, RegisterStep
<1>7. /\ Pending' = [target |-> bkrep_begin_pc_r, slots |-> 1, call |-> FALSE]
      /\ NextToIssue' = Plus(pc, len) /\ ReturnPc' = retpc_r'
  <2>1. call_pipe_1_r' = FALSE
    BY <1>6 DEF Step, Cycle, Pipeline
  <2> QED
    BY <1>6, <2>1 DEF View, ViewJumping
<1>8. retpc_r' = retpc_r /\ bkrep_cnt_r' = bkrep_cnt_r - 1
  BY <1>1, RegisterStep DEF FlowInv, OneInFlight
<1> QED
  BY <1>1, <1>2, <1>3, <1>4, <1>5, <1>7, <1>8
     DEF Flow!LoopEnd, Flow!Redirect, Flow!NoRedirect, NoRedirection

(* An ordinary bundle: a jump goes on its way.                             *)
LEMMA SequentialStep ==
  ASSUME FlowInv, View, View', NEW len, NEW inst, NEW req, NEW count,
         Step(len, inst, req, count), fetch_state = "RUNNING", ~BkrepHit, ~InstIsJump,
         ~InterruptAck(req)
  PROVE  Flow!Execute
<1>1. Pending = NoRedirection /\ NextToIssue = pc /\ ReturnPc = retpc_r
  BY DEF View, ViewIdle
<1>2. /\ fetch_state' = "RUNNING" /\ pc' = Plus(pc, len) /\ inst_pipe_0_r' = inst
      /\ retpc_r' = retpc_r /\ retipc_r' = retipc_r
  BY FetchStep, RegisterStep DEF FlowInv, OneInFlight
<1>3. CASE inst.op \in Jumps
  <2>1. InstIsJump'
    BY <1>2, <1>3 DEF InstIsJump
  <2>2. InstTarget' = Flow!Target(inst)
    BY <1>1, <1>2 DEF InstTarget, Flow!Target
  <2>3. inst.op # "BKREP"
    BY <1>3 DEF Jumps
  <2>4. /\ inst \in Insts /\ len \in BundleLengths /\ Flow!RegisterEffects(inst)
        /\ Flow!CountMayBeWritten
    BY <2>3, BundleStep
  <2>5. CASE inst.dslots = 0
    <3>1. /\ Pending' = NoRedirection /\ NextToIssue' = Flow!Target(inst)
          /\ ReturnPc' = IF inst.op = "CALL_ABS" THEN Plus(pc, len) ELSE retpc_r
      BY <1>2, <2>1, <2>2, <2>5 DEF View, ViewJump
    <3>2. Flow!Sequential(inst, Plus(pc, len))
      BY <1>1, <1>3, <2>4, <2>5, <3>1, LoopEnds, Kinds
         DEF Flow!Sequential, Flow!Redirect, Flow!NoRedirect, NoRedirection
    <3> QED
      BY <1>1, <1>2, <2>4, <3>2, FlowPlus DEF Flow!Execute
  <2>6. CASE inst.dslots # 0
    <3>1. /\ Pending' = [target |-> Flow!Target(inst), slots |-> inst.dslots,
                         call |-> inst.op = "CALL_ABS"]
          /\ NextToIssue' = Plus(pc, len) /\ ReturnPc' = retpc_r
      BY <1>2, <2>1, <2>2, <2>6 DEF View, ViewJump
    <3>2. Flow!Sequential(inst, Plus(pc, len))
      BY <1>1, <1>3, <2>4, <2>6, <3>1, LoopEnds, Kinds
         DEF Flow!Sequential, Flow!Redirect, Flow!NoRedirect, NoRedirection
    <3> QED
      BY <1>1, <1>2, <2>4, <3>2, FlowPlus DEF Flow!Execute
  <2> QED
    BY <2>5, <2>6
<1>4. CASE inst.op \notin Jumps
  <2>1. Pending' = NoRedirection /\ NextToIssue' = pc' /\ ReturnPc' = retpc_r
    BY <1>2, <1>4 DEF View, ViewIdle, InstIsJump
  <2>2. /\ inst \in Insts /\ len \in BundleLengths /\ Flow!RegisterEffects(inst)
        /\ Flow!CountMayBeWritten
    BY <2>1, BundleStep
  <2>3. Flow!Sequential(inst, Plus(pc, len))
    BY <1>1, <1>2, <1>4, <2>1, <2>2, LoopEnds, Kinds
       DEF Flow!Sequential, Flow!NoRedirect, NoRedirection
  <2> QED
    BY <1>1, <1>2, <2>2, <2>3, FlowPlus DEF Flow!Execute
<1> QED
  BY <1>3, <1>4

(* The first bundle behind a jump with delay slots.                        *)
LEMMA FirstSlotStep ==
  ASSUME FlowInv, View, View', NEW len, NEW inst, NEW req, NEW count,
         Step(len, inst, req, count), InstIsJump, inst_pipe_0_r.dslots # 0
  PROVE  Flow!Execute
<1>1. /\ fetch_state = "RUNNING" /\ ~BkrepHit /\ ~InterruptAck(req)
      /\ inst_pipe_0_r.dslots \in {1, 2}
      /\ Pending = [target |-> InstTarget, slots |-> inst_pipe_0_r.dslots,
                    call |-> inst_pipe_0_r.op = "CALL_ABS"]
      /\ NextToIssue = pc /\ ReturnPc = retpc_r
  BY DEF Step, View, ViewPcu, ViewJump, InstJumps, InterruptAck
<1>2. inst.op \notin Jumps \cup {"BKREP"}
  BY ControlStep
<1>3. /\ fetch_state' = "JUMPING" /\ jump_pc_r' = InstTarget /\ pc' = Plus(pc, len)
      /\ inst_pipe_0_r' = inst /\ retpc_r' = retpc_r
      /\ Suppressed' <=> inst_pipe_0_r.dslots = 1
      /\ req_dslots_pipe_r' = inst_pipe_0_r.dslots
      /\ call_pipe_1_r' <=> inst_pipe_0_r.op = "CALL_ABS"
  <2>1. jump_pc = InstTarget /\ req_dslots = inst_pipe_0_r.dslots
    BY <1>1 DEF jump_pc, View, ViewPcu
  <2> QED
    BY <1>1, <2>1, FetchStep, RegisterStep DEF FlowInv, OneInFlight
<1>4. /\ inst \in Insts /\ len \in BundleLengths /\ Flow!RegisterEffects(inst)
      /\ Flow!CountMayBeWritten
  BY <1>1, <1>2, BundleStep
<1>5. CASE inst_pipe_0_r.dslots = 1
  <2>1. /\ Pending' = NoRedirection /\ NextToIssue' = InstTarget
        /\ ReturnPc' = IF inst_pipe_0_r.op = "CALL_ABS" THEN Plus(pc, len) ELSE retpc_r
    BY <1>3, <1>5 DEF View, ViewJumping
  <2>2. Flow!DelaySlot(inst, Plus(pc, len))
    <3>1. [Pending EXCEPT !.slots = @ - 1] =
            [target |-> InstTarget, slots |-> 0,
             call |-> inst_pipe_0_r.op = "CALL_ABS"]
      BY <1>1, <1>5
    <3>2. Pending # NoRedirection /\ ~Flow!AtLoopEnd /\ ~Flow!IsControl(inst)
      BY <1>1, <1>2, <1>5, LoopEnds, Kinds DEF NoRedirection
    <3> QED
      BY <1>1, <1>3, <1>4, <2>1, <3>1, <3>2
         DEF Flow!DelaySlot, Flow!Redirect, Flow!NoRedirect, NoRedirection
  <2> QED
    BY <1>1, <1>3, <1>4, <2>2, FlowPlus DEF Flow!Execute
<1>6. CASE inst_pipe_0_r.dslots = 2
  <2>1. /\ Pending' = [target |-> InstTarget, slots |-> 1, call |-> call_pipe_1_r']
        /\ NextToIssue' = Plus(pc, len) /\ ReturnPc' = retpc_r
    BY <1>1, <1>3, <1>6 DEF View, ViewJumping
  <2>2. call_pipe_1_r' = (inst_pipe_0_r.op = "CALL_ABS")
    <3>1. call_pipe_1_r' \in BOOLEAN
      BY DEF Step, Cycle, Pipeline
    <3> QED
      BY <1>3, <3>1
  <2>3. [Pending EXCEPT !.slots = @ - 1] = Pending'
    BY <1>1, <1>6, <2>1, <2>2
  <2>4. Flow!DelaySlot(inst, Plus(pc, len))
    BY <1>1, <1>2, <1>4, <1>6, <2>1, <2>3, LoopEnds, Kinds
       DEF Flow!DelaySlot, Flow!Redirect, Flow!NoRedirect
  <2> QED
    BY <1>1, <1>3, <1>4, <2>4, FlowPlus DEF Flow!Execute
<1> QED
  BY <1>1, <1>5, <1>6

(* The last bundle before the target.                                      *)
LEMMA LastSlotStep ==
  ASSUME FlowInv, View, View', NEW len, NEW inst, NEW req, NEW count,
         Step(len, inst, req, count), fetch_state = "JUMPING", ~Suppressed
  PROVE  Flow!Execute
<1>1. /\ ~BkrepHit /\ ~InterruptAck(req) /\ ~InstIsJump
      /\ Pending = [target |-> jump_pc_r, slots |-> 1, call |-> call_pipe_1_r]
      /\ NextToIssue = pc /\ ReturnPc = retpc_r
  BY DEF Step, View, ViewPcu, ViewJumping
<1>2. inst.op \notin Jumps \cup {"BKREP"}
  BY ControlStep
<1>3. /\ fetch_state' # "JUMPING" /\ pc' = jump_pc_r /\ inst_pipe_0_r' = inst
      /\ retpc_r' = IF call_pipe_1_r THEN Plus(pc, len) ELSE retpc_r
  BY FetchStep, RegisterStep DEF FlowInv, OneInFlight, Suppressed
<1>4. Pending' = NoRedirection /\ NextToIssue' = jump_pc_r /\ ReturnPc' = retpc_r'
  BY <1>2, <1>3 DEF View, ViewIdle, InstIsJump
<1>5. /\ inst \in Insts /\ len \in BundleLengths /\ Flow!RegisterEffects(inst)
      /\ Flow!CountMayBeWritten
  BY <1>1, <1>2, BundleStep
<1>6. Flow!DelaySlot(inst, Plus(pc, len))
  <2>1. [Pending EXCEPT !.slots = @ - 1] =
          [target |-> jump_pc_r, slots |-> 0, call |-> call_pipe_1_r]
    BY <1>1
  <2>2. Pending # NoRedirection /\ ~Flow!AtLoopEnd /\ ~Flow!IsControl(inst)
    BY <1>1, <1>2, LoopEnds, Kinds DEF NoRedirection
  <2> QED
    BY <1>1, <1>3, <1>4, <1>5, <2>1, <2>2
       DEF Flow!DelaySlot, Flow!Redirect, Flow!NoRedirect, NoRedirection
<1> QED
  BY <1>1, <1>3, <1>5, <1>6, FlowPlus DEF Flow!Execute

(* A jump without delay slots, a suppressed slot, a cycle of priming.       *)
LEMMA QuietStep ==
  ASSUME FlowInv, View, View', NEW len, NEW inst, NEW req, NEW count,
         Step(len, inst, req, count), ~InterruptAck(req),
         \/ InstIsJump /\ inst_pipe_0_r.dslots = 0
         \/ fetch_state = "JUMPING" /\ Suppressed
         \/ fetch_state \in {"PRIMING_QUEUE_0", "PRIMING_QUEUE_1"}
  PROVE  Flow!NoBundle
<1>1. inst = Nop
  BY DEF Step, Decoded, Issues, InstValid, View, ViewPcu
<1>2. inst_pipe_0_r' = Nop /\ ~InstIsJump'
  <2>1. inst_pipe_0_r' = inst
    BY RegisterStep
  <2>2. Nop.op = "NOP" /\ "NOP" \notin Jumps
    BY DEF Nop, Jumps
  <2> QED
    BY <1>1, <2>1, <2>2 DEF InstIsJump
<1>3. CASE InstIsJump /\ inst_pipe_0_r.dslots = 0
  <2>1. fetch_state = "RUNNING" /\ ~BkrepHit /\ jump_pc = InstTarget /\ req_dslots = 0
    BY <1>3 DEF View, ViewPcu, jump_pc
  <2>2. /\ fetch_state' = "JUMPING" /\ jump_pc_r' = InstTarget /\ Suppressed'
        /\ retpc_r' = retpc_r /\ prev_pc_r' = pc /\ req_dslots_pipe_r' = 0
        /\ call_pipe_1_r' <=> inst_pipe_0_r.op = "CALL_ABS"
    BY <1>3, <2>1, FetchStep, RegisterStep DEF FlowInv, OneInFlight
  <2>3. NextToIssue' = NextToIssue /\ Pending' = Pending /\ ReturnPc' = ReturnPc
    BY <1>3, <2>2 DEF View, ViewJump, ViewJumping
  <2> QED
    BY <1>1, <2>1, <2>3, NoBundleStep
<1>4. CASE fetch_state = "JUMPING" /\ Suppressed
  <2>1. fetch_state' # "JUMPING" /\ pc' = jump_pc_r
    BY <1>4, FetchStep
  <2>2. retpc_r' = IF ~call_pipe_1_r THEN retpc_r
                   ELSE IF req_dslots_pipe_r = 0 THEN prev_pc_r ELSE pc
    <3>1. call_pipe_1_r => req_dslots_pipe_r \in {0, 1}
      BY <1>4 DEF FlowInv, OneInFlight, Suppressed
    <3> QED
      BY <3>1, RegisterStep
  <2>3. NextToIssue' = NextToIssue /\ Pending' = Pending /\ ReturnPc' = ReturnPc
    BY <1>2, <1>4, <2>1, <2>2 DEF View, ViewIdle, ViewJumping
  <2> QED
    BY <1>1, <1>4, <2>3, NoBundleStep
<1>5. CASE fetch_state \in {"PRIMING_QUEUE_0", "PRIMING_QUEUE_1"}
  <2>1. ~BkrepHit /\ ~InstIsJump
    BY <1>5 DEF View, ViewPcu
  <2>2. fetch_state' # "JUMPING" /\ pc' = pc /\ retpc_r' = retpc_r
    BY <1>5, FetchStep, RegisterStep DEF FlowInv, OneInFlight
  <2>3. NextToIssue' = NextToIssue /\ Pending' = Pending /\ ReturnPc' = ReturnPc
    BY <1>2, <1>5, <2>1, <2>2 DEF View, ViewIdle
  <2> QED
    BY <1>1, <2>1, <2>3, NoBundleStep
<1> QED
  BY <1>3, <1>4, <1>5

LEMMA FlowStep ==
  ASSUME FlowInv, View, View', NEW len, NEW inst, NEW req, NEW count,
         Step(len, inst, req, count)
  PROVE  Flow!FlowNext
<1>1. CASE InterruptAck(req)
  BY <1>1, InterruptStep DEF Flow!FlowNext
<1>2. CASE ~InterruptAck(req) /\ fetch_state = "RUNNING" /\ BkrepHit
  <2>1. Flow!LoopEnd(inst, Plus(pc, len)) /\ NextToIssue = pc
    BY <1>2, LoopEndStep
  <2>2. inst.op # "BKREP"
    BY <1>2, ControlStep
  <2>3. /\ inst \in Insts /\ len \in BundleLengths /\ Flow!RegisterEffects(inst)
        /\ inst_pipe_0_r' = inst
    BY <1>2, <2>2, BundleStep
  <2> QED
    BY <2>1, <2>3, FlowPlus DEF Flow!FlowNext, Flow!Execute
<1>3. CASE ~InterruptAck(req) /\ fetch_state = "RUNNING" /\ ~BkrepHit /\ ~InstIsJump
  BY <1>3, SequentialStep DEF Flow!FlowNext
<1>4. CASE InstIsJump /\ inst_pipe_0_r.dslots # 0
  BY <1>4, FirstSlotStep DEF Flow!FlowNext
<1>5. CASE fetch_state = "JUMPING" /\ ~Suppressed
  BY <1>5, LastSlotStep DEF Flow!FlowNext
<1>6. CASE /\ ~InterruptAck(req)
           /\ \/ InstIsJump /\ inst_pipe_0_r.dslots = 0
              \/ fetch_state = "JUMPING" /\ Suppressed
              \/ fetch_state \in {"PRIMING_QUEUE_0", "PRIMING_QUEUE_1"}
  BY <1>6, QuietStep DEF Flow!FlowNext
<1>7. fetch_state \in {"PRIMING_QUEUE_0", "PRIMING_QUEUE_1", "RUNNING", "JUMPING"}
  BY DEF FlowInv, PcuTypeOK, FetchTypeOK, States
<1> QED
  BY <1>1, <1>2, <1>3, <1>4, <1>5, <1>6, <1>7

-----------------------------------------------------------------------------
(* Why the rules are enough: a redirection has the pipeline for itself.    *)
THEOREM FlowInvTheorem == DisciplinedSpec => []FlowInv
<1>1. FlowInv /\ [DisciplinedNext]_vars => FlowInv'
  BY FlowInvStep
<1> QED
  BY <1>1, FlowInvInit, PTL DEF DisciplinedSpec

(* Delay slots, calls and returns, interrupts and loop counts are those of *)
(* the programmer's ProgramFlow, for every disciplined program.            *)
THEOREM PcuImplementsFlow == DisciplinedSpec => ImplementsFlow
<1>1. Init => Flow!FlowInit
  <2> SUFFICES ASSUME Init PROVE Flow!FlowInit
    OBVIOUS
  <2>1. View
    BY FlowInvInit, ViewLemma
  <2>2. Pending = NoRedirection /\ NextToIssue = pc /\ ReturnPc = retpc_r
    BY <2>1 DEF View, ViewIdle, Init, PcuInit, FetchInit, InstIsJump, Nop, Jumps
  <2> QED
    BY <2>2 DEF Flow!FlowInit, Flow!NoRedirect, NoRedirection, Init, PcuInit, FetchInit,
                BkrepInPipe, Nop
<1>2. FlowInv /\ FlowInv' /\ [DisciplinedNext]_vars => [Flow!FlowNext]_(Flow!flowVars)
  <2>1. CASE UNCHANGED vars
    BY <2>1 DEF vars, pcuVars, fetchVars, Flow!flowVars, NextToIssue, Pending, ReturnPc,
                BkrepInPipe, InstJumps, InstTaken, InstTarget, BkrepHit, req_dslots,
                invalidate_insns, InterruptAck
  <2>2. ASSUME FlowInv, FlowInv', DisciplinedNext
        PROVE  Flow!FlowNext
    <3>1. PICK len, inst, req, count : Step(len, inst, req, count)
      BY <2>2 DEF DisciplinedNext, Step
    <3>2. View /\ View'
      BY <2>2, ViewLemma, ViewPrimed
    <3> QED
      BY <2>2, <3>1, <3>2, FlowStep
  <2> QED
    BY <2>1, <2>2
<1> QED
  BY <1>1, <1>2, FlowInvTheorem, PTL DEF DisciplinedSpec, ImplementsFlow, Flow!FlowSpec
=============================================================================
