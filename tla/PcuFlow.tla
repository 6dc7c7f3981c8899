------------------------------- MODULE PcuFlow -------------------------------
(***************************************************************************)
(* The pipelined PCU implements ProgramFlow for the programs that keep the *)
(* rules below, which the instruction set imposes without stating them:    *)
(* each of them guards a case in which pcu.v or vliwfetch.v loses a jump   *)
(* or counts a loop wrong.                                                 *)
(***************************************************************************)
EXTENDS Pcu

(* The redirection in flight, seen from the cycle that issues the bundle   *)
(* at pc: by the instruction in the pipe, or by the stage in JUMPING.      *)
Pending ==
  IF InstJumps /\ req_dslots > 0
  THEN [target |-> InstTarget, slots |-> req_dslots,
        call |-> inst_pipe_0_r.op = "CALL_ABS"]
  ELSE IF fetch_state = "JUMPING" /\ ~invalidate_insns(FALSE)
  THEN [target |-> jump_pc_r, slots |-> 1, call |-> call_pipe_1_r]
  ELSE [target |-> 0, slots |-> 0, call |-> FALSE]

(* The next bundle to take effect: suppressed delay slots are skipped.     *)
NextToIssue ==
  IF InstJumps /\ req_dslots = 0 THEN InstTarget
  ELSE IF fetch_state = "JUMPING" /\ invalidate_insns(FALSE) THEN jump_pc_r
  ELSE pc

(* RETPC once the call in the pipe has written it.                         *)
ReturnPc ==
  IF InstJumps /\ inst_pipe_0_r.op = "CALL_ABS" /\ req_dslots = 0 THEN pc
  ELSE IF call_pipe_1_r /\ req_dslots_pipe_r = 0 THEN prev_pc_r
  ELSE IF call_pipe_1_r /\ req_dslots_pipe_r = 1 THEN pc
  ELSE retpc_r

BkrepInPipe == inst_pipe_0_r.op = "BKREP"

Flow == INSTANCE ProgramFlow WITH
  inst <- inst_pipe_0_r,
  ip <- NextToIssue,
  pending <- Pending,
  retpc <- ReturnPc,
  retipc <- retipc_r,
  begin <- IF BkrepInPipe THEN pc ELSE bkrep_begin_pc_r,
  end <- IF BkrepInPipe THEN inst_pipe_0_r.opnd ELSE bkrep_end_pc_r,
  cnt <- bkrep_cnt_r,
  enabled <- CASE inst_pipe_0_r.op \in {"RETI", "EINT"} -> TRUE
               [] inst_pipe_0_r.op = "DINT" -> FALSE
               [] OTHER -> interrupt_enable_r

(* R1. No jump and no BKREP in a delay slot or at a loop end.              *)
NoControlInDelaySlot(inst) ==
  inst.op \in Jumps \cup {"BKREP"} => Pending.slots = 0 /\ ~BkrepHit

(* R2. The end label of the running loop is not within the delay slots of  *)
(* a jump or where the jump before it is still in the pipe, and no branch  *)
(* goes to it when it is not aligned.                                      *)
LoopEndIsSequential ==
  BkrepHit => /\ fetch_state = "RUNNING" \/ invalidate_insns(FALSE)
              /\ inst_pipe_0_r.op \notin Jumps

(* R3. A loop has three bundles at least, and BKREP is not inside another. *)
LoopIsLong ==
  BkrepInPipe /\ bkrep_cnt_r # 0 => ~BkrepHit /\ inst_pipe_0_r.opnd # pc

DisciplinedNext ==
  \E len \in BundleLengths, req \in BOOLEAN,
     count \in RepeatCounts \cup {NoWrite} :
    \E inst \in Decoded(req) :
       /\ NoControlInDelaySlot(inst)
       /\ Cycle(len, inst, req, count)
       /\ LoopEndIsSequential'
       /\ LoopIsLong'

DisciplinedSpec == Init /\ [][DisciplinedNext]_vars

(* Delay slots, calls and returns, precise interrupts and loop counts, in  *)
(* every interleaving of stalls, interrupt requests and bundle lengths.    *)
ImplementsFlow == Flow!FlowSpec
=============================================================================
