------------------------------ MODULE VliwFetch ------------------------------
(***************************************************************************)
(* The instruction fetch stage (rtl/verilog/vliwfetch.v) together with the *)
(* output register of the instruction memory (imem.v).                     *)
(*                                                                         *)
(* One step is one rising clock edge with clk_en = 1; an edge with         *)
(* clk_en = 0 changes nothing in either file and is a stuttering step.     *)
(* Instruction memory is only ever read here, so a 64-bit word is          *)
(* represented by its own address, and a halfword by its program address.  *)
(* What the decoder makes of the window (vliwdec.v) is an input: the       *)
(* length of the bundle at pc, 0 .. 4 halfwords (0 for an illegal packet). *)
(***************************************************************************)
EXTENDS ProgAddr

VARIABLES
  fetch_state,     \* PRIMING_QUEUE_0, PRIMING_QUEUE_1, RUNNING or JUMPING
  fetch_address,   \* word the next enabled read of the memory returns
  pc,              \* halfword address of the bundle at the decoder
  jump_pc_r,       \* target of the jump taken in the last RUNNING cycle
  insn_on_top,     \* the aligned bundle at pc is in the memory's output
  instmem_64_0,    \* output register of imem (inst_o): a word address
  instmem_64_1     \* the word read before it

fetchVars == <<fetch_state, fetch_address, pc, jump_pc_r, insn_on_top,
               instmem_64_0, instmem_64_1>>

States == {"PRIMING_QUEUE_0", "PRIMING_QUEUE_1", "RUNNING", "JUMPING"}

-----------------------------------------------------------------------------
next_pc(len) == Plus(pc, len)

(* The aligner: the four halfwords offered to the decoder.                 *)
inst_64 ==
  [i \in 0 .. 3 |->
     IF Offset(pc) = 0 /\ insn_on_top THEN Half(instmem_64_0, i)
     ELSE IF Offset(pc) + i < 4 THEN Half(instmem_64_1, Offset(pc) + i)
     ELSE Half(instmem_64_0, Offset(pc) + i - 4)]

(* Instructions leave the stage only in these states.                      *)
InstValid == fetch_state \in {"RUNNING", "JUMPING"}

(* Mutant of fetch_enable: the queue does not catch up after an aligned     *)
(* jump to a short bundle.                                                 *)
fetch_enableWordChange(len) ==
  \/ WordOf(next_pc(len)) % 2 # WordOf(pc) % 2
  \/ fetch_state # "RUNNING"

fetch_enable(len) ==
  \/ WordOf(next_pc(len)) % 2 # WordOf(pc) % 2
  \/ fetch_state # "RUNNING"
  \/ insn_on_top /\ Offset(next_pc(len)) # 0

(* The queue shifts and the memory is read when fetch_enable is set.       *)
ShiftQueue(enable) ==
  /\ instmem_64_1' = IF enable THEN instmem_64_0 ELSE instmem_64_1
  /\ instmem_64_0' = IF enable THEN fetch_address ELSE instmem_64_0

-----------------------------------------------------------------------------
FetchInit ==
  /\ fetch_state = "PRIMING_QUEUE_0"
  /\ fetch_address = 0
  /\ pc = 0
  /\ jump_pc_r = 0
  /\ insn_on_top = FALSE
  /\ instmem_64_0 = NoWord
  /\ instmem_64_1 = NoWord

PrimingQueue0 ==
  /\ fetch_state = "PRIMING_QUEUE_0"
  /\ ShiftQueue(TRUE)
  /\ fetch_address' = NextWord(fetch_address)
  /\ fetch_state' = "PRIMING_QUEUE_1"
  /\ UNCHANGED <<pc, jump_pc_r, insn_on_top>>

(* Mutant of PrimingQueue1: the queue is primed again instead of used.     *)
PrimingQueue1Again ==
  /\ fetch_state = "PRIMING_QUEUE_1"
  /\ ShiftQueue(TRUE)
  /\ fetch_address' = NextWord(fetch_address)
  /\ fetch_state' = "PRIMING_QUEUE_0"
  /\ UNCHANGED <<pc, jump_pc_r, insn_on_top>>

PrimingQueue1 ==
  /\ fetch_state = "PRIMING_QUEUE_1"
  /\ ShiftQueue(TRUE)
  /\ fetch_address' = NextWord(fetch_address)
  /\ fetch_state' = "RUNNING"
  /\ UNCHANGED <<pc, jump_pc_r, insn_on_top>>

(* Mutants of Jumping: no extra priming for an unaligned target, and       *)
(* insn_on_top not set for an aligned one.                                 *)
JumpingUnprimed ==
  /\ fetch_state = "JUMPING"
  /\ ShiftQueue(TRUE)
  /\ fetch_address' = NextWord(fetch_address)
  /\ pc' = jump_pc_r
  /\ insn_on_top' = (Offset(jump_pc_r) = 0)
  /\ fetch_state' = "RUNNING"
  /\ UNCHANGED jump_pc_r

JumpingNotOnTop ==
  /\ fetch_state = "JUMPING"
  /\ ShiftQueue(TRUE)
  /\ fetch_address' = NextWord(fetch_address)
  /\ pc' = jump_pc_r
  /\ insn_on_top' = FALSE
  /\ fetch_state' = IF Offset(jump_pc_r) = 0 THEN "RUNNING"
                                             ELSE "PRIMING_QUEUE_1"
  /\ UNCHANGED jump_pc_r

(* The second delay slot is at the decoder; jump_enable is not looked at.  *)
Jumping ==
  /\ fetch_state = "JUMPING"
  /\ ShiftQueue(TRUE)
  /\ fetch_address' = NextWord(fetch_address)
  /\ pc' = jump_pc_r
  /\ insn_on_top' = (Offset(jump_pc_r) = 0)
  /\ fetch_state' = IF Offset(jump_pc_r) = 0 THEN "RUNNING"
                                             ELSE "PRIMING_QUEUE_1"
  /\ UNCHANGED jump_pc_r

Running(len, jump_enable, jump_pc) ==
  /\ fetch_state = "RUNNING"
  /\ ShiftQueue(fetch_enable(len))
  /\ pc' = next_pc(len)
  /\ insn_on_top' = (insn_on_top /\ Offset(next_pc(len)) = 0)
  /\ IF jump_enable
     THEN /\ jump_pc_r' = jump_pc
          /\ fetch_address' = WordOf(jump_pc)
          /\ fetch_state' = "JUMPING"
     ELSE /\ fetch_address' = IF fetch_enable(len) THEN NextWord(fetch_address)
                                                   ELSE fetch_address
          /\ UNCHANGED <<jump_pc_r, fetch_state>>

(* One enabled clock edge: the decoder says len, the PCU asks for a jump.  *)
FetchCycle(len, jump_enable, jump_pc) ==
  \/ PrimingQueue0
  \/ PrimingQueue1
  \/ Jumping
  \/ Running(len, jump_enable, jump_pc)

FetchNext ==
  \E len \in Lengths, jump_enable \in BOOLEAN, jump_pc \in Addr :
     FetchCycle(len, jump_enable, jump_pc)

FetchSpec == FetchInit /\ [][FetchNext]_fetchVars

(* A stall of the core (clk_en low) is always lifted eventually; that is   *)
(* what the handshakes that request it are for.                            *)
FairFetchSpec == FetchSpec /\ WF_fetchVars(FetchNext)

-----------------------------------------------------------------------------
FetchTypeOK ==
  /\ fetch_state \in States
  /\ fetch_address \in WordAddr
  /\ pc \in Addr
  /\ jump_pc_r \in Addr
  /\ insn_on_top \in BOOLEAN
  /\ instmem_64_0 \in WordAddr \cup {NoWord}
  /\ instmem_64_1 \in WordAddr \cup {NoWord}

(* Whenever instructions are valid, the decoder sees exactly the four      *)
(* halfwords that follow pc in program memory, whatever the alignment, the *)
(* lengths of the bundles before and the jumps taken on the way there.     *)
WindowAtPc == InstValid => inst_64 = BundleAt(pc)

(* Why it holds: what the two queue words and fetch_address hold, state by *)
(* state.  insn_on_top marks the cycles in which the queue is one word     *)
(* behind, right after an aligned jump.                                    *)
QueueAhead ==
  /\ insn_on_top => Offset(pc) = 0
  /\ fetch_state = "PRIMING_QUEUE_0" => pc = 0 /\ fetch_address = 0 /\ ~insn_on_top
  /\ fetch_state = "PRIMING_QUEUE_1" =>
       /\ ~insn_on_top
       /\ instmem_64_0 = WordOf(pc)
       /\ fetch_address = NextWord(WordOf(pc))
  /\ InstValid /\ insn_on_top => instmem_64_0 = WordOf(pc)
  /\ InstValid /\ ~insn_on_top =>
       /\ instmem_64_1 = WordOf(pc)
       /\ instmem_64_0 = NextWord(WordOf(pc))
  /\ fetch_state = "RUNNING" => fetch_address = NextWord(instmem_64_0)
  /\ fetch_state = "JUMPING" => fetch_address = WordOf(jump_pc_r)

(* The stage issues bundles in program order with one delay slot behind    *)
(* every accepted jump: BundleOrder, seen through the window.              *)
Order == INSTANCE BundleOrder WITH
           next <- pc,
           redirect <- IF fetch_state = "JUMPING" THEN jump_pc_r ELSE NoJump,
           shown <- IF InstValid THEN inst_64 ELSE Bubble

ImplementsOrder == Order!OrderSpec

(* The memory is read ahead: an issuing stage issues again.  With a fair   *)
(* clock enable no sequence of lengths and jumps leaves it priming.        *)
IssuesAgain == []<>InstValid
=============================================================================
