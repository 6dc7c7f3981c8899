--------------------------- MODULE VliwFetchProofs ---------------------------
(***************************************************************************)
(* Proofs about the fetch stage, for an instruction memory of any even     *)
(* number of words: its types, the aligner window, and that it implements  *)
(* the order of BundleOrder.                                               *)
(***************************************************************************)
EXTENDS VliwFetch, TLAPS

(* Addresses split into a word and an offset, and both stay in range.      *)
LEMMA AddrSplit ==
  ASSUME NEW a \in Addr
  PROVE  /\ WordOf(a) \in WordAddr
         /\ Offset(a) \in 0 .. 3
         /\ a = 4 * WordOf(a) + Offset(a)
BY WAssumption DEF Addr, WordAddr, WordOf, Offset

LEMMA PlusInAddr ==
  ASSUME NEW a \in Addr, NEW n \in Lengths
  PROVE  Plus(a, n) \in Addr
BY WAssumption DEF Addr, Lengths, Plus

LEMMA NextWordInRange ==
  ASSUME NEW w \in WordAddr
  PROVE  NextWord(w) \in WordAddr
BY WAssumption DEF WordAddr, NextWord

(* A bundle that does not reach the next word keeps the word of pc, and a  *)
(* bundle that does moves to the very next one: bit 2 of next_pc differs   *)
(* from bit 2 of pc exactly then.                                          *)
LEMMA StepOfWord ==
  ASSUME NEW a \in Addr, NEW n \in Lengths
  PROVE  /\ Offset(a) + n < 4 =>
              /\ WordOf(Plus(a, n)) = WordOf(a)
              /\ Offset(Plus(a, n)) = Offset(a) + n
         /\ Offset(a) + n >= 4 =>
              /\ WordOf(Plus(a, n)) = NextWord(WordOf(a))
              /\ Offset(Plus(a, n)) = Offset(a) + n - 4
BY WAssumption DEF Addr, Lengths, Plus, NextWord, WordOf, Offset

LEMMA ParityTellsNextWord ==
  ASSUME NEW w \in WordAddr
  PROVE  NextWord(w) % 2 # w % 2
BY WAssumption DEF WordAddr, NextWord

-----------------------------------------------------------------------------
LEMMA TypesStep ==
  FetchTypeOK /\ [FetchNext]_fetchVars => FetchTypeOK'
<1> SUFFICES ASSUME FetchTypeOK, [FetchNext]_fetchVars PROVE FetchTypeOK'
  OBVIOUS
<1>0. ASSUME NEW e \in BOOLEAN, ShiftQueue(e)
      PROVE  /\ instmem_64_0' \in WordAddr \cup {NoWord}
             /\ instmem_64_1' \in WordAddr \cup {NoWord}
  BY <1>0 DEF ShiftQueue, FetchTypeOK
<1>1. CASE PrimingQueue0
  BY <1>1, <1>0, NextWordInRange DEF PrimingQueue0, FetchTypeOK, States
<1>2. CASE PrimingQueue1
  BY <1>2, <1>0, NextWordInRange DEF PrimingQueue1, FetchTypeOK, States
<1>3. CASE Jumping
  BY <1>3, <1>0, NextWordInRange DEF Jumping, FetchTypeOK, States
<1>4. ASSUME NEW len \in Lengths, NEW je \in BOOLEAN, NEW jt \in Addr,
             Running(len, je, jt)
      PROVE  FetchTypeOK'
  <2>1. fetch_enable(len) \in BOOLEAN
    BY DEF fetch_enable
  <2>2. next_pc(len) \in Addr
    BY PlusInAddr DEF next_pc, FetchTypeOK
  <2>3. WordOf(jt) \in WordAddr
    BY AddrSplit
  <2>4. fetch_address' \in WordAddr
    BY <1>4, <2>3, NextWordInRange DEF Running, FetchTypeOK
  <2> QED
    BY <1>4, <1>0, <2>1, <2>2, <2>4 DEF Running, FetchTypeOK, States
<1>5. CASE UNCHANGED fetchVars
  BY <1>5 DEF fetchVars, FetchTypeOK
<1> QED
  BY <1>1, <1>2, <1>3, <1>4, <1>5 DEF FetchNext, FetchCycle

LEMMA InitTypes == FetchInit => FetchTypeOK
<1>1. 0 \in Addr /\ 0 \in WordAddr
  BY WAssumption DEF Addr, WordAddr
<1> QED
  BY <1>1 DEF FetchInit, FetchTypeOK, States

(* Every register of the fetch stage stays within its width.               *)
THEOREM FetchTypes == FetchSpec => []FetchTypeOK
BY InitTypes, TypesStep, PTL DEF FetchSpec

-----------------------------------------------------------------------------
(* QueueAhead is inductive together with the types.  One step per state of *)
(* the stage; a RUNNING cycle either keeps the queue (the bundle stays in  *)
(* its word) or shifts it by one word.                                     *)
LEMMA QueueStep ==
  FetchTypeOK /\ QueueAhead /\ [FetchNext]_fetchVars => QueueAhead'
<1> SUFFICES ASSUME FetchTypeOK, QueueAhead, [FetchNext]_fetchVars
             PROVE  QueueAhead'
  OBVIOUS
<1>1. CASE PrimingQueue0
  <2>1. WordOf(0) = 0
    BY DEF WordOf
  <2> QED
    BY <1>1, <2>1 DEF PrimingQueue0, ShiftQueue, QueueAhead, InstValid
<1>2. CASE PrimingQueue1
  BY <1>2 DEF PrimingQueue1, ShiftQueue, QueueAhead, InstValid
<1>3. CASE Jumping
  BY <1>3 DEF Jumping, ShiftQueue, QueueAhead, InstValid
<1>4. ASSUME NEW len \in Lengths, NEW je \in BOOLEAN, NEW jt \in Addr,
             Running(len, je, jt)
      PROVE  QueueAhead'
  <2> DEFINE here == WordOf(pc)
             n == next_pc(len)
  <2>1. /\ here \in WordAddr /\ Offset(pc) \in 0 .. 3
        /\ n \in Addr /\ Offset(n) \in 0 .. 3
    BY AddrSplit, PlusInAddr DEF FetchTypeOK, next_pc
  <2>2. CASE WordOf(n) = here
    <3>1. ~(Offset(n) = 0 /\ Offset(pc) # 0)
      BY <2>1, <2>2, StepOfWord, ParityTellsNextWord
         DEF next_pc, FetchTypeOK, Lengths
    <3>2. fetch_enable(len) <=> insn_on_top /\ Offset(n) # 0
      BY <1>4, <2>2 DEF fetch_enable, Running
    <3>3. CASE fetch_enable(len)
      BY <1>4, <2>1, <2>2, <3>1, <3>2, <3>3
         DEF Running, ShiftQueue, QueueAhead, InstValid
    <3>4. CASE ~fetch_enable(len)
      BY <1>4, <2>1, <2>2, <3>1, <3>2, <3>4
         DEF Running, ShiftQueue, QueueAhead, InstValid
    <3> QED
      BY <3>3, <3>4
  <2>3. CASE WordOf(n) # here
    <3>1. WordOf(n) = NextWord(here) /\ Offset(pc) + len >= 4
      BY <2>1, <2>3, StepOfWord DEF next_pc, FetchTypeOK, Lengths
    <3>2. fetch_enable(len)
      BY <2>1, <3>1, ParityTellsNextWord DEF fetch_enable
    <3>3. insn_on_top => Offset(n) = 0
      BY <2>1, <3>1, StepOfWord DEF next_pc, FetchTypeOK, Lengths, QueueAhead
    <3> QED
      BY <1>4, <2>1, <3>1, <3>2, <3>3
         DEF Running, ShiftQueue, QueueAhead, InstValid
  <2> QED
    BY <2>2, <2>3
<1>5. CASE UNCHANGED fetchVars
  BY <1>5 DEF fetchVars, QueueAhead, InstValid
<1> QED
  BY <1>1, <1>2, <1>3, <1>4, <1>5 DEF FetchNext, FetchCycle

(* What the two queue words hold puts the right halfwords in the window.   *)
LEMMA QueueGivesWindow ==
  ASSUME FetchTypeOK, QueueAhead
  PROVE  WindowAtPc
<1> SUFFICES ASSUME InstValid, NEW i \in 0 .. 3
             PROVE  inst_64[i] = Plus(pc, i)
  BY DEF WindowAtPc, BundleAt, inst_64
<1>1. /\ WordOf(pc) \in WordAddr /\ Offset(pc) \in 0 .. 3
      /\ pc = 4 * WordOf(pc) + Offset(pc)
  BY AddrSplit DEF FetchTypeOK
<1>2. CASE insn_on_top
  <2>1. inst_64[i] = Half(instmem_64_0, i)
    BY <1>2 DEF inst_64, QueueAhead
  <2> QED
    BY <1>1, <1>2, <2>1, WAssumption
       DEF QueueAhead, Half, NoWord, WordAddr, Plus
<1>3. CASE ~insn_on_top /\ Offset(pc) + i < 4
  <2>1. inst_64[i] = Half(instmem_64_1, Offset(pc) + i)
    BY <1>1, <1>3 DEF inst_64
  <2> QED
    BY <1>1, <1>3, <2>1, WAssumption
       DEF QueueAhead, Half, NoWord, WordAddr, Plus
<1>4. CASE ~insn_on_top /\ Offset(pc) + i >= 4
  <2>1. inst_64[i] = Half(instmem_64_0, Offset(pc) + i - 4)
    BY <1>1, <1>4 DEF inst_64
  <2> QED
    BY <1>1, <1>4, <2>1, WAssumption
       DEF QueueAhead, Half, NoWord, WordAddr, Plus, NextWord
<1> QED
  BY <1>1, <1>2, <1>3, <1>4

(* The invariant that explains the queue, for every memory size.           *)
THEOREM QueueTheorem == FetchSpec => []QueueAhead
<1>1. FetchTypeOK /\ QueueAhead /\ [FetchNext]_fetchVars
        => (FetchTypeOK /\ QueueAhead)'
  BY TypesStep, QueueStep
<1>2. FetchInit => FetchTypeOK /\ QueueAhead
  BY InitTypes DEF FetchInit, QueueAhead, InstValid
<1> QED
  BY <1>1, <1>2, PTL DEF FetchSpec

(* The decoder always sees the halfwords at pc: no alignment, no sequence  *)
(* of bundle lengths and no pattern of jumps shows it anything else.       *)
THEOREM WindowTheorem == FetchSpec => []WindowAtPc
<1>1. FetchTypeOK /\ QueueAhead => WindowAtPc
  BY QueueGivesWindow
<1> QED
  BY <1>1, FetchTypes, QueueTheorem, PTL

-----------------------------------------------------------------------------
(* Every step of the stage is a step of BundleOrder: a PRIMING state is an *)
(* empty cycle, a RUNNING cycle issues, JUMPING issues the delay slot.     *)
LEMMA OrderStep ==
  ASSUME FetchTypeOK, WindowAtPc, WindowAtPc', [FetchNext]_fetchVars
  PROVE  [Order!OrderNext]_Order!orderVars
<1> USE DEF Order!OrderNext, Order!orderVars, Order!BundleAt, Order!Bubble,
            Order!NoJump, Order!Addr, Order!Offset, Order!Plus, Order!Lengths,
            Order!NoWord, NoWord, NoJump, BundleAt, Bubble, Plus, Offset
<1>1. CASE PrimingQueue0
  BY <1>1 DEF PrimingQueue0, InstValid, Order!EmptyCycle
<1>2. CASE PrimingQueue1
  <2>1. inst_64' = BundleAt(pc)
    BY <1>2 DEF PrimingQueue1, InstValid, WindowAtPc
  <2> QED
    BY <1>2, <2>1 DEF PrimingQueue1, InstValid, Order!EmptyCycle
<1>3. CASE Jumping
  <2>1. inst_64 = BundleAt(pc) /\ jump_pc_r # NoJump
    BY <1>3, WAssumption DEF Jumping, InstValid, WindowAtPc, FetchTypeOK, Addr
  <2>2. CASE Offset(jump_pc_r) = 0
    <3>1. inst_64' = BundleAt(jump_pc_r)
      BY <1>3, <2>2 DEF Jumping, InstValid, WindowAtPc
    <3> QED
      BY <1>3, <2>1, <2>2, <3>1 DEF Jumping, InstValid, Order!IssueDelaySlot
  <2>3. CASE Offset(jump_pc_r) # 0
    BY <1>3, <2>1, <2>3 DEF Jumping, InstValid, Order!IssueDelaySlot
  <2> QED
    BY <2>2, <2>3
<1>4. ASSUME NEW len \in Lengths, NEW je \in BOOLEAN, NEW jt \in Addr,
             Running(len, je, jt)
      PROVE  Order!Issue
  <2>1. inst_64 = BundleAt(pc) /\ InstValid
    BY <1>4 DEF Running, InstValid, WindowAtPc
  <2>2. inst_64' = BundleAt(pc') /\ InstValid'
    BY <1>4 DEF Running, InstValid, WindowAtPc
  <2>3. pc' = Plus(pc, len)
    BY <1>4 DEF Running, next_pc
  <2> QED
    BY <1>4, <2>1, <2>2, <2>3 DEF Running, Order!Issue, Lengths, Addr
<1>5. CASE UNCHANGED fetchVars
  <2>1. inst_64' = inst_64 /\ InstValid' = InstValid
    BY <1>5 DEF fetchVars, inst_64, InstValid
  <2> QED
    BY <1>5, <2>1 DEF fetchVars
<1> QED
  BY <1>1, <1>2, <1>3, <1>4, <1>5 DEF FetchNext, FetchCycle

(* The fetch stage implements the order it promises, for every memory size *)
(* and every sequence of lengths and jump requests.                        *)
THEOREM OrderTheorem == FetchSpec => ImplementsOrder
<1>1. FetchInit => Order!OrderInit
  BY DEF FetchInit, Order!OrderInit, InstValid, Order!NoJump, NoJump,
         Order!Bubble, Bubble, NoWord, Order!NoWord
<1>2. FetchTypeOK /\ WindowAtPc /\ WindowAtPc' /\ [FetchNext]_fetchVars
        => [Order!OrderNext]_Order!orderVars
  BY OrderStep
<1> QED
  BY <1>1, <1>2, FetchTypes, WindowTheorem, PTL
     DEF FetchSpec, ImplementsOrder, Order!OrderSpec
=============================================================================
