------------------------------ MODULE HwDecode ------------------------------
(***************************************************************************)
(* What the core does with a packet of halfwords: the packet decoder       *)
(* (vliwdec.v), the choice of the units (ajardsp_top.v) and the decoders   *)
(* of the units (pcu.v, lsu.v, cu.v, bmu.v).                               *)
(*                                                                         *)
(* The effect of an instruction is the operation the unit carries out, its *)
(* operands in the order of the assembler, and the predicate that guards   *)
(* it.  Numbers of fields are read from the Verilog, not from the table of *)
(* the assembler.                                                          *)
(***************************************************************************)
EXTENDS InsnTable, SequencesExt

INSN_SIZE_BIT == 1
INSN_ENC_BIT == 29

Wide(w) == {INSN_SIZE_BIT, INSN_ENC_BIT} \subseteq w
Num(w, hi, lo) == FieldOf(w, lo, hi - lo + 1)
Signed(w, hi, lo) == Num(w, hi, lo) - IF hi \in w THEN 2^(hi - lo + 1) ELSE 0

-----------------------------------------------------------------------------
(* vliwdec: up to four instructions of a packet of four halfwords.  The    *)
(* packet is named by the first halfwords of its instructions; two 32-bit  *)
(* instructions in parallel with a third are no packet.                    *)
Size(h) == IF INSN_SIZE_BIT \in h THEN 2 ELSE 1
Parallel(h) == PAR_BIT \in h

InstStarts(v) ==
  LET s2 == 1 + Size(v[1])
      s3 == s2 + Size(v[s2])
  IN CASE ~Parallel(v[1]) -> <<1>>
       [] Parallel(v[1]) /\ ~Parallel(v[s2]) -> <<1, s2>>
       [] Parallel(v[1]) /\ Parallel(v[s2]) /\ s3 > 4 -> <<>>
       [] Parallel(v[1]) /\ Parallel(v[s2]) /\ s3 = 4 -> <<1, s2, 4>>
       [] OTHER -> IF Parallel(v[3]) THEN <<1, 2, 3, 4>> ELSE <<1, 2, 3>>

vliw_len(v) ==
  IF InstStarts(v) = <<>> THEN 0
  ELSE LET end == Last(InstStarts(v)) + Size(v[Last(InstStarts(v))]) - 1
       IN IF end > 4 THEN 4 ELSE end

(* The 32 bits from halfword s on; beyond the packet there are zeros.      *)
InstAt(v, s) == v[s] \cup IF s < 4 THEN {16 + b : b \in v[s + 1]} ELSE {}
Insts(v) == [k \in DOMAIN InstStarts(v) |-> InstAt(v, InstStarts(v)[k])]

-----------------------------------------------------------------------------
(* Dispatch: one PCU, two LSUs, two CUs and one BMU take the first         *)
(* instructions of their kind; further ones are dropped.                   *)
Capacity == [PCU |-> 1, LSU |-> 2, CU |-> 2, BMU |-> 1]
UnitOf(w) == CHOOSE u \in DOMAIN FU : FU[u] = Num(w, 3, 2)

Taken(v) ==
  LET insts == Insts(v)
      Before(k) == {j \in 1 .. k - 1 : UnitOf(insts[j]) = UnitOf(insts[k])}
      order == SelectSeq([k \in DOMAIN insts |-> k],
                         LAMBDA k : Cardinality(Before(k)) < Capacity[UnitOf(insts[k])])
  IN [i \in DOMAIN order |-> insts[order[i]]]

-----------------------------------------------------------------------------
(* Registers, as their register files number them.                         *)
AccReg(n) == [class |-> "acc", n |-> n, half |-> ""]
HalfReg(n, high) == [class |-> "acc", n |-> n, half |-> IF high THEN "h" ELSE "l"]
PtrReg(n) == [class |-> "ptr", n |-> n, half |-> ""]
PredReg(n) == [class |-> "predicate", n |-> n, half |-> ""]

SPEC_REGS_ADDR ==
  (1 :> "retpc") @@ (2 :> "sp") @@ (3 :> "satctrl") @@ (4 :> "mulsign")
  @@ (5 :> "masksel") @@ (6 :> "mask0") @@ (7 :> "mask1") @@ (8 :> "modsel")
  @@ (9 :> "mod0") @@ (10 :> "mod1") @@ (11 :> "bitrev") @@ (12 :> "retipc")
  @@ (13 :> "pred") @@ (14 :> "bkrepcnt") @@ (30 :> "gpio2") @@ (31 :> "gpio")
SpecReg(n) ==
  [class |-> IF n \in DOMAIN SPEC_REGS_ADDR THEN SPEC_REGS_ADDR[n] ELSE "reserved",
   n |-> 0, half |-> ""]

(* A half of an accumulator, or a pointer: the bit above tells.            *)
HalfAt(w, hi, lo) == HalfReg(Num(w, hi, lo + 1), lo \in w)
PtrAt(w, lo) == PtrReg(Num(w, lo + 2, lo))
AccAt(w, lo) == AccReg(Num(w, lo + 2, lo))
RegAt(w, lo) == IF lo + 4 \in w THEN HalfAt(w, lo + 3, lo) ELSE PtrAt(w, lo)

(* Predicate 0 is always true.                                             *)
Always == <<0, FALSE>>
GuardOf(w) == IF INSN_SIZE_BIT \in w THEN <<Num(w, 31, 30), PRED_NEG_BIT \in w>>
              ELSE Always

Does(op, args, guard) == [op |-> op, args |-> args, guard |-> guard]
Nothing == Does("nop", <<>>, Always)

-----------------------------------------------------------------------------
(* pcu.v.  BKREP, EINT and DINT do not look at the predicate; a jump       *)
(* through a pointer register is commented out, and the call then only     *)
(* writes the return address.                                              *)
DelaySlots(name, n) == CASE n = 0 -> name [] n = 1 -> name \o ".1ds"
                         [] n = 2 -> name \o ".2ds" [] n = 3 -> name \o ".3ds"

PcuEffect(w) ==
  LET t == Num(w, 7, 4)
      g == GuardOf(w)
      to == <<Num(w, 23, 8)>>
  IN CASE t = 2 /\ Wide(w) -> Does(DelaySlots("call", Num(w, 25, 24)), to, g)
       [] t = 4 /\ Wide(w) -> Does(DelaySlots("bra", Num(w, 25, 24)), to, g)
       [] t = 1 /\ Wide(w) -> Does("bkrep", to, Always)
       [] t = 2 /\ ~Wide(w) -> Does("set retpc", <<>>, g)
       [] t = 3 /\ ~Wide(w) -> Does(DelaySlots("rets", Num(w, 13, 12)), <<>>, g)
       [] t = 5 /\ ~Wide(w) -> Does(DelaySlots("reti", Num(w, 13, 12)), <<>>, g)
       [] t = 15 /\ ~Wide(w) -> Does("halt", <<>>, g)
       [] t = 6 -> Does("eint", <<>>, Always)
       [] t = 7 -> Does("dint", <<>>, Always)
       [] OTHER -> Nothing

(* lsu.v, the 32-bit encodings.                                            *)
LsuEffect32(w) ==
  LET t == Num(w, 7, 4)
      g == GuardOf(w)
      base == PtrAt(w, 25)
      off == Signed(w, 24, 13)
      ext == <<PtrAt(w, 8), PtrAt(w, 11), AccAt(w, 14)>>
  IN CASE t = 1 -> Does("mvts16", <<RegAt(w, 8), SpecReg(Num(w, 18, 13))>>, g)
       [] t = 2 -> Does("mvfs16", <<SpecReg(Num(w, 18, 13)), RegAt(w, 8)>>, g)
       [] t = 4 -> Does("ldoff16", <<base, off, RegAt(w, 8)>>, g)
       [] t = 5 -> Does("ldoff32", <<base, off, AccAt(w, 9)>>, g)
       [] t = 6 -> Does("stoff16", <<RegAt(w, 8), base, off>>, g)
       [] t = 7 -> Does("stoff32", <<AccAt(w, 9), base, off>>, g)
       [] t = 8 -> Does("addptr16", <<off, base>>, g)
       [] t = 9 -> Does("ldimm16", <<Num(w, 27, 12), PtrAt(w, 8)>>, g)
       [] t = 10 -> Does("ldimm16", <<Num(w, 27, 12), HalfAt(w, 11, 8)>>, g)
       [] t = 11 -> Does("ldext32", ext, g)
       [] t = 12 -> Does("stext32", <<ext[3], ext[1], ext[2]>>, g)
       [] t = 13 -> Does("extburst", <<Num(w, 24, 17)>> \o ext, g)
       [] OTHER -> Nothing

(* A push or a pop: of a special register, an accumulator, its half or a   *)
(* pointer.  The stack pointer moves whatever the predicate says.          *)
StackEffect(w) ==
  LET name == IF GuardOf(w) = Always THEN (IF 8 \in w THEN "push" ELSE "pop")
              ELSE "move sp always and " \o (IF 8 \in w THEN "push" ELSE "pop")
      target == IF 10 \in w THEN SpecReg(Num(w, 15, 11)) ELSE RegAt(w, 11)
  IN IF 9 \in w
     THEN Does(name \o "32", <<AccAt(w, 12)>>, GuardOf(w))
     ELSE Does(name \o "16", <<target>>, GuardOf(w))

(* lsu.v, the 16-bit encodings.  A 16-bit access with increment moves the  *)
(* pointer only when its data register is an accumulator half.             *)
LsuEffect16(w) ==
  LET t == Num(w, 7, 4)
      g == GuardOf(w)
      ptr == PtrAt(w, 8)
      inc16 == IF 15 \in w THEN "inc16" ELSE "16"
  IN CASE t = 1 -> Does("ld16", <<ptr, RegAt(w, 11)>>, g)
       [] t = 2 -> Does("ld" \o inc16, <<ptr, RegAt(w, 11)>>, g)
       [] t = 3 -> Does("st16", <<RegAt(w, 11), ptr>>, g)
       [] t = 4 -> Does("st" \o inc16, <<RegAt(w, 11), ptr>>, g)
       [] t = 5 -> Does("ld32", <<ptr, AccAt(w, 11)>>, g)
       [] t = 6 -> Does("ldinc32", <<ptr, AccAt(w, 11)>>, g)
       [] t = 7 -> Does("st32", <<AccAt(w, 11), ptr>>, g)
       [] t = 8 -> Does("stinc32", <<AccAt(w, 11), ptr>>, g)
       [] t = 9 -> StackEffect(w)
       [] t = 10 -> IF 8 \in w
                  THEN Does("mv16", <<HalfAt(w, 15, 12), PtrAt(w, 9)>>, g)
                  ELSE Does("mv16", <<PtrAt(w, 9), HalfAt(w, 15, 12)>>, g)
       [] t = 11 -> Does("mv16", <<HalfAt(w, 15, 12), HalfAt(w, 11, 8)>>, g)
       [] t = 12 -> Does("mv16", <<PtrAt(w, 9), PtrAt(w, 12)>>, g)
       [] OTHER -> Nothing

(* cu.v.  A comparison always sets its predicate: bit 28 is part of its    *)
(* code.  A product reads halves of the accumulators 0 to 3 only.          *)
CmpNames == <<"eq", "ne", "lt", "le", "gt", "ge">>
CuEffect(w) ==
  LET t == Num(w, 6, 4)
      g == GuardOf(w)
      low == <<HalfAt(w, 9, 7), HalfAt(w, 12, 10), AccAt(w, 13)>>
  IN IF Wide(w)
     THEN IF Num(w, 8, 4) = 1 /\ Num(w, 28, 26) < Len(CmpNames)
          THEN Does("cmp16" \o CmpNames[Num(w, 28, 26) + 1],
                    <<HalfAt(w, 12, 9), HalfAt(w, 16, 13), PredReg(Num(w, 25, 24))>>,
                    Always)
          ELSE Nothing
     ELSE CASE t = 1 -> Does("add16", <<HalfAt(w, 14, 11), HalfAt(w, 10, 7)>>, g)
            [] t = 2 -> Does("sub16", <<HalfAt(w, 14, 11), HalfAt(w, 10, 7)>>, g)
            [] t = 3 -> Does("add32", <<AccAt(w, 7), AccAt(w, 10), AccAt(w, 13)>>, g)
            [] t = 4 -> Does("sub32", <<AccAt(w, 7), AccAt(w, 10), AccAt(w, 13)>>, g)
            [] t = 5 -> Does("mpy16", low, g)
            [] t = 6 -> Does("mac16", low, g)
            [] OTHER -> Nothing

(* bmu.v: only 32-bit encodings.  Bit 21 chooses 16 bits, bit 23 the left. *)
BmuEffect(w) ==
  LET t == Num(w, 8, 4)
      g == GuardOf(w)
      size == IF 21 \in w THEN "16" ELSE "32"
      op0 == IF 21 \in w THEN HalfAt(w, 12, 9) ELSE AccAt(w, 10)
      op1 == IF 21 \in w THEN HalfAt(w, 16, 13) ELSE AccAt(w, 14)
      res == IF 21 \in w THEN HalfAt(w, 20, 17) ELSE AccAt(w, 18)
      shift == <<op0, HalfAt(w, 16, 13), res>>
      left == IF 23 \in w THEN "shiftll" ELSE "shiftrl"
  IN IF ~Wide(w) THEN Nothing
     ELSE CASE t = 1 -> Does("and" \o size, <<op0, op1, res>>, g)
            [] t = 2 -> Does("not" \o size, <<op0, res>>, g)
            [] t = 3 -> Does("or" \o size, <<op0, op1, res>>, g)
            [] t = 4 -> Does("xor" \o size, <<op0, op1, res>>, g)
            [] t = 5 -> Does("shiftra" \o size, shift, g)
            [] t = 6 -> Does(left \o size, shift, g)
            [] OTHER -> Nothing

Effect(w) == CASE UnitOf(w) = "PCU" -> PcuEffect(w)
               [] UnitOf(w) = "LSU" -> IF Wide(w) THEN LsuEffect32(w) ELSE LsuEffect16(w)
               [] UnitOf(w) = "CU" -> CuEffect(w)
               [] UnitOf(w) = "BMU" -> BmuEffect(w)

(* What the packet in the halfwords v does.                                *)
Effects(v) ==
  LET taken == Taken(v)
  IN SelectSeq([k \in DOMAIN taken |-> Effect(taken[k])], LAMBDA e : e.op # "nop")
=============================================================================
