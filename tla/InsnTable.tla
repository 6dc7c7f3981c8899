------------------------------ MODULE InsnTable ------------------------------
(***************************************************************************)
(* The instruction table that the assembler and the disassembler share     *)
(* (sw/tools/asm/ajardsp-insns.c, with the types of asm.h).                *)
(*                                                                         *)
(* An instruction word is the set of the positions of its one bits: or is  *)
(* union, and-not is difference, a shift renames the positions.            *)
(***************************************************************************)
EXTENDS Integers, Sequences, FiniteSets

(* v << offset, for the bits of v that a word of 32 bits can hold.         *)
Bits(v, offset) == {offset + i : i \in {j \in 0 .. 15 : (v \div 2^j) % 2 = 1}}

(* The number in the width bits of word from offset up.                    *)
FieldOf(word, offset, width) ==
  LET low[i \in 0 .. width] ==
        IF i = 0 THEN 0
        ELSE low[i - 1] + IF offset + i - 1 \in word THEN 2^(i - 1) ELSE 0
  IN low[width]

PAR_BIT == 0
SIZE_BIT == 1
PRED_NEG_BIT == 28
INSN_ENC_32 == {29}

-----------------------------------------------------------------------------
(* FU: bits 3:2 choose the unit, the type of the instruction is above it.  *)
FU == [PCU |-> 0, LSU |-> 1, CU |-> 2, BMU |-> 3]

PcuItype == [BKREP |-> 1, CALL_ABS |-> 2, RETS |-> 3, JUMP_ABS |-> 4,
             RETI |-> 5, EINT |-> 6, DINT |-> 7, HALT |-> 15]

BmuItype == [AND |-> 1, NOT |-> 2, OR |-> 3, XOR |-> 4, SHIFTA |-> 5,
             SHIFTL |-> 6]
BMU_OP_SIZE_16 == {21}
BMU_SHIFT_LEFT == {23}

CuItype == [ADD_16 |-> 1, SUB_16 |-> 2, ADD_32 |-> 3, SUB_32 |-> 4,
            MPY_16 |-> 5, MAC_16 |-> 6, CMP_16 |-> 1]
CmpCode == [eq |-> 0, ne |-> 1, lt |-> 2, le |-> 3, gt |-> 4, ge |-> 5]

LsuItype == [LD_16 |-> 1, LD_INC_16 |-> 2, ST_16 |-> 3, ST_INC_16 |-> 4,
             LD_32 |-> 5, LD_INC_32 |-> 6, ST_32 |-> 7, ST_INC_32 |-> 8,
             PUSH_POP |-> 9, MV_ACC_PTR |-> 10, MV_ACC_ACC |-> 11,
             MV_PTR_PTR |-> 12]
LsuItype32 == [MVTS_16 |-> 1, MVFS_16 |-> 2, LD_OFF_16 |-> 4, LD_OFF_32 |-> 5,
               ST_OFF_16 |-> 6, ST_OFF_32 |-> 7, ADDPTR_16 |-> 8,
               LD_IMM_PTR |-> 9, LD_IMM_ACC |-> 10, LD_EXT |-> 11,
               ST_EXT |-> 12, EXT_BURST |-> 13]

Pattern(fu, itype) == Bits(FU[fu], 2) \cup Bits(itype, 4)
Pcu(t) == Pattern("PCU", PcuItype[t])
Bmu(t) == INSN_ENC_32 \cup Pattern("BMU", BmuItype[t])
Bmu16(t) == BMU_OP_SIZE_16 \cup Bmu(t)
Cu(t) == Pattern("CU", CuItype[t])
Cmp(code) == INSN_ENC_32 \cup Cu("CMP_16") \cup Bits(CmpCode[code], 26)
Lsu(t) == Pattern("LSU", LsuItype[t])
Lsu32(t) == INSN_ENC_32 \cup Pattern("LSU", LsuItype32[t])

-----------------------------------------------------------------------------
(* operand_def_t: the kind of operand, its field and its encoder.          *)
Field(type, offset, width, encode) ==
  [type |-> type, offset |-> offset, width |-> width, encode |-> encode]

Acc(o) == Field("REG", o, 3, "acc")
Half(o) == Field("REG", o, 4, "acc_half")
LowHalf(o) == Field("REG", o, 3, "acc_half")
Ptr(o) == Field("REG", o, 3, "ptr")
Reg(o) == Field("REG", o, 5, "reg")
Pred(o) == Field("REG", o, 2, "pred")
SpecOp(o, w) == Field("REG", o, w, "spec")
Imm(o, w) == Field("INTEGER", o, w, "int")
Sym(o, w) == Field("SYMBOL_REF", o, w, "symref")

(* inst_def_t                                                              *)
Insn(mnemonic, size, pattern, operands) ==
  [mnemonic |-> mnemonic, size |-> size, pattern |-> pattern,
   operands |-> operands]
I16(mnemonic, pattern, operands) == Insn(mnemonic, 16, pattern, operands)
I32(mnemonic, pattern, operands) == Insn(mnemonic, 32, pattern, operands)

-----------------------------------------------------------------------------
(* The table, in its order.                                                *)
Nops == << I16("nop", {}, <<>>) >>

BmuLogic32 ==
  << I32("and32", Bmu("AND"), <<Acc(10), Acc(14), Acc(18)>>),
     I32("or32", Bmu("OR"), <<Acc(10), Acc(14), Acc(18)>>),
     I32("xor32", Bmu("XOR"), <<Acc(10), Acc(14), Acc(18)>>),
     I32("not32", Bmu("NOT"), <<Acc(10), Acc(18)>>) >>

BmuShift32 ==
  << I32("shiftra32", Bmu("SHIFTA"), <<Acc(10), Half(13), Acc(18)>>),
     I32("shiftrl32", Bmu("SHIFTL"), <<Acc(10), Half(13), Acc(18)>>),
     I32("shiftll32", BMU_SHIFT_LEFT \cup Bmu("SHIFTL"),
         <<Acc(10), Half(13), Acc(18)>>) >>

BmuLogic16 ==
  << I32("and16", Bmu16("AND"), <<Half(9), Half(13), Half(17)>>),
     I32("or16", Bmu16("OR"), <<Half(9), Half(13), Half(17)>>),
     I32("xor16", Bmu16("XOR"), <<Half(9), Half(13), Half(17)>>),
     I32("not16", Bmu16("NOT"), <<Half(9), Half(17)>>) >>

BmuShift16 ==
  << I32("shiftra16", Bmu16("SHIFTA"), <<Half(9), Half(13), Half(17)>>),
     I32("shiftrl16", Bmu16("SHIFTL"), <<Half(9), Half(13), Half(17)>>),
     I32("shiftll16", BMU_SHIFT_LEFT \cup Bmu16("SHIFTL"),
         <<Half(9), Half(13), Half(17)>>) >>

CuAddSub ==
  << I16("add32", Cu("ADD_32"), <<Acc(7), Acc(10), Acc(13)>>),
     I16("sub32", Cu("SUB_32"), <<Acc(7), Acc(10), Acc(13)>>),
     I16("add16", Cu("ADD_16"), <<Half(11), Half(7)>>),
     I16("sub16", Cu("SUB_16"), <<Half(11), Half(7)>>) >>

CuMultiply ==
  << I16("mpy16", Cu("MPY_16"), <<LowHalf(7), LowHalf(10), Acc(13)>>),
     I16("mac16", Cu("MAC_16"), <<LowHalf(7), LowHalf(10), Acc(13)>>) >>

(* The unsigned mnemonics have the patterns of the signed ones.            *)
CmpOperands == <<Half(9), Half(13), Pred(24)>>
CuCompareEqLt ==
  << I32("cmp16eq", Cmp("eq"), CmpOperands),
     I32("cmp16ne", Cmp("ne"), CmpOperands),
     I32("cmp16lt", Cmp("lt"), CmpOperands),
     I32("cmp16ltu", Cmp("lt"), CmpOperands) >>
CuCompareLe ==
  << I32("cmp16le", Cmp("le"), CmpOperands),
     I32("cmp16leu", Cmp("le"), CmpOperands) >>
CuCompareGtGe ==
  << I32("cmp16gt", Cmp("gt"), CmpOperands),
     I32("cmp16gtu", Cmp("gt"), CmpOperands),
     I32("cmp16ge", Cmp("ge"), CmpOperands),
     I32("cmp16geu", Cmp("ge"), CmpOperands) >>

LsuAccess16 ==
  << I16("ld16", Lsu("LD_16"), <<Ptr(8), Reg(11)>>),
     I16("ldinc16", Lsu("LD_INC_16"), <<Ptr(8), Reg(11)>>),
     I16("st16", Lsu("ST_16"), <<Reg(11), Ptr(8)>>),
     I16("stinc16", Lsu("ST_INC_16"), <<Reg(11), Ptr(8)>>) >>

LsuAccess32 ==
  << I16("ld32", Lsu("LD_32"), <<Ptr(8), Acc(11)>>),
     I16("ldinc32", Lsu("LD_INC_32"), <<Ptr(8), Acc(11)>>),
     I16("st32", Lsu("ST_32"), <<Acc(11), Ptr(8)>>),
     I16("stinc32", Lsu("ST_INC_32"), <<Acc(11), Ptr(8)>>) >>

(* The pointer encoder has a field of four bits here; the last entry has   *)
(* the pattern of a pointer and the encoder of an accumulator half.        *)
LsuImmediate ==
  << I32("ldimm16", Lsu32("LD_IMM_ACC"), <<Imm(12, 16), Half(8)>>),
     I32("ldimm16", Lsu32("LD_IMM_PTR"),
         <<Imm(12, 16), Field("REG", 8, 4, "ptr")>>),
     I32("ldimm16", Lsu32("LD_IMM_PTR"),
         <<Sym(12, 16), Field("REG", 8, 4, "ptr")>>),
     I32("ldimm16", Lsu32("LD_IMM_PTR"), <<Sym(12, 16), Half(8)>>) >>

LsuLoadOffset ==
  << I32("ldoff16", Lsu32("LD_OFF_16"), <<Ptr(25), Imm(13, 12), Reg(8)>>),
     I32("ldoff16", Lsu32("LD_OFF_16"), <<Ptr(25), Sym(13, 12), Reg(8)>>),
     I32("ldoff32", Lsu32("LD_OFF_32"), <<Ptr(25), Imm(13, 12), Acc(9)>>),
     I32("ldoff32", Lsu32("LD_OFF_32"), <<Ptr(25), Sym(13, 12), Acc(9)>>) >>

LsuStoreOffset ==
  << I32("stoff16", Lsu32("ST_OFF_16"), <<Reg(8), Ptr(25), Imm(13, 12)>>),
     I32("stoff16", Lsu32("ST_OFF_16"), <<Reg(8), Ptr(25), Sym(13, 12)>>),
     I32("stoff32", Lsu32("ST_OFF_32"), <<Acc(9), Ptr(25), Imm(13, 12)>>),
     I32("stoff32", Lsu32("ST_OFF_32"), <<Acc(9), Ptr(25), Sym(13, 12)>>) >>

LsuSpecial ==
  << I32("addptr16", Lsu32("ADDPTR_16"), <<Imm(13, 12), Ptr(25)>>),
     I32("mvts16", Lsu32("MVTS_16"), <<Reg(8), SpecOp(13, 6)>>),
     I32("mvfs16", Lsu32("MVFS_16"), <<SpecOp(13, 6), Reg(8)>>) >>

LsuStack ==
  << I16("push16", {8} \cup Lsu("PUSH_POP"), <<Reg(11)>>),
     I16("push16", {10, 8} \cup Lsu("PUSH_POP"), <<SpecOp(11, 5)>>),
     I16("push32", {15, 9, 8} \cup Lsu("PUSH_POP"), <<Acc(12)>>),
     I16("pop16", Lsu("PUSH_POP"), <<Reg(11)>>),
     I16("pop16", {10} \cup Lsu("PUSH_POP"), <<SpecOp(11, 5)>>),
     I16("pop32", {15, 9} \cup Lsu("PUSH_POP"), <<Acc(12)>>) >>

LsuMove ==
  << I16("mv16", Lsu("MV_ACC_PTR"), <<Ptr(9), Half(12)>>),
     I16("mv16", {8} \cup Lsu("MV_ACC_PTR"), <<Half(12), Ptr(9)>>),
     I16("mv16", Lsu("MV_PTR_PTR"), <<Ptr(9), Ptr(12)>>),
     I16("mv16", Lsu("MV_ACC_ACC"), <<Half(12), Half(8)>>) >>

LsuExternal ==
  << I32("stext32", Lsu32("ST_EXT"), <<Acc(14), Ptr(8), Ptr(11)>>),
     I32("ldext32", Lsu32("LD_EXT"), <<Ptr(8), Ptr(11), Acc(14)>>),
     I32("extburst", Lsu32("EXT_BURST"),
         <<Imm(17, 8), Ptr(8), Ptr(11), Acc(14)>>) >>

(* A jump to a symbol, with no, two or one delay slots. *)
JumpForms(name, names, itype) ==
  << I32(name, INSN_ENC_32 \cup Pcu(itype), <<Sym(8, 16)>>),
     I32(names[2], Bits(2, 24) \cup INSN_ENC_32 \cup Pcu(itype), <<Sym(8, 16)>>),
     I32(names[1], Bits(1, 24) \cup INSN_ENC_32 \cup Pcu(itype), <<Sym(8, 16)>>) >>

PcuBranch == JumpForms("bra", <<"bra.1ds", "bra.2ds">>, "JUMP_ABS")
PcuCall == JumpForms("call", <<"call.1ds", "call.2ds">>, "CALL_ABS")

PcuReturn ==
  << I16("rets", Pcu("RETS"), <<>>),
     I16("rets.2ds", Bits(2, 12) \cup Pcu("RETS"), <<>>),
     I16("rets.1ds", Bits(1, 12) \cup Pcu("RETS"), <<>>),
     I16("reti", Pcu("RETI"), <<>>),
     I16("reti.2ds", Bits(2, 12) \cup Pcu("RETI"), <<>>),
     I16("reti.1ds", Bits(1, 12) \cup Pcu("RETI"), <<>>) >>

PcuOther ==
  << I16("eint", Pcu("EINT"), <<>>),
     I16("dint", Pcu("DINT"), <<>>),
     I32("bkrep", INSN_ENC_32 \cup Pcu("BKREP"), <<Sym(8, 16)>>),
     I16("halt", Pcu("HALT"), <<>>) >>

ajardsp_insns ==
  Nops \o BmuLogic32 \o BmuShift32 \o BmuLogic16 \o BmuShift16
  \o CuAddSub \o CuMultiply \o CuCompareEqLt \o CuCompareLe \o CuCompareGtGe
  \o LsuAccess16 \o LsuAccess32 \o LsuImmediate \o LsuLoadOffset
  \o LsuStoreOffset \o LsuSpecial \o LsuStack \o LsuMove \o LsuExternal
  \o PcuBranch \o PcuCall \o PcuReturn \o PcuOther
=============================================================================
