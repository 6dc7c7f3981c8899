------------------------------- MODULE Disasm -------------------------------
(***************************************************************************)
(* disasm() of sw/tools/asm/disasm.c, which the disassembler and the       *)
(* pipeline view of the simulation debugger call: the mnemonic of the      *)
(* first table entry whose pattern the word has outside its operands.      *)
(***************************************************************************)
EXTENDS InsnTable, SequencesExt

RES_BAD == "RES_BAD"

(* Mutant: the parallel bit is left.                                       *)
StrippedWithPar(insn_word) ==
  LET word == insn_word \ {30, 31}
  IN IF SIZE_BIT \in word THEN word ELSE word \cap 0 .. 15

(* Bits 31:30 of a negated predicate go, bit 28 stays; the upper half of a *)
(* 16-bit instruction is not part of it.                                   *)
Stripped(insn_word) ==
  LET word == insn_word \ {PAR_BIT, 30, 31}
  IN IF SIZE_BIT \in word THEN word ELSE word \cap 0 .. 15

OperandBits(id) ==
  UNION {id.operands[j].offset .. id.operands[j].offset + id.operands[j].width - 1 :
           j \in DOMAIN id.operands}

Matches(id, word) ==
  word \ OperandBits(id) = id.pattern \cup IF id.size = 32 THEN {SIZE_BIT} ELSE {}

disasm(insn_word) ==
  LET found == SelectSeq(ajardsp_insns, LAMBDA id : Matches(id, Stripped(insn_word)))
  IN IF found = <<>> THEN RES_BAD ELSE Head(found).mnemonic
=============================================================================
