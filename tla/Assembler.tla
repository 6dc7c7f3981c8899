------------------------------ MODULE Assembler ------------------------------
(***************************************************************************)
(* The two-pass assembler (sw/tools/asm/asm.c, symtab.c) on the parsed     *)
(* program: the first pass places every label, the second writes the code  *)
(* and the data with the addresses of the first in place.                  *)
(*                                                                         *)
(* One step is one element of the lists the parser built.  A register is   *)
(* its class, its number and its half; a symbol is a name.  exit(1) writes *)
(* no image; reading past the operand list, or writing past imem[], ends   *)
(* the program as a crash.                                                 *)
(***************************************************************************)
EXTENDS InsnTable, SequencesExt

CONSTANTS
  Programs,   \* parsed programs: [data |-> elements, code |-> bundles,
              \* fill |-> option_fill_mems, and what its users add]
  ImemSize,   \* halfwords of imem[] (0x10000 in the code)
  DmemSize    \* words of dmem[] (0x10000 in the code)

ASSUME AssemblerAssumption ==
  ImemSize \in Nat \ {0} /\ ImemSize % 4 = 0 /\ DmemSize \in Nat \ {0}

VARIABLES
  prog,                 \* code_section_p and data_section_p
  ignore_sym_refs,      \* TRUE in the first pass
  data_p, ib_p,         \* the next element of each list
  imem, imem_addr,
  dmem, dmem_addr,
  symtab,               \* from the names defined so far to addresses
  asm_status,           \* how the program ended, or "running"
  image                 \* the .imem, .dmem and .map files

asmVars == <<prog, ignore_sym_refs, data_p, ib_p, imem, imem_addr, dmem,
             dmem_addr, symtab, asm_status, image>>

DMEM_UNINIT_VALUE == 57005   \* 0xdead
NoPred == [class |-> "none", n |-> 0, half |-> ""]

-----------------------------------------------------------------------------
(* Operands.                                                               *)
SpecialRegs ==
  [retpc |-> 1, sp |-> 2, satctrl |-> 3, mulsign |-> 4, masksel |-> 5,
   mask0 |-> 6, mask1 |-> 7, modsel |-> 8, mod0 |-> 9, mod1 |-> 10,
   bitrev |-> 11, retipc |-> 12, pred |-> 13, bkrepcnt |-> 14,
   gpio2 |-> 30, gpio |-> 31]

Masked(v, f) == Bits(v % 2^f.width, f.offset)
(* Mutant: the low half is the odd number.                                 *)
HalfNumberLowOdd(r) == 2 * r.n + IF r.half = "l" THEN 1 ELSE 0
HalfNumber(r) == 2 * r.n + IF r.half = "h" THEN 1 ELSE 0
IsHalf(r) == r.class = "acc" /\ r.half # ""

(* Each encoder: whether it takes the operand, and the bits it adds.       *)
encode_spec(f, op) ==
  [good |-> op.reg.class \in DOMAIN SpecialRegs,
   bits |-> IF op.reg.class \in DOMAIN SpecialRegs
            THEN Masked(SpecialRegs[op.reg.class], f) ELSE {}]

encode_acc(f, op) ==
  [good |-> op.reg.class = "acc" /\ op.reg.half = "",
   bits |-> Masked(op.reg.n, f)]

encode_acc_half(f, op) ==
  [good |-> IsHalf(op.reg), bits |-> Masked(HalfNumber(op.reg), f)]

encode_ptr(f, op) ==
  [good |-> op.reg.class = "ptr", bits |-> Masked(op.reg.n, f)]

encode_pred(f, op) ==
  [good |-> op.reg.class = "predicate", bits |-> Masked(op.reg.n, f)]

encode_reg(f, op) ==
  [good |-> op.reg.class = "ptr" \/ IsHalf(op.reg),
   bits |-> IF op.reg.class = "ptr" THEN Masked(op.reg.n, f)
            ELSE Masked(HalfNumber(op.reg), f) \cup {f.offset + f.width - 1}]

(* There is no lower bound, and the field may be signed in the unit.       *)
encode_int(f, op) ==
  [good |-> op.value < 2^f.width, bits |-> Masked(op.value, f)]

symtab_lookup(name) == name \in DOMAIN symtab

encode_symref(f, op) ==
  [good |-> ignore_sym_refs \/ symtab_lookup(op.symbol),
   bits |-> IF ~ignore_sym_refs /\ symtab_lookup(op.symbol)
            THEN Masked(symtab[op.symbol], f) ELSE {}]

encode(f, op) ==
  CASE f.encode = "spec" -> encode_spec(f, op)
    [] f.encode = "acc" -> encode_acc(f, op)
    [] f.encode = "acc_half" -> encode_acc_half(f, op)
    [] f.encode = "ptr" -> encode_ptr(f, op)
    [] f.encode = "pred" -> encode_pred(f, op)
    [] f.encode = "reg" -> encode_reg(f, op)
    [] f.encode = "int" -> encode_int(f, op)
    [] f.encode = "symref" -> encode_symref(f, op)

(* The types agree as far as both lists go; then a longer operand list is  *)
(* refused, a shorter one is read past its end.                            *)
TypesAgree(id, ops) ==
  \A j \in DOMAIN id.operands \cap DOMAIN ops :
     id.operands[j].type = ops[j].type
operand_match(id, ops) == TypesAgree(id, ops) /\ Len(ops) = Len(id.operands)
ReadsPastOperands(id, ops) == TypesAgree(id, ops) /\ Len(ops) < Len(id.operands)

-----------------------------------------------------------------------------
(* One instruction: the table is searched to its end, so every entry that  *)
(* takes the operands adds its halfwords.                                  *)
Entries(inst) ==
  SelectSeq(ajardsp_insns, LAMBDA id : id.mnemonic = inst.mnemonic)

Crashes(inst) ==
  \E id \in Range(Entries(inst)) : ReadsPastOperands(id, inst.ops)

Accepts(id, inst) ==
  /\ operand_match(id, inst.ops)
  /\ \A j \in DOMAIN inst.ops : encode(id.operands[j], inst.ops[j]).good
  /\ inst.pred = NoPred \/ inst.pred.class = "predicate"

Predicated(inst) == inst.pred # NoPred

(* A predicate takes bits 31:30 and 28, and 32 bits also for a 16-bit      *)
(* instruction.                                                            *)
Encoding(id, inst, last) ==
  LET operands == UNION {encode(id.operands[j], inst.ops[j]).bits :
                           j \in DOMAIN inst.ops}
      plain == id.pattern \cup operands \cup IF last THEN {} ELSE {PAR_BIT}
      full == IF Predicated(inst)
              THEN ((plain \cup IF inst.pred_neg THEN {PRED_NEG_BIT} ELSE {})
                      \ {30, 31}) \cup Bits(inst.pred.n % 4, 30)
              ELSE plain
  IN IF id.size = 32 \/ Predicated(inst) THEN full \cup {SIZE_BIT}
     ELSE full \ {SIZE_BIT}

Halfwords(word) ==
  LET low == word \cap 0 .. 15
      high == {b - 16 : b \in word \ (0 .. 15)}
  IN IF SIZE_BIT \in word THEN <<low, high>> ELSE <<low>>

Emitted(inst, last) ==
  FoldLeft(LAMBDA ws, id : IF Accepts(id, inst)
                           THEN ws \o Halfwords(Encoding(id, inst, last))
                           ELSE ws,
           <<>>, Entries(inst))

(* The halfwords of each instruction of a packet.                          *)
Parts(ib) == [k \in DOMAIN ib.insts |-> Emitted(ib.insts[k], k = Len(ib.insts))]
Packet(ib) == FlattenSeq(Parts(ib))

(* The first instruction that cannot be encoded or does not fit ends the   *)
(* program; at the last address a second halfword has no place.            *)
PacketUpTo(parts, n) == FlattenSeq(SubSeq(parts, 1, n))
Fails(parts, k) == parts[k] = <<>> \/ Len(PacketUpTo(parts, k)) > 4
Overruns(parts, k) ==
  /\ (imem_addr + Len(PacketUpTo(parts, k - 1)) + 1) % ImemSize = 0
  /\ Len(parts[k]) > 1
Ending(inst, parts, k) == CASE Crashes(inst) \/ Overruns(parts, k) -> "crash"
                            [] Fails(parts, k) -> "exit"
                            [] OTHER -> "running"
Endings(ib, parts) ==
  SelectSeq([k \in DOMAIN parts |-> Ending(ib.insts[k], parts, k)],
            LAMBDA e : e # "running")

-----------------------------------------------------------------------------
(* Memories, whose 16-bit addresses wrap.                                  *)
StoreImem(ws) ==
  /\ imem' = [a \in DOMAIN imem |->
                LET k == (a - imem_addr) % ImemSize
                IN IF k < Len(ws) THEN ws[k + 1] ELSE imem[a]]
  /\ imem_addr' = (imem_addr + Len(ws)) % ImemSize

StoreDmem(vs) ==
  /\ dmem' = [a \in DOMAIN dmem |->
                LET k == (a - dmem_addr) % DmemSize
                IN IF k < Len(vs) THEN vs[k + 1] ELSE dmem[a]]
  /\ dmem_addr' = (dmem_addr + Len(vs)) % DmemSize

(* imem_addr rounded up: (imem_addr + align - 1) & ~(align - 1).           *)
Aligned(addr, align) ==
  LET top == addr + align - 1
  IN top - FieldOf(Bits(top, 0) \cap Bits(align - 1, 0), 0, 16)

(* NOPs in one packet up to the aligned address.                           *)
AlignNops(align) ==
  LET nops_to_add == Aligned(imem_addr, align) - imem_addr
  IN [k \in 1 .. nops_to_add |-> IF k < nops_to_add THEN {PAR_BIT} ELSE {}]

(* The words of a data element; .skip 0 is a word of value 0, and .dword   *)
(* takes one word as .word does.                                           *)
DataWords(d) ==
  CASE d.kind = "skip" /\ d.n > 0 -> [k \in 1 .. d.n |-> DMEM_UNINIT_VALUE]
    [] d.kind = "skip" /\ d.n = 0 -> <<0>>
    [] d.kind = "word" -> <<d.n % 2^16>>
    [] d.kind = "symref" -> <<symtab[d.name]>>

(* Mutant: the first pass counts one word for a skip.                      *)
DataLengthOne(d) == 1
DataLength(d) == IF d.kind = "skip" /\ d.n > 0 THEN d.n ELSE 1

-----------------------------------------------------------------------------
init ==
  /\ prog \in Programs
  /\ ignore_sym_refs = TRUE
  /\ data_p = 1 /\ ib_p = 1
  /\ imem = [a \in 0 .. ImemSize - 1 |-> {}] /\ imem_addr = 0
  /\ dmem = [a \in 0 .. DmemSize - 1 |-> DMEM_UNINIT_VALUE] /\ dmem_addr = 0
  /\ symtab = << >>
  /\ asm_status = "running"
  /\ image = [imem |-> <<>>, dmem |-> <<>>, map |-> << >>]

Data == prog.data[data_p]
Bundle == prog.code[ib_p]
AtData == asm_status = "running" /\ data_p <= Len(prog.data)
AtCode == /\ asm_status = "running" /\ data_p > Len(prog.data)
          /\ ib_p <= Len(prog.code)

Stop(how) ==
  /\ asm_status' = how
  /\ UNCHANGED <<prog, ignore_sym_refs, data_p, ib_p, imem, imem_addr, dmem,
                 dmem_addr, symtab, image>>

(* A label once more is refused, in the code and in the data.              *)
symtab_add(name, addr) == symtab' = symtab @@ (name :> addr)

NextData ==
  /\ data_p' = data_p + 1
  /\ UNCHANGED <<prog, ignore_sym_refs, ib_p, imem, imem_addr, asm_status,
                 image>>

Pass0Data ==
  /\ AtData /\ ignore_sym_refs
  /\ \/ /\ Data.kind = "label" /\ symtab_lookup(Data.name)
        /\ Stop("exit")
     \/ /\ Data.kind = "label" /\ ~symtab_lookup(Data.name)
        /\ symtab_add(Data.name, dmem_addr)
        /\ NextData
        /\ UNCHANGED <<dmem, dmem_addr>>
     \/ /\ Data.kind # "label"
        /\ dmem_addr' = (dmem_addr + DataLength(Data)) % DmemSize
        /\ NextData
        /\ UNCHANGED <<dmem, symtab>>

NextBundle ==
  /\ ib_p' = ib_p + 1
  /\ UNCHANGED <<prog, ignore_sym_refs, data_p, dmem, dmem_addr, asm_status,
                 image>>

Assemble ==
  /\ Bundle.kind = "insts"
  /\ \E parts \in {Parts(Bundle)} :
       \E endings \in {Endings(Bundle, parts)} :
         \/ endings # <<>> /\ Stop(Head(endings))
         \/ /\ endings = <<>>
            /\ StoreImem(FlattenSeq(parts))
            /\ NextBundle
            /\ UNCHANGED symtab

Pass0Bundle ==
  /\ AtCode /\ ignore_sym_refs
  /\ \/ /\ Bundle.kind = "label" /\ symtab_lookup(Bundle.name)
        /\ Stop("exit")
     \/ /\ Bundle.kind = "label" /\ ~symtab_lookup(Bundle.name)
        /\ symtab_add(Bundle.name, imem_addr)
        /\ NextBundle
        /\ UNCHANGED <<imem, imem_addr>>
     \/ /\ Bundle.kind = "align"
        /\ imem_addr' = Aligned(imem_addr, Bundle.n) % ImemSize
        /\ NextBundle
        /\ UNCHANGED <<imem, symtab>>
     \/ Assemble

(* asm_gen_opcodes between the passes.                                     *)
StartPass1 ==
  /\ asm_status = "running" /\ ignore_sym_refs
  /\ data_p > Len(prog.data) /\ ib_p > Len(prog.code)
  /\ ignore_sym_refs' = FALSE
  /\ data_p' = 1 /\ ib_p' = 1
  /\ imem_addr' = 0 /\ dmem_addr' = 0
  /\ UNCHANGED <<prog, imem, dmem, symtab, asm_status, image>>

Pass1Data ==
  /\ AtData /\ ~ignore_sym_refs
  /\ \/ /\ Data.kind = "label"
        /\ NextData
        /\ UNCHANGED <<dmem, dmem_addr, symtab>>
     \/ /\ Data.kind = "symref" /\ ~symtab_lookup(Data.name)
        /\ Stop("exit")
     \/ /\ Data.kind # "label"
        /\ Data.kind = "symref" => symtab_lookup(Data.name)
        /\ StoreDmem(DataWords(Data))
        /\ NextData
        /\ UNCHANGED symtab

Pass1Bundle ==
  /\ AtCode /\ ~ignore_sym_refs
  /\ \/ /\ Bundle.kind = "label"
        /\ NextBundle
        /\ UNCHANGED <<imem, imem_addr, symtab>>
     \/ /\ Bundle.kind = "align"
        /\ StoreImem(AlignNops(Bundle.n))
        /\ NextBundle
        /\ UNCHANGED symtab
     \/ Assemble

(* One word a line, and four halfwords a line, as far as they were used.   *)
Used(addr, size) == IF prog.fill THEN size ELSE addr

output_hex ==
  /\ asm_status = "running" /\ ~ignore_sym_refs
  /\ data_p > Len(prog.data) /\ ib_p > Len(prog.code)
  /\ image' = [dmem |-> [i \in 1 .. Used(dmem_addr, DmemSize) |-> dmem[i - 1]],
               imem |-> [l \in 1 .. (Used(imem_addr, ImemSize) + 3) \div 4 |->
                           [j \in 1 .. 4 |-> imem[4 * (l - 1) + j - 1]]],
               map |-> symtab]
  /\ asm_status' = "done"
  /\ UNCHANGED <<prog, ignore_sym_refs, data_p, ib_p, imem, imem_addr, dmem,
                 dmem_addr, symtab>>

AsmNext ==
  \/ Pass0Data \/ Pass0Bundle \/ StartPass1 \/ Pass1Data \/ Pass1Bundle
  \/ output_hex

=============================================================================
