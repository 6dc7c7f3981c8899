------------------------------ MODULE Compiler ------------------------------
(***************************************************************************)
(* The back end of the compiler (sw/tools/gcc/config/ajardsp): the insn    *)
(* patterns that functions with a stack frame are made of, the prologue    *)
(* and the epilogue, the pass that inserts NOPs, and the printing of       *)
(* packets.                                                                *)
(*                                                                         *)
(* What the compiler proper does is not in the repository: a function      *)
(* comes as its insns, in the order and with the issue groups that the     *)
(* scheduler gave them.                                                    *)
(***************************************************************************)
EXTENDS Assembler, HwDecode

(* Hard registers by number; the two halves of an accumulator are two, and *)
(* an HImode operand is named by the first.                                *)
FIRST_ACC == 8
FIRST_PRED == 24
SP == 28
RETPC == 29
HARD_FRAME_POINTER == 7
REGISTER_NAMES(r) ==
  CASE r < FIRST_ACC -> PtrReg(r)
    [] r \in FIRST_ACC .. FIRST_PRED - 1 ->
         HalfReg((r - FIRST_ACC) \div 2, (r - FIRST_ACC) % 2 = 1)
    [] r \in FIRST_PRED .. SP - 1 -> PredReg(r - FIRST_PRED)
    [] r = SP -> SpecReg(2)
    [] r = RETPC -> SpecReg(1)
call_used_regs == 0 .. 3 \cup {7} \cup 8 .. 15 \cup 24 .. 29
IsSpec(r) == r \in {SP, RETPC}

QI(r) == [reg |-> r, width |-> 1]
HI(r) == [reg |-> r, width |-> 2]
Memory == QI(30)              \* memory, for dependences only
Stack == {QI(SP), Memory}
Spanned(operands) == UNION {o.reg .. o.reg + o.width - 1 : o \in operands}

-----------------------------------------------------------------------------
(* An insn: its lines of assembler, each the instructions of one line; the *)
(* register of its SET if that is its only one; its operands; its type and *)
(* the issue slots it is said to take; its label and where it jumps.       *)
NoReg == -1
Shown(o) == [type |-> "REG",
           reg |-> IF o.width = 2 THEN AccReg((o.reg - FIRST_ACC) \div 2)
                   ELSE REGISTER_NAMES(o.reg)]
Literal(v) == [type |-> "INTEGER", value |-> v]
SymbolRef(s) == [type |-> "SYMBOL_REF", symbol |-> s]
Text(m, ops) == [mnemonic |-> m, ops |-> ops, pred |-> NoPred, pred_neg |-> FALSE]

Rtl(lines, set, dst, src, itype, isize) ==
  [lines |-> lines, set |-> set, dst |-> dst, src |-> src, itype |-> itype,
   isize |-> isize, label |-> "", flow |-> "next", target |-> ""]
Simple(m, ops, dst, src, itype, isize) ==
  Rtl(<< <<Text(m, ops)>> >>, dst.reg, {dst}, src, itype, isize)
Code_label(name) ==
  [Rtl(<<>>, NoReg, {}, {}, "", 0) EXCEPT !.label = name]
Jumping(insn, flow, target) == [insn EXCEPT !.flow = flow, !.target = target]

ld_qi(base, k, dst) ==
  Simple("ldoff16", <<Shown(base), Literal(k), Shown(dst)>>, dst, {base, Memory}, "lsu", 2)
ld_imm_qi(v, dst) == Simple("ldimm16", <<Literal(v), Shown(dst)>>, dst, {}, "lsu", 2)
st_qi(src, base, k) ==
  Rtl(<< <<Text("stoff16", <<Shown(src), Shown(base), Literal(k)>>)>> >>, NoReg,
       {Memory}, {src, base}, "lsu_all", 2)
mv_qi(src, dst) ==
  IF IsSpec(src.reg) \/ IsSpec(dst.reg)
  THEN Simple(IF IsSpec(dst.reg) THEN "mvts16" ELSE "mvfs16",
              <<Shown(src), Shown(dst)>>, dst, {src}, "lsu_spec", 2)
  ELSE Simple("mv16", <<Shown(src), Shown(dst)>>, dst, {src}, "lsu", 1)
swap_spec_qi(s, r) ==
  Rtl(<< <<Text("mvfs16", <<Shown(s), Shown(r)>>), Text("mvts16", <<Shown(r), Shown(s)>>)>> >>,
       NoReg, {s, r}, {s, r}, "lsu_all", 2)
pushqi1(r) ==
  Rtl(<< <<Text("nop", <<>>)>>, <<Text("push16", <<Shown(QI(r))>>)>> >>, NoReg, Stack,
       {QI(SP), QI(r)}, IF IsSpec(r) THEN "lsu_spec" ELSE "lsu", 2)
popqi1(r) ==
  Rtl(<< <<Text("pop16", <<Shown(QI(r))>>)>> >>, r, {QI(r), QI(SP)}, Stack,
       IF IsSpec(r) THEN "lsu_spec" ELSE "lsu", 1)
addqi3_imm(k, r) ==
  Simple("addptr16", <<Literal(k), Shown(r)>>, r, {r}, "lsu", 2)
addqi3(src, dst) ==
  Simple("add16", <<Shown(src), Shown(dst)>>, dst, {src, dst}, "cu", 1)
addhi3(a, b, dst) ==
  Simple("add32", <<Shown(a), Shown(b), Shown(dst)>>, dst, {a, b}, "cu", 1)
mulqihi3(a, b, dst) ==
  Simple("mpy16", <<Shown(b), Shown(a), Shown(dst)>>, dst, {a, b}, "cu", 2)
mycmpqi(op, a, b, pred) ==
  Simple("cmp16" \o op, <<Shown(a), Shown(b), Shown(pred)>>, pred, {a, b}, "cu_cmp", 2)
mybranch(pred, l) ==
  Jumping(Rtl(<< <<[Text("bra", <<SymbolRef(l)>>) EXCEPT !.pred = Shown(pred).reg]>> >>,
               NoReg, {}, {pred}, "pcu", 2), "branch", l)
jump(l) ==
  Jumping(Rtl(<< <<Text("bra", <<SymbolRef(l)>>)>> >>, NoReg, {}, {}, "pcu", 2), "jump", l)
call_sym(name) ==
  Rtl(<< <<Text("call", <<SymbolRef(name)>>)>> >>, NoReg, {}, {}, "pcu", 2)
nop == Rtl(<< <<Text("nop", <<>>)>> >>, NoReg, {}, {}, "pcu", 2)
ajardsp_return ==
  Jumping(Rtl(<< <<Text("rets", <<>>)>> >>, NoReg, {},
               {QI(r) : r \in {RETPC} \cup 4 .. 7 \cup 16 .. 23}, "pcu", 2),
          "return", "")

(* Cycles until the result of an insn can be used (the reservations).      *)
insn_latency(insn) ==
  CASE insn.itype \in {"bmu", "cu", "cu_cmp", "lsu_spec", "lsu_all"} -> 2
    [] insn.itype \in {"lsu", "pcu"} -> 1

-----------------------------------------------------------------------------
(* The frame of a function f: f.size words of locals below the return      *)
(* address, then the stack pointer before them, then the registers of      *)
(* f.live that a callee has to save.                                       *)
Saved(f) == SetToSortSeq(f.live \ call_used_regs, <)
OnlyIf(c, s) == IF c THEN s ELSE <<>>
FP == QI(HARD_FRAME_POINTER)

(* Mutant: the return address is forgotten.                                *)
BelowFrameNoRetpc(size) == -size
BelowFrame(size) == -(size + 2)

ajardsp_prologue(f) ==
  <<pushqi1(HARD_FRAME_POINTER), mv_qi(QI(SP), FP), pushqi1(RETPC)>>
  \o OnlyIf(f.size > 0,
            <<addqi3_imm(BelowFrame(f.size), FP), swap_spec_qi(QI(SP), FP), nop,
              pushqi1(HARD_FRAME_POINTER)>>)
  \o [i \in DOMAIN Saved(f) |-> pushqi1(Saved(f)[i])]

ajardsp_epilogue(f) ==
  [i \in DOMAIN Saved(f) |-> popqi1(Reverse(Saved(f))[i])]
  \o OnlyIf(f.size > 0, <<popqi1(SP)>>)
  \o <<popqi1(RETPC), popqi1(HARD_FRAME_POINTER), ajardsp_return>>

Function(f) == <<Code_label(f.name)>> \o ajardsp_prologue(f) \o f.body
               \o ajardsp_epilogue(f)

(* What the scheduler hands on: a mark (TImode) on each insn that starts   *)
(* an issue group, and a number for each insn.                             *)
Marked(code, starts) ==
  [i \in DOMAIN code |-> code[i] @@ [uid |-> i, timode |-> i \in starts]]

-----------------------------------------------------------------------------
(* The pass insert_nop.  Basic blocks end at jumps and before labels.      *)
At(code, uid) == CHOOSE i \in DOMAIN code : code[i].uid = uid
IsLabel(code, i) == code[i].label # ""
EndsBlock(code, j) == /\ ~IsLabel(code, j)
                      /\ code[j].flow # "next" \/ j = Len(code) \/ IsLabel(code, j + 1)
BB_END(code, i) ==
  CHOOSE j \in i .. Len(code) :
    EndsBlock(code, j) /\ \A k \in i .. j - 1 : ~EndsBlock(code, k)

(* Mutant: the fall-through edge of a branch is not followed.              *)
SuccessorsTaken(code, j) ==
  SelectSeq([i \in DOMAIN code |-> i], LAMBDA i : /\ code[j].flow = "branch"
                                                  /\ code[i].label = code[j].target)
Successors(code, j) ==
  SelectSeq([i \in DOMAIN code |-> i],
            LAMBDA i : \/ /\ code[j].flow \in {"branch", "jump"}
                          /\ code[i].label = code[j].target
                       \/ code[j].flow \in {"next", "branch"} /\ i = j + 1)

(* regno_use_in finds the destination as well, but of an HImode operand    *)
(* only the first register.                                                *)
regno_use_in(regno, insn) == \E o \in insn.dst \cup insn.src : o.reg = regno

emit_insn_before(code, n, at) ==
  SubSeq(code, 1, at - 1)
  \o [k \in 1 .. n |-> nop @@ [uid |-> 1000 * Len(code) + k, timode |-> TRUE]]
  \o SubSeq(code, at, Len(code))

(* From position i on: "cycle" groups after that of src, up to the insn bb *)
(* and then into its successors, as long as a NOP may be due.              *)
RECURSIVE insert_nop_bb_scan(_, _, _, _, _, _, _)
insert_nop_bb_scan(code, i, cycle, cycles_left, src, start_of_bundle, bb) ==
  IF i > Len(code) THEN code
  ELSE IF IsLabel(code, i) \/ code[i].uid = src.uid
  THEN insert_nop_bb_scan(code, i + 1, cycle, cycles_left, src, start_of_bundle, bb)
  ELSE
    LET insn == code[i]
        new == IF insn.timode THEN 1 ELSE 0
        start == IF insn.timode THEN insn.uid ELSE start_of_bundle
        short == insn_latency(src) - (cycle + new)
        nnops == IF regno_use_in(src.set, insn) /\ short > 0 THEN short ELSE 0
        padded == emit_insn_before(code, nnops, At(code, start))
        gone == new + nnops
        Into(c, head) ==
          insert_nop_bb_scan(c, At(c, head), cycle + gone, cycles_left - gone, src,
                             head, c[BB_END(c, At(c, head))].uid)
    IN IF cycles_left - gone <= 0 THEN padded
       ELSE IF insn.uid = bb
       THEN FoldLeft(Into, padded,
                     [k \in DOMAIN Successors(padded, i + nnops) |->
                        padded[Successors(padded, i + nnops)[k]].uid])
       ELSE insert_nop_bb_scan(padded, i + nnops + 1, cycle + gone,
                               cycles_left - gone, src, start, bb)

RECURSIVE insert_nop_from(_, _)
insert_nop_from(code, i) ==
  IF i > Len(code) THEN code
  ELSE IF code[i].set = NoReg THEN insert_nop_from(code, i + 1)
  ELSE LET padded == insert_nop_bb_scan(code, i, 0, insn_latency(code[i]), code[i],
                                        code[i].uid, code[BB_END(code, i)].uid)
       IN insert_nop_from(padded, At(padded, code[i].uid) + 1)
insert_nop(code) == insert_nop_from(code, 1)

-----------------------------------------------------------------------------
(* crt.s, which stands before the compiled functions.                      *)
EachOwn(texts) == [i \in DOMAIN texts |-> [kind |-> "insts", insts |-> <<texts[i]>>]]
Nop == Text("nop", <<>>)
crt ==
  EachOwn(<<Text("bra", <<SymbolRef("start")>>), Nop, Nop>>)
  \o <<[kind |-> "label", name |-> "int_vec"]>>
  \o EachOwn(<<Nop, Text("reti", <<>>), Nop, Nop>>)
  \o <<[kind |-> "label", name |-> "start"]>>
  \o EachOwn(<<Text("ldimm16", <<Literal(2048), Shown(FP)>>), Nop,
               Text("mvts16", <<Shown(FP), Shown(QI(SP))>>),
               Text("call", <<SymbolRef("main")>>), Nop, Nop, Text("halt", <<>>), Nop, Nop>>)
  \o <<[kind |-> "label", name |-> "stop"]>>
  \o EachOwn(<<Text("bra", <<SymbolRef("stop")>>), Nop, Nop>>)

(* Printing: with -mvliw-pack every line of an insn that does not start a  *)
(* group begins with a bar, else every line is a packet.                   *)
PrintLine(out, line, bar) ==
  IF bar THEN Append(Front(out), [Last(out) EXCEPT !.insts = @ \o line])
  ELSE Append(out, [kind |-> "insts", insts |-> line])
ajardsp_asm_output_opcode(out, insn, vliw_pack) ==
  IF insn.label # "" THEN Append(out, [kind |-> "label", name |-> insn.label])
  ELSE FoldLeft(LAMBDA o, line : PrintLine(o, line, vliw_pack /\ ~insn.timode),
                out, insn.lines)
Printed(functions, vliw_pack) ==
  crt \o FlattenSeq([f \in DOMAIN functions |->
                      FoldLeft(LAMBDA out, insn : ajardsp_asm_output_opcode(out, insn, vliw_pack),
                               <<>>, functions[f])])
=============================================================================
