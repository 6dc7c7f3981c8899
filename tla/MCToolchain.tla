----------------------------- MODULE MCToolchain -----------------------------
(* Programs of the toolchain run: every entry of the instruction table with *)
(* two choices of operands and three predicates, programs the assembler     *)
(* refuses, and programs with labels, data and a command line.              *)
EXTENDS Toolchain

OneWord == {<<17, 0, 34, 0>>}

Label(n) == [kind |-> "label", name |-> n]
Align(n) == [kind |-> "align", n |-> n]
Par(s) == [kind |-> "insts", insts |-> s]
Skip(n) == [kind |-> "skip", n |-> n]
Datum(n) == [kind |-> "word", n |-> n]
SymRef(n) == [kind |-> "symref", name |-> n]

RegOp(r) == [type |-> "REG", reg |-> r]
IntOp(v) == [type |-> "INTEGER", value |-> v]
SymOp(n) == [type |-> "SYMBOL_REF", symbol |-> n]
If(pred, neg, m, ops) == [mnemonic |-> m, ops |-> ops, pred |-> pred, pred_neg |-> neg]
I(m, ops) == If(NoPred, FALSE, m, ops)

P(n) == RegOp(PtrReg(n))
A(n) == RegOp(AccReg(n))
L(n) == RegOp(HalfReg(n, FALSE))
H(n) == RegOp(HalfReg(n, TRUE))

(* The j-th operand of an entry, in two choices.                           *)
SpecNames == <<"sp", "gpio">>
Sample(f, j, k) ==
  LET n == (3 * j + 2 * k) % 8
  IN CASE f.encode = "acc" -> A(n)
       [] f.encode = "acc_half" -> RegOp(HalfReg(n % (IF f.width = 3 THEN 4 ELSE 8), k = 2))
       [] f.encode = "ptr" -> P(n)
       [] f.encode = "reg" -> IF k = 1 THEN P(n) ELSE H(n)
       [] f.encode = "pred" -> RegOp(PredReg(k + 1))
       [] f.encode = "spec" -> RegOp([class |-> SpecNames[k], n |-> 0, half |-> ""])
       [] f.encode = "int" -> IntOp(CASE k = 1 -> 5 [] f.width = 12 -> -3 [] OTHER -> 2^f.width - 1)
       [] f.encode = "symref" -> SymOp("there")

Program(data, code, commands) ==
  [data |-> data, code |-> code, fill |-> FALSE, args |-> commands,
   paths |-> {}, finally |-> << >>]

AnEntry(e, k, pred, neg) ==
  Program(<<>>, <<Par(<<I("nop", <<>>)>>),
                  Par(<<If(pred, neg, e.mnemonic,
                             [j \in DOMAIN e.operands |-> Sample(e.operands[j], j, k)])>>),
                  Label("there"), Par(<<I("halt", <<>>)>>)>>, <<>>)
EveryEntry == {AnEntry(e, k, p[1], p[2]) :
                 e \in Range(ajardsp_insns), k \in {1, 2},
                 p \in {<<NoPred, FALSE>>, <<PredReg(2), FALSE>>, <<PredReg(1), TRUE>>}}

Halt == Par(<<I("halt", <<>>)>>)
OnlyCode(code) == Program(<<>>, code, <<>>)
Refused ==
  {OnlyCode(<<Par(<<I("add32", <<A(1), A(2), A(3), A(4)>>)>>)>>),
   OnlyCode(<<Par(<<I("add32", <<A(1)>>)>>)>>),
   OnlyCode(<<Par(<<I("add32", <<A(1), A(2), L(3)>>)>>)>>),
   OnlyCode(<<Par(<<I("ldimm16", <<IntOp(65536), L(3)>>)>>)>>),
   OnlyCode(<<Par(<<I("bra", <<SymOp("nowhere")>>)>>)>>),
   OnlyCode(<<Par(<<I("bra", <<P(1)>>)>>)>>),
   OnlyCode(<<Par(<<If(AccReg(0), FALSE, "halt", <<>>)>>)>>),
   OnlyCode(<<Par(<<I("ldimm16", <<IntOp(1), L(1)>>), I("ldimm16", <<IntOp(2), L(2)>>),
                      I("halt", <<>>)>>)>>),
   OnlyCode(<<Label("a"), Halt, Label("a")>>),
   Program(<<Label("a"), Label("a")>>, <<Halt>>, <<>>),
   Program(<<SymRef("nowhere")>>, <<Halt>>, <<>>),
   OnlyCode(<<Align(32), Align(16), Par(<<I("bra", <<SymOp("end")>>)>>), Label("end")>>),
   OnlyCode([i \in 1 .. ImemSize |-> Par(<<If(PredReg(1), FALSE, "halt", <<>>)>>)]),
   OnlyCode(<<Halt>> \o [i \in 1 .. ImemSize |-> Par(<<I("bra", <<SymOp("a")>>)>>)]
            \o <<Label("a")>>)}

Load(name, addr, len) == [op |-> name, addr |-> addr, len |-> len]
Release == [op |-> "w32", addr |-> ResetCtrl, value |-> <<1, 0, 0, 0>>]
Dump(addr, len) == Load("dump", addr, len)

Table == <<Label("in"), Datum(7), Datum(65535), SymRef("out"), SymRef("loop"),
           Skip(3), Label("out"), Datum(1)>>
Loop == <<Label("start"),
          Par(<<I("ldimm16", <<SymOp("in"), P(4)>>), I("ldimm16", <<SymOp("out"), P(2)>>)>>),
          Par(<<I("ldinc16", <<P(4), L(1)>>), I("ld16", <<P(2), H(2)>>),
                  I("mac16", <<L(1), H(2), A(3)>>), I("add32", <<A(3), A(4), A(5)>>)>>),
          Par(<<I("mv16", <<P(1), P(2)>>)>>),
          Align(4), Label("loop"),
          Par(<<I("bkrep", <<SymOp("end")>>)>>),
          Par(<<I("and32", <<A(1), A(2), A(3)>>), I("ldinc32", <<P(4), A(6)>>)>>),
          Align(8), Label("end"),
          Par(<<I("stinc32", <<A(6), P(2)>>), I("bra.1ds", <<SymOp("loop")>>)>>),
          Par(<<If(PredReg(1), TRUE, "add16", <<L(1), H(2)>>), I("halt", <<>>)>>),
          Label("last")>>
Boot == <<Load("load-imem", 256, 64), Load("load-dmem", 512, 32), Release>>

Layouts ==
  {Program(Table, Loop, Boot),
   Program(<<Skip(2), Label("x"), Datum(258)>>,
           <<Par(<<I("bra.2ds", <<SymOp("x")>>)>>), Label("x2"),
             Par(<<I("rets", <<>>), I("cmp16lt", <<L(1), H(2), RegOp(PredReg(3))>>)>>)>>,
           <<Load("load-imem", 256, 4), Load("load-dmem", 512, 64), Release, Dump(252, 8),
             Dump(512, 8)>>),
   Program(<<Datum(1), Datum(2), Datum(3)>>, <<Halt>>,
           <<Load("load-dmem", 512, 8), Dump(508, 12), Load("load-imem", 256, 16), Release>>)}
  \cup {Program(<<Skip(0), Label("x")>>, <<Halt>>, <<>>)}
  \cup {[Program(<<Datum(3)>>, <<Halt, Align(2), Halt>>, <<>>) EXCEPT !.fill = TRUE]}

-----------------------------------------------------------------------------
(* Compiled programs.  Issue groups as the scheduler may form them from the *)
(* units of the machine description, in order: nothing that depends on an   *)
(* insn of its group but a push on pushes and a pop on pops.                *)
IsPush(i) == Stack \subseteq i.dst
IsPop(i) == QI(SP) \in i.dst /\ Memory \in i.src
Depends(i, j) ==
  LET shared == Spanned(i.dst) \cap Spanned(j.dst \cup j.src)
  IN IF (IsPush(i) /\ IsPush(j)) \/ (IsPop(i) /\ IsPop(j))
     THEN ~(shared \subseteq Spanned(Stack)) ELSE shared # {}
Needs(insn) == [slots |-> insn.isize,
                lsu |-> CASE insn.itype \in {"lsu", "lsu_spec"} -> 1
                          [] insn.itype = "lsu_all" -> 2 [] OTHER -> 0,
                spec |-> IF insn.itype \in {"lsu_spec", "lsu_all"} THEN 1 ELSE 0,
                cu |-> IF insn.itype \in {"cu", "cu_cmp"} THEN 1 ELSE 0,
                pcu |-> IF insn.itype = "pcu" THEN 1 ELSE 0]
Has == [slots |-> 4, lsu |-> 2, spec |-> 1, cu |-> 2, pcu |-> 1]
Total(group, u) == FoldLeft(LAMBDA n, insn : n + Needs(insn)[u], 0, group)
IsCall(insn) == insn.lines # <<>> /\ insn.lines[1][1].mnemonic = "call"
MayJoin(insn, group) ==
  /\ insn.label = "" /\ Last(group).label = "" /\ Last(group).flow = "next"
  /\ ~IsCall(Last(group))
  /\ \A i \in DOMAIN group : ~Depends(group[i], insn)
  /\ IsCall(insn) => \A i \in DOMAIN group : SP \notin Spanned(group[i].dst)
  /\ \A u \in DOMAIN Has : Total(Append(group, insn), u) <= Has[u]

(* The cycle from which insn i finds its operands: the scheduler counts the *)
(* latencies of its basic block, then forgets the cycles with no insn.      *)
Ready(code, cycles, i) ==
  Max({0} \cup
      {cycles[k] + insn_latency(code[k]) :
         k \in {k \in 1 .. i - 1 :
                  /\ ~IsLabel(code, k) /\ \A j \in k .. i - 1 : ~EndsBlock(code, j)
                  /\ Spanned(code[k].dst) \cap Spanned(code[i].src) # {}
                  /\ Depends(code[k], code[i])}})
Placed(code, cycles, i) ==
  LET now == IF i = 1 THEN 0 ELSE Last(cycles)
      group == SelectSeq([k \in 1 .. i - 1 |-> k], LAMBDA k : cycles[k] = now)
  IN {Append(cycles, Max({now + 1, Ready(code, cycles, i)}))}
     \cup {c \in {Append(cycles, now)} :
             /\ i > 1 /\ Ready(code, cycles, i) <= now
             /\ MayJoin(code[i], [k \in DOMAIN group |-> code[group[k]]])}
Schedules(code) ==
  LET cycles[n \in 0 .. Len(code)] ==
        IF n = 0 THEN {<<>>} ELSE UNION {Placed(code, c, n) : c \in cycles[n - 1]}
  IN {{i \in DOMAIN code : i = 1 \/ c[i] # c[i - 1]} : c \in cycles[Len(code)]}

(* A function with a frame and saved registers, one that computes across   *)
(* branches, and a main that keeps values in a local and in registers of a  *)
(* callee while it calls them.                                              *)
keep == [name |-> "keep", size |-> 2, live |-> {4, 16},
         body |-> <<st_qi(QI(6), FP, -2), call_sym("mix"), ld_imm_qi(7, QI(16)),
                   ld_qi(FP, -2, QI(4)), mv_qi(QI(4), QI(0))>>]
mix == [name |-> "mix", size |-> 0, live |-> {},
        body |-> <<mulqihi3(QI(9), QI(11), HI(10)), mycmpqi("lt", QI(13), QI(9), QI(26)),
                   mybranch(QI(26), "small"), addhi3(HI(10), HI(10), HI(14)), jump("join"),
                   Code_label("small"), addqi3(QI(9), QI(13)), ld_imm_qi(1, QI(15)),
                   Code_label("join"), mv_qi(QI(13), QI(9))>>]
main == [name |-> "main", size |-> 1, live |-> {5, 18},
         body |-> <<st_qi(QI(5), FP, -1), ld_imm_qi(3, QI(18)), mv_qi(QI(18), QI(9)),
                    call_sym("keep"), mv_qi(QI(9), QI(5)), call_sym("mix"),
                    ld_qi(FP, -1, QI(2)), mv_qi(QI(5), QI(10)),
                    addqi3(QI(10), QI(18)), mv_qi(QI(18), QI(9))>>]

EachAlone(code) == Marked(code, DOMAIN code)
CallSaved == {PtrReg(4), PtrReg(5), PtrReg(6)} \cup {HalfReg(n, h) : n \in 4 .. 7, h \in BOOLEAN}
Compiled(functions, pack) ==
  [Program(<<>>, Printed(functions, pack), <<>>) EXCEPT
     !.paths = {<<b, c>> : b \in BOOLEAN, c \in BOOLEAN},
     !.finally = [r \in CallSaved |-> <<"was", r>>]
                 @@ (sp :> Const(2048)) @@ (PtrReg(7) :> Const(2048))
                 @@ (PtrReg(0) :> <<"was", PtrReg(6)>>) @@ (PtrReg(2) :> <<"was", PtrReg(5)>>)]
(* One half of a function in groups, the other one insn at a time.          *)
Scheduled(f) ==
  LET code == Function(f)
      half == Len(code) \div 2
  IN {insert_nop(Marked(code, starts)) :
        starts \in {s \in Schedules(code) : 1 .. half \subseteq s \/ half + 1 .. Len(code) \subseteq s}}
Alone(f) == insert_nop(EachAlone(Function(f)))
CompiledOnes ==
  {Compiled(<<Alone(main), k, Alone(mix)>>, pack) : k \in Scheduled(keep), pack \in BOOLEAN}
  \cup {Compiled(<<Alone(main), Alone(keep), m>>, pack) : m \in Scheduled(mix), pack \in BOOLEAN}

AllPrograms == EveryEntry \cup Refused \cup Layouts \cup CompiledOnes

(* No command line is excused from BootsLoadedProgram.                     *)
ASSUME OrderlyCommandLines == \A p \in AllPrograms : Orderly(p.args)
=============================================================================
