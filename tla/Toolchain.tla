------------------------------ MODULE Toolchain ------------------------------
(***************************************************************************)
(* A program's way from its source to the memory of the target: the        *)
(* assembler writes the image, the host program sends it over the debug    *)
(* link, and the decoders of the core say what the image does.             *)
(***************************************************************************)
EXTENDS Compiler, Disasm, DebugLink, CoreRun

vars == <<asmVars, linkVars>>

-----------------------------------------------------------------------------
(* The image as the host reads it: "%04x%04x%04x%04x" of imem[i+3] down to *)
(* imem[i] is read back as "%08x%08x" into high and low.                   *)
HalfBytes(h) == <<FieldOf(h, 0, 8), FieldOf(h, 8, 8)>>
ImemLine(l) == [low |-> HalfBytes(l[1]) \o HalfBytes(l[2]),
                high |-> HalfBytes(l[3]) \o HalfBytes(l[4])]
DmemLine(w) == <<w % 256, w \div 256, 0, 0>>

(* The files of a load command are what the assembler has written.         *)
WithFile(c) ==
  CASE c.op = "load-imem" ->
         [op |-> c.op, addr |-> c.addr, len |-> c.len,
          file |-> [l \in DOMAIN image.imem |-> ImemLine(image.imem[l])]]
    [] c.op = "load-dmem" ->
         [op |-> c.op, addr |-> c.addr, len |-> c.len,
          file |-> [i \in DOMAIN image.dmem |-> DmemLine(image.dmem[i])]]
    [] OTHER -> c

StartDownload ==
  /\ asm_status = "done"
  /\ StartHost([i \in DOMAIN prog.args |-> WithFile(prog.args[i])])
  /\ UNCHANGED asmVars

Init == init /\ LinkInit
Next == \/ AsmNext /\ UNCHANGED linkVars
        \/ StartDownload
        \/ LinkNext /\ UNCHANGED asmVars
Spec == /\ Init /\ [][Next]_vars
        /\ WF_vars(HostNext /\ UNCHANGED asmVars)
        /\ WF_vars(PortNext /\ UNCHANGED asmVars)

-----------------------------------------------------------------------------
(* What the image does: the packets from halfword a on, each as what the   *)
(* units do, without the packets that do nothing.                          *)
Code == FlattenSeq(image.imem)

Decoded(s) ==
  LET v == PacketAt(Code, s.at)
      does == Effects(v)
  IN CASE vliw_len(v) = 0 -> [at |-> Len(Code), does |-> Append(s.does, "stuck")]
       [] OTHER -> [at |-> s.at + vliw_len(v),
                    does |-> s.does \o SelectSeq(<<does>>, LAMBDA d : d # <<>>)]
(* By halves, so that long programs do not need deep recursion.            *)
RECURSIVE DecodedPackets(_, _)
DecodedPackets(s, n) ==
  CASE n = 0 \/ s.at >= Len(Code) -> s
    [] n = 1 /\ s.at < Len(Code) -> Decoded(s)
    [] OTHER -> DecodedPackets(DecodedPackets(s, n \div 2), n - n \div 2)
Executed(a) == DecodedPackets([at |-> a, does |-> <<>>], Len(Code)).does

(* What the source says: the same for its elements from the k-th on.       *)
OperandMeaning(inst, op) ==
  CASE op.type = "REG" -> op.reg
    [] op.type = "INTEGER" -> IF inst.mnemonic = "ldimm16" THEN op.value % 2^16
                              ELSE op.value
    [] op.type = "SYMBOL_REF" -> image.map[op.symbol]
Meaning(inst) ==
  Does(inst.mnemonic, [j \in DOMAIN inst.ops |-> OperandMeaning(inst, inst.ops[j])],
       IF Predicated(inst) THEN <<inst.pred.n, inst.pred_neg>> ELSE Always)
Meanings(ib) ==
  SelectSeq([k \in DOMAIN ib.insts |-> Meaning(ib.insts[k])], LAMBDA e : e.op # "nop")
Written(k) ==
  SelectSeq([i \in 1 .. Len(prog.code) - k + 1 |->
               IF prog.code[k + i - 1].kind = "insts"
               THEN Meanings(prog.code[k + i - 1]) ELSE <<>>],
            LAMBDA p : p # <<>>)

DataWritten(k) ==
  FlattenSeq([i \in 1 .. Len(prog.data) - k + 1 |->
                LET d == prog.data[k + i - 1]
                IN CASE d.kind = "label" -> <<>>
                     [] d.kind = "symref" -> <<image.map[d.name]>>
                     [] d.kind = "word" -> <<d.n % 2^16>>
                     [] d.kind = "skip" -> [j \in 1 .. d.n |-> DMEM_UNINIT_VALUE]])

-----------------------------------------------------------------------------
(* Where the core does not do what the mnemonic says, or the assembler has *)
(* no way to say it (README, "Where the code differs"); a program that     *)
(* uses one of these, overfills a unit or does not fit is not claimed to   *)
(* run as written.                                                         *)
Unsigned == {"cmp16ltu", "cmp16leu", "cmp16gtu", "cmp16geu"}
Compares == {"cmp16eq", "cmp16ne", "cmp16lt", "cmp16le", "cmp16gt", "cmp16ge"}
Unguarded == Compares \cup {"bkrep", "eint", "dint", "push16", "push32", "pop16", "pop32"}
OffsetForms == {"ldoff16", "ldoff32", "stoff16", "stoff32", "addptr16"}

HasReg(inst, class) ==
  \E j \in DOMAIN inst.ops : inst.ops[j].type = "REG" /\ inst.ops[j].reg.class = class

Diverges(inst) ==
  \/ inst.mnemonic \in Unsigned
  \/ inst.mnemonic \in Unguarded /\ Predicated(inst)
  \/ inst.mnemonic = "ldimm16" /\ inst.ops[1].type = "SYMBOL_REF" /\ HasReg(inst, "acc")
  \/ inst.mnemonic \in {"ldinc16", "stinc16"} /\ ~HasReg(inst, "acc")
  \/ /\ inst.mnemonic \in {"mpy16", "mac16"}
     /\ \E j \in 1 .. 2 : inst.ops[j].reg.n > 3
  \/ /\ inst.mnemonic \in OffsetForms
     /\ \E j \in DOMAIN inst.ops :
          inst.ops[j].type = "INTEGER" /\ inst.ops[j].value \notin -2048 .. 2047

UnitFor(inst) == UnitOf(Head(Entries(inst)).pattern)
ObeysUnits(ib) ==
  \A u \in DOMAIN Capacity :
     Cardinality({k \in DOMAIN ib.insts : UnitFor(ib.insts[k]) = u}) <= Capacity[u]

CodeLength ==
  FoldLeft(LAMBDA a, e : CASE e.kind = "label" -> a
                           [] e.kind = "align" -> Aligned(a, e.n)
                           [] e.kind = "insts" -> a + Len(Packet(e)),
           0, prog.code)
DataWords0 == FoldLeft(LAMBDA a, d : IF d.kind = "label" THEN a ELSE a + DataLength(d),
                       0, prog.data)
Fits == CodeLength < ImemSize /\ DataWords0 < DmemSize

Proper == /\ \A k \in DOMAIN prog.code :
               prog.code[k].kind = "insts" =>
                 /\ ObeysUnits(prog.code[k])
                 /\ \A j \in DOMAIN prog.code[k].insts :
                      ~Diverges(prog.code[k].insts[j])
          /\ \A k \in DOMAIN prog.data : ~(prog.data[k].kind = "skip" /\ prog.data[k].n = 0)
          /\ Fits

Assembled == asm_status = "done" /\ host = "off"

(* The packets of the image do, in order and each as one, what the source  *)
(* says: fields, sizes, parallel bits and addresses agree between the      *)
(* assembler and the four decoders of the core.                            *)
RunsAsWritten == Assembled /\ Proper => Executed(0) = Written(1)

(* The address of a label is where its code, or its data, begins, although *)
(* it was computed in the first pass.                                      *)
LabelsHold ==
  Assembled /\ Proper =>
    /\ \A k \in DOMAIN prog.code :
         prog.code[k].kind = "label" =>
           Executed(image.map[prog.code[k].name]) = Written(k)
    /\ \A k \in DOMAIN prog.data :
         prog.data[k].kind = "label" =>
           SubSeq(image.dmem, image.map[prog.data[k].name] + 1, DataWords0)
             = DataWritten(k)

(* disasm names what was assembled, or an entry with the same pattern; a   *)
(* predicated 16-bit instruction and a negated predicate it cannot.        *)
SameCode(m, n) ==
  \E d, e \in Range(ajardsp_insns) :
     /\ d.mnemonic = m /\ e.mnemonic = n
     /\ d.pattern = e.pattern /\ d.size = e.size
WordOf(ws, after) == ws[1] \cup IF Len(ws) > 1 THEN {16 + b : b \in ws[2]} ELSE after
DisasmNames ==
  Assembled =>
    \A k \in DOMAIN prog.code : prog.code[k].kind = "insts" =>
      \A j \in DOMAIN prog.code[k].insts :
        LET inst == prog.code[k].insts[j]
            ws == Emitted(inst, j = Len(prog.code[k].insts))
            entry == Head(SelectSeq(Entries(inst), LAMBDA id : Accepts(id, inst)))
        IN (Predicated(inst) => ~inst.pred_neg /\ entry.size = 32)
           => SameCode(inst.mnemonic, disasm(WordOf(ws, {17, 21, 31})))

-----------------------------------------------------------------------------
(* A compiled program does on the pipelines of the core what it would do   *)
(* if every result were there for the next packet: whatever way its        *)
(* branches go, the NOPs of the compiler are enough.                       *)
CompiledRuns ==
  Assembled =>
    \A outcomes \in prog.paths :
      LET late == Run(Code, TRUE, outcomes)
          prompt == Run(Code, FALSE, outcomes)
      IN /\ late.status = "halted"
         /\ \A field \in {"regs", "mem", "path"} : late[field] = prompt[field]

(* When it halts, the registers are as its functions promise: what callees *)
(* have to keep is kept, the stack is even, and no function's locals were  *)
(* touched by its own frame or by the functions it called.                 *)
FramesKept ==
  Assembled =>
    \A outcomes \in prog.paths :
      LET run == Run(Code, TRUE, outcomes)
      IN \A r \in DOMAIN prog.finally : run.regs[r] = prog.finally[r]

-----------------------------------------------------------------------------
(* Every command line comes to its end, with nothing left on the line and  *)
(* the port ready for the next.                                            *)
CommandsEnd == (host = "args") ~> LinkIdle
=============================================================================
