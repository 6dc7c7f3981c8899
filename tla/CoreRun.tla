------------------------------ MODULE CoreRun ------------------------------
(***************************************************************************)
(* A program on the core, packet by packet, with the latencies of its      *)
(* units or without any.  A value is an expression over what the registers *)
(* and the memory held at reset; addresses are numbers.  Only the          *)
(* operations that the compiler's functions use are here.                  *)
(***************************************************************************)
EXTENDS HwDecode

CONSTANT
  MaxPackets     \* packets after which a run counts as lost

Const(n) == <<"int", n>>
Plus(v, n) == IF v[1] = "int" THEN Const(v[2] + n) ELSE <<"plus", v, n>>

sp == SpecReg(2)
retpc == SpecReg(1)
Halves(acc) == <<HalfReg(acc.n, FALSE), HalfReg(acc.n, TRUE)>>
Registers == {sp, retpc} \cup {PtrReg(n) : n \in 0 .. 7}
             \cup {HalfReg(n, h) : n \in 0 .. 7, h \in BOOLEAN}
             \cup {PredReg(n) : n \in 0 .. 3}

Held(mem, a) == IF a \in DOMAIN mem THEN mem[a] ELSE <<"word", a>>
Value(regs, r) ==
  IF r.class = "acc" /\ r.half = "" THEN <<regs[Halves(r)[1]], regs[Halves(r)[2]]>>
  ELSE regs[r]

To(reg, val) == [reg |-> reg, val |-> val]
ToBoth(acc, val) == <<To(Halves(acc)[1], <<"low", val>>), To(Halves(acc)[2], <<"high", val>>)>>

-----------------------------------------------------------------------------
(* sp.v: pushes count down before they write, pops up after they read, and *)
(* the second of two in a packet uses the pointer the first one leaves.    *)
Pushes(e) == e.op = "push16"
Pops(e) == e.op = "pop16"
StackAddr(regs, effects, k) ==
  LET before == Cardinality({j \in 1 .. k - 1 : Pushes(effects[j]) \/ Pops(effects[j])})
  IN Plus(regs[sp], IF Pushes(effects[k]) THEN -(before + 1) ELSE before)
Moved(effects) == Cardinality({k \in DOMAIN effects : Pops(effects[k])})
                  - Cardinality({k \in DOMAIN effects : Pushes(effects[k])})

(* What effect k of a packet writes to registers.                          *)
Results(s, effects, k) ==
  LET e == effects[k]
      V(j) == Value(s.regs, e.args[j])
  IN CASE e.op = "ldimm16" -> <<To(e.args[2], Const(e.args[1]))>>
       [] e.op = "addptr16" -> <<To(e.args[2], Plus(V(2), e.args[1]))>>
       [] e.op \in {"mv16", "mvts16", "mvfs16"} -> <<To(e.args[2], V(1))>>
       [] e.op = "ldoff16" -> <<To(e.args[3], Held(s.mem, Plus(V(1), e.args[2])))>>
       [] e.op = "pop16" -> <<To(e.args[1], Held(s.mem, StackAddr(s.regs, effects, k)))>>
       [] e.op = "add16" -> <<To(e.args[2], <<e.op, V(1), V(2)>>)>>
       [] e.op \in {"add32", "mpy16"} -> ToBoth(e.args[3], <<e.op, V(1), V(2)>>)
       [] e.op \in {"cmp16eq", "cmp16lt", "cmp16ge"} -> <<To(e.args[3], <<e.op, V(1), V(2)>>)>>
       [] OTHER -> <<>>

(* The load/store units' results can be used by the next packet, the       *)
(* others', and a special register that they write, only by the one after. *)
LsuOps == {"ldimm16", "addptr16", "mv16", "mvts16", "mvfs16", "ldoff16", "pop16"}
IsLate(e, w) == e.op \notin LsuOps \/ w.reg \in {sp, retpc}

Stored(s, effects) ==
  FoldLeft(LAMBDA mem, k :
             LET e == effects[k]
                 V(j) == Value(s.regs, e.args[j])
             IN CASE e.op = "stoff16" -> (Plus(V(2), e.args[3]) :> V(1)) @@ mem
                  [] e.op = "push16" -> (StackAddr(s.regs, effects, k) :> V(1)) @@ mem
                  [] OTHER -> mem,
           s.mem, [k \in DOMAIN effects |-> k])

Landed(regs, writes) ==
  FoldLeft(LAMBDA rs, w : [rs EXCEPT ![w.reg] = w.val], regs, writes)

-----------------------------------------------------------------------------
PacketAt(code, a) == [i \in 1 .. 4 |-> IF a + i <= Len(code) THEN code[a + i] ELSE {}]

(* The instruction of the PCU in a packet, and whether it is carried out:  *)
(* the outcome of the n-th predicated branch is the n-th of "outcomes",     *)
(* and no branch after those is taken.                                     *)
Flow(effects) ==
  LET jumps == SelectSeq(effects, LAMBDA e : e.op \in {"bra", "call", "rets", "halt"})
  IN IF jumps = <<>> THEN Nothing ELSE Head(jumps)
Conditional(e) == e.guard # Always
CarriedOut(s, e, outcomes) ==
  Conditional(e) => Len(s.path) < Len(outcomes) /\ outcomes[Len(s.path) + 1]

(* All that a packet writes to registers, marked with what has to wait if  *)
(* the latencies of the units count.                                       *)
Writes(s, effects, late) ==
  FlattenSeq([k \in DOMAIN effects |->
    LET ws == Results(s, effects, k)
    IN [i \in DOMAIN ws |-> [late |-> late /\ IsLate(effects[k], ws[i])] @@ ws[i]]])
Move(s, effects) ==
  IF Moved(effects) = 0 THEN <<>> ELSE <<To(sp, Plus(s.regs[sp], Moved(effects)))>>

(* What is due from the packet before lands after the results that need no *)
(* wait, also in the stack pointer, whose move by a push or a pop is then  *)
(* lost.  A jump without delay slots lets everything land.                 *)
LandedNow(s, effects, writes) ==
  Landed(s.regs, Move(s, effects) \o SelectSeq(writes, LAMBDA w : ~w.late) \o s.due)

Retired(s, effects, writes, jump, go, after) ==
  LET regs == LandedNow(s, effects, writes)
      due == SelectSeq(writes, LAMBDA w : w.late)
      link == IF jump.op = "call" THEN <<To(retpc, Const(after))>> ELSE <<>>
      to == CASE ~go -> Const(after)
              [] go /\ jump.op \in {"bra", "call"} -> Const(jump.args[1])
              [] go /\ jump.op = "rets" -> s.regs[retpc]
              [] OTHER -> Const(s.at)
  IN [at |-> to[2],
      regs |-> IF go THEN Landed(regs, due \o link) ELSE regs,
      due |-> IF go THEN <<>> ELSE due,
      mem |-> Stored(s, effects),
      path |-> IF Conditional(jump) THEN Append(s.path, s.regs[PredReg(jump.guard[1])])
               ELSE s.path,
      status |-> CASE go /\ jump.op = "halt" -> "halted"
                   [] to[1] # "int" \/ after = s.at -> "lost"
                   [] OTHER -> "running"]

(* A packet, with the latencies of the units if "late".                    *)
Issued(s, effects, after, late, outcomes) ==
  LET jump == Flow(effects)
  IN Retired(s, effects, Writes(s, effects, late), jump,
             jump.op # "nop" /\ CarriedOut(s, jump, outcomes), after)
RunPacket(code, late, outcomes, s) ==
  LET packet == PacketAt(code, s.at)
  IN Issued(s, Effects(packet), s.at + vliw_len(packet), late, outcomes)

AtReset == [at |-> 0, due |-> <<>>, mem |-> << >>, path |-> <<>>, status |-> "running",
            regs |-> [r \in Registers |-> IF r = sp THEN Const(0) ELSE <<"was", r>>]]

(* By halves, so that long runs do not need deep recursion.                *)
RECURSIVE Packets(_, _, _, _, _)
Packets(code, late, outcomes, s, n) ==
  CASE n = 0 \/ s.status # "running" -> s
    [] n = 1 /\ s.status = "running" -> RunPacket(code, late, outcomes, s)
    [] OTHER -> Packets(code, late, outcomes,
                        Packets(code, late, outcomes, s, n \div 2), n - n \div 2)
Run(code, late, outcomes) == Packets(code, late, outcomes, AtReset, MaxPackets)
=============================================================================
