----------------------------- MODULE ProgramFlow -----------------------------
(***************************************************************************)
(* The program flow an AjarDSP programmer relies on (doc/pcu-insns.txt):   *)
(* which bundle executes next.  There is no pipeline here: an instruction  *)
(* takes effect when its bundle issues, a redirection waits for its delay  *)
(* slots, an interrupt falls between two bundles.                          *)
(***************************************************************************)
EXTENDS ProgAddr

CONSTANTS Insts, Nop, BundleLengths, RepeatCounts

VARIABLES
  inst,             \* the control instruction of the last bundle, if any
  ip,               \* address of the bundle that executes next
  pending,          \* the redirection that waits for its delay slots
  retpc, retipc,    \* return addresses
  begin, end, cnt,  \* the block repeat
  enabled           \* interrupts are enabled

flowVars == <<inst, ip, pending, retpc, retipc, begin, end, cnt, enabled>>

NoRedirect == [target |-> 0, slots |-> 0, call |-> FALSE]
AtLoopEnd == cnt # 0 /\ ip = end
IsJump(i) == i.op \in {"CALL_ABS", "JUMP_ABS", "RETS", "RETI"}
IsControl(i) == IsJump(i) \/ i.op = "BKREP"

Target(i) == CASE i.op = "RETS" -> retpc
               [] i.op = "RETI" -> retipc
               [] OTHER -> i.opnd

FlowInit ==
  /\ inst = Nop
  /\ ip = 0 /\ pending = NoRedirect
  /\ retpc = 0 /\ retipc = 0
  /\ begin = 0 /\ end = 0 /\ cnt = 0
  /\ enabled = FALSE

(* A redirection r behind the bundle that issues: at once if it has no     *)
(* delay slot left, and a call then returns to the bundle behind it.       *)
Redirect(r, following) ==
  IF r.slots = 0
  THEN /\ ip' = r.target
       /\ pending' = NoRedirect
       /\ retpc' = IF r.call THEN following ELSE retpc
  ELSE /\ ip' = following
       /\ pending' = r
       /\ UNCHANGED retpc

RegisterEffects(i) ==
  /\ begin' = IF i.op = "BKREP" THEN ip' ELSE begin
  /\ end' = IF i.op = "BKREP" THEN i.opnd ELSE end
  /\ enabled' = CASE i.op \in {"EINT", "RETI"} -> TRUE
                  [] i.op = "DINT" -> FALSE
                  [] OTHER -> enabled
  /\ UNCHANGED retipc

(* BKREP_CNT is written over the special-register bus at any time.         *)
CountMayBeWritten == cnt' \in {cnt} \cup RepeatCounts

(* An ordinary bundle; it may hold a jump.                                 *)
Sequential(i, following) ==
  /\ pending = NoRedirect /\ ~AtLoopEnd
  /\ IF IsJump(i)
     THEN Redirect([target |-> Target(i), slots |-> i.dslots,
                    call |-> i.op = "CALL_ABS"], following)
     ELSE ip' = following /\ UNCHANGED <<pending, retpc>>
  /\ CountMayBeWritten

DelaySlot(i, following) ==
  /\ pending # NoRedirect /\ ~AtLoopEnd /\ ~IsControl(i)
  /\ Redirect([pending EXCEPT !.slots = @ - 1], following)
  /\ CountMayBeWritten

(* The bundle at the loop end: one more bundle, then the loop begins again.*)
LoopEnd(i, following) ==
  /\ pending = NoRedirect /\ AtLoopEnd /\ ~IsControl(i)
  /\ Redirect([target |-> begin, slots |-> 1, call |-> FALSE], following)
  /\ cnt' = cnt - 1

Execute ==
  \E i \in Insts, len \in BundleLengths :
    /\ \/ Sequential(i, Plus(ip, len))
       \/ DelaySlot(i, Plus(ip, len))
       \/ LoopEnd(i, Plus(ip, len))
    /\ RegisterEffects(i)
    /\ inst' = i

(* An interrupt is taken in place of a bundle, which RETI comes back to:   *)
(* never between a jump and its target, never at the end of a loop.        *)
Interrupt ==
  /\ enabled /\ pending = NoRedirect /\ ~AtLoopEnd
  /\ inst' = Nop
  /\ ip' = 4
  /\ retipc' = ip
  /\ enabled' = FALSE
  /\ CountMayBeWritten
  /\ UNCHANGED <<pending, retpc, begin, end>>

(* A cycle in which no bundle executes; the count may be written.          *)
NoBundle ==
  /\ inst' = Nop
  /\ CountMayBeWritten
  /\ UNCHANGED <<ip, pending, retpc, retipc, begin, end, enabled>>

FlowNext == Execute \/ Interrupt \/ NoBundle

FlowSpec == FlowInit /\ [][FlowNext]_flowVars
=============================================================================
