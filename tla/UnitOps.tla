------------------------------ MODULE UnitOps ------------------------------
(* What the units of the core do in a packet, as far as the pipelines care:   *)
(* which registers an operation reads and writes and when.  Values are bits;  *)
(* the arithmetic is reduced to one operation per way of using the ports.      *)
EXTENDS Naturals, Sequences

Accs == {"a", "b"}

(* An operation: source and destination accumulator, and whether it is         *)
(* predicated.  LSU: ldext, ld, st, mv, mvts_pred, mvts_ctl, mvfs (of ctl), and   *)
(* addptr, which uses none of this; the accesses to memory are not predicated      *)
(* here.  CU: add (it stands for all that satctrl or mulsign control), mac, cmp;     *)
(* BMU: not.                                                                          *)
Op(op, src, dst, cond) == [op |-> op, src |-> src, dst |-> dst, cond |-> cond]
NoOp == Op("none", "a", "a", FALSE)

LsuOps == {"none", "ld", "st", "mv", "mvts_pred", "mvts_ctl", "mvfs", "addptr"}
CuOps == {"none", "add", "mac", "cmp"}
BmuOps == {"none", "not"}

WritesAcc == {"ldext", "ld", "mv", "mvfs", "add", "mac", "not"}
UsesDmem == {"ld", "st"}

(* The special register an LSU operation writes. *)
SpecialOf(op) == CASE op = "mvts_pred" -> "pred" [] op = "mvts_ctl" -> "ctl" [] OTHER -> "none"
NoWrite == [reg |-> "none", val |-> 0]

Committed(u, pred) == u.cond => pred = 1

(* A unit between reading its operands and writing its result; what the latches of an  *)
(* idle unit hold does not matter.                                                       *)
Idle == [op |-> "none", dst |-> "a", cond |-> FALSE, x |-> 0, y |-> 0]
Fetched(u, x, y) ==
    IF u.op = "none" THEN Idle
    ELSE [op |-> u.op, dst |-> u.dst, cond |-> u.cond, x |-> x, y |-> y]
Executed(f, ctl) ==
    [op |-> f.op, dst |-> f.dst, cond |-> f.cond,
     res |-> CASE f.op = "add" -> (f.x + ctl) % 2
               [] f.op = "mac" -> (f.x + f.y + ctl) % 2
               [] f.op = "not" -> 1 - f.x
               [] OTHER -> f.x]

(* A write to a register file; of two in one cycle the later one counts.          *)
Write(on, dst, val) == [on |-> on, dst |-> dst, val |-> val]
Overlay(file, w) == IF w.on THEN [file EXCEPT ![w.dst] = w.val] ELSE file

(* The predicate after the compares of a packet; CU 1 is the later port. *)
AfterCompares(pred, cu_0, cu_1) ==
    IF cu_1.op = "cmp" THEN cu_1.res ELSE IF cu_0.op = "cmp" THEN cu_0.res ELSE pred
=============================================================================
