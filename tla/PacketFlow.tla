----------------------------- MODULE PacketFlow -----------------------------
(* Abstract: packets one after the other, with the latencies of ajar_quickref.txt: *)
(* a packet sees the results of the load/store units of the packet before it, but  *)
(* those of the computation units and the BMU, predicates included, only of the     *)
(* packet before that.  A special register that an LSU wrote in the packet before    *)
(* is seen by the computation units, not yet by a read of it.  No clock, no stall,    *)
(* no port: each unit reads and writes what its operation names.                       *)
EXTENDS UnitOps

CONSTANTS Packets, Word(_)

VARIABLES
    acc, pred, ctl, mem,   \* accumulators, predicate 1, a control register, a cell of dmem
    todo,                  \* the last packet's CU and BMU operations, operands read
    special,               \* its write to a special register
    last                   \* the last packet

flowVars == <<acc, pred, ctl, mem, todo, special, last>>

Nothing == [req |-> [op |-> "none"], lsu_0 |-> NoOp, lsu_1 |-> NoOp,
            cu_0 |-> NoOp, cu_1 |-> NoOp, bmu |-> NoOp]

Init ==
    /\ acc = [r \in Accs |-> 0] /\ pred = 0 /\ ctl = 0 /\ mem = 1
    /\ todo = [cu_0 |-> Idle, cu_1 |-> Idle, bmu |-> Idle]
    /\ special = NoWrite
    /\ last = Nothing

(* "file" is the accumulators and "guard" the predicate as the packet finds them.     *)
LsuValue(u, req, file) ==
    CASE u.op = "ldext" -> Word(req.adr)
      [] u.op = "ld"    -> mem
      [] u.op = "mvfs"  -> ctl
      [] OTHER          -> file[u.src]

LsuWrite(u, req, file, guard) ==
    Write(u.op \in WritesAcc /\ Committed(u, guard), u.dst, LsuValue(u, req, file))

(* The result of a CU or BMU operation lands under the predicate as it is after the   *)
(* compares and the special-register write of its own packet ("after").                 *)
Landing(u, after) == Write(u.op \in WritesAcc /\ Committed(u, after), u.dst, Executed(u, ctl).res)

Stores(p, file) == {file[u.src] : u \in {v \in {p.lsu_0, p.lsu_1} : v.op = "st"}}
Moves(p, file, guard) ==
    {[reg |-> SpecialOf(u.op), val |-> file[u.src]] :
        u \in {v \in {p.lsu_0, p.lsu_1} : SpecialOf(v.op) # "none" /\ Committed(v, guard)}}

Step(p) ==
    LET file == acc
        guard == pred
        after == AfterCompares(IF special.reg = "pred" THEN special.val ELSE guard,
                               Executed(todo.cu_0, ctl), Executed(todo.cu_1, ctl))
    IN  /\ last' = p
        /\ pred' = after
        /\ ctl' = IF special.reg = "ctl" THEN special.val ELSE ctl
        /\ acc' = LET lsu_0 == Overlay(file, LsuWrite(p.lsu_0, p.req, file, guard))
                      lsu_1 == Overlay(lsu_0, LsuWrite(p.lsu_1, p.req, file, guard))
                      cu_0 == Overlay(lsu_1, Landing(todo.cu_0, after))
                      cu_1 == Overlay(cu_0, Landing(todo.cu_1, after))
                  IN  Overlay(cu_1, Landing(todo.bmu, after))
        /\ todo' = [k \in {"cu_0", "cu_1", "bmu"} |-> Fetched(p[k], file[p[k].src], file[p[k].dst])]
        /\ mem' \in IF Stores(p, file) = {} THEN {mem} ELSE Stores(p, file)
        /\ special' \in IF Moves(p, file, guard) = {} THEN {NoWrite} ELSE Moves(p, file, guard)

Next == \E p \in Packets : Step(p)

FlowSpec == Init /\ [][Next]_flowVars
=============================================================================
