----------------------------- MODULE MCDspUnits -----------------------------
(* Packets of the DspUnits run. *)
EXTENDS DspUnits

Adr(n) == [slave |-> "ram", word |-> n]
MCBoot == [op |-> "burst", adr |-> Adr(0), len |-> 1, flags |-> {"imem"}]
MCOther == Adr(0)
MCWord(adr) == adr.word % 2

LoadRequest == [op |-> "read", adr |-> Adr(1)]
BurstRequest(flags) == [op |-> "burst", adr |-> Adr(0), len |-> 1, flags |-> flags]
MCRequests == {LoadRequest, BurstRequest({"write_ext"}), BurstRequest({"write_ext", "nowait"})}

Packet(r, lsu_0, lsu_1, cu_0, cu_1, bmu) ==
    [req |-> r, lsu_0 |-> lsu_0, lsu_1 |-> lsu_1, cu_0 |-> cu_0, cu_1 |-> cu_1, bmu |-> bmu]

Do(op, src, dst) == Op(op, src, dst, FALSE)
DoIf(op, src, dst) == Op(op, src, dst, TRUE)
Addptr == Do("addptr", "a", "a")

(* Each way of using the units and their ports.  LSU 1 and CU 1 get an operation only   *)
(* when LSU 0 and CU 0 have one.                                                         *)
Legal ==
    {Packet(LoadRequest, Do("ldext", "a", "a"), NoOp, Do("mac", "a", "b"), NoOp, NoOp),
     Packet(BurstRequest({"write_ext"}), NoOp, NoOp, NoOp, NoOp, NoOp),
     Packet(BurstRequest({"write_ext", "nowait"}), NoOp, NoOp, NoOp, NoOp, NoOp),
     Packet(NoRequest, Do("ld", "a", "a"), Do("ld", "a", "b"), Do("cmp", "b", "b"), NoOp, NoOp),
     Packet(NoRequest, Addptr, Do("st", "a", "a"), NoOp, NoOp, NoOp),
     Packet(NoRequest, DoIf("mvfs", "a", "a"), Do("mvts_pred", "b", "b"),
            DoIf("add", "a", "b"), NoOp, DoIf("not", "a", "a")),
     Packet(NoRequest, DoIf("mvts_ctl", "b", "b"), DoIf("mvfs", "a", "a"), NoOp, NoOp, NoOp)}

(* Three packets that the assembler takes and U1 excludes.  The other packets meet U2    *)
(* to U4 in some orders only.                                                               *)
Overfull ==
    {Packet(NoRequest, Do("mvfs", "a", "a"), Do("mvfs", "a", "b"), NoOp, NoOp, NoOp),
     Packet(NoRequest, NoOp, NoOp, Do("add", "a", "a"), Do("add", "b", "a"), Do("not", "a", "b")),
     Packet(NoRequest, Addptr, Do("st", "a", "a"), Do("mac", "a", "b"), NoOp, NoOp)}

MCBundles == Legal \cup Overfull
=============================================================================
