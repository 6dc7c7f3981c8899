----------------------------- MODULE MCSimDebug -----------------------------
(* A program of two packets in two lines; the .lineno file in the form the *)
(* debugger reads, and as the assembler writes it, with the instructions   *)
(* behind each address.                                                    *)
EXTENDS SimDebug

Acc == <<"low", 0>>
TwoRegs == <<Pc, Acc>>
Dec == <<"PCU", "DEC">>
EditAcc == {Acc}
OneBit == (Acc :> 2)
PcuDec == {Dec}
Design(p, w) == [reg |-> (Pc :> p) @@ (Acc :> p) @@ (Dec :> 1 - p), mem |-> [a \in 0 .. 0 |-> w]]
Pipelined == {Design(0, 0), Design(1, 0), Design(1, 1)}
At(a, n) == [addr |-> a, lineno |-> n]
Instructions == [text |-> "nop"]

TwoPackets == <<At(0, 1), At(1, 2)>>
AsWritten == <<At(0, 1), Instructions, At(1, 2), Instructions>>
PatientAndHasty == {{}, {"break"}}
Files == {TwoPackets, AsWritten}
=============================================================================
