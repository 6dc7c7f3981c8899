------------------------------ MODULE MCSocBus ------------------------------
(* Traffic of the SocBus runs: what the programs on the cores and the debug host *)
(* ask of the bus.                                                                *)
EXTENDS SocBus

Read(s, m, n) == [op |-> "read", adr |-> Address(s, m, n)]
Write(s, m, n) == [op |-> "write", adr |-> Address(s, m, n)]
Burst(s, m, len, flags) == [op |-> "burst", adr |-> Address(s, m, 0), len |-> len, flags |-> flags]

Command(op, s, dat) == [op |-> op, adr |-> Address(s, M_DEBUG, 0), dat |-> dat]
Release(cores) == Command("write", "reset_ctrl", cores)

NoTraffic == {}

(* The debug host. *)
OneBoot == {Release({M_DSP_0})}
BootInTurn == {Release({M_DSP_1}), Release({M_DSP_0, M_DSP_1})}
BootTogether == {Release({M_DSP_0, M_DSP_1})}
DebugReads == {Command("read", "sdram", {}), Command("read", "ram", {})}
BootInTurnAndReads == BootInTurn \cup DebugReads

(* Two cores that together use every slave. *)
Shared0 == {Read("sdram", M_DSP_0, 5), Read("ram", M_DSP_0, 6)}
Shared1 == {Write("sdram", M_DSP_1, 5), Write("misc", M_DSP_1, 7)}

(* A core that meets the frame buffer and the Ethernet port at the SDRAM. *)
Stream0 == {Read("sdram", M_DSP_0, 5), Burst("sdram", M_DSP_0, 2, {"write_ext"})}

(* One kind of access, for the liveness runs. *)
Load0 == {Read("sdram", M_DSP_0, 5)}

=============================================================================
