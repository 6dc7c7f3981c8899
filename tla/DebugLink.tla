------------------------------ MODULE DebugLink ------------------------------
(***************************************************************************)
(* The download path: the host program wb_debug (sw/tools/target), the     *)
(* serial line, and the debug port on the system bus (soc/wb_debug.v).     *)
(*                                                                         *)
(* The host sends commands without waiting for the port: a write is not    *)
(* answered.  The port receives bytes into the registers that also drive   *)
(* its bus access, so an access must end before the next command reaches   *)
(* them.  A word is its four bytes, the lowest first.                      *)
(***************************************************************************)
EXTENDS Integers, Sequences

CONSTANTS
  BusBytes,   \* bytes that may arrive while the port waits for its bus access
  ReadSizes,  \* bytes one read of the tty may return
  Garbage,    \* words an uninitialised variable of the host may hold
  ResetCtrl   \* the address of RESET_CTRL, which releases the cores

(* A word as bytes; the addresses of words, the two low bits of which the   *)
(* slaves ignore; and what fits into an int.                               *)
Word == [1 .. 4 -> 0 .. 255]
Addr == {a \in Nat : a \div 65536 < 65536 /\ a % 4 = 0}
Length == {n \in Nat : n \div 65536 < 32768}

ASSUME DebugLinkAssumption ==
  BusBytes \in Nat /\ ReadSizes \subseteq 1 .. 4 /\ Garbage \subseteq Word

VARIABLES
  (* The host. *)
  argv,        \* the command line
  arg,         \* the command of it that is next, or being done (i of main)
  host,        \* what the host is doing
  job,         \* the arguments addr and len of the function doing it
  line,        \* lines of the file read so far
  eof,
  locals,      \* low, high and data, as the last iteration left them
  shown,       \* what dump_mem printed
  (* The line. *)
  to_port, to_host,
  (* The port. *)
  state, addr_r, byte_r, wb_state_r, rd_data_32_r, tx_state,
  (* The bus. *)
  mem,         \* from the word addresses written so far
  wb_dat_i,
  waited       \* bytes received during the present access

hostVars == <<argv, arg, host, job, line, eof, locals, shown>>
portVars == <<state, addr_r, byte_r, wb_state_r, rd_data_32_r, tx_state>>
busVars == <<mem, wb_dat_i, waited>>
linkVars == <<hostVars, to_port, to_host, portVars, busVars>>

CMD_WRITE == 193
CMD_READ == 194
ZeroWord == <<0, 0, 0, 0>>

AddrBytes(a) ==
  <<a % 256, (a \div 256) % 256, (a \div 65536) % 256, (a \div 16777216) % 256>>
WordAddr(bs) == bs[1] + 256 * bs[2] + 65536 * bs[3] + 16777216 * bs[4]

-----------------------------------------------------------------------------
(* The host.                                                               *)
wb_debug_w32(addr, data) == <<CMD_WRITE>> \o AddrBytes(addr) \o data
Ask(addr) == <<CMD_READ>> \o AddrBytes(addr)

(* The commands: a 64-bit line of an imem file is read as two words, a     *)
(* 16-bit line of a dmem file fills half of one.                           *)
ImemFile == Seq([low : Word, high : Word])
DmemFile == Seq(Word)
Command ==
  LET fits(c) == (c.addr + c.len) \div 65536 < 65536
  IN [op : {"w32"}, addr : Addr, value : Word]
     \cup {c \in [op : {"dump"}, addr : Addr, len : Length] : fits(c)}
     \cup {c \in [op : {"load-imem"}, addr : Addr, len : Length \ {0}, file : ImemFile] : fits(c)}
     \cup {c \in [op : {"load-dmem"}, addr : Addr, len : Length, file : DmemFile] : fits(c)}

Now == argv[arg]
Sent(bytes) == to_port' = to_port \o bytes
EndJob == host' = "args" /\ arg' = arg + 1
StayInJob == UNCHANGED <<host, arg>>

(* main: the next command of the command line.                             *)
NextArg ==
  /\ host = "args" /\ arg <= Len(argv)
  /\ \/ /\ Now.op = "w32"
        /\ Sent(wb_debug_w32(Now.addr, Now.value))
        /\ EndJob
        /\ UNCHANGED <<job, line, eof>>
     \/ /\ Now.op # "w32"
        /\ host' = Now.op
        /\ job' = [addr |-> Now.addr, len |-> Now.len]
        /\ line' = 0 /\ eof' = FALSE
        /\ UNCHANGED <<arg, to_port>>
  /\ UNCHANGED <<argv, locals, shown, to_host, portVars, busVars>>

CloseTty ==
  /\ host = "args" /\ arg > Len(argv)
  /\ host' = "done"
  /\ UNCHANGED <<argv, arg, job, line, eof, locals, shown,
                 to_port, to_host, portVars, busVars>>

Advance(bytes) == job' = [addr |-> job.addr + bytes, len |-> job.len - bytes]

(* fscanf leaves its variable alone at the end of the file.                *)
(* Mutant: the last line is taken for the end of the file.                 *)
ScanLosesLast(n, read, old) ==
  IF line + n < Len(Now.file) THEN {read[line + n]} ELSE Garbage \cup {old}
Scan(n, read, old) ==
  IF line + n <= Len(Now.file) THEN {read[line + n]} ELSE Garbage \cup {old}
Read(n) ==
  /\ eof' = (line + n > Len(Now.file))
  /\ line' = IF line + n > Len(Now.file) THEN Len(Now.file) ELSE line + n

Lows == [i \in DOMAIN Now.file |-> Now.file[i].low]
Highs == [i \in DOMAIN Now.file |-> Now.file[i].high]

LeaveJob ==
  /\ EndJob
  /\ UNCHANGED <<job, line, eof, locals, to_port>>

(* Mutant: the upper word of a line is always sent.                        *)
target_load_imemWholeLines ==
  /\ host = "load-imem"
  /\ \/ eof /\ LeaveJob
     \/ /\ ~eof
        /\ Read(1)
        /\ \E low \in Scan(1, Lows, locals.low), high \in Scan(1, Highs, locals.high) :
             /\ locals' = [locals EXCEPT !.low = low, !.high = high]
             /\ Sent(wb_debug_w32(job.addr, low) \o wb_debug_w32(job.addr + 4, high))
        /\ Advance(8)
        /\ IF job.len > 8 THEN StayInJob ELSE EndJob
  /\ UNCHANGED <<argv, shown, to_host, portVars, busVars>>

target_load_imem ==
  /\ host = "load-imem"
  /\ \/ eof /\ LeaveJob
     \/ /\ ~eof
        /\ Read(1)
        /\ \E low \in Scan(1, Lows, locals.low), high \in Scan(1, Highs, locals.high) :
             /\ locals' = [locals EXCEPT !.low = low, !.high = high]
             /\ Sent(wb_debug_w32(job.addr, low)
                     \o IF job.len > 4 THEN wb_debug_w32(job.addr + 4, high) ELSE <<>>)
        /\ Advance(8)
        /\ IF job.len > 8 THEN StayInJob ELSE EndJob
  /\ UNCHANGED <<argv, shown, to_host, portVars, busVars>>

(* Two 16-bit lines make a word.                                           *)
target_load_dmem ==
  /\ host = "load-dmem"
  /\ \/ (eof \/ job.len <= 0) /\ LeaveJob
     \/ /\ ~eof /\ job.len > 0
        /\ Read(2)
        /\ \E low \in Scan(1, Now.file, locals.low), high \in Scan(2, Now.file, locals.high) :
             /\ locals' = [locals EXCEPT !.low = low, !.high = high]
             /\ Sent(wb_debug_w32(job.addr, <<low[1], low[2], high[1], high[2]>>))
        /\ Advance(4)
        /\ StayInJob
  /\ UNCHANGED <<argv, shown, to_host, portVars, busVars>>

(* dump_mem asks for a word and reads: the line is in raw mode, so one     *)
(* byte is enough for read to return, and what it does not fill of data    *)
(* keeps its value.                                                        *)
dump_mem ==
  /\ host = "dump"
  /\ IF job.len <= 0
     THEN EndJob /\ UNCHANGED to_port
     ELSE host' = "read" /\ UNCHANGED arg /\ Sent(Ask(job.addr))
  /\ UNCHANGED <<argv, job, line, eof, locals, shown,
                 to_host, portVars, busVars>>

wb_debug_r32 ==
  /\ host = "read"
  /\ \E n \in ReadSizes :
       /\ n <= Len(to_host)
       /\ LET data == SubSeq(to_host, 1, n) \o SubSeq(locals.data, n + 1, 4)
          IN /\ shown' = Append(shown, [addr |-> job.addr, data |-> data])
             /\ locals' = [locals EXCEPT !.data = data]
       /\ to_host' = SubSeq(to_host, n + 1, Len(to_host))
  /\ host' = "dump"
  /\ Advance(4)
  /\ UNCHANGED <<argv, arg, line, eof, to_port, portVars, busVars>>

HostNext == \/ NextArg \/ CloseTty \/ target_load_imem \/ target_load_dmem
            \/ dump_mem \/ wb_debug_r32

-----------------------------------------------------------------------------
(* The port: the FSM of the received bytes, which names the byte it waits  *)
(* for.                                                                    *)
After ==
  [S_WRITE_ADDR_0 |-> "S_WRITE_ADDR_1", S_WRITE_ADDR_1 |-> "S_WRITE_ADDR_2",
   S_WRITE_ADDR_2 |-> "S_WRITE_ADDR_3", S_WRITE_ADDR_3 |-> "S_WRITE_DATA_0",
   S_WRITE_DATA_0 |-> "S_WRITE_DATA_1", S_WRITE_DATA_1 |-> "S_WRITE_DATA_2",
   S_WRITE_DATA_2 |-> "S_WRITE_DATA_3", S_WRITE_DATA_3 |-> "S_IDLE",
   S_READ_ADDR_0 |-> "S_READ_ADDR_1", S_READ_ADDR_1 |-> "S_READ_ADDR_2",
   S_READ_ADDR_2 |-> "S_READ_ADDR_3", S_READ_ADDR_3 |-> "S_IDLE"]
AddrByte == [S_WRITE_ADDR_0 |-> 1, S_WRITE_ADDR_1 |-> 2, S_WRITE_ADDR_2 |-> 3,
             S_WRITE_ADDR_3 |-> 4, S_READ_ADDR_0 |-> 1, S_READ_ADDR_1 |-> 2,
             S_READ_ADDR_2 |-> 3, S_READ_ADDR_3 |-> 4]
DataByte == [S_WRITE_DATA_0 |-> 1, S_WRITE_DATA_1 |-> 2, S_WRITE_DATA_2 |-> 3,
             S_WRITE_DATA_3 |-> 4]

Accessing == wb_state_r \in {"WB_WRITE_1", "WB_READ_1"}

(* The bus FSM and the transmitter as far as they depend on clocks only.   *)
NextWb ==
  CASE wb_state_r = "WB_IDLE" /\ state = "S_WRITE_DATA_3" -> "WB_WRITE_0"
    [] wb_state_r = "WB_IDLE" /\ state = "S_READ_ADDR_3" -> "WB_READ_0"
    [] wb_state_r = "WB_WRITE_0" /\ state = "S_IDLE" -> "WB_WRITE_1"
    [] wb_state_r = "WB_READ_0" /\ state = "S_IDLE" -> "WB_READ_1"
    [] wb_state_r \in {"WB_WRITE_2", "WB_READ_2"} -> "WB_IDLE"
    [] OTHER -> wb_state_r
(* Mutant: the transmitter waits for the end of an access that is over.    *)
NextTxMissesRead ==
  CASE tx_state = "TX_IDLE" /\ wb_state_r = "WB_READ_2" -> "TX_WAIT"
    [] tx_state = "TX_WAIT" /\ wb_state_r = "WB_READ_2" -> "TX_0"
    [] OTHER -> tx_state
NextTx ==
  CASE tx_state = "TX_IDLE" /\ wb_state_r = "WB_READ_2" -> "TX_WAIT"
    [] tx_state = "TX_WAIT" /\ wb_state_r = "WB_IDLE" -> "TX_0"
    [] OTHER -> tx_state
Settled == NextWb = wb_state_r /\ NextTx = tx_state

(* Mutant: the answer is latched before the slave has given it.            *)
PortClockEarlyLatch ==
  /\ ~Settled
  /\ wb_state_r' = NextWb
  /\ tx_state' = NextTx
  /\ rd_data_32_r' = IF wb_state_r = "WB_READ_0" THEN wb_dat_i ELSE rd_data_32_r
  /\ waited' = 0
  /\ UNCHANGED <<hostVars, to_port, to_host, state, addr_r, byte_r, mem, wb_dat_i>>
PortClock ==
  /\ ~Settled
  /\ wb_state_r' = NextWb
  /\ tx_state' = NextTx
  /\ rd_data_32_r' = IF wb_state_r = "WB_READ_2" THEN wb_dat_i ELSE rd_data_32_r
  /\ waited' = 0
  /\ UNCHANGED <<hostVars, to_port, to_host, state, addr_r, byte_r, mem, wb_dat_i>>

(* A byte takes thousands of clocks to arrive.                             *)
ReceiveByte ==
  /\ to_port # <<>> /\ Settled
  /\ Accessing => waited < BusBytes
  /\ to_port' = Tail(to_port)
  /\ waited' = IF Accessing THEN waited + 1 ELSE 0
  /\ LET rx_byte == Head(to_port)
     IN /\ state' = IF state # "S_IDLE" THEN After[state]
                    ELSE CASE rx_byte = CMD_WRITE -> "S_WRITE_ADDR_0"
                           [] rx_byte = CMD_READ -> "S_READ_ADDR_0"
                           [] OTHER -> "S_IDLE"
        /\ addr_r' = IF state \in DOMAIN AddrByte
                     THEN [addr_r EXCEPT ![AddrByte[state]] = rx_byte] ELSE addr_r
        /\ byte_r' = IF state \in DOMAIN DataByte
                     THEN [byte_r EXCEPT ![DataByte[state]] = rx_byte] ELSE byte_r
  /\ UNCHANGED <<hostVars, to_host, wb_state_r, rd_data_32_r, tx_state, mem, wb_dat_i>>

TxByte == [TX_0 |-> 1, TX_1 |-> 2, TX_2 |-> 3, TX_3 |-> 4]
NextTxByte == [TX_0 |-> "TX_1", TX_1 |-> "TX_2", TX_2 |-> "TX_3", TX_3 |-> "TX_IDLE"]

SendByte ==
  /\ tx_state \in DOMAIN TxByte
  /\ to_host' = Append(to_host, rd_data_32_r[TxByte[tx_state]])
  /\ tx_state' = NextTxByte[tx_state]
  /\ UNCHANGED <<hostVars, to_port, state, addr_r, byte_r, wb_state_r, rd_data_32_r,
                 busVars>>

MemAt(a) == IF a \in DOMAIN mem THEN mem[a] ELSE ZeroWord

(* The slave answers: it takes address and data from the registers.        *)
BusAck ==
  /\ Accessing
  /\ LET adr == WordAddr(addr_r)
     IN IF wb_state_r = "WB_WRITE_1"
        THEN /\ mem' = [a \in DOMAIN mem \cup {adr} |-> IF a = adr THEN byte_r ELSE mem[a]]
             /\ wb_state_r' = "WB_WRITE_2"
             /\ UNCHANGED wb_dat_i
        ELSE /\ wb_dat_i' = MemAt(adr)
             /\ wb_state_r' = "WB_READ_2"
             /\ UNCHANGED mem
  /\ UNCHANGED <<hostVars, to_port, to_host, state, addr_r, byte_r, rd_data_32_r,
                 tx_state, waited>>

PortNext == PortClock \/ ReceiveByte \/ SendByte \/ BusAck

LinkInit ==
  /\ argv = <<>> /\ arg = 1
  /\ host = "off" /\ job = [addr |-> 0, len |-> 0] /\ line = 0 /\ eof = FALSE
  /\ locals = [low |-> ZeroWord, high |-> ZeroWord, data |-> ZeroWord]
  /\ shown = <<>> /\ to_port = <<>> /\ to_host = <<>>
  /\ state = "S_IDLE" /\ addr_r = ZeroWord /\ byte_r = ZeroWord
  /\ wb_state_r = "WB_IDLE" /\ rd_data_32_r = ZeroWord /\ tx_state = "TX_IDLE"
  /\ mem = [a \in {} |-> ZeroWord] /\ wb_dat_i = ZeroWord /\ waited = 0

(* The host program is started on a command line.                          *)
StartHost(commands) ==
  /\ host = "off"
  /\ host' = "args" /\ argv' = commands
  /\ UNCHANGED <<arg, job, line, eof, locals, shown, to_port, to_host, portVars, busVars>>

LinkNext == HostNext \/ PortNext

(* The link alone, with any command line.                                  *)
LinkSpec == LinkInit /\ [][LinkNext \/ \E commands \in Seq(Command) : StartHost(commands)]_linkVars

LinkIdle == /\ host = "done" /\ to_port = <<>> /\ to_host = <<>>
            /\ state = "S_IDLE" /\ Settled /\ ~Accessing /\ tx_state = "TX_IDLE"

-----------------------------------------------------------------------------
(* What a command may write, and the words a load is to put there.         *)
IsLoad(c) == c.op \in {"load-imem", "load-dmem"}
MayWrite(c) == c.op # "dump"
Cells(c) == IF c.op = "w32" THEN {c.addr} ELSE c.addr .. c.addr + c.len - 1
WordCount(c) == IF c.op = "load-imem" THEN 2 * Len(c.file) ELSE Len(c.file) \div 2
WordOfFile(c, i) ==
  IF c.op = "load-imem"
  THEN IF i % 2 = 1 THEN c.file[(i + 1) \div 2].low ELSE c.file[i \div 2].high
  ELSE <<c.file[2 * i - 1][1], c.file[2 * i - 1][2], c.file[2 * i][1], c.file[2 * i][2]>>
Words(c) == {i \in 1 .. WordCount(c) : 4 * (i - 1) < c.len}
Place(c, i) == c.addr + 4 * (i - 1)

(* A command line that means what it says: nothing is written over what a  *)
(* load has put in its place, and nothing is loaded once the cores run.    *)
Orderly(commands) ==
  \A i, j \in DOMAIN commands : IsLoad(commands[i]) /\ MayWrite(commands[j]) =>
    /\ i < j => Cells(commands[i]) \cap Cells(commands[j]) = {}
    /\ ResetCtrl \in Cells(commands[j]) => i < j

(* When the write that releases the cores is done, every word of every     *)
(* image is at its place, although no write was ever answered.             *)
BootsLoadedProgram ==
  Orderly(argv) /\ ResetCtrl \in DOMAIN mem =>
    \A k \in DOMAIN argv : IsLoad(argv[k]) =>
      \A i \in Words(argv[k]) :
        /\ Place(argv[k], i) \in DOMAIN mem
        /\ mem[Place(argv[k], i)] = WordOfFile(argv[k], i)

(* Nothing is written outside the ranges the command line names, although  *)
(* the loaders write words after the last line of a file.                  *)
WritesInRange ==
  \A a \in DOMAIN mem : \E k \in DOMAIN argv : MayWrite(argv[k]) /\ a \in Cells(argv[k])

(* A dump prints what the memory holds, and that after every write of the  *)
(* commands before it.                                                     *)
DumpShowsMemory ==
  [][shown' # shown =>
       LET row == shown'[Len(shown')]
       IN to_port = <<>> /\ row.data = MemAt(row.addr)]_linkVars
=============================================================================
