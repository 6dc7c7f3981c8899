------------------------------ MODULE SimDebug ------------------------------
(***************************************************************************)
(* The debugger of the RTL simulation (sw/tools/simdebug).  The thread of  *)
(* the Verilog simulator calls debug-pli.c at every clock edge, reads the  *)
(* design out into the views and waits on a condition variable; the thread *)
(* of the GUI runs the handlers of the buttons and of the edited cells     *)
(* (debug-gui.c).                                                          *)
(*                                                                         *)
(* The two share SimSyncMode, SimCyclesLeftToRun, the breakpoint list and  *)
(* the copies of the design without a lock of their own: the condition is  *)
(* signalled without its mutex, so a signal is lost when the simulator     *)
(* does not wait yet.  The lock of GDK is held by the GUI thread while it  *)
(* builds the windows and while a handler runs, and by the simulator for   *)
(* each update of a view.                                                  *)
(*                                                                         *)
(* A patient user lets the simulator come to rest before he touches        *)
(* anything but Stop; a hasty one does some of it at any time.             *)
(***************************************************************************)
EXTENDS Integers, SequencesExt

CONSTANTS
  Regs,          \* those of RegsOfInterest that are shown
  Stages,        \* those of PipeStages that are shown
  EditedRegs,    \* registers a user edits
  LDM_SIZE,      \* words of memory shown
  Words,         \* values of a register and of a word of memory
  RegValues,     \* how many of them each edited register can hold
  WordValues,    \* and how many a word of memory
  Entered,       \* numbers a user types into a cell
  Cycles,        \* what a clock cycle leaves in the design, [reg, mem]
  RunLengths,    \* of the spin button
  LinenoFiles,   \* .lineno files: sequences of lines, each [addr, lineno]
                 \* or one that does not match the format; <<>> for none
  Lines,         \* lines of the assembly file
  Users          \* what a user does at any time: subsets of Deeds

VARIABLES
  (* The design. *)
  design, rst,
  (* The simulator thread. *)
  sim,                 \* where it is
  i, val,              \* the element read out, and its value
  left,                \* SimCyclesLeftToRun - 1, before it is written back
  Curr_p,              \* the breakpoint looked at
  (* Shared. *)
  SimSyncMode, SimCyclesLeftToRun,
  BreakPoint_List_p,   \* lines with a breakpoint
  CurrValue,           \* of the program counter
  MemoryCurr, MemoryPrev, MemoryAge,
  (* The views. *)
  reg_view, mem_view, arrow, pipe_view,
  (* The GUI thread. *)
  gui,                 \* where it is
  todo,                \* statements of the handler still to run
  addr,                \* SourceFileLines[].addr
  user, lineno_file,
  (* History: cycles of the last Run or Step, and how many were asked for; *)
  (* registers and words edited since the last clock cycle.                *)
  ran, asked, edited

simVars == <<i, val, left, Curr_p>>
syncVars == <<SimSyncMode, SimCyclesLeftToRun>>
copyVars == <<CurrValue, MemoryCurr, MemoryPrev, MemoryAge>>
viewVars == <<reg_view, mem_view, arrow, pipe_view>>
guiVars == <<gui, todo, addr, user, lineno_file>>
history == <<ran, asked, edited>>
vars == <<design, rst, sim, simVars, syncVars, BreakPoint_List_p, copyVars,
          viewVars, guiVars, history>>

(* The registers and where they stand in the view, by name and index.      *)
Scalars == <<"pc", "$retpc", "$pred", "$sp", "$satctrl", "$mulsign", "$masksel",
             "$mask0", "$mask1", "$modsel", "$mod0", "$mod1", "$bitrev", "$gpio">>
AccParts == <<"low", "high", "guard">>
RegsOfInterest ==
  [k \in 1 .. 14 |-> <<Scalars[k], -1>>] \o [k \in 1 .. 8 |-> <<"ptr", k - 1>>]
    \o [k \in 1 .. 24 |-> <<AccParts[((k - 1) % 3) + 1], (k - 1) \div 3>>]

PipeStages ==
  ({"PCU"} \X {"DEC", "EXEC"}) \cup ({"BMU", "CU 0", "CU 1"} \X {"DEC", "EXEC", "WB"})
    \cup ({"LSU 0", "LSU 1"} \X {"DEC/MEM", "WB"})

Pc == RegsOfInterest[1]
Paths == Range(Regs) \cup Stages
Memory == 0 .. LDM_SIZE - 1
SourceLines == 1 .. Lines
NoAddress == -1
AgeBound == 2       \* ages from here on are alike

Deeds == {"step", "run", "quit", "edit", "break"}
Designs == [reg : [Paths -> Words], mem : [Memory -> Words]]
Unedited == [reg |-> {}, mem |-> {}]

ASSUME SimDebugAssumption ==
  /\ Regs \in Seq(Range(RegsOfInterest)) /\ Regs # <<>> /\ Regs[1] = Pc
  /\ Stages \subseteq PipeStages /\ Stages \cap Range(Regs) = {}
  /\ Cycles \subseteq Designs /\ LDM_SIZE \in Nat \ {0} /\ Lines \in Nat
  /\ RunLengths \subseteq Nat \ {0} /\ Users \subseteq SUBSET Deeds
  /\ Entered \subseteq Int
  /\ RegValues \in [EditedRegs -> Nat \ {0}] /\ WordValues \in Nat \ {0}
  /\ 0 .. WordValues - 1 \subseteq Words
  /\ \A r \in EditedRegs : 0 .. RegValues[r] - 1 \subseteq Words
  /\ \A f \in LinenoFiles : \A j, k \in DOMAIN f :
       ("addr" \in DOMAIN f[j] /\ f[j] = f[k]) => j = k

-----------------------------------------------------------------------------
(* The GUI thread builds the windows under the lock of GDK.                *)
Alive == sim \notin {"exited", "crashed"}
HoldsGdk == gui \in {"source", "register", "memory", "quit"} \/ todo # <<>>

GuiStep(from, to) ==
  /\ Alive /\ gui = from /\ gui' = to
  /\ UNCHANGED <<design, rst, sim, simVars, syncVars, BreakPoint_List_p,
                 copyVars, reg_view, mem_view, arrow, todo, user, lineno_file, history>>

(* The label of a stage before the first readout.                          *)
FunctionalUnitPipelineWidget(p) == "DEADBEEF"
ControlWindow ==
  /\ GuiStep("start", "source")
  /\ pipe_view' = [p \in Stages |-> FunctionalUnitPipelineWidget(p)]
  /\ UNCHANGED addr

(* Source_Init: the .lineno file, if one is given, is read with one        *)
(* format.  Text that does not match it is read for ever: the end of the   *)
(* file is never reached, and the lock never released.                     *)
Matches(l) == "addr" \in DOMAIN l
Readable(file) == \A k \in DOMAIN file : Matches(file[k])
AddrOfLine(file, n) ==
  LET found == SelectSeq(file, LAMBDA l : l.lineno = n)
  IN IF found = <<>> THEN NoAddress ELSE Last(found).addr
Source_Init ==
  /\ Readable(lineno_file)
  /\ GuiStep("source", "register") /\ UNCHANGED pipe_view
  /\ addr' = [n \in SourceLines |-> AddrOfLine(lineno_file, n)]

RegisterWindow == GuiStep("register", "memory") /\ UNCHANGED <<addr, pipe_view>>
MemoryWindow == GuiStep("memory", "main") /\ UNCHANGED <<addr, pipe_view>>

-----------------------------------------------------------------------------
(* The simulator thread.                                                   *)
SimStep(from, to) ==
  /\ sim = from /\ sim' = to
  /\ UNCHANGED <<rst, BreakPoint_List_p, guiVars>>

(* StartOfSimulationCallBack starts the GUI and sleeps for a second, in    *)
(* which the GUI thread takes the lock.                                    *)
StartGUI ==
  /\ gui # "start"
  /\ SimStep("start", "init_regs")
  /\ UNCHANGED <<design, simVars, syncVars, copyVars, viewVars, history>>

RegInitializeRegisters ==
  /\ ~HoldsGdk
  /\ SimStep("init_regs", "init_mem")
  /\ reg_view' = [r \in Range(Regs) |-> 0]
  /\ UNCHANGED <<design, simVars, syncVars, copyVars, mem_view, arrow, pipe_view,
                 history>>

(* A cell is drawn from the copies, in red when the word has changed.      *)
Memory_DataFunc(curr, prev) == [text |-> curr, red |-> curr # prev]

MemInitializeMemory ==
  /\ ~HoldsGdk
  /\ SimStep("init_mem", "clock")
  /\ mem_view' = [a \in Memory |-> Memory_DataFunc(MemoryCurr[a], MemoryPrev[a])]
  /\ UNCHANGED <<design, simVars, syncVars, copyVars, reg_view, arrow, pipe_view,
                 history>>

(* The design runs a clock cycle, which may leave anything in registers    *)
(* and memory.  The reset is one cycle long, and in it the callback        *)
(* returns at once.                                                        *)
Clock ==
  /\ sim = "clock"
  /\ design' \in Cycles
  /\ rst' = FALSE
  /\ sim' = IF rst THEN "clock" ELSE "count"
  /\ ran' = IF rst \/ ran > asked THEN ran ELSE ran + 1
  /\ edited' = Unedited
  /\ UNCHANGED <<simVars, syncVars, BreakPoint_List_p, copyVars, viewVars,
                 guiVars, asked>>

(* A serious error of the simulator ends it.                               *)
my_error_handler ==
  /\ SimStep("clock", "exited")
  /\ UNCHANGED <<design, simVars, syncVars, copyVars, viewVars, history>>

UpdateCycleCount ==
  /\ ~HoldsGdk
  /\ SimStep("count", "switch")
  /\ UNCHANGED <<design, simVars, syncVars, copyVars, viewVars, history>>

(* Mutant: only a step reads the design out and waits.                     *)
WaitForGUIStepOnly ==
  /\ SimStep("switch", CASE SimSyncMode = "STEP" -> "read_reg"
                         [] SimSyncMode = "RUN" -> "load"
                         [] SimSyncMode = "QUIT" -> "exited"
                         [] OTHER -> "clock")
  /\ i' = 1
  /\ UNCHANGED <<design, val, left, Curr_p, syncVars, copyVars,
                 viewVars, history>>
WaitForGUI ==
  /\ SimStep("switch", CASE SimSyncMode \in {"STOP", "STEP"} -> "read_reg"
                         [] SimSyncMode = "RUN" -> "load"
                         [] SimSyncMode = "QUIT" -> "exited")
  /\ i' = 1
  /\ UNCHANGED <<design, val, left, Curr_p, syncVars, copyVars,
                 viewVars, history>>

(* --SimCyclesLeftToRun, a load and a store; counts below zero are alike.  *)
(* Mutant: tested before it is counted down.                               *)
LoadCyclesLeftPost ==
  /\ SimStep("load", "store")
  /\ left' = SimCyclesLeftToRun
  /\ UNCHANGED <<design, i, val, Curr_p, syncVars, copyVars,
                 viewVars, history>>
LoadCyclesLeft ==
  /\ SimStep("load", "store")
  /\ left' = IF SimCyclesLeftToRun <= 0 THEN -1 ELSE SimCyclesLeftToRun - 1
  /\ UNCHANGED <<design, i, val, Curr_p, syncVars, copyVars,
                 viewVars, history>>

StoreCyclesLeft ==
  /\ SimStep("store", IF left = 0 THEN "read_reg"
                      ELSE IF BreakPoint_List_p = <<>> THEN "clock" ELSE "break")
  /\ SimCyclesLeftToRun' = left
  /\ Curr_p' = IF left = 0 \/ BreakPoint_List_p = <<>> THEN 0
               ELSE Head(BreakPoint_List_p)
  /\ left' = 0
  /\ UNCHANGED <<design, i, val, SimSyncMode, copyVars, viewVars,
                 history>>

SimReadReg(path) == design.reg[path]

(* BreakPoint_Hit walks the list; an element the GUI has freed meanwhile   *)
(* holds anything.                                                         *)
Freed == Curr_p \notin Range(BreakPoint_List_p)
LinkOf(n) == CHOOSE k \in DOMAIN BreakPoint_List_p : BreakPoint_List_p[k] = n
NextOf(n) == IF LinkOf(n) = Len(BreakPoint_List_p) THEN 0 ELSE BreakPoint_List_p[LinkOf(n) + 1]
BreakPoint_Hit ==
  /\ \/ /\ Freed /\ Curr_p' = 0
        /\ \E to \in {"crashed", "read_reg", "clock"} : SimStep("break", to)
     \/ /\ ~Freed /\ addr[Curr_p] = SimReadReg(Pc)
        /\ SimStep("break", "read_reg") /\ Curr_p' = 0
     \/ /\ ~Freed /\ addr[Curr_p] # SimReadReg(Pc)
        /\ SimStep("break", IF NextOf(Curr_p) = 0 THEN "clock" ELSE "break")
        /\ Curr_p' = NextOf(Curr_p)
  /\ UNCHANGED <<design, i, val, left, syncVars, copyVars,
                 viewVars, history>>

(* SimReadOutRegisters: each register is read and then shown.              *)
ReadReg ==
  /\ SimStep("read_reg", "show_reg")
  /\ val' = design.reg[Regs[i]]
  /\ CurrValue' = IF Regs[i] = Pc THEN design.reg[Pc] ELSE CurrValue
  /\ UNCHANGED <<design, i, left, Curr_p, syncVars, MemoryCurr, MemoryPrev,
                 MemoryAge, viewVars, history>>

RegisterGuiUpdate ==
  /\ ~HoldsGdk
  /\ SimStep("show_reg", IF i = Len(Regs) THEN "read_mem" ELSE "read_reg")
  /\ reg_view' = [reg_view EXCEPT ![Regs[i]] = val]
  /\ i' = IF i = Len(Regs) THEN 0 ELSE i + 1
  /\ val' = 0
  /\ UNCHANGED <<design, left, Curr_p, syncVars, copyVars, mem_view, arrow,
                 pipe_view, history>>

(* SimReadOutMemory: a word is read and copied, and drawn when it has      *)
(* changed, and once more to take the red away.  A cell is drawn from what *)
(* the copies hold then.                                                   *)
ReadWord ==
  /\ SimStep("read_mem", "copy_mem")
  /\ val' = design.mem[i]
  /\ UNCHANGED <<design, i, left, Curr_p, syncVars, copyVars,
                 viewVars, history>>

(* Mutant: the age is not reset by a change.                               *)
NewAgeNotReset == IF MemoryAge[i] = AgeBound THEN AgeBound ELSE MemoryAge[i] + 1
NewAge == IF MemoryCurr[i] # val THEN 0
          ELSE IF MemoryAge[i] = AgeBound THEN AgeBound ELSE MemoryAge[i] + 1
AfterWord == IF i = LDM_SIZE - 1 THEN "source" ELSE "read_mem"
NextWord == IF i = LDM_SIZE - 1 THEN 0 ELSE i + 1
CopyWord ==
  /\ SimStep("copy_mem", IF NewAge < 2 THEN "show_mem" ELSE AfterWord)
  /\ MemoryCurr' = [MemoryCurr EXCEPT ![i] = val]
  /\ MemoryPrev' = [MemoryPrev EXCEPT ![i] = MemoryCurr[i]]
  /\ MemoryAge' = [MemoryAge EXCEPT ![i] = NewAge]
  /\ i' = IF NewAge < 2 THEN i ELSE NextWord
  /\ val' = 0
  /\ UNCHANGED <<design, left, Curr_p, syncVars, CurrValue, viewVars, history>>

MemoryGuiUpdate ==
  /\ ~HoldsGdk
  /\ SimStep("show_mem", AfterWord)
  /\ mem_view' = [mem_view EXCEPT ![i] = Memory_DataFunc(MemoryCurr[i], MemoryPrev[i])]
  /\ i' = NextWord
  /\ UNCHANGED <<design, val, left, Curr_p, syncVars, copyVars, reg_view, arrow,
                 pipe_view, history>>

Source_DataFunc(n) == addr[n] = CurrValue

(* Every line is touched, so the arrow is drawn where the program counter  *)
(* was read out.                                                           *)
SourceGuiUpdate ==
  /\ ~HoldsGdk
  /\ SimStep("source", "pipes")
  /\ arrow' = {n \in SourceLines : Source_DataFunc(n)}
  /\ UNCHANGED <<design, simVars, syncVars, copyVars, reg_view, mem_view,
                 pipe_view, history>>

(* The pipeline view reads the stages again, under the lock.               *)
PipelineGuiUpdate ==
  /\ ~HoldsGdk
  /\ SimStep("pipes", "block")
  /\ pipe_view' = [p \in Stages |-> SimReadReg(p)]
  /\ UNCHANGED <<design, simVars, syncVars, copyVars, reg_view, mem_view, arrow,
                 history>>

(* pthread_cond_wait.                                                      *)
CondWait ==
  /\ SimStep("block", "waiting")
  /\ UNCHANGED <<design, simVars, syncVars, copyVars, viewVars, history>>

-----------------------------------------------------------------------------
(* The user.                                                               *)
MayClick == Alive /\ gui = "main" /\ todo = <<>>
MayAct(deed) == MayClick /\ (sim = "waiting" \/ deed \in user)

Mode(m) == [op |-> "mode", mode |-> m]
CyclesLeft(n) == [op |-> "left", left |-> n]
Signal == [op |-> "signal"]

Handler(statements) ==
  /\ todo' = statements
  /\ UNCHANGED <<design, rst, sim, simVars, syncVars, BreakPoint_List_p,
                 copyVars, viewVars, addr, user, lineno_file>>

StepButtonCallBack ==
  /\ MayAct("step")
  /\ Handler(<<Mode("STEP"), Signal>>)
  /\ ran' = 0 /\ asked' = 1
  /\ UNCHANGED <<gui, edited>>

StopButtonCallBack ==
  /\ MayClick
  /\ Handler(<<Mode("STOP")>>)
  /\ UNCHANGED <<gui, history>>

(* Run, with 0, and Run for.                                               *)
RunButtonCallBack ==
  /\ MayAct("run")
  /\ \E n \in RunLengths \cup {0} :
       /\ Handler(<<CyclesLeft(n), Mode("RUN"), Signal>>)
       /\ ran' = 0 /\ asked' = n
  /\ UNCHANGED <<gui, edited>>

(* gtk_main returns.                                                       *)
(* Mutant: the simulator is not woken.                                     *)
PreQuitCallBackSilent ==
  /\ MayAct("quit")
  /\ Handler(<<Mode("QUIT")>>)
  /\ gui' = "quit"
  /\ UNCHANGED history
PreQuitCallBack ==
  /\ MayAct("quit")
  /\ Handler(<<Mode("QUIT"), Signal>>)
  /\ gui' = "quit"
  /\ UNCHANGED history

Statement ==
  /\ Alive /\ todo # <<>>
  /\ todo' = Tail(todo)
  /\ SimSyncMode' = IF Head(todo).op = "mode" THEN Head(todo).mode ELSE SimSyncMode
  /\ SimCyclesLeftToRun' = IF Head(todo).op = "left" THEN Head(todo).left
                           ELSE SimCyclesLeftToRun
  /\ sim' = IF Head(todo).op = "signal" /\ sim = "waiting" THEN "clock" ELSE sim
  /\ gui' = IF gui = "quit" /\ Tail(todo) = <<>> THEN "gone" ELSE gui
  /\ UNCHANGED <<design, rst, simVars, BreakPoint_List_p, copyVars, viewVars,
                 addr, user, lineno_file, history>>

Edit ==
  /\ MayAct("edit")
  /\ UNCHANGED <<rst, sim, simVars, syncVars, BreakPoint_List_p, CurrValue,
                 MemoryPrev, MemoryAge, arrow, pipe_view, guiVars, ran, asked>>

(* vpi_put_value keeps the low bits that the register or word has; the     *)
(* views and MemoryCurr keep the whole number.                             *)
RegUpdateValueInDesign(r, v) == design' = [design EXCEPT !.reg[r] = v % RegValues[r]]
UpdateMemoryInDesign(a, v) ==
  /\ MemoryCurr' = [MemoryCurr EXCEPT ![a] = v]
  /\ design' = [design EXCEPT !.mem[a] = v % WordValues]

RegValueEdited ==
  /\ Edit
  /\ \E r \in EditedRegs \cap DOMAIN reg_view, v \in Entered :
       /\ reg_view' = [reg_view EXCEPT ![r] = v]
       /\ RegUpdateValueInDesign(r, v)
       /\ edited' = [edited EXCEPT !.reg = @ \cup {r}]
  /\ UNCHANGED <<MemoryCurr, mem_view>>

MemValueEdited ==
  /\ Edit
  /\ \E a \in DOMAIN mem_view, v \in Entered :
       /\ mem_view' = [mem_view EXCEPT ![a] = Memory_DataFunc(v, MemoryPrev[a])]
       /\ UpdateMemoryInDesign(a, v)
       /\ edited' = [edited EXCEPT !.mem = @ \cup {a}]
  /\ UNCHANGED reg_view

(* A breakpoint is set on a line with an address, or removed.              *)
Source_RowActivated ==
  /\ MayAct("break")
  /\ \E n \in SourceLines :
       IF n \in Range(BreakPoint_List_p)
       THEN BreakPoint_List_p' = RemoveAt(BreakPoint_List_p, LinkOf(n))
       ELSE /\ addr[n] # NoAddress
            /\ BreakPoint_List_p' = Append(BreakPoint_List_p, n)
  /\ UNCHANGED <<design, rst, sim, simVars, syncVars, copyVars, viewVars,
                 guiVars, history>>

-----------------------------------------------------------------------------
Init ==
  /\ design \in Cycles
  /\ rst = TRUE
  /\ sim = "start" /\ i = 0 /\ val = 0 /\ left = 0 /\ Curr_p = 0
  /\ SimSyncMode = "STEP" /\ SimCyclesLeftToRun = 0
  /\ BreakPoint_List_p = <<>>
  /\ CurrValue = 0
  /\ MemoryCurr = [a \in Memory |-> 0] /\ MemoryPrev = [a \in Memory |-> 0]
  /\ MemoryAge = [a \in Memory |-> 0]
  /\ reg_view = << >> /\ mem_view = << >> /\ arrow = {} /\ pipe_view = << >>
  /\ gui = "start" /\ todo = <<>>
  /\ addr = [n \in SourceLines |-> NoAddress]
  /\ user \in Users /\ lineno_file \in LinenoFiles
  /\ ran = 0 /\ asked = 1 /\ edited = Unedited

SimNext ==
  \/ StartGUI \/ RegInitializeRegisters \/ MemInitializeMemory
  \/ Clock \/ UpdateCycleCount \/ WaitForGUI
  \/ LoadCyclesLeft \/ StoreCyclesLeft \/ BreakPoint_Hit
  \/ ReadReg \/ RegisterGuiUpdate \/ ReadWord \/ CopyWord \/ MemoryGuiUpdate
  \/ SourceGuiUpdate \/ PipelineGuiUpdate \/ CondWait
GuiNext ==
  ControlWindow \/ Source_Init \/ RegisterWindow \/ MemoryWindow \/ Statement
UserNext ==
  \/ StepButtonCallBack \/ StopButtonCallBack \/ RunButtonCallBack
  \/ PreQuitCallBack \/ RegValueEdited \/ MemValueEdited \/ Source_RowActivated

Next == SimNext \/ my_error_handler \/ GuiNext \/ UserNext

(* Both threads are scheduled, and the simulator is not kept from the lock *)
(* by handlers that release it again and again; the user does as he likes. *)
Spec == Init /\ [][Next]_vars /\ SF_vars(SimNext) /\ WF_vars(GuiNext)

-----------------------------------------------------------------------------
(* While the simulator waits for a patient user, every view shows the      *)
(* design: registers, arrow and pipelines, and the words of memory though  *)
(* not every word is drawn again.  Only a cell edited since the last clock *)
(* cycle shows what was typed, of which the design holds the low bits; so  *)
(* a number too wide for its cell is gone after the next step, whatever    *)
(* the program does.  A word whose copy has just changed is red, and no    *)
(* longer red the next time (debug-pli.c 171-195, debug-gui.c 942-988).    *)
(* A word edited later than that may stay red.                             *)
Changed(a) == MemoryCurr[a] # MemoryPrev[a]
RegShown(r) ==
  design.reg[r] = IF r \in edited.reg THEN reg_view[r] % RegValues[r] ELSE reg_view[r]
TextShown(a) ==
  design.mem[a] = IF a \in edited.mem THEN mem_view[a].text % WordValues ELSE mem_view[a].text
ViewsShowDesign ==
  (user = {} /\ sim = "waiting") =>
    /\ \A r \in Range(Regs) : RegShown(r)
    /\ \A p \in Stages : pipe_view[p] = design.reg[p]
    /\ arrow = {n \in SourceLines : addr[n] = design.reg[Pc]}
    /\ \A a \in Memory : TextShown(a) /\ (MemoryAge[a] < 2 => mem_view[a].red = Changed(a))

(* Run for n runs n cycles, Step runs one and Run any number, but none     *)
(* runs past a breakpoint or stops for no reason.                          *)
AtBreakpoint == \E n \in Range(BreakPoint_List_p) : addr[n] = design.reg[Pc]
RunsExactly ==
  user = {} =>
    /\ (sim = "clock" /\ ~rst /\ SimSyncMode = "RUN") =>
         /\ asked = 0 \/ ran < asked
         /\ (ran > 0 => ~AtBreakpoint)
    /\ (sim = "block" /\ SimSyncMode \in {"STEP", "RUN"}) =>
         (ran = asked \/ (SimSyncMode = "RUN" /\ AtBreakpoint))

(* After Stop the simulator comes to wait, whatever the user does          *)
(* meanwhile, unless he asks for something else.                           *)
StopsWhenAsked ==
  (SimSyncMode = "STOP") ~>
    (sim \in {"waiting", "exited", "crashed"} \/ SimSyncMode # "STOP")

(* When a patient user closes a window, the simulation ends.               *)
QuitEnds == (user = {} /\ gui = "quit") ~> (sim = "exited")
=============================================================================
