--------------------------- MODULE SimDebugProofs ---------------------------
(* Proofs about the debugger of the simulation (SimDebug) and a patient user: for  *)
(* every set of registers and pipeline stages, every size of the memory, every       *)
(* program, every table of lines and every length of a run.                            *)
EXTENDS SimDebug, TLAPS

Starting == {"start", "init_regs", "init_mem"}
Deciding == {"load", "store", "break"}
PipesShown == {"block", "waiting"}
SourceShown == {"pipes"} \cup PipesShown
MemoryShown == {"source"} \cup SourceShown
ReadingMemory == {"read_mem", "copy_mem", "show_mem"}
RegistersShown == ReadingMemory \cup MemoryShown
ReadingOut == ({"read_reg", "show_reg"} \cup RegistersShown) \ {"waiting"}

(* The simulator starts behind the GUI, which takes the lock of GDK first; the table of  *)
(* lines is read by then.                                                                  *)
InOrder ==
  /\ sim \in Starting \cup {"clock", "count", "switch", "waiting", "exited", "crashed"}
               \cup Deciding \cup ReadingOut
  /\ gui \in {"start", "source", "register", "memory", "main", "quit", "gone"}
  /\ sim # "start" => gui # "start"
  /\ sim \notin {"start", "init_regs"} => gui \in {"main", "quit", "gone"}
  /\ rst => sim \in Starting \cup {"clock", "exited"}

Typed ==
  /\ design \in Designs /\ rst \in BOOLEAN
  /\ SimCyclesLeftToRun \in Int /\ left \in Int /\ ran \in Nat /\ asked \in Nat
  /\ SimSyncMode \in {"STOP", "STEP", "RUN", "QUIT"}
  /\ MemoryAge \in [Memory -> Nat]
  /\ DOMAIN MemoryCurr = Memory /\ DOMAIN MemoryPrev = Memory
  /\ sim \notin {"start", "init_regs"} => DOMAIN reg_view = Range(Regs)
  /\ sim \notin Starting => DOMAIN mem_view = Memory

(* Every line has one link at most in the list of breakpoints.                          *)
Distinct(s) == \A j, k \in DOMAIN s : s[j] = s[k] => j = k
Links == BreakPoint_List_p \in Seq(SourceLines) /\ Distinct(BreakPoint_List_p)

(* The handlers of a patient user, but that of Stop, run while the simulator waits.      *)
Begun ==
  \/ SimSyncMode = "STEP" /\ ran = 0 /\ asked = 1
  \/ SimSyncMode = "RUN" /\ ran = 0 /\ SimCyclesLeftToRun = asked
  \/ SimSyncMode = "QUIT"
Handling ==
  \/ todo = <<>>
  \/ todo = <<Mode("STOP")>>
  \/ /\ sim = "waiting"
     /\ \/ todo = <<Mode("STEP"), Signal>> /\ ran = 0 /\ asked = 1
        \/ todo = <<CyclesLeft(asked), Mode("RUN"), Signal>> /\ ran = 0
        \/ todo = <<Mode("RUN"), Signal>> /\ ran = 0 /\ SimCyclesLeftToRun = asked
        \/ todo = <<Mode("QUIT"), Signal>>
        \/ todo = <<Signal>> /\ Begun

(* What the views show while they are brought up to date.  A word that is not drawn     *)
(* again shows what its copy holds.                                                       *)
EditsKnown ==
  /\ edited = [reg |-> edited.reg, mem |-> edited.mem]
  /\ sim \notin {"waiting", "clock", "exited"} => edited = Unedited
WordShown(a) ==
  /\ MemoryCurr[a] = mem_view[a].text /\ TextShown(a)
  /\ MemoryAge[a] < 2 => mem_view[a].red = Changed(a)
RegistersRead ==
  /\ sim \in Deciding => i = 1
  /\ sim \in {"read_reg", "show_reg"} =>
       i \in 1 .. Len(Regs) /\ \A j \in 1 .. i - 1 : RegShown(Regs[j])
  /\ sim = "show_reg" => val = design.reg[Regs[i]]
  /\ \/ sim \in RegistersShown \cup {"show_reg"}
     \/ sim = "read_reg" /\ i > 1
     => CurrValue = design.reg[Pc]
  /\ sim \in RegistersShown => \A r \in Range(Regs) : RegShown(r)
WordsRead ==
  /\ sim \in ReadingMemory => i \in Memory /\ \A a \in 0 .. i - 1 : WordShown(a)
  /\ sim = "copy_mem" => val = design.mem[i]
  /\ sim = "show_mem" => MemoryCurr[i] = design.mem[i]
  /\ sim \notin Starting =>
       \A a \in Memory : mem_view[a].text = MemoryCurr[a] \/ (sim = "show_mem" /\ a = i)
  /\ sim \in MemoryShown => \A a \in Memory : WordShown(a)
OthersRead ==
  /\ sim \in SourceShown => arrow = {n \in SourceLines : addr[n] = design.reg[Pc]}
  /\ sim \in PipesShown => \A p \in Stages : pipe_view[p] = design.reg[p]
ReadOut == EditsKnown /\ RegistersRead /\ WordsRead /\ OthersRead

(* How many cycles are left and how many have run.                                        *)
Counted(n) ==
  IF asked = 0 THEN SimCyclesLeftToRun <= 0
  ELSE SimCyclesLeftToRun > 0 /\ SimCyclesLeftToRun = asked - n
(* BreakPoint_Hit has passed the links before Curr_p.                                     *)
Walking ==
  \E k \in DOMAIN BreakPoint_List_p :
    /\ Curr_p = BreakPoint_List_p[k]
    /\ \A j \in 1 .. k - 1 : addr[BreakPoint_List_p[j]] # design.reg[Pc]
Stepping ==
  SimSyncMode = "STEP" =>
    /\ sim \notin Deciding
    /\ sim \in Starting \cup {"clock"} => ran = 0 /\ asked = 1
    /\ sim \in {"count", "switch"} \cup ReadingOut => ran = 1 /\ asked = 1
Running ==
  SimSyncMode = "RUN" =>
    /\ sim \notin Starting
    /\ sim = "clock" => ~rst /\ Counted(ran) /\ (ran > 0 => ~AtBreakpoint)
    /\ sim \in {"count", "switch", "load"} => ran > 0 /\ Counted(ran - 1)
    /\ sim = "store" => /\ ran > 0
                        /\ IF asked = 0 THEN left = -1 ELSE left >= 0 /\ left = asked - ran
    /\ sim = "break" => ran > 0 /\ Counted(ran)
    /\ sim \in ReadingOut => ran = asked \/ AtBreakpoint

(* For a patient user, what the simulator has run and what it has shown.                  *)
CountInv ==
  user = {} =>
    /\ InOrder /\ Typed /\ Links /\ Handling
    /\ sim = "break" => Walking
    /\ Stepping /\ Running
ViewInv == user = {} => InOrder /\ Typed /\ Handling /\ ReadOut

-----------------------------------------------------------------------------
(* Types and order, for every user.                                              *)

LEMMA InOrderStep ==
  ASSUME InOrder, Typed, Next
  PROVE  InOrder'
<1>. USE DEF InOrder, Starting, Deciding, ReadingOut, RegistersShown, ReadingMemory, MemoryShown,
         SourceShown, PipesShown
<1>1. CASE SimNext
  <2>1. CASE StartGUI \/ RegInitializeRegisters \/ MemInitializeMemory
    BY <2>1 DEF StartGUI, RegInitializeRegisters, MemInitializeMemory, SimStep, guiVars, HoldsGdk
  <2>2. CASE Clock
    BY <2>2 DEF Clock, guiVars
  <2>3. CASE UpdateCycleCount \/ WaitForGUI
    BY <2>3 DEF UpdateCycleCount, WaitForGUI, SimStep, guiVars, Typed
  <2>4. CASE LoadCyclesLeft \/ StoreCyclesLeft \/ BreakPoint_Hit
    BY <2>4 DEF LoadCyclesLeft, StoreCyclesLeft, BreakPoint_Hit, SimStep, guiVars
  <2>5. CASE ReadReg \/ RegisterGuiUpdate
    BY <2>5 DEF ReadReg, RegisterGuiUpdate, SimStep, guiVars
  <2>6. CASE ReadWord \/ CopyWord \/ MemoryGuiUpdate
    BY <2>6 DEF ReadWord, CopyWord, AfterWord, MemoryGuiUpdate, SimStep, guiVars
  <2>7. CASE SourceGuiUpdate \/ PipelineGuiUpdate \/ CondWait
    BY <2>7 DEF SourceGuiUpdate, PipelineGuiUpdate, CondWait, SimStep, guiVars
  <2>. QED
    BY <1>1, <2>1, <2>2, <2>3, <2>4, <2>5, <2>6, <2>7 DEF SimNext
<1>2. CASE my_error_handler
  BY <1>2 DEF my_error_handler, SimStep, guiVars
<1>3. CASE GuiNext
  <2>1. CASE ControlWindow \/ Source_Init \/ RegisterWindow \/ MemoryWindow
    BY <2>1 DEF ControlWindow, Source_Init, RegisterWindow, MemoryWindow, GuiStep
  <2>2. CASE Statement
    BY <2>2 DEF Statement
  <2>. QED
    BY <1>3, <2>1, <2>2 DEF GuiNext
<1>4. CASE UserNext
  BY <1>4 DEF UserNext, StepButtonCallBack, StopButtonCallBack, RunButtonCallBack, PreQuitCallBack,
     RegValueEdited, MemValueEdited, Source_RowActivated, Handler, Edit, MayAct, MayClick, guiVars
<1>. QED
  BY <1>1, <1>2, <1>3, <1>4 DEF Next

(* What is left of a number in a cell is a value of the cell.                            *)
LEMMA RegKeeps == \A r \in EditedRegs, v \in Entered : v % RegValues[r] \in Words
<1>. SUFFICES ASSUME NEW r \in EditedRegs, NEW v \in Entered PROVE v % RegValues[r] \in Words
  OBVIOUS
<1>1. v \in Int /\ RegValues[r] \in Nat \ {0} /\ 0 .. RegValues[r] - 1 \subseteq Words
  BY SimDebugAssumption
<1>. QED
  BY <1>1

LEMMA WordKeeps == \A v \in Entered : v % WordValues \in Words
<1>. SUFFICES ASSUME NEW v \in Entered PROVE v % WordValues \in Words
  OBVIOUS
<1>1. v \in Int /\ WordValues \in Nat \ {0} /\ 0 .. WordValues - 1 \subseteq Words
  BY SimDebugAssumption
<1>. QED
  BY <1>1

LEMMA TypedStep ==
  ASSUME InOrder, Typed, Handling, Next
  PROVE  Typed'
<1>. USE DEF Typed, Starting
<1>1. CASE SimNext
  <2>. USE DEF simVars, syncVars, copyVars, viewVars, guiVars, history, SimStep
  <2>1. CASE StartGUI
    BY <2>1 DEF StartGUI
  <2>2. CASE RegInitializeRegisters
    BY <2>2 DEF RegInitializeRegisters
  <2>3. CASE MemInitializeMemory
    BY <2>3 DEF MemInitializeMemory
  <2>4. CASE Clock
    <3>1. design' \in Designs
      <4>1. Cycles \subseteq Designs
        BY SimDebugAssumption
      <4>. QED
        BY <2>4, <4>1 DEF Clock
    <3>2. /\ rst' = FALSE /\ sim = "clock" /\ sim' \in {"clock", "count"}
          /\ UNCHANGED <<simVars, syncVars, copyVars, viewVars, asked>>
      BY <2>4 DEF Clock
    <3>3. ran' \in Nat
      BY <2>4 DEF Clock
    <3>. QED
      BY <3>1, <3>2, <3>3
  <2>5. CASE UpdateCycleCount \/ WaitForGUI
    BY <2>5 DEF UpdateCycleCount, WaitForGUI
  <2>6. CASE LoadCyclesLeft
    BY <2>6 DEF LoadCyclesLeft
  <2>7. CASE StoreCyclesLeft
    BY <2>7 DEF StoreCyclesLeft
  <2>8. CASE BreakPoint_Hit
    BY <2>8 DEF BreakPoint_Hit
  <2>9. CASE ReadReg \/ RegisterGuiUpdate
    BY <2>9 DEF ReadReg, RegisterGuiUpdate
  <2>10. CASE ReadWord
    BY <2>10 DEF ReadWord
  <2>11. CASE CopyWord
    <3>1. i \in Memory => NewAge \in Nat
      BY DEF NewAge, AgeBound
    <3>2. MemoryAge' \in [Memory -> Nat]
      BY <2>11, <3>1 DEF CopyWord
    <3>. QED
      BY <2>11, <3>2 DEF CopyWord, AfterWord
  <2>12. CASE MemoryGuiUpdate
    BY <2>12 DEF MemoryGuiUpdate, AfterWord
  <2>13. CASE SourceGuiUpdate \/ PipelineGuiUpdate \/ CondWait
    BY <2>13 DEF SourceGuiUpdate, PipelineGuiUpdate, CondWait
  <2>. QED
    BY <1>1, <2>1, <2>2, <2>3, <2>4, <2>5, <2>6, <2>7, <2>8, <2>9, <2>10, <2>11, <2>12, <2>13
    DEF SimNext
<1>2. CASE my_error_handler
  BY <1>2 DEF my_error_handler, SimStep, simVars, syncVars, copyVars, viewVars, history
<1>3. CASE GuiNext
  <2>1. CASE ControlWindow \/ Source_Init \/ RegisterWindow \/ MemoryWindow
    BY <2>1 DEF ControlWindow, Source_Init, RegisterWindow, MemoryWindow, GuiStep, simVars, syncVars,
                copyVars, history
  <2>2. CASE Statement
    BY <2>2 DEF Statement, Handling, Mode, CyclesLeft, Signal, simVars, copyVars, viewVars, history
  <2>. QED
    BY <1>3, <2>1, <2>2 DEF GuiNext
<1>4. CASE UserNext
  <2>. USE DEF simVars, syncVars, copyVars, viewVars, guiVars, history
  <2>1. CASE StepButtonCallBack \/ StopButtonCallBack \/ PreQuitCallBack
    BY <2>1 DEF StepButtonCallBack, StopButtonCallBack, PreQuitCallBack, Handler
  <2>2. CASE RunButtonCallBack
    <3>1. RunLengths \subseteq Nat
      BY SimDebugAssumption
    <3>. QED
      <4>1. \E n \in Nat : ran' = 0 /\ asked' = n
        BY <2>2, <3>1 DEF RunButtonCallBack
      <4>2. UNCHANGED <<design, rst, sim, left, syncVars, copyVars, viewVars>>
        BY <2>2 DEF RunButtonCallBack, Handler
      <4>. QED
        BY <4>1, <4>2
  <2>3. CASE RegValueEdited
    <3>1. PICK r \in EditedRegs \cap DOMAIN reg_view, v \in Entered :
            reg_view' = [reg_view EXCEPT ![r] = v] /\ design' = [design EXCEPT !.reg[r] = v % RegValues[r]]
      BY <2>3 DEF RegValueEdited, RegUpdateValueInDesign
    <3>2. v % RegValues[r] \in Words
      BY <3>1, RegKeeps
    <3>3. design' \in Designs
      BY <3>1, <3>2 DEF Designs
    <3>. QED
      BY <2>3, <3>1, <3>3 DEF RegValueEdited, Edit
  <2>4. CASE MemValueEdited
    <3>1. PICK a \in DOMAIN mem_view, v \in Entered :
            /\ mem_view' = [mem_view EXCEPT ![a] = Memory_DataFunc(v, MemoryPrev[a])]
            /\ MemoryCurr' = [MemoryCurr EXCEPT ![a] = v]
            /\ design' = [design EXCEPT !.mem[a] = v % WordValues]
      BY <2>4 DEF MemValueEdited, UpdateMemoryInDesign
    <3>2. v % WordValues \in Words
      BY <3>1, WordKeeps
    <3>3. design' \in Designs
      BY <3>1, <3>2 DEF Designs
    <3>. QED
      BY <2>4, <3>1, <3>3 DEF MemValueEdited, Edit
  <2>5. CASE Source_RowActivated
    BY <2>5 DEF Source_RowActivated
  <2>. QED
    BY <1>4, <2>1, <2>2, <2>3, <2>4, <2>5 DEF UserNext
<1>. QED
  BY <1>1, <1>2, <1>3, <1>4 DEF Next

-----------------------------------------------------------------------------
(* What the handlers of a patient user leave alone.                              *)

LEMMA SimThread ==
  ASSUME SimNext \/ my_error_handler
  PROVE  /\ sim # "waiting" /\ UNCHANGED <<BreakPoint_List_p, guiVars>>
         /\ sim # "clock" => UNCHANGED <<design, rst, ran>>
         /\ UNCHANGED <<SimSyncMode, asked>>
<1>. USE DEF SimStep, syncVars, history
<1>1. CASE StartGUI \/ RegInitializeRegisters \/ MemInitializeMemory
  BY <1>1 DEF StartGUI, RegInitializeRegisters, MemInitializeMemory
<1>2. CASE Clock \/ my_error_handler
  BY <1>2 DEF Clock, my_error_handler
<1>3. CASE UpdateCycleCount \/ WaitForGUI
  BY <1>3 DEF UpdateCycleCount, WaitForGUI
<1>4. CASE LoadCyclesLeft \/ StoreCyclesLeft
  BY <1>4 DEF LoadCyclesLeft, StoreCyclesLeft
<1>5. CASE BreakPoint_Hit
  BY <1>5 DEF BreakPoint_Hit
<1>6. CASE ReadReg \/ RegisterGuiUpdate
  BY <1>6 DEF ReadReg, RegisterGuiUpdate
<1>7. CASE ReadWord \/ CopyWord \/ MemoryGuiUpdate
  BY <1>7 DEF ReadWord, CopyWord, MemoryGuiUpdate
<1>8. CASE SourceGuiUpdate \/ PipelineGuiUpdate \/ CondWait
  BY <1>8 DEF SourceGuiUpdate, PipelineGuiUpdate, CondWait
<1>. QED
  BY <1>1, <1>2, <1>3, <1>4, <1>5, <1>6, <1>7, <1>8 DEF SimNext

(* A handler is at Stop, or the simulator waits while it runs and goes on with its last  *)
(* statement.                                                                              *)
LEMMA Statements ==
  ASSUME Handling, Statement
  PROVE  \/ /\ todo' = <<>> /\ sim' = sim
            /\ SimSyncMode' = "STOP" /\ UNCHANGED <<SimCyclesLeftToRun, history>>
         \/ /\ sim = "waiting" /\ sim' = "waiting" /\ Handling' /\ UNCHANGED history
         \/ /\ sim = "waiting" /\ sim' = "clock" /\ todo' = <<>> /\ Begun
            /\ UNCHANGED <<syncVars, history>>
<1>. USE DEF Statement, Mode, CyclesLeft, Signal
<1>1. CASE todo = <<Mode("STOP")>>
  BY <1>1
<1>2. CASE sim = "waiting" /\ todo = <<Mode("STEP"), Signal>> /\ ran = 0 /\ asked = 1
  BY <1>2 DEF Handling, Begun, history
<1>3. CASE sim = "waiting" /\ todo = <<CyclesLeft(asked), Mode("RUN"), Signal>> /\ ran = 0
  BY <1>3 DEF Handling, history
<1>4. CASE sim = "waiting" /\ todo = <<Mode("RUN"), Signal>> /\ ran = 0 /\ SimCyclesLeftToRun = asked
  BY <1>4 DEF Handling, Begun, history
<1>5. CASE sim = "waiting" /\ todo = <<Mode("QUIT"), Signal>>
  BY <1>5 DEF Handling, Begun, history
<1>6. CASE sim = "waiting" /\ todo = <<Signal>> /\ Begun
  BY <1>6 DEF syncVars
<1>. QED
  BY <1>1, <1>2, <1>3, <1>4, <1>5, <1>6 DEF Handling

LEMMA HandlingStep ==
  ASSUME user = {}, Handling, Next
  PROVE  Handling'
<1>1. CASE SimNext \/ my_error_handler
  BY <1>1, SimThread DEF Handling, guiVars
<1>2. CASE GuiNext /\ ~Statement
  BY <1>2 DEF GuiNext, ControlWindow, Source_Init, RegisterWindow, MemoryWindow, GuiStep, Handling,
     Begun, history, syncVars
<1>3. CASE Statement
  BY <1>3, Statements DEF Handling
<1>4. CASE StepButtonCallBack
  BY <1>4 DEF StepButtonCallBack, Handler, MayAct, Handling
<1>5. CASE StopButtonCallBack
  BY <1>5 DEF StopButtonCallBack, Handler, Handling
<1>6. CASE RunButtonCallBack
  BY <1>6 DEF RunButtonCallBack, Handler, MayAct, Handling
<1>7. CASE PreQuitCallBack
  BY <1>7 DEF PreQuitCallBack, Handler, MayAct, Handling
<1>8. CASE RegValueEdited \/ MemValueEdited \/ Source_RowActivated
  BY <1>8 DEF RegValueEdited, MemValueEdited, Source_RowActivated, Edit, Handling, MayAct, MayClick, guiVars
<1>. QED
  BY <1>1, <1>2, <1>3, <1>4, <1>5, <1>6, <1>7, <1>8 DEF Next, GuiNext, UserNext

LEMMA LinkRemoved ==
  ASSUME NEW S, NEW s \in Seq(S), Distinct(s), NEW k \in DOMAIN s
  PROVE  RemoveAt(s, k) \in Seq(S) /\ Distinct(RemoveAt(s, k))
<1>. DEFINE t == RemoveAt(s, k)
<1>1. /\ t \in Seq(S) /\ Len(t) = Len(s) - 1
      /\ \A j \in 1 .. Len(t) : t[j] = IF j < k THEN s[j] ELSE s[j + 1]
  <2>. DEFINE u == SubSeq(s, 1, k - 1)
              v == SubSeq(s, k + 1, Len(s))
  <2>1. /\ u \in Seq(S) /\ Len(u) = k - 1 /\ \A j \in 1 .. k - 1 : u[j] = s[j]
    OBVIOUS
  <2>2. /\ v \in Seq(S) /\ Len(v) = Len(s) - k /\ \A j \in 1 .. Len(s) - k : v[j] = s[k + j]
    OBVIOUS
  <2>3. t = u \o v
    BY DEF RemoveAt
  <2>. HIDE DEF u, v, t
  <2>. QED
    BY <2>1, <2>2, <2>3
<1>. HIDE DEF t
<1>2. Distinct(t)
  <2>. SUFFICES ASSUME NEW x \in DOMAIN t, NEW y \in DOMAIN t, t[x] = t[y]
                PROVE  x = y
    BY DEF Distinct
  <2>. DEFINE from(n) == IF n < k THEN n ELSE n + 1
  <2>1. x \in 1 .. Len(t) /\ y \in 1 .. Len(t) /\ Len(s) \in Nat /\ k \in 1 .. Len(s)
    BY <1>1
  <2>2. t[x] = s[from(x)] /\ t[y] = s[from(y)]
    BY <1>1, <2>1
  <2>3. from(x) \in DOMAIN s /\ from(y) \in DOMAIN s
    BY <1>1, <2>1
  <2>4. from(x) = from(y)
    <3>. HIDE DEF from
    <3>. QED
      BY <2>2, <2>3, Zenon DEF Distinct
  <2>. QED
    BY <2>1, <2>4
<1>. QED
  BY <1>1, <1>2 DEF t

LEMMA LinksStep ==
  ASSUME Links, Next
  PROVE  Links'
<1>1. CASE Source_RowActivated
  <2>1. PICK n \in SourceLines :
          IF n \in Range(BreakPoint_List_p)
          THEN BreakPoint_List_p' = RemoveAt(BreakPoint_List_p, LinkOf(n))
          ELSE BreakPoint_List_p' = Append(BreakPoint_List_p, n)
    BY <1>1 DEF Source_RowActivated
  <2>2. CASE n \in Range(BreakPoint_List_p)
    <3>1. LinkOf(n) \in DOMAIN BreakPoint_List_p
      BY <2>2 DEF LinkOf, Range
    <3>. QED
      BY <2>1, <2>2, <3>1, LinkRemoved DEF Links
  <2>3. CASE n \notin Range(BreakPoint_List_p)
    <3>1. \A j \in DOMAIN BreakPoint_List_p : BreakPoint_List_p[j] # n
      BY <2>3 DEF Range
    <3>. QED
      BY <2>1, <2>3, <3>1 DEF Links, Distinct
  <2>. QED
    BY <2>2, <2>3
<1>2. CASE ~Source_RowActivated
  <2>1. BreakPoint_List_p' = BreakPoint_List_p
    <3>1. CASE SimNext \/ my_error_handler
      BY <3>1, SimThread
    <3>2. CASE GuiNext
      BY <3>2 DEF GuiNext, ControlWindow, Source_Init, RegisterWindow, MemoryWindow, GuiStep, Statement
    <3>3. CASE UserNext
      BY <1>2, <3>3 DEF UserNext, StepButtonCallBack, StopButtonCallBack, RunButtonCallBack,
         PreQuitCallBack, RegValueEdited, MemValueEdited, Handler, Edit
    <3>. QED
      BY <3>1, <3>2, <3>3 DEF Next
  <2>. QED
    BY <2>1 DEF Links
<1>. QED
  BY <1>1, <1>2

-----------------------------------------------------------------------------
(* Reading the design out.                                                       *)

LEMMA Shown ==
  /\ Len(Regs) \in Nat \ {0} /\ Regs[1] = Pc
  /\ Range(Regs) = {Regs[j] : j \in 1 .. Len(Regs)}
  /\ Stages \cap Range(Regs) = {}
  /\ LDM_SIZE \in Nat \ {0} /\ Memory = 0 .. LDM_SIZE - 1
BY SimDebugAssumption DEF Range, Memory

(* The edits belong to the stop in which they were made.                                 *)
LEMMA EditsStep ==
  ASSUME ReadOut, SimNext \/ my_error_handler
  PROVE  EditsKnown'
<1>1. edited = [reg |-> edited.reg, mem |-> edited.mem]
      /\ (sim \notin {"waiting", "clock", "exited"} => edited = Unedited)
  BY DEF ReadOut, EditsKnown
<1>. USE DEF SimStep, history
<1>2. CASE Clock
  BY <1>2 DEF Clock, EditsKnown, Unedited
<1>3. CASE my_error_handler
  BY <1>1, <1>3 DEF my_error_handler, EditsKnown
<1>4. CASE SimNext /\ ~Clock
  <2>1. edited' = edited /\ sim \notin {"waiting", "clock", "exited"}
    BY <1>4 DEF SimNext, StartGUI, RegInitializeRegisters, MemInitializeMemory, UpdateCycleCount, WaitForGUI,
       LoadCyclesLeft, StoreCyclesLeft, BreakPoint_Hit, ReadReg, RegisterGuiUpdate, ReadWord, CopyWord,
       MemoryGuiUpdate, SourceGuiUpdate, PipelineGuiUpdate, CondWait
  <2>. QED
    BY <1>1, <2>1 DEF EditsKnown, Unedited
<1>. QED
  BY <1>2, <1>3, <1>4

(* Nothing is edited while the simulator reads out: the views are then the design.        *)
LEMMA Unmixed ==
  ASSUME ReadOut, SimNext, sim # "clock"
  PROVE  /\ edited.reg = {} /\ edited.mem = {}
         /\ edited'.reg = {} /\ edited'.mem = {}
<1>1. edited' = edited /\ sim \notin {"waiting", "clock", "exited"}
  BY DEF SimNext, StartGUI, RegInitializeRegisters, MemInitializeMemory, Clock, UpdateCycleCount,
     WaitForGUI, LoadCyclesLeft, StoreCyclesLeft, BreakPoint_Hit, ReadReg, RegisterGuiUpdate, ReadWord,
     CopyWord, MemoryGuiUpdate, SourceGuiUpdate, PipelineGuiUpdate, CondWait, SimStep, history
<1>2. edited = Unedited
  BY <1>1 DEF ReadOut, EditsKnown
<1>. QED
  BY <1>1, <1>2 DEF Unedited

LEMMA ReadSteps ==
  ASSUME user = {}, InOrder, Typed, ReadOut, SimNext
  PROVE  RegistersRead' /\ WordsRead' /\ OthersRead'
<1>. USE DEF SimStep, Starting, Deciding, ReadingMemory, RegistersShown, MemoryShown,
         SourceShown, PipesShown
<1>. USE DEF simVars, syncVars, copyVars, viewVars, guiVars
<1>0. sim # "clock" => /\ edited.reg = {} /\ edited.mem = {}
                      /\ edited'.reg = {} /\ edited'.mem = {}
  BY Unmixed
<1>. USE <1>0 DEF RegShown, TextShown
<1>1. CASE StartGUI \/ RegInitializeRegisters
  BY <1>1 DEF StartGUI, RegInitializeRegisters, ReadOut, RegistersRead, WordsRead, OthersRead
<1>2. CASE MemInitializeMemory
  BY <1>2 DEF MemInitializeMemory, Memory_DataFunc, ReadOut, RegistersRead, WordsRead, OthersRead
<1>3. CASE Clock
  <2>1. sim = "clock" /\ sim' \in {"clock", "count"} /\ UNCHANGED <<MemoryCurr, mem_view>>
    BY <1>3 DEF Clock
  <2>. QED
    BY <2>1 DEF ReadOut, RegistersRead, WordsRead, OthersRead
<1>4. CASE UpdateCycleCount
  BY <1>4 DEF UpdateCycleCount, ReadOut, RegistersRead, WordsRead, OthersRead
<1>5. CASE WaitForGUI
  BY <1>5, Shown DEF WaitForGUI, Typed, ReadOut, RegistersRead, WordsRead, OthersRead
<1>6. CASE LoadCyclesLeft \/ StoreCyclesLeft
  BY <1>6, Shown DEF LoadCyclesLeft, StoreCyclesLeft, ReadOut, RegistersRead, WordsRead, OthersRead
<1>7. CASE BreakPoint_Hit
  BY <1>7, Shown DEF BreakPoint_Hit, ReadOut, RegistersRead, WordsRead, OthersRead
<1>8. CASE ReadReg
  <2>1. WordsRead' /\ OthersRead'
    BY <1>8 DEF ReadReg, ReadOut, WordsRead, OthersRead
  <2>2. RegistersRead'
    BY <1>8, Shown DEF ReadReg, ReadOut, RegistersRead
  <2>. QED
    BY <2>1, <2>2 DEF ReadOut
<1>9. CASE RegisterGuiUpdate
  <2>1. WordsRead' /\ OthersRead'
    BY <1>9, Shown DEF RegisterGuiUpdate, ReadOut, WordsRead, OthersRead
  <2>2. ASSUME NEW j \in 1 .. i PROVE RegShown(Regs[j])'
    <3>1. /\ i \in 1 .. Len(Regs) /\ val = design.reg[Regs[i]] /\ design' = design
          /\ sim # "clock"
      BY <1>9 DEF RegisterGuiUpdate, ReadOut, RegistersRead
    <3>2. Regs[j] \in DOMAIN reg_view
      BY <1>9, <3>1, Shown DEF RegisterGuiUpdate, Typed
    <3>3. reg_view'[Regs[j]] = IF Regs[j] = Regs[i] THEN val ELSE reg_view[Regs[j]]
      BY <1>9, <3>2 DEF RegisterGuiUpdate
    <3>4. j # i => reg_view[Regs[j]] = design.reg[Regs[j]]
      BY <1>9, <3>1 DEF RegisterGuiUpdate, ReadOut, RegistersRead
    <3>. QED
      BY <3>1, <3>3, <3>4 DEF RegShown
  <2>3. RegistersRead'
    BY <1>9, <2>2, Shown DEF RegisterGuiUpdate, ReadOut, RegistersRead
  <2>. QED
    BY <2>1, <2>3 DEF ReadOut
<1>10. CASE ReadWord
  BY <1>10, Shown DEF ReadWord, ReadOut, RegistersRead, WordsRead, OthersRead, WordShown, Changed
<1>11. CASE CopyWord
  <2>1. RegistersRead' /\ OthersRead'
    BY <1>11 DEF CopyWord, AfterWord, ReadOut, RegistersRead, OthersRead
  <2>2. i \in Memory /\ val = design.mem[i] /\ \A a \in 0 .. i - 1 : WordShown(a)
    BY <1>11 DEF CopyWord, ReadOut, WordsRead
  <2>3. \A a \in 0 .. i - 1 : WordShown(a)'
    BY <1>11, <2>2 DEF CopyWord, WordShown, Changed, Typed
  <2>4. WordsRead'
    <3>1. CASE NewAge < 2
      BY <1>11, <2>2, <2>3, <3>1 DEF CopyWord, ReadOut, WordsRead, Typed
    <3>2. CASE ~(NewAge < 2)
      <4>1. \A a \in Memory : MemoryCurr'[a] = MemoryCurr[a]
        BY <1>11, <3>2 DEF CopyWord, NewAge, Typed
      <4>. QED
        BY <1>11, <2>2, <2>3, <3>2, <4>1, Shown
        DEF CopyWord, ReadOut, WordsRead, Typed, AfterWord, NextWord, WordShown
    <3>. QED
      BY <3>1, <3>2
  <2>. QED
    BY <2>1, <2>4 DEF ReadOut
<1>12. CASE MemoryGuiUpdate
  <2>1. RegistersRead' /\ OthersRead'
    BY <1>12 DEF MemoryGuiUpdate, AfterWord, ReadOut, RegistersRead, OthersRead
  <2>2. ASSUME NEW a \in 0 .. i PROVE WordShown(a)'
    <3>1. /\ i \in Memory /\ MemoryCurr[i] = design.mem[i] /\ a \in DOMAIN mem_view
          /\ a # i => WordShown(a)
          /\ sim # "clock" /\ UNCHANGED <<design, MemoryCurr, MemoryPrev, MemoryAge>>
      BY <1>12, Shown DEF MemoryGuiUpdate, ReadOut, WordsRead, Typed
    <3>2. mem_view'[a] = IF a = i THEN Memory_DataFunc(MemoryCurr[i], MemoryPrev[i]) ELSE mem_view[a]
      BY <1>12, <3>1 DEF MemoryGuiUpdate
    <3>. QED
      BY <3>1, <3>2 DEF WordShown, Changed, Memory_DataFunc
  <2>3. /\ MemoryCurr' = MemoryCurr /\ sim = "show_mem" /\ i \in Memory /\ WordsRead
        /\ sim' = AfterWord /\ i' = NextWord
        /\ \A a \in Memory : a # i => mem_view'[a] = mem_view[a]
    BY <1>12 DEF MemoryGuiUpdate, ReadOut, WordsRead, Typed
  <2>4. mem_view'[i].text = MemoryCurr[i]
    BY <1>12, <2>3, Shown DEF MemoryGuiUpdate, Memory_DataFunc, Typed
  <2>5. \A a \in Memory : mem_view'[a].text = MemoryCurr'[a]
    BY <2>3, <2>4 DEF WordsRead
  <2>6. WordsRead'
    BY <2>2, <2>3, <2>5, Shown DEF AfterWord, NextWord, WordsRead
  <2>. QED
    BY <2>1, <2>6 DEF ReadOut
<1>13. CASE SourceGuiUpdate
  BY <1>13 DEF SourceGuiUpdate, Source_DataFunc, ReadOut, RegistersRead, WordsRead, OthersRead,
     WordShown, Changed
<1>14. CASE PipelineGuiUpdate \/ CondWait
  BY <1>14 DEF PipelineGuiUpdate, CondWait, SimReadReg, ReadOut, RegistersRead, WordsRead, OthersRead,
     WordShown, Changed
<1>. QED
  BY <1>1, <1>2, <1>3, <1>4, <1>5, <1>6, <1>7, <1>8, <1>9, <1>10, <1>11, <1>12, <1>13, <1>14 DEF SimNext

(* While the user edits, the simulator waits, and the cell is drawn.                      *)
LEMMA EditSteps ==
  ASSUME Pc \notin EditedRegs, user = {}, Typed, ReadOut, RegValueEdited \/ MemValueEdited
  PROVE  ReadOut'
<1>. USE DEF Starting, Deciding, ReadingMemory, RegistersShown, MemoryShown, SourceShown, PipesShown
<1>1. /\ sim = "waiting" /\ sim' = "waiting"
      /\ UNCHANGED <<CurrValue, MemoryPrev, MemoryAge, arrow, pipe_view, addr>>
  BY DEF RegValueEdited, MemValueEdited, Edit, MayAct, guiVars
<1>2. /\ CurrValue = design.reg[Pc] /\ arrow = {n \in SourceLines : addr[n] = design.reg[Pc]}
      /\ \A r \in Range(Regs) : RegShown(r)
      /\ \A a \in Memory : WordShown(a)
      /\ \A p \in Stages : pipe_view[p] = design.reg[p]
  BY <1>1 DEF ReadOut, RegistersRead, WordsRead, OthersRead
<1>3. DOMAIN reg_view = Range(Regs) /\ DOMAIN mem_view = Memory /\ DOMAIN MemoryCurr = Memory
  BY <1>1 DEF Typed
<1>4. DOMAIN design.reg = Paths /\ DOMAIN design.mem = Memory
  BY DEF Typed, Designs
<1>6. edited = [reg |-> edited.reg, mem |-> edited.mem]
  BY DEF ReadOut, EditsKnown
<1>7. edited' = [reg |-> edited'.reg, mem |-> edited'.mem]
  BY <1>6 DEF RegValueEdited, MemValueEdited
<1>5. /\ design'.reg[Pc] = design.reg[Pc]
      /\ \A p \in Stages : design'.reg[p] = design.reg[p]
      /\ \A r \in Range(Regs) : RegShown(r)'
      /\ \A a \in Memory : WordShown(a)'
  <2>1. CASE RegValueEdited
    <3>1. PICK r \in EditedRegs \cap Range(Regs), v \in Entered :
            /\ reg_view' = [reg_view EXCEPT ![r] = v]
            /\ design' = [design EXCEPT !.reg[r] = v % RegValues[r]]
            /\ edited' = [edited EXCEPT !.reg = @ \cup {r}]
      BY <2>1, <1>3 DEF RegValueEdited, RegUpdateValueInDesign
    <3>2. design'.reg = [design.reg EXCEPT ![r] = v % RegValues[r]] /\ design'.mem = design.mem
      BY <3>1 DEF Typed, Designs
    <3>6. edited'.reg = edited.reg \cup {r} /\ edited'.mem = edited.mem
      BY <3>1, <1>6
    <3>3. r # Pc /\ r \notin Stages
      BY <3>1, Shown
    <3>4. Range(Regs) \subseteq Paths /\ Pc \in Paths /\ Stages \subseteq Paths
      BY Shown DEF Paths
    <3>5. UNCHANGED <<MemoryCurr, mem_view>>
      BY <2>1 DEF RegValueEdited
    <3>. QED
      BY <1>1, <1>2, <1>3, <1>4, <3>1, <3>2, <3>3, <3>4, <3>5, <3>6
      DEF RegShown, WordShown, TextShown, Changed
  <2>2. CASE MemValueEdited
    <3>1. PICK a \in Memory, v \in Entered :
            /\ mem_view' = [mem_view EXCEPT ![a] = Memory_DataFunc(v, MemoryPrev[a])]
            /\ MemoryCurr' = [MemoryCurr EXCEPT ![a] = v]
            /\ design' = [design EXCEPT !.mem[a] = v % WordValues]
            /\ edited' = [edited EXCEPT !.mem = @ \cup {a}]
      BY <2>2, <1>3 DEF MemValueEdited, UpdateMemoryInDesign
    <3>2. design'.mem = [design.mem EXCEPT ![a] = v % WordValues] /\ design'.reg = design.reg
      BY <3>1 DEF Typed, Designs
    <3>4. edited'.mem = edited.mem \cup {a} /\ edited'.reg = edited.reg
      BY <3>1, <1>6
    <3>3. reg_view' = reg_view
      BY <2>2 DEF MemValueEdited
    <3>. QED
      BY <1>1, <1>2, <1>3, <1>4, <3>1, <3>2, <3>3, <3>4
      DEF RegShown, WordShown, TextShown, Changed, Memory_DataFunc
  <2>. QED
    BY <2>1, <2>2
<1>. QED
  BY <1>1, <1>2, <1>5, <1>7 DEF ReadOut, EditsKnown, RegistersRead, WordsRead, OthersRead, WordShown

LEMMA ReadOutStep ==
  ASSUME Pc \notin EditedRegs, user = {}, InOrder, Typed, Handling, ReadOut, Next
  PROVE  ReadOut'
<1>1. CASE SimNext
  BY <1>1, ReadSteps, EditsStep DEF ReadOut
<1>2. CASE RegValueEdited \/ MemValueEdited
  BY <1>2, EditSteps
<1>. USE DEF Starting, Deciding, ReadingMemory, RegistersShown, MemoryShown, SourceShown, PipesShown
<1>. USE DEF ReadOut, EditsKnown, RegistersRead, WordsRead, OthersRead
<1>3. CASE my_error_handler
  <2>1. sim' = "exited" /\ sim = "clock" /\ UNCHANGED <<MemoryCurr, mem_view>>
    BY <1>3 DEF my_error_handler, SimStep, copyVars, viewVars
  <2>2. EditsKnown'
    BY <1>3, EditsStep
  <2>. QED
    BY <2>1, <2>2
<1>4. CASE ControlWindow \/ Source_Init \/ RegisterWindow \/ MemoryWindow
  <2>1. sim \in {"start", "init_regs"} \/ UNCHANGED <<addr, pipe_view>>
    BY <1>4 DEF InOrder, ControlWindow, Source_Init, RegisterWindow, MemoryWindow, GuiStep
  <2>2. UNCHANGED <<design, sim, simVars, copyVars, reg_view, mem_view, arrow, edited>>
    BY <1>4 DEF ControlWindow, Source_Init, RegisterWindow, MemoryWindow, GuiStep, history
  <2>3. CASE sim \in {"start", "init_regs"}
    BY <2>2, <2>3
  <2>4. CASE UNCHANGED <<addr, pipe_view>>
    BY <2>2, <2>4 DEF simVars, copyVars, RegShown, WordShown, TextShown, Changed
  <2>. QED
    BY <2>1, <2>3, <2>4
<1>5. CASE Statement
  <2>1. UNCHANGED <<design, simVars, copyVars, viewVars, addr, edited>>
    BY <1>5 DEF Statement, history
  <2>2. sim' = sim \/ (sim = "waiting" /\ sim' = "clock")
    BY <1>5, Statements
  <2>3. CASE sim' = sim
    BY <2>1, <2>3 DEF simVars, copyVars, viewVars, RegShown, WordShown, TextShown, Changed
  <2>4. CASE sim = "waiting" /\ sim' = "clock"
    BY <2>1, <2>4 DEF simVars, copyVars, viewVars
  <2>. QED
    BY <2>2, <2>3, <2>4
<1>6. CASE UserNext /\ ~(RegValueEdited \/ MemValueEdited)
  <2>1. UNCHANGED <<design, sim, simVars, copyVars, viewVars, addr, edited>>
    BY <1>6 DEF UserNext, StepButtonCallBack, StopButtonCallBack, RunButtonCallBack, PreQuitCallBack,
       Handler, Source_RowActivated, guiVars, history
  <2>. QED
    BY <2>1 DEF simVars, copyVars, viewVars, RegShown, WordShown, TextShown, Changed
<1>. QED
  BY <1>1, <1>2, <1>3, <1>4, <1>5, <1>6 DEF Next, GuiNext
-----------------------------------------------------------------------------
(* Counting the cycles and looking for a breakpoint.                             *)

(* While the simulator runs, a patient user clicks at nothing but Stop.                   *)
LEMMA Patient ==
  ASSUME user = {}, InOrder, Handling, GuiNext \/ UserNext, sim # "waiting"
  PROVE  /\ UNCHANGED <<sim, rst, design, simVars, BreakPoint_List_p, history, SimCyclesLeftToRun>>
         /\ SimSyncMode' \in {SimSyncMode, "STOP"}
         /\ sim \notin {"start", "init_regs"} => addr' = addr
<1>. USE DEF syncVars
<1>1. CASE ControlWindow \/ Source_Init \/ RegisterWindow \/ MemoryWindow
  BY <1>1 DEF ControlWindow, Source_Init, RegisterWindow, MemoryWindow, GuiStep, InOrder
<1>2. CASE Statement
  BY <1>2, Statements DEF Statement
<1>3. CASE UserNext
  BY <1>3 DEF UserNext, StepButtonCallBack, StopButtonCallBack, RunButtonCallBack, PreQuitCallBack,
     RegValueEdited, MemValueEdited, Source_RowActivated, Edit, Handler, MayAct, guiVars
<1>. QED
  BY <1>1, <1>2, <1>3 DEF GuiNext

(* What he clicks at while the simulator waits starts it with its last statement.         *)
LEMMA Released ==
  ASSUME user = {}, Handling, GuiNext \/ UserNext, sim = "waiting"
  PROVE  /\ rst' = rst
         /\ \/ sim' = "waiting"
            \/ sim' = "clock" /\ Begun /\ UNCHANGED <<syncVars, history>>
<1>1. CASE ControlWindow \/ Source_Init \/ RegisterWindow \/ MemoryWindow
  BY <1>1 DEF ControlWindow, Source_Init, RegisterWindow, MemoryWindow, GuiStep
<1>2. CASE Statement
  BY <1>2, Statements DEF Statement
<1>3. CASE UserNext
  BY <1>3 DEF UserNext, StepButtonCallBack, StopButtonCallBack, RunButtonCallBack, PreQuitCallBack,
     RegValueEdited, MemValueEdited, Source_RowActivated, Edit, Handler
<1>. QED
  BY <1>1, <1>2, <1>3 DEF GuiNext

(* The links of the list, one after the other.                                            *)
LEMMA LinksInOrder ==
  ASSUME Links, NEW k \in DOMAIN BreakPoint_List_p
  PROVE  /\ ~(BreakPoint_List_p[k] \notin Range(BreakPoint_List_p))
         /\ BreakPoint_List_p[k] \in SourceLines
         /\ NextOf(BreakPoint_List_p[k]) =
              IF k = Len(BreakPoint_List_p) THEN 0 ELSE BreakPoint_List_p[k + 1]
<1>1. LinkOf(BreakPoint_List_p[k]) \in DOMAIN BreakPoint_List_p
      /\ BreakPoint_List_p[LinkOf(BreakPoint_List_p[k])] = BreakPoint_List_p[k]
  BY DEF LinkOf
<1>2. LinkOf(BreakPoint_List_p[k]) = k
  BY <1>1 DEF Links, Distinct
<1>. QED
  BY <1>2 DEF NextOf, Links, Range

(* BreakPoint_Hit stops at a line of the program counter, or has seen every line.         *)
LEMMA Walked ==
  ASSUME Links, Walking, BreakPoint_Hit
  PROVE  \/ sim' = "read_reg" /\ AtBreakpoint
         \/ sim' = "clock" /\ ~AtBreakpoint
         \/ sim' = "break" /\ Walking'
<1>1. PICK k \in DOMAIN BreakPoint_List_p :
        /\ Curr_p = BreakPoint_List_p[k]
        /\ \A j \in 1 .. k - 1 : addr[BreakPoint_List_p[j]] # design.reg[Pc]
  BY DEF Walking
<1>. DEFINE n == BreakPoint_List_p[k]
<1>2. ~Freed /\ n \in Range(BreakPoint_List_p) /\ n \in 1 .. Lines /\ k \in 1 .. Len(BreakPoint_List_p)
  BY <1>1, LinksInOrder DEF Freed, SourceLines, Links
<1>3. NextOf(n) = IF k = Len(BreakPoint_List_p) THEN 0 ELSE BreakPoint_List_p[k + 1]
  BY LinksInOrder
<1>4. UNCHANGED <<design, BreakPoint_List_p, addr>>
  BY DEF BreakPoint_Hit, SimStep, guiVars
<1>5. CASE addr[n] = design.reg[Pc]
  BY <1>1, <1>2, <1>5 DEF BreakPoint_Hit, SimStep, SimReadReg, AtBreakpoint
<1>6. CASE addr[n] # design.reg[Pc]
  <2>1. \A j \in 1 .. k : addr[BreakPoint_List_p[j]] # design.reg[Pc]
    BY <1>1, <1>2, <1>6
  <2>2. Curr_p' = NextOf(n) /\ sim' = IF NextOf(n) = 0 THEN "clock" ELSE "break"
    BY <1>1, <1>2, <1>6 DEF BreakPoint_Hit, SimStep, SimReadReg
  <2>3. CASE k = Len(BreakPoint_List_p)
    <3>1. ~AtBreakpoint
      BY <2>1, <2>3 DEF AtBreakpoint, Range, Links
    <3>. QED
      BY <1>3, <2>2, <2>3, <3>1
  <2>4. CASE k # Len(BreakPoint_List_p)
    <3>1. k + 1 \in DOMAIN BreakPoint_List_p
      BY <1>2, <2>4 DEF Links
    <3>2. BreakPoint_List_p[k + 1] \in 1 .. Lines
      BY <3>1, LinksInOrder DEF SourceLines
    <3>3. Curr_p' = BreakPoint_List_p[k + 1] /\ sim' = "break"
      BY <1>3, <2>2, <2>4, <3>2
    <3>4. Walking'
      BY <1>2, <1>4, <2>1, <3>1, <3>3 DEF Walking
    <3>. QED
      BY <3>3, <3>4
  <2>. QED
    BY <2>3, <2>4
<1>. QED
  BY <1>5, <1>6

LEMMA WalkingStep ==
  ASSUME user = {}, InOrder, Typed, Links, Handling, sim = "break" => Walking, Next, sim' = "break"
  PROVE  Walking'
<1>1. CASE StoreCyclesLeft
  BY <1>1 DEF StoreCyclesLeft, SimStep, Walking, Links
<1>2. CASE BreakPoint_Hit
  BY <1>2, Walked DEF BreakPoint_Hit, SimStep
<1>3. CASE GuiNext \/ UserNext
  <2>1. sim = "break"
    BY <1>3, Released, Patient
  <2>. QED
    BY <1>3, <2>1, Patient DEF Walking, simVars
<1>4. CASE (SimNext /\ ~StoreCyclesLeft /\ ~BreakPoint_Hit) \/ my_error_handler
  <2>. USE DEF SimStep
  <2>1. ~(StartGUI \/ RegInitializeRegisters \/ MemInitializeMemory \/ Clock \/ UpdateCycleCount)
    BY DEF StartGUI, RegInitializeRegisters, MemInitializeMemory, Clock, UpdateCycleCount
  <2>2. ~WaitForGUI
    BY DEF WaitForGUI, Typed
  <2>3. ~(LoadCyclesLeft \/ my_error_handler)
    BY DEF LoadCyclesLeft, my_error_handler
  <2>4. ~(ReadReg \/ RegisterGuiUpdate \/ ReadWord \/ CopyWord \/ MemoryGuiUpdate)
    BY DEF ReadReg, RegisterGuiUpdate, ReadWord, CopyWord, AfterWord, MemoryGuiUpdate
  <2>5. ~(SourceGuiUpdate \/ PipelineGuiUpdate \/ CondWait)
    BY DEF SourceGuiUpdate, PipelineGuiUpdate, CondWait
  <2>. QED
    BY <1>4, <2>1, <2>2, <2>3, <2>4, <2>5 DEF SimNext
<1>. QED
  BY <1>1, <1>2, <1>3, <1>4 DEF Next

(* The count of the cycles, when no handler runs.                                         *)
LEMMA CountStep ==
  ASSUME InOrder, Typed, Links, sim = "break" => Walking, Stepping, Running, SimNext
  PROVE  Stepping' /\ Running'
<1>. USE DEF SimStep, Starting, Deciding, ReadingOut, RegistersShown, ReadingMemory, MemoryShown, SourceShown,
         PipesShown
<1>1. CASE StartGUI \/ RegInitializeRegisters \/ MemInitializeMemory
  BY <1>1 DEF StartGUI, RegInitializeRegisters, MemInitializeMemory, syncVars, history, Stepping, Running
<1>2. CASE Clock
  <2>1. /\ sim = "clock" /\ sim' = IF rst THEN "clock" ELSE "count"
        /\ ran' = IF rst \/ ran > asked THEN ran ELSE ran + 1
        /\ UNCHANGED <<SimSyncMode, SimCyclesLeftToRun, asked>>
    BY <1>2 DEF Clock, syncVars
  <2>2. Stepping'
    BY <2>1 DEF Stepping
  <2>3. Running'
    BY <2>1 DEF Running, Counted, Typed
  <2>. QED
    BY <2>2, <2>3
<1>3. CASE UpdateCycleCount \/ WaitForGUI
  BY <1>3 DEF UpdateCycleCount, WaitForGUI, syncVars, history, Stepping, Running, Counted
<1>4. CASE LoadCyclesLeft
  BY <1>4 DEF LoadCyclesLeft, syncVars, history, Stepping, Running, Counted, Typed
<1>5. CASE StoreCyclesLeft
  <2>1. BreakPoint_List_p = <<>> => ~AtBreakpoint'
    BY <1>5 DEF StoreCyclesLeft, AtBreakpoint, Range
  <2>2. /\ sim = "store" /\ UNCHANGED <<rst, SimSyncMode, ran, asked>>
        /\ sim' = IF left = 0 THEN "read_reg" ELSE IF BreakPoint_List_p = <<>> THEN "clock" ELSE "break"
        /\ SimCyclesLeftToRun' = left
    BY <1>5 DEF StoreCyclesLeft, history
  <2>3. ~rst
    BY <2>2 DEF InOrder
  <2>. QED
    BY <2>1, <2>2, <2>3 DEF Stepping, Running, Counted, Typed
<1>6. CASE BreakPoint_Hit
  <2>1. /\ sim = "break" /\ UNCHANGED <<rst, design, addr, BreakPoint_List_p, syncVars, history>>
    BY <1>6 DEF BreakPoint_Hit, guiVars
  <2>2. ~rst
    BY <2>1 DEF InOrder
  <2>3. AtBreakpoint' = AtBreakpoint
    BY <2>1 DEF AtBreakpoint
  <2>. QED
    BY <1>6, <2>1, <2>2, <2>3, Walked DEF Stepping, Running, Counted, syncVars, history
<1>7. CASE ReadReg \/ RegisterGuiUpdate \/ ReadWord \/ CopyWord \/ MemoryGuiUpdate \/ SourceGuiUpdate
             \/ PipelineGuiUpdate \/ CondWait
  <2>1. /\ sim \in ReadingOut /\ sim' \in ReadingOut \cup {"waiting"}
        /\ UNCHANGED <<design, addr, BreakPoint_List_p, SimSyncMode, ran, asked>>
    BY <1>7 DEF ReadReg, RegisterGuiUpdate, ReadWord, CopyWord, MemoryGuiUpdate, SourceGuiUpdate,
       PipelineGuiUpdate, CondWait, AfterWord, syncVars, history, guiVars
  <2>2. AtBreakpoint' = AtBreakpoint
    BY <2>1 DEF AtBreakpoint
  <2>. QED
    BY <2>1, <2>2 DEF Stepping, Running
<1>. QED
  BY <1>1, <1>2, <1>3, <1>4, <1>5, <1>6, <1>7 DEF SimNext

LEMMA CountingStep ==
  ASSUME user = {}, InOrder, Typed, Links, Handling, sim = "break" => Walking, Stepping, Running, Next
  PROVE  Stepping' /\ Running'
<1>1. CASE SimNext
  BY <1>1, CountStep
<1>. USE DEF Starting, Deciding, ReadingOut, RegistersShown, ReadingMemory, MemoryShown, SourceShown, PipesShown
<1>2. CASE my_error_handler
  BY <1>2 DEF my_error_handler, SimStep, syncVars, history, Stepping, Running
<1>3. CASE (GuiNext \/ UserNext) /\ sim # "waiting"
  <2>1. /\ UNCHANGED <<sim, rst, design, simVars, BreakPoint_List_p, history, SimCyclesLeftToRun>>
        /\ SimSyncMode' \in {SimSyncMode, "STOP"}
        /\ sim \notin {"start", "init_regs"} => addr' = addr
    BY <1>3, Patient
  <2>2. Stepping'
    BY <2>1 DEF Stepping, history
  <2>3. sim \notin Starting => AtBreakpoint' = AtBreakpoint
    BY <2>1 DEF AtBreakpoint
  <2>4. Running'
    BY <2>1, <2>3 DEF Running, Counted, history, simVars
  <2>. QED
    BY <2>2, <2>4
<1>4. CASE (GuiNext \/ UserNext) /\ sim = "waiting"
  <2>1. ~rst
    BY <1>4 DEF InOrder
  <2>2. /\ rst' = rst
        /\ \/ sim' = "waiting"
           \/ sim' = "clock" /\ Begun /\ UNCHANGED <<syncVars, history>>
    BY <1>4, Released
  <2>3. CASE sim' = "waiting"
    BY <2>3 DEF Stepping, Running
  <2>4. CASE sim' = "clock" /\ Begun /\ UNCHANGED <<syncVars, history>>
    BY <2>1, <2>2, <2>4 DEF Begun, syncVars, history, Stepping, Running, Counted, Typed
  <2>. QED
    BY <2>2, <2>3, <2>4
<1>. QED
  BY <1>1, <1>2, <1>3, <1>4 DEF Next

-----------------------------------------------------------------------------
LEMMA InitHolds ==
  ASSUME Init
  PROVE  InOrder /\ Typed /\ Links /\ Handling /\ ReadOut /\ Stepping /\ Running
<1>. USE DEF Init, Starting, Deciding, ReadingOut, RegistersShown, ReadingMemory, MemoryShown, SourceShown,
         PipesShown
<1>1. Cycles \subseteq Designs
  BY SimDebugAssumption
<1>2. InOrder /\ Handling /\ Stepping /\ Running
  BY DEF InOrder, Handling, Stepping, Running
<1>3. Typed
  BY <1>1 DEF Typed
<1>4. Links
  BY DEF Links, Distinct
<1>5. ReadOut
  BY DEF ReadOut, EditsKnown, Unedited, RegistersRead, WordsRead, OthersRead
<1>. QED
  BY <1>2, <1>3, <1>4, <1>5

LEMMA SameUser ==
  ASSUME Next
  PROVE  user' = user
<1>1. CASE SimNext \/ my_error_handler
  BY <1>1, SimThread DEF guiVars
<1>2. CASE GuiNext
  BY <1>2 DEF GuiNext, ControlWindow, Source_Init, RegisterWindow, MemoryWindow, GuiStep, Statement
<1>3. CASE UserNext
  BY <1>3 DEF UserNext, StepButtonCallBack, StopButtonCallBack, RunButtonCallBack, PreQuitCallBack,
     RegValueEdited, MemValueEdited, Source_RowActivated, Edit, Handler, guiVars
<1>. QED
  BY <1>1, <1>2, <1>3 DEF Next

LEMMA CountInvStep ==
  ASSUME CountInv, [Next]_vars
  PROVE  CountInv'
<1>1. CASE UNCHANGED vars
  BY <1>1 DEF vars, simVars, syncVars, copyVars, viewVars, guiVars, history, CountInv, InOrder, Typed, Links,
     Handling, Begun, Walking, Stepping, Running, Counted, AtBreakpoint
<1>2. CASE Next
  <2>1. SUFFICES ASSUME user' = {}
                 PROVE  /\ InOrder' /\ Typed' /\ Links' /\ Handling'
                        /\ (sim = "break" => Walking)'
                        /\ Stepping' /\ Running'
    BY DEF CountInv
  <2>2. user = {}
    BY <1>2, <2>1, SameUser
  <2>3. /\ InOrder /\ Typed /\ Links /\ Handling
        /\ sim = "break" => Walking
        /\ Stepping /\ Running
    BY <2>2 DEF CountInv
  <2>4. InOrder' /\ Typed' /\ Links' /\ Handling'
    BY <1>2, <2>2, <2>3, InOrderStep, TypedStep, LinksStep, HandlingStep
  <2>5. (sim = "break" => Walking)'
    BY <1>2, <2>2, <2>3, WalkingStep
  <2>6. Stepping' /\ Running'
    BY <1>2, <2>2, <2>3, CountingStep
  <2>. QED
    BY <2>4, <2>5, <2>6
<1>. QED
  BY <1>1, <1>2

LEMMA ViewInvStep ==
  ASSUME Pc \notin EditedRegs, ViewInv, [Next]_vars
  PROVE  ViewInv'
<1>1. CASE UNCHANGED vars
  BY <1>1 DEF vars, simVars, syncVars, copyVars, viewVars, guiVars, history, ViewInv, InOrder, Typed,
     Handling, Begun, ReadOut, EditsKnown, RegistersRead, WordsRead, OthersRead, RegShown, WordShown, TextShown,
     Changed
<1>2. CASE Next
  <2>1. SUFFICES ASSUME user' = {}
                 PROVE  InOrder' /\ Typed' /\ Handling' /\ ReadOut'
    BY DEF ViewInv
  <2>2. user = {}
    BY <1>2, <2>1, SameUser
  <2>3. InOrder /\ Typed /\ Handling /\ ReadOut
    BY <2>2 DEF ViewInv
  <2>. QED
    BY <1>2, <2>2, <2>3, InOrderStep, TypedStep, HandlingStep, ReadOutStep
<1>. QED
  BY <1>1, <1>2

(* For a patient user, Run for n runs n cycles, Step one, and none runs past a breakpoint  *)
(* or stops for no reason (WaitForGUI and BreakPoint_Hit, debug-gui.c): whatever is set,    *)
(* removed and edited while the simulator waits, and whenever Stop is clicked.              *)
THEOREM RunsTheorem == Spec => []RunsExactly
<1>1. Init => CountInv
  BY InitHolds DEF CountInv, Init
<1>2. CountInv /\ [Next]_vars => CountInv'
  BY CountInvStep
<1>3. CountInv => RunsExactly
  BY DEF CountInv, RunsExactly, Stepping, Running, Counted, Typed, ReadingOut, RegistersShown, MemoryShown,
     SourceShown, PipesShown
<1>. QED
  BY <1>1, <1>2, <1>3, PTL DEF Spec

(* While the simulator waits for a patient user, the views show the design, each with what *)
(* it was read out in the same stop (SimReadOutRegisters, SimReadOutMemory, debug-pli.c); a   *)
(* cell edited in this stop shows the number typed, and the design holds what is left of it    *)
(* in the cell.  The program counter must not be edited: the arrow follows CurrValue, which     *)
(* only the simulator writes.                                                                   *)
THEOREM ViewsTheorem ==
  ASSUME Pc \notin EditedRegs
  PROVE  Spec => []ViewsShowDesign
<1>1. Init => ViewInv
  BY InitHolds DEF ViewInv
<1>2. ViewInv /\ [Next]_vars => ViewInv'
  BY ViewInvStep
<1>3. ViewInv => ViewsShowDesign
  BY DEF ViewInv, ViewsShowDesign, ReadOut, RegistersRead, WordsRead, OthersRead, WordShown,
     RegistersShown, MemoryShown, SourceShown, PipesShown
<1>. QED
  BY <1>1, <1>2, <1>3, PTL DEF Spec
=============================================================================
