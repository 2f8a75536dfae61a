------------------------------ MODULE Process ------------------------------
(***************************************************************************)
(* The process manager of the kernel: execute, halt and display_switch of  *)
(* student-distrib/syscall.c, with the process table (pcb_state and the    *)
(* PCBs at the bottom of the kernel stacks), the terminals' process lists, *)
(* the user page (page_switch) and the kernel stack in the TSS.            *)
(*                                                                         *)
(* Every handler runs with interrupts disabled (they are entered through   *)
(* interrupt gates), so each is one atomic action.  What is interleaved is *)
(* the system calls of the user programs and the Alt+Fn keys.              *)
(*                                                                         *)
(* callers is the machine's view, which no C variable holds: the execute   *)
(* activations that are suspended on the kernel stacks, innermost last.    *)
(* The PCB fields (pid, parent, kbp) are the code's view of the same       *)
(* thing; the properties relate the two.                                   *)
(***************************************************************************)
EXTENDS Integers, Sequences

CONSTANTS
    NumProc,    \* entries of pcb_state (6 in the code)
    NumTerm,    \* terminals (3 in the code)
    NumSlot,    \* entries of terminal_t.processes (4 in the code)
    Commands    \* what may be typed at a shell's prompt

(* page_switch maps no frame above the eighth.                             *)
ASSUME SizesAssumption ==
    /\ NumProc \in 1 .. 8
    /\ NumTerm \in Nat \ {0}
    /\ NumSlot \in Nat \ {0}

(* exit and quit end the shell: exit in the shell itself, quit in execute. *)
ASSUME CommandsAssumption ==
    Commands \subseteq {"shell", "app", "exit", "quit", "unknown"}

Proc == 0 .. NumProc - 1
Term == 0 .. NumTerm - 1
Slot == 0 .. NumSlot - 1

None == -1              \* an empty slot, a NULL parent

Program == {"shell", "app"}

(* The call of execute a saved kbp belongs to; "popped" is the frame of a  *)
(* display_switch that has returned.                                       *)
Frame == {"none", "entry", "syscall", "display_switch", "halt", "popped"}

VARIABLES
    pcb_state,          \* pcb_state[p]: 1 iff PCB p is taken
    pid,                \* pcb_t.pid of each PCB
    parent,             \* pcb_t.parent of each PCB
    kbp,                \* pcb_t.kbp of each PCB
    image,              \* the program loaded in each 4 MB user frame
    processes,          \* terminals[t].processes
    terminal_flag,      \* terminals[t].terminal_flag: 1 until its first shell
    terminal_shell,     \* terminal_shell[t]
    active_terminal,    \* the terminal on display
    running_terminal,
    page,               \* the frame page_directory maps at 128 MB
    esp0,               \* whose kernel stack tss.esp0 is the top of
    cur,                \* the kernel stack in use: what get_pcb() returns
    callers,            \* suspended execute activations, innermost last
    mode                \* boot, user, unwind (a halt goes on), lost, astray

tableVars == <<pcb_state, pid, parent, kbp, image>>
termVars  == <<processes, terminal_flag, terminal_shell, active_terminal, running_terminal>>
cpuVars   == <<page, esp0, cur, callers, mode>>
vars      == <<tableVars, termVars, cpuVars>>

----------------------------------------------------------------------------
(* process_init, and the state in which entry() calls execute("shell"):    *)
(* the boot stack lies in the 8 KB block of PCB 0, and RAM is zero.        *)
Init ==
    /\ pcb_state = [p \in Proc |-> 0]
    /\ pid = [p \in Proc |-> 0]
    /\ parent = [p \in Proc |-> None]
    /\ kbp = [p \in Proc |-> "none"]
    /\ image = [p \in Proc |-> "none"]
    /\ processes = [t \in Term |-> [i \in Slot |-> None]]
    /\ terminal_flag = [t \in Term |-> 1]
    /\ terminal_shell = [t \in Term |-> None]
    /\ active_terminal = 0
    /\ running_terminal = 0
    /\ page = None
    /\ esp0 = 0
    /\ cur = 0
    /\ callers = <<>>
    /\ mode = "boot"

(* The user program that runs is the one that was suspended or started,    *)
(* on its own page, and its next trap enters its own kernel stack.         *)
Intact == page = cur /\ esp0 = cur

Running == mode = "user" /\ Intact

TableFull == \A p \in Proc : pcb_state[p] = 1

(* Mutants: a scan that ignores pcb_state; one that takes any free PCB.    *)
FirstScanned(p) == \A q \in Proc : q < p => pcb_state[q] = 1
AnyFree(p) == pcb_state[p] = 0

(* The first PCB in the table that is free.                                *)
IsFirstFree(p) == pcb_state[p] = 0 /\ \A q \in Proc : q < p => pcb_state[q] = 1

(* The frame mapped at 128 MB after page_switch(id).                       *)
PageSwitch(id) == IF id < 0 \/ id >= 8 THEN page ELSE id

(* The loop of execute that enters pid p in the first empty slot, if any.  *)
Occupy(slots, p) ==
    [i \in Slot |-> IF slots[i] = None /\ \A j \in Slot : j < i => slots[j] # None
                    THEN p ELSE slots[i]]

(* Mutant: the slot is searched for from the second on.                    *)
VacateLater(slots, p) ==
    [i \in Slot |-> IF i > 0 /\ slots[i] = p THEN None ELSE slots[i]]

(* The loop of halt that empties the first slot that holds pid p, if any.  *)
Vacate(slots, p) ==
    [i \in Slot |-> IF slots[i] = p /\ \A j \in Slot : j < i => slots[j] # p
                    THEN None ELSE slots[i]]

(* terminals[at].processes once pid p has been entered.                    *)
Entered(procs, at, p) ==
    IF terminal_flag[at] = 1 THEN [procs[at] EXCEPT ![0] = p] ELSE Occupy(procs[at], p)

(* execute() once the command is known to be a program and PCB p is free:  *)
(* p becomes a process of terminal at, called from frame on cur's stack.   *)
(* The pid of the PREVIOUS parent of PCB p is overwritten, since the link  *)
(* is set only later; through a NULL link an unused word at 0x108 is.      *)
Launch(p, prog, frame, procs, shells, at) ==
    LET slots == Entered(procs, at, p)
        first == terminal_flag[at] = 1
    IN  /\ IsFirstFree(p)
        /\ pcb_state' = [pcb_state EXCEPT ![p] = 1]
        /\ pid' = [q \in Proc |-> IF q = parent[p] THEN slots[0]
                                  ELSE IF q = p THEN p ELSE pid[q]]
        /\ parent' = [parent EXCEPT ![p] = cur]
        /\ kbp' = [kbp EXCEPT ![cur] = frame]
        /\ image' = [image EXCEPT ![p] = prog]
        /\ processes' = [procs EXCEPT ![at] = slots]
        /\ terminal_flag' = [terminal_flag EXCEPT ![at] = 0]
        /\ terminal_shell' = IF first /\ at = 0 THEN [shells EXCEPT ![0] = 0] ELSE shells
        /\ active_terminal' = at
        /\ running_terminal' = IF first THEN at ELSE running_terminal
        /\ page' = PageSwitch(p)
        /\ esp0' = p
        /\ cur' = p
        /\ mode' = "user"

Suspend(frame) == callers' = Append(callers, [proc |-> cur, frame |-> frame])

(* The parent's saved frame is the innermost suspended execute.            *)
ReturnIsSound ==
    LET up == parent[cur]
    IN  callers # <<>> /\ callers[Len(callers)] = [proc |-> up, frame |-> kbp[up]]

(* Mutants: the PCB stays taken; the TSS keeps the stack of the process    *)
(* that ended.                                                             *)
NotFreed(p) == pcb_state
OldStack(up) == esp0

(* The table without p; the kernel stack of process up, for the TSS.       *)
Freed(p) == [pcb_state EXCEPT ![p] = 0]
KernelStack(up) == pid[up]

(* The end of halt(): free the PCB, map the parent's page, load the        *)
(* parent's stack in the TSS and return through the parent's saved frame.  *)
(* If that frame is not a suspended one, what was on the stack there is    *)
(* gone and the kernel does not come back.                                 *)
Leave(procs, shells) ==
    LET up == parent[cur]
    IN  /\ pcb_state' = Freed(pid[cur])
        /\ page' = PageSwitch(pid[up])
        /\ esp0' = KernelStack(up)
        /\ \/ /\ ReturnIsSound
              /\ cur' = up
              /\ callers' = SubSeq(callers, 1, Len(callers) - 1)
              /\ mode' = IF kbp[up] = "halt" THEN "unwind" ELSE "user"
           \/ /\ ~ReturnIsSound
              /\ mode' = "lost"
              /\ UNCHANGED <<cur, callers>>
        /\ processes' = procs
        /\ terminal_shell' = shells
        /\ UNCHANGED <<pid, parent, kbp, image, terminal_flag, active_terminal, running_terminal>>

----------------------------------------------------------------------------
(* entry() executes the first shell, for terminal 0; or, interrupts being  *)
(* on already, an Alt+Fn just before that has display_switch do it for     *)
(* terminal t.  The frame on the boot stack is not kept either way: the    *)
(* shell's tss.esp0 is the top of the same stack.                          *)
Boot ==
    /\ mode = "boot"
    /\ \E p \in Proc, t \in Term : Launch(p, "shell", "entry", processes, terminal_shell, t)
    /\ callers' = callers

(* A shell passes the line it read to execute(), which starts a program.   *)
Execute(cmd) ==
    /\ Running
    /\ image[cur] = "shell"
    /\ cmd \in Program
    /\ \E p \in Proc : Launch(p, cmd, "syscall", processes, terminal_shell, active_terminal)
    /\ Suspend("syscall")

(* execute() returns -1: no such program, or no free PCB.                  *)
ExecuteFails(cmd) ==
    /\ Running
    /\ image[cur] = "shell"
    /\ cmd = "unknown" \/ (cmd \in Program /\ TableFull)
    /\ UNCHANGED vars

(* halt(), called by a program that ends, or by execute() for "quit".  The *)
(* first process of the terminal on display is replaced by a new shell,    *)
(* which runs on top of the halt; without a free PCB the halt goes on.     *)
(* (The early return for a PCB that is not taken is OwnTask: never met.)   *)
Halt ==
    LET t      == active_terminal
        procs  == [processes EXCEPT ![t] = Vacate(processes[t], pid[cur])]
        shells == IF terminal_shell[t] = pid[cur]
                  THEN [terminal_shell EXCEPT ![t] = pid[parent[cur]]] ELSE terminal_shell
        first_shell == processes[t][0] = pid[cur]
    IN  /\ Running
        /\ pcb_state[pid[cur]] = 1
        /\ \/ /\ first_shell
              /\ \E p \in Proc : Launch(p, "shell", "halt", procs, shells, t)
              /\ Suspend("halt")
           \/ /\ ~first_shell \/ TableFull
              /\ Leave(procs, shells)

AppEnds == Running /\ image[cur] = "app" /\ Halt

ShellEnds ==
    /\ Running
    /\ image[cur] = "shell"
    /\ Commands \cap {"exit", "quit"} # {}
    /\ Halt

(* The shell that replaced a first process has itself halted: control is   *)
(* back in that process's halt(), behind the call of execute.              *)
ResumeHalt == mode = "unwind" /\ Leave(processes, terminal_shell)

(* Alt+F(t+1): keyboard_handler calls display_switch(t).                   *)
DisplaySwitch(t) ==
    /\ Running
    /\ \/ /\ terminal_flag[t] = 1
          /\ \E p \in Proc :
                Launch(p, "shell", "display_switch", processes, terminal_shell, t)
          /\ Suspend("display_switch")
       \/ /\ terminal_flag[t] = 0 \/ TableFull
          /\ active_terminal' = t
          /\ kbp' = [kbp EXCEPT ![cur] = "popped"]
          /\ page' = PageSwitch(pid[cur])
          /\ UNCHANGED <<pcb_state, pid, parent, image, processes, terminal_flag,
                         terminal_shell, running_terminal, esp0, cur, callers, mode>>

(* User code resumed on another process's page, or with another process's  *)
(* kernel stack, which its next trap overwrites: the model stops here.     *)
Astray ==
    /\ mode = "user"
    /\ ~Intact
    /\ mode' = "astray"
    /\ UNCHANGED <<tableVars, termVars, page, esp0, cur, callers>>

Next ==
    \/ Boot
    \/ \E cmd \in Commands : Execute(cmd) \/ ExecuteFails(cmd)
    \/ AppEnds
    \/ ShellEnds
    \/ ResumeHalt
    \/ \E t \in Term : DisplaySwitch(t)
    \/ Astray

Spec == Init /\ [][Next]_vars

----------------------------------------------------------------------------
(* Types of the process table, the terminals and the CPU state.            *)
TypeOK ==
    /\ pcb_state \in [Proc -> {0, 1}]
    /\ pid \in [Proc -> Proc]
    /\ parent \in [Proc -> Proc \cup {None}]
    /\ kbp \in [Proc -> Frame]
    /\ image \in [Proc -> Program \cup {"none"}]
    /\ processes \in [Term -> [Slot -> Proc \cup {None}]]
    /\ terminal_flag \in [Term -> {0, 1}]
    /\ terminal_shell \in [Term -> Proc \cup {None}]
    /\ active_terminal \in Term
    /\ running_terminal \in Term
    /\ page \in Proc \cup {None}
    /\ esp0 \in Proc
    /\ cur \in Proc
    /\ callers \in Seq([proc : Proc, frame : Frame])
    /\ mode \in {"boot", "user", "unwind", "lost", "astray"}

Alive == mode \in {"user", "unwind"}

(* The process that suspended execute i started.                           *)
Callee(i) == IF i = Len(callers) THEN cur ELSE callers[i + 1].proc

(* However execute, halt and the Alt+Fn keys are interleaved, the links    *)
(* halt() follows (parent, then the parent's kbp) lead from every process  *)
(* to the execute call that started it, though PCBs are reused and         *)
(* display_switch saves its own kbp in the same field.                     *)
ReturnPath ==
    Alive => \A i \in 1 .. Len(callers) :
        /\ parent[Callee(i)] = callers[i].proc
        /\ kbp[callers[i].proc] = callers[i].frame

(* execute() never hands out the PCB, and with it the kernel stack, of a   *)
(* process that is running or suspended: those are taken and, the table    *)
(* being searched from 0, so is every PCB below the running one; callers   *)
(* have smaller numbers than the processes they started.                   *)
StackTaken ==
    Alive => /\ \A p \in Proc : p <= cur => pcb_state[p] = 1
             /\ \A i \in 1 .. Len(callers) :
                    callers[i].proc < cur /\ \A j \in 1 .. i - 1 : callers[j].proc < callers[i].proc

(* halt() never takes its early return, and frees the PCB of the program   *)
(* that called it: as long as user code runs on its own page the pid in    *)
(* its PCB is its own, although execute() writes the pid of stale parents. *)
OwnTask == Running => pid[cur] = cur /\ pcb_state[cur] = 1

(* When a program ends, its caller runs again on its own page and with its *)
(* own kernel stack in the TSS (halt()'s "do paging according t parent").  *)
ParentPage == mode = "user" => Intact

(* halt() makes the terminal's slot of the ending process available: no    *)
(* slot keeps the pid of a PCB that is free.                               *)
SlotsLive ==
    Alive => \A t \in Term, i \in Slot :
        processes[t][i] # None => pcb_state[processes[t][i]] = 1

(* execute() refuses a program only when the table's maximum of concurrent *)
(* tasks runs: a taken PCB is not the one of a process that has halted.    *)
FullOfTasks ==
    Running /\ TableFull => \A p \in Proc :
        p = cur \/ \E i \in 1 .. Len(callers) : callers[i].proc = p /\ callers[i].frame # "halt"

----------------------------------------------------------------------------
(* The inductive invariant behind ReturnPath, StackTaken and OwnTask.      *)

(* Every task on the stack has a parent link.                              *)
Rooted == Alive => parent[cur] # None /\ \A i \in 1 .. Len(callers) : parent[callers[i].proc] # None

(* Links lead downwards, those of PCBs that are free too.                  *)
LinksDown == Alive => \A p \in Proc : p > 0 => parent[p] < p

(* No link, in use or stale, of a PCB above a task q skips q: execute()'s  *)
(* write through the stale link cannot reach a suspended task.             *)
Above(q) == \A p \in Proc : p > q => parent[p] = None \/ parent[p] >= q

LinksStop == Alive => Above(cur) /\ \A i \in 1 .. Len(callers) : Above(callers[i].proc)

(* The PCBs that a link jumps over are taken, so the first free PCB is not *)
(* one of them.                                                            *)
NoGap ==
    Alive => \A p, q \in Proc :
        parent[p] # None /\ parent[p] < q /\ q < p => pcb_state[q] = 1

(* A process whose halt() waits for its replacement has its own pid or     *)
(* the replacement's (the stale write), and frees that one.                *)
HaltPid ==
    /\ Alive => \A i \in 1 .. Len(callers) :
            callers[i].frame = "halt" => pid[callers[i].proc] \in {callers[i].proc, Callee(i)}
    /\ mode = "unwind" => pid[cur] >= cur /\ Above(pid[cur])

BootState == mode = "boot" => callers = <<>> /\ cur = 0 /\ \A p \in Proc : parent[p] = None /\ pcb_state[p] = 0

(* What halt, execute and display_switch rely on, strong enough to be      *)
(* preserved by each of their steps: the parent links, also of PCBs that   *)
(* are free and about to be reused, follow the stack of tasks.             *)
Inv ==
    /\ TypeOK
    /\ BootState
    /\ ReturnPath
    /\ StackTaken
    /\ OwnTask
    /\ Rooted
    /\ LinksDown
    /\ LinksStop
    /\ NoGap
    /\ HaltPid

----------------------------------------------------------------------------
(* The promise of execute and halt, and how the machine's state maps to it.*)
TaskSeq(cs, top) ==
    [i \in 1 .. Len(cs) + 1 |-> IF i <= Len(cs) THEN cs[i].proc ELSE top]

Tasks == IF mode = "boot" THEN <<>> ELSE TaskSeq(callers, cur)

TS == INSTANCE TaskStack WITH stack <- Tasks, lost <- (mode = "lost")

(* execute and halt implement a stack of tasks: execute pushes a task that *)
(* is not on it, halt pops and goes on with the task below; only the       *)
(* bottom task's halt has nowhere to return to.                            *)
ImplementsTaskStack == TS!Spec
============================================================================
