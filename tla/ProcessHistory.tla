-------------------------- MODULE ProcessHistory ---------------------------
(***************************************************************************)
(* The process manager with a history of what has happened since boot, for *)
(* the promises of execute and halt that hold only as long as something    *)
(* has not: which terminal each process was started on, and whether        *)
(*   - a shell has started a shell,                                        *)
(*   - an Alt+Fn key has been pressed,                                     *)
(*   - a process has ended while another terminal than its own was shown,  *)
(*   - execute() has changed the pid of another PCB than the new one (the  *)
(*     write through the parent link that the PCB's last user left).       *)
(***************************************************************************)
EXTENDS Process

VARIABLES
    home,           \* home[p]: the terminal process p was started on
    nested, switched, crossed, overwritten

history  == <<home, nested, switched, crossed, overwritten>>
histVars == <<vars, history>>

HInit ==
    /\ Init
    /\ home = [p \in Proc |-> 0]
    /\ nested = FALSE /\ switched = FALSE /\ crossed = FALSE /\ overwritten = FALSE

Started(p) == cur' = p /\ pcb_state[p] = 0 /\ pcb_state'[p] = 1

HNext ==
    /\ Next
    /\ home' = [p \in Proc |-> IF Started(p) THEN active_terminal' ELSE home[p]]
    /\ nested' = (nested \/ (\E cmd \in Commands \cap {"shell"} : Execute(cmd)))
    /\ switched' = (switched \/ \E t \in Term : DisplaySwitch(t))
    /\ crossed' = (crossed \/ ((AppEnds \/ ShellEnds) /\ active_terminal # home[cur]))
    /\ overwritten' = (overwritten \/ \E p \in Proc : p # cur' /\ pid'[p] # pid[p])

(* Apps are programs that end (cat, ls, grep, hello, counter); a halt that *)
(* goes on is kernel code with interrupts off.                             *)
HSpec == HInit /\ [][HNext]_histVars /\ WF_vars(AppEnds) /\ WF_vars(ResumeHalt)

----------------------------------------------------------------------------
(* When a program ends, its caller goes on with its own page and its own   *)
(* kernel stack, unless execute() has overwritten a pid; and with one      *)
(* terminal in use and no shell on a shell, that write, though it happens, *)
(* does no harm (halt(), syscall.c:277-283).                               *)
PageKept == ~overwritten \/ (~nested /\ ~switched) => ParentPage

(* The table does not fill up with the PCBs of programs that are gone:     *)
(* each one taken is that of a task that runs, or that an execute() or a   *)
(* halt() still has to return to.  Shells on shells are no harm here, an   *)
(* Alt+Fn may be: halt() may then free another PCB than its own.           *)
NoPcbLeaks ==
    Running /\ (~overwritten \/ ~switched) =>
        \A p \in Proc : pcb_state[p] = 1 => p = cur \/ \E i \in 1 .. Len(callers) : callers[i].proc = p

(* As long as programs end on the terminal they were started on, halt()    *)
(* finds their slot: no slot of any terminal keeps the pid of a free PCB,  *)
(* whatever Alt+Fn keys were pressed in between.                           *)
SlotsKept == ~crossed => SlotsLive

(* A program that ends gives the prompt back, under any sequence of        *)
(* executes, halts and Alt+Fn keys, unless a pid has been overwritten.     *)
PromptReturns ==
    (Running /\ image[cur] = "app") ~> ((Running /\ image[cur] = "shell") \/ overwritten)

----------------------------------------------------------------------------
(* The inductive invariants behind them, on top of Inv.                    *)

OnStack(p) == p = cur \/ \E i \in 1 .. Len(callers) : callers[i].proc = p

(* Without a write through a stale link every task has its own pid, so     *)
(* halt() frees the PCB of the task that ends.                             *)
OwnPids ==
    Alive /\ ~overwritten =>
        /\ \A p \in Proc : OnStack(p) => pid[p] = p
        /\ \A p \in Proc : pcb_state[p] = 1 => OnStack(p)

(* Without Alt+Fn keys the tasks are the first PCBs of the table, in the   *)
(* order they were started.  Below the first shell of the terminal are the *)
(* shells it replaced, whose halts wait, and above it the programs that    *)
(* were executed; a halt that goes on has only other halts to go on to.    *)
FirstShell == processes[active_terminal][0]

OneTerminal ==
    Alive /\ ~switched =>
        /\ terminal_flag[active_terminal] = 0
        /\ cur = Len(callers)
        /\ \A i \in 1 .. Len(callers) : callers[i].proc = i - 1
        /\ mode = "unwind" => \A i \in 1 .. Len(callers) : callers[i].frame = "halt"
        /\ mode = "user" =>
              /\ FirstShell \in 0 .. cur
              /\ \A i \in 1 .. Len(callers) :
                    callers[i].frame = IF i <= FirstShell THEN "halt" ELSE "syscall"
              /\ \A p \in Proc : pcb_state[p] = 1 => p <= cur

(* Without shells on shells the task on top is the first shell, or an app  *)
(* above it that leaves the first shell's pid alone.                       *)
OneShell ==
    mode = "user" /\ ~switched /\ ~nested =>
        /\ Intact
        /\ \/ cur = FirstShell
           \/ cur = FirstShell + 1 /\ image[cur] = "app" /\ pid[FirstShell] = FirstShell

(* As long as programs end where they were started, a PCB is entered at    *)
(* most once, on the terminal of its process, and a halt that waits, or    *)
(* goes on, has emptied its slot.                                          *)
Unlisted(p) == \A t \in Term, i \in Slot : processes[t][i] # p

SlotsHome ==
    Alive /\ ~crossed =>
        /\ \A t \in Term, i \in Slot :
              processes[t][i] # None =>
                 /\ home[processes[t][i]] = t
                 /\ pcb_state[processes[t][i]] = 1
                 /\ \A j \in Slot : processes[t][j] = processes[t][i] => j = i
        /\ \A i \in 1 .. Len(callers) : callers[i].frame = "halt" => Unlisted(callers[i].proc)
        /\ mode = "unwind" => Unlisted(cur) /\ Unlisted(pid[cur])

(* No terminal has a process before the first shell.                       *)
NoneYet ==
    mode = "boot" => \A t \in Term : terminal_flag[t] = 1 /\ \A i \in Slot : processes[t][i] = None

HInv == Inv /\ NoneYet /\ OwnPids /\ OneTerminal /\ OneShell /\ SlotsHome
============================================================================
