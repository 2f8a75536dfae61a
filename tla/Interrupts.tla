----------------------------- MODULE Interrupts -----------------------------
(***************************************************************************)
(* Interrupts and system calls: the 8259 pair as student-distrib/i8259.c   *)
(* drives it, the gates of idt.c, the entry points of interrupt.S and the  *)
(* end-of-interrupt commands of the handlers in keyboard.c and rtc.c.      *)
(*                                                                         *)
(* stack is what lies on the kernel stacks: user programs, and the         *)
(* handlers and system calls that interrupted them, innermost last.  A     *)
(* mask or register of the controllers is the set of the lines whose bit   *)
(* is set.                                                                 *)
(***************************************************************************)
EXTENDS Integers, Sequences

CONSTANTS
    Drivers,        \* the lines that drivers enable: 1 and 8 (0 is left out)
    Calls,          \* values of EAX that programs trap with
    MaxDepth        \* bound on the length of stack

ASSUME IntrAssumption ==
    /\ Drivers \subseteq 0 .. 15 /\ Calls \subseteq Int
    /\ MaxDepth \in Nat \ {0}

Master == 0 .. 7
Slave  == 8 .. 15
CASCADE == 2

VARIABLES
    master_mask, slave_mask,    \* the kernel's copies of the masks
    imr,                        \* the masks in the controllers
    irr,                        \* lines whose devices ask for service
    isr,                        \* lines in service
    intr,                       \* the CPU's interrupt flag, IF
    todo,                       \* boot: drivers whose line is not enabled yet
    stack

picVars == <<master_mask, slave_mask, imr>>
vars == <<picVars, irr, isr, intr, todo, stack>>

(* i8259_init: all lines masked but the cascade.                           *)
Init ==
    /\ master_mask = Master \ {CASCADE}
    /\ slave_mask = Slave
    /\ imr = (Master \ {CASCADE}) \cup Slave
    /\ irr = {}
    /\ isr = {}
    /\ intr = 0
    /\ todo = Drivers
    /\ stack = <<>>

----------------------------------------------------------------------------
(* Mutant: the master's line is enabled in the copy only.                  *)
EnableMasterCopy(n) ==
    /\ master_mask' = master_mask \ {n}
    /\ UNCHANGED <<slave_mask, imr>>

EnableMaster(n) ==
    /\ master_mask' = master_mask \ {n}
    /\ imr' = master_mask' \cup (imr \cap Slave)
    /\ UNCHANGED slave_mask

(* What reaches the slave is slave_mask & (~1 << (irq_num - 8)): the bits  *)
(* below the line's are cleared too.                                       *)
EnableSlave(n) ==
    /\ master_mask' = master_mask \ {CASCADE}
    /\ imr' = master_mask' \cup {k \in slave_mask : k > n}
    /\ slave_mask' = slave_mask \ {n}

(* enable_irq, called by init_keyboard and init_rtc.                       *)
enable_irq(n) ==
    /\ n \in todo
    /\ todo' = todo \ {n}
    /\ IF n \in Slave THEN EnableSlave(n) ELSE EnableMaster(n)
    /\ UNCHANGED <<irr, isr, intr, stack>>

(* entry(): sti, then the first shell.                                     *)
Start ==
    /\ todo = {} /\ stack = <<>>
    /\ stack' = <<"user">>
    /\ intr' = 1
    /\ UNCHANGED <<picVars, irr, isr, todo>>

----------------------------------------------------------------------------
(* The controllers: the slave's lines rank between 1 and 3.                *)
Rank(n) == IF n \in Slave THEN n + 10 ELSE IF n > CASCADE THEN n + 20 ELSE n

Raise(n) ==
    /\ stack # <<>>
    /\ irr' = irr \cup {n}
    /\ UNCHANGED <<picVars, isr, intr, todo, stack>>

Deliverable(n) ==
    /\ n \in irr \ imr
    /\ n \in Slave => CASCADE \notin imr
    /\ \A m \in isr : Rank(n) < Rank(m)
    /\ \A m \in irr \ imr : Rank(n) <= Rank(m)

Top == stack[Len(stack)]
Push(f) == Append(stack, f)
Popped(k) == SubSeq(stack, 1, Len(stack) - k)

(* What interrupts find on top when they return: IF is as it was there.    *)
IntrOf(f) == IF f \in {"user", "reading"} THEN 1 ELSE 0

(* Mutant: trap gates.                                                     *)
TrapGate == 1

(* The gates of init_idt: their handlers, and IF behind them.              *)
Gate(n) == IF n \in Slave THEN "rtc" ELSE "kbd"
IntrGate == 0

Deliver(n) ==
    /\ stack # <<>>
    /\ intr = 1
    /\ Deliverable(n)
    /\ irr' = irr \ {n}
    /\ isr' = isr \cup {n} \cup (IF n \in Slave THEN {CASCADE} ELSE {})
    /\ intr' = IntrGate
    /\ stack' = Push(Gate(n))
    /\ UNCHANGED <<picVars, todo>>

(* Mutant: only the slave gets it.                                         *)
EoiSlaveOnly(n) == isr \ {n}

(* send_eoi: specific, to both controllers for a line of the slave.        *)
Eoi(n) == isr \ (IF n \in Slave THEN {n, CASCADE} ELSE {n})

ReturnTo(k) ==
    /\ stack' = Popped(k)
    /\ intr' = IntrOf(stack[Len(stack) - k])

HandlerReturns(f, n) ==
    /\ Top = f
    /\ isr' = Eoi(n)
    /\ ReturnTo(1)
    /\ UNCHANGED <<picVars, irr, todo>>

(* rtc_handler.                                                            *)
RtcHandler == stack # <<>> /\ HandlerReturns("rtc", 8)

(* keyboard_handler for a key that starts no program (the second EOI that  *)
(* Enter and Backspace send finds the line no longer in service) ...       *)
KbdHandler == stack # <<>> /\ HandlerReturns("kbd", 1)

(* Mutant: the EOI is left to the end of keyboard_handler.                 *)
KbdStartsLate ==
    /\ stack # <<>> /\ Top = "kbd"
    /\ Len(stack) < MaxDepth
    /\ stack' = Push("user")
    /\ intr' = 1
    /\ UNCHANGED <<picVars, irr, isr, todo>>

(* ... and for an Alt+Fn that opens a terminal: the EOI comes first, then  *)
(* display_switch executes a shell; the handler goes on when that halts.   *)
KbdStartsShell ==
    /\ stack # <<>> /\ Top = "kbd"
    /\ Len(stack) < MaxDepth
    /\ isr' = Eoi(1)
    /\ stack' = Push("user")
    /\ intr' = 1
    /\ UNCHANGED <<picVars, irr, todo>>

----------------------------------------------------------------------------
(* sys_call_table: 1 .. 8; the numbers that handle_SIG_SYSCALL lets pass.  *)
Table == 1 .. 8
AllowedCalls == 1 .. 10

(* handle_SIG_SYSCALL: -1 for a number out of range; else the jump.        *)
SyscallRefused(eax) ==
    /\ stack # <<>> /\ Top = "user"
    /\ eax \notin AllowedCalls
    /\ UNCHANGED vars

Syscall(eax) ==
    /\ stack # <<>> /\ Top = "user"
    /\ eax \in AllowedCalls
    /\ Len(stack) < MaxDepth
    /\ stack' = Push(IF eax \in Table THEN "syscall" ELSE "wild")
    /\ intr' = 0
    /\ UNCHANGED <<picVars, irr, isr, todo>>

(* read() executes sti; its IF lasts until the iret of the system call.    *)
Sti ==
    /\ stack # <<>> /\ Top = "syscall"
    /\ stack' = [stack EXCEPT ![Len(stack)] = "reading"]
    /\ intr' = 1
    /\ UNCHANGED <<picVars, irr, isr, todo>>

(* The system call returns ...                                             *)
SyscallReturns ==
    /\ stack # <<>> /\ Top \in {"syscall", "reading"}
    /\ ReturnTo(1)
    /\ UNCHANGED <<picVars, irr, isr, todo>>

(* ... or is execute(): the program runs with IF set on top of it ...      *)
Execute ==
    /\ stack # <<>> /\ Top = "syscall"
    /\ Len(stack) < MaxDepth
    /\ stack' = Push("user")
    /\ intr' = 1
    /\ UNCHANGED <<picVars, irr, isr, todo>>

(* ... or halt(): back into the execute() that started the program.        *)
Halt ==
    /\ stack # <<>> /\ Top = "syscall" /\ Len(stack) > 2
    /\ ReturnTo(2)
    /\ UNCHANGED <<picVars, irr, isr, todo>>

(* The exceptions with a stub of their own in interrupt.S; for the second  *)
(* set the CPU pushes an error code, which no stub removes.                *)
PlainVectors == {"DE", "DB", "NMI", "BP", "OF", "BR", "UD", "NM", "SO", "MF", "MC", "XF"}
CodeVectors == {"DF", "TS", "NP", "SS", "GP", "PF", "AC"}

(* Whichever it is, the stub calls handle_exception, which spins with IF   *)
(* clear (halt(255) is commented out) and never returns to the stub.       *)
Exception(v) ==
    /\ v \in PlainVectors \cup CodeVectors
    /\ stack # <<>> /\ Top = "user"
    /\ Len(stack) < MaxDepth
    /\ stack' = Push("spin")
    /\ intr' = 0
    /\ UNCHANGED <<picVars, irr, isr, todo>>

Kernel == RtcHandler \/ KbdHandler \/ SyscallReturns

Next ==
    \/ \E n \in Drivers : enable_irq(n)
    \/ Start
    \/ \E n \in Drivers : Raise(n) \/ Deliver(n)
    \/ RtcHandler \/ KbdHandler \/ KbdStartsShell
    \/ \E eax \in Calls : Syscall(eax) \/ SyscallRefused(eax)
    \/ Sti \/ SyscallReturns \/ Execute \/ Halt
    \/ \E v \in PlainVectors \cup CodeVectors : Exception(v)

Spec == Init /\ [][Next]_vars

(* Kernel code goes on, and the CPU, which looks for an interrupt between  *)
(* any two instructions with IF set, takes one it could take again and     *)
(* again (strong fairness); what user programs do is not assumed.          *)
FairSpec == Spec /\ WF_vars(Kernel) /\ \A n \in Drivers : SF_vars(Deliver(n))

----------------------------------------------------------------------------
(* What may lie on a kernel stack: programs, handlers, system calls (before *)
(* and after the sti of read), a call behind the table, an exception.      *)
Frame == {"user", "kbd", "rtc", "syscall", "reading", "wild", "spin"}

(* Types of the controllers' and the CPU's state.                          *)
TypeOK ==
    /\ master_mask \subseteq Master /\ slave_mask \subseteq Slave
    /\ imr \subseteq 0 .. 15 /\ irr \subseteq Drivers
    /\ isr \subseteq 0 .. 15
    /\ intr \in {0, 1}
    /\ todo \subseteq Drivers
    /\ stack \in Seq(Frame)

(* User code never runs with an interrupt unacknowledged, though an Alt+Fn *)
(* starts programs from inside keyboard_handler: no line stays blocked.    *)
Acknowledged == stack # <<>> /\ Top \in {"user", "syscall", "reading"} => isr = {}

(* Handlers do not interrupt each other: on a kernel stack, 8 KB, there is *)
(* at most one, innermost or below the shell that it has started.          *)
HandlersDontNest ==
    \A k \in 1 .. Len(stack) - 1 :
        stack[k] # "rtc" /\ (stack[k] = "kbd" => stack[k + 1] = "user")

(* enable_irq unmasks "the specified IRQ" and no other.                    *)
MaskIsExact == imr = master_mask \cup slave_mask /\ todo \subseteq imr

(* A key that has been pressed is taken, whatever else is going on, unless *)
(* a program faults.                                                       *)
KeyTaken == (1 \in irr) ~> (1 \notin irr \/ Top = "spin")

(* After an exception, which "kills the program that caused it", user code *)
(* runs again.                                                             *)
FaultKills == (stack # <<>> /\ Top = "spin") ~> (stack # <<>> /\ Top = "user")

(* A system call number that passes the check has an entry in the table.   *)
CallInTable == \A k \in 1 .. Len(stack) : stack[k] # "wild"

----------------------------------------------------------------------------
(* The inductive invariant behind Acknowledged and HandlersDontNest.       *)

(* What a frame may lie on: programs are started by execute() and by the   *)
(* keyboard handler, they alone trap, and interrupts come where IF is set. *)
Under(f) ==
    IF f = "user" THEN {"syscall", "kbd"}
    ELSE IF f \in {"kbd", "rtc"} THEN {"user", "reading"} ELSE {"user"}

Stacked ==
    /\ stack # <<>> => stack[1] = "user"
    /\ \A k \in 1 .. Len(stack) - 1 : stack[k] \in Under(stack[k + 1])

(* IF is that of the innermost frame; only its own line is in service, if  *)
(* it is a handler (not a keyboard handler that has started a shell).      *)
InService ==
    /\ intr = IF stack = <<>> THEN 0 ELSE IntrOf(Top)
    /\ \/ isr = {}
       \/ stack # <<>> /\ Top = "kbd" /\ isr = {1}
       \/ stack # <<>> /\ Top = "rtc" /\ isr = {8, CASCADE}

(* What handlers and gates rely on.                                        *)
Inv == TypeOK /\ Stacked /\ InService
=============================================================================
