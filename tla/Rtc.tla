-------------------------------- MODULE Rtc --------------------------------
(***************************************************************************)
(* The real-time clock driver of student-distrib/rtc.c: open, write and    *)
(* read of the device and its interrupt handler, which shares the chip's   *)
(* index port and the flag interrupt_rtc with them.                        *)
(*                                                                         *)
(* System calls enter through an interrupt gate (set_system_gate), so with *)
(* IF = 0; read() executes sti.  Each port access is an action: the        *)
(* handler may come between any two of them while IF = 1.                  *)
(***************************************************************************)
EXTENDS Integers, Sequences

CONSTANTS
    Freqs,          \* frequencies that programs write
    MaxDepth        \* bound: readers an Alt+Fn has suspended

ASSUME RtcAssumption == Freqs \subseteq Int /\ MaxDepth \in Nat

VARIABLES
    regA,               \* register A: [hi, rate], its two halves
    index,              \* the register COMMAND_PORT has selected
    raised,             \* the chip has raised its interrupt (register C)
    interrupt_rtc,
    intr,               \* the CPU's interrupt flag, IF
    pc,                 \* where the running program is in the driver
    prev_,              \* locals of open_rtc and write_rtc: the upper half
    val_freq,           \*   read from register A, and the rate
    wanted,             \* what register A should hold once write returns
    ticked,             \* an interrupt was handled since read was called
    below               \* the programs that an Alt+Fn has suspended

vars == <<regA, index, raised, interrupt_rtc, intr, pc, prev_, val_freq, wanted, ticked, below>>
devVars == <<regA, index, raised>>
callVars == <<prev_, val_freq, wanted>>

(* As the chip comes up; init_rtc has enabled the periodic interrupt and   *)
(* left register B selected.                                               *)
Init ==
    /\ regA = [hi |-> 2, rate |-> 6]
    /\ index = "B"
    /\ raised = 0
    /\ interrupt_rtc = 0
    /\ intr = 1
    /\ pc = "user"
    /\ prev_ = 0
    /\ val_freq = 15
    /\ wanted = [hi |-> 2, rate |-> 6]
    /\ ticked = FALSE
    /\ below = <<>>

(* IF once a system call has entered the kernel.                           *)
GateTrap == 1           \* mutant: a trap gate leaves it
SyscallIF == 0

(* set_freq_rtc: the rate of a power of two, -1 otherwise.                 *)
Powers == {2, 4, 8, 16, 32, 64, 128, 256, 512, 1024}

set_freq_rtc(freq) ==
    IF freq = 1024 THEN 6 ELSE IF freq = 512 THEN 7 ELSE IF freq = 256 THEN 8 ELSE
    IF freq = 128 THEN 9 ELSE IF freq = 64 THEN 10 ELSE IF freq = 32 THEN 11 ELSE
    IF freq = 16 THEN 12 ELSE IF freq = 8 THEN 13 ELSE IF freq = 4 THEN 14 ELSE
    IF freq = 2 THEN 15 ELSE -1

----------------------------------------------------------------------------
(* open (frequency 2) or write (the frequency in the buffer) is called ... *)
Call(freq) ==
    /\ pc = "user"
    /\ intr' = SyscallIF
    /\ val_freq' = set_freq_rtc(freq)
    /\ wanted' = [hi |-> wanted.hi, rate |-> set_freq_rtc(IF freq \in Powers THEN freq ELSE 2)]
    /\ pc' = "select"
    /\ UNCHANGED <<devVars, interrupt_rtc, prev_, ticked, below>>

Select(from, to) ==
    /\ pc = from
    /\ index' = "A"
    /\ pc' = to
    /\ UNCHANGED <<regA, raised, interrupt_rtc, intr, callVars, ticked, below>>

(* ... selects register A and reads it (register C reads as 0) ...         *)
SelectToRead == Select("select", "load")

Load ==
    /\ pc = "load"
    /\ prev_' = IF index = "A" THEN regA.hi ELSE 0
    /\ pc' = "reselect"
    /\ UNCHANGED <<devVars, interrupt_rtc, intr, val_freq, wanted, ticked, below>>

(* Mutant: the old rate is not masked out of what is written.              *)
ByteAdded(prev, val) == [hi |-> prev, rate |-> val + regA.rate]

(* (0xF0 & prev) | val as a byte, a val of -1 being 0xFF.                  *)
Byte(prev, val) ==
    IF val = -1 THEN [hi |-> 15, rate |-> 15] ELSE [hi |-> prev, rate |-> val]

(* ... and selects it again and writes; then iret.                         *)
SelectToWrite == Select("reselect", "store")

Store ==
    /\ pc = "store"
    /\ regA' = IF index = "A" THEN Byte(prev_, val_freq) ELSE regA
    /\ prev_' = 0
    /\ val_freq' = 15
    /\ pc' = "user"
    /\ intr' = 1
    /\ UNCHANGED <<index, raised, interrupt_rtc, wanted, ticked, below>>

(* read: sti, then read_rtc lowers the flag, waits for the handler to      *)
(* raise it, and returns behind a cli.                                     *)
Read ==
    /\ pc = "user"
    /\ intr' = 1
    /\ ticked' = FALSE
    /\ pc' = "lower"
    /\ UNCHANGED <<devVars, interrupt_rtc, callVars, below>>

(* Mutant: the flag of an earlier interrupt is left up.                    *)
KeepFlag ==
    /\ pc = "lower"
    /\ pc' = "wait"
    /\ UNCHANGED <<devVars, interrupt_rtc, intr, callVars, ticked, below>>

LowerFlag ==
    /\ pc = "lower"
    /\ interrupt_rtc' = 0
    /\ pc' = "wait"
    /\ UNCHANGED <<devVars, intr, callVars, ticked, below>>

SeeFlag ==
    /\ pc = "wait"
    /\ interrupt_rtc = 1
    /\ intr' = 0
    /\ pc' = "seen"
    /\ UNCHANGED <<devVars, interrupt_rtc, callVars, ticked, below>>

ReturnRead ==
    /\ pc = "seen"
    /\ intr' = 1
    /\ pc' = "user"
    /\ UNCHANGED <<devVars, interrupt_rtc, callVars, ticked, below>>

(* The chip: no interrupt before register C has been read.                 *)
Tick ==
    /\ raised = 0
    /\ raised' = 1
    /\ UNCHANGED <<regA, index, interrupt_rtc, intr, pc, callVars, ticked, below>>

(* Mutant: the handler does not read register C.                           *)
HandlerNoC ==
    /\ intr = 1 /\ raised = 1
    /\ index' = "C"
    /\ interrupt_rtc' = 1
    /\ raised' = 2
    /\ ticked' = TRUE
    /\ below' = [k \in 1 .. Len(below) |-> [pc |-> below[k].pc, ticked |-> TRUE]]
    /\ UNCHANGED <<regA, intr, pc, callVars>>

(* rtc_handler: register C is selected and read, the flag raised.          *)
rtc_handler ==
    /\ intr = 1 /\ raised = 1
    /\ index' = "C"
    /\ raised' = 0
    /\ interrupt_rtc' = 1
    /\ ticked' = TRUE
    /\ below' = [k \in 1 .. Len(below) |-> [pc |-> below[k].pc, ticked |-> TRUE]]
    /\ UNCHANGED <<regA, intr, pc, callVars>>

(* An Alt+Fn opens a terminal: its programs run on top of the reader, use  *)
(* the same clock, and end.                                                *)
Suspend ==
    /\ intr = 1
    /\ Len(below) < MaxDepth
    /\ below' = Append(below, [pc |-> pc, ticked |-> ticked])
    /\ pc' = "user"
    /\ ticked' = FALSE
    /\ UNCHANGED <<devVars, interrupt_rtc, intr, callVars>>

Resume ==
    /\ pc = "user"
    /\ below # <<>>
    /\ pc' = below[Len(below)].pc
    /\ ticked' = below[Len(below)].ticked
    /\ below' = SubSeq(below, 1, Len(below) - 1)
    /\ UNCHANGED <<devVars, interrupt_rtc, intr, callVars>>

Driver == SelectToRead \/ Load \/ SelectToWrite \/ Store \/ LowerFlag \/ SeeFlag \/ ReturnRead

Next ==
    \/ \E freq \in Freqs : Call(freq)
    \/ SelectToRead \/ Load \/ SelectToWrite \/ Store
    \/ Read \/ LowerFlag \/ SeeFlag \/ ReturnRead
    \/ Tick
    \/ rtc_handler
    \/ Suspend
    \/ Resume

Spec == Init /\ [][Next]_vars

(* The chip ticks, a pending interrupt is taken when IF allows it, and     *)
(* the code in the driver goes on.                                         *)
FairSpec == Spec /\ WF_vars(Tick) /\ WF_vars(rtc_handler) /\ WF_vars(Driver)

----------------------------------------------------------------------------
Writing == {"select", "load", "reselect", "store"}
Place == Writing \cup {"user", "lower", "wait", "seen"}
Suspended == [pc : Place, ticked : BOOLEAN]

(* Types of the driver's state and the chip's.                             *)
TypeOK ==
    /\ regA \in [hi : 0 .. 15, rate : 0 .. 15]
    /\ index \in {"A", "B", "C"}
    /\ raised \in {0, 1}
    /\ interrupt_rtc \in {0, 1}
    /\ intr \in {0, 1}
    /\ pc \in Place
    /\ prev_ \in 0 .. 15
    /\ val_freq \in -1 .. 15
    /\ wanted \in [hi : 0 .. 15, rate : 0 .. 15]
    /\ ticked \in BOOLEAN
    /\ below \in Seq(Suspended)

(* Once open or write has returned, register A holds the rate and still    *)
(* its upper half: the handler, which moves the index port, has not come   *)
(* between the accesses.  (An invalid frequency "is same as case 2 Hz".)   *)
RateSet == pc \notin Writing => regA = wanted

(* read returns only after an interrupt that came since it was called,     *)
(* although other programs, run on top of it, lower the same flag.         *)
ReadIsFresh == pc = "seen" => ticked

----------------------------------------------------------------------------
(* The inductive invariant behind RateSet and ReadIsFresh.                 *)

(* The accesses to the chip run with IF clear, so what has been selected,  *)
(* and what has been read, is still so when it is used.                    *)
AccessAtomic ==
    /\ pc \in Writing \cup {"seen"} => intr = 0
    /\ pc \in {"load", "store"} => index = "A"
    /\ pc \in {"reselect", "store"} => prev_ = wanted.hi
    /\ pc \in Writing => val_freq = wanted.rate
    /\ regA.hi = wanted.hi

(* A raised flag seen by a reader, running or suspended, was raised since  *)
(* that reader's call; readers are suspended only where IF is set.         *)
FlagIsFresh ==
    /\ pc = "wait" /\ interrupt_rtc = 1 => ticked
    /\ \A k \in 1 .. Len(below) :
          /\ below[k].pc \in {"user", "lower", "wait"}
          /\ below[k].pc = "wait" /\ interrupt_rtc = 1 => below[k].ticked

Inv == TypeOK /\ RateSet /\ ReadIsFresh /\ AccessAtomic /\ FlagIsFresh

(* A read that waits returns, also one that is resumed after programs on   *)
(* top of it used the same flag, or else the shell of another terminal is  *)
(* started on top of it.                                                   *)
ReadReturns == (pc = "wait") ~> (pc = "user")
============================================================================
