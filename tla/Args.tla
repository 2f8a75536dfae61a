-------------------------------- MODULE Args --------------------------------
(***************************************************************************)
(* Command lines: how execute (student-distrib/syscall.c) splits one into  *)
(* the program's name and its arguments, keeps the arguments in the PCB,   *)
(* and how getargs hands them to the program.                              *)
(*                                                                         *)
(* A command is a C string; characters are model strings, "nul" the        *)
(* terminator, which the sequence of a command leaves out.                 *)
(***************************************************************************)
EXTENDS Integers, Sequences

CONSTANTS
    NAMESIZE,       \* size of cmds (32 in the code)
    ARGSIZE,        \* size of arg_dat and pcb_t.args (128)
    NumProc,        \* PCBs
    Letters,        \* characters other than blank, newline and nul
    Commands,       \* command lines that programs pass to execute
    Programs,       \* names of executable files
    Counts          \* values of nbytes that programs pass to getargs

(* A terminal's read returns fewer bytes than arg_dat has.                 *)
ArgsConstants ==
    /\ NAMESIZE \in Nat \ {0} /\ NumProc \in Nat \ {0}
    /\ ARGSIZE \in Nat \ {0}
    /\ \A c \in Commands : c \in Seq(Letters \cup {" ", "nl"}) /\ Len(c) < ARGSIZE
    /\ Letters \cap {" ", "nl", "nul"} = {} /\ Counts \subseteq Int
    /\ \A name \in Programs : name \in Seq(Letters) /\ Len(name) < NAMESIZE

Proc == 0 .. NumProc - 1

VARIABLES
    args,           \* args[p]: pcb_t.args, an array of ARGSIZE bytes
    top,            \* the running process; those below wait for it
    typed,          \* typed[p]: the command that started p, while p is not halted
    cmds_top,       \* the highest index of cmds that execute, if it was the
                    \*   last call, wrote
    reply           \* the last getargs: [who, nbytes, val, buf]

vars == <<args, top, typed, cmds_top, reply>>

NoReply == [who |-> 0, nbytes |-> 0, val |-> -1, buf |-> <<>>]

(* The PCBs are zero; the first shell runs.                                *)
Init ==
    /\ args = [p \in Proc |-> [k \in 0 .. ARGSIZE - 1 |-> "nul"]]
    /\ top = 0
    /\ typed = [p \in Proc |-> <<>>]
    /\ cmds_top = 0
    /\ reply = NoReply

----------------------------------------------------------------------------
(* command[k]                                                              *)
At(command, k) == IF k < Len(command) THEN command[k + 1] ELSE "nul"

(* Where the loop over the name stops: its length.                         *)
NameStops(command, k) == k = NAMESIZE \/ At(command, k) \in {"nul", " ", "nl"}
NameLen(command) ==
    CHOOSE n \in 0 .. NAMESIZE :
        NameStops(command, n) /\ \A k \in 0 .. n - 1 : ~NameStops(command, k)

Name(command) == SubSeq(command, 1, NameLen(command))

(* arg_dat: what follows the blank behind the name, up to a newline.       *)
ArgEnd(command, k) == At(command, k) \in {"nl", "nul"}
ArgStop(command, from) ==
    CHOOSE n \in from .. Len(command) + 1 :
        ArgEnd(command, n) /\ \A k \in from .. n - 1 : ~ArgEnd(command, k)

ArgDat(command) ==
    LET n == NameLen(command)
    IN  IF At(command, n) = " " THEN SubSeq(command, n + 2, ArgStop(command, n + 1)) ELSE <<>>

(* Mutant: no terminator behind the copy.                                  *)
strcpyOpen(dest, src) ==
    [k \in DOMAIN dest |-> IF k < Len(src) THEN src[k + 1] ELSE dest[k]]

(* strcpy: the bytes behind the terminator stay what they were.            *)
strcpy(dest, src) ==
    [k \in DOMAIN dest |-> IF k < Len(src) THEN src[k + 1]
                           ELSE IF k = Len(src) THEN "nul" ELSE dest[k]]

strlen(a) == CHOOSE n \in DOMAIN a : a[n] = "nul" /\ \A k \in 0 .. n - 1 : a[k] # "nul"

(* execute: the program's PCB takes the arguments ...                      *)
Execute(command) ==
    /\ Name(command) \in Programs
    /\ top + 1 \in Proc
    /\ cmds_top' = NameLen(command)
    /\ args' = [args EXCEPT ![top + 1] = strcpy(@, ArgDat(command))]
    /\ typed' = [typed EXCEPT ![top + 1] = command]
    /\ top' = top + 1
    /\ reply' = NoReply

(* ... or there is no such program (or no name at all, or no PCB).  A name *)
(* that begins with quit ends the caller: that is Process.                 *)
ExecuteFails(command) ==
    /\ Name(command) \notin Programs \/ top + 1 \notin Proc
    /\ cmds_top' = NameLen(command)
    /\ reply' = NoReply
    /\ UNCHANGED <<args, top, typed>>

(* getargs: all of the string or nothing.                                  *)
Fits(nbytes, len) == nbytes > 0 /\ nbytes >= len + 1

getargs(nbytes) ==
    LET len == strlen(args[top])
    IN  /\ reply' = [who |-> top, nbytes |-> nbytes,
                     val |-> IF Fits(nbytes, len) THEN 0 ELSE -1,
                     buf |-> IF Fits(nbytes, len) THEN [k \in 1 .. len |-> args[top][k - 1]] ELSE <<>>]
        /\ cmds_top' = 0
        /\ UNCHANGED <<args, top, typed>>

(* A program ends; its PCB, and the arguments in it, stay as they are.     *)
Halt ==
    /\ top > 0
    /\ top' = top - 1
    /\ cmds_top' = 0
    /\ reply' = NoReply
    /\ typed' = [typed EXCEPT ![top] = <<>>]
    /\ UNCHANGED args

Next ==
    \/ \E command \in Commands : Execute(command) \/ ExecuteFails(command)
    \/ \E nbytes \in Counts : getargs(nbytes)
    \/ Halt

Spec == Init /\ [][Next]_vars

----------------------------------------------------------------------------
(* Types of the PCBs' argument arrays.                                     *)
TypeOK ==
    /\ args \in [Proc -> [0 .. ARGSIZE - 1 -> Letters \cup {" ", "nul"}]]
    /\ top \in Proc
    /\ cmds_top \in 0 .. NAMESIZE

Line(command) ==
    CHOOSE n \in 0 .. Len(command) :
        At(command, n) \in {"nl", "nul"} /\ \A k \in 0 .. n - 1 : At(command, k) # "nl"

(* rest is what follows the first blank of the command's line.             *)
FollowsBlank(command, rest) ==
    LET line == SubSeq(command, 1, Line(command))
    IN  \/ \E n \in 1 .. Len(line) :
              /\ line[n] = " " /\ \A k \in 1 .. n - 1 : line[k] # " "
              /\ rest = SubSeq(line, n + 1, Len(line))
        \/ rest = <<>> /\ \A k \in 1 .. Len(line) : line[k] # " "

(* getargs gives a program exactly what was typed behind its name, also    *)
(* when its PCB held longer arguments before and when it has executed      *)
(* programs itself; it refuses only a buffer too small for it.             *)
GetsWhatWasTyped ==
    \/ reply = NoReply
    \/ reply.val = 0 /\ FollowsBlank(typed[reply.who], reply.buf)
    \/ /\ reply.val = -1
       /\ \A rest \in {SubSeq(typed[reply.who], n + 1, Line(typed[reply.who])) : n \in 0 .. Len(typed[reply.who])} :
             FollowsBlank(typed[reply.who], rest) => reply.nbytes <= Len(rest)

(* The name and its terminator stay within cmds: "32 is the maximum size   *)
(* of the command name".                                                   *)
NameFits == cmds_top < NAMESIZE

(* getargs: "if no args, return FAILURE".                                  *)
NoArgsFail ==
    reply # NoReply /\ FollowsBlank(typed[reply.who], <<>>) => reply.val = -1

----------------------------------------------------------------------------
(* The inductive invariant behind GetsWhatWasTyped: the PCB of a program   *)
(* that has not halted holds what followed its name, then a terminator.    *)
Started(command) == command = <<>> \/ (command \in Commands /\ Name(command) \in Programs)

Holds(arr, src) ==
    /\ Len(src) < ARGSIZE
    /\ \A k \in 0 .. Len(src) - 1 : arr[k] = src[k + 1]
    /\ arr[Len(src)] = "nul"

ArgsKept ==
    /\ typed \in [Proc -> Commands \cup {<<>>}]
    /\ \A p \in 0 .. top : Started(typed[p]) /\ Holds(args[p], ArgDat(typed[p]))

ArgInv == TypeOK /\ ArgsKept /\ GetsWhatWasTyped
=============================================================================
