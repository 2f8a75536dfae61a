------------------------------ MODULE Terminal ------------------------------
(***************************************************************************)
(* The line discipline: keyboard_handler, the interrupt handler of         *)
(* student-distrib/keyboard.c, and read_terminal, which user programs      *)
(* reach through the read system call.                                     *)
(*                                                                         *)
(* The handler runs with interrupts disabled: one action per key event.    *)
(* read() starts with sti, so a key event comes between any two            *)
(* instructions of read_terminal.  A statement on X[disp_term_k] is two    *)
(* actions: Load takes disp_term_k into at, and the access to X[at]        *)
(* follows; the copy loop goes byte by byte, memset word by word.          *)
(*                                                                         *)
(* An Alt+Fn that opens a terminal runs a new shell on top of whatever the *)
(* key interrupted; suspended holds the interrupted readers.               *)
(***************************************************************************)
EXTENDS Integers, Sequences

CONSTANTS
    NumTerm,        \* terminals (3 in the code)
    KEYBOARDSIZE,   \* the most bytes a read copies (127); a buffer has one more
    Chars,          \* printable characters
    Sessions,       \* the kinds of key a user presses: one of these sets
    BelowZero,      \* bounds on index: Backspaces past the start of a line
    MaxIndex,       \*   and characters past MaxIndex are not typed,
    Short,          \*   nor past Short by a user of several terminals
    Counts,         \* the lengths that programs pass to read ...
    FewCounts,      \* ... and those of a user of several terminals
    WORD            \* the bytes of keyboard_buf one store of memset clears (4)

ASSUME TermAssumption == NumTerm \in Nat \ {0} /\ KEYBOARDSIZE \in Nat \ {0}

ASSUME KeysAssumption ==
    /\ Sessions \subseteq SUBSET {"char", "l", "enter", "backspace", "release", "ctrl", "alt", "extended", "fn"}
    /\ Chars \cap {"nul", "nl"} = {}

ASSUME BoundsAssumption ==
    BelowZero \in Nat /\ MaxIndex \in Nat \ {0} /\ Short \in Nat /\ Counts \cup FewCounts \subseteq Int
    /\ WORD \in Nat \ {0}

Term == 0 .. NumTerm - 1
Byte == Chars \cup {"nul", "nl"}
Cell == 0 .. KEYBOARDSIZE       \* keyboard_buf[KEYBOARD_BUF_SIZE]
NotLoaded == -1

VARIABLES
    keyboard_buf,           \* terminals[t].keyboard_buf
    index,                  \* index[t]
    enter_read,             \* enter_read[t]
    buffer_enable,          \* terminals[t].buffer_enable
    number_printed_line,    \* one counter for all terminals
    disp_term_k,
    active_terminal,
    terminal_flag,          \* terminals[t].terminal_flag
    control_status,
    alt_status,
    pc,                     \* the statement of read_terminal; "user" outside it
    at,                     \* the disp_term_k its statement has loaded
    i,                      \* its loop variable
    num,                    \* its length argument
    cleared,                \* the bytes memset has cleared
    buf,                    \* the bytes it has copied
    home,                   \* the terminal the running shell was started for
    suspended,              \* readers below an Alt+Fn that opened a terminal
    keys                    \* the kinds of key pressed in this session

lineVars == <<keyboard_buf, index, number_printed_line>>
keyVars  == <<control_status, alt_status>>
termVars == <<disp_term_k, active_terminal, terminal_flag, keys>>
readVars == <<pc, at, i, num, cleared, buf, home, suspended>>
vars     == <<lineVars, enter_read, buffer_enable, keyVars, termVars, readVars>>

(* init_keyboard and process_init, with the first shell running.           *)
Init ==
    /\ keyboard_buf = [t \in Term |-> [k \in Cell |-> "nul"]]
    /\ index = [t \in Term |-> 0]
    /\ enter_read = [t \in Term |-> 0]
    /\ buffer_enable = [t \in Term |-> 0]
    /\ number_printed_line = 0
    /\ disp_term_k = 0
    /\ active_terminal = 0
    /\ terminal_flag = [t \in Term |-> IF t = 0 THEN 0 ELSE 1]
    /\ control_status = 0
    /\ alt_status = 0
    /\ pc = "user"
    /\ at = NotLoaded
    /\ i = 0
    /\ num = 0
    /\ cleared = 0
    /\ buf = <<>>
    /\ home = 0
    /\ suspended = <<>>
    /\ keys \in Sessions

----------------------------------------------------------------------------
(* keyboard_handler, one action per kind of scan code.                     *)

(* A store into keyboard_buf; one outside it hits the fields beside it.    *)
Store(line, ix, c) == [k \in Cell |-> IF k = ix THEN c ELSE line[k]]

(* Every event first takes the displayed terminal for its own and clears   *)
(* its Enter flag; v is what the rest of the handler leaves in the flag.   *)
Event(v) ==
    /\ disp_term_k' = active_terminal
    /\ enter_read' = [enter_read EXCEPT ![active_terminal] = v]
    /\ UNCHANGED keys

Longest == IF "fn" \in keys THEN Short ELSE MaxIndex

InBounds(n) ==
    index[active_terminal] + n \in -BelowZero .. Longest /\ number_printed_line + n <= Longest

(* A printable key: stored and echoed, unless Alt counts as held.          *)
PressChar(c) ==
    LET t == active_terminal
    IN  /\ Event(0)
        /\ IF alt_status = 1 THEN UNCHANGED lineVars
           ELSE /\ InBounds(1)
                /\ keyboard_buf' = [keyboard_buf EXCEPT ![t] = Store(@, index[t], c)]
                /\ index' = [index EXCEPT ![t] = @ + 1]
                /\ number_printed_line' = number_printed_line + 1
        /\ UNCHANGED <<buffer_enable, keyVars, active_terminal, terminal_flag, readVars>>

Char == "char" \in keys /\ \E c \in Chars : PressChar(c)

(* Control+L: the screen is cleared and nothing is stored.                 *)
CtrlL ==
    /\ "l" \in keys
    /\ control_status = 1
    /\ Event(0)
    /\ UNCHANGED <<lineVars, buffer_enable, keyVars, active_terminal, terminal_flag, readVars>>

(* Mutant: Enter does not restart the count of echoed characters.          *)
CountGoesOn == number_printed_line + 1

(* The count behind an Enter: restarted, then the newline is echoed.       *)
CountAfterEnter == 1

(* Enter: key_noprint stores a newline and, when a read is on, raises the  *)
(* flag; then the handler stores the newline again like any character.     *)
Enter ==
    LET t  == active_terminal
        ix == index[t]
        one == Store(keyboard_buf[t], ix, "nl")
    IN  /\ "enter" \in keys
        /\ InBounds(2)
        /\ Event(buffer_enable[t])
        /\ IF alt_status = 1
           THEN /\ keyboard_buf' = [keyboard_buf EXCEPT ![t] = one]
                /\ index' = [index EXCEPT ![t] = ix + 1]
                /\ number_printed_line' = 0
           ELSE /\ keyboard_buf' = [keyboard_buf EXCEPT ![t] = Store(one, ix + 1, "nl")]
                /\ index' = [index EXCEPT ![t] = ix + 2]
                /\ number_printed_line' = CountAfterEnter
        /\ UNCHANGED <<buffer_enable, keyVars, active_terminal, terminal_flag, readVars>>

(* Backspace: the guard compares the ARRAY index with 0, so it is only the *)
(* count of echoed characters that stops it.                               *)
Backspace ==
    LET t == active_terminal
    IN  /\ "backspace" \in keys
        /\ Event(0)
        /\ \/ /\ number_printed_line # 0
              /\ InBounds(-1)
              /\ keyboard_buf' = [keyboard_buf EXCEPT ![t] = Store(@, index[t] - 1, "nul")]
              /\ index' = [index EXCEPT ![t] = @ - 1]
              /\ number_printed_line' = number_printed_line - 1
           \/ number_printed_line = 0 /\ UNCHANGED lineVars
        /\ UNCHANGED <<buffer_enable, keyVars, active_terminal, terminal_flag, readVars>>

(* The release of a key, or a key without a character: only the prologue.  *)
Release ==
    /\ "release" \in keys
    /\ Event(0)
    /\ UNCHANGED <<lineVars, buffer_enable, keyVars, active_terminal, terminal_flag, readVars>>

Control ==
    /\ "ctrl" \in keys
    /\ Event(0)
    /\ control_status' = 1 - control_status
    /\ UNCHANGED <<lineVars, buffer_enable, alt_status, active_terminal, terminal_flag, readVars>>

(* Alt is pressed or released.                                             *)
Alt ==
    /\ "alt" \in keys
    /\ Event(0)
    /\ alt_status' \in {0, 1}
    /\ UNCHANGED <<lineVars, buffer_enable, control_status, active_terminal, terminal_flag, readVars>>

(* The prefix 0xE0 of the arrow keys and others is RIGHT_ALT_PRESS, and    *)
(* RIGHT_ALT_RELEASE only in the else branch.                              *)
Extended ==
    /\ "extended" \in keys
    /\ Event(0)
    /\ alt_status' = 1
    /\ UNCHANGED <<lineVars, buffer_enable, control_status, active_terminal, terminal_flag, readVars>>

(* What the terminal's shell leaves of an interrupted reader.              *)
Suspend ==
    suspended' = Append(suspended, [pc |-> pc, at |-> at, i |-> i, num |-> num,
                                    cleared |-> cleared, buf |-> buf, home |-> home])

Idle == pc' = "user" /\ at' = NotLoaded /\ i' = 0 /\ num' = 0 /\ cleared' = 0 /\ buf' = <<>>

(* Alt+F(t+1): the flag cleared is the one of the terminal being left.     *)
(* display_switch to a terminal without a shell starts one there, unless   *)
(* the process table is full: execute then fails and nobody looks.         *)
Fn(t) ==
    /\ "fn" \in keys
    /\ enter_read' = [enter_read EXCEPT ![active_terminal] = 0]
    /\ \/ /\ alt_status = 1
          /\ disp_term_k' = t
          /\ active_terminal' = t
          /\ \/ UNCHANGED <<terminal_flag, readVars>>
             \/ /\ terminal_flag[t] = 1
                /\ terminal_flag' = [terminal_flag EXCEPT ![t] = 0]
                /\ Suspend
                /\ Idle
                /\ home' = t
       \/ /\ alt_status = 0
          /\ disp_term_k' = active_terminal
          /\ UNCHANGED <<active_terminal, terminal_flag, readVars>>
    /\ UNCHANGED <<lineVars, buffer_enable, keyVars, keys>>

Key ==
    \/ Char \/ CtrlL \/ Enter \/ Backspace \/ Release \/ Control \/ Alt \/ Extended
    \/ \E t \in Term : Fn(t)

----------------------------------------------------------------------------
(* read_terminal, on whatever terminal is displayed when a statement loads *)
(* disp_term_k.                                                            *)
StartRead ==
    /\ pc = "user"
    /\ num' \in (IF "fn" \in keys THEN FewCounts ELSE Counts)
    /\ pc' = "enable"
    /\ UNCHANGED <<lineVars, enter_read, buffer_enable, keyVars, termVars,
                   at, i, cleared, buf, home, suspended>>

(* The condition of the copy loop.                                         *)
MoreBytes == i < num /\ i < KEYBOARDSIZE

Load ==
    /\ pc # "user"
    /\ at = NotLoaded
    /\ pc = "copy" => MoreBytes
    /\ at' = disp_term_k
    /\ UNCHANGED <<lineVars, enter_read, buffer_enable, keyVars, termVars,
                   pc, i, num, cleared, buf, home, suspended>>

(* The terminal's part of a statement, and the statement after it.         *)
Access(from, to) ==
    /\ pc = from
    /\ at # NotLoaded
    /\ at' = NotLoaded
    /\ pc' = to
    /\ UNCHANGED <<number_printed_line, keyVars, termVars, num, home, suspended>>

(* Mutant: the wait starts without enabling the buffer.                    *)
WaitOnly ==
    /\ Access("enable", "wait")
    /\ UNCHANGED <<keyboard_buf, index, enter_read, buffer_enable, i, cleared, buf>>

EnableBuffer ==
    /\ Access("enable", "wait")
    /\ buffer_enable' = [buffer_enable EXCEPT ![at] = 1]
    /\ UNCHANGED <<keyboard_buf, index, enter_read, i, cleared, buf>>

(* The wait loop goes round, or ends.                                      *)
Poll ==
    /\ Access("wait", "wait")
    /\ enter_read[at] = 0
    /\ UNCHANGED <<keyboard_buf, index, enter_read, buffer_enable, i, cleared, buf>>

SeeEnter ==
    /\ Access("wait", "copy")
    /\ enter_read[at] # 0
    /\ i' = 0
    /\ buf' = <<>>
    /\ UNCHANGED <<keyboard_buf, index, enter_read, buffer_enable, cleared>>

(* The copy loop takes byte i ...                                          *)
CopyByte ==
    /\ Access("copy", "test")
    /\ buf' = Append(buf, keyboard_buf[at][i])
    /\ UNCHANGED <<keyboard_buf, index, enter_read, buffer_enable, i, cleared>>

(* Mutant: the loop does not advance.                                      *)
TestByteStuck ==
    /\ \/ Access("test", "memset") /\ keyboard_buf[at][i] = "nl"
       \/ Access("test", "copy") /\ keyboard_buf[at][i] # "nl"
    /\ buf' = SubSeq(buf, 1, i)
    /\ UNCHANGED <<keyboard_buf, index, enter_read, buffer_enable, i, cleared>>

(* ... looks at it again and stops behind a newline ...                    *)
TestByte ==
    /\ \/ Access("test", "memset") /\ keyboard_buf[at][i] = "nl" /\ i' = i
       \/ Access("test", "copy") /\ keyboard_buf[at][i] # "nl" /\ i' = i + 1
    /\ UNCHANGED <<keyboard_buf, index, enter_read, buffer_enable, cleared, buf>>

(* ... or at the end of the buffer, or of the program's.                   *)
CopyLimit ==
    /\ pc = "copy"
    /\ at = NotLoaded
    /\ ~MoreBytes
    /\ pc' = "memset"
    /\ UNCHANGED <<lineVars, enter_read, buffer_enable, keyVars, termVars,
                   at, i, num, cleared, buf, home, suspended>>

(* memset, a store at a time; the terminal is its argument, loaded once.   *)
Cleared(line) == [k \in Cell |-> IF k \in cleared .. cleared + WORD - 1 THEN "nul" ELSE line[k]]

ClearWord ==
    /\ pc = "memset"
    /\ at # NotLoaded
    /\ keyboard_buf' = [keyboard_buf EXCEPT ![at] = Cleared(@)]
    /\ \/ cleared + WORD \in Cell /\ cleared' = cleared + WORD /\ UNCHANGED <<pc, at>>
       \/ cleared + WORD \notin Cell /\ cleared' = 0 /\ pc' = "index" /\ at' = NotLoaded
    /\ UNCHANGED <<index, number_printed_line, enter_read, buffer_enable, keyVars, termVars,
                   i, num, buf, home, suspended>>

ResetIndex ==
    /\ Access("index", "flag")
    /\ index' = [index EXCEPT ![at] = 0]
    /\ UNCHANGED <<keyboard_buf, enter_read, buffer_enable, i, cleared, buf>>

(* Mutant: the Enter flag stays up.                                        *)
KeepEnter ==
    /\ Access("flag", "disable")
    /\ UNCHANGED <<keyboard_buf, index, enter_read, buffer_enable, i, cleared, buf>>

ResetEnter ==
    /\ Access("flag", "disable")
    /\ enter_read' = [enter_read EXCEPT ![at] = 0]
    /\ UNCHANGED <<keyboard_buf, index, buffer_enable, i, cleared, buf>>

(* Mutant: every terminal's buffer is disabled.                            *)
DisableAll ==
    /\ pc = "disable"
    /\ at # NotLoaded
    /\ buffer_enable' = [t \in Term |-> 0]
    /\ Idle
    /\ UNCHANGED <<lineVars, enter_read, keyVars, termVars, home, suspended>>

(* ... and return; buf is the program's again.                             *)
DisableBuffer ==
    /\ pc = "disable"
    /\ at # NotLoaded
    /\ buffer_enable' = [buffer_enable EXCEPT ![at] = 0]
    /\ Idle
    /\ UNCHANGED <<lineVars, enter_read, keyVars, termVars, home, suspended>>

(* A shell that an Alt+Fn started ends and what it interrupted goes on.    *)
(* (Ending on its own terminal it is replaced by another shell.)           *)
ShellEnds ==
    /\ pc = "user"
    /\ suspended # <<>>
    /\ active_terminal # home
    /\ LET r == suspended[Len(suspended)]
       IN  /\ pc' = r.pc /\ at' = r.at /\ i' = r.i /\ num' = r.num
           /\ cleared' = r.cleared /\ buf' = r.buf /\ home' = r.home
    /\ suspended' = SubSeq(suspended, 1, Len(suspended) - 1)
    /\ UNCHANGED <<lineVars, enter_read, buffer_enable, keyVars, termVars>>

Read ==
    \/ Load \/ EnableBuffer \/ Poll \/ SeeEnter \/ CopyByte \/ TestByte \/ CopyLimit
    \/ ClearWord \/ ResetIndex \/ ResetEnter \/ DisableBuffer

Next == Key \/ StartRead \/ Read \/ ShellEnds

Spec == Init /\ [][Next]_vars

(* The program in read_terminal has the CPU whenever no handler runs.      *)
FairSpec == Spec /\ WF_vars(Read)

----------------------------------------------------------------------------
(* Types; index may go below 0, the count of echoed characters may not.    *)
Statement ==
    {"user", "enable", "wait", "copy", "test", "memset", "index", "flag", "disable"}

(* Outside a read nothing is loaded, and a byte that is copied or tested   *)
(* lies before the last one.                                               *)
Placed(statement, terminal, k) ==
    /\ statement = "user" => terminal = NotLoaded
    /\ statement = "test" \/ (statement = "copy" /\ terminal # NotLoaded) => k < KEYBOARDSIZE

Reader ==
    {r \in [pc : Statement, at : Term \cup {NotLoaded}, i : 0 .. KEYBOARDSIZE, num : Int,
            cleared : Cell, buf : Seq(Byte), home : Term] : Placed(r.pc, r.at, r.i)}

TypeOK ==
    /\ keyboard_buf \in [Term -> [Cell -> Byte]]
    /\ index \in [Term -> Int]
    /\ enter_read \in [Term -> {0, 1}]
    /\ buffer_enable \in [Term -> {0, 1}]
    /\ number_printed_line \in Nat
    /\ disp_term_k \in Term
    /\ active_terminal \in Term
    /\ terminal_flag \in [Term -> {0, 1}]
    /\ control_status \in {0, 1}
    /\ alt_status \in {0, 1}
    /\ pc \in Statement
    /\ at \in Term \cup {NotLoaded}
    /\ i \in 0 .. KEYBOARDSIZE
    /\ num \in Int
    /\ cleared \in Cell
    /\ buf \in Seq(Byte)
    /\ home \in Term
    /\ Placed(pc, at, i)
    /\ suspended \in Seq(Reader)
    /\ keys \in Sessions

(* A terminal that is not on display keeps its unfinished line and its     *)
(* read state, whatever keys come and whichever program reads.             *)
StaysAsLeft ==
    [][\A t \in Term : t # active_terminal =>
          UNCHANGED <<keyboard_buf[t], index[t], enter_read[t], buffer_enable[t]>>]_vars

(* read_terminal gives a program a line: the bytes up to a newline.        *)
EndsInNewline == buf # <<>> /\ buf[Len(buf)] = "nl"

Copied == pc \in {"memset", "index", "flag", "disable"}

ReadsLine == Copied => EndsInNewline

(* The value that read_terminal returns, ++i, counts the bytes it copied.  *)
ReturnsCount == Copied => i + 1 = Len(buf)

(* A program that waits for a line waits on a terminal whose Enter key     *)
(* raises the flag it polls.                                               *)
Listens == buffer_enable[disp_term_k] = 1

WaitsListening == pc = "wait" => Listens

(* An Enter whose flag a waiting program polls ends the wait.              *)
EnterServed == (pc = "wait" /\ enter_read[disp_term_k] = 1) ~> (pc # "wait")

(* Backspace moves index back to a previous position, so never below 0.    *)
NoUnderrun == \A t \in Term : index[t] >= 0

(* The characters of a line stay within keyboard_buf.                      *)
NoOverrun == \A t \in Term : index[t] <= KEYBOARDSIZE + 1
=============================================================================
