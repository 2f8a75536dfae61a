-------------------------- MODULE TerminalHistory --------------------------
(***************************************************************************)
(* The line discipline with a history, for what read_terminal promises as  *)
(* long as the display stays where it is: each of its statements works on  *)
(* the terminal that was displayed when the statement looked.              *)
(***************************************************************************)
EXTENDS Terminal

VARIABLES
    moved,          \* the display has changed since the running read began
    ahead,          \* a key was pressed while a read copied and reset its line
    below           \* Enter has been pressed with index below 0

histVars == <<vars, moved, ahead, below>>

HInit == Init /\ moved = FALSE /\ ahead = FALSE /\ below = FALSE

Opens == Len(suspended') > Len(suspended)
Resumes == Len(suspended') < Len(suspended)

(* A new shell begins its read later; one that is resumed was left by an   *)
(* Alt+Fn.                                                                 *)
HNext ==
    /\ Next
    /\ moved' = IF StartRead \/ Opens THEN FALSE
                ELSE moved \/ Resumes \/ active_terminal' # active_terminal
    /\ ahead' = (ahead \/ (pc \in {"copy", "test", "memset", "index"} /\ Key /\ index' # index))
    /\ below' = (below \/ (Enter /\ index[active_terminal] < 0))

(* The program in read_terminal has the CPU whenever no handler runs.      *)
HSpec == HInit /\ [][HNext]_histVars /\ WF_vars(Read)

----------------------------------------------------------------------------
(* A terminal that is not on display keeps its unfinished line and its     *)
(* read state whatever keys come; and a read changes no such terminal      *)
(* either, whichever shell it runs under, unless the display has moved     *)
(* since it began: then a statement that had looked the display up before  *)
(* finishes on the terminal the user has left.                             *)
Isolated ==
    [][\A t \in Term : t # active_terminal /\ (moved => Key) =>
          UNCHANGED <<keyboard_buf[t], index[t], enter_read[t], buffer_enable[t]>>]_histVars

(* As long as the newline of every Enter has a place in the buffer, what   *)
(* read_terminal returns ends with the newline of an Enter, or is as much  *)
(* as the program asked for, whatever keys come between its instructions,  *)
(* whichever lines other programs have begun on this terminal and whoever's *)
(* shell ended before: it never runs to the end of the buffer, nor answers *)
(* a second read with the same Enter.                                      *)
Whole == EndsInNewline \/ (num < KEYBOARDSIZE /\ Len(buf) >= num)

ReadIsLine == Copied /\ ~moved /\ ~below => Whole

(* A program that waits for a line waits on a terminal whose Enter key     *)
(* raises the flag it polls, though other reads of the same terminal end   *)
(* and turn it off.                                                        *)
ReaderListens == pc = "wait" /\ ~moved => Listens

(* With a single terminal in use and nothing typed into a line that a read *)
(* is taking away, the count of echoed characters, which is all that stops *)
(* a Backspace, is ahead of index by at most one: Backspace goes at most   *)
(* one place below the start of the line (the second newline of an Enter). *)
UnderrunByOne ==
    ~ahead /\ "fn" \notin keys =>
        index[0] >= -1 /\ number_printed_line <= index[0] + 1

(* Once it has seen the Enter, a read returns, however many keys follow,   *)
(* unless an Alt+Fn suspends it for a new shell.                           *)
ReadReturns == pc = "copy" ~> pc = "user"

----------------------------------------------------------------------------
(* The inductive invariant behind them.                                    *)

(* The handler's terminal is the one on display, and an Enter flag is up   *)
(* nowhere else: every key event clears it, and so does an Alt+Fn.         *)
OneTerminal ==
    /\ disp_term_k = active_terminal
    /\ \A t \in Term : t # active_terminal => enter_read[t] = 0
    /\ "fn" \notin keys => active_terminal = 0 /\ suspended = <<>>

(* The flag is up from an Enter to the next key event, or until the read   *)
(* takes it down.                                                          *)
Flagged == enter_read[active_terminal] # 0 => number_printed_line <= 1

(* A read that nobody typed into resets index after an Enter.              *)
Undisturbed ==
    pc \in {"copy", "test", "memset", "index"} /\ ~ahead /\ "fn" \notin keys => number_printed_line <= 1

(* A statement of a read that the display stayed with has loaded it.       *)
Fresh == ~moved => at \in {NotLoaded, active_terminal}

HInv ==
    /\ TypeOK /\ moved \in BOOLEAN /\ ahead \in BOOLEAN /\ below \in BOOLEAN
    /\ OneTerminal /\ Fresh /\ Flagged /\ Undisturbed
    /\ ReaderListens /\ UnderrunByOne

(* At or behind from there is a newline that Backspace cannot reach: it    *)
(* lies before the characters that the count says can be taken back.       *)
LineWaits(from) ==
    \E k \in from .. KEYBOARDSIZE - 1 :
        /\ keyboard_buf[active_terminal][k] = "nl"
        /\ k < index[active_terminal] - number_printed_line

(* The newline of the Enter that raised the flag is in the buffer until a  *)
(* read resets it, and a read that copies has it still before it.          *)
Resetting == pc \in {"memset", "index", "flag"} /\ at \in {NotLoaded, active_terminal}

FlagHasLine == enter_read[active_terminal] # 0 => below \/ Resetting \/ LineWaits(0)

Copying ==
    ~moved /\ ~below =>
        /\ pc = "copy" => LineWaits(i) /\ Len(buf) = i
        /\ pc = "test" => LineWaits(i) /\ Len(buf) = i + 1 /\ buf[i + 1] = keyboard_buf[active_terminal][i]

LineInv == FlagHasLine /\ Copying /\ ReadIsLine
============================================================================
