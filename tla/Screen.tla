------------------------------- MODULE Screen -------------------------------
(***************************************************************************)
(* The text screen: putc, scroll, clear and the cursor of                  *)
(* student-distrib/lib.c, driven by the echo of keyboard_handler, by       *)
(* write_terminal, and by display_switch, which saves the screen of one    *)
(* terminal and restores another's.                                        *)
(*                                                                         *)
(* All of them run with interrupts disabled.  A cell holds one character;  *)
(* the attribute bytes, which are always the same, are left out.           *)
(***************************************************************************)
EXTENDS Integers, Sequences

CONSTANTS
    NUM_COLS,       \* 80 in the code
    NUM_ROWS,       \* 25
    NumTerm,        \* 3
    Typed,          \* the printable characters the user types
    Written,        \* the bytes programs write
    Keys,           \* the kinds of key the user presses
    MaxLine,        \* bound: characters typed without an Enter
    MaxStray        \* bound: rows that Backspace goes up from the saved row (uint8_t) -1

ASSUME ScreenAssumption ==
    /\ NUM_COLS \in Nat \ {0} /\ NUM_ROWS \in Nat \ {0, 1} /\ NumTerm \in Nat \ {0}
    /\ NUM_COLS <= 255 /\ NUM_ROWS <= 255
    /\ MaxStray \in 0 .. 2
    /\ MaxLine \in 1 .. (NUM_ROWS - 1) * NUM_COLS
    /\ {"nl", "nul", "bs"} \cap Typed = {}
    /\ Keys \subseteq {"char", "enter", "backspace", "ctrl_l", "fn"}

Term == 0 .. NumTerm - 1
Cell == 0 .. NUM_ROWS * NUM_COLS - 1
Char == (Typed \cup Written \cup {" ", "nul"}) \ {"nl", "bs"}

VARIABLES
    screen,                 \* [video, x, y]: video memory, screen_x, screen_y
    saved,                  \* saved[t]: terminal t's page and saved cursor
    active_terminal,
    number_printed_line,
    line,                   \* ghost: what has been echoed on the current line
    counted                 \* ghost: number_printed_line counts keys echoed on this screen

vars == <<screen, saved, active_terminal, number_printed_line, line, counted>>

Blank(c) == [k \in Cell |-> c]

(* entry() has cleared the screen; the terminals' pages are zero.          *)
Init ==
    /\ screen = [video |-> Blank(" "), x |-> 0, y |-> 0]
    /\ saved = [t \in Term |-> [video |-> Blank("nul"), x |-> 0, y |-> 0]]
    /\ active_terminal = 0
    /\ number_printed_line = 0
    /\ line = <<>>
    /\ counted = TRUE

Pos(s) == NUM_COLS * s.y + s.x

OnScreen(s) == s.x \in 0 .. NUM_COLS - 1 /\ s.y \in 0 .. NUM_ROWS - 1

(* A store at the cursor; one outside the page hits other memory.          *)
Poke(s, c) == [s EXCEPT !.video = [k \in Cell |-> IF k = Pos(s) THEN c ELSE s.video[k]]]

(* clear_top_row(r), r a uint8_t: from row r to the end of the screen.     *)
clear_top_row(s, r) ==
    [s EXCEPT !.video = [k \in Cell |-> IF k >= (r % 256) * NUM_COLS THEN "nul" ELSE s.video[k]]]

scroll(s) ==
    clear_top_row(
        [video |-> [k \in Cell |-> IF k + NUM_COLS \in Cell THEN s.video[k + NUM_COLS] ELSE s.video[k]],
         x |-> 0, y |-> NUM_ROWS - 1],
        NUM_ROWS - 1)

(* Mutant: it scrolls one row too late.                                    *)
DownLate(s) == IF s.y + 1 > NUM_ROWS THEN scroll(s) ELSE [s EXCEPT !.y = @ + 1]

(* screen_y++, and scroll() below the last row.                            *)
Down(s) == IF s.y + 1 >= NUM_ROWS THEN scroll(s) ELSE [s EXCEPT !.y = @ + 1]

(* putc('\n'): the next row, scrolling at the bottom.                      *)
PutNewline(s) == [Down(s) EXCEPT !.x = 0]

(* Mutant: at the start of a row the cursor stays in that row.             *)
BackInRow(s) == Poke([s EXCEPT !.x = IF s.x = 0 THEN NUM_COLS - 1 ELSE @ - 1], " ")

(* putc('\b'): the cell before the cursor; from the start of a row, which  *)
(* is cleared with all below it, the last one of the row above.            *)
PutBackspace(s) ==
    LET back ==
            CASE s.y < 0 /\ s.x <= 0 -> [s EXCEPT !.x = 0, !.y = 0]
              [] s.y >= 0 /\ s.x <= 0 ->
                    [clear_top_row(s, s.y) EXCEPT !.x = NUM_COLS - 1, !.y = s.y - 1]
              [] OTHER -> [s EXCEPT !.x = @ - 1]
    IN  Poke(back, " ")

(* putc of a printable character: behind the last column the next row is   *)
(* cleared.                                                                *)
PutChar(s, c) ==
    LET t == [Poke(s, c) EXCEPT !.x = @ + 1]
        d == Down([t EXCEPT !.x = 0])
    IN  IF t.x < NUM_COLS THEN t ELSE clear_top_row(d, d.y)

putc(s, c) ==
    CASE c = "nl"  -> PutNewline(s)
      [] c = "bs"  -> PutBackspace(s)
      [] c = "nul" -> Poke(s, "nul")
      [] OTHER     -> PutChar(s, c)

InBounds == screen.y >= NUM_ROWS => screen.y > 255 - MaxStray

----------------------------------------------------------------------------
(* keyboard_handler echoes a printable key ...                             *)
KeyChar(c) ==
    /\ "char" \in Keys
    /\ number_printed_line < MaxLine
    /\ number_printed_line' = number_printed_line + 1
    /\ screen' = putc(screen, c)
    /\ line' = IF OnScreen(screen) THEN Append(line, c) ELSE line
    /\ UNCHANGED <<saved, active_terminal, counted>>

(* ... and an Enter, which key_noprint has reset the count for.            *)
Enter ==
    /\ "enter" \in Keys
    /\ number_printed_line' = 1
    /\ screen' = putc(screen, "nl")
    /\ line' = <<>>
    /\ counted' = (counted \/ OnScreen(screen))
    /\ UNCHANGED <<saved, active_terminal>>

(* With Alt held the count is reset too, but nothing is echoed.            *)
AltEnter ==
    /\ {"enter", "fn"} \subseteq Keys
    /\ number_printed_line' = 0
    /\ line' = <<>>
    /\ UNCHANGED <<screen, saved, active_terminal, counted>>

(* key_noprint: Backspace erases while the count of echoed keys allows.    *)
Backspace ==
    /\ "backspace" \in Keys
    /\ number_printed_line # 0
    /\ InBounds
    /\ number_printed_line' = number_printed_line - 1
    /\ screen' = putc(screen, "bs")
    /\ line' = IF line = <<>> THEN line ELSE SubSeq(line, 1, Len(line) - 1)
    /\ UNCHANGED <<saved, active_terminal, counted>>

(* cntl_l_check: clear(), the count stays.                                 *)
CtrlL ==
    /\ "ctrl_l" \in Keys
    /\ screen' = [video |-> Blank(" "), x |-> 0, y |-> 0]
    /\ line' = <<>>
    /\ counted' = FALSE
    /\ UNCHANGED <<saved, active_terminal, number_printed_line>>

(* A program writes a byte: to the terminal on display.  A backspace among *)
(* them is not counted.                                                    *)
Write(c) ==
    /\ c = "bs" => InBounds
    /\ screen' = putc(screen, c)
    /\ line' = <<>>
    /\ counted' = (counted /\ c # "bs")
    /\ UNCHANGED <<saved, active_terminal, number_printed_line>>

(* Mutant: the page is saved but not the cursor.                           *)
SwitchPageOnly(t) ==
    LET kept == [saved EXCEPT ![active_terminal].video = screen.video]
    IN  /\ "fn" \in Keys
        /\ saved' = kept
        /\ active_terminal' = t
        /\ screen' = kept[t]
        /\ line' = <<>>
        /\ counted' = FALSE
        /\ UNCHANGED number_printed_line

(* display_switch: save page and cursor (as uint8_t), show terminal t's.   *)
DisplaySwitch(t) ==
    LET kept == [saved EXCEPT ![active_terminal] = [screen EXCEPT !.x = @ % 256, !.y = @ % 256]]
    IN  /\ "fn" \in Keys
        /\ saved' = kept
        /\ active_terminal' = t
        /\ screen' = kept[t]
        /\ line' = <<>>
        /\ counted' = FALSE
        /\ UNCHANGED number_printed_line

Next ==
    \/ \E c \in Typed : KeyChar(c)
    \/ Enter
    \/ AltEnter
    \/ Backspace
    \/ CtrlL
    \/ \E c \in Written : Write(c)
    \/ \E t \in Term : DisplaySwitch(t)

Spec == Init /\ [][Next]_vars

----------------------------------------------------------------------------
Page == [video : [Cell -> Char], x : Int, y : Int]

(* Types of the screen and the saved pages.                                *)
TypeOK ==
    /\ screen \in Page
    /\ saved \in [Term -> Page]
    /\ active_terminal \in Term
    /\ number_printed_line \in 0 .. MaxLine
    /\ line \in Seq(Typed)
    /\ counted \in BOOLEAN

(* The cursor stays on the screen, whatever is typed, erased and written,  *)
(* as long as number_printed_line counts keys echoed on this screen: it    *)
(* is the count, not putc's test for the corner, that stops Backspace.     *)
CursorOnScreen == counted => OnScreen(screen)

(* putc's "if we are at the extreme corner set these to 0": false after    *)
(* Ctrl+L, which leaves the count.                                         *)
CornerIsZero == OnScreen(screen)

(* The cells before the cursor show the characters typed on the line and   *)
(* not erased, across the ends of rows, scrolling, and Backspaces that go  *)
(* back over the end of a row.                                             *)
LineShown ==
    LET first == Pos(screen) - Len(line)
    IN  \A k \in 1 .. Len(line) :
            /\ first + k - 1 \in Cell
            /\ screen.video[first + k - 1] = line[k]

(* What terminal t shows, or will show when it is displayed again.         *)
View(t) == IF t = active_terminal THEN screen ELSE saved[t]

(* Switching the display changes no terminal's screen or cursor, and       *)
(* typing and writing change only the displayed one's.  (A cursor off the  *)
(* screen is not kept: the saved coordinates are unsigned.)                *)
ScreensKept ==
    [][\A t \in Term :
          t # active_terminal \/ (active_terminal' # active_terminal /\ OnScreen(screen))
              => View(t)' = View(t)]_vars

----------------------------------------------------------------------------
(* Every key the count allows Backspace to erase stands before the cursor. *)
CountFits == counted => number_printed_line <= Pos(screen)

(* The line has been echoed on the screen, and each of its characters is   *)
(* counted.                                                                *)
LineCounted ==
    /\ line # <<>> => OnScreen(screen)
    /\ Len(line) <= number_printed_line

(* The inductive invariant behind CursorOnScreen and LineShown.            *)
SInv == TypeOK /\ CursorOnScreen /\ CountFits /\ LineCounted /\ LineShown
=============================================================================
