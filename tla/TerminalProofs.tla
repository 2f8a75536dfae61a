--------------------------- MODULE TerminalProofs ---------------------------
(***************************************************************************)
(* Theorems about Terminal and TerminalHistory, for any number of          *)
(* terminals, size of the buffers and characters, and any keys.            *)
(***************************************************************************)
EXTENDS TerminalHistory, SequenceTheorems, TLAPS

LEMMA ByteFacts == "nul" \in Byte /\ "nl" \in Byte /\ Chars \subseteq Byte
  BY DEF Byte

LEMMA StoreType ==
    ASSUME NEW line \in [Cell -> Byte], NEW ix, NEW c \in Byte
    PROVE  /\ Store(line, ix, c) \in [Cell -> Byte]
           /\ \A k \in Cell : k = ix => Store(line, ix, c)[k] = c
           /\ \A k \in Cell : k # ix => Store(line, ix, c)[k] = line[k]
  BY DEF Store

(* A function that is changed at one place.                                *)
LEMMA ExceptFacts ==
    ASSUME NEW A, NEW B, NEW f \in [A -> B], NEW a \in A, NEW b \in B
    PROVE  /\ [f EXCEPT ![a] = b] \in [A -> B]
           /\ [f EXCEPT ![a] = b][a] = b
           /\ \A x \in A : x # a => [f EXCEPT ![a] = b][x] = f[x]
  OBVIOUS

(* The events of keys that leave the display alone.                        *)
LineKey == Char \/ CtrlL \/ Enter \/ Backspace \/ Release \/ Control \/ Alt \/ Extended

(* What every one of them leaves alone and clears.                         *)
LEMMA LineKeyFrame ==
    ASSUME TypeOK, LineKey
    PROVE  /\ UNCHANGED readVars
           /\ UNCHANGED buffer_enable
           /\ UNCHANGED active_terminal
           /\ UNCHANGED terminal_flag
           /\ UNCHANGED keys
           /\ disp_term_k' = active_terminal
           /\ control_status' \in {0, 1} /\ alt_status' \in {0, 1}
           /\ \/ enter_read' = [enter_read EXCEPT ![active_terminal] = 0]
              \/ Enter /\ enter_read' = [enter_read EXCEPT ![active_terminal] = buffer_enable[active_terminal]]
  <1>1. CASE Char
    BY <1>1 DEF Char, PressChar, Event, keyVars, TypeOK
  <1>2. CASE CtrlL
    BY <1>2 DEF CtrlL, Event, keyVars, TypeOK
  <1>3. CASE Enter
    BY <1>3 DEF Enter, Event, keyVars, TypeOK
  <1>4. CASE Backspace
    BY <1>4 DEF Backspace, Event, keyVars, TypeOK
  <1>5. CASE Release
    BY <1>5 DEF Release, Event, keyVars, TypeOK
  <1>6. CASE Control
    <2>1. control_status' \in {0, 1}
      BY <1>6 DEF Control, TypeOK
    <2>. QED  BY <1>6, <2>1 DEF Control, Event, TypeOK
  <1>7. CASE Alt
    BY <1>7 DEF Alt, Event, TypeOK
  <1>8. CASE Extended
    BY <1>8 DEF Extended, Event, TypeOK
  <1>. QED  BY <1>1, <1>2, <1>3, <1>4, <1>5, <1>6, <1>7, <1>8 DEF LineKey

(* What a key does to the displayed terminal's line: line, ix and n become *)
(* line1, ix1 and n1.  A byte that lies before the characters that can be  *)
(* taken back stays where it is, and stays out of Backspace's reach.       *)
LineStep(line, ix, n, line1, ix1, n1) ==
    /\ line1 \in [Cell -> Byte] /\ ix1 \in Int /\ n1 \in Nat
    /\ \A k \in Cell : k < ix - n => line1[k] = line[k] /\ k < ix1 - n1
    /\ ix1 = ix => n1 = n
    /\ n <= ix + 1 /\ ix >= -1 => n1 <= ix1 + 1 /\ ix1 >= -1

LEMMA SameLine ==
    ASSUME NEW line \in [Cell -> Byte], NEW ix \in Int, NEW n \in Nat
    PROVE  LineStep(line, ix, n, line, ix, n)
  BY DEF LineStep

LEMMA CharLine ==
    ASSUME NEW line \in [Cell -> Byte], NEW ix \in Int, NEW n \in Nat, NEW c \in Byte
    PROVE  LineStep(line, ix, n, Store(line, ix, c), ix + 1, n + 1)
  <1>1. \A k \in Cell : k < ix - n => k # ix /\ k < (ix + 1) - (n + 1)
    BY TermAssumption DEF Cell
  <1>2. \A k \in Cell : k < ix - n => Store(line, ix, c)[k] = line[k]
    BY <1>1, StoreType
  <1>. QED  BY <1>1, <1>2, StoreType DEF LineStep

LEMMA BackspaceLine ==
    ASSUME NEW line \in [Cell -> Byte], NEW ix \in Int, NEW n \in Nat, n # 0
    PROVE  LineStep(line, ix, n, Store(line, ix - 1, "nul"), ix - 1, n - 1)
  <1>1. \A k \in Cell : k < ix - n => k # ix - 1 /\ k < (ix - 1) - (n - 1)
    BY TermAssumption DEF Cell
  <1>2. \A k \in Cell : k < ix - n => Store(line, ix - 1, "nul")[k] = line[k]
    BY <1>1, StoreType, ByteFacts
  <1>. QED  BY <1>1, <1>2, StoreType, ByteFacts DEF LineStep

LEMMA EnterLine ==
    ASSUME NEW line \in [Cell -> Byte], NEW ix \in Int, NEW n \in Nat
    PROVE  LET one == Store(line, ix, "nl")
               two == Store(one, ix + 1, "nl")
           IN  /\ LineStep(line, ix, n, one, ix + 1, 0)
               /\ LineStep(line, ix, n, two, ix + 2, CountAfterEnter)
               /\ ix \in Cell => one[ix] = "nl" /\ two[ix] = "nl"
  <1>. DEFINE one == Store(line, ix, "nl")
              two == Store(one, ix + 1, "nl")
  <1>0. one \in [Cell -> Byte] /\ two \in [Cell -> Byte]
    BY StoreType, ByteFacts, Zenon
  <1>1. \A k \in Cell : k < ix - n => k # ix /\ k # ix + 1 /\ k < ix + 1 - 0 /\ k < (ix + 2) - 1
    BY TermAssumption DEF Cell
  <1>2. \A k \in Cell : (k = ix => one[k] = "nl") /\ (k # ix => one[k] = line[k])
    BY StoreType, ByteFacts
  <1>3. \A k \in Cell : k # ix + 1 => two[k] = one[k]
    BY <1>0, StoreType, ByteFacts, Zenon
  <1>4. \A k \in Cell : k < ix - n => one[k] = line[k] /\ two[k] = line[k]
    BY <1>1, <1>2, <1>3, Zenon
  <1>5. ix # ix + 1
    OBVIOUS
  <1>6. ix \in Cell => one[ix] = "nl" /\ two[ix] = "nl"
    BY <1>2, <1>3, <1>5, Zenon
  <1>. HIDE DEF one, two
  <1>7. LineStep(line, ix, n, one, ix + 1, 0)
    BY <1>0, <1>1, <1>4 DEF LineStep
  <1>8. LineStep(line, ix, n, two, ix + 2, CountAfterEnter)
    BY <1>0, <1>1, <1>4 DEF LineStep, CountAfterEnter
  <1>. QED  BY <1>6, <1>7, <1>8 DEF one, two

LEMMA LineKeyLine ==
    ASSUME TypeOK, LineKey
    PROVE  /\ keyboard_buf' \in [Term -> [Cell -> Byte]] /\ index' \in [Term -> Int]
           /\ \A u \in Term : u # active_terminal =>
                 keyboard_buf'[u] = keyboard_buf[u] /\ index'[u] = index[u]
           /\ LineStep(keyboard_buf[active_terminal], index[active_terminal], number_printed_line,
                       keyboard_buf'[active_terminal], index'[active_terminal], number_printed_line')
  <1>. DEFINE t == active_terminal
              line == keyboard_buf[t]
              ix == index[t]
              n == number_printed_line
  <1>1. t \in Term /\ keyboard_buf \in [Term -> [Cell -> Byte]] /\ index \in [Term -> Int]
    BY DEF TypeOK
  <1>2. line \in [Cell -> Byte] /\ ix \in Int /\ n \in Nat
    BY <1>1 DEF TypeOK
  <1>3. CASE UNCHANGED lineVars
    <2>1. LineStep(line, ix, n, line, ix, n)
      BY <1>2, SameLine
    <2>. QED  BY <1>1, <1>3, <2>1 DEF lineVars
  <1>4. ASSUME NEW line1, NEW ix1, NEW n1, LineStep(line, ix, n, line1, ix1, n1),
               keyboard_buf' = [keyboard_buf EXCEPT ![t] = line1],
               index' = [index EXCEPT ![t] = ix1],
               number_printed_line' = n1
        PROVE  /\ keyboard_buf' \in [Term -> [Cell -> Byte]] /\ index' \in [Term -> Int]
               /\ \A u \in Term : u # t => keyboard_buf'[u] = keyboard_buf[u] /\ index'[u] = index[u]
               /\ LineStep(line, ix, n, keyboard_buf'[t], index'[t], number_printed_line')
    <2>1. line1 \in [Cell -> Byte] /\ ix1 \in Int
      BY <1>4 DEF LineStep
    <2>2. keyboard_buf'[t] = line1 /\ index'[t] = ix1
      BY <1>1, <1>4, <2>1
    <2>. HIDE DEF t, line, ix, n
    <2>. QED  BY <1>1, <1>4, <2>1, <2>2
  <1>5. CASE Char
    <2>1. PICK c \in Chars : PressChar(c)
      BY <1>5 DEF Char
    <2>2. CASE alt_status # 1
      <3>1. /\ keyboard_buf' = [keyboard_buf EXCEPT ![t] = Store(line, ix, c)]
            /\ index' = [index EXCEPT ![t] = ix + 1]
            /\ number_printed_line' = n + 1
        BY <2>1, <2>2 DEF PressChar
      <3>2. LineStep(line, ix, n, Store(line, ix, c), ix + 1, n + 1)
        BY <1>2, CharLine, ByteFacts
      <3>. HIDE DEF t, line, ix, n
      <3>. QED  BY <1>4, <3>1, <3>2 DEF t, line, ix, n
    <2>. QED  BY <1>3, <2>1, <2>2 DEF PressChar
  <1>6. CASE Enter
    <2>. DEFINE one == Store(line, ix, "nl")
                two == Store(one, ix + 1, "nl")
    <2>1. LineStep(line, ix, n, one, ix + 1, 0) /\ LineStep(line, ix, n, two, ix + 2, CountAfterEnter)
      BY <1>2, EnterLine
    <2>2. CASE alt_status = 1
      <3>1. /\ keyboard_buf' = [keyboard_buf EXCEPT ![t] = one]
            /\ index' = [index EXCEPT ![t] = ix + 1]
            /\ number_printed_line' = 0
        BY <1>6, <2>2 DEF Enter
      <3>. HIDE DEF t, line, ix, n, one, two
      <3>. QED  BY <1>4, <2>1, <3>1 DEF t, line, ix, n
    <2>3. CASE alt_status # 1
      <3>1. /\ keyboard_buf' = [keyboard_buf EXCEPT ![t] = two]
            /\ index' = [index EXCEPT ![t] = ix + 2]
            /\ number_printed_line' = CountAfterEnter
        BY <1>6, <2>3 DEF Enter
      <3>. HIDE DEF t, line, ix, n, one, two
      <3>. QED  BY <1>4, <2>1, <3>1 DEF t, line, ix, n
    <2>. QED  BY <2>2, <2>3
  <1>7. CASE Backspace
    <2>1. CASE /\ n # 0
               /\ keyboard_buf' = [keyboard_buf EXCEPT ![t] = Store(line, ix - 1, "nul")]
               /\ index' = [index EXCEPT ![t] = ix - 1]
               /\ number_printed_line' = n - 1
      <3>1. LineStep(line, ix, n, Store(line, ix - 1, "nul"), ix - 1, n - 1)
        BY <1>2, <2>1, BackspaceLine
      <3>. HIDE DEF t, line, ix, n
      <3>. QED  BY <1>4, <2>1, <3>1 DEF t, line, ix, n
    <2>. QED  BY <1>3, <1>7, <2>1 DEF Backspace
  <1>. QED
    BY <1>3, <1>5, <1>6, <1>7 DEF LineKey, CtrlL, Release, Control, Alt, Extended

(* Where an Enter leaves its newline, and the count behind it.             *)
LEMMA EnterNewline ==
    ASSUME TypeOK, Enter
    PROVE  LET t == active_terminal
           IN  /\ index[t] + 2 <= Longest
               /\ number_printed_line' <= 1
               /\ index[t] \in Cell => keyboard_buf'[t][index[t]] = "nl"
               /\ index[t] < index'[t] - number_printed_line'
               /\ index' # index
  <1>. DEFINE t == active_terminal
              line == keyboard_buf[t]
              ix == index[t]
              one == Store(line, ix, "nl")
              two == Store(one, ix + 1, "nl")
  <1>1. t \in Term /\ keyboard_buf \in [Term -> [Cell -> Byte]] /\ index \in [Term -> Int]
    BY DEF TypeOK
  <1>2. line \in [Cell -> Byte] /\ ix \in Int /\ number_printed_line \in Nat
    BY <1>1 DEF TypeOK
  <1>3. ix \in Cell => one[ix] = "nl" /\ two[ix] = "nl"
    BY <1>2, EnterLine
  <1>4. /\ \/ keyboard_buf' = [keyboard_buf EXCEPT ![t] = one]
           \/ keyboard_buf' = [keyboard_buf EXCEPT ![t] = two]
        /\ \/ index' = [index EXCEPT ![t] = ix + 1] /\ number_printed_line' = 0
           \/ index' = [index EXCEPT ![t] = ix + 2] /\ number_printed_line' = CountAfterEnter
        /\ InBounds(2)
    BY DEF Enter
  <1>5. keyboard_buf'[t] = one \/ keyboard_buf'[t] = two
    BY <1>1, <1>4
  <1>6. \/ index'[t] = ix + 1 /\ number_printed_line' = 0
        \/ index'[t] = ix + 2 /\ number_printed_line' = 1
    BY <1>1, <1>4 DEF CountAfterEnter
  <1>7. ix + 2 <= Longest
    <2>1. MaxIndex \in Int /\ Short \in Int /\ BelowZero \in Int
      BY BoundsAssumption
    <2>2. ix + 2 \in -BelowZero .. Longest /\ Longest \in Int
      BY <1>4, <2>1 DEF InBounds, Longest
    <2>. HIDE DEF ix
    <2>. QED  BY <2>1, <2>2
  <1>. HIDE DEF t, line, ix, one, two
  <1>8. number_printed_line' <= 1 /\ ix < index'[t] - number_printed_line' /\ index'[t] # ix
    BY <1>2, <1>6
  <1>9. ix \in Cell => keyboard_buf'[t][ix] = "nl"
    BY <1>3, <1>5
  <1>. QED  BY <1>7, <1>8, <1>9 DEF t, ix

----------------------------------------------------------------------------
(* Types, and the one terminal that is served.                             *)

LEMMA ReaderFacts ==
    ASSUME NEW q \in Seq(Reader), q # <<>>
    PROVE  LET r == q[Len(q)]
           IN  /\ r \in Reader /\ SubSeq(q, 1, Len(q) - 1) \in Seq(Reader)
               /\ Len(SubSeq(q, 1, Len(q) - 1)) < Len(q)
  <1>1. Len(q) \in Nat /\ Len(q) # 0 /\ q \in [1 .. Len(q) -> Reader]
    BY EmptySeq, LenProperties
  <1>2. q[Len(q)] \in Reader
    BY <1>1
  <1>3. \A k \in 1 .. Len(q) - 1 : q[k] \in Reader
    BY <1>1
  <1>4. SubSeq(q, 1, Len(q) - 1) \in Seq(Reader) /\ Len(SubSeq(q, 1, Len(q) - 1)) = Len(q) - 1
    BY <1>1, <1>3, SubSeqProperties
  <1>. QED  BY <1>1, <1>2, <1>4

LEMMA InitType == Init => TypeOK /\ OneTerminal
  <1>. SUFFICES ASSUME Init PROVE TypeOK /\ OneTerminal
    OBVIOUS
  <1>1. 0 \in Term /\ 0 \in 0 .. KEYBOARDSIZE /\ 0 \in Cell
    BY TermAssumption DEF Term, Cell
  <1>2. keyboard_buf \in [Term -> [Cell -> Byte]]
    BY ByteFacts DEF Init
  <1>3. <<>> \in Seq(Byte) /\ <<>> \in Seq(Reader)
    OBVIOUS
  <1>4. Placed(pc, at, i)
    BY DEF Init, Placed
  <1>5. TypeOK
    BY <1>1, <1>2, <1>3, <1>4, ByteFacts DEF Init, TypeOK, Statement
  <1>6. OneTerminal
    BY DEF Init, OneTerminal
  <1>. QED  BY <1>5, <1>6

LEMMA IdleType ==
    ASSUME Idle
    PROVE  /\ pc' \in Statement /\ at' \in Term \cup {NotLoaded} /\ i' \in 0 .. KEYBOARDSIZE
           /\ num' \in Int /\ cleared' \in Cell /\ buf' \in Seq(Byte) /\ Placed(pc, at, i)'
  <1>1. 0 \in 0 .. KEYBOARDSIZE /\ 0 \in Cell
    BY TermAssumption DEF Cell
  <1>2. pc' = "user" /\ at' = NotLoaded /\ i' = 0 /\ num' = 0 /\ cleared' = 0 /\ buf' = <<>>
    BY DEF Idle
  <1>3. Placed(pc, at, i)'
    BY <1>2 DEF Placed
  <1>. QED  BY <1>1, <1>2, <1>3 DEF Statement

LEMMA FnType ==
    ASSUME TypeOK, OneTerminal, NEW t \in Term, Fn(t)
    PROVE  TypeOK' /\ OneTerminal'
  <1>. DEFINE r == [pc |-> pc, at |-> at, i |-> i, num |-> num, cleared |-> cleared,
                    buf |-> buf, home |-> home]
  <1>1. /\ UNCHANGED keyboard_buf /\ UNCHANGED index /\ UNCHANGED number_printed_line
        /\ UNCHANGED buffer_enable /\ UNCHANGED control_status /\ UNCHANGED alt_status
        /\ UNCHANGED keys
        /\ enter_read' = [enter_read EXCEPT ![active_terminal] = 0]
        /\ "fn" \in keys
    BY DEF Fn, lineVars, keyVars
  <1>2. disp_term_k' = active_terminal' /\ active_terminal' \in Term
    BY DEF Fn, TypeOK
  <1>3. enter_read' \in [Term -> {0, 1}] /\ \A u \in Term : enter_read'[u] = 0
    BY <1>1 DEF TypeOK, OneTerminal
  <1>4. \/ UNCHANGED <<terminal_flag, pc, at, i, num, cleared, buf, home, suspended>>
        \/ /\ terminal_flag' = [terminal_flag EXCEPT ![t] = 0]
           /\ suspended' = Append(suspended, r)
           /\ Idle /\ home' = t
    BY DEF Fn, readVars, Suspend
  <1>5. r \in Reader
    BY DEF Reader, TypeOK
  <1>. HIDE DEF r
  <1>6. CASE UNCHANGED <<terminal_flag, pc, at, i, num, cleared, buf, home, suspended>>
    <2>1. TypeOK'
      BY <1>1, <1>2, <1>3, <1>6 DEF TypeOK, Placed
    <2>. QED  BY <1>1, <1>2, <1>3, <2>1 DEF OneTerminal
  <1>7. CASE /\ terminal_flag' = [terminal_flag EXCEPT ![t] = 0]
             /\ suspended' = Append(suspended, r)
             /\ Idle /\ home' = t
    <2>1. suspended' \in Seq(Reader)
      <3>1. suspended \in Seq(Reader) /\ Append(suspended, r) \in Seq(Reader)
        BY <1>5, AppendProperties DEF TypeOK
      <3>. QED  BY <1>7, <3>1, Zenon
    <2>2. terminal_flag' \in [Term -> {0, 1}] /\ home' \in Term
      BY <1>7 DEF TypeOK
    <2>3. TypeOK'
      BY <1>1, <1>2, <1>3, <1>7, <2>1, <2>2, IdleType DEF TypeOK
    <2>. QED  BY <1>1, <1>2, <1>3, <2>3 DEF OneTerminal
  <1>. QED  BY <1>4, <1>6, <1>7

LEMMA LineKeyType ==
    ASSUME TypeOK, OneTerminal, LineKey
    PROVE  TypeOK' /\ OneTerminal'
  <1>1. /\ UNCHANGED <<pc, at, i, num, cleared, buf, home, suspended>> /\ UNCHANGED buffer_enable
        /\ UNCHANGED active_terminal /\ UNCHANGED terminal_flag /\ UNCHANGED keys
        /\ disp_term_k' = active_terminal
        /\ control_status' \in {0, 1} /\ alt_status' \in {0, 1}
    BY LineKeyFrame DEF readVars
  <1>2. keyboard_buf' \in [Term -> [Cell -> Byte]] /\ index' \in [Term -> Int] /\ number_printed_line' \in Nat
    BY LineKeyLine DEF LineStep
  <1>3. PICK v \in {0, 1} : enter_read' = [enter_read EXCEPT ![active_terminal] = v]
    BY LineKeyFrame DEF TypeOK
  <1>4. /\ enter_read' \in [Term -> {0, 1}]
        /\ \A u \in Term : u # active_terminal => enter_read'[u] = 0
    BY <1>3 DEF TypeOK, OneTerminal
  <1>5. TypeOK'
    BY <1>1, <1>2, <1>4 DEF TypeOK, Placed
  <1>6. OneTerminal'
    BY <1>1, <1>4 DEF OneTerminal
  <1>. QED  BY <1>5, <1>6

(* What the reader's own steps leave alone, and what they can do to the    *)
(* terminal that the statement has loaded.                                 *)
LEMMA ReadFrame ==
    ASSUME TypeOK, StartRead \/ Read \/ ShellEnds
    PROVE  /\ UNCHANGED control_status /\ UNCHANGED alt_status /\ UNCHANGED disp_term_k
           /\ UNCHANGED active_terminal /\ UNCHANGED terminal_flag /\ UNCHANGED keys
           /\ UNCHANGED number_printed_line
           /\ \/ UNCHANGED keyboard_buf
              \/ ClearWord /\ at \in Term /\ keyboard_buf' = [keyboard_buf EXCEPT ![at] = Cleared(@)]
           /\ \/ UNCHANGED index
              \/ ResetIndex /\ at \in Term /\ index' = [index EXCEPT ![at] = 0]
           /\ \/ UNCHANGED enter_read
              \/ ResetEnter /\ at \in Term /\ enter_read' = [enter_read EXCEPT ![at] = 0]
           /\ \/ UNCHANGED buffer_enable
              \/ /\ at \in Term
                 /\ \E b \in {0, 1} : buffer_enable' = [buffer_enable EXCEPT ![at] = b]
  <1>1. at # NotLoaded => at \in Term
    BY DEF TypeOK
  <1>2. CASE StartRead \/ Load \/ CopyLimit \/ ShellEnds
    BY <1>2 DEF StartRead, Load, CopyLimit, ShellEnds, lineVars, keyVars, termVars
  <1>3. CASE Poll \/ SeeEnter \/ CopyByte \/ TestByte
    BY <1>3 DEF Poll, SeeEnter, CopyByte, TestByte, Access, keyVars, termVars
  <1>4. CASE EnableBuffer \/ DisableBuffer
    BY <1>1, <1>4 DEF EnableBuffer, DisableBuffer, Access, lineVars, keyVars, termVars
  <1>5. CASE ClearWord
    BY <1>1, <1>5 DEF ClearWord, keyVars, termVars
  <1>6. CASE ResetIndex \/ ResetEnter
    BY <1>1, <1>6 DEF ResetIndex, ResetEnter, Access, keyVars, termVars
  <1>. QED  BY <1>2, <1>3, <1>4, <1>5, <1>6 DEF Read

LEMMA ClearedType ==
    ASSUME NEW line \in [Cell -> Byte]
    PROVE  Cleared(line) \in [Cell -> Byte]
  BY ByteFacts DEF Cleared

LEMMA ReaderType ==
    ASSUME TypeOK, StartRead \/ Read
    PROVE  /\ pc' \in Statement /\ at' \in Term \cup {NotLoaded} /\ i' \in 0 .. KEYBOARDSIZE
           /\ num' \in Int /\ cleared' \in Cell /\ buf' \in Seq(Byte) /\ Placed(pc, at, i)'
           /\ UNCHANGED home /\ UNCHANGED suspended
  <1>1. /\ pc \in Statement /\ at \in Term \cup {NotLoaded} /\ i \in 0 .. KEYBOARDSIZE /\ i \in Int
        /\ num \in Int /\ cleared \in Cell /\ buf \in Seq(Byte) /\ disp_term_k \in Term
        /\ KEYBOARDSIZE \in Nat /\ 0 \in 0 .. KEYBOARDSIZE /\ 0 \in Cell /\ <<>> \in Seq(Byte)
    BY TermAssumption DEF TypeOK, Cell
  <1>2. Placed(pc, at, i)
    BY DEF TypeOK
  <1>3. CASE StartRead
    <2>1. num' \in Int
      BY <1>3, BoundsAssumption DEF StartRead
    <2>2. Placed(pc, at, i)'
      BY <1>3 DEF StartRead, Placed
    <2>. QED  BY <1>1, <1>3, <2>1, <2>2 DEF StartRead, Statement
  <1>4. CASE Load
    <2>1. /\ UNCHANGED <<pc, i, num, cleared, buf, home, suspended>> /\ at' = disp_term_k
          /\ pc # "user" /\ (pc = "copy" => i < KEYBOARDSIZE)
      BY <1>4 DEF Load, MoreBytes
    <2>2. Placed(pc, at, i)'
      BY <1>2, <2>1 DEF Placed
    <2>. QED  BY <1>1, <2>1, <2>2
  <1>5. CASE EnableBuffer \/ Poll \/ SeeEnter \/ ResetIndex \/ ResetEnter
    <2>1. /\ pc' \in {"wait", "copy", "flag", "disable"} /\ at' = NotLoaded /\ (i' = i \/ i' = 0)
          /\ UNCHANGED <<num, cleared, home, suspended>> /\ (buf' = buf \/ buf' = <<>>)
      BY <1>5 DEF EnableBuffer, Poll, SeeEnter, ResetIndex, ResetEnter, Access
    <2>2. Placed(pc, at, i)'
      BY <2>1 DEF Placed
    <2>3. pc' \in Statement
      BY <2>1 DEF Statement
    <2>. QED  BY <1>1, <2>1, <2>2, <2>3
  <1>6. CASE CopyByte
    <2>1. /\ pc = "copy" /\ at # NotLoaded /\ pc' = "test" /\ at' = NotLoaded
          /\ UNCHANGED <<i, num, cleared, home, suspended>>
          /\ buf' = Append(buf, keyboard_buf[at][i])
      BY <1>6 DEF CopyByte, Access
    <2>2. i < KEYBOARDSIZE
      BY <1>2, <2>1 DEF Placed
    <2>3. at \in Term /\ i \in Cell
      BY <1>1, <2>1 DEF Cell
    <2>4. keyboard_buf[at][i] \in Byte
      BY <2>3 DEF TypeOK
    <2>5. buf' \in Seq(Byte)
      BY <1>1, <2>1, <2>4, AppendProperties
    <2>6. Placed(pc, at, i)'
      BY <2>1, <2>2 DEF Placed
    <2>. QED  BY <1>1, <2>1, <2>5, <2>6 DEF Statement
  <1>7. CASE TestByte
    <2>1. /\ pc = "test" /\ at' = NotLoaded /\ UNCHANGED <<num, cleared, buf, home, suspended>>
          /\ (pc' = "memset" /\ i' = i) \/ (pc' = "copy" /\ i' = i + 1)
      BY <1>7 DEF TestByte, Access
    <2>2. i < KEYBOARDSIZE
      BY <1>2, <2>1 DEF Placed
    <2>3. i' \in 0 .. KEYBOARDSIZE
      BY <1>1, <2>1, <2>2
    <2>4. Placed(pc, at, i)'
      BY <2>1 DEF Placed
    <2>. QED  BY <1>1, <2>1, <2>3, <2>4 DEF Statement
  <1>8. CASE CopyLimit
    <2>1. pc' = "memset" /\ UNCHANGED <<at, i, num, cleared, buf, home, suspended>>
      BY <1>8 DEF CopyLimit
    <2>2. Placed(pc, at, i)'
      BY <2>1 DEF Placed
    <2>. QED  BY <1>1, <2>1, <2>2 DEF Statement
  <1>9. CASE ClearWord
    <2>1. /\ UNCHANGED <<i, num, buf, home, suspended>> /\ (at' = at \/ at' = NotLoaded)
          /\ pc' = "memset" \/ pc' = "index"
          /\ cleared' \in Cell \/ cleared' = 0
      BY <1>9 DEF ClearWord
    <2>2. Placed(pc, at, i)'
      BY <2>1 DEF Placed
    <2>. QED  BY <1>1, <2>1, <2>2 DEF Statement
  <1>10. CASE DisableBuffer
    BY <1>10, IdleType DEF DisableBuffer
  <1>. QED  BY <1>3, <1>4, <1>5, <1>6, <1>7, <1>8, <1>9, <1>10 DEF Read

LEMMA ReadType ==
    ASSUME TypeOK, OneTerminal, StartRead \/ Read \/ ShellEnds
    PROVE  TypeOK' /\ OneTerminal'
  <1>1. /\ UNCHANGED control_status /\ UNCHANGED alt_status /\ UNCHANGED disp_term_k
        /\ UNCHANGED active_terminal /\ UNCHANGED terminal_flag /\ UNCHANGED keys
        /\ UNCHANGED number_printed_line
    BY ReadFrame
  <1>2. keyboard_buf' \in [Term -> [Cell -> Byte]]
    <2>1. \/ UNCHANGED keyboard_buf
          \/ at \in Term /\ keyboard_buf' = [keyboard_buf EXCEPT ![at] = Cleared(@)]
      BY ReadFrame
    <2>2. at \in Term => Cleared(keyboard_buf[at]) \in [Cell -> Byte]
      BY ClearedType DEF TypeOK
    <2>. QED  BY <2>1, <2>2 DEF TypeOK
  <1>3. index' \in [Term -> Int]
    BY ReadFrame DEF TypeOK
  <1>4. enter_read' \in [Term -> {0, 1}] /\ \A u \in Term : u # active_terminal => enter_read'[u] = 0
    <2>1. UNCHANGED enter_read \/ (at \in Term /\ enter_read' = [enter_read EXCEPT ![at] = 0])
      BY ReadFrame
    <2>. QED  BY <2>1 DEF TypeOK, OneTerminal
  <1>5. buffer_enable' \in [Term -> {0, 1}]
    BY ReadFrame DEF TypeOK
  <1>6. CASE ShellEnds
    <2>. DEFINE r == suspended[Len(suspended)]
    <2>1. /\ pc' = r.pc /\ at' = r.at /\ i' = r.i /\ num' = r.num /\ cleared' = r.cleared
          /\ buf' = r.buf /\ home' = r.home
          /\ suspended' = SubSeq(suspended, 1, Len(suspended) - 1)
          /\ suspended # <<>>
      BY <1>6 DEF ShellEnds
    <2>2. r \in Reader /\ suspended' \in Seq(Reader)
      BY <2>1, ReaderFacts DEF TypeOK
    <2>. HIDE DEF r
    <2>3. /\ pc' \in Statement /\ at' \in Term \cup {NotLoaded} /\ i' \in 0 .. KEYBOARDSIZE
          /\ num' \in Int /\ cleared' \in Cell /\ buf' \in Seq(Byte) /\ home' \in Term
      BY <2>1, <2>2 DEF Reader
    <2>4. Placed(r.pc, r.at, r.i)
      BY <2>2 DEF Reader
    <2>5. Placed(pc, at, i)'
      BY <2>1, <2>4 DEF Placed
    <2>6. TypeOK'
      BY <1>1, <1>2, <1>3, <1>4, <1>5, <2>2, <2>3, <2>5 DEF TypeOK
    <2>7. "fn" \in keys
      BY <2>1, Zenon DEF OneTerminal
    <2>. QED  BY <1>1, <1>4, <2>6, <2>7 DEF OneTerminal
  <1>7. CASE StartRead \/ Read
    <2>1. TypeOK'
      BY <1>1, <1>2, <1>3, <1>4, <1>5, <1>7, ReaderType DEF TypeOK
    <2>2. UNCHANGED suspended
      BY <1>7, ReaderType
    <2>. QED  BY <1>1, <1>4, <2>1, <2>2 DEF OneTerminal
  <1>. QED  BY <1>6, <1>7

LEMMA NextType ==
    ASSUME TypeOK, OneTerminal, [Next]_vars
    PROVE  TypeOK' /\ OneTerminal'
  <1>1. CASE UNCHANGED vars
    <2>1. TypeOK'
      BY <1>1 DEF TypeOK, Placed, vars, lineVars, keyVars, termVars, readVars
    <2>. QED  BY <1>1, <2>1 DEF OneTerminal, vars, lineVars, keyVars, termVars, readVars
  <1>2. CASE LineKey
    BY <1>2, LineKeyType
  <1>3. ASSUME NEW t \in Term, Fn(t) PROVE TypeOK' /\ OneTerminal'
    BY <1>3, FnType
  <1>4. CASE StartRead \/ Read \/ ShellEnds
    BY <1>4, ReadType
  <1>. QED  BY <1>1, <1>2, <1>3, <1>4 DEF Next, Key, LineKey

(* Type correctness of the line discipline; the terminal that              *)
(* keyboard_handler took for its own is the displayed one, and an Enter    *)
(* flag is up on no other.                                                 *)
THEOREM TerminalTypes == Spec => [](TypeOK /\ OneTerminal)
  <1>1. (TypeOK /\ OneTerminal) /\ [Next]_vars => (TypeOK /\ OneTerminal)'
    BY NextType
  <1>. QED  BY InitType, <1>1, PTL DEF Spec

----------------------------------------------------------------------------
(* The history: when the display has not moved since the read began.       *)

(* A read that goes on with an unmoved display had one before the step.    *)
LEMMA StillUnmoved ==
    ASSUME TypeOK, HNext, ~moved', UNCHANGED suspended, ~StartRead
    PROVE  ~moved /\ active_terminal' = active_terminal
  <1>1. ~Opens /\ ~Resumes
    <2>1. Len(suspended) \in Nat
      BY LenProperties DEF TypeOK
    <2>. QED  BY <2>1 DEF Opens, Resumes
  <1>. QED  BY <1>1, Zenon DEF HNext

LEMMA ShellEndsMoves ==
    ASSUME TypeOK, HNext, ShellEnds
    PROVE  moved'
  <1>1. /\ suspended # <<>> /\ suspended \in Seq(Reader)
        /\ suspended' = SubSeq(suspended, 1, Len(suspended) - 1)
    BY DEF ShellEnds, TypeOK
  <1>2. Resumes
    BY <1>1, ReaderFacts DEF Resumes
  <1>3. Len(suspended') \in Nat /\ Len(suspended) \in Nat
    BY <1>1, ReaderFacts, LenProperties
  <1>4. ~Opens
    BY <1>2, <1>3 DEF Opens, Resumes
  <1>5. suspended' # suspended
    BY <1>2, <1>3 DEF Resumes
  <1>6. ~StartRead
    BY <1>5 DEF StartRead
  <1>. QED  BY <1>2, <1>4, <1>6, Zenon DEF HNext

(* The shape of an Alt+Fn: a shell starts, or the running one goes on.     *)
LEMMA FnShape ==
    ASSUME NEW t \in Term, Fn(t)
    PROVE  /\ \/ pc' = "user" /\ at' = NotLoaded
              \/ UNCHANGED <<pc, at, i, num, cleared, buf, home, suspended>>
           /\ UNCHANGED <<keyboard_buf, index, number_printed_line, buffer_enable, keys>>
           /\ "fn" \in keys
           /\ enter_read' = [enter_read EXCEPT ![active_terminal] = 0]
  BY DEF Fn, readVars, lineVars, Idle

LEMMA ListensInit == HInit => HInv
  <1>. SUFFICES ASSUME HInit PROVE HInv
    OBVIOUS
  <1>1. Init /\ moved = FALSE /\ ahead = FALSE /\ below = FALSE
    BY DEF HInit
  <1>2. TypeOK /\ OneTerminal
    BY <1>1, InitType
  <1>3. pc = "user" /\ number_printed_line = 0 /\ index = [t \in Term |-> 0] /\ 0 \in Term
    BY <1>1, TermAssumption DEF Init, Term
  <1>4. number_printed_line <= 1 /\ index[0] >= -1 /\ number_printed_line <= index[0] + 1
    BY <1>3
  <1>5. ReaderListens /\ Undisturbed /\ Flagged /\ UnderrunByOne /\ Fresh
    BY <1>1, <1>3, <1>4 DEF Init, ReaderListens, Undisturbed, Flagged, UnderrunByOne, Fresh
  <1>. QED  BY <1>1, <1>2, <1>5 DEF HInv

LEMMA FreshStep ==
    ASSUME TypeOK, OneTerminal, Fresh, HNext
    PROVE  Fresh'
  <1>. SUFFICES ASSUME ~moved', at' # NotLoaded PROVE at' = active_terminal'
    BY DEF Fresh
  <1>0. Next
    BY DEF HNext
  <1>1. ASSUME UNCHANGED <<at, suspended>>, ~StartRead PROVE at' = active_terminal'
    <2>1. ~moved /\ active_terminal' = active_terminal
      BY <1>1, StillUnmoved
    <2>. QED  BY <1>1, <2>1 DEF Fresh
  <1>2. ~StartRead
    BY DEF StartRead, TypeOK, Placed
  <1>3. CASE LineKey
    BY <1>1, <1>2, <1>3, LineKeyFrame DEF readVars
  <1>4. ASSUME NEW t \in Term, Fn(t) PROVE at' = active_terminal'
    BY <1>1, <1>2, <1>4, FnShape
  <1>5. CASE ShellEnds
    BY <1>5, ShellEndsMoves
  <1>6. CASE Load
    BY <1>6 DEF Load, OneTerminal, termVars
  <1>7. CASE CopyLimit \/ ClearWord
    BY <1>1, <1>2, <1>7 DEF CopyLimit, ClearWord
  <1>8. ~(EnableBuffer \/ Poll \/ SeeEnter \/ CopyByte \/ TestByte \/ ResetIndex \/ ResetEnter \/ DisableBuffer)
    BY DEF EnableBuffer, Poll, SeeEnter, CopyByte, TestByte, ResetIndex, ResetEnter, DisableBuffer,
           Access, Idle
  <1>. QED  BY <1>0, <1>2, <1>3, <1>4, <1>5, <1>6, <1>7, <1>8 DEF Next, Key, LineKey, Read

LEMMA ListensStep ==
    ASSUME TypeOK, OneTerminal, Fresh, ReaderListens, HNext
    PROVE  ReaderListens'
  <1>. SUFFICES ASSUME pc' = "wait", ~moved' PROVE buffer_enable'[disp_term_k'] = 1
    BY DEF ReaderListens, Listens
  <1>0. Next
    BY DEF HNext
  <1>1. ~StartRead
    BY DEF StartRead
  <1>2. CASE LineKey
    <2>1. UNCHANGED <<pc, suspended, buffer_enable>> /\ disp_term_k' = disp_term_k
      BY <1>2, LineKeyFrame DEF readVars, OneTerminal
    <2>2. ~moved
      BY <1>1, <2>1, StillUnmoved
    <2>. QED  BY <2>1, <2>2 DEF ReaderListens, Listens
  <1>3. ASSUME NEW t \in Term, Fn(t) PROVE buffer_enable'[disp_term_k'] = 1
    <2>1. UNCHANGED <<pc, suspended, buffer_enable>>
      BY <1>3, FnShape
    <2>2. ~moved /\ active_terminal' = active_terminal
      BY <1>1, <2>1, StillUnmoved
    <2>3. disp_term_k' = disp_term_k
      BY <1>0, <2>2, NextType DEF OneTerminal
    <2>. QED  BY <2>1, <2>2, <2>3 DEF ReaderListens, Listens
  <1>4. CASE ShellEnds
    BY <1>4, ShellEndsMoves
  <1>5. CASE EnableBuffer
    <2>1. /\ at # NotLoaded /\ UNCHANGED suspended /\ UNCHANGED disp_term_k
          /\ buffer_enable' = [buffer_enable EXCEPT ![at] = 1]
      BY <1>5 DEF EnableBuffer, Access, termVars
    <2>2. ~moved
      BY <1>1, <2>1, StillUnmoved
    <2>3. at = disp_term_k /\ at \in Term
      BY <2>1, <2>2 DEF Fresh, OneTerminal, TypeOK
    <2>. QED  BY <2>1, <2>3 DEF TypeOK
  <1>6. CASE Load \/ Poll
    <2>1. UNCHANGED <<suspended, buffer_enable, disp_term_k>> /\ pc = "wait"
      BY <1>6 DEF Load, Poll, Access, termVars
    <2>2. ~moved
      BY <1>1, <2>1, StillUnmoved
    <2>. QED  BY <2>1, <2>2 DEF ReaderListens, Listens
  <1>7. ~(SeeEnter \/ CopyByte \/ TestByte \/ CopyLimit \/ ClearWord \/ ResetIndex \/ ResetEnter
          \/ DisableBuffer)
    BY DEF SeeEnter, CopyByte, TestByte, CopyLimit, ClearWord, ResetIndex, ResetEnter, DisableBuffer,
           Access, Idle
  <1>. QED  BY <1>0, <1>1, <1>2, <1>3, <1>4, <1>5, <1>6, <1>7 DEF Next, Key, LineKey, Read

(* A flag that is up behind a step of a reader was up before it.           *)
LEMMA FlagWasUp ==
    ASSUME TypeOK, StartRead \/ Read \/ ShellEnds, enter_read'[active_terminal'] # 0
    PROVE  enter_read[active_terminal] # 0 /\ ~(ResetEnter /\ at = active_terminal)
  <1>1. active_terminal' = active_terminal /\ active_terminal \in Term
    BY ReadFrame DEF TypeOK
  <1>2. UNCHANGED enter_read \/ (at \in Term /\ enter_read' = [enter_read EXCEPT ![at] = 0])
    BY ReadFrame
  <1>3. ResetEnter => enter_read' = [enter_read EXCEPT ![at] = 0]
    BY DEF ResetEnter
  <1>. QED  BY <1>1, <1>2, <1>3 DEF TypeOK

LEMMA FlaggedStep ==
    ASSUME TypeOK, OneTerminal, Flagged, Next
    PROVE  Flagged'
  <1>. SUFFICES ASSUME enter_read'[active_terminal'] # 0 PROVE number_printed_line' <= 1
    BY DEF Flagged
  <1>1. CASE LineKey
    <2>1. active_terminal' = active_terminal /\ active_terminal \in Term
      BY <1>1, LineKeyFrame DEF TypeOK
    <2>2. enter_read' # [enter_read EXCEPT ![active_terminal] = 0]
      BY <2>1 DEF TypeOK
    <2>3. Enter
      BY <1>1, <2>2, LineKeyFrame
    <2>. QED  BY <2>3, EnterNewline
  <1>2. ASSUME NEW t \in Term, Fn(t) PROVE FALSE
    <2>1. enter_read' = [enter_read EXCEPT ![active_terminal] = 0] /\ active_terminal' \in Term
      BY <1>2, FnShape, NextType DEF TypeOK
    <2>. QED  BY <2>1 DEF TypeOK, OneTerminal
  <1>3. CASE StartRead \/ Read \/ ShellEnds
    <2>1. UNCHANGED number_printed_line /\ enter_read[active_terminal] # 0
      BY <1>3, ReadFrame, FlagWasUp
    <2>. QED  BY <2>1 DEF Flagged
  <1>. QED  BY <1>1, <1>2, <1>3 DEF Next, Key, LineKey

(* What the history says of a key typed into a line that is being read.    *)
Taking == {"copy", "test", "memset", "index"}

LEMMA AheadKey ==
    ASSUME HNext, LineKey, ~ahead'
    PROVE  ~ahead /\ (pc \in Taking => index' = index)
  <1>1. Key
    BY DEF Key, LineKey
  <1>. QED  BY <1>1, Zenon DEF HNext, Taking

(* The Enter that ends a wait is the displayed terminal's.                 *)
LEMMA SeenEnter ==
    ASSUME TypeOK, OneTerminal, SeeEnter
    PROVE  /\ at = active_terminal /\ enter_read[active_terminal] # 0 /\ pc = "wait" /\ pc' = "copy"
           /\ i' = 0 /\ buf' = <<>>
           /\ UNCHANGED <<keyboard_buf, index, number_printed_line, active_terminal, keys>>
  <1>1. at \in Term /\ enter_read[at] # 0
    BY DEF SeeEnter, Access, TypeOK
  <1>2. at = active_terminal
    BY <1>1 DEF OneTerminal
  <1>. QED  BY <1>1, <1>2 DEF SeeEnter, Access, termVars

LEMMA UndisturbedStep ==
    ASSUME TypeOK, OneTerminal, Flagged, Undisturbed, HNext
    PROVE  Undisturbed'
  <1>. SUFFICES ASSUME pc' \in Taking, ~ahead', "fn" \notin keys'
                PROVE  number_printed_line' <= 1
    BY DEF Undisturbed, Taking
  <1>0. Next /\ ~ahead
    BY DEF HNext
  <1>1. CASE LineKey
    <2>1. UNCHANGED pc /\ UNCHANGED keys
      BY <1>1, LineKeyFrame DEF readVars
    <2>2. index' = index
      BY <1>1, <2>1, AheadKey
    <2>3. number_printed_line' = number_printed_line
      BY <1>1, <2>2, LineKeyLine DEF LineStep
    <2>. QED  BY <1>0, <2>1, <2>3 DEF Undisturbed, Taking
  <1>2. ASSUME NEW t \in Term, Fn(t) PROVE FALSE
    BY <1>2, FnShape
  <1>3. CASE StartRead \/ Read \/ ShellEnds
    <2>1. UNCHANGED number_printed_line /\ UNCHANGED keys
      BY <1>3, ReadFrame
    <2>2. ~ShellEnds
      BY <2>1, Zenon DEF ShellEnds, OneTerminal
    <2>3. pc \in Taking \/ SeeEnter
      BY <1>3, <2>2 DEF StartRead, Read, Load, EnableBuffer, Poll, CopyByte, TestByte, CopyLimit, ClearWord,
                        ResetIndex, ResetEnter, DisableBuffer, Access, Idle, Taking
    <2>4. CASE SeeEnter
      BY <2>1, <2>4, SeenEnter DEF Flagged
    <2>. QED  BY <1>0, <2>1, <2>3, <2>4 DEF Undisturbed, Taking
  <1>. QED  BY <1>0, <1>1, <1>2, <1>3 DEF Next, Key, LineKey

LEMMA UnderrunStep ==
    ASSUME TypeOK, OneTerminal, Undisturbed, UnderrunByOne, HNext
    PROVE  UnderrunByOne'
  <1>. SUFFICES ASSUME ~ahead', "fn" \notin keys'
                PROVE  index'[0] >= -1 /\ number_printed_line' <= index'[0] + 1
    BY DEF UnderrunByOne
  <1>0. Next /\ ~ahead
    BY DEF HNext
  <1>1. "fn" \notin keys
    <2>1. ASSUME NEW t \in Term, Fn(t) PROVE UNCHANGED keys
      BY <2>1, FnShape
    <2>2. LineKey => UNCHANGED keys
      BY LineKeyFrame
    <2>3. StartRead \/ Read \/ ShellEnds => UNCHANGED keys
      BY ReadFrame
    <2>. QED  BY <1>0, <2>1, <2>2, <2>3 DEF Next, Key, LineKey
  <1>2. active_terminal = 0 /\ 0 \in Term
    BY <1>1 DEF OneTerminal, TypeOK
  <1>3. index[0] >= -1 /\ number_printed_line <= index[0] + 1
    BY <1>0, <1>1, Zenon DEF UnderrunByOne
  <1>4. CASE LineKey
    <2>1. LineStep(keyboard_buf[0], index[0], number_printed_line,
                   keyboard_buf'[0], index'[0], number_printed_line')
      BY <1>2, <1>4, LineKeyLine
    <2>. QED  BY <1>3, <2>1 DEF LineStep
  <1>5. ASSUME NEW t \in Term, Fn(t) PROVE FALSE
    BY <1>1, <1>5, FnShape
  <1>6. CASE StartRead \/ Read \/ ShellEnds
    <2>1. UNCHANGED number_printed_line
      BY <1>6, ReadFrame
    <2>2. CASE UNCHANGED index
      BY <1>3, <2>1, <2>2
    <2>3. CASE ResetIndex /\ at \in Term /\ index' = [index EXCEPT ![at] = 0]
      <3>1. pc = "index"
        BY <2>3 DEF ResetIndex, Access
      <3>2. number_printed_line <= 1
        BY <1>0, <1>1, <3>1 DEF Undisturbed
      <3>3. index'[0] = 0 \/ index'[0] = index[0]
        BY <1>2, <2>3 DEF TypeOK
      <3>. QED  BY <1>3, <2>1, <3>2, <3>3
    <2>. QED  BY <1>6, <2>2, <2>3, ReadFrame
  <1>. QED  BY <1>0, <1>4, <1>5, <1>6 DEF Next, Key, LineKey

LEMMA HInvStep ==
    ASSUME HInv, [HNext]_histVars
    PROVE  HInv'
  <1>1. CASE UNCHANGED histVars
    <2>1. [Next]_vars /\ UNCHANGED vars /\ UNCHANGED moved /\ UNCHANGED ahead /\ UNCHANGED below
      BY <1>1 DEF histVars
    <2>2. TypeOK' /\ OneTerminal'
      BY <2>1, NextType DEF HInv
    <2>3. Flagged' /\ Undisturbed' /\ Fresh'
      BY <2>1 DEF HInv, Flagged, Undisturbed, Fresh, vars, lineVars, termVars, readVars
    <2>4. ReaderListens' /\ UnderrunByOne'
      BY <2>1 DEF HInv, ReaderListens, Listens, UnderrunByOne, vars, lineVars, termVars, readVars
    <2>. QED  BY <2>1, <2>2, <2>3, <2>4 DEF HInv
  <1>2. CASE HNext
    <2>1. Next /\ moved' \in BOOLEAN /\ ahead' \in BOOLEAN /\ below' \in BOOLEAN
      BY <1>2, Zenon DEF HNext, HInv
    <2>2. TypeOK' /\ OneTerminal'
      BY <2>1, NextType DEF HInv
    <2>. QED
      BY <1>2, <2>1, <2>2, FreshStep, ListensStep, FlaggedStep, UndisturbedStep, UnderrunStep DEF HInv
  <1>. QED  BY <1>1, <1>2

(* What the handler and read_terminal keep between them, whatever their    *)
(* order: types, one served terminal, the wait that listens, the count     *)
(* behind an Enter and how far it can be ahead of index.                   *)
THEOREM TerminalInvariant == HSpec => []HInv
  <1>. QED  BY ListensInit, HInvStep, PTL DEF HSpec

(* ReaderListens, for every number of terminals and any keys: a program    *)
(* that waits in read_terminal with the display where it was can be woken. *)
THEOREM AlwaysListens == HSpec => []ReaderListens
  <1>1. HInv => ReaderListens
    BY DEF HInv
  <1>. QED  BY TerminalInvariant, <1>1, PTL

(* UnderrunByOne, for every line, however long: on a single terminal       *)
(* Backspace goes at most one place below the start of the line.           *)
THEOREM AlwaysUnderrunByOne == HSpec => []UnderrunByOne
  <1>1. HInv => UnderrunByOne
    BY DEF HInv
  <1>. QED  BY TerminalInvariant, <1>1, PTL

(* Terminals do not disturb one another: no key event changes the line,    *)
(* index, Enter flag or buffer_enable of a terminal that is not on         *)
(* display, and no read that the display has stayed with does.             *)
LEMMA IsolatedStep ==
    ASSUME HInv, HNext, moved => Key
    PROVE  \A t \in Term : t # active_terminal =>
             UNCHANGED <<keyboard_buf[t], index[t], enter_read[t], buffer_enable[t]>>
  <1>. SUFFICES ASSUME NEW u \in Term, u # active_terminal
                PROVE  /\ keyboard_buf'[u] = keyboard_buf[u] /\ index'[u] = index[u]
                       /\ enter_read'[u] = enter_read[u] /\ buffer_enable'[u] = buffer_enable[u]
    OBVIOUS
  <1>0. Next /\ TypeOK /\ OneTerminal /\ Fresh /\ moved \in BOOLEAN
    BY DEF HNext, HInv
  <1>1. CASE LineKey
    <2>1. PICK v \in {0, 1} : enter_read' = [enter_read EXCEPT ![active_terminal] = v]
      BY <1>0, <1>1, LineKeyFrame DEF TypeOK
    <2>2. UNCHANGED buffer_enable
      BY <1>0, <1>1, LineKeyFrame
    <2>. QED  BY <1>0, <1>1, <2>1, <2>2, LineKeyLine DEF TypeOK
  <1>2. ASSUME NEW t \in Term, Fn(t)
        PROVE  /\ keyboard_buf'[u] = keyboard_buf[u] /\ index'[u] = index[u]
               /\ enter_read'[u] = enter_read[u] /\ buffer_enable'[u] = buffer_enable[u]
    BY <1>0, <1>2, FnShape DEF TypeOK
  <1>3. CASE (StartRead \/ Read \/ ShellEnds) /\ ~moved
    <2>1. u # at
      BY <1>0, <1>3 DEF Fresh, TypeOK, Term, NotLoaded
    <2>. QED  BY <1>0, <1>3, <2>1, ReadFrame DEF TypeOK
  <1>4. Key \/ ((StartRead \/ Read \/ ShellEnds) /\ ~moved)
    BY <1>0 DEF Next
  <1>. QED  BY <1>1, <1>2, <1>3, <1>4 DEF Key, LineKey

(* Isolated holds of the line discipline of keyboard.c, for every number   *)
(* of terminals and any keys.                                              *)
THEOREM TerminalsIsolated == HSpec => Isolated
  <1>. DEFINE Apart == \A t \in Term : t # active_terminal /\ (moved => Key) =>
                 UNCHANGED <<keyboard_buf[t], index[t], enter_read[t], buffer_enable[t]>>
  <1>1. HInv /\ [HNext]_histVars => [Apart]_histVars
    BY IsolatedStep
  <1>. QED  BY TerminalInvariant, <1>1, PTL DEF HSpec, Isolated

----------------------------------------------------------------------------
(* The line that a read returns, while the newline of every Enter has its  *)
(* place in the buffer.                                                    *)
EntersFit == MaxIndex <= KEYBOARDSIZE + 1 /\ Short <= KEYBOARDSIZE + 1

(* A newline that waits goes on waiting whatever keys come.                *)
LEMMA KeysKeepLine ==
    ASSUME TypeOK, LineKey, NEW from \in Nat, LineWaits(from)
    PROVE  \E k \in from .. KEYBOARDSIZE - 1 :
              /\ keyboard_buf'[active_terminal][k] = "nl"
              /\ k < index'[active_terminal] - number_printed_line'
  <1>1. PICK k \in from .. KEYBOARDSIZE - 1 :
               /\ keyboard_buf[active_terminal][k] = "nl"
               /\ k < index[active_terminal] - number_printed_line
    BY DEF LineWaits
  <1>2. k \in Cell
    BY TermAssumption DEF Cell
  <1>3. /\ keyboard_buf'[active_terminal][k] = keyboard_buf[active_terminal][k]
        /\ k < index'[active_terminal] - number_printed_line'
    BY <1>1, <1>2, LineKeyLine DEF LineStep
  <1>. QED  BY <1>1, <1>3

(* An Enter at or behind the start of the line leaves a waiting newline.   *)
LEMMA EnterWaits ==
    ASSUME EntersFit, TypeOK, Enter, index[active_terminal] >= 0
    PROVE  \E k \in 0 .. KEYBOARDSIZE - 1 :
              /\ keyboard_buf'[active_terminal][k] = "nl"
              /\ k < index'[active_terminal] - number_printed_line'
  <1>. DEFINE ix == index[active_terminal]
  <1>1. ix \in Int /\ ix >= 0
    BY DEF TypeOK
  <1>2. Longest \in Int /\ Longest <= KEYBOARDSIZE + 1
    BY BoundsAssumption DEF EntersFit, Longest
  <1>3. /\ ix + 2 <= Longest
        /\ ix \in Cell => keyboard_buf'[active_terminal][ix] = "nl"
        /\ ix < index'[active_terminal] - number_printed_line'
    BY EnterNewline
  <1>. HIDE DEF ix
  <1>4. ix \in 0 .. KEYBOARDSIZE - 1 /\ ix \in Cell
    BY <1>1, <1>2, <1>3, TermAssumption DEF Cell
  <1>. QED  BY <1>3, <1>4

LEMMA FlagHasLineStep ==
    ASSUME EntersFit, TypeOK, OneTerminal, FlagHasLine, HNext
    PROVE  FlagHasLine'
  <1>. SUFFICES ASSUME enter_read'[active_terminal'] # 0, ~below', ~Resetting'
                PROVE  LineWaits(0)'
    BY DEF FlagHasLine
  <1>0. Next /\ ~below
    BY DEF HNext
  <1>1. CASE LineKey
    <2>1. active_terminal' = active_terminal /\ active_terminal \in Term
      BY <1>1, LineKeyFrame DEF TypeOK
    <2>2. enter_read' # [enter_read EXCEPT ![active_terminal] = 0]
      BY <2>1 DEF TypeOK
    <2>3. Enter
      BY <1>1, <2>2, LineKeyFrame
    <2>4. ~(index[active_terminal] < 0)
      BY <2>3, Zenon DEF HNext
    <2>5. index[active_terminal] >= 0
      BY <2>1, <2>4 DEF TypeOK
    <2>. QED  BY <2>1, <2>3, <2>5, EnterWaits DEF LineWaits
  <1>2. ASSUME NEW t \in Term, Fn(t) PROVE FALSE
    <2>1. enter_read' = [enter_read EXCEPT ![active_terminal] = 0] /\ active_terminal' \in Term
      BY <1>0, <1>2, FnShape, NextType DEF TypeOK
    <2>. QED  BY <2>1 DEF TypeOK, OneTerminal
  <1>3. CASE StartRead \/ Read \/ ShellEnds
    <2>1. /\ UNCHANGED number_printed_line /\ UNCHANGED active_terminal /\ UNCHANGED disp_term_k
          /\ active_terminal \in Term
      BY <1>3, ReadFrame DEF TypeOK
    <2>2. enter_read[active_terminal] # 0 /\ ~(ResetEnter /\ at = active_terminal)
      BY <1>3, FlagWasUp
    <2>3. ~Resetting
      <3>. SUFFICES ASSUME Resetting PROVE FALSE
        OBVIOUS
      <3>0. pc \in {"memset", "index", "flag"} /\ at \in {NotLoaded, active_terminal}
        BY DEF Resetting
      <3>1. CASE Load
        <4>1. pc' = pc /\ at' = active_terminal
          BY <3>1 DEF Load, OneTerminal
        <4>. QED  BY <2>1, <3>0, <4>1 DEF Resetting
      <3>2. CASE ClearWord
        <4>1. (pc' = pc /\ at' = at) \/ (pc' = "index" /\ at' = NotLoaded)
          BY <3>2 DEF ClearWord
        <4>. QED  BY <2>1, <3>0, <4>1 DEF Resetting
      <3>3. CASE ResetIndex
        <4>1. pc' = "flag" /\ at' = NotLoaded
          BY <3>3 DEF ResetIndex, Access
        <4>. QED  BY <2>1, <4>1 DEF Resetting
      <3>4. CASE ResetEnter
        BY <2>2, <3>0, <3>4 DEF ResetEnter, Access
      <3>5. ~(StartRead \/ ShellEnds \/ EnableBuffer \/ Poll \/ SeeEnter \/ CopyByte \/ TestByte
              \/ CopyLimit \/ DisableBuffer)
        BY <3>0 DEF StartRead, ShellEnds, EnableBuffer, Poll, SeeEnter, CopyByte, TestByte, CopyLimit,
                    DisableBuffer, Access
      <3>. QED  BY <1>3, <3>1, <3>2, <3>3, <3>4, <3>5 DEF Read
    <2>4. keyboard_buf'[active_terminal] = keyboard_buf[active_terminal]
      <3>1. ClearWord => at # active_terminal
        BY <2>3 DEF ClearWord, Resetting
      <3>. QED  BY <1>3, <2>1, <3>1, ReadFrame DEF TypeOK
    <2>5. index'[active_terminal] = index[active_terminal]
      <3>1. ResetIndex => at # active_terminal
        BY <2>3 DEF ResetIndex, Access, Resetting
      <3>. QED  BY <1>3, <2>1, <3>1, ReadFrame DEF TypeOK
    <2>6. LineWaits(0)
      BY <1>0, <2>2, <2>3 DEF FlagHasLine
    <2>. QED  BY <2>1, <2>4, <2>5, <2>6 DEF LineWaits
  <1>. QED  BY <1>0, <1>1, <1>2, <1>3 DEF Next, Key, LineKey

(* A byte at or before a waiting newline stays as it is whatever keys come. *)
LEMMA KeysKeepByte ==
    ASSUME TypeOK, LineKey, i < KEYBOARDSIZE, LineWaits(i)
    PROVE  keyboard_buf'[active_terminal][i] = keyboard_buf[active_terminal][i]
  <1>0. i \in Int /\ i >= 0 /\ active_terminal \in Term /\ number_printed_line \in Nat
    BY TermAssumption DEF TypeOK
  <1>1. index[active_terminal] \in Int
    BY <1>0 DEF TypeOK
  <1>2. i \in Cell
    BY TermAssumption DEF TypeOK, Cell
  <1>3. PICK k \in i .. KEYBOARDSIZE - 1 : k < index[active_terminal] - number_printed_line
    BY DEF LineWaits
  <1>4. i < index[active_terminal] - number_printed_line
    BY <1>0, <1>1, <1>3, TermAssumption
  <1>. QED  BY <1>2, <1>4, LineKeyLine DEF LineStep

(* What Copying says of a read that the display stays with.                *)
CopyNow ==
    /\ pc = "copy" => LineWaits(i) /\ Len(buf) = i
    /\ pc = "test" => LineWaits(i) /\ Len(buf) = i + 1 /\ buf[i + 1] = keyboard_buf[active_terminal][i]

LEMMA CopyingStep ==
    ASSUME TypeOK, OneTerminal, Fresh, FlagHasLine, Copying, HNext
    PROVE  Copying'
  <1>. SUFFICES ASSUME pc' \in {"copy", "test"}, ~moved', ~below' PROVE CopyNow'
    BY DEF Copying, CopyNow
  <1>0. Next /\ ~below /\ i \in Nat /\ buf \in Seq(Byte)
    <2>1. Next /\ ~below
      BY DEF HNext
    <2>2. i \in Nat /\ buf \in Seq(Byte)
      BY TermAssumption DEF TypeOK
    <2>. QED  BY <2>1, <2>2
  <1>00. ~StartRead /\ ~ShellEnds
    BY ShellEndsMoves DEF StartRead
  <1>000. ASSUME UNCHANGED suspended
          PROVE  /\ CopyNow /\ active_terminal' = active_terminal
                 /\ at # NotLoaded => at = active_terminal
    <2>1. ~moved /\ active_terminal' = active_terminal
      BY <1>00, <1>000, StillUnmoved
    <2>. QED  BY <1>0, <2>1 DEF Copying, CopyNow, Fresh
  <1>1. CASE LineKey
    <2>1. UNCHANGED <<pc, i, buf, suspended>> /\ UNCHANGED active_terminal
      BY <1>1, LineKeyFrame DEF readVars
    <2>2. CopyNow
      BY <1>000, <2>1
    <2>3. LineWaits(i) => LineWaits(i)'
      BY <1>0, <1>1, <2>1, KeysKeepLine DEF LineWaits
    <2>4. pc = "test" => keyboard_buf'[active_terminal][i] = keyboard_buf[active_terminal][i]
      BY <1>1, <2>2, KeysKeepByte DEF CopyNow, TypeOK, Placed
    <2>. QED  BY <2>1, <2>2, <2>3, <2>4 DEF CopyNow
  <1>2. ASSUME NEW t \in Term, Fn(t) PROVE CopyNow'
    <2>1. UNCHANGED <<pc, i, buf, suspended, keyboard_buf, index, number_printed_line>>
      BY <1>2, FnShape
    <2>2. CopyNow /\ active_terminal' = active_terminal
      BY <1>000, <2>1
    <2>. QED  BY <2>1, <2>2 DEF CopyNow, LineWaits
  <1>3. CASE Load
    <2>1. UNCHANGED <<pc, i, buf, suspended, keyboard_buf, index, number_printed_line, active_terminal>>
      BY <1>3 DEF Load, lineVars, termVars
    <2>2. CopyNow
      BY <1>000, <2>1
    <2>. QED  BY <2>1, <2>2 DEF CopyNow, LineWaits
  <1>4. CASE SeeEnter
    <2>1. /\ enter_read[active_terminal] # 0 /\ pc = "wait" /\ pc' = "copy" /\ i' = 0 /\ buf' = <<>>
          /\ UNCHANGED <<keyboard_buf, index, number_printed_line, active_terminal>>
      BY <1>4, SeenEnter
    <2>2. ~Resetting
      BY <2>1 DEF Resetting
    <2>3. LineWaits(0)
      BY <1>0, <2>1, <2>2 DEF FlagHasLine
    <2>4. LineWaits(i)'
      BY <2>1, <2>3 DEF LineWaits
    <2>. QED  BY <2>1, <2>4 DEF CopyNow
  <1>5. CASE CopyByte
    <2>1. /\ pc = "copy" /\ pc' = "test" /\ i' = i /\ at # NotLoaded
          /\ buf' = Append(buf, keyboard_buf[at][i])
          /\ UNCHANGED <<keyboard_buf, index, number_printed_line, active_terminal, suspended>>
      BY <1>5 DEF CopyByte, Access, termVars
    <2>2. CopyNow /\ at = active_terminal
      BY <1>000, <2>1
    <2>3. LineWaits(i) /\ Len(buf) = i
      BY <2>1, <2>2 DEF CopyNow
    <2>4. at \in Term /\ i \in Cell
      BY <2>1, TermAssumption DEF TypeOK, Cell
    <2>5. keyboard_buf[at][i] \in Byte
      BY <2>4 DEF TypeOK
    <2>6. Len(buf') = i + 1 /\ buf'[i + 1] = keyboard_buf[at][i]
      BY <1>0, <2>1, <2>3, <2>5, AppendProperties
    <2>7. LineWaits(i)'
      BY <2>1, <2>3 DEF LineWaits
    <2>. QED  BY <2>1, <2>2, <2>6, <2>7 DEF CopyNow
  <1>6. CASE TestByte
    <2>1. /\ pc = "test" /\ pc' = "copy" /\ i' = i + 1 /\ at # NotLoaded
          /\ keyboard_buf[at][i] # "nl"
          /\ UNCHANGED <<keyboard_buf, index, number_printed_line, active_terminal, buf, suspended>>
      BY <1>6 DEF TestByte, Access, termVars
    <2>2. CopyNow /\ at = active_terminal
      BY <1>000, <2>1
    <2>3. LineWaits(i) /\ Len(buf) = i + 1
      BY <2>1, <2>2 DEF CopyNow
    <2>4. PICK k \in i .. KEYBOARDSIZE - 1 :
                /\ keyboard_buf[active_terminal][k] = "nl"
                /\ k < index[active_terminal] - number_printed_line
      BY <2>3 DEF LineWaits
    <2>5. k # i
      BY <2>1, <2>2, <2>4, Zenon
    <2>6. k \in i + 1 .. KEYBOARDSIZE - 1
      BY <1>0, <2>5, TermAssumption
    <2>7. LineWaits(i)'
      BY <2>1, <2>4, <2>6 DEF LineWaits
    <2>. QED  BY <2>1, <2>3, <2>7 DEF CopyNow
  <1>7. ~(EnableBuffer \/ Poll \/ CopyLimit \/ ClearWord \/ ResetIndex \/ ResetEnter \/ DisableBuffer)
    BY DEF EnableBuffer, Poll, CopyLimit, ClearWord, ResetIndex, ResetEnter, DisableBuffer, Access, Idle
  <1>. QED  BY <1>0, <1>00, <1>1, <1>2, <1>3, <1>4, <1>5, <1>6, <1>7 DEF Next, Key, LineKey, Read

LEMMA ReadIsLineStep ==
    ASSUME TypeOK, OneTerminal, Fresh, Copying, ReadIsLine, HNext
    PROVE  ReadIsLine'
  <1>. SUFFICES ASSUME Copied', ~moved', ~below' PROVE Whole'
    BY DEF ReadIsLine
  <1>0. Next /\ ~below
    BY DEF HNext
  <1>00. ~StartRead /\ ~ShellEnds
    BY ShellEndsMoves DEF StartRead, Copied
  <1>1. ASSUME UNCHANGED <<buf, num, suspended>>, Copied PROVE Whole'
    <2>1. ~moved
      BY <1>00, <1>1, StillUnmoved
    <2>. QED  BY <1>0, <1>1, <2>1 DEF ReadIsLine, Whole, EndsInNewline
  <1>2. CASE LineKey
    BY <1>1, <1>2, LineKeyFrame DEF readVars, Copied
  <1>3. ASSUME NEW t \in Term, Fn(t) PROVE Whole'
    BY <1>1, <1>3, FnShape DEF Copied
  <1>4. CASE TestByte
    <2>1. /\ pc = "test" /\ at # NotLoaded /\ keyboard_buf[at][i] = "nl"
          /\ UNCHANGED <<buf, suspended>>
      BY <1>4 DEF TestByte, Access, Copied
    <2>2. ~moved
      BY <1>00, <2>1, StillUnmoved
    <2>3. Len(buf) = i + 1 /\ buf[i + 1] = "nl" /\ i \in Nat
      BY <1>0, <2>1, <2>2, TermAssumption DEF Copying, Fresh, TypeOK
    <2>4. buf # <<>>
      BY <2>3
    <2>. QED  BY <2>1, <2>3, <2>4 DEF Whole, EndsInNewline
  <1>5. CASE CopyLimit
    <2>1. pc = "copy" /\ ~MoreBytes /\ UNCHANGED <<buf, num, suspended>>
      BY <1>5 DEF CopyLimit
    <2>2. ~moved
      BY <1>00, <2>1, StillUnmoved
    <2>3. LineWaits(i) /\ Len(buf) = i
      BY <1>0, <2>1, <2>2 DEF Copying
    <2>4. i \in Int /\ num \in Int /\ KEYBOARDSIZE \in Int
      BY TermAssumption DEF TypeOK
    <2>5. \E k \in i .. KEYBOARDSIZE - 1 : TRUE
      BY <2>3 DEF LineWaits
    <2>6. i < KEYBOARDSIZE
      BY <2>4, <2>5
    <2>7. num < KEYBOARDSIZE /\ Len(buf) >= num
      BY <2>1, <2>3, <2>4, <2>6 DEF MoreBytes
    <2>. QED  BY <2>1, <2>7 DEF Whole
  <1>6. CASE Load \/ ClearWord \/ ResetIndex \/ ResetEnter
    BY <1>1, <1>6 DEF Load, ClearWord, ResetIndex, ResetEnter, Access, Copied
  <1>7. ~(EnableBuffer \/ Poll \/ SeeEnter \/ CopyByte \/ DisableBuffer)
    BY DEF EnableBuffer, Poll, SeeEnter, CopyByte, DisableBuffer, Access, Idle, Copied
  <1>. QED
    BY <1>0, <1>00, <1>2, <1>3, <1>4, <1>5, <1>6, <1>7 DEF Next, Key, LineKey, Read

LEMMA LineInvInit == HInit => LineInv
  <1>. SUFFICES ASSUME HInit PROVE LineInv
    OBVIOUS
  <1>1. pc = "user" /\ active_terminal = 0 /\ enter_read = [t \in Term |-> 0] /\ 0 \in Term
    BY TermAssumption DEF HInit, Init, Term
  <1>2. enter_read[active_terminal] = 0
    BY <1>1
  <1>. QED  BY <1>1, <1>2 DEF LineInv, FlagHasLine, Copying, ReadIsLine, Copied

LEMMA LineInvStep ==
    ASSUME EntersFit, HInv, LineInv, [HNext]_histVars
    PROVE  LineInv'
  <1>1. CASE UNCHANGED histVars
    BY <1>1 DEF LineInv, FlagHasLine, Resetting, Copying, ReadIsLine, Copied, Whole, LineWaits,
                EndsInNewline, histVars, vars, lineVars, termVars, readVars
  <1>2. CASE HNext
    BY <1>2, FlagHasLineStep, CopyingStep, ReadIsLineStep DEF HInv, LineInv
  <1>. QED  BY <1>1, <1>2

(* ReadIsLine, for every number of terminals, size of the buffers and any  *)
(* keys: what read_terminal returns ends with the newline of an Enter, or  *)
(* is as long as the program asked for.                                    *)
(* The hypothesis is the one the property is stated under: no Enter is     *)
(* pressed where the buffer has no place left for its newline.             *)
THEOREM AlwaysReadIsLine ==
    ASSUME EntersFit
    PROVE  HSpec => []ReadIsLine
  <1>1. HInv /\ LineInv /\ [HNext]_histVars => LineInv'
    BY LineInvStep
  <1>2. LineInv => ReadIsLine
    BY DEF LineInv
  <1>. QED  BY LineInvInit, TerminalInvariant, <1>1, <1>2, PTL DEF HSpec
=============================================================================
