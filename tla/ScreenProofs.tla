---------------------------- MODULE ScreenProofs ----------------------------
(***************************************************************************)
(* Proofs about the text screen, for every size of screen that fits the    *)
(* bytes the coordinates are saved in, every number of terminals and every *)
(* set of characters.                                                      *)
(***************************************************************************)
EXTENDS Screen, SequenceTheorems, TLAPS

(* The rows of a screen lie in video memory one behind the other.          *)
LEMMA RowsInOrder ==
    ASSUME NEW y \in Int, y \in 0 .. NUM_ROWS - 1
    PROVE  /\ NUM_COLS * y \in Int
           /\ (NUM_ROWS - 1) * NUM_COLS \in Nat
           /\ NUM_ROWS * NUM_COLS = (NUM_ROWS - 1) * NUM_COLS + NUM_COLS
           /\ NUM_COLS * y >= 0
           /\ NUM_COLS * y <= (NUM_ROWS - 1) * NUM_COLS
           /\ NUM_COLS * (y + 1) = NUM_COLS * y + NUM_COLS
           /\ NUM_COLS * (y - 1) = NUM_COLS * y - NUM_COLS
           /\ y >= 1 => NUM_COLS * y >= NUM_COLS
           /\ y + 1 < NUM_ROWS => NUM_COLS * y + NUM_COLS <= (NUM_ROWS - 1) * NUM_COLS
<1> USE ScreenAssumption
<1>1. NUM_COLS \in Nat /\ NUM_ROWS \in Nat /\ NUM_COLS > 0 /\ NUM_ROWS > 1
  OBVIOUS
<1>2. NUM_COLS * y \in Int /\ (NUM_ROWS - 1) * NUM_COLS \in Nat
  BY <1>1, SMT
<1>3. NUM_ROWS * NUM_COLS = (NUM_ROWS - 1) * NUM_COLS + NUM_COLS
  BY <1>1, SMT
<1>4. NUM_COLS * y >= 0
  BY <1>1, SMT
<1>5. NUM_COLS * y <= (NUM_ROWS - 1) * NUM_COLS
  BY <1>1, SMT
<1>6. /\ NUM_COLS * (y + 1) = NUM_COLS * y + NUM_COLS
      /\ NUM_COLS * (y - 1) = NUM_COLS * y - NUM_COLS
  BY <1>1, SMT
<1>7. y >= 1 => NUM_COLS * y >= NUM_COLS
  BY <1>1, SMT
<1>8. y + 1 < NUM_ROWS => NUM_COLS * y + NUM_COLS <= (NUM_ROWS - 1) * NUM_COLS
  BY <1>1, SMT
<1> QED
  BY <1>2, <1>3, <1>4, <1>5, <1>6, <1>7, <1>8

(* A cursor on the screen addresses a cell; one at a positive position has *)
(* a cell before it.                                                       *)
LEMMA CursorCell ==
    ASSUME NEW s \in Page, OnScreen(s)
    PROVE  /\ Pos(s) \in Cell
           /\ Pos(s) = NUM_COLS * s.y + s.x
           /\ s.x \in 0 .. NUM_COLS - 1 /\ s.y \in 0 .. NUM_ROWS - 1
<1>1. s.x \in Int /\ s.y \in Int /\ s.x \in 0 .. NUM_COLS - 1 /\ s.y \in 0 .. NUM_ROWS - 1
  BY DEF OnScreen, Page
<1>2. NUM_COLS \in Nat /\ NUM_ROWS \in Nat
  BY ScreenAssumption
<1> DEFINE row == NUM_COLS * s.y
           last == (NUM_ROWS - 1) * NUM_COLS
           all == NUM_ROWS * NUM_COLS
<1>3. row \in Int /\ last \in Nat /\ all = last + NUM_COLS /\ row >= 0 /\ row <= last
  BY <1>1, RowsInOrder
<1>4. Pos(s) = row + s.x
  BY DEF Pos
<1> HIDE DEF row, last, all
<1>5. row + s.x \in 0 .. all - 1
  BY <1>1, <1>2, <1>3
<1> QED
  BY <1>1, <1>4, <1>5 DEF Cell, row, all

LEMMA PokeStores ==
    ASSUME NEW s \in Page, NEW c \in Char
    PROVE  /\ Poke(s, c) \in Page
           /\ Poke(s, c).x = s.x /\ Poke(s, c).y = s.y
           /\ \A k \in Cell :
                 Poke(s, c).video[k] = IF k = Pos(s) THEN c ELSE s.video[k]
  BY DEF Poke, Page

(* clear_top_row(r) empties the cells from row r on and leaves the others. *)
LEMMA ClearKeeps ==
    ASSUME NEW s \in Page, NEW r
    PROVE  /\ clear_top_row(s, r) \in Page
           /\ clear_top_row(s, r).x = s.x /\ clear_top_row(s, r).y = s.y
           /\ r \in 0 .. NUM_ROWS - 1 =>
                 \A k \in Cell : k < NUM_COLS * r => clear_top_row(s, r).video[k] = s.video[k]
<1>1. "nul" \in Char
  BY DEF Char
<1>2. s = [video |-> s.video, x |-> s.x, y |-> s.y]
      /\ s.video \in [Cell -> Char] /\ s.x \in Int /\ s.y \in Int
  BY DEF Page
<1> DEFINE v == [k \in Cell |-> IF k >= (r % 256) * NUM_COLS THEN "nul" ELSE s.video[k]]
<1>3. v \in [Cell -> Char]
  BY <1>1, <1>2
<1>4. clear_top_row(s, r) = [s EXCEPT !.video = v]
  BY DEF clear_top_row
<1> HIDE DEF v
<1>5. /\ clear_top_row(s, r) \in Page
      /\ clear_top_row(s, r).x = s.x /\ clear_top_row(s, r).y = s.y
      /\ clear_top_row(s, r).video = v
  BY <1>2, <1>3, <1>4 DEF Page
<1>6. ASSUME r \in 0 .. NUM_ROWS - 1, NEW k \in Cell, k < NUM_COLS * r
      PROVE  v[k] = s.video[k]
  <2>1. r \in Nat /\ r < 256 /\ NUM_COLS \in Nat
    BY <1>6, ScreenAssumption
  <2>2. r % 256 = r
    BY <2>1
  <2>3. NUM_COLS * r = r * NUM_COLS /\ NUM_COLS * r \in Int
    BY <2>1
  <2>4. k \in Int
    BY ScreenAssumption DEF Cell
  <2>5. ~(k >= r * NUM_COLS)
    BY <1>6, <2>3, <2>4
  <2> QED
    BY <2>2, <2>5 DEF v
<1> QED
  BY <1>5, <1>6

(* scroll() moves every row up by one and stands at the start of the last. *)
LEMMA ScrollMoves ==
    ASSUME NEW s \in Page
    PROVE  /\ scroll(s) \in Page
           /\ scroll(s).x = 0 /\ scroll(s).y = NUM_ROWS - 1
           /\ \A k \in Cell : k < (NUM_ROWS - 1) * NUM_COLS =>
                 k + NUM_COLS \in Cell /\ scroll(s).video[k] = s.video[k + NUM_COLS]
<1>1. NUM_COLS \in Nat /\ NUM_ROWS \in Nat /\ NUM_ROWS > 1
  BY ScreenAssumption
<1>2. s.video \in [Cell -> Char]
  BY DEF Page
<1> DEFINE v == [k \in Cell |-> IF k + NUM_COLS \in Cell THEN s.video[k + NUM_COLS] ELSE s.video[k]]
           u == [video |-> v, x |-> 0, y |-> NUM_ROWS - 1]
<1>3. v \in [Cell -> Char]
  BY <1>2
<1>4. \A k \in Cell : k + NUM_COLS \in Cell => v[k] = s.video[k + NUM_COLS]
  OBVIOUS
<1>5. scroll(s) = clear_top_row(u, NUM_ROWS - 1)
  BY DEF scroll
<1> HIDE DEF v
<1>6. u \in Page /\ u.x = 0 /\ u.y = NUM_ROWS - 1 /\ u.video = v
  BY <1>1, <1>3 DEF Page
<1>7. NUM_ROWS - 1 \in 0 .. NUM_ROWS - 1
  BY <1>1
<1> HIDE DEF u
<1> DEFINE last == (NUM_ROWS - 1) * NUM_COLS
           all == NUM_ROWS * NUM_COLS
<1>8. last \in Nat /\ all = last + NUM_COLS /\ NUM_COLS * (NUM_ROWS - 1) = last
  BY <1>1, <1>7, RowsInOrder
<1>9. /\ scroll(s) \in Page
      /\ scroll(s).x = u.x /\ scroll(s).y = u.y
      /\ \A k \in Cell : k < NUM_COLS * (NUM_ROWS - 1) => scroll(s).video[k] = u.video[k]
  BY <1>5, <1>6, <1>7, ClearKeeps
<1>10. ASSUME NEW k \in Cell, k < last
       PROVE  k + NUM_COLS \in Cell /\ scroll(s).video[k] = s.video[k + NUM_COLS]
  <2> Cell = 0 .. all - 1
    BY DEF Cell
  <2> HIDE DEF last, all
  <2>1. k + NUM_COLS \in Cell
    BY <1>1, <1>8, <1>10
  <2>2. scroll(s).video[k] = v[k]
    BY <1>6, <1>8, <1>9, <1>10
  <2> QED
    BY <1>4, <2>1, <2>2
<1> QED
  BY <1>6, <1>9, <1>10

(* screen_y++ above the last row.                                          *)
LEMMA DownInside ==
    ASSUME NEW s \in Page, s.y + 1 < NUM_ROWS
    PROVE  /\ Down(s) \in Page
           /\ Down(s).x = s.x /\ Down(s).y = s.y + 1 /\ Down(s).video = s.video
<1>1. s.y \in Int /\ NUM_ROWS \in Int
  BY ScreenAssumption DEF Page
<1>2. Down(s) = [s EXCEPT !.y = @ + 1]
  BY <1>1 DEF Down
<1> QED
  BY <1>1, <1>2 DEF Page

(* screen_y++ in the last row.                                             *)
LEMMA DownBelow ==
    ASSUME NEW s \in Page, ~(s.y + 1 < NUM_ROWS)
    PROVE  Down(s) = scroll(s)
<1>1. s.y \in Int /\ NUM_ROWS \in Int
  BY ScreenAssumption DEF Page
<1> QED
  BY <1>1 DEF Down

(* A newline keeps a cursor on the screen, in a row other than the first,  *)
(* with as much before it as the screen above its last row can hold.       *)
LEMMA NewlineStays ==
    ASSUME NEW s \in Page
    PROVE  /\ PutNewline(s) \in Page
           /\ OnScreen(s) =>
                 /\ OnScreen(PutNewline(s))
                 /\ Pos(PutNewline(s)) >= NUM_COLS
                 /\ Pos(PutNewline(s)) >= Pos(s) \/ Pos(PutNewline(s)) >= (NUM_ROWS - 1) * NUM_COLS
<1>1. NUM_COLS \in Nat /\ NUM_ROWS \in Nat /\ NUM_ROWS > 1 /\ NUM_COLS > 0
  BY ScreenAssumption
<1>2. s.x \in Int /\ s.y \in Int
  BY DEF Page
<1> DEFINE d == Down(s)
<1>3. d \in Page
  BY DownInside, DownBelow, ScrollMoves
<1>4. PutNewline(s) = [d EXCEPT !.x = 0]
  BY DEF PutNewline
<1> HIDE DEF d
<1>5. /\ PutNewline(s) \in Page
      /\ PutNewline(s).x = 0 /\ PutNewline(s).y = d.y
  BY <1>3, <1>4 DEF Page
<1>6. ASSUME OnScreen(s)
      PROVE  /\ OnScreen(PutNewline(s))
             /\ Pos(PutNewline(s)) >= NUM_COLS
             /\ Pos(PutNewline(s)) >= Pos(s) \/ Pos(PutNewline(s)) >= (NUM_ROWS - 1) * NUM_COLS
  <2>1. s.x \in 0 .. NUM_COLS - 1 /\ s.y \in 0 .. NUM_ROWS - 1 /\ Pos(s) = NUM_COLS * s.y + s.x
    BY <1>6, CursorCell
  <2>2. NUM_COLS * s.y \in Int /\ NUM_COLS * (s.y + 1) = NUM_COLS * s.y + NUM_COLS /\ NUM_COLS * s.y >= 0
    BY <1>2, <2>1, RowsInOrder
  <2>3. CASE s.y + 1 < NUM_ROWS
    <3>1. d.y = s.y + 1
      BY <2>3, DownInside DEF d
    <3>2. OnScreen(PutNewline(s))
      BY <1>1, <1>2, <1>5, <2>1, <2>3, <3>1 DEF OnScreen
    <3>3. Pos(PutNewline(s)) = NUM_COLS * s.y + NUM_COLS
      <4>1. Pos(PutNewline(s)) = NUM_COLS * (s.y + 1) + 0
        BY <1>5, <3>1 DEF Pos
      <4> QED
        BY <1>1, <2>2, <4>1
    <3> HIDE DEF d
    <3> QED
      BY <1>1, <1>2, <2>1, <2>2, <3>2, <3>3
  <2>4. CASE ~(s.y + 1 < NUM_ROWS)
    <3>1. d.y = NUM_ROWS - 1
      BY <2>4, DownBelow, ScrollMoves DEF d
    <3>2. OnScreen(PutNewline(s))
      BY <1>1, <1>5, <3>1 DEF OnScreen
    <3>3. NUM_ROWS - 1 \in Int /\ NUM_ROWS - 1 \in 0 .. NUM_ROWS - 1 /\ NUM_ROWS - 1 >= 1
      BY <1>1
    <3>4. NUM_COLS * (NUM_ROWS - 1) >= NUM_COLS /\ NUM_COLS * (NUM_ROWS - 1) \in Int
      BY <3>3, RowsInOrder
    <3>5. NUM_COLS * (NUM_ROWS - 1) = (NUM_ROWS - 1) * NUM_COLS
      BY <1>1
    <3>6. Pos(PutNewline(s)) = NUM_COLS * (NUM_ROWS - 1)
      <4>1. Pos(PutNewline(s)) = NUM_COLS * (NUM_ROWS - 1) + 0
        BY <1>5, <3>1 DEF Pos
      <4> QED
        BY <3>4, <4>1
    <3> DEFINE p == NUM_COLS * (NUM_ROWS - 1)
    <3>7. p \in Int /\ p >= NUM_COLS /\ p = (NUM_ROWS - 1) * NUM_COLS /\ Pos(PutNewline(s)) = p
      BY <3>4, <3>5, <3>6
    <3> HIDE DEF p
    <3> QED
      BY <3>2, <3>7
  <2> QED
    BY <2>3, <2>4
<1> QED
  BY <1>5, <1>6

(* putc('\b') moves a cursor that has a cell before it to that cell, over  *)
(* the end of the row above where needed, and leaves the cells before it.  *)
LEMMA BackspaceSteps ==
    ASSUME NEW s \in Page
    PROVE  /\ PutBackspace(s) \in Page
           /\ OnScreen(s) /\ Pos(s) > 0 =>
                 /\ OnScreen(PutBackspace(s))
                 /\ Pos(PutBackspace(s)) = Pos(s) - 1
                 /\ \A k \in Cell : k < Pos(s) - 1 => PutBackspace(s).video[k] = s.video[k]
<1>1. NUM_COLS \in Nat /\ NUM_ROWS \in Nat /\ NUM_ROWS > 1 /\ NUM_COLS > 0
  BY ScreenAssumption
<1>2. s.x \in Int /\ s.y \in Int
  BY DEF Page
<1> DEFINE corner == [s EXCEPT !.x = 0, !.y = 0]
           cleared == clear_top_row(s, s.y)
           above == [cleared EXCEPT !.x = NUM_COLS - 1, !.y = s.y - 1]
           before == [s EXCEPT !.x = @ - 1]
           back == CASE s.y < 0 /\ s.x <= 0 -> corner
                     [] s.y >= 0 /\ s.x <= 0 -> above
                     [] OTHER -> before
<1>3. PutBackspace(s) = Poke(back, " ")
  BY Zenon DEF PutBackspace
<1>4. cleared \in Page
  BY ClearKeeps
<1> HIDE DEF cleared
<1>5. /\ corner \in Page
      /\ before \in Page /\ before.x = s.x - 1 /\ before.y = s.y /\ before.video = s.video
  <2>1. corner \in Page
    <3> DEFINE q == [s EXCEPT !.x = 0]
    <3>1. q \in Page
      BY DEF Page
    <3>2. corner = [q EXCEPT !.y = 0]
      BY Zenon
    <3> HIDE DEF q, corner
    <3> QED
      BY <3>1, <3>2 DEF Page
  <2>2. before \in Page /\ before.x = s.x - 1 /\ before.y = s.y /\ before.video = s.video
    BY <1>2 DEF Page
  <2> QED
    BY <2>1, <2>2
<1>6. above \in Page /\ above.x = NUM_COLS - 1 /\ above.y = s.y - 1 /\ above.video = cleared.video
  <2> DEFINE q == [cleared EXCEPT !.x = NUM_COLS - 1]
  <2>1. q \in Page /\ q.x = NUM_COLS - 1 /\ q.video = cleared.video
    BY <1>1, <1>4 DEF Page
  <2>2. above = [q EXCEPT !.y = s.y - 1]
    BY Zenon
  <2> HIDE DEF q, above
  <2> QED
    BY <1>1, <1>2, <2>1, <2>2 DEF Page
<1> HIDE DEF corner, above, before
<1>7. back \in Page
  BY <1>2, <1>5, <1>6
<1>8. " " \in Char
  BY DEF Char
<1>9. PutBackspace(s) \in Page
  BY <1>3, <1>7, <1>8, PokeStores
<1>10. ASSUME OnScreen(s), Pos(s) > 0
       PROVE  /\ OnScreen(PutBackspace(s))
              /\ Pos(PutBackspace(s)) = Pos(s) - 1
              /\ \A k \in Cell : k < Pos(s) - 1 => PutBackspace(s).video[k] = s.video[k]
  <2>1. s.x \in 0 .. NUM_COLS - 1 /\ s.y \in 0 .. NUM_ROWS - 1 /\ Pos(s) = NUM_COLS * s.y + s.x
    BY <1>10, CursorCell
  <2>2. /\ NUM_COLS * s.y \in Int /\ NUM_COLS * (s.y - 1) = NUM_COLS * s.y - NUM_COLS
        /\ NUM_COLS * s.y >= 0 /\ s.y = 0 => NUM_COLS * s.y = 0
    BY <1>1, <1>2, <2>1, RowsInOrder
  <2>3. ASSUME NEW b \in Page, back = b, OnScreen(b), Pos(b) = Pos(s) - 1,
               \A k \in Cell : k < Pos(s) - 1 => b.video[k] = s.video[k]
        PROVE  /\ OnScreen(PutBackspace(s))
               /\ Pos(PutBackspace(s)) = Pos(s) - 1
               /\ \A k \in Cell : k < Pos(s) - 1 => PutBackspace(s).video[k] = s.video[k]
    <3>1. PutBackspace(s) = Poke(b, " ")
      BY <1>3, <2>3
    <3> HIDE DEF back
    <3>2. /\ PutBackspace(s).x = b.x /\ PutBackspace(s).y = b.y
          /\ \A k \in Cell : PutBackspace(s).video[k] = IF k = Pos(b) THEN " " ELSE b.video[k]
      <4>1. /\ Poke(b, " ").x = b.x /\ Poke(b, " ").y = b.y
            /\ \A k \in Cell : Poke(b, " ").video[k] = IF k = Pos(b) THEN " " ELSE b.video[k]
        BY <1>8, PokeStores, Zenon
      <4> QED
        BY <3>1, <4>1, Zenon
    <3>3. OnScreen(PutBackspace(s)) /\ Pos(PutBackspace(s)) = Pos(b)
      BY <2>3, <3>2 DEF OnScreen, Pos
    <3>4. Pos(s) \in Int /\ \A k \in Cell : k \in Int
      BY <2>1, <2>2, <1>2, <1>1 DEF Cell
    <3>5. \A k \in Cell : k < Pos(s) - 1 => k # Pos(b)
      BY <2>3, <3>4
    <3> QED
      BY <2>3, <3>2, <3>3, <3>5
  <2>4. CASE s.x = 0
    <3>1. s.y # 0 /\ s.y \in Nat
      BY <1>1, <1>2, <1>10, <2>1, <2>2, <2>4
    <3>2. back = above
      BY <1>2, <2>4, <3>1
    <3>3. OnScreen(above)
      BY <1>1, <1>6, <2>1, <3>1 DEF OnScreen
    <3>4. Pos(above) = Pos(s) - 1
      <4>1. Pos(above) = NUM_COLS * (s.y - 1) + (NUM_COLS - 1)
        BY <1>6 DEF Pos
      <4> QED
        BY <1>1, <2>1, <2>2, <2>4, <4>1
    <3>5. Pos(s) \in Int /\ Pos(s) = NUM_COLS * s.y /\ \A k \in Cell : k \in Int
      BY <2>1, <2>2, <2>4, <1>1 DEF Cell
    <3>6. \A k \in Cell : k < NUM_COLS * s.y => cleared.video[k] = s.video[k]
      BY <2>1, ClearKeeps DEF cleared
    <3>7. \A k \in Cell : k < Pos(s) - 1 => above.video[k] = s.video[k]
      BY <1>6, <3>5, <3>6
    <3> QED
      BY <1>6, <2>3, <3>2, <3>3, <3>4, <3>7
  <2>5. CASE s.x # 0
    <3>1. back = before
      BY <1>2, <2>1, <2>5
    <3>2. OnScreen(before)
      BY <1>1, <1>2, <1>5, <2>1, <2>5 DEF OnScreen
    <3>3. Pos(before) = Pos(s) - 1
      <4>1. Pos(before) = NUM_COLS * s.y + (s.x - 1)
        BY <1>5 DEF Pos
      <4> QED
        BY <1>2, <2>1, <2>2, <4>1
    <3> QED
      BY <1>5, <2>3, <3>1, <3>2, <3>3
  <2> QED
    BY <2>4, <2>5
<1> QED
  BY <1>9, <1>10

(* putc of a printable character moves a cursor on the screen one cell on, *)
(* over the end of its row where needed; behind the last cell of the       *)
(* screen everything moves up one row.  The cells before the new position  *)
(* hold what stood there, and then the character.                          *)
LEMMA CharSteps ==
    ASSUME NEW s \in Page, NEW c \in Char
    PROVE  /\ PutChar(s, c) \in Page
           /\ OnScreen(s) =>
                 /\ OnScreen(PutChar(s, c))
                 /\ \E up \in {0, NUM_COLS} :
                       /\ Pos(PutChar(s, c)) = Pos(s) + 1 - up
                       /\ up # 0 => Pos(PutChar(s, c)) = (NUM_ROWS - 1) * NUM_COLS
                       /\ \A k \in Cell : k < Pos(PutChar(s, c)) =>
                             /\ k + up \in Cell
                             /\ PutChar(s, c).video[k] = IF k + up = Pos(s) THEN c ELSE s.video[k + up]
<1>1. NUM_COLS \in Nat /\ NUM_ROWS \in Nat /\ NUM_ROWS > 1 /\ NUM_COLS > 0
  BY ScreenAssumption
<1>2. s.x \in Int /\ s.y \in Int
  BY DEF Page
<1> DEFINE w == Poke(s, c)
           t == [w EXCEPT !.x = @ + 1]
           u == [t EXCEPT !.x = 0]
           d == Down(u)
<1>3. PutChar(s, c) = IF t.x < NUM_COLS THEN t ELSE clear_top_row(d, d.y)
  BY Zenon DEF PutChar
<1>4. /\ w \in Page /\ w.x = s.x /\ w.y = s.y
      /\ \A k \in Cell : w.video[k] = IF k = Pos(s) THEN c ELSE s.video[k]
  BY PokeStores, Zenon
<1> HIDE DEF w
<1>5. t \in Page /\ t.x = s.x + 1 /\ t.y = s.y /\ t.video = w.video
  BY <1>2, <1>4 DEF Page
<1> HIDE DEF t
<1>6. u \in Page /\ u.x = 0 /\ u.y = s.y /\ u.video = w.video
  BY <1>5 DEF Page
<1> HIDE DEF u
<1>7. d \in Page
  BY <1>6, DownInside, DownBelow, ScrollMoves
<1>8. clear_top_row(d, d.y) \in Page
  BY <1>7, ClearKeeps
<1>9. PutChar(s, c) \in Page
  BY <1>3, <1>5, <1>8
<1> HIDE DEF d
<1>10. ASSUME OnScreen(s)
       PROVE  /\ OnScreen(PutChar(s, c))
              /\ \E up \in {0, NUM_COLS} :
                    /\ Pos(PutChar(s, c)) = Pos(s) + 1 - up
                    /\ up # 0 => Pos(PutChar(s, c)) = (NUM_ROWS - 1) * NUM_COLS
                    /\ \A k \in Cell : k < Pos(PutChar(s, c)) =>
                          /\ k + up \in Cell
                          /\ PutChar(s, c).video[k] = IF k + up = Pos(s) THEN c ELSE s.video[k + up]
  <2>1. /\ s.x \in 0 .. NUM_COLS - 1 /\ s.y \in 0 .. NUM_ROWS - 1
        /\ Pos(s) = NUM_COLS * s.y + s.x /\ Pos(s) \in Cell
    BY <1>10, CursorCell
  <2>2. /\ NUM_COLS * s.y \in Int /\ NUM_COLS * (s.y + 1) = NUM_COLS * s.y + NUM_COLS
        /\ NUM_COLS * s.y >= 0 /\ (NUM_ROWS - 1) * NUM_COLS \in Nat
    BY <1>1, <1>2, <2>1, RowsInOrder
  <2>3. Pos(s) \in Int /\ \A k \in Cell : k \in Int
    BY <1>1, <2>1 DEF Cell
  <2>4. ASSUME NEW r \in Page, PutChar(s, c) = r, OnScreen(r), NEW up \in {0, NUM_COLS},
               Pos(r) = Pos(s) + 1 - up,
               up # 0 => Pos(r) = (NUM_ROWS - 1) * NUM_COLS,
               \A k \in Cell : k < Pos(r) => k + up \in Cell /\ r.video[k] = w.video[k + up]
        PROVE  /\ OnScreen(PutChar(s, c))
               /\ \E n \in {0, NUM_COLS} :
                     /\ Pos(PutChar(s, c)) = Pos(s) + 1 - n
                     /\ n # 0 => Pos(PutChar(s, c)) = (NUM_ROWS - 1) * NUM_COLS
                     /\ \A k \in Cell : k < Pos(PutChar(s, c)) =>
                           /\ k + n \in Cell
                           /\ PutChar(s, c).video[k] = IF k + n = Pos(s) THEN c ELSE s.video[k + n]
    <3>1. \A k \in Cell : k < Pos(r) =>
             /\ k + up \in Cell
             /\ r.video[k] = IF k + up = Pos(s) THEN c ELSE s.video[k + up]
      BY <1>4, <2>4, Zenon
    <3> QED
      BY <2>4, <3>1, Zenon
  <2>5. CASE s.x + 1 < NUM_COLS
    <3>1. PutChar(s, c) = t
      BY <1>3, <1>5, <2>5
    <3>2. OnScreen(t)
      BY <1>1, <1>2, <1>5, <2>1, <2>5 DEF OnScreen
    <3>3. Pos(t) = Pos(s) + 1 - 0
      <4>1. Pos(t) = NUM_COLS * s.y + (s.x + 1)
        BY <1>5 DEF Pos
      <4> QED
        BY <1>2, <2>1, <2>2, <4>1
    <3>4. \A k \in Cell : k + 0 = k
      BY <2>3
    <3>5. \A k \in Cell : k < Pos(t) => k + 0 \in Cell /\ t.video[k] = w.video[k + 0]
      BY <1>5, <3>4, Zenon
    <3>6. 0 \in {0, NUM_COLS}
      OBVIOUS
    <3> QED
      BY <1>5, <2>4, <3>1, <3>2, <3>3, <3>5, <3>6
  <2>6. CASE ~(s.x + 1 < NUM_COLS)
    <3> DEFINE e == clear_top_row(d, d.y)
    <3>1. PutChar(s, c) = e
      BY <1>3, <1>5, <2>6
    <3>2. s.x = NUM_COLS - 1
      BY <1>1, <1>2, <2>1, <2>6
    <3>3. CASE s.y + 1 < NUM_ROWS
      <4>1. d.x = 0 /\ d.y = s.y + 1 /\ d.video = w.video
        BY <1>6, <3>3, DownInside DEF d
      <4>2. s.y + 1 \in 0 .. NUM_ROWS - 1
        BY <1>1, <1>2, <2>1, <3>3
      <4>3. /\ e \in Page /\ e.x = 0 /\ e.y = s.y + 1
            /\ \A k \in Cell : k < NUM_COLS * (s.y + 1) => e.video[k] = w.video[k]
        BY <1>7, <4>1, <4>2, ClearKeeps
      <4> HIDE DEF e
      <4>4. OnScreen(e)
        BY <1>1, <4>2, <4>3 DEF OnScreen
      <4>5. Pos(e) = NUM_COLS * (s.y + 1) + 0
        BY <4>3 DEF Pos
      <4>6. Pos(e) = NUM_COLS * (s.y + 1) /\ Pos(e) = Pos(s) + 1 - 0
        BY <1>1, <1>2, <2>1, <2>2, <3>2, <4>5
      <4>7. \A k \in Cell : k + 0 = k
        BY <2>3
      <4>8. \A k \in Cell : k < Pos(e) => k + 0 \in Cell /\ e.video[k] = w.video[k + 0]
        BY <4>3, <4>6, <4>7, Zenon
      <4>9. 0 \in {0, NUM_COLS}
        OBVIOUS
      <4> QED
        BY <2>4, <3>1, <4>3, <4>4, <4>6, <4>8, <4>9
    <3>4. CASE ~(s.y + 1 < NUM_ROWS)
      <4>1. d = scroll(u)
        BY <1>6, <3>4, DownBelow DEF d
      <4>2. /\ d.x = 0 /\ d.y = NUM_ROWS - 1
            /\ \A k \in Cell : k < (NUM_ROWS - 1) * NUM_COLS =>
                  k + NUM_COLS \in Cell /\ d.video[k] = w.video[k + NUM_COLS]
        BY <1>6, <4>1, ScrollMoves
      <4>3. NUM_ROWS - 1 \in 0 .. NUM_ROWS - 1 /\ NUM_COLS * (NUM_ROWS - 1) = (NUM_ROWS - 1) * NUM_COLS
        BY <1>1
      <4>4. /\ e \in Page /\ e.x = 0 /\ e.y = NUM_ROWS - 1
            /\ \A k \in Cell : k < NUM_COLS * (NUM_ROWS - 1) => e.video[k] = d.video[k]
        BY <1>7, <4>2, <4>3, ClearKeeps
      <4> HIDE DEF e
      <4>5. OnScreen(e)
        BY <1>1, <4>3, <4>4 DEF OnScreen
      <4>6. Pos(e) = NUM_COLS * (NUM_ROWS - 1) + 0
        BY <4>4 DEF Pos
      <4>7. s.y = NUM_ROWS - 1
        BY <1>1, <1>2, <2>1, <3>4
      <4>8. NUM_COLS * s.y = (NUM_ROWS - 1) * NUM_COLS
        BY <4>3, <4>7
      <4>9. Pos(e) = (NUM_ROWS - 1) * NUM_COLS
        BY <2>2, <4>3, <4>6
      <4>10. Pos(e) = Pos(s) + 1 - NUM_COLS
        BY <1>1, <2>1, <2>2, <3>2, <4>8, <4>9
      <4>11. \A k \in Cell : k < Pos(e) => k + NUM_COLS \in Cell /\ e.video[k] = w.video[k + NUM_COLS]
        BY <4>2, <4>3, <4>4, <4>9, Zenon
      <4>12. NUM_COLS \in {0, NUM_COLS}
        OBVIOUS
      <4> QED
        BY <2>4, <3>1, <4>4, <4>5, <4>9, <4>10, <4>11, <4>12
    <3> QED
      BY <3>3, <3>4
  <2> QED
    BY <2>5, <2>6
<1> QED
  BY <1>9, <1>10

(* putc takes each kind of character to its own treatment, and every one   *)
(* leaves a screen.                                                        *)
LEMMA PutKinds ==
    ASSUME NEW s \in Page, NEW c \in Typed \cup Written \cup {"nl", "bs"}
    PROVE  /\ putc(s, "nl") = PutNewline(s)
           /\ putc(s, "bs") = PutBackspace(s)
           /\ putc(s, "nul") = Poke(s, "nul")
           /\ c \notin {"nl", "bs", "nul"} => putc(s, c) = PutChar(s, c) /\ c \in Char
           /\ putc(s, c) \in Page
<1>1. putc(s, "nl") = PutNewline(s)
  BY DEF putc
<1>2. putc(s, "bs") = PutBackspace(s)
  BY DEF putc
<1>3. putc(s, "nul") = Poke(s, "nul")
  BY DEF putc
<1>4. ASSUME c \notin {"nl", "bs", "nul"} PROVE putc(s, c) = PutChar(s, c) /\ c \in Char
  BY <1>4 DEF putc, Char
<1>5. "nul" \in Char
  BY DEF Char
<1>6. putc(s, c) \in Page
  <2>1. CASE c = "nl"
    BY <1>1, <2>1, NewlineStays
  <2>2. CASE c = "bs"
    BY <1>2, <2>2, BackspaceSteps
  <2>3. CASE c = "nul"
    BY <1>3, <1>5, <2>3, PokeStores
  <2>4. CASE c \notin {"nl", "bs", "nul"}
    BY <1>4, <2>4, CharSteps
  <2> QED
    BY <2>1, <2>2, <2>3, <2>4
<1> QED
  BY <1>1, <1>2, <1>3, <1>4, <1>6

(* Every step keeps the types.                                             *)
LEMMA TypeStep ==
    ASSUME TypeOK, [Next]_vars
    PROVE  TypeOK'
<1> USE DEF TypeOK
<1>0. PICK s \in Page : s = screen
  OBVIOUS
<1>1. ASSUME NEW c \in Typed, KeyChar(c) PROVE TypeOK'
  <2>1. screen' = putc(s, c)
    BY <1>0, <1>1 DEF KeyChar
  <2>2. screen' \in Page
    BY <2>1, PutKinds
  <2>3. number_printed_line' \in 0 .. MaxLine
    BY <1>1, ScreenAssumption DEF KeyChar
  <2>4. line' \in Seq(Typed)
    BY <1>1 DEF KeyChar
  <2> QED
    BY <1>1, <2>2, <2>3, <2>4 DEF KeyChar
<1>2. CASE Enter
  <2>1. screen' = putc(s, "nl")
    BY <1>0, <1>2 DEF Enter
  <2>2. screen' \in Page
    BY <2>1, PutKinds
  <2>3. number_printed_line' \in 0 .. MaxLine
    BY <1>2, ScreenAssumption DEF Enter
  <2>4. counted' \in BOOLEAN /\ line' \in Seq(Typed)
    BY <1>2 DEF Enter
  <2> QED
    BY <1>2, <2>2, <2>3, <2>4 DEF Enter
<1>3. CASE AltEnter
  <2>1. number_printed_line' \in 0 .. MaxLine /\ line' \in Seq(Typed)
    BY <1>3, ScreenAssumption DEF AltEnter
  <2> QED
    BY <1>3, <2>1 DEF AltEnter
<1>4. CASE Backspace
  <2>1. screen' = putc(s, "bs")
    BY <1>0, <1>4 DEF Backspace
  <2>2. screen' \in Page
    BY <2>1, PutKinds
  <2>3. number_printed_line' \in 0 .. MaxLine
    BY <1>4, ScreenAssumption DEF Backspace
  <2>4. line' \in Seq(Typed)
    <3>1. CASE line = <<>>
      BY <1>4, <3>1 DEF Backspace
    <3>2. CASE line # <<>>
      <4>1. line' = SubSeq(line, 1, Len(line) - 1)
        BY <1>4, <3>2 DEF Backspace
      <4>2. Len(line) \in Nat
        OBVIOUS
      <4>3. \A k \in 1 .. Len(line) - 1 : line[k] \in Typed
        BY <4>2
      <4> QED
        BY <4>1, <4>2, <4>3
    <3> QED
      BY <3>1, <3>2
  <2> QED
    BY <1>4, <2>2, <2>3, <2>4 DEF Backspace
<1>5. CASE CtrlL
  <2>1. Blank(" ") \in [Cell -> Char]
    <3>1. " " \in Char
      BY DEF Char
    <3> QED
      BY <3>1 DEF Blank
  <2>2. [video |-> Blank(" "), x |-> 0, y |-> 0] \in Page
    <3>1. PICK v \in [Cell -> Char] : v = Blank(" ")
      BY <2>1
    <3>2. [video |-> v, x |-> 0, y |-> 0] \in Page
      BY DEF Page
    <3> QED
      BY <3>1, <3>2, Zenon
  <2>3. screen' \in Page
    BY <1>5, <2>2 DEF CtrlL
  <2>4. line' \in Seq(Typed)
    <3>1. line' = <<>>
      BY <1>5, Zenon DEF CtrlL
    <3> QED
      BY <3>1
  <2>5. counted' \in BOOLEAN
    BY <1>5, Zenon DEF CtrlL
  <2> QED
    BY <1>5, <2>3, <2>4, <2>5 DEF CtrlL
<1>6. ASSUME NEW c \in Written, Write(c) PROVE TypeOK'
  <2>1. screen' = putc(s, c)
    BY <1>0, <1>6 DEF Write
  <2>2. screen' \in Page
    BY <2>1, PutKinds
  <2>3. counted' \in BOOLEAN /\ line' \in Seq(Typed)
    BY <1>6 DEF Write
  <2> QED
    BY <1>6, <2>2, <2>3 DEF Write
<1>7. ASSUME NEW t \in Term, DisplaySwitch(t) PROVE TypeOK'
  <2> DEFINE kept == [saved EXCEPT ![active_terminal] = [screen EXCEPT !.x = @ % 256, !.y = @ % 256]]
             p == [s EXCEPT !.x = @ % 256, !.y = @ % 256]
  <2>1. p \in Page
    <3> DEFINE q == [s EXCEPT !.x = @ % 256]
    <3>1. s.x \in Int /\ s.y \in Int /\ s.x % 256 \in Int /\ s.y % 256 \in Int
      BY DEF Page
    <3>2. q \in Page /\ q.y = s.y
      BY <3>1 DEF Page
    <3>3. p = [q EXCEPT !.y = @ % 256]
      BY Zenon
    <3> HIDE DEF p, q
    <3> QED
      BY <3>1, <3>2, <3>3 DEF Page
  <2>2. kept = [saved EXCEPT ![active_terminal] = p]
    BY <1>0, Zenon
  <2> HIDE DEF p
  <2>3. saved' = kept /\ screen' = kept[t] /\ active_terminal' = t /\ line' = <<>> /\ counted' = FALSE
        /\ number_printed_line' = number_printed_line
    BY <1>7, Zenon DEF DisplaySwitch
  <2> HIDE DEF kept
  <2>4. kept \in [Term -> Page]
    BY <2>1, <2>2
  <2>5. line' \in Seq(Typed)
    BY <2>3
  <2>6. counted' \in BOOLEAN
    BY <2>3, Zenon
  <2>7. saved' \in [Term -> Page] /\ screen' \in Page
    BY <2>3, <2>4
  <2> QED
    BY <2>3, <2>5, <2>6, <2>7
<1>8. CASE UNCHANGED vars
  BY <1>8 DEF vars
<1> QED
  BY <1>1, <1>2, <1>3, <1>4, <1>5, <1>6, <1>7, <1>8 DEF Next

(* What each step does to the cursor, the count and the echoed line.       *)
LEMMA CursorStep ==
    ASSUME SInv, [Next]_vars
    PROVE  CursorOnScreen' /\ CountFits' /\ LineCounted' /\ LineShown'
<1>0. TypeOK /\ TypeOK'
  BY TypeStep DEF SInv
<1>1. PICK s \in Page, r \in Page, n \in 0 .. MaxLine, l \in Seq(Typed) :
         /\ s = screen /\ r = screen' /\ n = number_printed_line /\ l = line
  BY <1>0 DEF TypeOK
<1>2. /\ MaxLine \in Nat /\ MaxLine >= 1 /\ MaxLine <= (NUM_ROWS - 1) * NUM_COLS
      /\ NUM_COLS \in Nat /\ NUM_COLS >= 1 /\ (NUM_ROWS - 1) * NUM_COLS \in Nat
      /\ n \in Nat /\ n <= MaxLine /\ Len(l) \in Nat
  <2>1. (NUM_ROWS - 1) * NUM_COLS \in Nat
    <3>1. NUM_ROWS \in Nat /\ NUM_ROWS > 1 /\ NUM_COLS \in Nat
      BY ScreenAssumption
    <3>2. 0 \in Int /\ 0 \in 0 .. NUM_ROWS - 1
      BY <3>1
    <3> QED
      BY <3>2, RowsInOrder
  <2> QED
    BY <2>1, ScreenAssumption
<1>3. /\ counted => OnScreen(s)
      /\ counted => n <= Pos(s)
      /\ l # <<>> => OnScreen(s)
      /\ Len(l) <= n
      /\ \A k \in 1 .. Len(l) :
            Pos(s) - Len(l) + k - 1 \in Cell /\ s.video[Pos(s) - Len(l) + k - 1] = l[k]
  BY <1>1 DEF SInv, CursorOnScreen, CountFits, LineCounted, LineShown
<1>4. /\ Pos(s) \in Int /\ Pos(r) \in Int
      /\ OnScreen(s) => Pos(s) \in Nat
  <2>1. NUM_COLS \in Int /\ s.x \in Int /\ s.y \in Int /\ r.x \in Int /\ r.y \in Int
    BY <1>2 DEF Page
  <2>2. NUM_COLS * s.y \in Int /\ NUM_COLS * r.y \in Int
    BY <2>1
  <2>3. OnScreen(s) => Pos(s) \in Nat
    BY CursorCell DEF Cell
  <2>4. Pos(s) \in Int /\ Pos(r) \in Int
    BY <2>1, <2>2 DEF Pos
  <2> QED
    BY <2>3, <2>4
(* It is enough to know the new cursor, count and line.                    *)
<1>5. ASSUME NEW m \in Nat, NEW e \in Seq(Typed), number_printed_line' = m, line' = e,
             counted' => OnScreen(r),
             counted' => m <= Pos(r),
             e # <<>> => OnScreen(r),
             Len(e) <= m,
             \A k \in 1 .. Len(e) :
                Pos(r) - Len(e) + k - 1 \in Cell /\ r.video[Pos(r) - Len(e) + k - 1] = e[k]
      PROVE  CursorOnScreen' /\ CountFits' /\ LineCounted' /\ LineShown'
  BY <1>1, <1>5 DEF CursorOnScreen, CountFits, LineCounted, LineShown
(* ... and where the line is empty, only the cursor and the count.         *)
<1>6. ASSUME NEW m \in Nat, number_printed_line' = m, line' = <<>>,
             counted' => OnScreen(r),
             counted' => m <= Pos(r)
      PROVE  CursorOnScreen' /\ CountFits' /\ LineCounted' /\ LineShown'
  <2>1. <<>> \in Seq(Typed) /\ Len(<<>>) = 0 /\ Len(<<>>) <= m /\ 1 .. Len(<<>>) = {}
    BY <1>6
  <2> QED
    BY <1>5, <1>6, <2>1
<1>7. ASSUME NEW c \in Typed, KeyChar(c)
      PROVE  CursorOnScreen' /\ CountFits' /\ LineCounted' /\ LineShown'
  <2>1. /\ r = putc(s, c) /\ number_printed_line' = n + 1 /\ n < MaxLine
        /\ line' = IF OnScreen(s) THEN Append(l, c) ELSE l
        /\ counted' = counted
    BY <1>1, <1>7 DEF KeyChar
  <2>2. c \notin {"nl", "bs", "nul"}
    BY ScreenAssumption
  <2>3. r = PutChar(s, c) /\ c \in Char
    BY <2>1, <2>2, PutKinds
  <2>4. n + 1 \in Nat
    BY <1>2
  <2>5. CASE ~OnScreen(s)
    <3>1. l = <<>> /\ line' = <<>> /\ ~counted'
      BY <1>3, <2>1, <2>5
    <3> QED
      BY <1>6, <2>1, <2>4, <3>1
  <2>6. CASE OnScreen(s)
    <3>1. OnScreen(r)
      BY <2>3, <2>6, CharSteps
    <3>2. PICK up \in {0, NUM_COLS} :
             /\ Pos(r) = Pos(s) + 1 - up
             /\ up # 0 => Pos(r) = (NUM_ROWS - 1) * NUM_COLS
             /\ \A k \in Cell : k < Pos(r) =>
                   k + up \in Cell /\ r.video[k] = IF k + up = Pos(s) THEN c ELSE s.video[k + up]
      BY <2>3, <2>6, CharSteps
    <3>3. up \in Nat
      BY <1>2
    <3>4. up # 0 => MaxLine <= Pos(r)
      BY <1>2, <3>2, Zenon
    <3>5. counted' => n + 1 <= Pos(r)
      <4>1. CASE up = 0
        BY <1>2, <1>3, <1>4, <2>1, <3>2, <4>1
      <4>2. CASE up # 0
        BY <1>2, <1>4, <2>1, <3>4, <4>2
      <4> QED
        BY <4>1, <4>2
    <3> DEFINE e == Append(l, c)
    <3>6. e \in Seq(Typed) /\ Len(e) = Len(l) + 1 /\ e # <<>>
      BY <1>2
    <3>7. Len(e) <= n + 1
      BY <1>2, <1>3, <3>6
    <3>8. ASSUME NEW k \in 1 .. Len(e)
          PROVE  Pos(r) - Len(e) + k - 1 \in Cell /\ r.video[Pos(r) - Len(e) + k - 1] = e[k]
      <4> DEFINE q == Pos(r) - Len(e) + k - 1
      <4>1. k \in Nat /\ k >= 1 /\ k <= Len(l) + 1 /\ Len(e) = Len(l) + 1
        BY <1>2, <3>6
      <4>2. q \in Int /\ q + up = Pos(s) - Len(l) + k - 1 /\ q < Pos(r)
        <5>1. Pos(r) = Pos(s) + 1 - up
          BY <3>2
        <5>2. Len(e) \in Nat /\ Len(l) \in Nat
          BY <1>2, <4>1
        <5> HIDE DEF e
        <5>3. PICK a \in Int, b \in Int, m \in Int : a = Pos(s) /\ b = Pos(r) /\ m = Len(l)
          BY <1>4, <5>2
        <5>4. b = a + 1 - up /\ k <= m + 1 /\ q = b - (m + 1) + k - 1
          BY <4>1, <5>1, <5>3
        <5> HIDE DEF q
        <5>5. q \in Int /\ q + up = a - m + k - 1 /\ q < b
          BY <3>3, <4>1, <5>4
        <5> QED
          BY <5>3, <5>5
      <4>3. Pos(r) \in Cell /\ Pos(s) \in Cell
        BY <2>6, <3>1, CursorCell
      <4>4. \A i \in Int : i >= 0 /\ i < Pos(r) => i \in Cell
        <5> DEFINE all == NUM_ROWS * NUM_COLS
        <5>1. all \in Int
          BY ScreenAssumption
        <5>2. Cell = 0 .. all - 1
          BY DEF Cell
        <5> HIDE DEF all
        <5> QED
          BY <1>4, <4>3, <5>1, <5>2
      <4>5. \A i \in Cell : i >= 0
        BY DEF Cell
      <4> HIDE DEF q
      <4>6. q >= 0
        <5>1. CASE up # 0
          <6>1. Len(l) + 1 <= Pos(r)
            BY <1>2, <1>3, <1>4, <2>1, <3>4, <5>1
          <6> QED
            BY <1>2, <1>4, <4>1, <6>1 DEF q
        <5>2. CASE up = 0 /\ k <= Len(l)
          <6>1. k \in 1 .. Len(l)
            BY <1>2, <4>1, <5>2
          <6>2. Pos(s) - Len(l) + k - 1 >= 0
            BY <1>3, <4>5, <6>1
          <6>3. q = Pos(s) - Len(l) + k - 1
            BY <1>2, <1>4, <4>1, <4>2, <5>2
          <6> QED
            BY <6>2, <6>3
        <5>3. CASE up = 0 /\ k = Len(l) + 1
          <6>1. q = Pos(s)
            BY <1>2, <1>4, <4>1, <4>2, <5>3
          <6> QED
            BY <4>3, <4>5, <6>1
        <5> QED
          BY <1>2, <4>1, <5>1, <5>2, <5>3
      <4>7. q \in Cell
        BY <4>2, <4>4, <4>6
      <4>8. r.video[q] = IF q + up = Pos(s) THEN c ELSE s.video[q + up]
        BY <3>2, <4>2, <4>7, Zenon
      <4>9. CASE k = Len(l) + 1
        <5>1. q + up = Pos(s)
          BY <1>2, <1>4, <4>1, <4>2, <4>9
        <5>2. e[k] = c
          BY <1>2, <4>9
        <5> QED
          BY <4>7, <4>8, <5>1, <5>2 DEF q
      <4>10. CASE k # Len(l) + 1
        <5>1. q + up # Pos(s) /\ k \in 1 .. Len(l)
          BY <1>2, <1>4, <4>1, <4>2, <4>10
        <5>2. e[k] = l[k]
          BY <1>2, <5>1
        <5>3. s.video[q + up] = l[k]
          BY <1>3, <4>2, <5>1
        <5> QED
          BY <4>7, <4>8, <5>1, <5>2, <5>3 DEF q
      <4> QED
        BY <4>9, <4>10
    <3>9. line' = e
      BY <2>1, <2>6
    <3> HIDE DEF e
    <3> QED
      BY <1>5, <2>1, <2>4, <3>1, <3>5, <3>6, <3>7, <3>8, <3>9
  <2> QED
    BY <2>5, <2>6
<1>8. CASE Enter
  <2>1. r = putc(s, "nl") /\ number_printed_line' = 1 /\ line' = <<>> /\ (counted' => OnScreen(s))
    BY <1>1, <1>3, <1>8 DEF Enter
  <2>2. r = PutNewline(s)
    BY <2>1, PutKinds
  <2>3. OnScreen(s) => OnScreen(r) /\ Pos(r) >= NUM_COLS
    BY <2>2, NewlineStays
  <2>4. OnScreen(s) => 1 <= Pos(r)
    BY <1>2, <1>4, <2>3
  <2> QED
    BY <1>6, <2>1, <2>3, <2>4
<1>9. CASE AltEnter
  <2>1. r = s /\ number_printed_line' = 0 /\ line' = <<>> /\ counted' = counted
    BY <1>1, <1>9 DEF AltEnter
  <2>2. counted' => OnScreen(r) /\ 0 <= Pos(r)
    BY <1>3, <1>4, <2>1
  <2> QED
    BY <1>6, <2>1, <2>2
<1>10. CASE Backspace
  <2>1. /\ r = putc(s, "bs") /\ n # 0 /\ number_printed_line' = n - 1 /\ counted' = counted
        /\ line' = IF l = <<>> THEN l ELSE SubSeq(l, 1, Len(l) - 1)
    BY <1>1, <1>10 DEF Backspace
  <2>2. r = PutBackspace(s)
    BY <2>1, PutKinds
  <2>3. OnScreen(s) /\ Pos(s) > 0 =>
           /\ OnScreen(r) /\ Pos(r) = Pos(s) - 1
           /\ \A k \in Cell : k < Pos(s) - 1 => r.video[k] = s.video[k]
    BY <2>2, BackspaceSteps
  <2>4. n - 1 \in Nat
    BY <1>2, <2>1
  <2>5. counted' => OnScreen(r) /\ n - 1 <= Pos(r)
    <3> SUFFICES ASSUME counted' PROVE OnScreen(r) /\ n - 1 <= Pos(r)
      OBVIOUS
    <3>1. OnScreen(s) /\ n <= Pos(s)
      BY <1>3, <2>1
    <3>2. Pos(s) > 0
      BY <1>2, <1>4, <2>1, <3>1
    <3> QED
      BY <1>2, <1>4, <2>3, <3>1, <3>2
  <2>6. CASE l = <<>>
    <3>1. line' = <<>>
      BY <2>1, <2>6
    <3> QED
      BY <1>6, <2>1, <2>4, <2>5, <3>1
  <2>7. CASE l # <<>>
    <3> DEFINE e == SubSeq(l, 1, Len(l) - 1)
    <3>1. Len(l) >= 1
      BY <1>2, <2>7
    <3>2. line' = e
      BY <2>1, <2>7
    <3>3. e \in Seq(Typed) /\ Len(e) = Len(l) - 1 /\ \A k \in 1 .. Len(l) - 1 : e[k] = l[k]
      <4>1. \A k \in 1 .. Len(l) - 1 : l[k] \in Typed
        BY <1>2
      <4>2. e \in Seq(Typed)
        BY <1>2, <3>1, <4>1
      <4>3. Len(e) = Len(l) - 1
        <5>1. PICK j \in Int : j = Len(l) - 1 /\ j >= 0
          BY <1>2, <3>1
        <5>2. \A i \in 1 .. j : l[i] \in Typed
          BY <4>1, <5>1
        <5>3. SubSeq(l, 1, j) = [i \in 1 .. j |-> l[i]]
          BY <5>1, <1>2, SubSeqRestrict DEF Restrict
        <5>4. Len(SubSeq(l, 1, j)) = j
          BY <5>1, <5>3
        <5> QED
          BY <5>1, <5>4
      <4>4. \A k \in 1 .. Len(l) - 1 : e[k] = l[k]
        BY <1>2, <3>1
      <4> QED
        BY <4>2, <4>3, <4>4
    <3> HIDE DEF e
    <3>4. OnScreen(s) /\ Pos(s) > 0
      <4>1. 1 \in 1 .. Len(l)
        BY <1>2, <3>1
      <4>2. Pos(s) - Len(l) + 1 - 1 \in Cell
        BY <1>3, <4>1
      <4>3. Pos(s) - Len(l) + 1 - 1 >= 0
        BY <4>2 DEF Cell
      <4> QED
        BY <1>2, <1>3, <1>4, <2>7, <3>1, <4>3
    <3>5. /\ OnScreen(r) /\ Pos(r) = Pos(s) - 1
          /\ \A k \in Cell : k < Pos(s) - 1 => r.video[k] = s.video[k]
      BY <2>3, <3>4
    <3>6. Len(e) <= n - 1
      BY <1>2, <1>3, <3>3
    <3>7. ASSUME NEW k \in 1 .. Len(e)
          PROVE  Pos(r) - Len(e) + k - 1 \in Cell /\ r.video[Pos(r) - Len(e) + k - 1] = e[k]
      <4> DEFINE q == Pos(s) - Len(l) + k - 1
      <4>1. k \in Nat /\ k \in 1 .. Len(l) /\ k \in 1 .. Len(l) - 1
        BY <1>2, <3>1, <3>3
      <4>2. q = Pos(r) - Len(e) + k - 1 /\ q < Pos(s) - 1
        <5>1. PICK a \in Int, b \in Int, m \in Int, j \in Int :
                 a = Pos(s) /\ b = Pos(r) /\ m = Len(l) /\ j = Len(e)
          BY <1>2, <1>4, <3>3
        <5>2. b = a - 1 /\ k <= j /\ j = m - 1 /\ q = a - m + k - 1
          BY <3>3, <3>5, <5>1
        <5> HIDE DEF q
        <5>3. q = b - j + k - 1 /\ q < a - 1
          BY <4>1, <5>2
        <5> QED
          BY <5>1, <5>3
      <4>3. q \in Cell /\ s.video[q] = l[k]
        BY <1>3, <4>1
      <4> HIDE DEF q
      <4>4. r.video[q] = e[k]
        BY <3>3, <3>5, <4>1, <4>2, <4>3
      <4> QED
        BY <4>2, <4>3, <4>4
    <3> QED
      BY <1>5, <2>1, <2>4, <2>5, <3>2, <3>3, <3>5, <3>6, <3>7
  <2> QED
    BY <2>6, <2>7
<1>11. CASE CtrlL
  <2>1. number_printed_line' = n /\ line' = <<>> /\ ~counted'
    BY <1>1, <1>11 DEF CtrlL
  <2> QED
    BY <1>2, <1>6, <2>1
<1>12. ASSUME NEW c \in Written, Write(c)
       PROVE  CursorOnScreen' /\ CountFits' /\ LineCounted' /\ LineShown'
  <2>1. r = putc(s, c) /\ number_printed_line' = n /\ line' = <<>> /\ counted' = (counted /\ c # "bs")
    BY <1>1, <1>12 DEF Write
  <2>2. counted' => OnScreen(r) /\ n <= Pos(r)
    <3> SUFFICES ASSUME counted' PROVE OnScreen(r) /\ n <= Pos(r)
      OBVIOUS
    <3>1. OnScreen(s) /\ n <= Pos(s) /\ c # "bs"
      BY <1>3, <2>1
    <3>2. CASE c = "nl"
      <4>1. r = PutNewline(s)
        BY <2>1, <3>2, PutKinds
      <4>2. OnScreen(r) /\ (Pos(r) >= Pos(s) \/ Pos(r) >= (NUM_ROWS - 1) * NUM_COLS)
        BY <3>1, <4>1, NewlineStays
      <4>3. CASE Pos(r) >= Pos(s)
        BY <1>2, <1>4, <3>1, <4>2, <4>3
      <4>4. CASE Pos(r) >= (NUM_ROWS - 1) * NUM_COLS
        <5> DEFINE last == (NUM_ROWS - 1) * NUM_COLS
        <5>1. last \in Nat /\ MaxLine <= last /\ Pos(r) >= last
          BY <1>2, <4>4
        <5> HIDE DEF last
        <5> QED
          BY <1>2, <1>4, <4>2, <5>1
      <4> QED
        BY <4>2, <4>3, <4>4
    <3>3. CASE c = "nul"
      <4>1. r = Poke(s, "nul") /\ "nul" \in Char
        BY <2>1, <3>3, PutKinds DEF Char
      <4>2. r.x = s.x /\ r.y = s.y
        BY <4>1, PokeStores
      <4> QED
        BY <3>1, <4>2 DEF OnScreen, Pos
    <3>4. CASE c \notin {"nl", "bs", "nul"}
      <4>1. r = PutChar(s, c) /\ c \in Char
        BY <2>1, <3>4, PutKinds
      <4>2. OnScreen(r)
        BY <3>1, <4>1, CharSteps
      <4>3. PICK up \in {0, NUM_COLS} :
               /\ Pos(r) = Pos(s) + 1 - up
               /\ up # 0 => Pos(r) = (NUM_ROWS - 1) * NUM_COLS
        BY <3>1, <4>1, CharSteps
      <4>4. CASE up = 0
        BY <1>2, <1>4, <3>1, <4>2, <4>3, <4>4
      <4>5. CASE up # 0
        <5>1. MaxLine <= Pos(r)
          BY <1>2, <4>3, <4>5, Zenon
        <5> QED
          BY <1>2, <1>4, <4>2, <5>1
      <4> QED
        BY <4>4, <4>5
    <3> QED
      BY <3>1, <3>2, <3>3, <3>4
  <2> QED
    BY <1>2, <1>6, <2>1, <2>2
<1>13. ASSUME NEW t \in Term, DisplaySwitch(t)
       PROVE  CursorOnScreen' /\ CountFits' /\ LineCounted' /\ LineShown'
  <2>1. number_printed_line' = n /\ line' = <<>> /\ ~counted'
    BY <1>1, <1>13, Zenon DEF DisplaySwitch
  <2> QED
    BY <1>2, <1>6, <2>1
<1>14. CASE UNCHANGED vars
  <2>1. r = s /\ number_printed_line' = n /\ line' = l /\ counted' = counted
    BY <1>1, <1>14 DEF vars
  <2> QED
    BY <1>2, <1>3, <1>5, <2>1
<1> QED
  BY <1>7, <1>8, <1>9, <1>10, <1>11, <1>12, <1>13, <1>14 DEF Next

(* The inductive invariant: the types, and that every key Backspace may    *)
(* still erase, and the line echoed so far, stand before the cursor.       *)
THEOREM ScreenInvariant == Spec => []SInv
<1>1. Init => SInv
  <2> SUFFICES ASSUME Init PROVE SInv
    OBVIOUS
  <2>1. screen.x = 0 /\ screen.y = 0 /\ number_printed_line = 0 /\ line = <<>> /\ active_terminal = 0
    BY DEF Init
  <2>2. NUM_COLS \in Nat /\ NUM_COLS > 0 /\ NUM_ROWS \in Nat /\ NUM_ROWS > 1
        /\ NumTerm \in Nat /\ NumTerm > 0 /\ MaxLine \in Nat
    <3>1. (NUM_ROWS - 1) * NUM_COLS \in Int
      BY ScreenAssumption
    <3> QED
      BY <3>1, ScreenAssumption
  <2>3. Pos(screen) = 0 /\ OnScreen(screen)
    <3>1. NUM_COLS * 0 = 0
      BY <2>2
    <3>2. Pos(screen) = NUM_COLS * 0 + 0
      BY <2>1, Zenon DEF Pos
    <3>3. OnScreen(screen)
      BY <2>1, <2>2 DEF OnScreen
    <3> QED
      BY <3>1, <3>2, <3>3
  <2>4. TypeOK
    <3>1. " " \in Char /\ "nul" \in Char
      BY DEF Char
    <3>2. PICK v \in [Cell -> Char], w \in [Cell -> Char] : v = Blank(" ") /\ w = Blank("nul")
      BY <3>1 DEF Blank
    <3>3. [video |-> v, x |-> 0, y |-> 0] \in Page /\ [video |-> w, x |-> 0, y |-> 0] \in Page
      BY DEF Page
    <3>4. screen = [video |-> v, x |-> 0, y |-> 0]
      BY <3>2, Zenon DEF Init
    <3>5. saved = [t \in Term |-> [video |-> w, x |-> 0, y |-> 0]]
      BY <3>2, Zenon DEF Init
    <3>6. screen \in Page /\ saved \in [Term -> Page]
      BY <3>3, <3>4, <3>5
    <3>7. active_terminal \in Term /\ number_printed_line \in 0 .. MaxLine
      BY <2>1, <2>2 DEF Term
    <3>8. line \in Seq(Typed)
      BY <2>1
    <3>9. counted \in BOOLEAN
      BY Zenon DEF Init
    <3> QED
      BY <3>6, <3>7, <3>8, <3>9 DEF TypeOK
  <2>5. CursorOnScreen /\ CountFits
    BY <2>1, <2>3 DEF CursorOnScreen, CountFits
  <2>6. Len(line) = 0 /\ 1 .. Len(line) = {}
    BY <2>1
  <2>7. LineCounted /\ LineShown
    BY <2>1, <2>6 DEF LineCounted, LineShown
  <2> QED
    BY <2>4, <2>5, <2>7 DEF SInv
<1>2. SInv /\ [Next]_vars => SInv'
  BY TypeStep, CursorStep DEF SInv
<1> QED
  BY <1>1, <1>2, PTL DEF Spec

(* As long as the count is of keys echoed on this screen, no sequence of   *)
(* typing, erasing and writing takes the cursor off the screen.            *)
THEOREM CursorAlwaysOnScreen == Spec => []CursorOnScreen
<1>1. SInv => CursorOnScreen
  BY DEF SInv
<1> QED
  BY <1>1, ScreenInvariant, PTL

(* The cells before the cursor always show the line as typed and erased,   *)
(* across row ends and scrolling.                                          *)
THEOREM LineAlwaysShown == Spec => []LineShown
<1>1. SInv => LineShown
  BY DEF SInv
<1> QED
  BY <1>1, ScreenInvariant, PTL

(* A switch of the display keeps the screen and the cursor of every        *)
(* terminal, and every other step those of the terminals not displayed.    *)
THEOREM ScreensAlwaysKept == Spec => ScreensKept
<1> DEFINE Keeps == \A t \in Term :
              t # active_terminal \/ (active_terminal' # active_terminal /\ OnScreen(screen))
                  => View(t)' = View(t)
<1>1. TypeOK /\ [Next]_vars => [Keeps]_vars
  <2> SUFFICES ASSUME TypeOK, Next, NEW t \in Term,
                      t # active_terminal \/ (active_terminal' # active_terminal /\ OnScreen(screen))
               PROVE  View(t)' = View(t)
    BY DEF vars
  <2>1. CASE UNCHANGED <<saved, active_terminal>>
    <3>1. t # active_terminal /\ active_terminal' = active_terminal /\ saved' = saved
      BY <2>1
    <3> QED
      BY <3>1 DEF View
  <2>2. ASSUME NEW u \in Term, DisplaySwitch(u) PROVE View(t)' = View(t)
    <3>1. PICK s \in Page, a \in Term, sv \in [Term -> Page] :
             s = screen /\ a = active_terminal /\ sv = saved
      BY DEF TypeOK
    <3> DEFINE p == [s EXCEPT !.x = @ % 256, !.y = @ % 256]
               kept == [sv EXCEPT ![a] = p]
    <3>2. saved' = kept /\ active_terminal' = u /\ screen' = kept[u]
      BY <2>2, <3>1, Zenon DEF DisplaySwitch
    <3>3. OnScreen(s) => p = s
      <4> SUFFICES ASSUME OnScreen(s) PROVE p = s
        OBVIOUS
      <4>1. s.x \in 0 .. 255 /\ s.y \in 0 .. 255
        BY ScreenAssumption DEF OnScreen
      <4>2. s.x % 256 = s.x /\ s.y % 256 = s.y
        BY <4>1
      <4> DEFINE q == [s EXCEPT !.x = @ % 256]
      <4>3. q = s
        BY <4>2 DEF Page
      <4>4. p = [q EXCEPT !.y = @ % 256]
        BY Zenon
      <4>5. [s EXCEPT !.y = @ % 256] = s
        BY <4>2 DEF Page
      <4> QED
        BY <4>3, <4>4, <4>5, Zenon
    <3> HIDE DEF p
    <3>4. \A i \in Term : kept[i] = IF i = a THEN p ELSE sv[i]
      OBVIOUS
    <3> HIDE DEF kept
    <3>5. View(t)' = kept[t]
      BY <3>2, Zenon DEF View
    <3>6. CASE t # a
      BY <3>1, <3>4, <3>5, <3>6, Zenon DEF View
    <3>7. CASE t = a
      <4>1. OnScreen(s)
        BY <3>1, <3>7
      <4> QED
        BY <3>1, <3>3, <3>4, <3>5, <3>7, <4>1, Zenon DEF View
    <3> QED
      BY <3>6, <3>7
  <2> QED
    BY <2>1, <2>2 DEF Next, KeyChar, Enter, AltEnter, Backspace, CtrlL, Write
<1>2. SInv => TypeOK
  BY DEF SInv
<1> QED
  BY <1>1, <1>2, ScreenInvariant, PTL DEF Spec, ScreensKept
=============================================================================
