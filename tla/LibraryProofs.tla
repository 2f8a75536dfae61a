---------------------------- MODULE LibraryProofs ----------------------------
(***************************************************************************)
(* Proofs about the memory and string functions of the library, for any    *)
(* size of memory.                                                         *)
(***************************************************************************)
EXTENDS Library, TLAPS

(* Bytes from .. to - 1 of w have been stored at d in memory that held b.  *)
Filling(m, b, d, w, from, to) ==
    /\ m \in [Cell -> Int]
    /\ \A k \in Cell : m[k] = IF k - d \in from .. to - 1 THEN w[k - d] ELSE b[k]

Wanting == [x \in Int |-> Wanted(x)]

(* Addresses are integers.                                                 *)
LEMMA CellInt == Cell \subseteq Int /\ \A k \in Cell : k >= 0
  BY LibAssumption DEF Cell

LEMMA StoredIsFilling ==
    ASSUME call.dest \in Int, NEW from, NEW to
    PROVE  Stored(from, to) <=> Filling(mem, call.before, call.dest, Wanting, from, to)
<1>1. \A k \in Cell : Wanting[k - call.dest] = Wanted(k - call.dest)
  BY CellInt DEF Wanting
<1> QED
  BY <1>1, Zenon DEF Stored, Filling

LEMMA SameWanted ==
    ASSUME call' = call
    PROVE  Wanting' = Wanting
  BY Zenon DEF Wanting, Wanted, strlen

(* Bytes stored upwards behind the ones already there.                     *)
LEMMA FillUp ==
    ASSUME NEW m, NEW m2 \in [Cell -> Int], NEW b, NEW d \in Int, NEW w,
           NEW j \in Nat, NEW len \in Nat,
           Filling(m, b, d, w, 0, j),
           \A k \in Cell : m2[k] = IF k - (d + j) \in 0 .. len - 1 THEN w[k - d] ELSE m[k]
    PROVE  Filling(m2, b, d, w, 0, j + len)
<1>1. ASSUME NEW k \in Cell
      PROVE  m2[k] = IF k - d \in 0 .. (j + len) - 1 THEN w[k - d] ELSE b[k]
  <2>1. k \in Int
    BY CellInt
  <2>2. k - d \in 0 .. (j + len) - 1 <=> (k - d \in 0 .. j - 1 \/ k - (d + j) \in 0 .. len - 1)
    BY <2>1
  <2>3. m[k] = IF k - d \in 0 .. j - 1 THEN w[k - d] ELSE b[k]
    BY DEF Filling
  <2> QED
    BY <2>2, <2>3, Zenon
<1> QED
  BY <1>1 DEF Filling

(* One byte stored upwards.                                                *)
LEMMA FillOne ==
    ASSUME NEW m, NEW b, NEW d \in Int, NEW w, NEW j \in Nat, NEW v \in Int,
           Filling(m, b, d, w, 0, j), v = w[j]
    PROVE  Filling([m EXCEPT ![d + j] = v], b, d, w, 0, j + 1)
<1> DEFINE m2 == [m EXCEPT ![d + j] = v]
<1>1. m \in [Cell -> Int]
  BY DEF Filling
<1>2. m2 \in [Cell -> Int] /\ \A k \in Cell : m2[k] = IF k = d + j THEN v ELSE m[k]
  BY <1>1
<1> HIDE DEF m2
<1>3. ASSUME NEW k \in Cell
      PROVE  m2[k] = IF k - (d + j) \in 0 .. 1 - 1 THEN w[k - d] ELSE m[k]
  <2>1. k \in Int
    BY CellInt
  <2>2. k - (d + j) \in 0 .. 1 - 1 <=> k = d + j
    BY <2>1
  <2>3. k = d + j => k - d = j
    BY <2>1
  <2> QED
    BY <1>2, <2>2, <2>3, Zenon
<1> QED
  BY <1>2, <1>3, FillUp DEF m2

(* One byte stored downwards in front of the ones already there.           *)
LEMMA FillDown ==
    ASSUME NEW m, NEW b, NEW d \in Int, NEW w, NEW j \in Nat, NEW n \in Nat, j < n, NEW v \in Int,
           Filling(m, b, d, w, j + 1, n), v = w[j]
    PROVE  Filling([m EXCEPT ![d + j] = v], b, d, w, j, n)
<1> DEFINE m2 == [m EXCEPT ![d + j] = v]
<1>1. m \in [Cell -> Int]
  BY DEF Filling
<1>2. m2 \in [Cell -> Int] /\ \A k \in Cell : m2[k] = IF k = d + j THEN v ELSE m[k]
  BY <1>1
<1> HIDE DEF m2
<1>3. ASSUME NEW k \in Cell
      PROVE  m2[k] = IF k - d \in j .. n - 1 THEN w[k - d] ELSE b[k]
  <2>1. k \in Int
    BY CellInt
  <2>2. k - d \in j .. n - 1 <=> (k = d + j \/ k - d \in (j + 1) .. n - 1)
    BY <2>1
  <2>3. k = d + j => k - d = j
    BY <2>1
  <2>4. m[k] = IF k - d \in (j + 1) .. n - 1 THEN w[k - d] ELSE b[k]
    BY DEF Filling
  <2> QED
    BY <1>2, <2>2, <2>3, <2>4, Zenon
<1> QED
  BY <1>2, <1>3 DEF Filling, m2

(* From one step to the next the call, and what it wants, are the same.    *)
LEMMA StoredNext ==
    ASSUME call.dest \in Int, call' = call, NEW from, NEW to,
           Filling(mem', call.before, call.dest, Wanting, from, to)
    PROVE  Stored(from, to)'
<1>1. \A k \in Cell : Wanting[k - call.dest] = Wanted(k - call.dest)
  BY CellInt DEF Wanting
<1>2. ASSUME NEW k \in Int
      PROVE  Wanted(k)' = Wanted(k)
  BY Zenon DEF Wanted, strlen
<1>3. mem' \in [Cell -> Int]
  BY DEF Filling
<1>4. ASSUME NEW k \in Cell
      PROVE  mem'[k] = IF k - call'.dest \in from .. to - 1 THEN Wanted(k - call.dest)' ELSE call'.before[k]
  <2>1. k - call.dest \in Int
    BY CellInt
  <2>2. PICK x \in Int : x = k - call.dest
    BY <2>1
  <2>3. Wanted(x)' = Wanting[x]
    BY <1>2 DEF Wanting
  <2>4. Wanted(k - call.dest)' = Wanting[k - call.dest]
    BY <2>2, <2>3, Zenon DEF Wanted, strlen
  <2>5. mem'[k] = IF k - call.dest \in from .. to - 1 THEN Wanting[k - call.dest] ELSE call.before[k]
    BY DEF Filling
  <2> QED
    BY <2>4, <2>5, Zenon
<1> QED
  BY <1>3, <1>4, Zenon DEF Stored

(* Where the call is tells which it is.                                    *)
LEMMA Where ==
    ASSUME LInv
    PROVE  /\ pc \in {"memset", "memcpy", "bottom"} => call.fn \in {"memset", "memcpy"} /\ InWords
           /\ pc = "memset_word" => call.fn = "memset_word" /\ InUnits(2)
           /\ pc = "memset_dword" => call.fn = "memset_dword" /\ InUnits(4)
           /\ pc \in {"memmove", "movsb"} => call.fn = "memmove" /\ InMove
           /\ pc = "strcpy" => call.fn = "strcpy" /\ InCopy
           /\ pc \in {"strncpy", "pad"} => call.fn = "strncpy" /\ InNCopy
           /\ pc = "strncmp" => call.fn = "strncmp" /\ InCompare
           /\ pc \in {"itoa", "strrev", "puts"} => call.fn \in Numbers
<1>1. InWords => pc \in {call.fn, "bottom", "ret"}
  BY Zenon DEF InWords
<1>2. (InUnits(2) => pc \in {call.fn, "ret"}) /\ (InUnits(4) => pc \in {call.fn, "ret"})
  BY Zenon DEF InUnits
<1>3. InMove => pc \in {"memmove", "movsb", "ret"}
  BY Zenon DEF InMove
<1>4. InCopy => pc \in {"strcpy", "ret"}
  BY Zenon DEF InCopy
<1>5. InNCopy => pc \in {"strncpy", "pad", "ret"}
  BY Zenon DEF InNCopy
<1>6. InCompare => pc \in {"strncmp", "ret"}
  BY Zenon DEF InCompare
<1> QED
  BY <1>1, <1>2, <1>3, <1>4, <1>5, <1>6 DEF LInv

(* What the machine stores upwards from behind the bytes already stored.   *)
LEMMA StoreUp ==
    ASSUME NEW unit \in Nat, NEW n \in Nat, NEW j \in Nat, NEW len \in Nat, len = unit * n,
           call.dest \in Int, call' = call, edi = call.dest + j, Stored(0, j), Store(unit, n, 0),
           \A k \in Cell : k - edi \in 0 .. len - 1 =>
               Source(k - edi) \in Int /\ Source(k - edi) = Wanted(k - call.dest)
    PROVE  /\ Stored(0, j + len)'
           /\ edi' = edi + len
           /\ esi' = IF call.fn = "memcpy" THEN esi + len ELSE esi
<1>1. /\ mem' = [k \in Cell |-> IF k - edi \in 0 .. 0 + len - 1 THEN Source(k - edi) ELSE mem[k]]
      /\ edi' = edi + (1 - 2 * 0) * unit * n
      /\ esi' = IF call.fn = "memcpy" THEN esi + (1 - 2 * 0) * unit * n ELSE esi
  <2> DEFINE low == IF 0 = 1 THEN unit * (1 - n) ELSE 0
  <2>1. mem' = [k \in Cell |-> IF k - edi \in low .. low + unit * n - 1 THEN Source(k - edi) ELSE mem[k]]
    BY Zenon DEF Store
  <2>2. low = 0
    OBVIOUS
  <2>3. /\ edi' = edi + (1 - 2 * 0) * unit * n
        /\ esi' = IF call.fn = "memcpy" THEN esi + (1 - 2 * 0) * unit * n ELSE esi
    BY Zenon DEF Store
  <2> HIDE DEF low
  <2> QED
    BY <2>1, <2>2, <2>3, Zenon
<1>2. (1 - 2 * 0) * unit * n = len /\ 0 + len - 1 = len - 1
  OBVIOUS
<1>3. edi' = edi + len /\ esi' = IF call.fn = "memcpy" THEN esi + len ELSE esi
  BY <1>1, <1>2, Zenon
<1>4. Filling(mem, call.before, call.dest, Wanting, 0, j)
  BY StoredIsFilling
<1>5. mem \in [Cell -> Int]
  BY DEF Stored
<1>6. mem' = [k \in Cell |-> IF k - edi \in 0 .. len - 1 THEN Source(k - edi) ELSE mem[k]]
  BY <1>1, <1>2, Zenon
<1>7. ASSUME NEW k \in Cell
      PROVE  /\ mem'[k] \in Int
             /\ mem'[k] = IF k - (call.dest + j) \in 0 .. len - 1 THEN Wanting[k - call.dest] ELSE mem[k]
  <2>1. mem'[k] = IF k - edi \in 0 .. len - 1 THEN Source(k - edi) ELSE mem[k]
    BY <1>6, Zenon
  <2>2. mem[k] \in Int
    BY <1>5
  <2>3. Wanting[k - call.dest] = Wanted(k - call.dest)
    BY CellInt DEF Wanting
  <2> QED
    BY <2>1, <2>2, <2>3, Zenon
<1>8. mem' \in [Cell -> Int]
  <2>1. mem' = [k \in Cell |-> mem'[k]]
    BY <1>6, Zenon
  <2> QED
    BY <2>1, <1>7, Zenon
<1>9. PICK m, m2, b, d, w : m = mem /\ m2 = mem' /\ b = call.before /\ d = call.dest /\ w = Wanting
  OBVIOUS
<1>10. Filling(m2, b, d, w, 0, j + len)
  <2>1. m2 \in [Cell -> Int] /\ d \in Int /\ Filling(m, b, d, w, 0, j)
    BY <1>4, <1>8, <1>9, Zenon
  <2>2. \A k \in Cell : m2[k] = IF k - (d + j) \in 0 .. len - 1 THEN w[k - d] ELSE m[k]
    BY <1>7, <1>9, Zenon
  <2> QED
    BY <2>1, <2>2, FillUp
<1>11. Filling(mem', call.before, call.dest, Wanting, 0, j + len)
  BY <1>9, <1>10, Zenon
<1> QED
  BY <1>3, <1>11, StoredNext

(* What the byte and the word loops store is what is wanted, also where    *)
(* memcpy reads: it reads only what it does not write.                     *)
LEMMA WordsSource ==
    ASSUME InWords, pc # "ret", call.fn \in {"memset", "memcpy"},
           NEW len \in Nat, len <= Left
    PROVE  \A k \in Cell : k - edi \in 0 .. len - 1 =>
               Source(k - edi) \in Int /\ Source(k - edi) = Wanted(k - call.dest)
<1>1. CASE call.fn = "memset"
  <2>1. \A x : Source(x) = call.c /\ Wanted(x) = call.c
    BY <1>1 DEF Source, Wanted
  <2>2. call.c \in Int
    BY DEF InWords, Block
  <2> QED
    BY <2>1, <2>2, Zenon
<1>2. CASE call.fn = "memcpy"
  <2>1. \A x : Source(x) = mem[esi + x] /\ Wanted(x) = call.before[call.src + x]
    BY <1>2 DEF Source, Wanted
  <2>2. PICK n \in Nat, l \in Nat, d \in Cell, s \in Cell :
           n = call.n /\ l = Left /\ d = call.dest /\ s = call.src /\ l <= n
    BY DEF InWords, Block
  <2>3. edi = d + n - l /\ esi = s + n - l /\ (d + n <= s \/ s + n <= d) /\ s + n <= SIZE
    BY <2>2, <1>2 DEF InWords, Inside
  <2>4. Stored(0, n - l)
    BY <2>2, Zenon DEF InWords
  <2>5. call.before \in [Cell -> Int]
    BY DEF InWords, Block
  <2>6. ASSUME NEW k \in Cell, k - edi \in 0 .. len - 1
        PROVE  Source(k - edi) \in Int /\ Source(k - edi) = Wanted(k - call.dest)
    <3>1. k \in Int /\ d \in Int /\ s \in Int /\ s >= 0 /\ SIZE \in Nat
      BY CellInt, LibAssumption
    <3>2. PICK a \in Int : a = esi + (k - edi)
      BY <2>3, <3>1
    <3>3. len <= l
      BY <2>2
    <3>4. a = s + (k - d) /\ a \in 0 .. SIZE - 1 /\ ~(a - d \in 0 .. (n - l) - 1)
      <4>1. PICK e \in Int : e = edi
        BY <2>3, <3>1
      <4>2. e = d + n - l /\ k - e >= 0 /\ k - e < l
        BY <2>3, <2>6, <3>1, <3>3, <4>1
      <4>3. a = s + n - l + (k - e)
        BY <2>3, <3>2, <4>1
      <4>4. a = s + (k - d)
        BY <3>1, <4>2, <4>3
      <4>5. a < s + n /\ a >= s
        BY <2>2, <3>1, <4>2, <4>3
      <4>6. a \in 0 .. SIZE - 1
        BY <2>3, <3>1, <4>5
      <4>7. ~(a - d \in 0 .. (n - l) - 1)
        <5>1. d + n <= s => a - d >= n
          BY <3>1, <4>5
        <5>2. s + n <= d => a - d < 0
          BY <3>1, <4>5
        <5>3. a - d \in Int /\ n - l - 1 < n
          BY <3>1
        <5> QED
          BY <2>3, <5>1, <5>2, <5>3
      <4> QED
        BY <4>4, <4>6, <4>7
    <3>5. a \in Cell
      BY <3>4 DEF Cell
    <3>6. mem[a] = call.before[a]
      BY <2>4, <2>2, <3>4, <3>5, Zenon DEF Stored
    <3>7. call.before[a] \in Int
      BY <2>5, <3>5
    <3> QED
      BY <2>1, <2>2, <3>2, <3>4, <3>6, <3>7, Zenon
  <2> QED
    BY <2>6
<1> QED
  BY <1>1, <1>2

(* A store of len bytes by the byte or the word loop.                      *)
LEMMA WordsAfter ==
    ASSUME InWords, call.fn \in {"memset", "memcpy"}, pc # "ret", call' = call,
           NEW unit \in Nat, NEW q \in Nat, NEW len \in Nat, len = unit * q, len <= Left,
           Store(unit, q, 0),
           pc' \in {call.fn, "bottom"}, Left' = Left - len
    PROVE  InWords'
<1>1. PICK n \in Nat, l \in Nat, d \in Cell, s \in Int :
         n = call.n /\ l = Left /\ d = call.dest /\ s = call.src /\ l <= n
  <2>1. call.n \in Nat /\ Left \in 0 .. call.n /\ call.dest \in Cell /\ call.src \in Cell
    BY Zenon DEF InWords, Block
  <2>2. call.src \in Int
    BY <2>1, CellInt, Zenon
  <2>3. Left \in Nat /\ Left <= call.n
    <3>1. PICK x \in Nat : x = call.n
      BY <2>1
    <3>2. Left \in 0 .. x
      BY <2>1, <3>1
    <3> QED
      BY <3>1, <3>2
  <2> QED
    BY <2>1, <2>2, <2>3
<1>2. d \in Int
  BY CellInt
<1>3. PICK j \in Nat : j = n - l
  BY <1>1
<1>4. edi = d + j
  <2>1. edi = d + n - l
    BY <1>1, Zenon DEF InWords
  <2> QED
    BY <1>2, <1>3, <2>1
<1>5. Stored(0, j)
  BY <1>1, <1>3, Zenon DEF InWords
<1>6. /\ Stored(0, j + len)'
      /\ edi' = edi + len
      /\ esi' = IF call.fn = "memcpy" THEN esi + len ELSE esi
  <2>1. \A k \in Cell : k - edi \in 0 .. len - 1 =>
               Source(k - edi) \in Int /\ Source(k - edi) = Wanted(k - call.dest)
    BY WordsSource
  <2>2. call.dest \in Int /\ edi = call.dest + j
    BY <1>1, <1>2, <1>4
  <2> QED
    BY <1>5, <2>1, <2>2, StoreUp
<1>7. PICK r \in Nat : r = l - len /\ r <= n /\ n - r = j + len /\ Left' = r
  <2>1. len <= l
    BY <1>1
  <2>2. l - len \in Nat /\ l - len <= n /\ n - (l - len) = j + len
    BY <1>1, <1>3, <2>1
  <2> QED
    BY <1>1, <2>2
<1>8. Stored(0, call.n - Left)'
  <2>1. call.n - Left' = j + len
    BY <1>1, <1>7
  <2> QED
    BY <1>6, <2>1, Zenon DEF Stored
<1>9. edi' = call.dest + call.n - Left'
  BY <1>1, <1>2, <1>4, <1>6, <1>7
<1>10. call.fn = "memcpy" => esi' = call.src + call.n - Left'
  <2>1. call.fn = "memcpy" => esi = s + n - l
    BY <1>1, Zenon DEF InWords
  <2>2. call.fn = "memcpy" => esi' = esi + len
    BY <1>6
  <2>3. s + n - l + len = s + n - r
    BY <1>3, <1>7
  <2> QED
    BY <1>1, <1>7, <2>1, <2>2, <2>3
<1>11. Left' \in 0 .. call.n
  BY <1>1, <1>7
<1>12. Block(1)' /\ (call.fn = "memcpy" =>
          /\ Inside(call.src, call.n)
          /\ call.dest + call.n <= call.src \/ call.src + call.n <= call.dest)'
  BY Zenon DEF InWords, Block, Inside
<1> QED
  BY <1>8, <1>9, <1>10, <1>11, <1>12, Zenon DEF InWords

(* memset and memcpy keep the loop invariant.                              *)
LEMMA WordsStep ==
    ASSUME LInv, NEW fn \in {"memset", "memcpy"}, ByWords(fn)
    PROVE  LInv'
<1>1. call.fn = fn /\ call' = call /\ pc \in {fn, "bottom"}
  BY Zenon DEF ByWords
<1>2. InWords /\ call.fn \in {"memset", "memcpy"} /\ pc # "ret" /\ fn # "bottom" /\ fn # "ret"
  BY <1>1, Where
<1>3. PICK n \in Nat, l \in Nat : n = call.n /\ l = Left /\ l <= n
  BY <1>2 DEF InWords, Block
<1>4. InWords'
  <2>1. CASE pc = fn /\ ecx > 0 /\ Store(1, 1, 0) /\ ecx' = ecx - 1 /\ pc' = pc
    <3>1. ecx = l /\ Left' = ecx'
      BY <1>2, <1>3, <2>1, Zenon DEF Left
    <3>2. 1 <= l /\ 1 = 1 * 1 /\ Left' = l - 1
      BY <2>1, <3>1
    <3> QED
      BY <1>1, <1>2, <1>3, <2>1, <3>2, WordsAfter
  <2>2. CASE pc = fn /\ ecx > 0 /\ df' = 0 /\ Store(4, ecx \div 4, df') /\ edx' = TailBytes /\ pc' = "bottom"
    <3>1. ecx = l /\ Left' = edx'
      BY <1>2, <1>3, <2>2 DEF Left
    <3>2. PICK q \in Nat, len \in Nat : q = l \div 4 /\ len = 4 * q /\ len <= l /\ l - len = l % 4
      OBVIOUS
    <3>3. Store(4, q, 0)
      BY <2>2, <3>1, <3>2, Zenon DEF Store
    <3>4. Left' = l - len
      BY <2>2, <3>1, <3>2 DEF TailBytes
    <3> QED
      BY <1>1, <1>2, <1>3, <2>2, <3>2, <3>3, <3>4, WordsAfter
  <2>3. CASE pc = "bottom" /\ edx > 0 /\ Store(1, 1, 0) /\ edx' = edx - 1 /\ pc' = pc
    <3>1. edx = l /\ Left' = edx'
      BY <1>2, <1>3, <2>3 DEF Left
    <3>2. 1 <= l /\ 1 = 1 * 1 /\ Left' = l - 1
      BY <2>3, <3>1
    <3> QED
      BY <1>1, <1>2, <1>3, <2>3, <3>2, WordsAfter
  <2>4. CASE ((pc = fn /\ ecx = 0) \/ (pc = "bottom" /\ edx = 0)) /\ pc' = "ret" /\ mem' = mem
    <3>1. Left = 0 /\ Left' = 0
      BY <1>2, <2>4 DEF Left
    <3>2. Stored(0, call.n - Left)'
      BY <1>1, <1>2, <2>4, <3>1, Zenon DEF InWords, Stored, Wanted, strlen
    <3>3. (Left \in 0 .. call.n)'
      BY <1>1, <1>3, <3>1
    <3> QED
      BY <1>1, <1>2, <2>4, <3>2, <3>3 DEF InWords, Block, Inside
  <2> QED
    BY <2>1, <2>2, <2>3, <2>4, Zenon DEF ByWords
<1> QED
  BY <1>1, <1>2, <1>4, Zenon DEF LInv

(* rep stosw and rep stosl store all units at once.                        *)
LEMMA UnitsAfter ==
    ASSUME NEW fn \in {"memset_word", "memset_dword"}, NEW unit \in {2, 4},
           InUnits(unit), call.fn = fn, StoreUnits(fn, unit)
    PROVE  InUnits(unit)'
<1>1. call' = call /\ pc = fn /\ pc' = "ret" /\ df' = 0 /\ Store(unit, ecx, df')
  BY Zenon DEF StoreUnits
<1>2. call.c \in Int /\ call.n \in Nat /\ call.dest \in Cell /\ edi = call.dest /\ ecx = call.n /\ Stored(0, 0)
  BY <1>1, Zenon DEF InUnits, Block
<1>3. call.dest \in Int
  BY <1>2, CellInt, Zenon
<1>4. PICK n \in Nat, len \in Nat : n = call.n /\ len = unit * n /\ 0 + len = len
  BY <1>2
<1>5. Store(unit, n, 0)
  BY <1>1, <1>2, <1>4, Zenon DEF Store
<1>6. \A x : Source(x) = call.c /\ Wanted(x) = call.c
  <2>1. call.fn \notin {"memcpy", "memmove", "strcpy"} /\ call.fn # "strncpy" /\ call.fn # "memcpy"
    OBVIOUS
  <2> QED
    BY <2>1, Zenon DEF Source, Wanted
<1>7. \A k \in Cell : k - edi \in 0 .. len - 1 =>
               Source(k - edi) \in Int /\ Source(k - edi) = Wanted(k - call.dest)
  BY <1>2, <1>6, Zenon
<1>8. edi = call.dest + 0 /\ unit \in Nat /\ 0 \in Nat
  BY <1>2, <1>3
<1>9. Stored(0, 0 + len)'
  BY <1>1, <1>2, <1>3, <1>4, <1>5, <1>7, <1>8, StoreUp
<1>10. Stored(0, unit * call.n)'
  BY <1>1, <1>4, <1>9, Zenon DEF Stored
<1>11. Block(unit)'
  BY <1>1, Zenon DEF InUnits, Block, Inside
<1>12. pc' # call'.fn
  BY <1>1
<1> QED
  BY <1>1, <1>10, <1>11, <1>12, Zenon DEF InUnits

(* memset_word and memset_dword keep the loop invariant.                   *)
LEMMA UnitsStep ==
    ASSUME LInv, memset_word \/ memset_dword
    PROVE  LInv'
<1>1. CASE memset_word
  <2>1. StoreUnits("memset_word", 2) /\ call' = call /\ pc = "memset_word"
    BY <1>1, Zenon DEF memset_word, StoreUnits
  <2>2. call.fn = "memset_word" /\ InUnits(2)
    BY <2>1, Where
  <2>3. InUnits(2)'
    BY <2>1, <2>2, UnitsAfter
  <2> QED
    BY <2>1, <2>2, <2>3, Zenon DEF LInv
<1>2. CASE memset_dword
  <2>1. StoreUnits("memset_dword", 4) /\ call' = call /\ pc = "memset_dword"
    BY <1>2, Zenon DEF memset_dword, StoreUnits
  <2>2. call.fn = "memset_dword" /\ InUnits(4)
    BY <2>1, Where
  <2>3. InUnits(4)'
    BY <2>1, <2>2, UnitsAfter
  <2> QED
    BY <2>1, <2>2, <2>3, Zenon DEF LInv
<1> QED
  BY <1>1, <1>2

(* A byte that has not been stored over is the one the call found.         *)
LEMMA Untouched ==
    ASSUME call.before \in [Cell -> Int], NEW from, NEW to, Stored(from, to),
           NEW a \in Cell, ~(a - call.dest \in from .. to - 1)
    PROVE  mem[a] = call.before[a] /\ mem[a] \in Int
<1>1. mem[a] = call.before[a]
  BY Zenon DEF Stored
<1> QED
  BY <1>1

(* One byte more, upwards or downwards.                                    *)
LEMMA ByteUp ==
    ASSUME call.dest \in Int, call' = call, NEW j \in Nat, NEW v \in Int, v = Wanted(j),
           Stored(0, j), mem' = [mem EXCEPT ![call.dest + j] = v]
    PROVE  Stored(0, j + 1)'
<1>1. PICK m, b, d, w : m = mem /\ b = call.before /\ d = call.dest /\ w = Wanting
  OBVIOUS
<1>2. Filling(m, b, d, w, 0, j)
  BY <1>1, StoredIsFilling
<1>3. v = w[j] /\ d \in Int
  BY <1>1 DEF Wanting
<1>4. Filling([m EXCEPT ![d + j] = v], b, d, w, 0, j + 1)
  BY <1>2, <1>3, FillOne
<1>5. Filling(mem', call.before, call.dest, Wanting, 0, j + 1)
  BY <1>1, <1>4, Zenon
<1> QED
  BY <1>5, StoredNext

LEMMA ByteDown ==
    ASSUME call.dest \in Int, call' = call, NEW j \in Nat, NEW n \in Nat, j < n, NEW v \in Int, v = Wanted(j),
           Stored(j + 1, n), mem' = [mem EXCEPT ![call.dest + j] = v]
    PROVE  Stored(j, n)'
<1>1. PICK m, b, d, w : m = mem /\ b = call.before /\ d = call.dest /\ w = Wanting
  OBVIOUS
<1>2. Filling(m, b, d, w, j + 1, n)
  BY <1>1, StoredIsFilling
<1>3. v = w[j] /\ d \in Int
  BY <1>1 DEF Wanting
<1>4. Filling([m EXCEPT ![d + j] = v], b, d, w, j, n)
  BY <1>2, <1>3, FillDown
<1>5. Filling(mem', call.before, call.dest, Wanting, j, n)
  BY <1>1, <1>4, Zenon
<1> QED
  BY <1>5, StoredNext

(* A step that stores nothing.                                             *)
LEMMA NothingStored ==
    ASSUME call' = call, mem' = mem, NEW from, NEW to, Stored(from, to)
    PROVE  Stored(from, to)'
  BY Zenon DEF Stored, Wanted, strlen

(* Two ways to say that nothing has been stored.                           *)
LEMMA NoneStored ==
    ASSUME call.dest \in Int, NEW n \in Nat, Stored(0, 0)
    PROVE  Stored(n, n)
<1>1. \A k \in Cell : ~(k - call.dest \in 0 .. 0 - 1) /\ ~(k - call.dest \in n .. n - 1)
  BY CellInt
<1> QED
  BY <1>1, Zenon DEF Stored

(* A byte moved upwards has not been stored over: the source lies behind.  *)
LEMMA MoveUp ==
    ASSUME InMove, call.fn = "memmove", call' = call,
           pc = "movsb", ecx > 0, df = 0, call.src >= call.dest,
           edi = call.dest + call.n - ecx, esi = call.src + call.n - ecx, Stored(0, call.n - ecx),
           mem' = [mem EXCEPT ![edi] = mem[esi]], edi' = edi + (1 - 2 * df), esi' = esi + (1 - 2 * df),
           ecx' = ecx - 1, df' = df, pc' = pc
    PROVE  InMove'
<1>1. PICK n \in Nat, e \in Int, d \in Int, s \in Int :
         /\ n = call.n /\ e = ecx /\ d = call.dest /\ s = call.src
         /\ e > 0 /\ e <= n /\ s >= d /\ s >= 0 /\ s + n <= SIZE
  <2>1. call.n \in Nat /\ call.dest \in Cell /\ call.src \in Cell /\ Inside(call.src, call.n)
    BY Zenon DEF InMove, Block
  <2>2. ecx \in 0 .. call.n
    BY Zenon DEF InMove
  <2> QED
    BY <2>1, <2>2, CellInt DEF Inside
<1>2. PICK j \in Nat : j = n - e /\ j < n
  <2>1. e > 0 /\ e <= n
    BY <1>1
  <2>2. n - e \in Nat
    BY <2>1
  <2>3. n - e < n
    BY <2>1
  <2> QED
    BY <2>2, <2>3
<1>3. edi = d + j /\ esi = s + j /\ edi' = d + j + 1 /\ esi' = s + j + 1 /\ ecx' = n - (j + 1)
  BY <1>1, <1>2
<1>4. PICK a \in Cell : a = s + j /\ ~(a - d \in 0 .. j - 1)
  <2>1. s + j \in Cell
    BY <1>1, <1>2, LibAssumption DEF Cell
  <2>2. ~((s + j) - d \in 0 .. j - 1)
    BY <1>1
  <2> QED
    BY <2>1, <2>2
<1>5. Stored(0, j)
  BY <1>1, <1>2, Zenon
<1>6. call.before \in [Cell -> Int]
  BY Zenon DEF InMove, Block
<1>7. mem[a] = call.before[a] /\ mem[a] \in Int
  BY <1>1, <1>4, <1>5, <1>6, Untouched
<1>8. PICK v \in Int : v = mem[a]
  BY <1>7
<1>9. v = Wanted(j)
  <2>1. Wanted(j) = call.before[call.src + j]
    BY DEF Wanted
  <2> QED
    BY <1>1, <1>4, <1>7, <1>8, <2>1, Zenon
<1>10. mem' = [mem EXCEPT ![call.dest + j] = v] /\ call.dest \in Int
  BY <1>1, <1>3, <1>4, <1>8, Zenon
<1>11. Stored(0, j + 1)'
  BY <1>5, <1>9, <1>10, ByteUp
<1>12. n - ecx' = j + 1 /\ ecx' \in 0 .. n /\ edi' = d + n - ecx' /\ esi' = s + n - ecx'
  BY <1>1, <1>2, <1>3
<1>13. Stored(0, call.n - ecx)'
  BY <1>1, <1>11, <1>12, Zenon DEF Stored
<1>14. (Block(1) /\ Inside(call.src, call.n))'
  BY Zenon DEF InMove, Block, Inside
<1>15. "movsb" # "memmove" /\ "movsb" # "ret"
  OBVIOUS
<1>16. (call.src >= call.dest)'
  BY Zenon
<1> QED
  BY <1>1, <1>12, <1>13, <1>14, <1>15, <1>16, Zenon DEF InMove

(* A byte moved downwards has not been stored over: the source lies below. *)
LEMMA MoveDown ==
    ASSUME InMove, call.fn = "memmove", call' = call,
           pc = "movsb", ecx > 0, df = 1, call.src < call.dest,
           edi = call.dest + ecx - 1, esi = call.src + ecx - 1, Stored(ecx, call.n),
           mem' = [mem EXCEPT ![edi] = mem[esi]], edi' = edi + (1 - 2 * df), esi' = esi + (1 - 2 * df),
           ecx' = ecx - 1, df' = df, pc' = pc
    PROVE  InMove'
<1>1. PICK n \in Nat, e \in Int, d \in Int, s \in Int :
         /\ n = call.n /\ e = ecx /\ d = call.dest /\ s = call.src
         /\ e > 0 /\ e <= n /\ s < d /\ s >= 0 /\ s + n <= SIZE
  <2>1. call.n \in Nat /\ call.dest \in Cell /\ call.src \in Cell /\ Inside(call.src, call.n)
    BY Zenon DEF InMove, Block
  <2>2. ecx \in 0 .. call.n
    BY Zenon DEF InMove
  <2> QED
    BY <2>1, <2>2, CellInt DEF Inside
<1>2. PICK j \in Nat : j = e - 1 /\ j < n /\ e = j + 1
  BY <1>1
<1>3. edi = d + j /\ esi = s + j /\ edi' = d + j - 1 /\ esi' = s + j - 1 /\ ecx' = j
  BY <1>1, <1>2
<1>4. PICK a \in Cell : a = s + j /\ ~(a - d \in (j + 1) .. n - 1)
  <2>1. s + j \in Cell
    BY <1>1, <1>2, LibAssumption DEF Cell
  <2>2. ~((s + j) - d \in (j + 1) .. n - 1)
    BY <1>1
  <2> QED
    BY <2>1, <2>2
<1>5. Stored(j + 1, n)
  BY <1>1, <1>2, Zenon
<1>6. call.before \in [Cell -> Int]
  BY Zenon DEF InMove, Block
<1>7. mem[a] = call.before[a] /\ mem[a] \in Int
  BY <1>1, <1>4, <1>5, <1>6, Untouched
<1>8. PICK v \in Int : v = mem[a]
  BY <1>7
<1>9. v = Wanted(j)
  <2>1. Wanted(j) = call.before[call.src + j]
    BY DEF Wanted
  <2> QED
    BY <1>1, <1>4, <1>7, <1>8, <2>1, Zenon
<1>10. mem' = [mem EXCEPT ![call.dest + j] = v] /\ call.dest \in Int
  BY <1>1, <1>3, <1>4, <1>8, Zenon
<1>11. Stored(j, n)'
  BY <1>2, <1>5, <1>9, <1>10, ByteDown
<1>12. ecx' \in 0 .. n /\ edi' = d + ecx' - 1 /\ esi' = s + ecx' - 1
  BY <1>1, <1>2, <1>3
<1>13. Stored(ecx, call.n)'
  BY <1>1, <1>3, <1>11, Zenon DEF Stored
<1>14. (Block(1) /\ Inside(call.src, call.n))'
  BY Zenon DEF InMove, Block, Inside
<1>15. "movsb" # "memmove" /\ "movsb" # "ret"
  OBVIOUS
<1>16. (call.src < call.dest)'
  BY Zenon
<1> QED
  BY <1>1, <1>12, <1>13, <1>14, <1>15, <1>16, Zenon DEF InMove

(* memmove keeps the loop invariant, in both directions.                   *)
LEMMA MoveStep ==
    ASSUME LInv, memmove
    PROVE  LInv'
<1>1. call' = call /\ pc \in {"memmove", "movsb"}
  BY Zenon DEF memmove
<1>2. InMove /\ call.fn = "memmove"
  BY <1>1, Where
<1>3. (Block(1) /\ Inside(call.src, call.n))'
  BY <1>1, <1>2, Zenon DEF InMove, Block, Inside
<1>4. PICK n \in Nat, d \in Int, s \in Int : n = call.n /\ d = call.dest /\ s = call.src
  <2>1. call.n \in Nat /\ call.dest \in Cell /\ call.src \in Cell
    BY <1>2, Zenon DEF InMove, Block
  <2> QED
    BY <2>1, CellInt
<1>5. "movsb" # "memmove" /\ "movsb" # "ret" /\ "ret" # "memmove"
  OBVIOUS
<1>6. InMove'
  <2>1. CASE /\ pc = "memmove" /\ pc' = "movsb" /\ mem' = mem /\ ecx' = ecx
             /\ IF Forward(edi, esi) THEN df' = 0 /\ UNCHANGED <<edi, esi>>
                ELSE df' = 1 /\ esi' = esi + ecx - 1 /\ edi' = edi + ecx - 1
    <3>1. edi = d /\ esi = s /\ ecx = n /\ Stored(0, 0)
      BY <1>2, <1>4, <2>1, Zenon DEF InMove
    <3>2. ecx' \in 0 .. n /\ n - ecx' = 0 /\ ecx' = n
      BY <2>1, <3>1
    <3>3. CASE Forward(edi, esi)
      <4>1. df' = 0 /\ edi' = d /\ esi' = s /\ s >= d
        BY <2>1, <3>1, <3>3 DEF Forward
      <4>2. edi' = d + n - ecx' /\ esi' = s + n - ecx'
        BY <3>2, <4>1
      <4>3. Stored(0, 0)'
        BY <1>1, <2>1, <3>1, NothingStored
      <4>4. Stored(0, call.n - ecx)'
        BY <1>1, <1>4, <3>2, <4>3, Zenon DEF Stored
      <4> QED
        BY <1>1, <1>3, <1>4, <1>5, <2>1, <3>2, <4>1, <4>2, <4>4, Zenon DEF InMove
    <3>4. CASE ~Forward(edi, esi)
      <4>1. df' = 1 /\ edi' = d + ecx' - 1 /\ esi' = s + ecx' - 1 /\ s < d
        BY <2>1, <3>1, <3>4 DEF Forward
      <4>2. Stored(n, n)
        BY <1>4, <3>1, NoneStored
      <4>3. Stored(n, n)'
        BY <1>1, <2>1, <4>2, NothingStored
      <4>4. Stored(ecx, call.n)'
        BY <1>1, <1>4, <3>2, <4>3, Zenon DEF Stored
      <4> QED
        BY <1>1, <1>3, <1>4, <1>5, <2>1, <3>2, <4>1, <4>4, Zenon DEF InMove
    <3> QED
      BY <3>3, <3>4
  <2>2. CASE /\ pc = "movsb" /\ ecx > 0 /\ mem' = [mem EXCEPT ![edi] = mem[esi]]
             /\ edi' = edi + (1 - 2 * df) /\ esi' = esi + (1 - 2 * df)
             /\ ecx' = ecx - 1 /\ df' = df /\ pc' = pc
    <3>1. \/ /\ df = 0 /\ call.src >= call.dest
             /\ edi = call.dest + call.n - ecx /\ esi = call.src + call.n - ecx
             /\ Stored(0, call.n - ecx)
          \/ /\ df = 1 /\ call.src < call.dest
             /\ edi = call.dest + ecx - 1 /\ esi = call.src + ecx - 1
             /\ Stored(ecx, call.n)
      BY <1>2, <2>2, Zenon DEF InMove
    <3> QED
      BY <1>1, <1>2, <2>2, <3>1, MoveUp, MoveDown
  <2>3. CASE pc = "movsb" /\ ecx = 0 /\ pc' = "ret" /\ mem' = mem
    <3>1. n - 0 = n
      BY <1>4
    <3>2. Stored(0, n)
      BY <1>2, <1>4, <2>3, <3>1, Zenon DEF InMove
    <3>3. Stored(0, n)'
      BY <1>1, <2>3, <3>2, NothingStored
    <3>4. Stored(0, call.n)'
      BY <1>1, <1>4, <3>3, Zenon DEF Stored
    <3> QED
      BY <1>3, <1>5, <2>3, <3>4, Zenon DEF InMove
  <2> QED
    BY <2>1, <2>2, <2>3, Zenon DEF memmove
<1> QED
  BY <1>1, <1>2, <1>6, Zenon DEF LInv

(* The least number of a set is the one that is least.                     *)
LEMMA MinIs ==
    ASSUME NEW S, S \subseteq Int, NEW x \in S, \A y \in S : x <= y
    PROVE  Min(S) = x
<1>1. \E y \in S : \A u \in S : y <= u
  OBVIOUS
<1>2. Min(S) \in S /\ \A u \in S : Min(S) <= u
  BY <1>1, Zenon DEF Min
<1>3. Min(S) \in Int /\ x \in Int /\ Min(S) <= x /\ x <= Min(S)
  BY <1>2
<1> QED
  BY <1>3

(* The string that is copied is as long as the zero that ends it is away.  *)
LEMMA LengthIs ==
    ASSUME NEW z, EndsAt(z), call.src \in Int, call.before \in [Cell -> Int]
    PROVE  strlen(call.before, call.src) = z - call.src
<1> DEFINE S == {k \in Cell : k >= call.src /\ call.before[k] = 0}
<1>1. z \in Cell /\ call.src <= z /\ call.before[z] = 0 /\ \A k \in call.src .. z - 1 : call.before[k] # 0
  BY Zenon DEF EndsAt
<1>2. z \in S /\ S \subseteq Int
  BY <1>1, CellInt
<1>3. ASSUME NEW y \in S
      PROVE  z <= y
  <2>1. y \in Int /\ y >= call.src /\ call.before[y] = 0 /\ z \in Int
    BY <1>1, CellInt
  <2>2. y \notin call.src .. z - 1
    BY <1>1, <2>1, Zenon
  <2> QED
    BY <2>1, <2>2
<1> HIDE DEF S
<1>4. Min(S) = z
  BY <1>2, <1>3, MinIs
<1> QED
  BY <1>4, Zenon DEF strlen, S

(* The byte of the string that is read next has not been stored over.      *)
LEMMA StringSource ==
    ASSUME NEW z, EndsAt(z), call.dest \in Cell, call.src \in Cell, call.before \in [Cell -> Int],
           NEW j \in Nat, j <= z - call.src, Stored(0, j)
    PROVE  /\ call.src + j \in Cell
           /\ mem[call.src + j] = call.before[call.src + j]
           /\ mem[call.src + j] \in Int
           /\ mem[call.src + j] = 0 => j = z - call.src
           /\ j = z - call.src => mem[call.src + j] = 0
<1>1. PICK s \in Int, d \in Int, y \in Int : s = call.src /\ d = call.dest /\ y = z
  BY CellInt DEF EndsAt
<1>2. s >= 0 /\ y <= SIZE - 1 /\ s <= y /\ (d <= s \/ d > y) /\ y - s >= j
  BY <1>1, LibAssumption DEF EndsAt, Cell
<1>3. PICK a \in Cell : a = s + j
  BY <1>1, <1>2, LibAssumption DEF Cell
<1>4. ~(a - d \in 0 .. j - 1)
  BY <1>2, <1>3
<1>5. mem[a] = call.before[a] /\ mem[a] \in Int
  BY <1>1, <1>4, Untouched
<1>6. mem[a] = 0 => j = y - s
  <2>1. a \in s .. y - 1 => call.before[a] # 0
    BY <1>1, Zenon DEF EndsAt
  <2>2. j # y - s => a \in s .. y - 1
    BY <1>2, <1>3
  <2> QED
    BY <1>5, <2>1, <2>2
<1>7. j = y - s => mem[a] = 0
  <2>1. j = y - s => a = y
    BY <1>3
  <2>2. call.before[y] = 0
    BY <1>1, Zenon DEF EndsAt
  <2> QED
    BY <1>5, <2>1, <2>2, Zenon
<1> QED
  BY <1>1, <1>3, <1>5, <1>6, <1>7, Zenon

(* The arguments of a call do not change while it runs.                    *)
LEMMA SameArguments ==
    ASSUME call' = call
    PROVE  /\ Block(1) => Block(1)'
           /\ \A z : EndsAt(z) => EndsAt(z)'
  BY Zenon DEF Block, EndsAt, Inside

(* strcpy keeps the loop invariant.                                        *)
LEMMA CopyStep ==
    ASSUME LInv, strcpy
    PROVE  LInv'
<1>1. call' = call /\ pc = "strcpy" /\ edi' = edi /\ esi' = esi
  BY Zenon DEF strcpy
<1>2. InCopy /\ call.fn = "strcpy"
  BY <1>1, Where
<1>3. /\ Block(1) /\ edi = call.dest /\ esi = call.src
      /\ call.dest \in Cell /\ call.src \in Cell /\ call.before \in [Cell -> Int]
  BY <1>1, <1>2, Zenon DEF InCopy, Block
<1>4. PICK z \in Cell : EndsAt(z) /\ call.n = z - call.src + 1 /\ ecx \in 0 .. z - call.src /\ Stored(0, ecx)
  BY <1>1, <1>2, Zenon DEF InCopy
<1>5. call.dest \in Int /\ call.src \in Int /\ z \in Int
  BY <1>3, CellInt, Zenon
<1>6. PICK j \in Nat : j = ecx /\ j <= z - call.src
  BY <1>4, <1>5
<1>7. Stored(0, j)
  BY <1>4, <1>6, Zenon
<1>8. /\ mem[call.src + j] = call.before[call.src + j] /\ mem[call.src + j] \in Int
      /\ mem[call.src + j] = 0 => j = z - call.src
      /\ j = z - call.src => mem[call.src + j] = 0
  BY <1>3, <1>4, <1>6, <1>7, StringSource
<1>9. PICK v \in Int : v = mem[call.src + j]
  BY <1>8
<1>10. v = Wanted(j)
  <2>1. Wanted(j) = call.before[call.src + j]
    BY <1>2 DEF Wanted
  <2> QED
    BY <1>8, <1>9, <2>1, Zenon
<1>11. mem' = [mem EXCEPT ![call.dest + j] = v]
  BY <1>3, <1>6, <1>9, Zenon DEF strcpy
<1>12. Stored(0, j + 1)'
  BY <1>1, <1>5, <1>7, <1>10, <1>11, ByteUp
<1>13. "ret" # "strcpy"
  OBVIOUS
<1>14. Block(1)' /\ EndsAt(z)' /\ (call.n = z - call.src + 1)'
  BY <1>1, <1>3, <1>4, SameArguments, Zenon
<1>15. CASE v # 0
  <2>1. ecx' = j + 1 /\ pc' = pc
    BY <1>3, <1>6, <1>9, <1>15, Zenon DEF strcpy
  <2>2. j + 1 \in 0 .. z - call.src
    BY <1>5, <1>6, <1>8, <1>9, <1>15
  <2>3. Stored(0, ecx)'
    BY <1>12, <2>1, Zenon DEF Stored
  <2>4. InCopy'
    BY <1>1, <1>3, <1>13, <1>14, <2>1, <2>2, <2>3, Zenon DEF InCopy
  <2> QED
    BY <1>1, <1>2, <2>4, Zenon DEF LInv
<1>16. CASE v = 0
  <2>1. pc' = "ret"
    BY <1>3, <1>6, <1>9, <1>16, Zenon DEF strcpy
  <2>2. j + 1 = call.n
    BY <1>4, <1>5, <1>8, <1>9, <1>16
  <2>3. Stored(0, call.n)'
    BY <1>1, <1>12, <2>2, Zenon DEF Stored
  <2>4. InCopy'
    BY <1>13, <1>14, <2>1, <2>3, Zenon DEF InCopy
  <2> QED
    BY <1>1, <1>2, <2>4, Zenon DEF LInv
<1> QED
  BY <1>15, <1>16

(* strncpy keeps the loop invariant: it copies while the string lasts, and *)
(* pads from the byte the string ended at.                                 *)
LEMMA NCopyStep ==
    ASSUME LInv, strncpy
    PROVE  LInv'
<1>1. call' = call /\ pc \in {"strncpy", "pad"} /\ edi' = edi /\ esi' = esi
  BY Zenon DEF strncpy
<1>2. InNCopy /\ call.fn = "strncpy" /\ pc # "ret" /\ "strncpy" # "pad" /\ "ret" # "strncpy" /\ "ret" # "pad"
  BY <1>1, Where
<1>3. /\ Block(1) /\ edi = call.dest /\ esi = call.src /\ ecx \in 0 .. call.n /\ Stored(0, ecx)
      /\ call.dest \in Cell /\ call.src \in Cell /\ call.before \in [Cell -> Int] /\ call.n \in Nat
  BY <1>2, Zenon DEF InNCopy, Block
<1>4. PICK z \in Cell : EndsAt(z) /\ (pc = "strncpy" => ecx <= z - call.src)
                        /\ (pc = "pad" => ecx = call.n \/ ecx >= z - call.src)
  BY <1>2, Zenon DEF InNCopy
<1>5. call.dest \in Int /\ call.src \in Int /\ z \in Int
  BY <1>3, CellInt, Zenon
<1>6. PICK j \in Nat : j = ecx /\ j <= call.n
  BY <1>3
<1>7. Stored(0, j)
  BY <1>3, <1>6, Zenon
<1>8. Block(1)' /\ EndsAt(z)'
  BY <1>1, <1>3, <1>4, SameArguments, Zenon
<1>9. strlen(call.before, call.src) = z - call.src
  BY <1>3, <1>4, <1>5, LengthIs
<1>10. Wanted(j) = IF j < z - call.src THEN call.before[call.src + j] ELSE 0
  <2>1. Wanted(j) = IF j < strlen(call.before, call.src) THEN call.before[call.src + j] ELSE 0
    BY <1>2 DEF Wanted
  <2> QED
    BY <1>9, <2>1, Zenon
<1>11. ASSUME pc = "strncpy"
       PROVE  /\ j <= z - call.src
              /\ mem[call.src + j] = call.before[call.src + j] /\ mem[call.src + j] \in Int
              /\ mem[call.src + j] = 0 => j = z - call.src
              /\ j = z - call.src => mem[call.src + j] = 0
  <2>1. j <= z - call.src
    BY <1>4, <1>6, <1>11
  <2> QED
    BY <1>3, <1>4, <1>7, <2>1, StringSource
<1>12. InNCopy'
  <2>1. CASE /\ pc = "strncpy" /\ mem[esi + ecx] # 0 /\ ecx < call.n
             /\ mem' = [mem EXCEPT ![edi + ecx] = mem[esi + ecx]] /\ ecx' = ecx + 1 /\ pc' = pc
    <3>1. PICK v \in Int : v = mem[call.src + j]
      BY <1>11, <2>1
    <3>2. v # 0 /\ mem' = [mem EXCEPT ![call.dest + j] = v] /\ ecx' = j + 1
      BY <1>3, <1>6, <2>1, <3>1, Zenon
    <3>3. j < z - call.src /\ j + 1 <= z - call.src /\ j + 1 \in 0 .. call.n
      <4>1. j <= z - call.src /\ j # z - call.src
        BY <1>11, <2>1, <3>1, <3>2
      <4>2. j < call.n
        BY <1>6, <2>1
      <4> QED
        BY <1>3, <1>5, <4>1, <4>2
    <3>4. v = Wanted(j)
      BY <1>10, <1>11, <2>1, <3>1, <3>3, Zenon
    <3>5. Stored(0, j + 1)'
      BY <1>1, <1>5, <1>7, <3>2, <3>4, ByteUp
    <3>6. Stored(0, ecx)'
      BY <3>2, <3>5, Zenon DEF Stored
    <3> QED
      BY <1>1, <1>2, <1>3, <1>8, <2>1, <3>2, <3>3, <3>6, Zenon DEF InNCopy
  <2>2. CASE pc = "strncpy" /\ (mem[esi + ecx] = 0 \/ ecx >= call.n) /\ pc' = "pad" /\ ecx' = PadFrom /\ mem' = mem
    <3>1. ecx' = j /\ j \in 0 .. call.n
      BY <1>3, <1>6, <2>2 DEF PadFrom
    <3>2. j = call.n \/ j >= z - call.src
      <4>1. CASE mem[esi + ecx] = 0
        <5>1. mem[call.src + j] = 0
          BY <1>3, <1>6, <4>1, Zenon
        <5>2. j = z - call.src
          BY <1>11, <2>2, <5>1, Zenon
        <5> QED
          BY <5>2
      <4>2. CASE ecx >= call.n
        BY <1>3, <1>6, <4>2
      <4> QED
        BY <2>2, <4>1, <4>2
    <3>3. Stored(0, j)'
      BY <1>1, <1>7, <2>2, NothingStored
    <3>4. Stored(0, ecx)'
      BY <3>1, <3>3, Zenon DEF Stored
    <3> QED
      BY <1>1, <1>2, <1>3, <1>8, <2>2, <3>1, <3>2, <3>4, Zenon DEF InNCopy
  <2>3. CASE pc = "pad" /\ ecx < call.n /\ mem' = [mem EXCEPT ![edi + ecx] = 0] /\ ecx' = ecx + 1 /\ pc' = pc
    <3>1. j < call.n /\ j >= z - call.src /\ ~(j < z - call.src) /\ j + 1 >= z - call.src /\ j + 1 \in 0 .. call.n
      BY <1>3, <1>4, <1>5, <1>6, <2>3
    <3>2. 0 = Wanted(j) /\ 0 \in Int
      BY <1>10, <3>1
    <3>3. mem' = [mem EXCEPT ![call.dest + j] = 0] /\ ecx' = j + 1
      BY <1>3, <1>6, <2>3, Zenon
    <3>4. Stored(0, j + 1)'
      BY <1>1, <1>5, <1>7, <3>2, <3>3, ByteUp
    <3>5. Stored(0, ecx)'
      BY <3>3, <3>4, Zenon DEF Stored
    <3> QED
      BY <1>1, <1>2, <1>3, <1>8, <2>3, <3>1, <3>3, <3>5, Zenon DEF InNCopy
  <2>4. CASE pc = "pad" /\ ecx >= call.n /\ pc' = "ret" /\ mem' = mem
    <3>1. j = call.n
      BY <1>3, <1>6, <2>4
    <3>2. Stored(0, j)'
      BY <1>1, <1>7, <2>4, NothingStored
    <3>3. Stored(0, call.n)'
      BY <1>1, <3>1, <3>2, Zenon DEF Stored
    <3> QED
      BY <1>2, <1>8, <2>4, <3>3, Zenon DEF InNCopy
  <2> QED
    BY <2>1, <2>2, <2>3, <2>4, Zenon DEF strncpy
<1> QED
  BY <1>1, <1>2, <1>12, Zenon DEF LInv

(* strncmp keeps the loop invariant.                                       *)
LEMMA CompareStep ==
    ASSUME LInv, strncmp
    PROVE  LInv'
<1> DEFINE a == mem[edi + ecx]
           b == mem[esi + ecx]
           over == ecx >= call.n \/ a # b \/ a = 0
<1>1. /\ call' = call /\ pc = "strncmp" /\ mem' = mem /\ edi' = edi /\ esi' = esi
      /\ pc' = IF over THEN "ret" ELSE pc
      /\ ecx' = IF over THEN ecx ELSE ecx + 1
      /\ eax' = IF over /\ ecx < call.n THEN a - b ELSE 0
  BY Zenon DEF strncmp
<1>2. InCompare /\ call.fn = "strncmp"
  BY <1>1, Where
<1>3. /\ call.n \in Nat /\ call.dest \in Int /\ call.src \in Int /\ ecx \in 0 .. call.n
      /\ call.before \in [Cell -> Int]
      /\ mem = call.before /\ edi = call.dest /\ esi = call.src
      /\ \A i \in 0 .. ecx - 1 : Same(i) /\ call.before[call.dest + i] # 0
  BY <1>1, <1>2, Zenon DEF InCompare
<1>4. PICK j \in Nat, n \in Nat : j = ecx /\ n = call.n /\ j <= n
  BY <1>3
<1>5. a = call.before[call.dest + j] /\ b = call.before[call.src + j]
  BY <1>3, <1>4, Zenon
<1>6. "ret" # "strncmp"
  OBVIOUS
<1>7. (call.n \in Nat /\ call.dest \in Int /\ call.src \in Int /\ call.before \in [Cell -> Int])'
  BY <1>1, <1>3, Zenon
<1>8. Same(j) <=> a = b
  BY <1>5, Zenon DEF Same
<1> HIDE DEF a, b
<1>9. CASE over
  <2>1. pc' = "ret" /\ ecx' = j /\ (j < n => eax' = a - b) /\ (~(j < n) => eax' = 0)
    BY <1>1, <1>4, <1>9, Zenon
  <2>2. j < n => a # b \/ a = 0
    BY <1>4, <1>9
  <2>3. (\A i \in 0 .. ecx - 1 : Same(i) /\ call.before[call.dest + i] # 0)'
    BY <1>1, <1>3, <1>4, <2>1, Zenon DEF Same
  <2>4. (IF ecx < call.n
         THEN /\ ~Same(ecx) \/ call.before[call.dest + ecx] = 0
              /\ eax = call.before[call.dest + ecx] - call.before[call.src + ecx]
         ELSE eax = 0)'
    BY <1>1, <1>4, <1>5, <1>8, <2>1, <2>2, Zenon DEF Same
  <2>5. (ecx \in 0 .. call.n)'
    BY <1>1, <1>3, <1>4, <2>1, Zenon
  <2>6. InCompare'
    BY <1>6, <1>7, <2>1, <2>3, <2>4, <2>5, Zenon DEF InCompare
  <2> QED
    BY <1>1, <1>2, <2>6, Zenon DEF LInv
<1>10. CASE ~over
  <2>1. pc' = pc /\ ecx' = j + 1 /\ a = b /\ a # 0 /\ ~(j >= n)
    BY <1>1, <1>4, <1>10, Zenon
  <2>2. j + 1 \in 0 .. n /\ \A i \in 0 .. (j + 1) - 1 : i \in 0 .. j - 1 \/ i = j
    BY <1>4, <2>1
  <2>3. \A i \in 0 .. (j + 1) - 1 : Same(i) /\ call.before[call.dest + i] # 0
    BY <1>3, <1>4, <1>5, <1>8, <2>1, <2>2, Zenon
  <2>4. (\A i \in 0 .. ecx - 1 : Same(i) /\ call.before[call.dest + i] # 0)'
    BY <1>1, <2>1, <2>3, Zenon DEF Same
  <2>5. InCompare'
    BY <1>1, <1>3, <1>4, <1>6, <1>7, <2>1, <2>2, <2>4, Zenon DEF InCompare
  <2> QED
    BY <1>1, <1>2, <2>5, Zenon DEF LInv
<1> QED
  BY <1>9, <1>10

(* The number conversions stay what they are.                              *)
LEMMA NumberStep ==
    ASSUME LInv, itoa \/ strrev \/ puts
    PROVE  LInv'
<1>1. call' = call /\ pc \in {"itoa", "strrev", "puts"} /\ pc' \in {"itoa", "strrev", "puts", "ret"}
  BY Zenon DEF itoa, strrev, puts
<1>2. call.fn \in Numbers
  BY <1>1, Where
<1> QED
  BY <1>1, <1>2, Zenon DEF LInv, Numbers

(* The memory that a call finds.                                           *)
LEMMA FilledBytes ==
    ASSUME NEW zeros
    PROVE  /\ Filled(zeros) \in [Cell -> Int]
           /\ \A k \in Cell : Filled(zeros)[k] = 0 <=> k \in zeros
<1>1. ASSUME NEW k \in Cell
      PROVE  /\ Filled(zeros)[k] = IF k \in zeros THEN 0 ELSE k + 1
             /\ k + 1 \in Int /\ k + 1 # 0
  BY CellInt DEF Filled
<1>2. \A k \in Cell : (IF k \in zeros THEN 0 ELSE k + 1) \in Int
  BY <1>1
<1>3. Filled(zeros) \in [Cell -> Int]
  BY <1>2 DEF Filled
<1> QED
  BY <1>1, <1>3, Zenon

(* Before its first step a call has stored nothing.                        *)
LEMMA BeginStored ==
    ASSUME call'.dest \in Int, mem' = call'.before, mem' \in [Cell -> Int]
    PROVE  Stored(0, 0)'
<1>1. \A k \in Cell : ~(k - call'.dest \in 0 .. 0 - 1)
  BY CellInt
<1> QED
  BY <1>1, Zenon DEF Stored

(* A call of a block function starts in its loop invariant.                *)
LEMMA CallBlockStep ==
    ASSUME CallBlock
    PROVE  LInv'
<1>1. PICK fn \in {"memset", "memset_word", "memset_dword", "memcpy", "memmove"},
           d \in Cell, s \in Cell, n \in 0 .. SIZE :
         LET unit == IF fn = "memset_word" THEN 2 ELSE IF fn = "memset_dword" THEN 4 ELSE 1
         IN  /\ Inside(d, unit * n) /\ Inside(s, n)
             /\ fn \in {"memset", "memset_word", "memset_dword"} => s = 0
             /\ fn = "memcpy" => d + n <= s \/ s + n <= d
             /\ Begin([NoCall EXCEPT !.fn = fn, !.dest = d, !.src = s, !.n = n, !.c = 100, !.before = Filled({})])
             /\ pc' = fn /\ ecx' = n
  BY Zenon DEF CallBlock
<1> DEFINE unit == IF fn = "memset_word" THEN 2 ELSE IF fn = "memset_dword" THEN 4 ELSE 1
<1>2. Inside(d, unit * n) /\ Inside(s, n) /\ (fn = "memcpy" => d + n <= s \/ s + n <= d) /\ pc' = fn /\ ecx' = n
  BY <1>1, Zenon
<1>3. PICK r : r = [NoCall EXCEPT !.fn = fn, !.dest = d, !.src = s, !.n = n, !.c = 100, !.before = Filled({})]
  OBVIOUS
<1>4. call' = r /\ mem' = r.before /\ edi' = r.dest /\ esi' = r.src
  BY <1>1, <1>3, Zenon DEF Begin
<1>5. r.fn = fn /\ r.dest = d /\ r.src = s /\ r.n = n /\ r.c = 100 /\ r.before = Filled({})
  BY <1>3, Zenon DEF NoCall
<1>6. d \in Int /\ s \in Int /\ n \in Nat /\ 100 \in Int /\ Filled({}) \in [Cell -> Int]
  BY CellInt, FilledBytes, LibAssumption
<1>7. Stored(0, 0)'
  BY <1>4, <1>5, <1>6, BeginStored
<1>8. Block(unit)'
  BY <1>2, <1>4, <1>5, <1>6, Zenon DEF Block, Inside
<1>9. n - n = 0 /\ d + n - n = d /\ s + n - n = s /\ n \in 0 .. n
  BY <1>6
<1>10. Stored(0, n - n)'
  BY <1>7, <1>9, Zenon
<1>11. CASE fn \in {"memset", "memcpy"}
  <2>1. unit = 1 /\ fn # "ret" /\ fn # "bottom"
    BY <1>11
  <2>2. Left' = n
    BY <1>2, <2>1, Zenon DEF Left
  <2>3. Block(1)'
    BY <1>8, <2>1, Zenon DEF Block
  <2>4. Stored(0, call.n - Left)'
    BY <1>4, <1>5, <1>10, <2>2, Zenon DEF Stored
  <2>5. InWords'
    BY <1>2, <1>4, <1>5, <1>9, <2>1, <2>2, <2>3, <2>4, Zenon DEF InWords, Inside
  <2> QED
    BY <1>4, <1>5, <1>11, <2>5, Zenon DEF LInv
<1>12. CASE fn = "memset_word"
  <2>1. unit = 2 /\ fn # "ret"
    BY <1>12
  <2>2. InUnits(2)'
    BY <1>2, <1>4, <1>5, <1>7, <1>8, <2>1, Zenon DEF InUnits, Block
  <2> QED
    BY <1>4, <1>5, <1>12, <2>2, Zenon DEF LInv
<1>13. CASE fn = "memset_dword"
  <2>1. unit = 4 /\ fn # "ret"
    BY <1>13
  <2>2. InUnits(4)'
    BY <1>2, <1>4, <1>5, <1>7, <1>8, <2>1, Zenon DEF InUnits, Block
  <2> QED
    BY <1>4, <1>5, <1>13, <2>2, Zenon DEF LInv
<1>14. CASE fn = "memmove"
  <2>1. unit = 1 /\ fn # "ret" /\ fn # "movsb"
    BY <1>14
  <2>2. Block(1)'
    BY <1>8, <2>1, Zenon DEF Block
  <2>3. InMove'
    BY <1>2, <1>4, <1>5, <1>7, <1>14, <2>1, <2>2, Zenon DEF InMove, Inside
  <2> QED
    BY <1>4, <1>5, <1>14, <2>3, Zenon DEF LInv
<1> QED
  BY <1>11, <1>12, <1>13, <1>14, Zenon

(* A call of strcpy or strncpy starts in its loop invariant.               *)
LEMMA CallCopyStep ==
    ASSUME CallCopy
    PROVE  LInv'
<1>1. PICK fn \in {"strcpy", "strncpy"}, d \in Cell, s \in Cell, z \in Cell, n \in 0 .. SIZE :
         /\ s <= z
         /\ IF fn = "strcpy" THEN n = z - s + 1 ELSE TRUE
         /\ Inside(d, n) /\ (d <= s \/ d > z)
         /\ Begin([NoCall EXCEPT !.fn = fn, !.dest = d, !.src = s, !.n = n, !.before = Filled({z})])
         /\ pc' = fn /\ ecx' = 0
  BY Zenon DEF CallCopy
<1>2. PICK r : r = [NoCall EXCEPT !.fn = fn, !.dest = d, !.src = s, !.n = n, !.before = Filled({z})]
  OBVIOUS
<1>3. call' = r /\ mem' = r.before /\ edi' = r.dest /\ esi' = r.src
  BY <1>1, <1>2, Zenon DEF Begin
<1>4. r.fn = fn /\ r.dest = d /\ r.src = s /\ r.n = n /\ r.c = 0 /\ r.before = Filled({z})
  BY <1>2, Zenon DEF NoCall
<1>5. d \in Int /\ s \in Int /\ z \in Int /\ n \in Nat /\ 0 \in Int /\ 1 * n = n
  BY CellInt, LibAssumption
<1>6. Filled({z}) \in [Cell -> Int] /\ \A k \in Cell : Filled({z})[k] = 0 <=> k = z
  BY FilledBytes
<1>7. Stored(0, 0)'
  BY <1>3, <1>4, <1>5, <1>6, BeginStored
<1>8. Block(1)'
  BY <1>1, <1>3, <1>4, <1>5, <1>6, Zenon DEF Block, Inside
<1>9. \A k \in s .. z - 1 : k \in Cell /\ k # z
  BY <1>5, LibAssumption DEF Cell
<1>10. EndsAt(z)'
  BY <1>1, <1>3, <1>4, <1>6, <1>9, Zenon DEF EndsAt
<1>11. 0 \in 0 .. z - s /\ 0 \in 0 .. n /\ 0 <= z - s
  BY <1>1, <1>5
<1>12. Stored(0, ecx)'
  BY <1>1, <1>7, Zenon DEF Stored
<1>13. CASE fn = "strcpy"
  <2>1. fn # "ret" /\ n = z - s + 1
    BY <1>1, <1>13
  <2>2. InCopy'
    BY <1>1, <1>3, <1>4, <1>8, <1>10, <1>11, <1>12, <1>13, <2>1, Zenon DEF InCopy
  <2> QED
    BY <1>3, <1>4, <1>13, <2>2, Zenon DEF LInv
<1>14. CASE fn = "strncpy"
  <2>1. fn # "ret" /\ fn # "pad"
    BY <1>14
  <2>2. InNCopy'
    BY <1>1, <1>3, <1>4, <1>8, <1>10, <1>11, <1>12, <1>14, <2>1, Zenon DEF InNCopy
  <2> QED
    BY <1>3, <1>4, <1>14, <2>2, Zenon DEF LInv
<1> QED
  BY <1>13, <1>14, Zenon

(* A call of strncmp starts in its loop invariant.                         *)
LEMMA CallCompareStep ==
    ASSUME CallCompare
    PROVE  LInv'
<1>1. PICK s1 \in [0 .. 2 -> 0 .. 2], s2 \in [0 .. 2 -> 0 .. 2], n \in 0 .. 4 :
         /\ Begin([NoCall EXCEPT !.fn = "strncmp", !.dest = 0, !.src = 4, !.n = n,
                   !.before = [k \in Cell |-> IF k \in 0 .. 2 THEN s1[k] ELSE IF k \in 4 .. 6 THEN s2[k - 4] ELSE 0]])
         /\ pc' = "strncmp" /\ ecx' = 0
  BY Zenon DEF CallCompare
<1>2. PICK b : b = [k \in Cell |-> IF k \in 0 .. 2 THEN s1[k] ELSE IF k \in 4 .. 6 THEN s2[k - 4] ELSE 0]
  OBVIOUS
<1>3. PICK r : r = [NoCall EXCEPT !.fn = "strncmp", !.dest = 0, !.src = 4, !.n = n, !.before = b]
  OBVIOUS
<1>4. call' = r /\ mem' = r.before /\ edi' = r.dest /\ esi' = r.src
  BY <1>1, <1>2, <1>3, Zenon DEF Begin
<1>5. r.fn = "strncmp" /\ r.dest = 0 /\ r.src = 4 /\ r.n = n /\ r.before = b
  BY <1>3, Zenon DEF NoCall
<1>6. ASSUME NEW k \in Cell
      PROVE  (IF k \in 0 .. 2 THEN s1[k] ELSE IF k \in 4 .. 6 THEN s2[k - 4] ELSE 0) \in Int
  <2>1. k \in 0 .. 2 => s1[k] \in Int
    OBVIOUS
  <2>2. k \in 4 .. 6 => s2[k - 4] \in Int
    OBVIOUS
  <2> QED
    BY <2>1, <2>2
<1>7. b \in [Cell -> Int]
  BY <1>2, <1>6, Zenon
<1>8. n \in Nat /\ 0 \in Int /\ 4 \in Int /\ 0 \in 0 .. n /\ 0 .. 0 - 1 = {}
  OBVIOUS
<1>9. "strncmp" # "ret"
  OBVIOUS
<1>10. InCompare'
  BY <1>1, <1>4, <1>5, <1>7, <1>8, <1>9, Zenon DEF InCompare
<1> QED
  BY <1>4, <1>5, <1>10, Zenon DEF LInv

(* A number conversion starts as what it is.                               *)
LEMMA CallNumberStep ==
    ASSUME CallNumber
    PROVE  LInv'
<1>1. PICK fn \in Numbers, v \in Word :
         LET buf == IF fn = "%#x" THEN Digits ELSE IF Negative(fn, v) THEN 1 ELSE 0
         IN  /\ Begin([NoCall EXCEPT !.fn = fn, !.dest = buf, !.src = buf, !.n = v, !.c = Base(fn),
                       !.before = [Filled({}) EXCEPT ![0] = IF Negative(fn, v) THEN Minus ELSE @]])
             /\ pc' = "itoa" /\ ecx' = Magnitude(fn, v)
  BY Zenon DEF CallNumber, Numbers
<1>2. call'.fn = fn /\ pc' = "itoa"
  <2>1. PICK d, b, r : /\ r = [NoCall EXCEPT !.fn = fn, !.dest = d, !.src = d, !.n = v, !.c = Base(fn), !.before = b]
                       /\ Begin(r) /\ pc' = "itoa"
    BY <1>1, Zenon
  <2>2. r.fn = fn
    BY <2>1, Zenon DEF NoCall
  <2> QED
    BY <2>1, <2>2, Zenon DEF Begin
<1> QED
  BY <1>2, Zenon DEF LInv

(* Every call starts in its loop invariant and every step keeps it.        *)
THEOREM LoopInvariants == Spec => []LInv
<1>1. Init => LInv
  BY Zenon DEF Init, LInv
<1>2. ASSUME LInv, [Next]_vars
      PROVE  LInv'
  <2>1. CASE UNCHANGED vars
    <3>1. /\ mem' = mem /\ edi' = edi /\ esi' = esi /\ ecx' = ecx /\ edx' = edx
          /\ df' = df /\ pc' = pc /\ call' = call /\ eax' = eax
      BY <2>1, Zenon DEF vars, regs
    <3>2. \A from, to : Stored(from, to)' = Stored(from, to)
      BY <3>1, Zenon DEF Stored, Wanted, strlen
    <3>3. Left' = Left /\ (\A unit : Block(unit)' = Block(unit)) /\ (\A z : EndsAt(z)' = EndsAt(z))
      BY <3>1, Zenon DEF Left, Block, Inside, EndsAt
    <3>4. InWords' = InWords
      BY <3>1, <3>2, <3>3, Zenon DEF InWords, Inside, Stored, Wanted, strlen, Block
    <3>5. InUnits(2)' = InUnits(2) /\ InUnits(4)' = InUnits(4)
      BY <3>1, <3>2, <3>3, Zenon DEF InUnits, Stored, Wanted, strlen, Block, Inside
    <3>6. InMove' = InMove
      BY <3>1, Zenon DEF InMove, Stored, Wanted, strlen, Block, Inside
    <3>7. InCopy' = InCopy
      BY <3>1, Zenon DEF InCopy, Stored, Wanted, strlen, Block, Inside, EndsAt
    <3>8. InNCopy' = InNCopy
      BY <3>1, Zenon DEF InNCopy, Stored, Wanted, strlen, Block, Inside, EndsAt
    <3>9. InCompare' = InCompare
      BY <3>1, Zenon DEF InCompare, Same
    <3> QED
      BY <1>2, <3>1, <3>4, <3>5, <3>6, <3>7, <3>8, <3>9, Zenon DEF LInv
  <2>2. CASE CallBlock
    BY <2>2, CallBlockStep
  <2>3. CASE CallCopy
    BY <2>3, CallCopyStep
  <2>4. CASE CallCompare
    BY <2>4, CallCompareStep
  <2>5. CASE CallNumber
    BY <2>5, CallNumberStep
  <2>6. CASE memset \/ memcpy
    BY <1>2, <2>6, WordsStep DEF memset, memcpy
  <2>7. CASE memset_word \/ memset_dword
    BY <1>2, <2>7, UnitsStep
  <2>8. CASE memmove
    BY <1>2, <2>8, MoveStep
  <2>9. CASE strcpy
    BY <1>2, <2>9, CopyStep
  <2>10. CASE strncpy
    BY <1>2, <2>10, NCopyStep
  <2>11. CASE strncmp
    BY <1>2, <2>11, CompareStep
  <2>12. CASE itoa \/ strrev \/ puts
    BY <1>2, <2>12, NumberStep
  <2>13. CASE Return
    BY <2>13, Zenon DEF Return, LInv
  <2> QED
    BY <1>2, <2>1, <2>2, <2>3, <2>4, <2>5, <2>6, <2>7, <2>8, <2>9, <2>10, <2>11, <2>12, <2>13, Zenon DEF Next
<1> QED
  BY <1>1, <1>2, PTL DEF Spec

----------------------------------------------------------------------------
(* What a call that returns has stored, as one function.                   *)
LEMMA StoredIsMade ==
    ASSUME NEW n, Stored(0, n)
    PROVE  mem = [k \in Cell |-> IF k - call.dest \in 0 .. n - 1 THEN Wanted(k - call.dest) ELSE call.before[k]]
<1> DEFINE f == [k \in Cell |-> IF k - call.dest \in 0 .. n - 1 THEN Wanted(k - call.dest) ELSE call.before[k]]
<1>1. mem = [k \in Cell |-> mem[k]]
  BY Zenon DEF Stored
<1>2. \A k \in Cell : mem[k] = f[k]
  BY Zenon DEF Stored
<1>3. f = [k \in Cell |-> f[k]]
  BY Zenon
<1> HIDE DEF f
<1>4. mem = f
  BY <1>1, <1>2, <1>3, Zenon
<1> QED
  BY <1>4, Zenon DEF f

(* The loop invariant at the return of each function.                      *)
LEMMA AtReturn ==
    ASSUME LInv, pc = "ret"
    PROVE  /\ call.fn \in {"memset", "memcpy"} => InWords
           /\ call.fn = "memset_word" => InUnits(2)
           /\ call.fn = "memset_dword" => InUnits(4)
           /\ call.fn = "memmove" => InMove
           /\ call.fn = "strcpy" => InCopy
           /\ call.fn = "strncpy" => InNCopy
           /\ call.fn = "strncmp" => InCompare
  BY DEF LInv, Numbers

(* The block functions change exactly the block (lib.c:413-566): the word  *)
(* loops of memset and memcpy leave no gap and do not run over, memmove    *)
(* reads no byte it has stored over, for memory of any size.               *)
THEOREM BlocksAreExact == Spec => []BlockExact
<1>1. ASSUME LInv
      PROVE  BlockExact
  <2> SUFFICES ASSUME pc = "ret"
               PROVE  /\ call.fn \in {"memcpy", "memmove"} => Made(call.n, LAMBDA k : call.before[call.src + k])
                      /\ call.fn = "memset"       => Made(call.n, LAMBDA k : call.c)
                      /\ call.fn = "memset_word"  => Made(2 * call.n, LAMBDA k : call.c)
                      /\ call.fn = "memset_dword" => Made(4 * call.n, LAMBDA k : call.c)
    BY Zenon DEF BlockExact
  <2>1. call.fn \in {"memset", "memcpy"} => Stored(0, call.n)
    <3>1. SUFFICES ASSUME call.fn \in {"memset", "memcpy"}
                   PROVE  Stored(0, call.n)
      OBVIOUS
    <3>2. Left = 0
      BY Zenon DEF Left
    <3>3. call.n \in Nat /\ Stored(0, call.n - Left)
      BY <1>1, <3>1, AtReturn, Zenon DEF InWords, Block
    <3>4. call.n - Left = call.n
      BY <3>2, <3>3
    <3> QED
      BY <3>3, <3>4, Zenon
  <2>2. call.fn = "memmove" => Stored(0, call.n)
    BY <1>1, AtReturn, Zenon DEF InMove
  <2>3. call.fn = "memset_word" => Stored(0, 2 * call.n)
    BY <1>1, AtReturn, Zenon DEF InUnits
  <2>4. call.fn = "memset_dword" => Stored(0, 4 * call.n)
    BY <1>1, AtReturn, Zenon DEF InUnits
  <2>5. call.fn \in {"memcpy", "memmove"} => \A x : Wanted(x) = call.before[call.src + x]
    BY Zenon DEF Wanted
  <2>6. call.fn \in {"memset", "memset_word", "memset_dword"} => \A x : Wanted(x) = call.c
    BY DEF Wanted
  <2>7. ASSUME call.fn \in {"memcpy", "memmove"}
        PROVE  Made(call.n, LAMBDA k : call.before[call.src + k])
    BY <2>1, <2>2, <2>5, <2>7, StoredIsMade, Zenon DEF Made
  <2>8. ASSUME call.fn = "memset"
        PROVE  Made(call.n, LAMBDA k : call.c)
    BY <2>1, <2>6, <2>8, StoredIsMade, Zenon DEF Made
  <2>9. ASSUME call.fn = "memset_word"
        PROVE  Made(2 * call.n, LAMBDA k : call.c)
    BY <2>3, <2>6, <2>9, StoredIsMade, Zenon DEF Made
  <2>10. ASSUME call.fn = "memset_dword"
        PROVE  Made(4 * call.n, LAMBDA k : call.c)
    BY <2>4, <2>6, <2>10, StoredIsMade, Zenon DEF Made
  <2> QED
    BY <2>7, <2>8, <2>9, <2>10
<1> QED
  BY <1>1, LoopInvariants, PTL

(* strcpy and strncpy give the string and its padding, and strncmp decides *)
(* on the first difference before n and before the end (lib.c:580-621),    *)
(* for memory of any size.                                                 *)
THEOREM StringsAreExact == Spec => []StringExact
<1>1. ASSUME LInv
      PROVE  StringExact
  <2> DEFINE At(s, k) == call.before[s + k]
             apart == {k \in 0 .. call.n - 1 : At(call.dest, k) # At(call.src, k)
                                    /\ \A j \in 0 .. k - 1 : At(call.dest, j) # 0}
  <2> SUFFICES ASSUME pc = "ret"
               PROVE  /\ call.fn = "strcpy" => Made(call.n, LAMBDA k : call.before[call.src + k])
                      /\ call.fn = "strncpy" =>
                            Made(call.n, LAMBDA k : IF k < strlen(call.before, call.src)
                                                    THEN call.before[call.src + k] ELSE 0)
                      /\ call.fn = "strncmp" =>
                            eax = IF apart = {} THEN 0 ELSE At(call.dest, Min(apart)) - At(call.src, Min(apart))
    BY Zenon DEF StringExact
  <2>1. ASSUME call.fn = "strcpy"
        PROVE  Made(call.n, LAMBDA k : call.before[call.src + k])
    <3>1. Stored(0, call.n)
      BY <1>1, <2>1, AtReturn, Zenon DEF InCopy
    <3>2. \A x : Wanted(x) = call.before[call.src + x]
      BY <2>1, Zenon DEF Wanted
    <3> QED
      BY <3>1, <3>2, StoredIsMade, Zenon DEF Made
  <2>2. ASSUME call.fn = "strncpy"
        PROVE  Made(call.n, LAMBDA k : IF k < strlen(call.before, call.src) THEN call.before[call.src + k] ELSE 0)
    <3>1. Stored(0, call.n)
      BY <1>1, <2>2, AtReturn, Zenon DEF InNCopy
    <3>2. \A x : Wanted(x) = IF x < strlen(call.before, call.src) THEN call.before[call.src + x] ELSE 0
      BY <2>2 DEF Wanted
    <3> QED
      BY <3>1, <3>2, StoredIsMade, Zenon DEF Made
  <2>3. ASSUME call.fn = "strncmp"
        PROVE  eax = IF apart = {} THEN 0 ELSE At(call.dest, Min(apart)) - At(call.src, Min(apart))
    <3>1. /\ call.n \in Nat /\ ecx \in 0 .. call.n
          /\ \A j \in 0 .. ecx - 1 : Same(j) /\ At(call.dest, j) # 0
          /\ IF ecx < call.n
             THEN /\ ~Same(ecx) \/ At(call.dest, ecx) = 0
                  /\ eax = At(call.dest, ecx) - At(call.src, ecx)
             ELSE eax = 0
      BY <1>1, <2>3, AtReturn, Zenon DEF InCompare
    <3>2. PICK e \in Nat, n \in Nat : e = ecx /\ n = call.n /\ e <= n
      BY <3>1
    <3>3. \A j : Same(j) <=> At(call.dest, j) = At(call.src, j)
      BY Zenon DEF Same
    <3>4. \A j \in 0 .. e - 1 : Same(j) /\ At(call.dest, j) # 0
      BY <3>1, <3>2, Zenon
    <3>5. \A k \in apart : k \in 0 .. n - 1 /\ ~Same(k) /\ \A j \in 0 .. k - 1 : At(call.dest, j) # 0
      BY <3>2, <3>3, Zenon
    <3>6. ASSUME NEW k \in 0 .. n - 1, ~Same(k), \A j \in 0 .. k - 1 : At(call.dest, j) # 0
          PROVE  k \in apart
      BY <3>2, <3>3, <3>6, Zenon
    <3> HIDE DEF apart
    <3>7. ASSUME NEW k \in apart
          PROVE  e <= k /\ k \in Int /\ k < n
      <4>1. k \in 0 .. n - 1 /\ k \notin 0 .. e - 1
        BY <3>4, <3>5, Zenon
      <4> QED
        BY <4>1
    <3>8. CASE e < n /\ ~Same(e)
      <4>1. e \in 0 .. n - 1
        BY <3>8
      <4>2. e \in apart
        BY <3>4, <3>6, <3>8, <4>1, Zenon
      <4>3. apart \subseteq Int /\ \A k \in apart : e <= k
        BY <3>7
      <4>4. Min(apart) = e
        BY <4>2, <4>3, MinIs
      <4>5. eax = At(call.dest, e) - At(call.src, e)
        BY <3>1, <3>2, <3>8, Zenon
      <4> QED
        BY <4>2, <4>4, <4>5, Zenon
    <3>9. CASE e < n /\ Same(e)
      <4>1. At(call.dest, e) = 0 /\ At(call.src, e) = 0 /\ eax = At(call.dest, e) - At(call.src, e)
        BY <3>1, <3>2, <3>3, <3>9, Zenon
      <4>2. eax = 0 - 0
        BY <4>1, Zenon
      <4>3. eax = 0
        BY <4>2
      <4>4. ASSUME NEW k \in apart
            PROVE  FALSE
        <5>1. k # e
          BY <3>5, <3>9, Zenon
        <5>2. e \in 0 .. k - 1
          BY <3>7, <5>1
        <5> QED
          BY <3>5, <4>1, <5>2, Zenon
      <4>5. apart = {}
        BY <4>4, Zenon
      <4> QED
        BY <4>3, <4>5, Zenon
    <3>10. CASE ~(e < n)
      <4>1. eax = 0
        BY <3>1, <3>2, <3>10, Zenon
      <4>2. e = n
        BY <3>2, <3>10
      <4>3. ASSUME NEW k \in apart
            PROVE  FALSE
        BY <3>7, <4>2
      <4>4. apart = {}
        BY <4>3, Zenon
      <4> QED
        BY <4>1, <4>4, Zenon
    <3> QED
      BY <3>8, <3>9, <3>10
  <2> QED
    BY <2>1, <2>2, <2>3
<1> QED
  BY <1>1, LoopInvariants, PTL
=============================================================================
