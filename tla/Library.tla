------------------------------ MODULE Library ------------------------------
(***************************************************************************)
(* The memory, string and number functions of student-distrib/lib.c (and   *)
(* their twins in syscalls/ece391support.c), as the machine code and the C *)
(* loops they are: one step per store, or per string instruction.          *)
(*                                                                         *)
(* Memory is SIZE bytes; a byte is a number, 0 the end of a string.  Each  *)
(* call finds other contents, but the direction flag as the last left it.  *)
(***************************************************************************)
EXTENDS Integers, FiniteSetsExt

CONSTANTS
    SIZE,       \* bytes of memory
    WIDTH       \* bits of a number (32 in the code)

ASSUME LibAssumption == SIZE \in Nat \ {0} /\ WIDTH \in {4 * k : k \in 1 .. 8}

Cell == 0 .. SIZE - 1
Word == 0 .. 2 ^ WIDTH - 1
Digits == WIDTH \div 4      \* digits of a hexadecimal number (8)

VARIABLES
    mem,                    \* memory
    edi, esi, ecx, edx,     \* registers; ecx also counts the C loops (i)
    df,                     \* the direction flag: 1 for downwards
    pc,                     \* where the call is; "idle" outside
    call,                   \* its arguments, and the memory it found
    eax                     \* what strncmp returns; what printf hands to puts

regs == <<edi, esi, ecx, edx>>
vars == <<mem, regs, df, pc, call, eax>>

NoCall == [fn |-> "none", dest |-> 0, src |-> 0, n |-> 0, c |-> 0, before |-> [k \in Cell |-> 0]]

Init ==
    /\ mem = NoCall.before
    /\ edi = 0 /\ esi = 0 /\ ecx = 0 /\ edx = 0
    /\ df = 0
    /\ pc = "idle"
    /\ call = NoCall
    /\ eax = 0

(* All bytes differ, but for the ends of strings.                          *)
Filled(zeros) == [k \in Cell |-> IF k \in zeros THEN 0 ELSE k + 1]

Begin(c) ==
    /\ call' = c
    /\ mem' = c.before
    /\ edi' = c.dest /\ esi' = c.src /\ edx' = 0
    /\ UNCHANGED <<df, eax>>

(* Calls on blocks of memory that lie in memory.                           *)
Inside(from, n) == from + n <= SIZE

CallBlock ==
    /\ pc = "idle"
    /\ \E fn \in {"memset", "memset_word", "memset_dword", "memcpy", "memmove"}, d, s \in Cell, n \in 0 .. SIZE :
           LET unit == IF fn = "memset_word" THEN 2 ELSE IF fn = "memset_dword" THEN 4 ELSE 1
           IN  /\ Inside(d, unit * n) /\ Inside(s, n)
               /\ fn \in {"memset", "memset_word", "memset_dword"} => s = 0
               /\ fn = "memcpy" => d + n <= s \/ s + n <= d
               /\ Begin([NoCall EXCEPT !.fn = fn, !.dest = d, !.src = s, !.n = n, !.c = 100, !.before = Filled({})])
               /\ pc' = fn /\ ecx' = n

Return ==
    /\ pc = "ret"
    /\ pc' = "idle"
    /\ mem' = NoCall.before /\ call' = NoCall
    /\ edi' = 0 /\ esi' = 0 /\ ecx' = 0 /\ edx' = 0 /\ eax' = 0
    /\ UNCHANGED df

----------------------------------------------------------------------------
(* What is stored k bytes on from edi.                                     *)
Source(k) == IF call.fn = "memcpy" THEN mem[esi + k] ELSE call.c

(* n stores of unit bytes each, upwards or, with down = 1, downwards.      *)
Store(unit, n, down) ==
    /\ LET low == IF down = 1 THEN unit * (1 - n) ELSE 0
       IN  mem' = [k \in Cell |-> IF k - edi \in low .. low + unit * n - 1 THEN Source(k - edi) ELSE mem[k]]
    /\ edi' = edi + (1 - 2 * down) * unit * n
    /\ esi' = IF call.fn = "memcpy" THEN esi + (1 - 2 * down) * unit * n ELSE esi

(* Mutant: the bytes behind the last whole word are not kept.              *)
TailLost == 0

(* The bytes behind the last whole word, left for the bottom loop.         *)
TailBytes == ecx % 4

(* Bytes up to the first address that is a multiple of four; from there    *)
(* whole words, with the direction flag cleared; then the rest.            *)
ByWords(fn) ==
    /\ call.fn = fn
    /\ \/ /\ pc = fn /\ ecx > 0 /\ edi % 4 # 0
          /\ Store(1, 1, 0)
          /\ ecx' = ecx - 1
          /\ UNCHANGED <<edx, df, pc>>
       \/ /\ pc = fn /\ ecx > 0 /\ edi % 4 = 0
          /\ df' = 0
          /\ Store(4, ecx \div 4, df')
          /\ ecx' = 0 /\ edx' = TailBytes
          /\ pc' = "bottom"
       \/ /\ pc = "bottom" /\ edx > 0
          /\ Store(1, 1, 0)
          /\ edx' = edx - 1
          /\ UNCHANGED <<ecx, df, pc>>
       \/ /\ (pc = fn /\ ecx = 0) \/ (pc = "bottom" /\ edx = 0)
          /\ pc' = "ret"
          /\ UNCHANGED <<mem, regs, df>>
    /\ UNCHANGED <<call, eax>>

memset == ByWords("memset")
memcpy == ByWords("memcpy")

(* rep stosw, rep stosl.                                                   *)
StoreUnits(fn, unit) ==
    /\ pc = fn
    /\ df' = 0
    /\ Store(unit, ecx, df')
    /\ ecx' = 0
    /\ pc' = "ret"
    /\ UNCHANGED <<edx, call, eax>>

memset_word  == StoreUnits("memset_word", 2)
memset_dword == StoreUnits("memset_dword", 4)

(* Mutant: always upwards.                                                 *)
Upwards(d, s) == TRUE

(* memmove: upwards unless the source lies below; the flag stays set then. *)
Forward(d, s) == s >= d

memmove ==
    /\ \/ /\ pc = "memmove"
          /\ IF Forward(edi, esi) THEN df' = 0 /\ UNCHANGED <<edi, esi>>
             ELSE df' = 1 /\ esi' = esi + ecx - 1 /\ edi' = edi + ecx - 1
          /\ pc' = "movsb"
          /\ UNCHANGED <<mem, ecx>>
       \/ /\ pc = "movsb" /\ ecx > 0
          /\ mem' = [mem EXCEPT ![edi] = mem[esi]]
          /\ edi' = edi + (1 - 2 * df) /\ esi' = esi + (1 - 2 * df)
          /\ ecx' = ecx - 1
          /\ UNCHANGED <<df, pc>>
       \/ /\ pc = "movsb" /\ ecx = 0
          /\ pc' = "ret"
          /\ UNCHANGED <<mem, edi, esi, ecx, df>>
    /\ UNCHANGED <<edx, call, eax>>

----------------------------------------------------------------------------
(* The length of the string at address a in memory m.                      *)
strlen(m, a) == Min({k \in Cell : k >= a /\ m[k] = 0}) - a

(* strcpy and strncpy of a string that ends, to a place that does not lie  *)
(* inside it (grep moves a string down over itself).  strncmp of strings   *)
(* of up to three characters.  ecx is i.                                   *)
CallCopy ==
    /\ pc = "idle"
    /\ \E fn \in {"strcpy", "strncpy"}, d, s, z \in Cell, n \in 0 .. SIZE :
           /\ s <= z
           /\ IF fn = "strcpy" THEN n = z - s + 1 ELSE TRUE
           /\ Inside(d, n) /\ (d <= s \/ d > z)
           /\ Begin([NoCall EXCEPT !.fn = fn, !.dest = d, !.src = s, !.n = n, !.before = Filled({z})])
           /\ pc' = fn /\ ecx' = 0

CallCompare ==
    /\ pc = "idle"
    /\ \E s1, s2 \in [0 .. 2 -> 0 .. 2], n \in 0 .. 4 :
           /\ Begin([NoCall EXCEPT !.fn = "strncmp", !.dest = 0, !.src = 4, !.n = n,
                     !.before = [k \in Cell |-> IF k \in 0 .. 2 THEN s1[k] ELSE IF k \in 4 .. 6 THEN s2[k - 4] ELSE 0]])
           /\ pc' = "strncmp" /\ ecx' = 0

strcpy ==
    /\ pc = "strcpy"
    /\ mem' = [mem EXCEPT ![edi + ecx] = mem[esi + ecx]]
    /\ IF mem[esi + ecx] # 0 THEN ecx' = ecx + 1 /\ UNCHANGED pc
                             ELSE pc' = "ret" /\ UNCHANGED ecx
    /\ UNCHANGED <<edi, esi, edx, df, call, eax>>

(* Mutant: padding starts behind a terminator that is still to be written. *)
PadsLate == ecx + 1

(* The first byte strncpy clears: the one the source ended at.             *)
PadFrom == ecx

strncpy ==
    /\ \/ /\ pc = "strncpy" /\ mem[esi + ecx] # 0 /\ ecx < call.n
          /\ mem' = [mem EXCEPT ![edi + ecx] = mem[esi + ecx]]
          /\ ecx' = ecx + 1
          /\ UNCHANGED pc
       \/ /\ pc = "strncpy" /\ (mem[esi + ecx] = 0 \/ ecx >= call.n)
          /\ pc' = "pad" /\ ecx' = PadFrom
          /\ UNCHANGED mem
       \/ /\ pc = "pad" /\ ecx < call.n
          /\ mem' = [mem EXCEPT ![edi + ecx] = 0]
          /\ ecx' = ecx + 1
          /\ UNCHANGED pc
       \/ /\ pc = "pad" /\ ecx >= call.n
          /\ pc' = "ret"
          /\ UNCHANGED <<mem, ecx>>
    /\ UNCHANGED <<edi, esi, edx, df, call, eax>>

strncmp ==
    /\ pc = "strncmp"
    /\ LET a == mem[edi + ecx]  b == mem[esi + ecx]
           over == ecx >= call.n \/ a # b \/ a = 0
       IN  /\ pc' = IF over THEN "ret" ELSE pc
           /\ ecx' = IF over THEN ecx ELSE ecx + 1
           /\ eax' = IF over /\ ecx < call.n THEN a - b ELSE 0
    /\ UNCHANGED <<mem, edi, esi, edx, df, call>>

----------------------------------------------------------------------------
(* The number conversions of printf: the digit of value v is the byte      *)
(* Zero + v; conv_buf starts at address 0.                                 *)
Zero == 48
Minus == 45

Base(fn) == IF fn \in {"%x", "%#x"} THEN 16 ELSE 10
Negative(fn, v) == fn = "%d" /\ v >= 2 ^ (WIDTH - 1)

(* Mutant: %d converts the value as it is.                                 *)
Plain(fn, v) == v

(* What itoa is given: for %d the absolute value, in unsigned arithmetic.  *)
Magnitude(fn, v) == IF Negative(fn, v) THEN (-v) % 2 ^ WIDTH ELSE v

(* itoa(value, &conv_buf[...], radix): edi is buf, esi newbuf, ecx newval. *)
CallNumber ==
    /\ pc = "idle"
    /\ \E fn \in {"%x", "%#x", "%u", "%d"}, v \in Word :
           LET buf == IF fn = "%#x" THEN Digits ELSE IF Negative(fn, v) THEN 1 ELSE 0
           IN  /\ Begin([NoCall EXCEPT !.fn = fn, !.dest = buf, !.src = buf, !.n = v, !.c = Base(fn),
                         !.before = [Filled({}) EXCEPT ![0] = IF Negative(fn, v) THEN Minus ELSE @]])
               /\ pc' = "itoa" /\ ecx' = Magnitude(fn, v)

itoa ==
    /\ pc = "itoa"
    /\ \/ /\ ecx = 0 /\ esi = edi
          /\ mem' = [mem EXCEPT ![edi] = Zero, ![edi + 1] = 0]
          /\ pc' = "puts"
          /\ UNCHANGED <<esi, ecx>>
       \/ /\ ecx > 0
          /\ mem' = [mem EXCEPT ![esi] = Zero + (ecx % call.c)]
          /\ esi' = esi + 1
          /\ ecx' = ecx \div call.c
          /\ UNCHANGED pc
       \/ /\ ecx = 0 /\ esi > edi
          /\ mem' = [mem EXCEPT ![esi] = 0]
          /\ pc' = "strrev" /\ ecx' = strlen(mem', edi) - 1
          /\ UNCHANGED esi
    /\ UNCHANGED <<edi, edx, df, call, eax>>

(* beg is edx, end is ecx.                                                 *)
strrev ==
    /\ pc = "strrev"
    /\ IF edx < ecx
       THEN /\ mem' = [mem EXCEPT ![edi + ecx] = mem[edi + edx], ![edi + edx] = mem[edi + ecx]]
            /\ edx' = edx + 1 /\ ecx' = ecx - 1
            /\ UNCHANGED pc
       ELSE pc' = "puts" /\ UNCHANGED <<mem, ecx, edx>>
    /\ UNCHANGED <<edi, esi, df, call, eax>>

(* Mutant: the padding starts one place too far on.                        *)
PadsShort == strlen(mem, edi) + 1

(* Where %#x starts the string: as many places before the digits as are    *)
(* missing to a full word.                                                 *)
starting_index == strlen(mem, edi)

puts ==
    /\ pc = "puts"
    /\ IF call.fn = "%#x"
       THEN /\ mem' = [k \in Cell |-> IF k \in starting_index .. Digits - 1 THEN Zero ELSE mem[k]]
            /\ eax' = starting_index
       ELSE UNCHANGED mem /\ eax' = 0
    /\ pc' = "ret"
    /\ UNCHANGED <<regs, df, call>>

----------------------------------------------------------------------------
Next ==
    \/ CallBlock \/ CallCopy \/ CallCompare \/ CallNumber
    \/ memset \/ memcpy \/ memset_word \/ memset_dword \/ memmove
    \/ strcpy \/ strncpy \/ strncmp
    \/ itoa \/ strrev \/ puts
    \/ Return

Spec == Init /\ [][Next]_vars

(* What a call makes of the memory it found: n bytes at dest of byte(k).   *)
Made(n, byte(_)) ==
    mem = [k \in Cell |-> IF k - call.dest \in 0 .. n - 1 THEN byte(k - call.dest) ELSE call.before[k]]

(* memset, memset_word, memset_dword, memcpy and memmove change exactly    *)
(* the block, whatever its alignment, length and overlap, and after        *)
(* whatever call: the byte loops before and after the word loop neither    *)
(* miss a byte nor run over, and no call trusts the direction flag that    *)
(* memmove leaves behind (lib.c:413-566).                                  *)
BlockExact ==
    pc = "ret" =>
        /\ call.fn \in {"memcpy", "memmove"} => Made(call.n, LAMBDA k : call.before[call.src + k])
        /\ call.fn = "memset"       => Made(call.n, LAMBDA k : call.c)
        /\ call.fn = "memset_word"  => Made(2 * call.n, LAMBDA k : call.c)
        /\ call.fn = "memset_dword" => Made(4 * call.n, LAMBDA k : call.c)

(* strcpy gives the string and its terminator also where it moves one down *)
(* over itself; strncpy fills all n bytes, with no terminator only if the  *)
(* string has n characters or more; strncmp decides on the first           *)
(* difference before n and before the end (lib.c:580-621).                 *)
StringExact ==
    pc = "ret" =>
        /\ call.fn = "strcpy" => Made(call.n, LAMBDA k : call.before[call.src + k])
        /\ call.fn = "strncpy" =>
              Made(call.n, LAMBDA k : IF k < strlen(call.before, call.src) THEN call.before[call.src + k] ELSE 0)
        /\ call.fn = "strncmp" =>
              LET At(s, k) == call.before[s + k]
                  apart == {k \in 0 .. call.n - 1 : At(call.dest, k) # At(call.src, k)
                                    /\ \A j \in 0 .. k - 1 : At(call.dest, j) # 0}
              IN  eax = IF apart = {} THEN 0 ELSE At(call.dest, Min(apart)) - At(call.src, Min(apart))

(* What %x, %#x, %u and %d put on the screen reads back as the value, with *)
(* no zero in front, except that %#x shows all digits of a word; %d of the *)
(* least number, whose negation is itself, included (lib.c:181-233).       *)
NumberShown ==
    pc = "ret" /\ call.fn \in {"%x", "%#x", "%u", "%d"} =>
        LET len == strlen(mem, eax)
            neg == Negative(call.fn, call.n)
            first == IF neg THEN eax + 1 ELSE eax
            places == first .. eax + len - 1
            Worth(k) == (mem[k] - Zero) * call.c ^ (eax + len - 1 - k)
            value == MapThenSumSet(Worth, places)
        IN  /\ value = IF neg THEN 2 ^ WIDTH - call.n ELSE call.n
            /\ neg <=> mem[eax] = Minus
            /\ \A k \in places : mem[k] - Zero \in 0 .. call.c - 1
            /\ IF call.fn = "%#x" THEN len = Digits
               ELSE mem[first] = Zero => len = 1

----------------------------------------------------------------------------
(* The loop invariants behind BlockExact and StringExact.                  *)

(* Where the calls that a number conversion makes are.                     *)
Numbers == {"%x", "%#x", "%u", "%d"}

(* The k-th byte a call stores.                                            *)
Wanted(k) == IF call.fn \in {"memcpy", "memmove", "strcpy"} THEN call.before[call.src + k]
             ELSE IF call.fn = "strncpy"
             THEN IF k < strlen(call.before, call.src) THEN call.before[call.src + k] ELSE 0
             ELSE call.c

(* Of the bytes at dest, those from .. to - 1 have been stored.            *)
Stored(from, to) ==
    /\ mem \in [Cell -> Int]
    /\ \A k \in Cell :
          mem[k] = IF k - call.dest \in from .. to - 1 THEN Wanted(k - call.dest) ELSE call.before[k]

(* The arguments of a call.                                                *)
Block(unit) ==
    /\ call.before \in [Cell -> Int]
    /\ call.dest \in Cell /\ call.src \in Cell /\ call.n \in Nat /\ call.c \in Int
    /\ Inside(call.dest, unit * call.n)

(* What is left to store: in ecx, behind the word loop in edx.             *)
Left == IF pc = "ret" THEN 0 ELSE IF pc = "bottom" THEN edx ELSE ecx

InWords ==
    /\ Block(1)
    /\ call.fn = "memcpy" =>
          /\ Inside(call.src, call.n)
          /\ call.dest + call.n <= call.src \/ call.src + call.n <= call.dest
    /\ pc \in {call.fn, "bottom", "ret"}
    /\ Left \in 0 .. call.n
    /\ Stored(0, call.n - Left)
    /\ pc # "ret" => edi = call.dest + call.n - Left
    /\ pc # "ret" /\ call.fn = "memcpy" => esi = call.src + call.n - Left

InUnits(unit) ==
    /\ Block(unit)
    /\ pc \in {call.fn, "ret"}
    /\ pc = call.fn => edi = call.dest /\ ecx = call.n /\ Stored(0, 0)
    /\ pc = "ret" => Stored(0, unit * call.n)

(* Upwards the bytes still to move lie at and behind esi, downwards at and *)
(* before it, out of reach of the ones already stored.                     *)
InMove ==
    /\ Block(1) /\ Inside(call.src, call.n)
    /\ pc \in {"memmove", "movsb", "ret"}
    /\ pc = "memmove" => edi = call.dest /\ esi = call.src /\ ecx = call.n /\ Stored(0, 0)
    /\ pc = "movsb" =>
          /\ ecx \in 0 .. call.n
          /\ \/ /\ df = 0 /\ call.src >= call.dest
                /\ edi = call.dest + call.n - ecx /\ esi = call.src + call.n - ecx
                /\ Stored(0, call.n - ecx)
             \/ /\ df = 1 /\ call.src < call.dest
                /\ edi = call.dest + ecx - 1 /\ esi = call.src + ecx - 1
                /\ Stored(ecx, call.n)
    /\ pc = "ret" => Stored(0, call.n)

(* The source is a string that ends at z, and the place for the copy does  *)
(* not start inside it.                                                    *)
EndsAt(z) ==
    /\ z \in Cell /\ call.src <= z /\ call.before[z] = 0
    /\ \A k \in call.src .. z - 1 : call.before[k] # 0
    /\ call.dest <= call.src \/ call.dest > z

InCopy ==
    /\ Block(1)
    /\ pc \in {"strcpy", "ret"}
    /\ pc = "strcpy" => edi = call.dest /\ esi = call.src
    /\ \E z \in Cell :
          /\ EndsAt(z) /\ call.n = z - call.src + 1
          /\ pc = "strcpy" => ecx \in 0 .. z - call.src /\ Stored(0, ecx)
    /\ pc = "ret" => Stored(0, call.n)

InNCopy ==
    /\ Block(1)
    /\ pc \in {"strncpy", "pad", "ret"}
    /\ pc # "ret" => edi = call.dest /\ esi = call.src /\ ecx \in 0 .. call.n /\ Stored(0, ecx)
    /\ \E z \in Cell :
          /\ EndsAt(z)
          /\ pc = "strncpy" => ecx <= z - call.src
          /\ pc = "pad" => ecx = call.n \/ ecx >= z - call.src
    /\ pc = "ret" => Stored(0, call.n)

(* Up to ecx the strings are the same and have not ended.                  *)
Same(k) == call.before[call.dest + k] = call.before[call.src + k]

InCompare ==
    /\ call.n \in Nat /\ call.dest \in Int /\ call.src \in Int /\ ecx \in 0 .. call.n
    /\ call.before \in [Cell -> Int]
    /\ \A j \in 0 .. ecx - 1 : Same(j) /\ call.before[call.dest + j] # 0
    /\ pc \in {"strncmp", "ret"}
    /\ pc = "strncmp" => mem = call.before /\ edi = call.dest /\ esi = call.src
    /\ pc = "ret" =>
          IF ecx < call.n
          THEN /\ ~Same(ecx) \/ call.before[call.dest + ecx] = 0
               /\ eax = call.before[call.dest + ecx] - call.before[call.src + ecx]
          ELSE eax = 0

LInv ==
    \/ pc = "idle"
    \/ call.fn \in {"memset", "memcpy"} /\ InWords
    \/ call.fn = "memset_word" /\ InUnits(2)
    \/ call.fn = "memset_dword" /\ InUnits(4)
    \/ call.fn = "memmove" /\ InMove
    \/ call.fn = "strcpy" /\ InCopy
    \/ call.fn = "strncpy" /\ InNCopy
    \/ call.fn = "strncmp" /\ InCompare
    \/ call.fn \in Numbers /\ pc \in {"itoa", "strrev", "puts", "ret"}
============================================================================
