----------------------------- MODULE RtcProofs -----------------------------
(***************************************************************************)
(* Proofs about the RTC driver, for any valid frequencies and any number   *)
(* of suspended readers, and about the list of blinking characters that    *)
(* fish works through after every read of the RTC, for any length of it.   *)
(***************************************************************************)
EXTENDS Rtc, Blink, SequenceTheorems, FiniteSetTheorems, WellFoundedInduction, TLAPS

(* A power of two has a rate of four bits.                                 *)
LEMMA RateOfPower ==
    ASSUME NEW freq \in Powers
    PROVE  set_freq_rtc(freq) \in 6 .. 15
  BY DEF set_freq_rtc, Powers

(* The driver's state after init_rtc satisfies the invariant.              *)
LEMMA InitInv == Init => Inv
  <1> SUFFICES ASSUME Init PROVE Inv
    OBVIOUS
  <1> USE DEF Init
  <1>1. TypeOK
    <2>1. below \in Seq(Suspended)
      BY EmptySeq
    <2>2. regA \in [hi : 0 .. 15, rate : 0 .. 15] /\ wanted = regA
      OBVIOUS
    <2>3. pc \in Place /\ index \in {"A", "B", "C"} /\ ticked \in BOOLEAN
      BY DEF Place
    <2>4. /\ raised \in {0, 1} /\ interrupt_rtc \in {0, 1} /\ intr \in {0, 1}
          /\ prev_ \in 0 .. 15 /\ val_freq \in -1 .. 15
      OBVIOUS
    <2> HIDE DEF Init
    <2> QED
      BY <2>1, <2>2, <2>3, <2>4 DEF TypeOK
  <1>2. RateSet /\ ReadIsFresh /\ AccessAtomic /\ FlagIsFresh
    BY DEF RateSet, ReadIsFresh, AccessAtomic, FlagIsFresh, Writing
  <1> QED
    BY <1>1, <1>2 DEF Inv

(* Every step of the driver, the chip, the handler and the Alt+Fn keys     *)
(* preserves the invariant.                                                *)
LEMMA NextInv ==
    ASSUME Freqs \subseteq Powers, Inv, [Next]_vars
    PROVE  Inv'
  <1> USE DEF Inv, TypeOK, RateSet, ReadIsFresh, AccessAtomic, FlagIsFresh, Writing, Place
  <1>1. ASSUME NEW freq \in Freqs, Call(freq) PROVE Inv'
    <2>1. freq \in Powers /\ set_freq_rtc(freq) \in 6 .. 15
      BY RateOfPower
    <2> QED
      BY <1>1, <2>1 DEF Call, SyscallIF, devVars
  <1>2. CASE SelectToRead
    BY <1>2 DEF SelectToRead, Select, callVars
  <1>3. CASE Load
    BY <1>3 DEF Load, devVars
  <1>4. CASE SelectToWrite
    BY <1>4 DEF SelectToWrite, Select, callVars
  <1>5. CASE Store
    BY <1>5 DEF Store, Byte
  <1>6. CASE Read
    BY <1>6 DEF Read, devVars, callVars
  <1>7. CASE LowerFlag
    BY <1>7 DEF LowerFlag, devVars, callVars
  <1>8. CASE SeeFlag
    BY <1>8 DEF SeeFlag, devVars, callVars
  <1>9. CASE ReturnRead
    BY <1>9 DEF ReturnRead, devVars, callVars
  <1>10. CASE Tick
    BY <1>10 DEF Tick, callVars
  <1>11. CASE rtc_handler
    <2>1. /\ below' \in Seq(Suspended)
          /\ Len(below') = Len(below)
          /\ \A k \in 1 .. Len(below) : below'[k].pc = below[k].pc /\ below'[k].ticked = TRUE
      BY <1>11 DEF rtc_handler, Suspended
    <2> QED
      BY <1>11, <2>1 DEF rtc_handler, callVars
  <1>12. CASE Suspend
    <2> DEFINE me == [pc |-> pc, ticked |-> ticked]
    <2>1. below' = Append(below, me) /\ me \in Suspended
      BY <1>12 DEF Suspend, Suspended
    <2>2. /\ below' \in Seq(Suspended)
          /\ Len(below') = Len(below) + 1
          /\ below'[Len(below) + 1] = me
          /\ \A k \in 1 .. Len(below) : below'[k] = below[k]
      BY <2>1, AppendProperties
    <2>3. pc \in {"user", "lower", "wait"}
      BY <1>12 DEF Suspend
    <2> HIDE DEF me
    <2>4. me.pc = pc /\ me.ticked = ticked
      BY DEF me
    <2>5. FlagIsFresh'
      BY <1>12, <2>2, <2>3, <2>4 DEF Suspend
    <2> QED
      BY <1>12, <2>2, <2>3, <2>5 DEF Suspend, devVars, callVars
  <1>13. CASE Resume
    <2>1. Len(below) \in Nat \ {0}
      BY <1>13, EmptySeq DEF Resume
    <2> DEFINE n == Len(below) - 1
    <2>2. n \in Nat /\ below' = SubSeq(below, 1, n) /\ n + 1 = Len(below)
      BY <1>13, <2>1 DEF Resume
    <2>3. /\ below' \in Seq(Suspended)
          /\ Len(below') = n
          /\ \A k \in 1 .. n : below'[k] = below[k]
      BY <2>1, <2>2, SubSeqProperties
    <2>4. below[Len(below)] \in Suspended
      BY <2>1, ElementOfSeq
    <2>5. below[Len(below)].pc \in Place /\ below[Len(below)].ticked \in BOOLEAN
      BY <2>4 DEF Suspended
    <2>6. FlagIsFresh'
      BY <1>13, <2>1, <2>2, <2>3 DEF Resume
    <2> QED
      BY <1>13, <2>1, <2>3, <2>5, <2>6 DEF Resume, devVars, callVars
  <1>14. CASE UNCHANGED vars
    BY <1>14 DEF vars
  <1> QED
    BY <1>1, <1>2, <1>3, <1>4, <1>5, <1>6, <1>7, <1>8, <1>9, <1>10, <1>11, <1>12, <1>13, <1>14
    DEF Next

(* The inductive invariant holds throughout.                               *)
THEOREM RtcInvariant ==
    ASSUME Freqs \subseteq Powers
    PROVE  Spec => []Inv
  <1>1. Init => Inv
    BY InitInv
  <1>2. Inv /\ [Next]_vars => Inv'
    BY NextInv
  <1> QED
    BY <1>1, <1>2, PTL DEF Spec

(* open_rtc and write_rtc program the rate asked for and leave the upper   *)
(* half of register A alone, however their port accesses are interleaved   *)
(* with rtc_handler, which moves the index port.                           *)
THEOREM RateProgrammed ==
    ASSUME Freqs \subseteq Powers
    PROVE  Spec => []RateSet
  <1>1. Inv => RateSet
    BY DEF Inv
  <1> QED
    BY <1>1, RtcInvariant, PTL

(* read_rtc returns only after an interrupt that came since it was called, *)
(* however many readers share interrupt_rtc.                               *)
THEOREM ReadsFresh ==
    ASSUME Freqs \subseteq Powers
    PROVE  Spec => []ReadIsFresh
  <1>1. Inv => ReadIsFresh
    BY DEF Inv
  <1> QED
    BY <1>1, RtcInvariant, PTL

----------------------------------------------------------------------------
(* The list of blinking characters.                                        *)

(* A set of natural numbers that is not empty has a least one.             *)
LEMMA Least ==
    ASSUME NEW T, T \subseteq Nat, NEW n \in T
    PROVE  \E x \in T : \A y \in T : x <= y
<1> DEFINE R == {ss \in Nat \X Nat : ss[1] < ss[2]}
<1>1. IsWellFoundedOn(R, Nat)
  BY NatLessThanWellFounded, Zenon DEF OpToRel
<1>2. \A x, y \in Nat : y < x => <<y, x>> \in R
  OBVIOUS
<1> HIDE DEF R
<1>3. PICK x \in T : \A y \in T : ~(<<y, x>> \in R)
  BY <1>1, WFMin, Zenon
<1>4. \A y \in T : ~(y < x)
  BY <1>2, <1>3
<1> QED
  BY <1>4

LEMMA BlinkSizes == Size \in Nat /\ Size > 0 /\ Node = 1 .. Size /\ NULL = 0 /\ NULL \notin Node
<1>1. Size \in Nat \ {0}
  BY BlinkAssumption, Zenon
<1> QED
  BY <1>1 DEF Node, NULL

(* Following the next pointers of a list gives its elements, then NULL.    *)
LEMMA ChainOf ==
    ASSUME NEW len \in 0 .. Size, NEW q \in [1 .. len -> Node], IsList(len, q)
    PROVE  Chain = [k \in 1 .. Size + 1 |-> IF k <= len THEN q[k] ELSE NULL]
<1> DEFINE Follows(f, k) == IF k = 1 THEN mp1_list_head
                            ELSE IF f[k - 1] = NULL THEN NULL ELSE blink_array[f[k - 1]].next
           Rec(f) == f = [k \in 1 .. Size + 1 |-> Follows(f, k)]
           C == [k \in 1 .. Size + 1 |-> IF k <= len THEN q[k] ELSE NULL]
<1>1. ASSUME NEW k \in 1 .. Size + 1
      PROVE  C[k] = Follows(C, k)
  <2>1. Size \in Nat /\ len \in Nat /\ k \in Nat /\ len <= Size
    BY BlinkSizes
  <2>2. CASE k = 1
    <3>1. mp1_list_head = IF len = 0 THEN NULL ELSE q[1]
      BY Zenon DEF IsList
    <3>2. 1 <= len <=> len # 0
      BY <2>1
    <3>3. C[k] = IF k <= len THEN q[k] ELSE NULL
      BY Zenon
    <3> QED
      BY <2>2, <3>1, <3>2, <3>3, Zenon
  <2>3. CASE k # 1
    <3>1. PICK j \in 1 .. Size : j = k - 1 /\ k = j + 1 /\ j \in 1 .. Size + 1
      BY <2>1, <2>3
    <3>2. C[j] = (IF j <= len THEN q[j] ELSE NULL) /\ C[k] = (IF k <= len THEN q[k] ELSE NULL)
      BY <3>1, Zenon
    <3>3. CASE j <= len
      <4>1. j \in 1 .. len /\ (j = len <=> ~(k <= len))
        BY <2>1, <3>1, <3>3
      <4>2. q[j] # NULL
        BY <4>1, BlinkSizes
      <4>3. blink_array[q[j]].next = IF j = len THEN NULL ELSE q[j + 1]
        BY <4>1, Zenon DEF IsList
      <4> QED
        BY <2>3, <3>1, <3>2, <3>3, <4>1, <4>2, <4>3, Zenon
    <3>4. CASE ~(j <= len)
      <4>1. ~(k <= len)
        BY <2>1, <3>1, <3>4
      <4> QED
        BY <2>3, <3>1, <3>2, <3>4, <4>1, Zenon
    <3> QED
      BY <3>3, <3>4
  <2> QED
    BY <2>2, <2>3
<1>2. Rec(C)
  BY <1>1, Zenon
<1>3. Chain = CHOOSE f : Rec(f)
  BY Zenon DEF Chain
<1> HIDE DEF C
<1>4. Rec(Chain)
  BY <1>2, <1>3, Zenon
<1>5. \A k \in 1 .. Size + 1 : Chain[k] = Follows(Chain, k) /\ C[k] = Follows(C, k)
  BY <1>2, <1>4, Zenon
<1> DEFINE T == {k \in 1 .. Size + 1 : Chain[k] # C[k]}
<1>6. T = {}
  <2> SUFFICES ASSUME T # {} PROVE FALSE
    OBVIOUS
  <2>1. T \subseteq Nat
    BY BlinkSizes
  <2>2. PICK x \in T : \A y \in T : x <= y
    BY <2>1, Least
  <2>3. x \in 1 .. Size + 1 /\ x # 1
    BY <1>5, Zenon
  <2>4. PICK j \in 1 .. Size + 1 : j = x - 1 /\ j < x
    BY <2>3, BlinkSizes
  <2>5. j \notin T
    BY <2>2, <2>3, <2>4, BlinkSizes
  <2>6. Chain[j] = C[j]
    BY <2>5, Zenon
  <2>7. Follows(Chain, x) = Follows(C, x)
    BY <2>4, <2>6, Zenon
  <2> QED
    BY <1>5, <2>3, <2>7, Zenon
<1>7. Chain = [k \in 1 .. Size + 1 |-> Chain[k]] /\ C = [k \in 1 .. Size + 1 |-> C[k]]
  BY <1>2, <1>4, Zenon
<1>8. Chain = C
  BY <1>6, <1>7, Zenon
<1> QED
  BY <1>8, Zenon DEF C

(* What a list is to the operators that follow its pointers.               *)
Listed ==
    \A len \in 0 .. Size : \A q \in [1 .. len -> Node] : IsList(len, q) =>
        /\ Ends
        /\ OnList = Used
        /\ \A k \in 1 .. len : At(q[k]) = k

LEMMA ListedNow == Listed
<1> SUFFICES ASSUME NEW len \in 0 .. Size, NEW q \in [1 .. len -> Node], IsList(len, q)
             PROVE  Ends /\ OnList = Used /\ \A k \in 1 .. len : At(q[k]) = k
  BY Zenon DEF Listed
<1>1. Chain = [k \in 1 .. Size + 1 |-> IF k <= len THEN q[k] ELSE NULL]
  BY ChainOf
<1>2. Size \in Nat /\ len \in Nat /\ len <= Size /\ Size + 1 \in 1 .. Size + 1 /\ ~(Size + 1 <= len)
  BY BlinkSizes
<1>3. \A k \in 1 .. Size : k \in 1 .. Size + 1
  BY <1>2
<1>4. \A k \in 1 .. len : k \in 1 .. Size /\ k <= len
  BY <1>2
<1>5. \A k \in 1 .. Size : k <= len => k \in 1 .. len
  BY <1>2
<1>6. Ends
  BY <1>1, <1>2, Zenon DEF Ends
<1>7. \A k \in 1 .. len : Chain[k] = q[k] /\ q[k] \in Node
  BY <1>1, <1>3, <1>4, Zenon
<1>8. \A k \in 1 .. Size : k \notin 1 .. len => Chain[k] = NULL
  BY <1>1, <1>3, <1>5, Zenon
<1>9. \A i : i \in OnList <=> \E k \in 1 .. len : q[k] = i
  <2>1. ASSUME NEW i, i \in OnList
        PROVE  \E k \in 1 .. len : q[k] = i
    BY <1>7, <1>8, <2>1, Zenon DEF OnList
  <2>2. ASSUME NEW k \in 1 .. len
        PROVE  q[k] \in OnList
    BY <1>4, <1>7, BlinkSizes, Zenon DEF OnList
  <2> QED
    BY <2>1, <2>2
<1>10. \A i : i \in Used <=> \E k \in 1 .. len : q[k] = i
  BY Zenon DEF IsList
<1>11. OnList = Used
  BY <1>9, <1>10, Zenon
<1>12. ASSUME NEW k \in 1 .. len
       PROVE  At(q[k]) = k
  <2>1. k \in 1 .. Size /\ Chain[k] = q[k]
    BY <1>4, <1>7
  <2>2. ASSUME NEW j \in 1 .. Size, Chain[j] = q[k]
        PROVE  j = k
    <3>1. j \in 1 .. len
      BY <1>7, <1>8, <2>2, BlinkSizes, Zenon
    <3>2. q[j] = q[k]
      BY <1>7, <2>2, <3>1, Zenon
    <3> QED
      BY <3>1, <3>2, Zenon DEF IsList
  <2> QED
    BY <2>1, <2>2, Zenon DEF At
<1> QED
  BY <1>6, <1>11, <1>12

LEMMA ListedNext == Listed'
  BY ListedNow, PTL

(* The elements of the list are the used entries, and a location is found  *)
(* at one element only, the first.                                         *)
LEMMA OnListIsUsed ==
    ASSUME Lined
    PROVE  Ends /\ OnList = Used
<1>1. PICK len \in 0 .. Size : \E q \in [1 .. len -> Node] : IsList(len, q)
  BY Zenon DEF Lined
<1> QED
  BY <1>1, ListedNow, Zenon DEF Listed

LEMMA FoundOnce ==
    ASSUME Lined, NEW i, NEW j, NEW l, IsFound(i, l), IsFound(j, l)
    PROVE  i = j
<1>1. PICK len \in 0 .. Size : \E q \in [1 .. len -> Node] : IsList(len, q)
  BY Zenon DEF Lined
<1>2. PICK q \in [1 .. len -> Node] : IsList(len, q)
  BY <1>1
<1>3. OnList = Used /\ \A k \in 1 .. len : At(q[k]) = k
  BY <1>2, ListedNow, Zenon DEF Listed
<1>4. PICK a \in 1 .. len : q[a] = i
  BY <1>2, <1>3, Zenon DEF IsList, IsFound
<1>5. PICK b \in 1 .. len : q[b] = j
  BY <1>2, <1>3, Zenon DEF IsList, IsFound
<1>6. At(i) = a /\ At(j) = b
  BY <1>3, <1>4, <1>5, Zenon
<1>7. At(i) <= At(j) /\ At(j) <= At(i)
  BY Zenon DEF IsFound
<1>8. a = b
  BY <1>6, <1>7
<1> QED
  BY <1>4, <1>5, <1>8

(* A step that leaves pointers and locations alone leaves the list alone,  *)
(* and what is found on it.                                                *)
LEMMA SameList ==
    ASSUME Lined, mp1_list_head' = mp1_list_head,
           \A i \in Node : /\ blink_array'[i].next = blink_array[i].next
                           /\ blink_array'[i].location = blink_array[i].location
    PROVE  Lined' /\ Used' = Used /\ OnList' = Used /\ \A i, l : IsFound(i, l)' <=> IsFound(i, l)
<1>1. PICK len \in 0 .. Size : \E q \in [1 .. len -> Node] : IsList(len, q)
  BY Zenon DEF Lined
<1>2. PICK q \in [1 .. len -> Node] : IsList(len, q)
  BY <1>1
<1>3. Used' = Used
  BY Zenon DEF Used
<1>4. \A k \in 1 .. len : q[k] \in Node
  BY Zenon
<1>5. IsList(len, q)'
  BY <1>2, <1>3, <1>4, Zenon DEF IsList
<1>6. Lined'
  BY <1>5, Zenon DEF Lined
<1>7. OnList = Used /\ \A k \in 1 .. len : At(q[k]) = k
  BY <1>2, ListedNow, Zenon DEF Listed
<1>8. OnList' = Used' /\ \A k \in 1 .. len : At(q[k])' = k
  BY <1>5, ListedNext, Zenon DEF Listed
<1>9. \A i \in Used : At(i)' = At(i)
  <2> SUFFICES ASSUME NEW i \in Used
               PROVE  At(i)' = At(i)
    OBVIOUS
  <2>1. PICK k \in 1 .. len : q[k] = i
    BY <1>2, Zenon DEF IsList
  <2> QED
    BY <1>7, <1>8, <2>1, Zenon
<1>10. \A i \in Used : i \in Node
  BY Zenon DEF Used
<1>11. ASSUME NEW i, NEW l
       PROVE  IsFound(i, l)' <=> IsFound(i, l)
  BY <1>3, <1>7, <1>8, <1>9, <1>10, Zenon DEF IsFound
<1> QED
  BY <1>3, <1>6, <1>8, <1>11, Zenon

(* What the tasklet makes of an element.                                   *)
LEMMA TickedFacts ==
    ASSUME NEW b \in Struct
    PROVE  /\ Ticked(b) \in Struct
           /\ Ticked(b).location = b.location /\ Ticked(b).next = b.next
           /\ Ticked(b).on_length = b.on_length /\ Ticked(b).off_length = b.off_length
           /\ Ticked(b).countdown = IF ~Changes(b) THEN Lower(b.countdown)
                                    ELSE IF b.status = 1 THEN b.off_length ELSE b.on_length
           /\ Ticked(b).status = IF ~Changes(b) THEN b.status ELSE 1 - b.status
<1>1. /\ b.countdown \in Short /\ b.status \in {0, 1} /\ b.on_length \in Short /\ b.off_length \in Short
      /\ b.location \in 0 .. Limit - 1 /\ b.next \in Node \cup {NULL}
  BY DEF Struct
<1>2. Lower(b.countdown) \in Short
  <2>1. Shorts \in Nat /\ Shorts > 0
    BY DEF Shorts
  <2>2. PICK c \in Int : c = b.countdown
    BY <1>1, <2>1 DEF Short
  <2>3. (c - 1) % Shorts \in 0 .. Shorts - 1
    BY <2>1
  <2> QED
    BY <2>2, <2>3 DEF Lower, Short
<1>3. CASE ~Changes(b)
  <2>1. Ticked(b) = [b EXCEPT !.countdown = Lower(b.countdown)]
    BY <1>3, Zenon DEF Ticked, Changes
  <2> QED
    BY <1>1, <1>2, <1>3, <2>1 DEF Struct
<1>4. CASE Changes(b) /\ b.status = 1
  <2> DEFINE c == [b EXCEPT !.countdown = b.off_length]
  <2>1. Ticked(b) = [c EXCEPT !.status = 0]
    BY <1>4, Zenon DEF Ticked, Changes
  <2>2. /\ c \in Struct /\ c.location = b.location /\ c.next = b.next
        /\ c.on_length = b.on_length /\ c.off_length = b.off_length /\ c.countdown = b.off_length
    BY <1>1 DEF Struct
  <2> HIDE DEF c
  <2>3. /\ [c EXCEPT !.status = 0] \in Struct
        /\ \A r : r = [c EXCEPT !.status = 0] =>
              /\ r.location = c.location /\ r.next = c.next /\ r.on_length = c.on_length
              /\ r.off_length = c.off_length /\ r.countdown = c.countdown /\ r.status = 0
    BY <2>2 DEF Struct
  <2>4. 1 - b.status = 0
    BY <1>4
  <2> QED
    BY <1>4, <2>1, <2>2, <2>3, <2>4, Zenon
<1>5. CASE Changes(b) /\ b.status # 1
  <2> DEFINE c == [b EXCEPT !.countdown = b.on_length]
  <2>1. Ticked(b) = [c EXCEPT !.status = 1]
    BY <1>5, Zenon DEF Ticked, Changes
  <2>2. /\ c \in Struct /\ c.location = b.location /\ c.next = b.next
        /\ c.on_length = b.on_length /\ c.off_length = b.off_length /\ c.countdown = b.on_length
    BY <1>1 DEF Struct
  <2> HIDE DEF c
  <2>3. /\ [c EXCEPT !.status = 1] \in Struct
        /\ \A r : r = [c EXCEPT !.status = 1] =>
              /\ r.location = c.location /\ r.next = c.next /\ r.on_length = c.on_length
              /\ r.off_length = c.off_length /\ r.countdown = c.countdown /\ r.status = 1
    BY <2>2 DEF Struct
  <2>4. 1 - b.status = 1
    BY <1>1, <1>5
  <2> QED
    BY <1>5, <2>1, <2>2, <2>3, <2>4, Zenon
<1> QED
  BY <1>3, <1>4, <1>5

(* What mp1_ioctl_sync makes of the second element.                        *)
LEMMA SyncedFacts ==
    ASSUME BlinkTypeOK, NEW i \in Node, NEW j \in Node
    PROVE  /\ Synced(i, j) \in [Node -> Struct]
           /\ \A k \in Node : k # j => Synced(i, j)[k] = blink_array[k]
           /\ Synced(i, j)[j].location = blink_array[j].location
           /\ Synced(i, j)[j].next = blink_array[j].next
           /\ Alike(blink_array[i], Synced(i, j)[j])
<1>1. PICK a \in Struct, b \in Struct : a = blink_array[i] /\ b = blink_array[j]
  BY DEF BlinkTypeOK
<1>2. /\ a.countdown \in Short /\ a.status \in {0, 1} /\ a.on_length \in Short /\ a.off_length \in Short
  BY DEF Struct
<1> DEFINE b1 == [b EXCEPT !.on_length = a.on_length]
<1>3. b1 \in Struct /\ b1.location = b.location /\ b1.next = b.next /\ b1.on_length = a.on_length
  BY <1>2 DEF Struct
<1> HIDE DEF b1
<1> DEFINE b2 == [b1 EXCEPT !.off_length = a.off_length]
<1>4. /\ b2 \in Struct /\ b2.location = b.location /\ b2.next = b.next /\ b2.on_length = a.on_length
      /\ b2.off_length = a.off_length
  BY <1>2, <1>3 DEF Struct
<1> HIDE DEF b2
<1> DEFINE b3 == [b2 EXCEPT !.countdown = a.countdown]
<1>5. /\ b3 \in Struct /\ b3.location = b.location /\ b3.next = b.next /\ b3.on_length = a.on_length
      /\ b3.off_length = a.off_length /\ b3.countdown = a.countdown
  BY <1>2, <1>4 DEF Struct
<1> HIDE DEF b3
<1> DEFINE b4 == [b3 EXCEPT !.status = a.status]
<1>6. /\ b4 \in Struct /\ b4.location = b.location /\ b4.next = b.next /\ b4.on_length = a.on_length
      /\ b4.off_length = a.off_length /\ b4.countdown = a.countdown /\ b4.status = a.status
  BY <1>2, <1>5 DEF Struct
<1>7. Synced(i, j) = [blink_array EXCEPT ![j] = b4]
  BY <1>1, Zenon DEF Synced, b1, b2, b3
<1> HIDE DEF b4
<1>8. blink_array \in [Node -> Struct]
  BY DEF BlinkTypeOK
<1>9. /\ Synced(i, j) \in [Node -> Struct] /\ Synced(i, j)[j] = b4
      /\ \A k \in Node : k # j => Synced(i, j)[k] = blink_array[k]
  BY <1>6, <1>7, <1>8, Zenon
<1> QED
  BY <1>1, <1>6, <1>9, Zenon DEF Alike

(* An entry that is not used is no element.                                *)
LEMMA ZeroIsStruct == Zero \in Struct /\ Zero.location = 0 /\ Zero.status = 0
<1>1. Limit \in Nat \ {0} /\ Shorts \in Nat /\ Shorts > 0
  BY BlinkAssumption DEF Shorts
<1>2. 0 \in 0 .. Limit - 1 /\ 0 \in Short
  BY <1>1 DEF Short
<1> QED
  BY <1>2 DEF Zero, Struct

LEMMA BlinkInitInv == BlinkInit => BlinkInv
<1> SUFFICES ASSUME BlinkInit PROVE BlinkInv
  OBVIOUS
<1>1. \A i \in Node : blink_array[i] = Zero
  BY Zenon DEF BlinkInit
<1>2. Used = {}
  BY <1>1, ZeroIsStruct, Zenon DEF Used
<1>3. BlinkTypeOK
  BY ZeroIsStruct DEF BlinkInit, BlinkTypeOK
<1>4. Lined
  <2>1. PICK q : q = [k \in 1 .. 0 |-> 1]
    OBVIOUS
  <2>2. q \in [1 .. 0 -> Node] /\ 1 .. 0 = {} /\ 0 \in 0 .. Size
    BY <2>1, BlinkSizes
  <2>3. mp1_list_head = NULL
    BY Zenon DEF BlinkInit
  <2>4. IsList(0, q)
    BY <1>2, <2>2, <2>3, Zenon DEF IsList
  <2> QED
    BY <2>2, <2>4, Zenon DEF Lined
<1>5. OneWriter /\ UsedShown /\ Paired
  BY <1>2, Zenon DEF OneWriter, UsedShown, Paired, BlinkInit
<1> QED
  BY <1>3, <1>4, <1>5 DEF BlinkInv

(* Steps that change nothing.                                              *)
LEMMA BlinkStutter ==
    ASSUME BlinkInv, UNCHANGED blinkVars
    PROVE  BlinkInv'
<1>1. /\ blink_array' = blink_array /\ mp1_list_head' = mp1_list_head /\ shown' = shown
      /\ unsure' = unsure /\ pair' = pair
  BY Zenon DEF blinkVars
<1>2. Lined' /\ Used' = Used /\ \A i, l : IsFound(i, l)' <=> IsFound(i, l)
  BY <1>1, SameList DEF BlinkInv
<1>3. BlinkTypeOK'
  BY <1>1, Zenon DEF BlinkInv, BlinkTypeOK
<1>4. Paired'
  BY <1>1, <1>2, Zenon DEF BlinkInv, Paired
<1>5. OneWriter' /\ UsedShown'
  BY <1>1, <1>2, Zenon DEF BlinkInv, OneWriter, UsedShown
<1> QED
  BY <1>2, <1>3, <1>4, <1>5 DEF BlinkInv

LEMMA SyncInv ==
    ASSUME BlinkInv, NEW m, NEW l, Sync(m, l)
    PROVE  BlinkInv'
<1>1. PICK i \in Node, j \in Node : IsFound(i, m) /\ IsFound(j, l) /\ blink_array' = Synced(i, j)
  BY Zenon DEF Sync
<1>2. /\ shown' = [shown EXCEPT ![l] = "off"] /\ unsure' = unsure \cup {l} /\ pair' = <<m, l>>
      /\ mp1_list_head' = mp1_list_head
  BY Zenon DEF Sync
<1>3. BlinkTypeOK /\ Lined /\ OneWriter /\ UsedShown
  BY DEF BlinkInv
<1>4. /\ blink_array' \in [Node -> Struct]
      /\ \A k \in Node : k # j => blink_array'[k] = blink_array[k]
      /\ blink_array'[j].location = blink_array[j].location
      /\ blink_array'[j].next = blink_array[j].next
      /\ Alike(blink_array[i], blink_array'[j])
  BY <1>1, <1>3, SyncedFacts
<1>5. \A k \in Node : /\ blink_array'[k].next = blink_array[k].next
                      /\ blink_array'[k].location = blink_array[k].location
  BY <1>4, Zenon
<1>6. Lined' /\ Used' = Used /\ \A k, x : IsFound(k, x)' <=> IsFound(k, x)
  BY <1>2, <1>3, <1>5, SameList
<1>7. blink_array[j].location = l /\ l \in 0 .. Limit - 1
  <2>1. blink_array[j].location = l
    BY <1>1, Zenon DEF IsFound
  <2>2. blink_array[j] \in Struct
    BY <1>3, Zenon DEF BlinkTypeOK
  <2> QED
    BY <2>1, <2>2 DEF Struct
<1>8. BlinkTypeOK'
  <2>1. shown' \in [0 .. Limit - 1 -> {"old", "on", "off"}] /\ unsure' \subseteq 0 .. Limit - 1
    BY <1>2, <1>3, <1>7 DEF BlinkTypeOK
  <2> QED
    BY <1>2, <1>3, <1>4, <2>1, Zenon DEF BlinkTypeOK
<1>9. \A k \in Used : k \in Node
  BY Zenon DEF Used
<1>10. OneWriter'
  <2> SUFFICES ASSUME NEW a \in Used, NEW b \in Used, blink_array'[a].location = blink_array'[b].location,
                      blink_array'[a].location \notin unsure'
               PROVE  a = b
    BY <1>6, Zenon DEF OneWriter
  <2>1. blink_array[a].location = blink_array[b].location /\ blink_array[a].location \notin unsure
    BY <1>2, <1>5, <1>9, Zenon
  <2> QED
    BY <1>3, <2>1, Zenon DEF OneWriter
<1>11. Paired'
  <2> SUFFICES ASSUME NEW a \in Node, NEW b \in Node, IsFound(a, m)', IsFound(b, l)'
               PROVE  Alike(blink_array'[a], blink_array'[b])
    <3>1. pair'[1] = m /\ pair'[2] = l
      BY <1>2, Zenon
    <3> QED
      BY <3>1, Zenon DEF Paired, Alike, IsFound
  <2>1. a = i /\ b = j
    BY <1>1, <1>3, <1>6, FoundOnce
  <2>2. CASE i = j
    BY <2>1, <2>2 DEF Alike
  <2>3. CASE i # j
    BY <1>4, <2>1, <2>3, Zenon
  <2> QED
    BY <2>2, <2>3
<1>12. UsedShown'
  <2> SUFFICES ASSUME NEW k \in Used, blink_array'[k].location \notin unsure'
               PROVE  shown'[blink_array'[k].location] = IF blink_array'[k].status = 1 THEN "on" ELSE "off"
    BY <1>6, Zenon DEF UsedShown
  <2>1. k \in Node /\ k # j /\ blink_array[k].location # l /\ blink_array'[k] = blink_array[k]
    BY <1>2, <1>4, <1>5, <1>7, <1>9, Zenon
  <2>2. blink_array[k].location \notin unsure
    BY <1>2, <2>1, Zenon
  <2>3. shown[blink_array[k].location] = IF blink_array[k].status = 1 THEN "on" ELSE "off"
    BY <1>3, <2>2, Zenon DEF UsedShown
  <2>4. blink_array[k].location \in 0 .. Limit - 1
    <3>1. blink_array[k] \in Struct
      BY <1>3, <2>1, Zenon DEF BlinkTypeOK
    <3> QED
      BY <3>1 DEF Struct
  <2>5. shown'[blink_array[k].location] = shown[blink_array[k].location]
    BY <1>2, <1>3, <2>1, <2>4, Zenon DEF BlinkTypeOK
  <2> QED
    BY <2>1, <2>3, <2>5, Zenon
<1> QED
  BY <1>6, <1>8, <1>10, <1>11, <1>12 DEF BlinkInv

LEMMA TaskletInv ==
    ASSUME BlinkInv, Tasklet
    PROVE  BlinkInv'
<1>1. BlinkTypeOK /\ Lined /\ OneWriter /\ Paired /\ UsedShown
  BY DEF BlinkInv
<1>2. OnList = Used /\ \A k \in Used : k \in Node
  BY <1>1, OnListIsUsed, Zenon DEF Used
<1>3. /\ blink_array' = [i \in Node |-> IF i \in Used THEN Ticked(blink_array[i]) ELSE blink_array[i]]
      /\ mp1_list_head' = mp1_list_head /\ unsure' = unsure /\ pair' = pair
  BY <1>2, Zenon DEF Tasklet
<1>4. \A i \in Node : blink_array[i] \in Struct
  BY <1>1, Zenon DEF BlinkTypeOK
<1>5. \A i \in Node : blink_array'[i] = IF i \in Used THEN Ticked(blink_array[i]) ELSE blink_array[i]
  BY <1>3, Zenon
<1>6. ASSUME NEW i \in Node
      PROVE  /\ blink_array'[i] \in Struct
             /\ blink_array'[i].next = blink_array[i].next
             /\ blink_array'[i].location = blink_array[i].location
  BY <1>4, <1>5, TickedFacts, Zenon
<1>7. Lined' /\ Used' = Used /\ \A k, x : IsFound(k, x)' <=> IsFound(k, x)
  BY <1>1, <1>3, <1>6, SameList
<1> DEFINE writers(l) == {i \in Used : blink_array[i].location = l /\ Changes(blink_array[i])}
           w(l) == CHOOSE i \in writers(l) : \A j \in writers(l) : At(j) <= At(i)
           new(l) == IF writers(l) = {} THEN shown[l] ELSE IF blink_array[w(l)].status = 1 THEN "off" ELSE "on"
<1>8. shown' = [l \in 0 .. Limit - 1 |-> new(l)]
  BY <1>2, Zenon DEF Tasklet
<1>9. BlinkTypeOK'
  <2>1. blink_array' \in [Node -> Struct]
    BY <1>3, <1>6, Zenon
  <2>2. ASSUME NEW l \in 0 .. Limit - 1
        PROVE  new(l) \in {"old", "on", "off"}
    <3>1. shown[l] \in {"old", "on", "off"}
      BY <1>1, Zenon DEF BlinkTypeOK
    <3> QED
      BY <3>1, Zenon
  <2> HIDE DEF new
  <2>3. shown' \in [0 .. Limit - 1 -> {"old", "on", "off"}]
    BY <1>8, <2>2, Zenon
  <2> QED
    BY <1>1, <1>3, <2>1, <2>3, Zenon DEF BlinkTypeOK
<1>10. OneWriter'
  <2> SUFFICES ASSUME NEW a \in Used, NEW b \in Used, blink_array'[a].location = blink_array'[b].location,
                      blink_array'[a].location \notin unsure'
               PROVE  a = b
    BY <1>7, Zenon DEF OneWriter
  <2>1. blink_array[a].location = blink_array[b].location /\ blink_array[a].location \notin unsure
    BY <1>2, <1>3, <1>6, Zenon
  <2> QED
    BY <1>1, <2>1, Zenon DEF OneWriter
<1>11. Paired'
  <2> SUFFICES ASSUME pair # <<>>, NEW i \in Node, NEW j \in Node, IsFound(i, pair[1]), IsFound(j, pair[2])
               PROVE  Alike(blink_array'[i], blink_array'[j])
    BY <1>3, <1>7, Zenon DEF Paired, Alike
  <2>1. i \in Used /\ j \in Used
    BY <1>2, Zenon DEF IsFound
  <2>2. Alike(blink_array[i], blink_array[j])
    BY <1>1, Zenon DEF Paired
  <2>3. PICK a \in Struct, b \in Struct : a = blink_array[i] /\ b = blink_array[j]
    BY <1>4
  <2>4. blink_array'[i] = Ticked(a) /\ blink_array'[j] = Ticked(b)
    BY <1>5, <2>1, <2>3, Zenon
  <2>5. /\ a.countdown = b.countdown /\ a.status = b.status
        /\ a.on_length = b.on_length /\ a.off_length = b.off_length
    BY <2>2, <2>3, Zenon DEF Alike
  <2>6. Changes(a) <=> Changes(b)
    BY <2>5, Zenon DEF Changes
  <2>7. Alike(Ticked(a), Ticked(b))
    <3>1. ASSUME NEW x \in Struct
          PROVE  /\ Ticked(x).on_length = x.on_length /\ Ticked(x).off_length = x.off_length
                 /\ Ticked(x).countdown = IF ~Changes(x) THEN Lower(x.countdown)
                                          ELSE IF x.status = 1 THEN x.off_length ELSE x.on_length
                 /\ Ticked(x).status = IF ~Changes(x) THEN x.status ELSE 1 - x.status
      BY TickedFacts, Zenon
    <3>2. Ticked(a).countdown = Ticked(b).countdown
      BY <2>5, <2>6, <3>1, Zenon
    <3>3. Ticked(a).status = Ticked(b).status
      BY <2>5, <2>6, <3>1, Zenon
    <3> QED
      BY <2>5, <3>1, <3>2, <3>3, Zenon DEF Alike
  <2> QED
    BY <2>4, <2>7, Zenon
<1>12. UsedShown'
  <2> SUFFICES ASSUME NEW i \in Used, blink_array'[i].location \notin unsure'
               PROVE  shown'[blink_array'[i].location] = IF blink_array'[i].status = 1 THEN "on" ELSE "off"
    BY <1>7, Zenon DEF UsedShown
  <2>1. PICK b \in Struct : b = blink_array[i] /\ blink_array'[i] = Ticked(b)
    BY <1>2, <1>4, <1>5, Zenon
  <2>2. PICK l \in 0 .. Limit - 1 : l = b.location
    BY DEF Struct
  <2>3. blink_array'[i].location = l /\ l \notin unsure
    BY <1>2, <1>3, <1>6, <2>1, <2>2, Zenon
  <2>4. shown[l] = IF b.status = 1 THEN "on" ELSE "off"
    BY <1>1, <2>1, <2>2, <2>3, Zenon DEF UsedShown
  <2>5. \A j \in Used : blink_array[j].location = l => j = i
    BY <1>1, <2>1, <2>2, <2>3, Zenon DEF OneWriter
  <2>6. shown'[l] = new(l)
    BY <1>8, Zenon
  <2>7. b.status \in {0, 1}
    BY DEF Struct
  <2>8. CASE ~Changes(b)
    <3>1. writers(l) = {}
      BY <2>1, <2>5, <2>8, Zenon
    <3>2. new(l) = shown[l]
      BY <3>1, Zenon
    <3>3. Ticked(b).status = b.status
      BY <2>8, TickedFacts, Zenon
    <3> QED
      BY <2>1, <2>3, <2>4, <2>6, <3>2, <3>3, Zenon
  <2>9. CASE Changes(b)
    <3>1. writers(l) = {i}
      BY <2>1, <2>2, <2>5, <2>9, Zenon
    <3>2. At(i) <= At(i)
      <4>1. PICK len \in 0 .. Size : \E q \in [1 .. len -> Node] : IsList(len, q)
        BY <1>1, Zenon DEF Lined
      <4>2. PICK q \in [1 .. len -> Node] : IsList(len, q)
        BY <4>1
      <4>3. PICK k \in 1 .. len : q[k] = i
        BY <4>2, Zenon DEF IsList
      <4>4. At(i) = k
        BY <4>2, <4>3, ListedNow, Zenon DEF Listed
      <4> QED
        BY <4>4
    <3>3. w(l) = i
      BY <3>1, <3>2, Zenon
    <3> HIDE DEF w
    <3>4. new(l) = IF b.status = 1 THEN "off" ELSE "on"
      BY <2>1, <3>1, <3>3, Zenon
    <3>5. Ticked(b).status = 1 - b.status
      BY <2>9, TickedFacts, Zenon
    <3>6. b.status = 1 <=> 1 - b.status # 1
      BY <2>7
    <3> QED
      BY <2>1, <2>3, <2>6, <3>4, <3>5, <3>6, Zenon
  <2> QED
    BY <2>8, <2>9
<1> QED
  BY <1>7, <1>9, <1>10, <1>11, <1>12 DEF BlinkInv

(* An injective list that misses an entry has room for it.                 *)
LEMMA RoomLeft ==
    ASSUME NEW len \in 0 .. Size, NEW q \in [1 .. len -> Node], NEW i \in Node,
           \A j, k \in 1 .. len : q[j] = q[k] => j = k, \A k \in 1 .. len : q[k] # i
    PROVE  len + 1 \in 0 .. Size
<1>1. Size \in Nat /\ Size > 0 /\ Node = 1 .. Size /\ len \in Nat /\ len <= Size
  BY BlinkSizes
<1>2. IsFiniteSet(Node) /\ Cardinality(Node) = Size
  BY <1>1, FS_Interval
<1>3. IsFiniteSet(Node \ {i}) /\ Cardinality(Node \ {i}) = Size - 1
  BY <1>2, FS_RemoveElement
<1>4. IsFiniteSet(1 .. len) /\ Cardinality(1 .. len) = len
  BY <1>1, FS_Interval
<1>5. q \in [1 .. len -> Node \ {i}]
  OBVIOUS
<1>6. ~(Size - 1 < len)
  BY <1>3, <1>4, <1>5, FS_PigeonHole
<1> QED
  BY <1>1, <1>6

LEMMA AddInv ==
    ASSUME BlinkInv, NEW l \in Locations \ {0}, NEW on \in OnLengths, NEW off \in OffLengths, Add(l, on, off)
    PROVE  BlinkInv'
<1>1. PICK i \in Node : IsFree(i) /\ blink_array' = Added(i, l, on, off) /\ mp1_list_head' = i
  BY Zenon DEF Add
<1>2. /\ shown' = [shown EXCEPT ![l] = "on"] /\ pair' = <<>>
      /\ unsure' = IF Found(l) THEN unsure \cup {l} ELSE unsure
  BY Zenon DEF Add
<1>3. BlinkTypeOK /\ Lined /\ OneWriter /\ UsedShown
  BY DEF BlinkInv
<1>4. l \in 0 .. Limit - 1 /\ l # 0 /\ on \in Short /\ off \in Short
  <2>1. l \in Nat /\ Limit \in Nat /\ on \in Short /\ off \in Short
    BY BlinkAssumption
  <2>2. l < Limit
    BY Zenon DEF Add
  <2> QED
    BY <2>1, <2>2
<1>5. PICK r : r = [location |-> l, on_length |-> on, off_length |-> off, countdown |-> on, status |-> 1,
                    next |-> mp1_list_head]
  OBVIOUS
<1>6. r \in Struct /\ r.location = l /\ r.status = 1 /\ r.next = mp1_list_head
  <2>1. mp1_list_head \in Node \cup {NULL}
    BY <1>3, Zenon DEF BlinkTypeOK
  <2> QED
    BY <1>4, <1>5, <2>1 DEF Struct
<1>7. blink_array \in [Node -> Struct]
  BY <1>3, Zenon DEF BlinkTypeOK
<1>8. /\ blink_array' \in [Node -> Struct] /\ blink_array'[i] = r
      /\ \A k \in Node : k # i => blink_array'[k] = blink_array[k]
  <2>1. blink_array' = [blink_array EXCEPT ![i] = r]
    BY <1>1, <1>5, Zenon DEF Added
  <2> QED
    BY <1>6, <1>7, <2>1
<1>9. i \notin Used /\ (\A k : k \in Used' <=> k \in Used \/ k = i) /\ (\A k \in Used : k \in Node)
  <2>1. i \notin Used /\ \A k \in Used : k \in Node
    BY <1>1, Zenon DEF Used, IsFree
  <2>2. i \in Used'
    BY <1>4, <1>6, <1>8, Zenon DEF Used
  <2>3. \A k \in Node : k # i => (k \in Used' <=> k \in Used)
    BY <1>8, Zenon DEF Used
  <2>4. \A k \in Used' : k \in Node
    BY Zenon DEF Used
  <2> QED
    BY <2>1, <2>2, <2>3, <2>4, Zenon
<1>10. \A k \in Used : blink_array[k].location = l => Found(l)
  BY <1>3, OnListIsUsed, Zenon DEF Found
<1>11. BlinkTypeOK'
  <2>1. shown' \in [0 .. Limit - 1 -> {"old", "on", "off"}] /\ unsure' \subseteq 0 .. Limit - 1
    BY <1>2, <1>3, <1>4 DEF BlinkTypeOK
  <2> QED
    BY <1>1, <1>8, <2>1, Zenon DEF BlinkTypeOK
<1>12. OneWriter'
  <2> SUFFICES ASSUME NEW a \in Used', NEW b \in Used', blink_array'[a].location = blink_array'[b].location,
                      blink_array'[a].location \notin unsure'
               PROVE  a = b
    BY Zenon DEF OneWriter
  <2>1. blink_array'[a].location \notin unsure
    BY <1>2, Zenon
  <2>2. CASE a # i /\ b # i
    <3>1. a \in Used /\ b \in Used /\ blink_array'[a] = blink_array[a] /\ blink_array'[b] = blink_array[b]
      BY <1>8, <1>9, <2>2, Zenon
    <3> QED
      BY <1>3, <2>1, <3>1, Zenon DEF OneWriter
  <2>3. ASSUME NEW c \in Used', c # i, blink_array'[c].location = l, l \notin unsure'
        PROVE  FALSE
    <3>1. c \in Used /\ blink_array'[c] = blink_array[c]
      BY <1>8, <1>9, <2>3, Zenon
    <3>2. Found(l)
      BY <1>10, <2>3, <3>1, Zenon
    <3> QED
      BY <1>2, <2>3, <3>2, Zenon
  <2> QED
    BY <1>6, <1>8, <2>2, <2>3, Zenon
<1>13. UsedShown'
  <2> SUFFICES ASSUME NEW k \in Used', blink_array'[k].location \notin unsure'
               PROVE  shown'[blink_array'[k].location] = IF blink_array'[k].status = 1 THEN "on" ELSE "off"
    BY Zenon DEF UsedShown
  <2>1. shown'[l] = "on" /\ \A x \in 0 .. Limit - 1 : x # l => shown'[x] = shown[x]
    BY <1>2, <1>3, <1>4, Zenon DEF BlinkTypeOK
  <2>2. CASE k = i
    BY <1>6, <1>8, <2>1, <2>2, Zenon
  <2>3. CASE k # i
    <3>1. k \in Used /\ k \in Node /\ blink_array'[k] = blink_array[k]
      BY <1>8, <1>9, <2>3, Zenon
    <3>2. blink_array[k].location # l /\ blink_array[k].location \notin unsure
      BY <1>2, <1>10, <3>1, Zenon
    <3>3. blink_array[k].location \in 0 .. Limit - 1
      <4>1. blink_array[k] \in Struct
        BY <1>7, <3>1
      <4> QED
        BY <4>1 DEF Struct
    <3>4. shown[blink_array[k].location] = IF blink_array[k].status = 1 THEN "on" ELSE "off"
      BY <1>3, <3>1, <3>2, Zenon DEF UsedShown
    <3> QED
      BY <2>1, <3>1, <3>2, <3>3, <3>4, Zenon
  <2> QED
    BY <2>2, <2>3
<1>14. Paired'
  BY <1>2, Zenon DEF Paired
<1>15. Lined'
  <2>1. PICK len \in 0 .. Size : \E q \in [1 .. len -> Node] : IsList(len, q)
    BY <1>3, Zenon DEF Lined
  <2>2. PICK q \in [1 .. len -> Node] : IsList(len, q)
    BY <2>1
  <2>3. /\ mp1_list_head = IF len = 0 THEN NULL ELSE q[1]
        /\ \A k \in 1 .. len : blink_array[q[k]].next = IF k = len THEN NULL ELSE q[k + 1]
        /\ \A j, k \in 1 .. len : q[j] = q[k] => j = k
        /\ \A k \in 1 .. len : q[k] \in Used /\ q[k] # i /\ q[k] \in Node
        /\ \A x \in Used : \E k \in 1 .. len : q[k] = x
    BY <1>9, <2>2, Zenon DEF IsList
  <2>4. len + 1 \in 0 .. Size
    BY <2>3, RoomLeft
  <2>5. len \in Nat
    BY BlinkSizes
  <2> DEFINE q2 == [k \in 1 .. len + 1 |-> IF k = 1 THEN i ELSE q[k - 1]]
  <2>6. /\ q2 \in [1 .. len + 1 -> Node] /\ q2[1] = i
        /\ \A k \in 1 .. len : q2[k + 1] = q[k]
    BY <2>3, <2>5
  <2>7. \A k \in 1 .. len + 1 : k = 1 \/ \E j \in 1 .. len : k = j + 1
    BY <2>5
  <2>8. 1 \in 1 .. len + 1 /\ len + 1 # 0 /\ \A j \in 1 .. len : j + 1 \in 1 .. len + 1 /\ j + 1 # 1 /\ j # len + 1
    BY <2>5
  <2> HIDE DEF q2
  <2>9. ASSUME NEW k \in 1 .. len + 1
        PROVE  blink_array'[q2[k]].next = IF k = len + 1 THEN NULL ELSE q2[k + 1]
    <3>1. CASE k = 1
      <4>1. blink_array'[q2[k]].next = mp1_list_head
        BY <1>6, <1>8, <2>6, <3>1, Zenon
      <4>2. k = len + 1 <=> len = 0
        BY <2>5, <3>1
      <4>3. len # 0 => q2[k + 1] = q[1]
        <5>1. len # 0 => 1 \in 1 .. len
          BY <2>5
        <5> QED
          BY <2>6, <3>1, <5>1, Zenon
      <4> QED
        BY <2>3, <4>1, <4>2, <4>3, Zenon
    <3>2. ASSUME NEW j \in 1 .. len, k = j + 1
          PROVE  blink_array'[q2[k]].next = IF k = len + 1 THEN NULL ELSE q2[k + 1]
      <4>1. q2[k] = q[j] /\ blink_array'[q[j]] = blink_array[q[j]]
        BY <1>8, <2>3, <2>6, <3>2, Zenon
      <4>2. k = len + 1 <=> j = len
        BY <2>5, <3>2
      <4>3. j # len => q2[k + 1] = q[j + 1]
        <5>1. j # len => j + 1 \in 1 .. len
          BY <2>5
        <5> QED
          BY <2>6, <3>2, <5>1, Zenon
      <4>4. blink_array[q[j]].next = IF j = len THEN NULL ELSE q[j + 1]
        BY <2>3, Zenon
      <4> QED
        BY <4>1, <4>2, <4>3, <4>4, Zenon
    <3> QED
      BY <2>7, <3>1, <3>2
  <2>10. ASSUME NEW j \in 1 .. len + 1, NEW k \in 1 .. len + 1, q2[j] = q2[k]
         PROVE  j = k
    <3>1. ASSUME NEW x \in 1 .. len + 1, q2[x] = i
          PROVE  x = 1
      <4>1. ASSUME NEW y \in 1 .. len, x = y + 1
            PROVE  FALSE
        <5>1. q2[x] = q[y]
          BY <2>6, <4>1, Zenon
        <5> QED
          BY <2>3, <3>1, <5>1, Zenon
      <4> QED
        BY <2>7, <4>1
    <3>2. CASE q2[j] = i
      BY <2>10, <3>1, <3>2
    <3>3. CASE q2[j] # i
      <4>1. PICK a \in 1 .. len : j = a + 1
        BY <2>6, <2>7, <3>3
      <4>2. PICK b \in 1 .. len : k = b + 1
        BY <2>6, <2>7, <2>10, <3>3
      <4>3. q[a] = q[b]
        BY <2>6, <2>10, <4>1, <4>2
      <4> QED
        BY <2>3, <4>1, <4>2, <4>3
    <3> QED
      BY <3>2, <3>3
  <2>11. ASSUME NEW k \in 1 .. len + 1
         PROVE  q2[k] \in Used'
    <3>1. CASE k = 1
      BY <1>9, <2>6, <3>1, Zenon
    <3>2. ASSUME NEW j \in 1 .. len, k = j + 1
          PROVE  q2[k] \in Used'
      <4>1. q2[k] = q[j] /\ q[j] \in Used
        BY <2>3, <2>6, <3>2, Zenon
      <4> QED
        BY <1>9, <4>1, Zenon
    <3> QED
      BY <2>7, <3>1, <3>2
  <2>12. ASSUME NEW x \in Used'
         PROVE  \E k \in 1 .. len + 1 : q2[k] = x
    <3>1. CASE x = i
      BY <2>6, <2>8, <3>1, Zenon
    <3>2. CASE x # i
      <4>1. PICK j \in 1 .. len : q[j] = x
        BY <1>9, <2>3, <3>2, Zenon
      <4>2. q2[j + 1] = x /\ j + 1 \in 1 .. len + 1
        BY <2>6, <2>8, <4>1, Zenon
      <4> QED
        BY <4>2
    <3> QED
      BY <3>1, <3>2
  <2>13. mp1_list_head' = IF len + 1 = 0 THEN NULL ELSE q2[1]
    BY <1>1, <2>6, <2>8, Zenon
  <2>14. IsList(len + 1, q2)'
    BY <2>9, <2>10, <2>11, <2>12, <2>13, Zenon DEF IsList
  <2> QED
    BY <2>4, <2>6, <2>14, Zenon DEF Lined
<1> QED
  BY <1>11, <1>12, <1>13, <1>14, <1>15 DEF BlinkInv

(* What mp1_ioctl_remove leaves of the elements.                           *)
LEMMA UnlinkFacts ==
    ASSUME BlinkTypeOK, NEW i \in Node
    PROVE  /\ Unlink(i) \in [Node -> Struct]
           /\ Unlink(i)[i] = Zero
           /\ \A j \in Node : j # i =>
                 /\ Unlink(i)[j].location = blink_array[j].location
                 /\ Unlink(i)[j].status = blink_array[j].status
                 /\ Unlink(i)[j].next = IF blink_array[j].next = i /\ j \in OnList THEN blink_array[i].next
                                        ELSE blink_array[j].next
<1>1. \A j \in Node : blink_array[j] \in Struct
  BY Zenon DEF BlinkTypeOK
<1>2. PICK n \in Node \cup {NULL} : n = blink_array[i].next
  BY <1>1 DEF Struct
<1>3. ASSUME NEW b \in Struct
      PROVE  /\ [b EXCEPT !.next = n] \in Struct
             /\ [b EXCEPT !.next = n].location = b.location
             /\ [b EXCEPT !.next = n].status = b.status
             /\ [b EXCEPT !.next = n].next = n
  BY DEF Struct
<1> DEFINE E(b) == [b EXCEPT !.next = n]
           u(j) == IF j # i /\ blink_array[j].next = i /\ j \in OnList THEN E(blink_array[j])
                   ELSE IF j = i THEN Zero ELSE blink_array[j]
<1>4. Unlink(i) = [j \in Node |-> u(j)]
  BY <1>2, Zenon DEF Unlink
<1>5. \A b \in Struct : E(b) \in Struct /\ E(b).location = b.location /\ E(b).status = b.status /\ E(b).next = n
  BY <1>3, Zenon
<1> HIDE DEF E
<1>6. \A j \in Node : u(j) \in Struct
  BY <1>1, <1>5, ZeroIsStruct, Zenon
<1>7. u(i) = Zero
  BY Zenon
<1>8. ASSUME NEW j \in Node, j # i
      PROVE  /\ u(j).location = blink_array[j].location /\ u(j).status = blink_array[j].status
             /\ u(j).next = IF blink_array[j].next = i /\ j \in OnList THEN n ELSE blink_array[j].next
  BY <1>1, <1>5, <1>8, Zenon
<1> HIDE DEF u
<1> QED
  BY <1>2, <1>4, <1>6, <1>7, <1>8, Zenon

LEMMA RemoveInv ==
    ASSUME BlinkInv, NEW l, Remove(l)
    PROVE  BlinkInv'
<1>1. PICK i \in Node :
         /\ IsFound(i, l) /\ blink_array' = Unlink(i)
         /\ mp1_list_head' = IF mp1_list_head = i THEN blink_array[i].next ELSE mp1_list_head
  BY Zenon DEF Remove
<1>2. shown' = shown /\ unsure' = unsure /\ pair' = <<>>
  BY Zenon DEF Remove
<1>3. BlinkTypeOK /\ Lined /\ OneWriter /\ UsedShown
  BY DEF BlinkInv
<1>4. OnList = Used /\ i \in Used /\ \A k \in Used : k \in Node
  BY <1>1, <1>3, OnListIsUsed, Zenon DEF Used, IsFound
<1>5. /\ blink_array' \in [Node -> Struct] /\ blink_array'[i] = Zero
      /\ \A j \in Node : j # i =>
            /\ blink_array'[j].location = blink_array[j].location
            /\ blink_array'[j].status = blink_array[j].status
            /\ blink_array'[j].next = IF blink_array[j].next = i /\ j \in OnList THEN blink_array[i].next
                                      ELSE blink_array[j].next
  BY <1>1, <1>3, UnlinkFacts, Zenon
<1>6. \A k : k \in Used' <=> k \in Used /\ k # i
  <2>1. \A k \in Node : k # i => (k \in Used' <=> k \in Used)
    BY <1>5, Zenon DEF Used
  <2>2. i \notin Used'
    BY <1>5, ZeroIsStruct, Zenon DEF Used
  <2>3. \A k \in Used' : k \in Node
    BY Zenon DEF Used
  <2> QED
    BY <1>4, <2>1, <2>2, <2>3, Zenon
<1>7. BlinkTypeOK'
  <2>1. blink_array[i].next \in Node \cup {NULL}
    <3>1. blink_array[i] \in Struct
      BY <1>3, Zenon DEF BlinkTypeOK
    <3> QED
      BY <3>1 DEF Struct
  <2> QED
    BY <1>1, <1>2, <1>3, <1>5, <2>1, Zenon DEF BlinkTypeOK
<1>8. OneWriter'
  <2> SUFFICES ASSUME NEW a \in Used', NEW b \in Used', blink_array'[a].location = blink_array'[b].location,
                      blink_array'[a].location \notin unsure'
               PROVE  a = b
    BY Zenon DEF OneWriter
  <2>1. /\ a \in Used /\ b \in Used
        /\ blink_array[a].location = blink_array[b].location /\ blink_array[a].location \notin unsure
    BY <1>2, <1>4, <1>5, <1>6, Zenon
  <2> QED
    BY <1>3, <2>1, Zenon DEF OneWriter
<1>9. UsedShown'
  <2> SUFFICES ASSUME NEW k \in Used', blink_array'[k].location \notin unsure'
               PROVE  shown'[blink_array'[k].location] = IF blink_array'[k].status = 1 THEN "on" ELSE "off"
    BY Zenon DEF UsedShown
  <2>1. k \in Used /\ blink_array'[k].location = blink_array[k].location /\ blink_array'[k].status = blink_array[k].status
    BY <1>4, <1>5, <1>6, Zenon
  <2> QED
    BY <1>2, <1>3, <2>1, Zenon DEF UsedShown
<1>10. Paired'
  BY <1>2, Zenon DEF Paired
<1>11. Lined'
  <2>1. PICK len \in 0 .. Size : \E q \in [1 .. len -> Node] : IsList(len, q)
    BY <1>3, Zenon DEF Lined
  <2>2. PICK q \in [1 .. len -> Node] : IsList(len, q)
    BY <2>1
  <2>3. /\ mp1_list_head = IF len = 0 THEN NULL ELSE q[1]
        /\ \A j, k \in 1 .. len : q[j] = q[k] => j = k
        /\ \A k \in 1 .. len : q[k] \in Used /\ q[k] \in Node
        /\ \A x \in Used : \E k \in 1 .. len : q[k] = x
    BY <1>4, <2>2, Zenon DEF IsList
  <2>4. \A k \in 1 .. len : blink_array[q[k]].next = IF k = len THEN NULL ELSE q[k + 1]
    BY <2>2, Zenon DEF IsList
  <2>5. PICK m \in 1 .. len : q[m] = i
    BY <1>4, <2>3, Zenon
  <2>6. len \in Nat /\ Size \in Nat /\ len <= Size /\ len >= 1 /\ m \in Nat /\ m >= 1 /\ m <= len
    BY BlinkSizes
  <2>7. len - 1 \in 0 .. Size
    BY <2>6
  <2> DEFINE q2 == [k \in 1 .. len - 1 |-> IF k < m THEN q[k] ELSE q[k + 1]]
  <2>8. \A k \in 1 .. len - 1 : k \in Nat /\ k \in 1 .. len /\ k + 1 \in 1 .. len
    BY <2>6
  <2>9. q2 \in [1 .. len - 1 -> Node] /\ \A k \in 1 .. len - 1 : q2[k] = IF k < m THEN q[k] ELSE q[k + 1]
    <3>1. \A k \in 1 .. len - 1 : (IF k < m THEN q[k] ELSE q[k + 1]) \in Node
      BY <2>3, <2>8, Zenon
    <3> QED
      BY <3>1, Zenon
  <2> HIDE DEF q2
  <2>10. \A k \in 1 .. len : k # m => q[k] # i
    BY <2>3, <2>5, Zenon
  <2>11. ASSUME NEW k \in 1 .. len, k # m
         PROVE  blink_array'[q[k]].next = IF k + 1 = m THEN (IF m = len THEN NULL ELSE q[m + 1])
                                          ELSE IF k = len THEN NULL ELSE q[k + 1]
    <3>1. q[k] \in Node /\ q[k] # i /\ q[k] \in OnList
      BY <1>4, <2>3, <2>10, <2>11, Zenon
    <3>2. blink_array'[q[k]].next = IF blink_array[q[k]].next = i THEN blink_array[i].next ELSE blink_array[q[k]].next
      BY <1>5, <3>1, Zenon
    <3>3. blink_array[i].next = IF m = len THEN NULL ELSE q[m + 1]
      BY <2>4, <2>5, Zenon
    <3>4. blink_array[q[k]].next = IF k = len THEN NULL ELSE q[k + 1]
      BY <2>4, Zenon
    <3>5. CASE k + 1 = m
      <4>1. k # len
        BY <2>6, <3>5
      <4>2. blink_array[q[k]].next = i
        BY <2>5, <3>4, <3>5, <4>1, Zenon
      <4> QED
        BY <3>2, <3>3, <3>5, <4>2, Zenon
    <3>6. CASE k + 1 # m
      <4>1. blink_array[q[k]].next # i
        <5>1. CASE k = len
          BY <3>4, <5>1, BlinkSizes, Zenon
        <5>2. CASE k # len
          <6>1. k + 1 \in 1 .. len
            BY <2>6, <5>2
          <6> QED
            BY <2>10, <3>4, <3>6, <5>2, <6>1, Zenon
        <5> QED
          BY <5>1, <5>2
      <4> QED
        BY <3>2, <3>4, <3>6, <4>1, Zenon
    <3> QED
      BY <3>5, <3>6
  <2>12. ASSUME NEW k \in 1 .. len - 1
         PROVE  blink_array'[q2[k]].next = IF k = len - 1 THEN NULL ELSE q2[k + 1]
    <3>1. k \in Nat /\ k \in 1 .. len /\ k + 1 \in 1 .. len /\ (k # len - 1 => k + 1 \in 1 .. len - 1)
      BY <2>6, <2>8
    <3>2. k # len - 1 => q2[k + 1] = IF k + 1 < m THEN q[k + 1] ELSE q[(k + 1) + 1]
      BY <2>9, <3>1, Zenon
    <3>3. CASE k < m /\ k + 1 = m
      <4>1. k # m /\ (k = len - 1 <=> m = len) /\ ~(k + 1 < m)
        BY <2>6, <3>1, <3>3
      <4>2. q2[k] = q[k]
        BY <2>9, <3>3, Zenon
      <4>3. blink_array'[q[k]].next = IF m = len THEN NULL ELSE q[m + 1]
        BY <2>11, <3>1, <3>3, <4>1, Zenon
      <4> QED
        BY <3>2, <3>3, <4>1, <4>2, <4>3, Zenon
    <3>4. CASE k < m /\ k + 1 # m
      <4>1. k # m /\ k # len /\ k # len - 1 /\ k + 1 < m
        BY <2>6, <3>1, <3>4
      <4>2. q2[k] = q[k]
        BY <2>9, <3>4, Zenon
      <4>3. blink_array'[q[k]].next = q[k + 1]
        BY <2>11, <3>1, <3>4, <4>1, Zenon
      <4> QED
        BY <3>2, <4>1, <4>2, <4>3, Zenon
    <3>5. CASE ~(k < m)
      <4>1. k + 1 # m /\ (k + 1) + 1 # m /\ ~(k + 1 < m) /\ (k = len - 1 <=> k + 1 = len)
        BY <2>6, <3>1, <3>5
      <4>2. q2[k] = q[k + 1]
        BY <2>9, <3>5, Zenon
      <4>3. blink_array'[q[k + 1]].next = IF k + 1 = len THEN NULL ELSE q[(k + 1) + 1]
        BY <2>11, <3>1, <4>1, Zenon
      <4> QED
        BY <3>2, <4>1, <4>2, <4>3, Zenon
    <3> QED
      BY <3>3, <3>4, <3>5
  <2>13. ASSUME NEW k \in 1 .. len - 1
         PROVE  \E a \in 1 .. len : a # m /\ q2[k] = q[a] /\ a = IF k < m THEN k ELSE k + 1
    <3>1. CASE k < m
      <4>1. k # m /\ k \in 1 .. len
        BY <2>6, <2>8, <3>1
      <4> QED
        BY <2>9, <3>1, <4>1, Zenon
    <3>2. CASE ~(k < m)
      <4>1. k + 1 # m /\ k + 1 \in 1 .. len
        BY <2>6, <2>8, <3>2
      <4> QED
        BY <2>9, <3>2, <4>1, Zenon
    <3> QED
      BY <3>1, <3>2
  <2>14. ASSUME NEW j \in 1 .. len - 1, NEW k \in 1 .. len - 1, q2[j] = q2[k]
         PROVE  j = k
    <3>1. PICK a \in 1 .. len : a # m /\ q2[j] = q[a] /\ a = IF j < m THEN j ELSE j + 1
      BY <2>13
    <3>2. PICK b \in 1 .. len : b # m /\ q2[k] = q[b] /\ b = IF k < m THEN k ELSE k + 1
      BY <2>13
    <3>3. a = b
      BY <2>3, <2>14, <3>1, <3>2, Zenon
    <3> QED
      BY <2>6, <3>1, <3>2, <3>3
  <2>15. ASSUME NEW k \in 1 .. len - 1
         PROVE  q2[k] \in Used'
    <3>1. PICK a \in 1 .. len : a # m /\ q2[k] = q[a]
      BY <2>13
    <3> QED
      BY <1>6, <2>3, <2>10, <3>1, Zenon
  <2>16. ASSUME NEW x \in Used'
         PROVE  \E k \in 1 .. len - 1 : q2[k] = x
    <3>1. PICK a \in 1 .. len : q[a] = x /\ a # m
      BY <1>6, <2>3, <2>5, Zenon
    <3>2. CASE a < m
      <4>1. a \in 1 .. len - 1
        BY <2>6, <3>2
      <4>2. q2[a] = x
        BY <2>9, <3>1, <3>2, <4>1, Zenon
      <4> QED
        BY <4>1, <4>2
    <3>3. CASE ~(a < m)
      <4>1. PICK k \in 1 .. len - 1 : k + 1 = a /\ ~(k < m)
        BY <2>6, <3>1, <3>3
      <4>2. q2[k] = x
        BY <2>9, <3>1, <4>1, Zenon
      <4> QED
        BY <4>2
    <3> QED
      BY <3>2, <3>3
  <2>17. mp1_list_head' = IF len - 1 = 0 THEN NULL ELSE q2[1]
    <3>1. mp1_list_head = q[1] /\ 1 \in 1 .. len
      BY <2>3, <2>6
    <3>2. len - 1 # 0 => 1 \in 1 .. len - 1
      BY <2>6
    <3>3. CASE m = 1
      <4>1. mp1_list_head' = IF m = len THEN NULL ELSE q[m + 1]
        BY <1>1, <2>4, <2>5, <3>1, <3>3, Zenon
      <4>2. (m = len <=> len - 1 = 0) /\ ~(1 < m)
        BY <2>6, <3>3
      <4>3. len - 1 # 0 => q2[1] = q[m + 1]
        BY <2>9, <3>2, <3>3, <4>2, Zenon
      <4> QED
        BY <4>1, <4>2, <4>3, Zenon
    <3>4. CASE m # 1
      <4>1. 1 < m /\ len - 1 # 0
        BY <2>6, <3>4
      <4>2. q2[1] = q[1]
        BY <2>9, <3>2, <4>1, Zenon
      <4>3. mp1_list_head # i
        BY <2>10, <3>1, <3>4, Zenon
      <4> QED
        BY <1>1, <3>1, <4>1, <4>2, <4>3, Zenon
    <3> QED
      BY <3>3, <3>4
  <2>18. IsList(len - 1, q2)'
    BY <2>12, <2>14, <2>15, <2>16, <2>17, Zenon DEF IsList
  <2> QED
    BY <2>7, <2>9, <2>18, Zenon DEF Lined
<1> QED
  BY <1>7, <1>8, <1>9, <1>10, <1>11 DEF BlinkInv

(* Any order of the ioctls and the tasklet keeps the list of blinking      *)
(* characters of fish well formed (blink.S), for any numbers of entries    *)
(* and locations, as long as nobody passes location 0.                     *)
THEOREM BlinkInvariant ==
    ASSUME 0 \notin Locations
    PROVE  BlinkSpec => []BlinkInv
<1>1. ASSUME BlinkInv, [BlinkNext]_blinkVars
      PROVE  BlinkInv'
  <2>1. ASSUME NEW l \in Locations, NEW on \in OnLengths, NEW off \in OffLengths, Add(l, on, off)
        PROVE  BlinkInv'
    <3>1. l \in Locations \ {0}
      OBVIOUS
    <3> QED
      BY <1>1, <2>1, <3>1, AddInv
  <2>2. ASSUME NEW l \in Locations, AddFails(l) \/ RemoveFails(l)
        PROVE  BlinkInv'
    <3>1. UNCHANGED blinkVars
      BY <2>2, Zenon DEF AddFails, RemoveFails
    <3> QED
      BY <1>1, <3>1, BlinkStutter
  <2>3. ASSUME NEW l \in Locations, Remove(l)
        PROVE  BlinkInv'
    BY <1>1, <2>3, RemoveInv
  <2>4. ASSUME NEW m \in Locations, NEW l \in Locations, Sync(m, l)
        PROVE  BlinkInv'
    BY <1>1, <2>4, SyncInv
  <2>5. ASSUME NEW m \in Locations, NEW l \in Locations, SyncFails(m, l)
        PROVE  BlinkInv'
    <3>1. UNCHANGED blinkVars
      BY <2>5, Zenon DEF SyncFails
    <3> QED
      BY <1>1, <3>1, BlinkStutter
  <2>6. CASE Tasklet
    BY <1>1, <2>6, TaskletInv
  <2>7. CASE UNCHANGED blinkVars
    BY <1>1, <2>7, BlinkStutter
  <2> QED
    BY <1>1, <2>1, <2>2, <2>3, <2>4, <2>5, <2>6, <2>7, Zenon DEF BlinkNext
<1> QED
  BY <1>1, BlinkInitInv, PTL DEF BlinkSpec

(* The list ends and holds exactly the entries mp1_malloc takes for used:  *)
(* mp1_ioctl_remove loses none, mp1_ioctl_add inserts none twice.          *)
THEOREM ListAlwaysSound ==
    ASSUME 0 \notin Locations
    PROVE  BlinkSpec => []ListSound
<1>1. BlinkInv => ListSound
  BY OnListIsUsed, Zenon DEF BlinkInv, ListSound, Used
<1> QED
  BY <1>1, BlinkInvariant, PTL

(* What mp1_ioctl_sync has synchronised keeps changing together, until an  *)
(* element is added or removed.                                            *)
THEOREM AlwaysInStep ==
    ASSUME 0 \notin Locations
    PROVE  BlinkSpec => []StayInStep
<1>1. BlinkInv => StayInStep
  BY Zenon DEF BlinkInv, Paired, StayInStep, Alike
<1> QED
  BY <1>1, BlinkInvariant, PTL

(* The screen shows the character of the element's status at every place   *)
(* where neither sync, which displays the OFF character whatever the       *)
(* status is (its cmovl never moves), nor a second element has written.    *)
THEOREM AlwaysShowsStatus ==
    ASSUME 0 \notin Locations
    PROVE  BlinkSpec => []ShownIsStatus
<1>1. BlinkInv => ShownIsStatus
  <2> SUFFICES ASSUME BlinkInv PROVE ShownIsStatus
    OBVIOUS
  <2>1. OnList = Used
    BY OnListIsUsed DEF BlinkInv
  <2> QED
    BY <2>1, Zenon DEF BlinkInv, UsedShown, ShownIsStatus
<1> QED
  BY <1>1, BlinkInvariant, PTL
============================================================================
