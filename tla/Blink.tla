------------------------------- MODULE Blink -------------------------------
(***************************************************************************)
(* The list of blinking characters of the fish program: fish/blink.S with  *)
(* the allocator mp1_malloc and mp1_free of fish/fish.c.                   *)
(*                                                                         *)
(* Program and tasklet run in one thread: fish calls the tasklet after     *)
(* every read of the RTC.  Each ioctl and each tasklet is one action.      *)
(***************************************************************************)
EXTENDS Integers

CONSTANTS
    Size,           \* entries of blink_array (80*25 in the code)
    Limit,          \* locations are below this (80*25)
    Locations,      \* locations that callers pass
    OnLengths,      \* on_length that callers pass
    OffLengths      \* off_length

Shorts == 65536         \* values of an unsigned short
Short == 0 .. Shorts - 1

ASSUME BlinkAssumption ==
    /\ Size \in Nat \ {0} /\ Limit \in Nat \ {0}
    /\ Locations \subseteq Nat /\ OnLengths \cup OffLengths \subseteq Short

Node == 1 .. Size
NULL == 0

VARIABLES
    blink_array,        \* blink_array[i]: an mp1_blink_struct
    mp1_list_head,
    shown,              \* shown[l]: the character at location l of the screen
    unsure,             \* locations that sync, or more than one element, has written
    pair                \* the locations synchronised last, or <<>>

blinkVars == <<blink_array, mp1_list_head, shown, unsure, pair>>

Zero == [location |-> 0, on_length |-> 0, off_length |-> 0, countdown |-> 0, status |-> 0, next |-> NULL]

BlinkInit ==
    /\ blink_array = [i \in Node |-> Zero]
    /\ mp1_list_head = NULL
    /\ shown = [l \in 0 .. Limit - 1 |-> "old"]
    /\ unsure = {}
    /\ pair = <<>>

(* The k-th element when the next pointers are followed from the head.     *)
Chain ==
    LET c[k \in 1 .. Size + 1] ==
            IF k = 1 THEN mp1_list_head
            ELSE IF c[k - 1] = NULL THEN NULL ELSE blink_array[c[k - 1]].next
    IN  c

Ends == Chain[Size + 1] = NULL
OnList == {Chain[k] : k \in 1 .. Size} \ {NULL}
At(i) == CHOOSE k \in 1 .. Size : Chain[k] = i

(* mp1_find_helper: the first element with location l.                     *)
IsFound(i, l) ==
    /\ i \in OnList /\ blink_array[i].location = l
    /\ \A j \in OnList : blink_array[j].location = l => At(i) <= At(j)

Found(l) == \E i \in OnList : blink_array[i].location = l

(* mp1_malloc: the first entry whose location is 0.                        *)
IsFree(i) ==
    /\ blink_array[i].location = 0
    /\ \A j \in Node : j < i => blink_array[j].location # 0

NoneFree == \A i \in Node : blink_array[i].location # 0

----------------------------------------------------------------------------
(* mp1_ioctl_add: a copy of the caller's struct at the front of the list.  *)
Added(i, l, on, off) ==
    [blink_array EXCEPT ![i] =
        [location |-> l, on_length |-> on, off_length |-> off, countdown |-> on, status |-> 1,
         next |-> mp1_list_head]]

Add(l, on, off) ==
    /\ l < Limit
    /\ \E i \in Node :
          /\ IsFree(i)
          /\ blink_array' = Added(i, l, on, off)
          /\ mp1_list_head' = i
    /\ shown' = [shown EXCEPT ![l] = "on"]
    /\ unsure' = IF Found(l) THEN unsure \cup {l} ELSE unsure
    /\ pair' = <<>>

AddFails(l) ==
    /\ l >= Limit \/ NoneFree
    /\ UNCHANGED blinkVars

(* Mutant: the element is freed before its successor is read.              *)
UnlinkFreed(i) ==
    [j \in Node |-> IF j # i /\ blink_array[j].next = i /\ j \in OnList
                    THEN [blink_array[j] EXCEPT !.next = NULL]
                    ELSE IF j = i THEN Zero ELSE blink_array[j]]

(* The element before i skips it, and mp1_free zeroes i.                   *)
Unlink(i) ==
    [j \in Node |-> IF j # i /\ blink_array[j].next = i /\ j \in OnList
                    THEN [blink_array[j] EXCEPT !.next = blink_array[i].next]
                    ELSE IF j = i THEN Zero ELSE blink_array[j]]

(* mp1_ioctl_remove.                                                       *)
Remove(l) ==
    /\ Ends
    /\ \E i \in Node :
          /\ IsFound(i, l)
          /\ blink_array' = Unlink(i)
          /\ mp1_list_head' = IF mp1_list_head = i THEN blink_array[i].next ELSE mp1_list_head
    /\ pair' = <<>>
    /\ UNCHANGED <<shown, unsure>>

RemoveFails(l) == Ends /\ ~Found(l) /\ UNCHANGED blinkVars

(* Mutant: the countdown is not copied.                                    *)
SyncedLengths(i, j) ==
    [blink_array EXCEPT ![j] = [@ EXCEPT
        !.on_length = blink_array[i].on_length, !.off_length = blink_array[i].off_length,
        !.status = blink_array[i].status]]

(* mp1_ioctl_sync: l takes over the lengths, the countdown and the status  *)
(* of m.  The cmovl behind the test never moves: the OFF character is      *)
(* displayed whatever the status is.                                       *)
Synced(i, j) ==
    [blink_array EXCEPT ![j] = [@ EXCEPT
        !.on_length = blink_array[i].on_length, !.off_length = blink_array[i].off_length,
        !.countdown = blink_array[i].countdown, !.status = blink_array[i].status]]

Sync(m, l) ==
    /\ Ends
    /\ \E i, j \in Node :
          /\ IsFound(i, m) /\ IsFound(j, l)
          /\ blink_array' = Synced(i, j)
    /\ shown' = [shown EXCEPT ![l] = "off"]
    /\ unsure' = unsure \cup {l}
    /\ pair' = <<m, l>>
    /\ UNCHANGED mp1_list_head

SyncFails(m, l) == Ends /\ ~(Found(m) /\ Found(l)) /\ UNCHANGED blinkVars

(* The tasklet's work on one element: a 16-bit countdown that is positive  *)
(* as a signed number goes on, else the character changes.                 *)
Lower(c) == (c - 1) % Shorts
Positive(c) == c \in 1 .. 32767

(* Mutant: the status is not flipped.                                      *)
TickedNoFlip(b) ==
    IF Positive(Lower(b.countdown)) THEN [b EXCEPT !.countdown = Lower(@)]
    ELSE IF b.status = 1 THEN [b EXCEPT !.countdown = b.off_length]
    ELSE [b EXCEPT !.countdown = b.on_length]

Ticked(b) ==
    IF Positive(Lower(b.countdown)) THEN [b EXCEPT !.countdown = Lower(@)]
    ELSE IF b.status = 1 THEN [b EXCEPT !.countdown = b.off_length, !.status = 0]
    ELSE [b EXCEPT !.countdown = b.on_length, !.status = 1]

Changes(b) == ~Positive(Lower(b.countdown))

(* mp1_rtc_tasklet: every element, in list order: at a location the last   *)
(* one that changes decides.                                               *)
Tasklet ==
    /\ Ends
    /\ blink_array' = [i \in Node |-> IF i \in OnList THEN Ticked(blink_array[i]) ELSE blink_array[i]]
    /\ shown' = [l \in 0 .. Limit - 1 |->
          LET writers == {i \in OnList : blink_array[i].location = l /\ Changes(blink_array[i])}
          IN  IF writers = {} THEN shown[l]
              ELSE LET w == CHOOSE i \in writers : \A j \in writers : At(j) <= At(i)
                   IN  IF blink_array[w].status = 1 THEN "off" ELSE "on"]
    /\ UNCHANGED <<mp1_list_head, unsure, pair>>

BlinkNext ==
    \/ \E l \in Locations, on \in OnLengths, off \in OffLengths : Add(l, on, off)
    \/ \E l \in Locations : AddFails(l) \/ Remove(l) \/ RemoveFails(l)
    \/ \E m, l \in Locations : Sync(m, l) \/ SyncFails(m, l)
    \/ Tasklet

BlinkSpec == BlinkInit /\ [][BlinkNext]_blinkVars

----------------------------------------------------------------------------
(* Types of the array, the head and the screen.                            *)
Struct ==
    [location : 0 .. Limit - 1, on_length : Short, off_length : Short,
     countdown : Short, status : {0, 1}, next : Node \cup {NULL}]

BlinkTypeOK ==
    /\ blink_array \in [Node -> Struct]
    /\ mp1_list_head \in Node \cup {NULL}
    /\ shown \in [0 .. Limit - 1 -> {"old", "on", "off"}]
    /\ unsure \subseteq 0 .. Limit - 1

(* The list ends, and its elements are exactly the entries that mp1_malloc *)
(* takes for used: no new item is inserted that is on the list already,    *)
(* none is lost by a removal.                                              *)
ListSound == Ends /\ OnList = {i \in Node : blink_array[i].location # 0}

(* Inserting an item at the front of the list leaves a list that ends.     *)
ListEnds == Ends

(* Two locations that have been synchronised keep changing together.       *)
StayInStep ==
    pair # <<>> => \A i, j \in Node :
        IsFound(i, pair[1]) /\ IsFound(j, pair[2]) =>
            /\ blink_array[i].countdown = blink_array[j].countdown
            /\ blink_array[i].status = blink_array[j].status

(* The screen shows the character of the element's status, wherever sync,  *)
(* which displays the wrong one, and other elements have not written.      *)
ShownIsStatus ==
    \A i \in OnList : LET b == blink_array[i]
                      IN  b.location \notin unsure => shown[b.location] = (IF b.status = 1 THEN "on" ELSE "off")

----------------------------------------------------------------------------
(* The inductive invariant behind the three.                               *)
Used == {i \in Node : blink_array[i].location # 0}

(* q names the elements of the list from its head to its end, each once,   *)
(* and they are the used entries.                                          *)
IsList(len, q) ==
    /\ mp1_list_head = IF len = 0 THEN NULL ELSE q[1]
    /\ \A k \in 1 .. len : blink_array[q[k]].next = IF k = len THEN NULL ELSE q[k + 1]
    /\ \A j, k \in 1 .. len : q[j] = q[k] => j = k
    /\ \A k \in 1 .. len : q[k] \in Used
    /\ \A i \in Used : \E k \in 1 .. len : q[k] = i

Lined == \E len \in 0 .. Size : \E q \in [1 .. len -> Node] : IsList(len, q)

(* Where neither sync nor a second element has written there is only one.  *)
OneWriter ==
    \A i, j \in Used :
        blink_array[i].location = blink_array[j].location /\ blink_array[i].location \notin unsure => i = j

(* What makes two elements change together from now on.                    *)
Alike(a, b) ==
    /\ a.countdown = b.countdown /\ a.status = b.status
    /\ a.on_length = b.on_length /\ a.off_length = b.off_length

Paired ==
    pair # <<>> => \A i, j \in Node :
        IsFound(i, pair[1]) /\ IsFound(j, pair[2]) => Alike(blink_array[i], blink_array[j])

UsedShown ==
    \A i \in Used : LET b == blink_array[i]
                    IN  b.location \notin unsure => shown[b.location] = (IF b.status = 1 THEN "on" ELSE "off")

BlinkInv == BlinkTypeOK /\ Lined /\ OneWriter /\ Paired /\ UsedShown
============================================================================
