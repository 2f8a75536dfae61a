--------------------------- MODULE ProgramProofs ---------------------------
(***************************************************************************)
(* Theorems about Program: what a program reaches in memory, and what      *)
(* getargs gives it, for any number of pages, processes and commands.      *)
(***************************************************************************)
EXTENDS Program, SequenceTheorems, WellFoundedInduction, TLAPS

----------------------------------------------------------------------------
(* Pages                                                                   *)

LEMMA DirFacts ==
    /\ 0 \in Dir /\ 1 \in Dir /\ 2 \in Dir /\ USER_IDX \in Dir /\ VID_IDX \in Dir
    /\ USER_IDX = 32 /\ VID_IDX = 33
    /\ \A d \in Dir : d \in {0, 1, 2, 32, 33}
    /\ 0 \in Index /\ 33 \in Index /\ VIDEO \in Index /\ 0 \in Proc
    /\ N \in Nat /\ VIDEO \in Nat /\ NumProc \in Nat /\ FirstShells \subseteq Proc
    /\ \A p \in Proc : p \in Nat
  BY PagingAssumption DEF Dir, USER_IDX, VID_IDX, Index, Proc

LEMMA PageInit == Init => PageInv
  <1>. SUFFICES ASSUME Init PROVE PageInv
    OBVIOUS
  <1>. USE DirFacts
  <1>1. /\ page_directory[0] = LowMem /\ page_directory[1] = Kernel
        /\ page_directory[2] = Absent /\ page_directory[USER_IDX] = UserPage(pid[top])
        /\ page_directory[VID_IDX] = Absent
        /\ DOMAIN page_directory = Dir
    BY DEF Init, PageSwitch
  <1>2. \A i \in Index : TableEntry(i) \in [present : {0, 1}, user : {0, 1}, frame : Index]
    BY PagingAssumption DEF TableEntry, IsVideo, Index
  <1>3. TypeOK
    <2>1. ProgramBase(0) \in {ProgramBase(p) : p \in Proc}
      OBVIOUS
    <2>2. page_directory \in [Dir -> [present : {0, 1}, user : {0, 1}, kind : {"4kb", "4mb"},
                                      base : {0, N} \cup {ProgramBase(p) : p \in Proc}]]
      BY <1>1, <2>1 DEF LowMem, Kernel, Absent, UserPage, Init, PageSwitch
    <2>. QED  BY <1>2, <2>2 DEF TypeOK, Init
  <1>4. Links
    BY DEF Links, Init
  <1>. QED  BY <1>1, <1>3, <1>4 DEF PageInv, Directory, VideoPage, Init

(* page_switch changes the program's directory entry only.                 *)
LEMMA PageSwitchInv ==
    ASSUME PageInv, NEW id \in Proc, page_directory' = PageSwitch(page_directory, id),
           id = pid'[top'], UNCHANGED <<page_table, vidmap_pt>>, mapped' \subseteq mapped,
           top' \in Proc, pid' \in [Proc -> Proc], parent' \in [Proc -> Proc \cup {None}]
    PROVE  TypeOK' /\ Directory' /\ VideoPage'
  <1>. USE DirFacts
  <1>1. TypeOK /\ Directory /\ VideoPage
    BY DEF PageInv
  <1>2. /\ \A d \in Dir : page_directory'[d] = IF d = USER_IDX THEN UserPage(id) ELSE page_directory[d]
        /\ page_directory' \in [Dir -> [present : {0, 1}, user : {0, 1}, kind : {"4kb", "4mb"},
                                      base : {0, N} \cup {ProgramBase(p) : p \in Proc}]]
    BY <1>1 DEF PageSwitch, UserPage, TypeOK
  <1>3. TypeOK'
    BY <1>1, <1>2 DEF TypeOK
  <1>4. Directory'
    BY <1>1, <1>2 DEF Directory
  <1>5. VideoPage'
    BY <1>1, <1>2 DEF VideoPage
  <1>. QED  BY <1>3, <1>4, <1>5

(* execute writes its caller's pid, or none, and starts p with its own.    *)
LEMMA ExecutePages ==
    ASSUME PageInv, NEW first \in FirstShells, Execute(first)
    PROVE  PageInv'
  <1>. USE DirFacts
  <1>. DEFINE p == top + 1
  <1>1. TypeOK /\ Links
    BY DEF PageInv
  <1>2. /\ p \in Proc /\ top' = p /\ page_directory' = PageSwitch(page_directory, p)
        /\ pid' = [q \in Proc |-> IF q = parent[p] THEN first ELSE IF q = p THEN p ELSE pid[q]]
        /\ parent' = [parent EXCEPT ![p] = top]
        /\ UNCHANGED <<page_table, vidmap_pt, mapped>>
    BY DEF Execute, WrittenPid
  <1>3. top \in Proc /\ p # 0 /\ parent[p] \in {None, top}
    BY <1>1, <1>2 DEF TypeOK, Links
  <1>4. /\ pid \in [Proc -> Proc] /\ parent \in [Proc -> Proc \cup {None}]
        /\ parent[p] # p
    BY <1>1, <1>3, <1>2 DEF TypeOK, None
  <1>5. /\ pid' \in [Proc -> Proc] /\ pid'[p] = p
        /\ parent' \in [Proc -> Proc \cup {None}]
    BY <1>2, <1>3, <1>4
  <1>6. Links'
    <2>1. ASSUME NEW q \in Proc \ {0}
          PROVE  parent'[q] \in {None, q - 1} /\ (q <= p => parent'[q] = q - 1)
      <3>1. CASE q = p
        BY <1>2, <1>4, <3>1, <1>3
      <3>2. CASE q # p
        <4>1. parent'[q] = parent[q] /\ (q <= p => q <= top)
          BY <1>2, <1>3, <1>4, <3>2
        <4>. QED  BY <1>1, <4>1 DEF Links
      <3>. QED  BY <3>1, <3>2
    <2>2. ASSUME NEW q \in 0 .. p
          PROVE  pid'[q] \in {q} \cup FirstShells
      <3>1. q \in Proc /\ (q = p \/ q \in 0 .. top)
        BY <1>2, <1>3 DEF Proc
      <3>2. q = p \/ pid'[q] = first \/ pid'[q] = pid[q]
        BY <1>2, <3>1
      <3>. QED  BY <1>1, <1>5, <3>1, <3>2 DEF Links
    <2>. QED  BY <1>2, <2>1, <2>2 DEF Links
  <1>7. TypeOK' /\ Directory' /\ VideoPage'
    BY <1>2, <1>5, PageSwitchInv
  <1>. QED  BY <1>6, <1>7 DEF PageInv

LEMMA HaltPages ==
    ASSUME PageInv, Halt
    PROVE  PageInv'
  <1>. USE DirFacts
  <1>1. TypeOK /\ Links
    BY DEF PageInv
  <1>2. /\ top > 0 /\ top' = parent[top] /\ mapped' = mapped \ {top}
        /\ page_directory' = PageSwitch(page_directory, pid[parent[top]])
        /\ UNCHANGED <<page_table, vidmap_pt, pid, parent>>
    BY DEF Halt
  <1>3. top \in Proc /\ parent[top] = top - 1 /\ top - 1 \in Proc
    BY <1>1, <1>2 DEF TypeOK, Links, Proc
  <1>4. Links'
    BY <1>1, <1>2, <1>3 DEF Links
  <1>5. TypeOK' /\ Directory' /\ VideoPage'
    <2>1. /\ pid' \in [Proc -> Proc] /\ parent' \in [Proc -> Proc \cup {None}]
          /\ pid[parent[top]] = pid'[top'] /\ pid[parent[top]] \in Proc
      BY <1>1, <1>2, <1>3 DEF TypeOK
    <2>. QED  BY <1>2, <1>3, <2>1, PageSwitchInv
  <1>. QED  BY <1>4, <1>5 DEF PageInv

LEMMA VidmapInv ==
    ASSUME PageInv, Vidmap
    PROVE  PageInv'
  <1>. USE DirFacts
  <1>1. TypeOK /\ Directory /\ VideoPage
    BY DEF PageInv
  <1>2. /\ page_directory' = [page_directory EXCEPT ![VID_IDX] = VidmapPage]
        /\ page_table' = [page_table EXCEPT ![VID_IDX] = VideoEntry]
        /\ vidmap_pt' = [vidmap_pt EXCEPT ![0] = VideoEntry]
        /\ mapped' = mapped \cup {top} /\ UNCHANGED <<pid, parent, top>>
    BY DEF Vidmap, VideoFrame, VidmapPage, VideoEntry
  <1>3. TypeOK'
    <2>1. VidmapPage \in [present : {0, 1}, user : {0, 1}, kind : {"4kb", "4mb"},
                          base : {0, N} \cup {ProgramBase(p) : p \in Proc}]
      BY DEF VidmapPage
    <2>2. VideoEntry \in [present : {0, 1}, user : {0, 1}, frame : Index]
      BY DEF VideoEntry
    <2>. QED  BY <1>1, <1>2, <2>1, <2>2 DEF TypeOK
  <1>4. Directory'
    BY <1>1, <1>2 DEF Directory, TypeOK
  <1>5. VideoPage'
    BY <1>1, <1>2 DEF VideoPage, TypeOK
  <1>6. Links'
    BY <1>2 DEF PageInv, Links
  <1>. QED  BY <1>3, <1>4, <1>5, <1>6 DEF PageInv

LEMMA PageNext ==
    ASSUME PageInv, [Next]_vars
    PROVE  PageInv'
  <1>1. CASE UNCHANGED vars
    BY <1>1 DEF vars, PageInv, TypeOK, Directory, VideoPage, Links
  <1>2. ASSUME NEW first \in FirstShells, Execute(first)
        PROVE  PageInv'
    BY <1>2, ExecutePages
  <1>3. CASE Halt
    BY <1>3, HaltPages
  <1>4. CASE Vidmap
    BY <1>4, VidmapInv
  <1>. QED  BY <1>1, <1>2, <1>3, <1>4 DEF Next, VidmapFails, Astray

(* What the MMU does with a directory that satisfies PageInv.              *)
LEMMA Confined ==
    ASSUME PageInv
    PROVE  UserConfined /\ ScreenStaysMapped
  <1>. USE DirFacts
  <1>. DEFINE id == pid[top]
  <1>1. TypeOK /\ Directory /\ VideoPage
    BY DEF PageInv
  <1>2. ASSUME NEW d \in Dir, NEW k \in Index
        PROVE  Reach(d, k, 1) = (IF d = USER_IDX THEN 2 * N + id * N + k
                                 ELSE IF d = VID_IDX /\ k = 0 /\ Reach(d, k, 1) # Fault THEN VIDEO
                                 ELSE Fault)
    <2>1. CASE d \in {0, 1, 2}
      BY <1>1, <2>1 DEF Reach, Directory, LowMem, Kernel, Absent
    <2>2. CASE d = USER_IDX
      BY <1>1, <2>2 DEF Reach, Directory, UserPage, ProgramBase
    <2>3. CASE d = VID_IDX
      BY <1>1, <2>3 DEF Reach, Table, Directory, VideoPage, Absent, VidmapPage, VideoEntry
    <2>. QED  BY <2>1, <2>2, <2>3
  <1>3. top \in mapped => Reach(VID_IDX, 0, 1) = VIDEO
    BY <1>1 DEF VideoPage, Reach, Table, VidmapPage, VideoEntry
  <1>4. id \in {top} \cup FirstShells
    <2>1. top \in 0 .. top
      BY DEF PageInv, TypeOK, Proc
    <2>. QED  BY <2>1 DEF PageInv, Links
  <1>. HIDE DEF id
  <1>5. UserConfined
    BY <1>2, <1>4 DEF UserConfined, id
  <1>. QED  BY <1>3, <1>5 DEF ScreenStaysMapped

(* A step of a program is a step of Paging, or none.                       *)
LEMMA ProgStepPages ==
    ASSUME [ProgNext]_<<vars, argVars>>
    PROVE  [Next]_vars
  BY DEF ProgNext, ProgExecute, ProgExecuteFails, ProgGetargs, ProgVidmap, ProgHalt,
         ProgAstray, Next, VidmapFails, Astray, vars, pageVars, Cmd!ExecuteFails, Cmd!getargs

LEMMA PagesAlways == ProgSpec => []PageInv
  <1>1. ProgInit => PageInv
    BY PageInit DEF ProgInit
  <1>2. PageInv /\ [ProgNext]_<<vars, argVars>> => PageInv'
    BY ProgStepPages, PageNext
  <1>. QED  BY <1>1, <1>2, PTL DEF ProgSpec

(* User code reaches one program's frame, its own or the first shell's of  *)
(* a terminal, and the video page, and nothing else, in every nesting of   *)
(* execute, vidmap and halt, though halt maps what the parent's pid names. *)
THEOREM UserAlwaysConfined == ProgSpec => []UserConfined
  <1>1. PageInv => UserConfined
    BY Confined
  <1>. QED  BY <1>1, PagesAlways, PTL

(* What vidmap has mapped stays mapped while its caller lives.             *)
THEOREM ScreenAlwaysMapped == ProgSpec => []ScreenStaysMapped
  <1>1. PageInv => ScreenStaysMapped
    BY Confined
  <1>. QED  BY <1>1, PagesAlways, PTL

----------------------------------------------------------------------------
(* Command lines.  The loops of execute stop at the first character of a   *)
(* kind: that there is a first one is the well-ordering of the naturals.   *)
LEMMA Least ==
    ASSUME NEW T, T \subseteq Nat, NEW n \in T
    PROVE  \E x \in T : \A y \in T : x <= y
  <1>. DEFINE R == {ss \in Nat \X Nat : ss[1] < ss[2]}
  <1>1. IsWellFoundedOn(R, Nat)
    BY NatLessThanWellFounded, Zenon DEF OpToRel
  <1>2. \A x, y \in Nat : y < x => <<y, x>> \in R
    OBVIOUS
  <1>. HIDE DEF R
  <1>3. \E x \in T : \A y \in T : ~(<<y, x>> \in R)
    BY <1>1, WFMin, Zenon
  <1>4. PICK x \in T : \A y \in T : ~(<<y, x>> \in R)
    BY <1>3
  <1>5. \A y \in T : ~(y < x)
    BY <1>2, <1>4
  <1>. QED  BY <1>5

Chars == Letters \cup {" ", "nl"}

LEMMA SizeFacts ==
    /\ NAMESIZE \in Nat /\ NAMESIZE > 0 /\ ARGSIZE \in Nat /\ ARGSIZE > 0
    /\ NumProc \in Nat /\ NumProc > 0 /\ Counts \subseteq Int
    /\ \A name \in Programs : Len(name) < NAMESIZE
  <1>1. /\ NAMESIZE \in Nat \ {0} /\ ARGSIZE \in Nat \ {0}
        /\ NumProc \in Nat \ {0} /\ Counts \subseteq Int
        /\ \A name \in Programs : Len(name) < NAMESIZE
    BY ProgramAssumption, Zenon DEF Cmd!ArgsConstants
  <1>. QED  BY <1>1

LEMMA CharFacts ==
    /\ \A ch \in Letters : ch # " " /\ ch # "nl" /\ ch # "nul"
    /\ \A ch \in Chars : ch # "nul"
  BY ProgramAssumption DEF Cmd!ArgsConstants, Chars

LEMMA CommandFacts ==
    ASSUME NEW c \in Commands \cup {<<>>}
    PROVE  /\ c \in Seq(Chars) /\ Len(c) \in Nat
           /\ c \in Commands => Len(c) < ARGSIZE
  <1>1. CASE c \in Commands
    <2>1. c \in Seq(Chars) /\ Len(c) < ARGSIZE
      BY <1>1, ProgramAssumption DEF Cmd!ArgsConstants, Chars
    <2>. QED  BY <2>1, LenProperties
  <1>2. CASE c = <<>> /\ c \notin Commands
    BY <1>2, EmptySeq
  <1>. QED  BY <1>1, <1>2

LEMMA AtFacts ==
    ASSUME NEW c \in Seq(Chars), NEW k \in Nat
    PROVE  /\ Len(c) \in Nat
           /\ k < Len(c) => /\ Cmd!At(c, k) = c[k + 1]
                            /\ Cmd!At(c, k) \in Chars /\ Cmd!At(c, k) # "nul"
           /\ k >= Len(c) => Cmd!At(c, k) = "nul"
  <1>1. Len(c) \in Nat
    BY LenProperties
  <1>2. k < Len(c) => c[k + 1] \in Chars
    BY <1>1, ElementOfSeq
  <1>3. CASE k < Len(c)
    <2>1. Cmd!At(c, k) = c[k + 1]
      BY <1>3 DEF Cmd!At
    <2>2. c[k + 1] # "nul"
      BY <1>2, <1>3, CharFacts, Zenon
    <2>. QED  BY <1>1, <1>2, <1>3, <2>1, <2>2
  <1>4. CASE ~(k < Len(c))
    BY <1>1, <1>4 DEF Cmd!At
  <1>. QED  BY <1>1, <1>3, <1>4

(* The length of the name is the index of the first character that ends it. *)
LEMMA NameLenFacts ==
    ASSUME NEW c \in Seq(Chars)
    PROVE  /\ Cmd!NameLen(c) \in 0 .. NAMESIZE /\ Cmd!NameLen(c) <= Len(c)
           /\ Cmd!NameStops(c, Cmd!NameLen(c))
           /\ \A k \in 0 .. Cmd!NameLen(c) - 1 : ~Cmd!NameStops(c, k)
  <1>. DEFINE T == {k \in Nat : Cmd!NameStops(c, k)}
  <1>1. NAMESIZE \in T /\ Len(c) \in T /\ T \subseteq Nat
    <2>1. Len(c) \in Nat /\ Cmd!At(c, Len(c)) = "nul"
      BY LenProperties, AtFacts
    <2>. QED  BY <2>1, SizeFacts DEF Cmd!NameStops
  <1>2. PICK n \in T : \A k \in T : n <= k
    BY <1>1, Least
  <1>3. n \in 0 .. NAMESIZE /\ Cmd!NameStops(c, n) /\ \A k \in 0 .. n - 1 : ~Cmd!NameStops(c, k)
    BY <1>1, <1>2
  <1>4. /\ Cmd!NameLen(c) \in 0 .. NAMESIZE
        /\ Cmd!NameStops(c, Cmd!NameLen(c))
        /\ \A k \in 0 .. Cmd!NameLen(c) - 1 : ~Cmd!NameStops(c, k)
    BY <1>3 DEF Cmd!NameLen
  <1>. QED  BY <1>1, <1>4, SizeFacts

(* The line ends at its first newline, or with the command.                *)
LEMMA LineFacts ==
    ASSUME NEW c \in Seq(Chars)
    PROVE  /\ Cmd!Line(c) \in 0 .. Len(c)
           /\ Cmd!At(c, Cmd!Line(c)) \in {"nl", "nul"}
           /\ \A k \in 0 .. Cmd!Line(c) - 1 : Cmd!At(c, k) \notin {"nl", "nul"}
  <1>. DEFINE T == {k \in Nat : Cmd!At(c, k) \in {"nl", "nul"}}
  <1>1. Len(c) \in T /\ T \subseteq Nat
    BY AtFacts
  <1>2. PICK n \in T : \A k \in T : n <= k
    BY <1>1, Least
  <1>3. n \in 0 .. Len(c) /\ Cmd!At(c, n) \in {"nl", "nul"} /\ \A k \in 0 .. n - 1 : Cmd!At(c, k) # "nl"
    BY <1>1, <1>2
  <1>4. /\ Cmd!Line(c) \in 0 .. Len(c)
        /\ Cmd!At(c, Cmd!Line(c)) \in {"nl", "nul"}
        /\ \A k \in 0 .. Cmd!Line(c) - 1 : Cmd!At(c, k) # "nl"
    BY <1>3 DEF Cmd!Line
  <1>5. ASSUME NEW k \in 0 .. Cmd!Line(c) - 1
        PROVE  Cmd!At(c, k) # "nul"
    BY <1>4, AtFacts
  <1>. QED  BY <1>4, <1>5

(* The name of a program that has been started ends before cmds does.      *)
LEMMA StartedFacts ==
    ASSUME NEW c, Cmd!Started(c)
    PROVE  /\ c \in Seq(Chars) /\ Len(c) \in Nat
           /\ Cmd!At(c, Cmd!NameLen(c)) \in {"nul", " ", "nl"}
  <1>1. c \in Seq(Chars) /\ Len(c) \in Nat
    BY CommandFacts DEF Cmd!Started
  <1>2. CASE c = <<>>
    <2>1. Len(c) = 0 /\ Cmd!At(c, 0) = "nul"
      <3>1. Len(c) = 0
        BY <1>2, EmptySeq, Zenon
      <3>2. 0 \in Nat /\ 0 >= Len(c)
        BY <3>1
      <3>. QED  BY <1>1, <3>1, <3>2, AtFacts, Zenon
    <2>2. Cmd!NameLen(c) \in Nat /\ Cmd!NameLen(c) <= Len(c)
      BY <1>1, SizeFacts, NameLenFacts
    <2>3. Cmd!NameLen(c) = 0
      BY <2>1, <2>2
    <2>. QED  BY <1>1, <2>1, <2>3, Zenon
  <1>3. CASE Cmd!Name(c) \in Programs
    <2>1. \A k \in 1 .. Cmd!NameLen(c) : c[k] \in Chars
      BY <1>1, NameLenFacts, SizeFacts, ElementOfSeq
    <2>2. Len(Cmd!Name(c)) = Cmd!NameLen(c)
      BY <1>1, <2>1, NameLenFacts, SizeFacts, SubSeqProperties DEF Cmd!Name
    <2>3. Cmd!NameLen(c) # NAMESIZE
      BY <1>3, <2>2, SizeFacts
    <2>. QED  BY <1>1, <2>3, NameLenFacts DEF Cmd!NameStops
  <1>. QED  BY <1>1, <1>2, <1>3 DEF Cmd!Started

(* arg_dat is what follows the blank behind the name, to the line's end.   *)
LEMMA ArgDatFacts ==
    ASSUME NEW c, Cmd!Started(c)
    PROVE  LET n == Cmd!NameLen(c)
               end == Cmd!Line(c)
               rest == Cmd!ArgDat(c)
           IN  /\ rest \in Seq(Chars)
               /\ n \in Nat /\ end \in Nat /\ n <= end /\ end <= Len(c)
               /\ \A k \in 1 .. n : c[k] # " "
               /\ \/ /\ n < end /\ c[n + 1] = " "
                     /\ Len(rest) = end - n - 1
                     /\ rest = SubSeq(c, n + 2, end)
                     /\ \A k \in 1 .. end - n - 1 : rest[k] = c[n + 1 + k]
                  \/ n = end /\ rest = <<>>
  <1>. DEFINE n == Cmd!NameLen(c)
              end == Cmd!Line(c)
              rest == Cmd!ArgDat(c)
  <1>1. c \in Seq(Chars) /\ Len(c) \in Nat
    BY StartedFacts
  <1>2. n \in Nat /\ n <= Len(c)
    BY <1>1, NameLenFacts, SizeFacts
  <1>3. /\ Cmd!At(c, n) \in {"nul", " ", "nl"}
        /\ \A k \in 0 .. n - 1 : Cmd!At(c, k) \notin {"nul", " ", "nl"}
    BY <1>1, StartedFacts, NameLenFacts, Zenon DEF Cmd!NameStops
  <1>4. end \in Nat /\ end <= Len(c)
    <2>1. end \in 0 .. Len(c)
      BY <1>1, LineFacts
    <2>. QED  BY <1>1, <2>1
  <1>5. /\ Cmd!At(c, end) \in {"nl", "nul"}
        /\ \A k \in 0 .. end - 1 : Cmd!At(c, k) \notin {"nl", "nul"}
    BY <1>1, LineFacts, Zenon
  <1>6. n <= end
    <2>1. end \notin 0 .. n - 1
      BY <1>3, <1>5, Zenon
    <2>. HIDE DEF n, end
    <2>. QED  BY <1>2, <1>4, <2>1
  <1>. HIDE DEF n, end
  <1>7. ASSUME NEW k \in 1 .. n
        PROVE  c[k] # " "
    <2>1. k - 1 \in Nat /\ k - 1 < Len(c) /\ k - 1 \in 0 .. n - 1 /\ k - 1 + 1 = k
      BY <1>1, <1>2
    <2>2. Cmd!At(c, k - 1) = c[k - 1 + 1]
      BY <1>1, <2>1, AtFacts, Zenon
    <2>. QED  BY <1>3, <2>1, <2>2, Zenon
  <1>8. rest = IF Cmd!At(c, n) = " " THEN SubSeq(c, n + 2, Cmd!ArgStop(c, n + 1)) ELSE <<>>
    BY DEF Cmd!ArgDat, n
  <1>. HIDE DEF rest
  <1>10. CASE Cmd!At(c, n) = " "
    <2>1. n # end
      BY <1>5, <1>10, Zenon
    <2>2. n < end /\ n < Len(c)
      BY <1>1, <1>2, <1>4, <1>6, <2>1
    <2>3. c[n + 1] = " "
      BY <1>1, <1>2, <1>10, <2>2, AtFacts, Zenon
    <2>. DEFINE Stop(k) == /\ Cmd!ArgEnd(c, k)
                           /\ \A i \in n + 1 .. k - 1 : ~Cmd!ArgEnd(c, i)
    <2>4. end \in n + 1 .. Len(c) + 1
      BY <1>1, <1>2, <1>4, <2>2
    <2>5. Stop(end)
      <3>1. n + 1 .. end - 1 \subseteq 0 .. end - 1
        BY <1>2, <1>4
      <3>. QED  BY <1>5, <3>1, Zenon DEF Cmd!ArgEnd
    <2>6. ASSUME NEW k \in n + 1 .. Len(c) + 1, Stop(k)
          PROVE  k = end
      <3>1. k \notin n + 1 .. end - 1 /\ end \notin n + 1 .. k - 1
        BY <2>5, <2>6, Zenon
      <3>. HIDE DEF Stop
      <3>. QED  BY <1>1, <1>2, <1>4, <2>4, <3>1
    <2>7. Cmd!ArgStop(c, n + 1) = end
      <3>. DEFINE lo == n + 1
      <3>1. Cmd!ArgStop(c, lo) \in lo .. Len(c) + 1 /\ Stop(Cmd!ArgStop(c, lo))
        BY <2>4, <2>5 DEF Cmd!ArgStop
      <3>. HIDE DEF Stop
      <3>. QED  BY <2>6, <3>1, Zenon
    <2>. HIDE DEF Stop
    <2>9. rest = SubSeq(c, n + 2, end)
      BY <1>8, <1>10, <2>7, Zenon
    <2>10. ASSUME NEW k \in n + 2 .. end
           PROVE  c[k] \in Chars
      <3>1. k \in 1 .. Len(c)
        BY <1>1, <1>2, <1>4
      <3>. QED  BY <1>1, <3>1, ElementOfSeq
    <2>11. n + 2 \in Int /\ end \in Int
      BY <1>2, <1>4
    <2>12. /\ rest \in Seq(Chars)
           /\ Len(rest) = IF n + 2 <= end THEN end - (n + 2) + 1 ELSE 0
           /\ \A k \in 1 .. end - (n + 2) + 1 : rest[k] = c[n + 2 + k - 1]
      <3>. DEFINE lo == n + 2
      <3>1. lo \in Int /\ end \in Int /\ \A k \in lo .. end : c[k] \in Chars
        BY <2>10, <2>11, Zenon
      <3>. HIDE DEF lo
      <3>2. /\ SubSeq(c, lo, end) \in Seq(Chars)
            /\ Len(SubSeq(c, lo, end)) = IF lo <= end THEN end - lo + 1 ELSE 0
            /\ \A k \in 1 .. end - lo + 1 : SubSeq(c, lo, end)[k] = c[lo + k - 1]
        BY <3>1, SubSeqProperties
      <3>. QED  BY <2>9, <3>2, Zenon DEF lo
    <2>13. Len(rest) = end - n - 1
      BY <1>2, <1>4, <2>2, <2>12
    <2>14. ASSUME NEW k \in 1 .. end - n - 1
           PROVE  rest[k] = c[n + 1 + k]
      <3>1. k \in 1 .. end - (n + 2) + 1 /\ n + 2 + k - 1 = n + 1 + k
        BY <1>2, <1>4
      <3>. QED  BY <2>12, <3>1, Zenon
    <2>. QED
      BY <1>2, <1>4, <1>6, <1>7, <2>2, <2>3, <2>9, <2>12, <2>13, <2>14, Zenon DEF n, end, rest
  <1>11. CASE Cmd!At(c, n) # " "
    <2>1. rest = <<>>
      BY <1>8, <1>11, Zenon
    <2>2. n \notin 0 .. end - 1
      BY <1>3, <1>5, <1>11, Zenon
    <2>3. n = end
      BY <1>2, <1>4, <1>6, <2>2
    <2>4. rest \in Seq(Chars)
      BY <2>1, EmptySeq
    <2>. QED  BY <1>2, <1>4, <1>6, <1>7, <2>1, <2>3, <2>4, Zenon DEF n, end, rest
  <1>. QED  BY <1>10, <1>11

LEMMA SubSeqSame ==
    ASSUME NEW S, NEW s, NEW t, NEW lo \in Int, NEW hi \in Int,
           \A k \in lo .. hi : s[k] \in S /\ t[k] = s[k]
    PROVE  SubSeq(s, lo, hi) = SubSeq(t, lo, hi)
  <1>1. \A k \in lo .. hi : s[k] \in S
    OBVIOUS
  <1>2. \A k \in lo .. hi : t[k] \in S
    OBVIOUS
  <1>3. /\ SubSeq(s, lo, hi) \in Seq(S)
        /\ Len(SubSeq(s, lo, hi)) = IF lo <= hi THEN hi - lo + 1 ELSE 0
        /\ \A k \in 1 .. hi - lo + 1 : SubSeq(s, lo, hi)[k] = s[lo + k - 1]
    BY <1>1, SubSeqProperties
  <1>4. /\ SubSeq(t, lo, hi) \in Seq(S)
        /\ Len(SubSeq(t, lo, hi)) = IF lo <= hi THEN hi - lo + 1 ELSE 0
        /\ \A k \in 1 .. hi - lo + 1 : SubSeq(t, lo, hi)[k] = t[lo + k - 1]
    BY <1>2, SubSeqProperties
  <1>. DEFINE a == SubSeq(s, lo, hi)
              b == SubSeq(t, lo, hi)
  <1>. HIDE DEF a, b
  <1>5. ASSUME NEW k \in 1 .. Len(a)
        PROVE  a[k] = b[k]
    <2>1. k \in 1 .. hi - lo + 1 /\ lo + k - 1 \in lo .. hi
      BY <1>3 DEF a
    <2>. QED  BY <1>3, <1>4, <2>1 DEF a, b
  <1>6. a \in Seq(S) /\ b \in Seq(S) /\ Len(a) = Len(b)
    BY <1>3, <1>4 DEF a, b
  <1>7. a = b
    BY <1>5, <1>6, SeqEqual
  <1>. QED  BY <1>7 DEF a, b

(* What execute keeps of a command is what follows its first blank, and    *)
(* there is only one such text.                                            *)
LEMMA ArgDatFollows ==
    ASSUME NEW c, Cmd!Started(c)
    PROVE  /\ Cmd!FollowsBlank(c, Cmd!ArgDat(c))
           /\ \A rest : Cmd!FollowsBlank(c, rest) => rest = Cmd!ArgDat(c)
  <1>. DEFINE n == Cmd!NameLen(c)
              end == Cmd!Line(c)
              dat == Cmd!ArgDat(c)
              line == SubSeq(c, 1, end)
              First(i) == /\ i \in 1 .. Len(line) /\ line[i] = " "
                          /\ \A k \in 1 .. i - 1 : line[k] # " "
              NoBlank == \A k \in 1 .. Len(line) : line[k] # " "
  <1>1. c \in Seq(Chars) /\ Len(c) \in Nat
    BY StartedFacts
  <1>2. /\ n \in Nat /\ end \in Nat /\ n <= end /\ end <= Len(c)
        /\ \A k \in 1 .. n : c[k] # " "
        /\ \/ n < end /\ c[n + 1] = " " /\ dat = SubSeq(c, n + 2, end)
           \/ n = end /\ dat = <<>>
    BY ArgDatFacts, Zenon
  <1>3. \A rest : Cmd!FollowsBlank(c, rest) <=>
            \/ \E i \in 1 .. Len(line) : First(i) /\ rest = SubSeq(line, i + 1, Len(line))
            \/ rest = <<>> /\ NoBlank
    BY DEF Cmd!FollowsBlank
  <1>. HIDE DEF n, end, dat
  <1>4. n \in Nat /\ end \in Nat /\ n <= end /\ end <= Len(c)
    BY <1>2
  <1>5. ASSUME NEW k \in 1 .. end
        PROVE  c[k] \in Chars
    BY <1>1, <1>4, ElementOfSeq
  <1>6. Len(line) = end /\ \A k \in 1 .. end : line[k] = c[k]
    <2>1. /\ Len(line) = IF 1 <= end THEN end - 1 + 1 ELSE 0
          /\ \A k \in 1 .. end - 1 + 1 : line[k] = c[1 + k - 1]
      BY <1>4, <1>5, SubSeqProperties
    <2>. HIDE DEF line
    <2>. QED  BY <1>4, <2>1
  <1>. HIDE DEF line
  <1>7. CASE n < end /\ c[n + 1] = " " /\ dat = SubSeq(c, n + 2, end)
    <2>. DEFINE m == n + 1
    <2>1. /\ m \in 1 .. Len(line) /\ m \in 1 .. end /\ m + 1 = n + 2
          /\ \A k \in 1 .. m - 1 : k \in 1 .. n /\ k \in 1 .. end
      <3>1. n < end
        BY <1>7, Zenon
      <3>. QED  BY <1>4, <1>6, <3>1
    <2>2. First(m)
      <3>1. line[m] = " "
        BY <1>6, <1>7, <2>1, Zenon
      <3>2. \A k \in 1 .. m - 1 : line[k] # " "
        BY <1>2, <1>6, <2>1, Zenon
      <3>. HIDE DEF m
      <3>. QED  BY <2>1, <3>1, <3>2, Zenon
    <2>3. ASSUME NEW i \in 1 .. Len(line), First(i)
          PROVE  i = m
      <3>1. m \notin 1 .. i - 1 /\ i \notin 1 .. n
        BY <1>2, <1>6, <2>1, <2>2, <2>3, Zenon
      <3>. HIDE DEF First
      <3>. QED  BY <1>4, <1>6, <2>1, <3>1
    <2>4. ~NoBlank
      BY <2>1, <2>2, Zenon
    <2>5. dat = SubSeq(line, m + 1, Len(line))
      <3>1. \A k \in n + 2 .. end : c[k] \in Chars /\ line[k] = c[k]
        BY <1>4, <1>5, <1>6
      <3>. DEFINE lo == n + 2
      <3>2. lo \in Int /\ end \in Int
        BY <1>4
      <3>. HIDE DEF lo
      <3>3. SubSeq(c, lo, end) = SubSeq(line, lo, end)
        BY <3>1, <3>2, SubSeqSame DEF lo
      <3>. QED  BY <1>6, <1>7, <2>1, <3>3, Zenon DEF lo
    <2>. HIDE DEF First, NoBlank, m
    <2>6. \A rest : Cmd!FollowsBlank(c, rest) <=> rest = dat
      BY <1>3, <2>1, <2>2, <2>3, <2>4, <2>5, Zenon
    <2>. QED  BY <2>6, Zenon DEF dat
  <1>8. CASE n = end /\ dat = <<>>
    <2>1. NoBlank
      BY <1>2, <1>6, <1>8, Zenon
    <2>2. ASSUME NEW i \in 1 .. Len(line)
          PROVE  ~First(i)
      BY <2>1, Zenon
    <2>. HIDE DEF First, NoBlank
    <2>3. \A rest : Cmd!FollowsBlank(c, rest) <=> rest = dat
      BY <1>3, <1>8, <2>1, <2>2, Zenon
    <2>. QED  BY <2>3, Zenon DEF dat
  <1>. QED  BY <1>2, <1>7, <1>8

(* The arguments fit into a PCB and hold neither newline nor terminator.   *)
LEMMA ArgDatChars ==
    ASSUME NEW c, Cmd!Started(c)
    PROVE  /\ Cmd!ArgDat(c) \in Seq(Chars)
           /\ Len(Cmd!ArgDat(c)) \in Nat /\ Len(Cmd!ArgDat(c)) < ARGSIZE
           /\ \A k \in 1 .. Len(Cmd!ArgDat(c)) :
                 /\ Cmd!ArgDat(c)[k] \in Letters \cup {" "}
                 /\ Cmd!ArgDat(c)[k] # "nul"
  <1>. DEFINE n == Cmd!NameLen(c)
              end == Cmd!Line(c)
              dat == Cmd!ArgDat(c)
  <1>1. c \in Seq(Chars) /\ Len(c) \in Nat
    BY StartedFacts
  <1>2. /\ n \in Nat /\ end \in Nat /\ n <= end /\ end <= Len(c)
        /\ \/ n < end /\ Len(dat) = end - n - 1 /\ \A k \in 1 .. end - n - 1 : dat[k] = c[n + 1 + k]
           \/ n = end /\ dat = <<>>
        /\ dat \in Seq(Chars)
    BY ArgDatFacts, Zenon
  <1>3. \A k \in 0 .. end - 1 : Cmd!At(c, k) \notin {"nl", "nul"}
    BY <1>1, LineFacts, Zenon
  <1>4. c = <<>> \/ Len(c) < ARGSIZE
    BY CommandFacts DEF Cmd!Started
  <1>. HIDE DEF n, end, dat
  <1>5. CASE n = end /\ dat = <<>>
    <2>1. Len(dat) = 0
      BY <1>5, EmptySeq, Zenon
    <2>2. 1 .. Len(dat) = {} /\ Len(dat) \in Nat /\ Len(dat) < ARGSIZE
      BY <2>1, SizeFacts
    <2>. QED  BY <1>2, <2>2, Zenon DEF dat
  <1>6. CASE n < end /\ Len(dat) = end - n - 1 /\ \A k \in 1 .. end - n - 1 : dat[k] = c[n + 1 + k]
    <2>1. Len(dat) \in Nat /\ Len(dat) < Len(c) /\ Len(dat) = end - n - 1
      BY <1>1, <1>2, <1>6
    <2>2. Len(c) < ARGSIZE
      <3>1. c # <<>>
        BY <2>1
      <3>. QED  BY <1>4, <3>1, Zenon
    <2>3. ASSUME NEW k \in 1 .. Len(dat)
          PROVE  dat[k] \in Letters \cup {" "} /\ dat[k] # "nul"
      <3>1. n + k \in Nat /\ n + k < Len(c) /\ n + k \in 0 .. end - 1
            /\ n + k + 1 = n + 1 + k /\ k \in 1 .. end - n - 1
        BY <1>1, <1>2, <1>6
      <3>2. /\ Cmd!At(c, n + k) = c[n + 1 + k]
            /\ Cmd!At(c, n + k) \in Chars
        BY <1>1, <3>1, AtFacts, Zenon
      <3>. QED  BY <1>3, <1>6, <3>1, <3>2, Zenon DEF Chars
    <2>4. Len(dat) < ARGSIZE
      BY <1>1, <2>1, <2>2, SizeFacts
    <2>. QED  BY <1>2, <2>1, <2>3, <2>4, Zenon DEF dat
  <1>. QED  BY <1>2, <1>5, <1>6

(* strcpy leaves the string and its terminator in the array ...            *)
Bytes == Letters \cup {" ", "nul"}
Array == [0 .. ARGSIZE - 1 -> Bytes]

LEMMA StrcpyHolds ==
    ASSUME NEW arr \in Array, NEW c, Cmd!Started(c)
    PROVE  /\ Cmd!strcpy(arr, Cmd!ArgDat(c)) \in Array
           /\ Cmd!Holds(Cmd!strcpy(arr, Cmd!ArgDat(c)), Cmd!ArgDat(c))
  <1>. DEFINE dat == Cmd!ArgDat(c)
              new == Cmd!strcpy(arr, dat)
  <1>1. /\ Len(dat) \in Nat /\ Len(dat) < ARGSIZE
        /\ \A k \in 1 .. Len(dat) : dat[k] \in Bytes
    <2>1. Letters \cup {" "} \subseteq Bytes
      BY DEF Bytes
    <2>. QED  BY <2>1, ArgDatChars, Zenon
  <1>. HIDE DEF dat
  <1>2. new = [k \in 0 .. ARGSIZE - 1 |-> IF k < Len(dat) THEN dat[k + 1]
                                          ELSE IF k = Len(dat) THEN "nul" ELSE arr[k]]
    BY DEF Cmd!strcpy, Array
  <1>3. "nul" \in Bytes
    BY DEF Bytes
  <1>. HIDE DEF new
  <1>4. new \in Array
    <2>1. ASSUME NEW k \in 0 .. ARGSIZE - 1
          PROVE  (IF k < Len(dat) THEN dat[k + 1]
                  ELSE IF k = Len(dat) THEN "nul" ELSE arr[k]) \in Bytes
      <3>1. k < Len(dat) => dat[k + 1] \in Bytes
        BY <1>1, SizeFacts
      <3>2. arr[k] \in Bytes
        BY DEF Array
      <3>. QED  BY <1>3, <3>1, <3>2, Zenon
    <2>. QED  BY <1>2, <2>1, Zenon DEF Array
  <1>5. Cmd!Holds(new, dat)
    <2>1. ASSUME NEW k \in 0 .. Len(dat) - 1
          PROVE  new[k] = dat[k + 1]
      <3>1. k \in 0 .. ARGSIZE - 1 /\ k < Len(dat)
        BY <1>1, SizeFacts
      <3>. QED  BY <1>2, <3>1, Zenon
    <2>2. new[Len(dat)] = "nul"
      <3>1. Len(dat) \in 0 .. ARGSIZE - 1 /\ ~(Len(dat) < Len(dat))
        BY <1>1, SizeFacts
      <3>. QED  BY <1>2, <3>1, Zenon
    <2>. QED  BY <1>1, <2>1, <2>2, Zenon DEF Cmd!Holds
  <1>. QED  BY <1>4, <1>5 DEF new, dat

(* ... and strlen finds it there again.                                    *)
LEMMA StrlenFinds ==
    ASSUME NEW arr \in Array, NEW c, Cmd!Started(c), Cmd!Holds(arr, Cmd!ArgDat(c))
    PROVE  /\ Cmd!strlen(arr) = Len(Cmd!ArgDat(c))
           /\ [k \in 1 .. Cmd!strlen(arr) |-> arr[k - 1]] = Cmd!ArgDat(c)
  <1>. DEFINE dat == Cmd!ArgDat(c)
              len == Len(dat)
              End(n) == arr[n] = "nul" /\ \A k \in 0 .. n - 1 : arr[k] # "nul"
  <1>1. /\ dat \in Seq(Chars) /\ len \in Nat /\ len < ARGSIZE
        /\ \A k \in 1 .. len : dat[k] # "nul"
    BY ArgDatChars, Zenon
  <1>2. arr[len] = "nul" /\ \A k \in 0 .. len - 1 : arr[k] = dat[k + 1]
    BY DEF Cmd!Holds
  <1>. HIDE DEF dat
  <1>3. dat = [k \in 1 .. len |-> dat[k]]
    BY <1>1, LenProperties
  <1>. HIDE DEF len
  <1>4. ASSUME NEW k \in 0 .. len - 1
        PROVE  arr[k] # "nul"
    <2>1. k + 1 \in 1 .. len
      BY <1>1
    <2>. QED  BY <1>1, <1>2, <2>1, Zenon
  <1>5. DOMAIN arr = 0 .. ARGSIZE - 1
    BY Zenon DEF Array
  <1>6. len \in DOMAIN arr /\ End(len)
    <2>1. len \in 0 .. ARGSIZE - 1
      BY <1>1, SizeFacts
    <2>. QED  BY <1>2, <1>4, <1>5, <2>1, Zenon
  <1>7. ASSUME NEW n \in DOMAIN arr, End(n)
        PROVE  n = len
    <2>1. n \notin 0 .. len - 1 /\ len \notin 0 .. n - 1
      BY <1>6, <1>7, Zenon
    <2>. HIDE DEF End
    <2>. QED  BY <1>1, <1>5, <2>1, SizeFacts
  <1>8. Cmd!strlen(arr) = len
    <2>1. Cmd!strlen(arr) \in DOMAIN arr /\ End(Cmd!strlen(arr))
      BY <1>6 DEF Cmd!strlen
    <2>. HIDE DEF End
    <2>. QED  BY <1>7, <2>1, Zenon
  <1>9. [k \in 1 .. len |-> arr[k - 1]] = dat
    <2>1. ASSUME NEW k \in 1 .. len
          PROVE  arr[k - 1] = dat[k]
      <3>1. k - 1 \in 0 .. len - 1 /\ k - 1 + 1 = k
        BY <1>1
      <3>. QED  BY <1>2, <3>1, Zenon
    <2>. QED  BY <1>3, <2>1, Zenon
  <1>. QED  BY <1>8, <1>9, Zenon DEF dat, len

----------------------------------------------------------------------------
(* ArgInv is inductive.                                                    *)
LEMMA ArgTypes ==
    ASSUME Cmd!ArgInv
    PROVE  /\ args \in [Cmd!Proc -> Array] /\ top \in Cmd!Proc /\ top \in Nat
           /\ typed \in [Cmd!Proc -> Commands \cup {<<>>}]
           /\ \A p \in 0 .. top : p \in Cmd!Proc
           /\ \A p \in 0 .. top : Cmd!Started(typed[p]) /\ Cmd!Holds(args[p], Cmd!ArgDat(typed[p]))
  <1>1. /\ args \in [Cmd!Proc -> Array] /\ top \in Cmd!Proc
        /\ typed \in [Cmd!Proc -> Commands \cup {<<>>}]
        /\ \A p \in 0 .. top : Cmd!Started(typed[p]) /\ Cmd!Holds(args[p], Cmd!ArgDat(typed[p]))
    BY Zenon DEF Cmd!ArgInv, Cmd!TypeOK, Cmd!ArgsKept, Array, Bytes
  <1>2. top \in Nat /\ \A p \in 0 .. top : p \in Cmd!Proc
    <2>1. top \in 0 .. NumProc - 1
      BY <1>1, Zenon DEF Cmd!Proc
    <2>. QED  BY <2>1, SizeFacts DEF Cmd!Proc
  <1>. QED  BY <1>1, <1>2, Zenon

LEMMA ArgInit == Cmd!Init => Cmd!ArgInv
  <1>. SUFFICES ASSUME Cmd!Init PROVE Cmd!ArgInv
    OBVIOUS
  <1>. DEFINE blank == [k \in 0 .. ARGSIZE - 1 |-> "nul"]
  <1>1. 0 \in Cmd!Proc /\ 0 \in 0 .. NAMESIZE /\ 0 .. 0 = {0} /\ 0 \in 0 .. ARGSIZE - 1 /\ 0 < ARGSIZE
    BY SizeFacts DEF Cmd!Proc
  <1>2. /\ args = [p \in Cmd!Proc |-> blank] /\ top = 0 /\ cmds_top = 0
        /\ typed = [p \in Cmd!Proc |-> <<>>] /\ reply = Cmd!NoReply
    BY Zenon DEF Cmd!Init
  <1>3. blank \in Array
    BY Zenon DEF Array, Bytes
  <1>4. Cmd!TypeOK
    BY <1>1, <1>2, <1>3, Zenon DEF Cmd!TypeOK, Array, Bytes
  <1>5. Cmd!Started(<<>>)
    BY DEF Cmd!Started
  <1>6. Cmd!ArgDat(<<>>) = <<>>
    <2>1. /\ Cmd!NameLen(<<>>) \in Nat /\ Cmd!Line(<<>>) \in Nat /\ Cmd!Line(<<>>) <= Len(<<>>)
          /\ Cmd!NameLen(<<>>) < Cmd!Line(<<>>) \/ Cmd!ArgDat(<<>>) = <<>>
      BY <1>5, ArgDatFacts, Zenon
    <2>2. Len(<<>>) = 0
      BY EmptySeq, Zenon
    <2>3. ~(Cmd!NameLen(<<>>) < Cmd!Line(<<>>))
      BY <2>1, <2>2
    <2>. QED  BY <2>1, <2>3, Zenon
  <1>7. Cmd!Holds(blank, <<>>)
    <2>1. Len(<<>>) = 0
      BY EmptySeq, Zenon
    <2>2. 0 .. Len(<<>>) - 1 = {}
      BY <2>1
    <2>3. blank[0] = "nul"
      BY <1>1, Zenon
    <2>. QED  BY <1>1, <2>1, <2>2, <2>3, Zenon DEF Cmd!Holds
  <1>8. Cmd!ArgsKept
    <2>1. typed \in [Cmd!Proc -> Commands \cup {<<>>}]
      BY <1>2, Zenon
    <2>2. ASSUME NEW p \in 0 .. top
          PROVE  Cmd!Started(typed[p]) /\ Cmd!Holds(args[p], Cmd!ArgDat(typed[p]))
      <3>1. p = 0
        BY <1>1, <1>2, Zenon
      <3>2. typed[0] = <<>> /\ args[0] = blank
        BY <1>1, <1>2, Zenon
      <3>. HIDE DEF blank
      <3>. QED  BY <1>5, <1>6, <1>7, <3>1, <3>2, Zenon
    <2>. QED  BY <2>1, <2>2, Zenon DEF Cmd!ArgsKept
  <1>9. Cmd!GetsWhatWasTyped
    BY <1>2, Zenon DEF Cmd!GetsWhatWasTyped
  <1>. QED  BY <1>4, <1>8, <1>9, Zenon DEF Cmd!ArgInv

LEMMA ExecuteArgs ==
    ASSUME Cmd!ArgInv, NEW command \in Commands, Cmd!Execute(command)
    PROVE  Cmd!ArgInv'
  <1>. DEFINE p1 == top + 1
              dat == Cmd!ArgDat(command)
              arr == Cmd!strcpy(args[p1], dat)
  <1>1. /\ Cmd!Name(command) \in Programs /\ p1 \in Cmd!Proc
        /\ cmds_top' = Cmd!NameLen(command)
        /\ args' = [args EXCEPT ![p1] = arr]
        /\ typed' = [typed EXCEPT ![p1] = command]
        /\ top' = p1 /\ reply' = Cmd!NoReply
    BY DEF Cmd!Execute
  <1>2. /\ args \in [Cmd!Proc -> Array] /\ top \in Nat
        /\ typed \in [Cmd!Proc -> Commands \cup {<<>>}]
        /\ \A p \in 0 .. top : p \in Cmd!Proc
        /\ \A p \in 0 .. top : Cmd!Started(typed[p]) /\ Cmd!Holds(args[p], Cmd!ArgDat(typed[p]))
    BY ArgTypes, Zenon
  <1>3. Cmd!Started(command)
    BY <1>1, Zenon DEF Cmd!Started
  <1>4. arr \in Array /\ Cmd!Holds(arr, dat)
    <2>1. args[p1] \in Array
      BY <1>1, <1>2, Zenon
    <2>. QED  BY <1>3, <2>1, StrcpyHolds, Zenon
  <1>. HIDE DEF arr
  <1>5. cmds_top' \in 0 .. NAMESIZE
    BY <1>1, NameLenFacts, CommandFacts, Zenon
  <1>6. args' \in [Cmd!Proc -> Array]
    BY <1>1, <1>2, <1>4
  <1>7. Cmd!TypeOK'
    BY <1>1, <1>5, <1>6, Zenon DEF Cmd!TypeOK, Array, Bytes
  <1>8. ASSUME NEW p \in 0 .. p1
        PROVE  Cmd!Started(typed'[p]) /\ Cmd!Holds(args'[p], Cmd!ArgDat(typed'[p]))
    <2>1. CASE p = p1
      <3>1. typed'[p] = command /\ args'[p] = arr
        BY <1>1, <1>2, <2>1, Zenon
      <3>. QED  BY <1>3, <1>4, <3>1, Zenon
    <2>2. CASE p # p1
      <3>1. p \in 0 .. top
        BY <1>2, <2>2
      <3>2. typed'[p] = typed[p] /\ args'[p] = args[p]
        BY <1>1, <1>2, <2>2, <3>1, Zenon
      <3>. QED  BY <1>2, <3>1, <3>2, Zenon
    <2>. QED  BY <2>1, <2>2, Zenon
  <1>9. Cmd!ArgsKept'
    <2>1. typed' \in [Cmd!Proc -> Commands \cup {<<>>}]
      BY <1>1, <1>2, Zenon
    <2>. QED  BY <1>1, <1>8, <2>1, Zenon DEF Cmd!ArgsKept
  <1>10. Cmd!GetsWhatWasTyped'
    BY <1>1, Zenon DEF Cmd!GetsWhatWasTyped, Cmd!NoReply
  <1>. QED  BY <1>7, <1>9, <1>10, Zenon DEF Cmd!ArgInv

LEMMA HaltArgs ==
    ASSUME Cmd!ArgInv, Cmd!Halt
    PROVE  Cmd!ArgInv'
  <1>1. /\ top > 0 /\ top' = top - 1 /\ cmds_top' = 0 /\ reply' = Cmd!NoReply
        /\ typed' = [typed EXCEPT ![top] = <<>>] /\ args' = args
    BY DEF Cmd!Halt
  <1>2. /\ args \in [Cmd!Proc -> Array] /\ top \in Nat
        /\ typed \in [Cmd!Proc -> Commands \cup {<<>>}]
        /\ \A p \in 0 .. top : p \in Cmd!Proc
        /\ \A p \in 0 .. top : Cmd!Started(typed[p]) /\ Cmd!Holds(args[p], Cmd!ArgDat(typed[p]))
    BY ArgTypes, Zenon
  <1>3. /\ top - 1 \in 0 .. top /\ top \in 0 .. top /\ 0 \in 0 .. NAMESIZE
        /\ \A p \in 0 .. top - 1 : p \in 0 .. top /\ p # top
    BY <1>1, <1>2, SizeFacts
  <1>4. Cmd!TypeOK'
    BY <1>1, <1>2, <1>3, Zenon DEF Cmd!TypeOK, Array, Bytes
  <1>5. typed' \in [Cmd!Proc -> Commands \cup {<<>>}]
    BY <1>1, <1>2, Zenon
  <1>6. ASSUME NEW p \in 0 .. top - 1
        PROVE  Cmd!Started(typed'[p]) /\ Cmd!Holds(args'[p], Cmd!ArgDat(typed'[p]))
    <2>1. typed'[p] = typed[p]
      BY <1>1, <1>2, <1>3, Zenon
    <2>. QED  BY <1>1, <1>2, <1>3, <2>1, Zenon
  <1>7. Cmd!ArgsKept'
    BY <1>1, <1>5, <1>6, Zenon DEF Cmd!ArgsKept
  <1>8. Cmd!GetsWhatWasTyped'
    BY <1>1, Zenon DEF Cmd!GetsWhatWasTyped, Cmd!NoReply
  <1>. QED  BY <1>4, <1>7, <1>8, Zenon DEF Cmd!ArgInv

(* getargs copies all of the string, or the buffer is too small for it.    *)
LEMMA GetargsArgs ==
    ASSUME Cmd!ArgInv, NEW nbytes \in Counts, Cmd!getargs(nbytes)
    PROVE  Cmd!ArgInv'
  <1>. DEFINE c == typed[top]
              dat == Cmd!ArgDat(c)
              len == Cmd!strlen(args[top])
              fits == Cmd!Fits(nbytes, len)
  <1>1. /\ args \in [Cmd!Proc -> Array] /\ top \in Cmd!Proc /\ top \in Nat
        /\ \A p \in 0 .. top : Cmd!Started(typed[p]) /\ Cmd!Holds(args[p], Cmd!ArgDat(typed[p]))
    BY ArgTypes, Zenon
  <1>2. /\ reply' = [who |-> top, nbytes |-> nbytes, val |-> IF fits THEN 0 ELSE -1,
                     buf |-> IF fits THEN [k \in 1 .. len |-> args[top][k - 1]] ELSE <<>>]
        /\ cmds_top' = 0 /\ UNCHANGED <<args, top, typed>>
    BY DEF Cmd!getargs
  <1>3. args[top] \in Array /\ Cmd!Started(c) /\ Cmd!Holds(args[top], dat)
    <2>1. top \in 0 .. top
      BY <1>1
    <2>. QED  BY <1>1, <2>1, Zenon
  <1>4. len = Len(dat) /\ [k \in 1 .. len |-> args[top][k - 1]] = dat
    BY <1>3, StrlenFinds, Zenon
  <1>5. Len(dat) \in Nat /\ nbytes \in Int
    BY <1>3, ArgDatChars, SizeFacts
  <1>6. /\ Cmd!FollowsBlank(c, dat)
        /\ \A rest : Cmd!FollowsBlank(c, rest) => rest = dat
    BY <1>3, ArgDatFollows, Zenon
  <1>. HIDE DEF c, dat, len, fits
  <1>7. typed'[reply'.who] = c /\ reply'.nbytes = nbytes
    BY <1>2 DEF c
  <1>8. Cmd!GetsWhatWasTyped'
    <2>1. CASE fits
      <3>1. reply'.val = 0 /\ reply'.buf = dat
        BY <1>2, <1>4, <2>1
      <3>2. Cmd!FollowsBlank(typed'[reply'.who], reply'.buf)
        BY <1>6, <1>7, <3>1, Zenon
      <3>. QED  BY <3>1, <3>2, Zenon DEF Cmd!GetsWhatWasTyped
    <2>2. CASE ~fits
      <3>1. reply'.val = -1
        BY <1>2, <2>2
      <3>2. nbytes <= Len(dat)
        BY <1>4, <1>5, <2>2 DEF fits, Cmd!Fits
      <3>3. \A rest : Cmd!FollowsBlank(c, rest) => nbytes <= Len(rest)
        BY <1>6, <3>2, Zenon
      <3>4. \A rest : Cmd!FollowsBlank(typed'[reply'.who], rest) => reply'.nbytes <= Len(rest)
        BY <1>7, <3>3, Zenon
      <3>. QED  BY <3>1, <3>4, Zenon DEF Cmd!GetsWhatWasTyped
    <2>. QED  BY <2>1, <2>2
  <1>9. 0 \in 0 .. NAMESIZE
    BY SizeFacts
  <1>10. Cmd!TypeOK' /\ Cmd!ArgsKept'
    BY <1>2, <1>9 DEF Cmd!ArgInv, Cmd!TypeOK, Cmd!ArgsKept
  <1>. QED  BY <1>8, <1>10, Zenon DEF Cmd!ArgInv

(* A step of a program keeps its arguments.                                *)
LEMMA ArgNext ==
    ASSUME Cmd!ArgInv, [ProgNext]_<<vars, argVars>>
    PROVE  Cmd!ArgInv'
  <1>1. ASSUME UNCHANGED <<args, top, typed>>, cmds_top' \in 0 .. NAMESIZE,
               reply' = Cmd!NoReply \/ reply' = reply
        PROVE  Cmd!ArgInv'
    <2>1. Cmd!TypeOK' /\ Cmd!ArgsKept'
      BY <1>1 DEF Cmd!ArgInv, Cmd!TypeOK, Cmd!ArgsKept
    <2>2. Cmd!GetsWhatWasTyped'
      BY <1>1, Zenon DEF Cmd!ArgInv, Cmd!GetsWhatWasTyped
    <2>. QED  BY <2>1, <2>2, Zenon DEF Cmd!ArgInv
  <1>2. ASSUME NEW command \in Commands, ProgExecute(command)
        PROVE  Cmd!ArgInv'
    BY <1>2, ExecuteArgs DEF ProgExecute
  <1>3. ASSUME NEW command \in Commands, ProgExecuteFails(command)
        PROVE  Cmd!ArgInv'
    <2>1. /\ cmds_top' = Cmd!NameLen(command) /\ reply' = Cmd!NoReply
          /\ UNCHANGED <<args, top, typed>>
      BY <1>3 DEF ProgExecuteFails, Cmd!ExecuteFails
    <2>2. Cmd!NameLen(command) \in 0 .. NAMESIZE
      BY NameLenFacts, CommandFacts, Zenon
    <2>. QED  BY <1>1, <2>1, <2>2
  <1>4. ASSUME NEW nbytes \in Counts, ProgGetargs(nbytes)
        PROVE  Cmd!ArgInv'
    BY <1>4, GetargsArgs DEF ProgGetargs
  <1>5. CASE ProgVidmap \/ ProgAstray \/ UNCHANGED <<vars, argVars>>
    <2>1. UNCHANGED <<args, top, typed, cmds_top, reply>>
      BY <1>5 DEF ProgVidmap, ProgAstray, Vidmap, VidmapFails, Astray, vars, argVars
    <2>2. cmds_top' \in 0 .. NAMESIZE
      BY <2>1 DEF Cmd!ArgInv, Cmd!TypeOK
    <2>. QED  BY <1>1, <2>1, <2>2
  <1>6. CASE ProgHalt
    BY <1>6, HaltArgs DEF ProgHalt
  <1>. QED  BY <1>2, <1>3, <1>4, <1>5, <1>6 DEF ProgNext

(* The pages and the arguments of all programs, in one invariant.          *)
THEOREM ProgramInvariant == ProgSpec => []ProgInv
  <1>1. ProgInit => ProgInv
    BY PageInit, ArgInit DEF ProgInit, ProgInv
  <1>2. ProgInv /\ [ProgNext]_<<vars, argVars>> => ProgInv'
    BY ProgStepPages, PageNext, ArgNext DEF ProgInv
  <1>. QED  BY <1>1, <1>2, PTL DEF ProgSpec

(* getargs gives a program what was typed behind its name, whatever its    *)
(* PCB held before and whatever programs it has executed, and refuses only *)
(* a buffer that is too small.                                             *)
THEOREM AlwaysGetsWhatWasTyped == ProgSpec => []GetsWhatWasTyped
  <1>1. ProgInv => GetsWhatWasTyped
    BY DEF ProgInv, Cmd!ArgInv, GetsWhatWasTyped
  <1>. QED  BY <1>1, ProgramInvariant, PTL
=============================================================================
