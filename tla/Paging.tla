------------------------------- MODULE Paging -------------------------------
(***************************************************************************)
(* Virtual memory: the page directory and tables that init_paging          *)
(* (student-distrib/paging.c) builds and page_switch and vidmap            *)
(* (syscall.c) change, as execute and halt move between programs.          *)
(*                                                                         *)
(* Memory is counted in 4 KB pages, of which a directory entry spans N.    *)
(* An entry that is present maps N pages at once, starting at base         *)
(* ("4mb"), or through a table ("4kb").  Every entry is writable.          *)
(***************************************************************************)
EXTENDS Integers

CONSTANTS
    N,              \* PT_NUM_ENTRIES, 1024 in the code
    VIDEO,          \* the page of video memory (0xB8)
    NumTerm,        \* pages behind it that keep the terminals' screens
    NumProc,        \* processes
    FirstShells     \* processes that are the first shell of a terminal

Index == 0 .. N - 1
Proc  == 0 .. NumProc - 1

ASSUME PagingAssumption ==
    /\ N \in Nat /\ VIDEO \in Nat /\ NumTerm \in Nat /\ NumProc \in 1 .. 8
    /\ N > 33 /\ VIDEO + NumTerm < N
    /\ FirstShells \subseteq Proc

None == -1              \* a NULL parent

USER_IDX == 32          \* 128 MB >> 22
VID_IDX  == 33          \* 132 MB >> 22
Dir == {0, 1, 2, USER_IDX, VID_IDX}     \* 2 stands for all the others

VARIABLES
    page_directory,
    page_table,         \* the table of directory entry 0
    vidmap_pt,          \* the table that vidmap fills
    pid,                \* pcb_t.pid of each PCB
    parent,             \* pcb_t.parent of each PCB, of those that are free too
    top,                \* the running process; those below wait for it
    mapped              \* processes on the stack that have called vidmap

vars == <<page_directory, page_table, vidmap_pt, pid, parent, top, mapped>>

----------------------------------------------------------------------------
(* init_paging: its test i >= V || i <= V + 3 is true of every i, so the   *)
(* whole table is present, each page at its own place.                     *)
IsVideo(i) == i >= VIDEO \/ i <= VIDEO + NumTerm

TableEntry(i) ==
    IF IsVideo(i) THEN [present |-> 1, user |-> 0, frame |-> VIDEO + (i - VIDEO)]
    ELSE [present |-> 0, user |-> 0, frame |-> i]

Absent == [present |-> 0, user |-> 0, kind |-> "4kb", base |-> 0]
Kernel == [present |-> 1, user |-> 0, kind |-> "4mb", base |-> N]
LowMem == [present |-> 1, user |-> 0, kind |-> "4kb", base |-> 0]

(* page_switch(id): directory entry 32 maps the frame of process id.       *)
ProgramBase(id) == 2 * N + id * N
UserPage(id) == [present |-> 1, user |-> 1, kind |-> "4mb", base |-> ProgramBase(id)]
PageSwitch(dir, id) ==
    [dir EXCEPT ![USER_IDX] = UserPage(id)]

(* After init_paging and the execute of the first shell.                   *)
Init ==
    /\ page_directory =
          PageSwitch([d \in Dir |-> IF d = 0 THEN LowMem ELSE IF d = 1 THEN Kernel ELSE Absent], 0)
    /\ page_table = [i \in Index |-> TableEntry(i)]
    /\ vidmap_pt = [i \in Index |-> [present |-> 0, user |-> 0, frame |-> 0]]
    /\ pid = [p \in Proc |-> 0]
    /\ parent = [p \in Proc |-> IF p = 0 THEN 0 ELSE None]
    /\ top = 0
    /\ mapped = {}

(* The frame that is mapped is the running program's.                      *)
Intact == page_directory[USER_IDX] = UserPage(top)

(* Mutant: the new process is written, not the terminal's first.           *)
WrittenNew(first, p) == p

(* terminals[active_terminal].processes[0]                                 *)
WrittenPid(first, p) == first

(* execute: the first free PCB is the one above the caller's.  Before it   *)
(* gets its parent, the number of first, the first shell of the terminal   *)
(* on display, is written to the pid of the parent of its last use.        *)
Execute(first) ==
    /\ Intact
    /\ top + 1 \in Proc
    /\ pid' = [p \in Proc |-> IF p = parent[top + 1] THEN WrittenPid(first, top + 1)
                              ELSE IF p = top + 1 THEN top + 1 ELSE pid[p]]
    /\ parent' = [parent EXCEPT ![top + 1] = top]
    /\ top' = top + 1
    /\ page_directory' = PageSwitch(page_directory, top + 1)
    /\ UNCHANGED <<page_table, vidmap_pt, mapped>>

(* halt maps the page that the parent's pid names and returns to the       *)
(* parent, whatever that pid is.                                           *)
Halt ==
    /\ Intact
    /\ top > 0
    /\ top' = parent[top]
    /\ page_directory' = PageSwitch(page_directory, pid[parent[top]])
    /\ mapped' = mapped \ {top}
    /\ UNCHANGED <<page_table, vidmap_pt, pid, parent>>

(* Mutant: the page of the first saved screen is mapped.                   *)
VideoFrameNext == VIDEO + 1

VideoFrame == VIDEO

(* vidmap: the entry is built in the kernel's table, at the index that     *)
(* belongs to the directory, and copied into the first of vidmap_pt.       *)
Vidmap ==
    LET entry == [present |-> 1, user |-> 1, frame |-> VideoFrame]
    IN  /\ Intact
        /\ page_directory' = [page_directory EXCEPT ![VID_IDX] =
              [present |-> 1, user |-> 1, kind |-> "4kb", base |-> 0]]
        /\ page_table' = [page_table EXCEPT ![VID_IDX] = entry]
        /\ vidmap_pt' = [vidmap_pt EXCEPT ![0] = entry]
        /\ mapped' = mapped \cup {top}
        /\ UNCHANGED <<pid, parent, top>>

(* The pointer is NULL or not in the program's page.                       *)
VidmapFails == Intact /\ UNCHANGED vars

(* A program that goes on in another's frame, its next trap on the kernel  *)
(* stack of that one, is not followed further (Process.Astray).            *)
Astray == ~Intact /\ UNCHANGED vars

Next ==
    \/ \E first \in FirstShells : Execute(first)
    \/ Halt
    \/ Vidmap
    \/ VidmapFails
    \/ Astray

Spec == Init /\ [][Next]_vars

----------------------------------------------------------------------------
(* The MMU: the page that page k of directory entry d reaches.             *)
Fault == -1
Table(d) == IF d = VID_IDX THEN vidmap_pt ELSE page_table
Reach(d, k, user) ==
    LET e == page_directory[d]
        p == Table(d)[k]
    IN  IF e.present = 0 \/ e.user < user THEN Fault
        ELSE IF e.kind = "4mb" THEN e.base + k
        ELSE IF p.present = 0 \/ p.user < user THEN Fault ELSE p.frame

(* Types of the directory and the tables.                                  *)
TypeOK ==
    /\ page_directory \in [Dir -> [present : {0, 1}, user : {0, 1}, kind : {"4kb", "4mb"},
                                   base : {0, N} \cup {ProgramBase(p) : p \in Proc}]]
    /\ page_table \in [Index -> [present : {0, 1}, user : {0, 1}, frame : Index]]
    /\ vidmap_pt \in [Index -> [present : {0, 1}, user : {0, 1}, frame : Index]]
    /\ pid \in [Proc -> Proc] /\ parent \in [Proc -> Proc \cup {None}]
    /\ top \in Proc /\ mapped \subseteq Proc

(* User code reaches one program's frame, the page of video memory at 132  *)
(* MB, and nothing of the kernel, although vidmap makes an entry of the    *)
(* kernel's own table accessible to users.  The frame is its own, or, when *)
(* execute has written the pid of a caller, a terminal's first shell's.    *)
UserConfined ==
    \E id \in {top} \cup FirstShells :
        /\ id = pid[top]
        /\ \A d \in Dir, k \in Index :
              Reach(d, k, 1) = (IF d = USER_IDX THEN 2 * N + id * N + k
                                ELSE IF d = VID_IDX /\ k = 0 /\ Reach(d, k, 1) # Fault THEN VIDEO
                                ELSE Fault)

(* A program that has called vidmap reaches the screen until it halts,     *)
(* whatever programs run and halt in between.                              *)
ScreenStaysMapped == top \in mapped => Reach(VID_IDX, 0, 1) = VIDEO

(* "table at index 0 is initialized to not present".                       *)
PageZeroAbsent == page_table[0].present = 0

----------------------------------------------------------------------------
(* The inductive invariant behind UserConfined and ScreenStaysMapped: the  *)
(* directory is the one of init_paging but for the running program's page  *)
(* and for vidmap's, whose table maps its first page at most.              *)
VidmapPage == [present |-> 1, user |-> 1, kind |-> "4kb", base |-> 0]
VideoEntry == [present |-> 1, user |-> 1, frame |-> VIDEO]

Directory ==
    /\ page_directory[0] = LowMem /\ page_directory[1] = Kernel /\ page_directory[2] = Absent
    /\ page_directory[USER_IDX] = UserPage(pid[top])
    /\ page_directory[VID_IDX] \in {Absent, VidmapPage}

VideoPage ==
    /\ \A k \in Index \ {0} : vidmap_pt[k].present = 0
    /\ vidmap_pt[0].present = 0 \/ vidmap_pt[0] = VideoEntry
    /\ mapped # {} => page_directory[VID_IDX] = VidmapPage /\ vidmap_pt[0] = VideoEntry

(* A link, in use or stale, leads to the PCB below: so execute writes the  *)
(* pid of the process that calls it, or none.                              *)
Links ==
    /\ \A p \in Proc \ {0} : parent[p] \in {None, p - 1} /\ (p <= top => parent[p] = p - 1)
    /\ \A p \in 0 .. top : pid[p] \in {p} \cup FirstShells

PageInv == TypeOK /\ Directory /\ VideoPage /\ Links
=============================================================================
