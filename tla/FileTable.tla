----------------------------- MODULE FileTable -----------------------------
(***************************************************************************)
(* The file descriptors of the processes: open, close and read of          *)
(* student-distrib/syscall.c on the files and the directory of             *)
(* filesys.c, with the parts of execute and halt that set up and close the *)
(* descriptors of a process.                                               *)
(*                                                                         *)
(* Processes are the stack that Process shows them to be: process top runs *)
(* and those below are suspended, anywhere in read (it runs with           *)
(* interrupts on, and an Alt+Fn may start a shell there) or in a halt that *)
(* restarted the terminal's first shell.                                   *)
(***************************************************************************)
EXTENDS FileSys

CONSTANTS
    NumProc,        \* PCBs (6 in the code)
    LastFd,         \* the last descriptor (7 in the code)
    Names,          \* names programs open
    Counts,         \* byte counts they read, none negative
    MaxEntries      \* bound: a program stops reading a directory there

ASSUME FdAssumption ==
    NumProc \in Nat \ {0} /\ LastFd \in Nat /\ LastFd >= 2 /\ Counts \subseteq Nat

Proc == 0 .. NumProc - 1
Fd   == 0 .. LastFd
UserFd == 2 .. LastFd

RTC_FILETYPE == 0
DIR_FILETYPE == 1
REG_FILETYPE == 2

VARIABLES
    fds,                \* fds[p][fd]: [flags, fops, inode, file_pos]
    num_files_read,     \* the one directory cursor
    top,                \* the running process
    pc,                 \* pc[p]: where process p is in read or halt
    call,               \* call[p]: the locals of p's file_read
    got                 \* got[p][fd]: what p has read through fd since open

vars == <<fds, num_files_read, top, pc, call, got>>

Unused == [flags |-> 0, fops |-> "none", inode |-> 0, file_pos |-> 0]
Std(f) == [flags |-> 1, fops |-> f, inode |-> 0, file_pos |-> 0]

NothingRead == [fd \in Fd |-> <<>>]
NoCall == [fd |-> 0, nbytes |-> 0, offset |-> 0]

(* The PCBs are zero; the first shell has been executed.                   *)
Init ==
    /\ fds = [p \in Proc |-> [fd \in Fd |->
                IF p = 0 /\ fd = 0 THEN Std("stdin")
                ELSE IF p = 0 /\ fd = 1 THEN Std("stdout") ELSE Unused]]
    /\ num_files_read = 0
    /\ top = 0
    /\ pc = [p \in Proc |-> "user"]
    /\ call = [p \in Proc |-> NoCall]
    /\ got = [p \in Proc |-> NothingRead]

Used(fd) == fds[top][fd].flags # 0

----------------------------------------------------------------------------
IsFirstUnused(fd) ==
    /\ fd \in UserFd
    /\ ~Used(fd)
    /\ \A e \in UserFd : e < fd => Used(e)

(* open(): the entry's type selects the jump table; only a regular file    *)
(* has its position set, and opening a directory resets the cursor.        *)
Opened(d, old) ==
    IF d.filetype = REG_FILETYPE
    THEN [flags |-> 1, fops |-> "files", inode |-> d.inode, file_pos |-> 0]
    ELSE [flags |-> 1, fops |-> IF d.filetype = RTC_FILETYPE THEN "rtc" ELSE "directory",
          inode |-> 0, file_pos |-> old.file_pos]

(* Mutant: without the test for an empty name.                             *)
OpensAnything(name) == Exists(name) /\ \E fd \in UserFd : ~Used(fd)

Opens(name) == name # "" /\ Exists(name) /\ \E fd \in UserFd : ~Used(fd)

Open(name) ==
    /\ pc[top] = "user"
    /\ Opens(name)
    /\ \E d \in 1 .. NUM_MAX_DENTRIES, fd \in UserFd :
          /\ Named(name, d)
          /\ IsFirstUnused(fd)
          /\ fds' = [fds EXCEPT ![top][fd] = Opened(Entry(d), @)]
          /\ num_files_read' = IF Entry(d).filetype = DIR_FILETYPE THEN 0 ELSE num_files_read
          /\ got' = [got EXCEPT ![top][fd] = <<>>]
    /\ UNCHANGED <<top, pc, call>>

OpenFails(name) ==
    /\ pc[top] = "user"
    /\ ~Opens(name)
    /\ UNCHANGED vars

(* Mutant: only the flag is reset.                                         *)
ClosedFlag(f) == [f EXCEPT !.flags = 0]

(* close(): the table entry is cleared but for its jump table.             *)
Closed(f) == [f EXCEPT !.flags = 0, !.file_pos = 0, !.inode = 0]

Closes(fd) == fd \in UserFd /\ Used(fd)

Close(fd) ==
    /\ pc[top] = "user"
    /\ \/ /\ Closes(fd)
          /\ fds' = [fds EXCEPT ![top][fd] = Closed(@)]
          /\ got' = [got EXCEPT ![top][fd] = <<>>]
       \/ ~Closes(fd) /\ UNCHANGED <<fds, got>>
    /\ UNCHANGED <<num_files_read, top, pc, call>>

(* read() looks at the number and the flags, write() too; for what is left *)
(* the jump table decides: stdin, files and directories refuse to be       *)
(* written, and stdout (1), were it not for the test, to be read.          *)
Reads(fd) == fd \in Fd /\ fd # 1 /\ Used(fd)
Writes(fd) == fd \in Fd /\ Used(fd) /\ fds[top][fd].fops \in {"stdout", "rtc"}

(* A read that is refused, and any write: nothing modelled here changes.   *)
ReadRefused(fd) == pc[top] = "user" /\ ~Reads(fd) /\ UNCHANGED vars
Write(fd) == pc[top] = "user" /\ UNCHANGED vars

(* read() of a regular file: file_read takes the position ...              *)
StartRead(fd, n) ==
    /\ pc[top] = "user"
    /\ Reads(fd) /\ fds[top][fd].fops = "files"
    /\ pc' = [pc EXCEPT ![top] = "reading"]
    /\ call' = [call EXCEPT ![top] = [fd |-> fd, nbytes |-> n, offset |-> fds[top][fd].file_pos]]
    /\ UNCHANGED <<fds, num_files_read, top, got>>

(* ... and sets it to the position it took plus what read_data returned.   *)
FinishRead ==
    /\ pc[top] = "reading"
    /\ LET c == call[top]
           r == read_data(fds[top][c.fd].inode, c.offset, c.nbytes)
       IN  /\ fds' = [fds EXCEPT ![top][c.fd].file_pos = c.offset + r.count]
           /\ got' = [got EXCEPT ![top][c.fd] = @ \o r.bytes]
    /\ pc' = [pc EXCEPT ![top] = "user"]
    /\ call' = [call EXCEPT ![top] = NoCall]
    /\ UNCHANGED <<num_files_read, top>>

(* read() of a directory: the entry at the cursor, whatever the fd ...     *)
ListEntry(fd) ==
    /\ pc[top] = "user"
    /\ Reads(fd) /\ fds[top][fd].fops = "directory"
    /\ num_files_read < MaxEntries /\ Len(got[top][fd]) < MaxEntries
    /\ got' = [got EXCEPT ![top][fd] = Append(@, NameAt(num_files_read))]
    /\ pc' = [pc EXCEPT ![top] = "listed"]
    /\ UNCHANGED <<fds, num_files_read, top, call>>

(* ... and the cursor, a uint8_t, goes on.                                 *)
AdvanceCursor ==
    /\ pc[top] = "listed"
    /\ num_files_read' = (num_files_read + 1) % 256
    /\ pc' = [pc EXCEPT ![top] = "user"]
    /\ UNCHANGED <<fds, top, call, got>>

(* execute(): 0 and 1 are set up, the others only marked unused.           *)
Fresh(table) ==
    [fd \in Fd |->
        CASE fd = 0 -> [table[fd] EXCEPT !.flags = 1, !.fops = "stdin", !.file_pos = 0]
          [] fd = 1 -> [table[fd] EXCEPT !.flags = 1, !.fops = "stdout", !.file_pos = 0]
          [] OTHER  -> [table[fd] EXCEPT !.flags = 0]]

(* A shell executes a program, or Alt+Fn a shell at any point of a read.   *)
Execute ==
    /\ pc[top] # "halting"
    /\ top + 1 \in Proc
    /\ fds' = [fds EXCEPT ![top + 1] = Fresh(@)]
    /\ top' = top + 1
    /\ pc' = [pc EXCEPT ![top + 1] = "user"]
    /\ UNCHANGED <<num_files_read, call, got>>

(* Mutant: the last descriptor is left open.                               *)
ClosedButLast(table) ==
    [fd \in Fd |-> IF fd \in UserFd \ {LastFd} /\ table[fd].flags = 1 THEN Closed(table[fd]) ELSE table[fd]]

(* halt(): close() for every descriptor in use (it refuses 0 and 1).       *)
ClosedAll(table) ==
    [fd \in Fd |-> IF fd \in UserFd /\ table[fd].flags = 1 THEN Closed(table[fd]) ELSE table[fd]]

Halt ==
    /\ pc[top] = "user"
    /\ top > 0
    /\ fds' = [fds EXCEPT ![top] = ClosedAll(@)]
    /\ top' = top - 1
    /\ got' = [got EXCEPT ![top] = NothingRead]
    /\ UNCHANGED <<num_files_read, pc, call>>

(* halt() of a terminal's first process, which executes a new shell ...    *)
HaltFirst ==
    /\ pc[top] = "user"
    /\ top + 1 \in Proc
    /\ fds' = [fds EXCEPT ![top] = ClosedAll(@), ![top + 1] = Fresh(@)]
    /\ top' = top + 1
    /\ pc' = [pc EXCEPT ![top] = "halting", ![top + 1] = "user"]
    /\ got' = [got EXCEPT ![top] = NothingRead]
    /\ UNCHANGED <<num_files_read, call>>

(* ... and goes on when that one has halted too.                           *)
ResumeHalt ==
    /\ pc[top] = "halting"
    /\ top > 0
    /\ top' = top - 1
    /\ pc' = [pc EXCEPT ![top] = "user"]
    /\ UNCHANGED <<fds, num_files_read, call, got>>

Next ==
    \/ \E name \in Names : Open(name) \/ OpenFails(name)
    \/ \E fd \in Fd : Close(fd) \/ ListEntry(fd) \/ \E n \in Counts : StartRead(fd, n)
    \/ FinishRead
    \/ AdvanceCursor
    \/ Execute
    \/ Halt
    \/ HaltFirst
    \/ ResumeHalt

Spec == Init /\ [][Next]_vars

----------------------------------------------------------------------------
(* Types of the descriptor tables and the cursor.                          *)
File == [flags : {0, 1}, inode : Nat, file_pos : Nat,
         fops : {"none", "stdin", "stdout", "files", "directory", "rtc"}]

TypeOK ==
    /\ fds \in [Proc -> [Fd -> File]]
    /\ num_files_read \in 0 .. 255
    /\ top \in Proc
    /\ pc \in [Proc -> {"user", "reading", "listed", "halting"}]
    /\ call \in [Proc -> [fd : Fd, nbytes : Counts \cup {0}, offset : Nat]]
    /\ DOMAIN got = Proc /\ \A p \in Proc : DOMAIN got[p] = Fd

(* The reads of a file, of any sizes, cut by other opens, closes and by    *)
(* programs run in between, deliver its bytes in order, none twice and     *)
(* none missing, and stop at its length, also where that is the end of a   *)
(* block.                                                                  *)
SequentialRead ==
    \A p \in 0 .. top, fd \in UserFd :
        LET f == fds[p][fd]
        IN  f.flags = 1 /\ f.fops = "files" =>
                /\ f.file_pos <= Size(f.inode)
                /\ got[p][fd] = SubSeq(Contents(f.inode), 1, f.file_pos)

(* A descriptor that is not in use, in any PCB, has no position or inode   *)
(* for a later open to inherit (open sets none for the RTC and the         *)
(* directory, and execute none at all): close and halt have cleared it.    *)
NothingInherited ==
    \A p \in Proc, fd \in UserFd :
        LET f == fds[p][fd]
        IN  f.flags = 0 \/ f.fops \in {"rtc", "directory"} => f.file_pos = 0 /\ f.inode = 0

(* Processes that have halted, also those whose halt waits for the shell   *)
(* that took their place, hold no open file.                               *)
HaltCloses ==
    \A p \in Proc, fd \in UserFd : p > top \/ pc[p] = "halting" => fds[p][fd].flags = 0

(* Reading a directory through a descriptor lists its entries in order.    *)
DirectoryListed ==
    \A p \in 0 .. top, fd \in UserFd :
        fds[p][fd].flags = 1 /\ fds[p][fd].fops = "directory" =>
            got[p][fd] = [k \in 1 .. Len(got[p][fd]) |-> NameAt(k - 1)]

----------------------------------------------------------------------------
(* The inductive invariant behind the three.                               *)
IsOpenFile(f) == f.flags = 1 /\ f.fops = "files"

(* execute's stdin and stdout stay what they are.                          *)
Standard == \A p \in 0 .. top : fds[p][0].fops = "stdin" /\ fds[p][1].fops = "stdout"

(* An open file has an inode of the image, and while a read of it is       *)
(* suspended its position is the one that the read took.                   *)
OpenFiles ==
    /\ \A p \in Proc, fd \in UserFd : IsOpenFile(fds[p][fd]) => fds[p][fd].inode \in Inode
    /\ \A p \in 0 .. top : pc[p] = "reading" =>
          /\ call[p].fd \in UserFd /\ call[p].nbytes \in Counts
          /\ IsOpenFile(fds[p][call[p].fd])
          /\ call[p].offset = fds[p][call[p].fd].file_pos

Inv ==
    /\ TypeOK /\ Standard /\ OpenFiles
    /\ HaltCloses /\ NothingInherited /\ SequentialRead
============================================================================
