----------------------------- MODULE Utilities -----------------------------
(***************************************************************************)
(* The user programs cat, ls, grep and syserr of syscalls/ as programs     *)
(* over the file system calls of FileTable: every call they make is a step *)
(* of the kernel, and what they compute between two calls is a step of     *)
(* theirs.  Shells start them, and an Alt+Fn may put a shell, and with it  *)
(* other utilities, on top of any of them.                                 *)
(***************************************************************************)
EXTENDS FileTable

SE == INSTANCE SequencesExt

CONSTANTS
    NumTerm,        \* terminals (3 in the code)
    CATBUF,         \* size of cat's buffer (1024 in the code)
    GREPBUF,        \* BUFSIZE of grep (1024)
    Texts,          \* what the data blocks may hold: text[b + 1][i + 1]
    Switched,       \* bound: Alt+Fn is pressed with these of them only
    Patterns,       \* what grep is asked for
    Selects,        \* which tests of syserr are chosen: 0 for all
    Garbage         \* what the stack may hold where grep puts its data array

(* Names that are one character off those of files.                        *)
Misspelt == {"helloo", "shel"}

(* A program that is suspended in directory_read advances the cursor again *)
(* behind the last entry: an empty place must be left for each.  The image *)
(* has a directory "." and no file with the names that syserr tries; the   *)
(* cursor, a uint8_t, reaches every place.  Counts are the lengths of the  *)
(* reads that cat and grep make.                                           *)
ASSUME UtilAssumption ==
    /\ Len(direntries) + NumProc < NUM_MAX_DENTRIES /\ NUM_MAX_DENTRIES <= 256
    /\ \E d \in 1 .. Len(direntries) : direntries[d].name = "."
    /\ \A d \in 1 .. Len(direntries) :
          /\ direntries[d].name = "." => direntries[d].filetype = 1
          /\ direntries[d].name \notin Misspelt
    /\ CATBUF \in Nat \ {0} /\ GREPBUF \in Nat \ {0}
    /\ CATBUF \in Counts /\ 1 .. GREPBUF \subseteq Counts
    /\ Selects \subseteq 0 .. 8
    /\ \A s \in Patterns : \A j \in 1 .. Len(s) : s[j] \notin {"nul", "nl"}

VARIABLES
    text,           \* the contents of the data blocks
    prog,           \* prog[p]: the program that process p runs
    at,             \* at[p]: where it is
    loc,            \* loc[p]: its locals
    out,            \* out[p]: what it has written
    opened,         \* terminals that have got their shell
    disturbed       \* disturbed[p]: another program has used the directory
                    \*   since p started

progVars == <<text, prog, at, loc, out, opened, disturbed>>
allVars  == <<vars, progVars>>

NoLocals ==
    [arg |-> <<>>, fd |-> 0, dir |-> 0, name |-> "", dirty |-> FALSE, data |-> <<>>,
     last |-> 0, cnt |-> 0, line_start |-> 0, todo |-> <<>>, fail |-> 0]

UInit ==
    /\ Init
    /\ text \in Texts
    /\ prog = [p \in Proc |-> "shell"]
    /\ at = [p \in Proc |-> "main"]
    /\ loc = [p \in Proc |-> NoLocals]
    /\ out = [p \in Proc |-> <<>>]
    /\ opened = 1
    /\ disturbed = [p \in Proc |-> FALSE]

Runs(u, where) == prog[top] = u /\ at[top] = where /\ pc[top] = "user"

Goto(where) == at' = [at EXCEPT ![top] = where]
Set(locals) == loc' = [loc EXCEPT ![top] = locals]
Write1(items) == out' = [out EXCEPT ![top] = @ \o items]

(* The programs below the running one find the cursor moved.               *)
Disturb == disturbed' = [p \in Proc |-> disturbed[p] \/ p < top]

FirstUnused == CHOOSE fd \in UserFd : IsFirstUnused(fd)
IsDirectory(name) == \E d \in 1 .. Len(direntries) : Named(name, d) /\ direntries[d].filetype = DIR_FILETYPE

(* ece391_open(name): -1 sends the program to the end.                     *)
OpenOrEnd(name, where, locals) ==
    /\ \/ /\ Open(name)
          /\ Goto(where) /\ Set(locals)
          /\ IF IsDirectory(name) THEN Disturb ELSE UNCHANGED disturbed
       \/ /\ OpenFails(name)
          /\ Goto("end") /\ UNCHANGED <<loc, disturbed>>
    /\ UNCHANGED <<text, opened, prog, out>>

(* ece391_read of a directory or a file: the call ...                      *)
CallRead(fd, n) ==
    /\ \/ StartRead(fd, n) /\ UNCHANGED disturbed
       \/ ListEntry(fd) /\ Disturb
    /\ UNCHANGED <<text, opened, prog, at, loc, out>>

(* ... and what it returns.  Reading the RTC returns 0.                    *)
IsRtc(fd) == Reads(fd) /\ fds[top][fd].fops = "rtc"

----------------------------------------------------------------------------
(* cat: open the file; read and write until a read returns 0.              *)
CatOpen == Runs("cat", "main") /\ OpenOrEnd(loc[top].arg, "read", [loc[top] EXCEPT !.fd = FirstUnused])

CatRead == Runs("cat", "read") /\ CallRead(loc[top].fd, CATBUF)

CatRtc ==
    /\ Runs("cat", "read") /\ IsRtc(loc[top].fd)
    /\ Goto("end")
    /\ UNCHANGED <<vars, text, opened, prog, loc, out, disturbed>>

(* Mutant: a short read is taken for the end of the file.                  *)
CatStopsShort(items) ==
    /\ prog[top] = "cat"
    /\ IF Len(items) < CATBUF THEN Goto("end") /\ UNCHANGED out ELSE Write1(items) /\ UNCHANGED at
    /\ UNCHANGED loc

CatWrite(items) ==
    /\ prog[top] = "cat"
    /\ IF items = <<>> THEN Goto("end") /\ UNCHANGED out ELSE Write1(items) /\ UNCHANGED at
    /\ UNCHANGED loc

(* ls: the same with the directory.                                        *)
LsOpen == Runs("ls", "main") /\ OpenOrEnd(".", "read", [loc[top] EXCEPT !.fd = FirstUnused])

LsRead == Runs("ls", "read") /\ CallRead(loc[top].fd, 32)

(* Mutant: only -1 ends the loop.                                          *)
LsWriteOn(items) == prog[top] = "ls" /\ Write1(items) /\ UNCHANGED <<at, loc>>

LsWrite(items) ==
    /\ prog[top] = "ls"
    /\ IF items = <<>> THEN Goto("end") /\ UNCHANGED out ELSE Write1(items) /\ UNCHANGED at
    /\ UNCHANGED loc

----------------------------------------------------------------------------
(* grep: main walks through the directory ...                              *)
GrepOpen == Runs("grep", "main") /\ OpenOrEnd(".", "walk", [loc[top] EXCEPT !.dir = FirstUnused])

GrepWalk == Runs("grep", "walk") /\ CallRead(loc[top].dir, 32)

GrepEntry(items) ==
    /\ prog[top] = "grep" /\ at[top] = "walk"
    /\ \/ items = <<>> /\ Goto("end") /\ UNCHANGED loc
       \/ items = <<".">> /\ UNCHANGED <<at, loc>>
       \/ items \notin {<<>>, <<".">>} /\ Goto("file") /\ Set([loc[top] EXCEPT !.name = items[1]])
    /\ UNCHANGED out

(* ... and calls do_one_file for every entry but the directory.  data is   *)
(* not initialised.                                                        *)
GrepFile ==
    /\ Runs("grep", "file")
    /\ \E g \in Garbage :
          OpenOrEnd(loc[top].name, "read",
                    [loc[top] EXCEPT !.fd = FirstUnused, !.last = 0, !.dirty = @ \/ g = "nl",
                                     !.data = [k \in 0 .. GREPBUF |-> g]])

GrepRead == Runs("grep", "read") /\ CallRead(loc[top].fd, GREPBUF - loc[top].last)

(* The bytes arrive behind the part of a line kept from before; read_data  *)
(* leaves one more behind them when it meets the end of the file.          *)
Char(b) == text[b[1] + 1][b[2] + 1]

Behind(c, n) ==
    LET i == fds[top][c.fd].inode
    IN  IF n < c.nbytes THEN <<ByteAt(i, c.offset + n)>> ELSE <<>>

GrepChunk(items, extra) ==
    LET l == loc[top]
        new == [k \in 1 .. Len(items \o extra) |-> Char((items \o extra)[k])]
    IN  /\ prog[top] = "grep" /\ at[top] = "read"
        /\ Set([l EXCEPT !.data = [k \in 0 .. GREPBUF |->
                                     IF k - l.last \in 0 .. Len(new) - 1 THEN new[k - l.last + 1] ELSE @[k]],
                         !.cnt = Len(items), !.last = @ + Len(items), !.line_start = 0])
        /\ Goto("line")
        /\ UNCHANGED out

GrepRtc ==
    /\ Runs("grep", "read") /\ IsRtc(loc[top].fd)
    /\ GrepChunk(<<>>, <<>>)
    /\ UNCHANGED <<vars, text, opened, prog, disturbed>>

(* ece391_strncmp at each place of the line; data[end] is a terminator.    *)
Contains(data, from, end, s) ==
    \E check \in from .. end - 1 :
        IF s = <<>> THEN data[check] = "nul"
        ELSE \A j \in 1 .. Len(s) : check + j - 1 < end /\ data[check + j - 1] = s[j]

(* The C string at a place of data.                                        *)
StrEnd(data, from) == CHOOSE n \in from .. GREPBUF : data[n] = "nul" /\ \A k \in from .. n - 1 : data[k] # "nul"
Str(data, from) == [k \in 1 .. StrEnd(data, from) - from |-> data[from + k - 1]]

(* ece391_strcpy(data, data + from), low addresses first.                  *)
MoveDown(data, from) ==
    [k \in 0 .. GREPBUF |-> IF k <= StrEnd(data, from) - from THEN data[from + k] ELSE data[k]]

LineEnd(l) ==
    CHOOSE n \in l.line_start .. l.last :
        /\ n = l.last \/ l.data[n] = "nl"
        /\ \A k \in l.line_start .. n - 1 : l.data[k] # "nl"

(* Mutant: a line that reaches the end of the buffer counts as complete.   *)
EndsOpen(l, end) == FALSE

(* Mutant: a part of a line is kept also when it fills the buffer.         *)
UnfinishedFull(l, end) == l.data[end] # "nl" /\ l.cnt # 0

(* The line goes on behind the buffer: its part is kept for the next read, *)
(* unless it fills the buffer.                                             *)
Unfinished(l, end) == l.data[end] # "nl" /\ l.cnt # 0 /\ l.line_start # 0

GrepLine ==
    LET l == loc[top]
        end == LineEnd(l)
        data == [l.data EXCEPT ![end] = "nul"]
    IN  /\ Runs("grep", "line")
        /\ \/ /\ Unfinished(l, end)
              /\ Set([l EXCEPT !.data = MoveDown(data, l.line_start), !.last = @ - l.line_start])
              /\ Goto("read")
              /\ UNCHANGED out
           \/ /\ ~Unfinished(l, end)
              /\ IF Contains(data, l.line_start, end, l.arg)
                 THEN Write1(<<<<l.name, Str(data, l.line_start)>>>>) ELSE UNCHANGED out
              /\ IF end + 1 >= l.last
                 THEN /\ Set([l EXCEPT !.data = data, !.last = 0])
                      /\ Goto(IF l.cnt = 0 THEN "close" ELSE "read")
                 ELSE /\ Set([l EXCEPT !.data = data, !.line_start = end + 1])
                      /\ UNCHANGED at
        /\ UNCHANGED <<vars, text, opened, prog, disturbed>>

GrepClose ==
    /\ Runs("grep", "close")
    /\ Close(loc[top].fd)
    /\ Goto(IF Closes(loc[top].fd) THEN "walk" ELSE "end")
    /\ UNCHANGED <<text, opened, prog, loc, out, disturbed>>

----------------------------------------------------------------------------
(* syserr: a test is a list of calls and of what each must return, -1 or   *)
(* not; arg is the descriptor, the address for vidmap (in MB), or the      *)
(* number for call_sys.                                                    *)
Bad(sys, arg) == [call |-> sys, arg |-> arg, name |-> "", ok |-> FALSE]
OpenOf(name, ok) == [call |-> "open", arg |-> 0, name |-> name, ok |-> ok]
AnyClose(fd) == [call |-> "closeany", arg |-> fd, name |-> "", ok |-> TRUE]

OnFd(fd) == << Bad("read", fd), Bad("write", fd), Bad("close", fd) >>

(* BIG_FD too; NEG_FD and NEG_NUM are its negative.                        *)
BIG_NUM == 1073741823

err_neg_fd == OnFd(-BIG_NUM)
err_big_fd == OnFd(BIG_NUM)

(* One open more than there are descriptors, then all are closed.          *)
err_open_lots ==
    [k \in 1 .. LastFd |-> OpenOf(".", k < LastFd)] \o [k \in 1 .. LastFd - 1 |-> AnyClose(k + 1)]

err_open == << OpenOf("helloo", FALSE), OpenOf("shel", FALSE), OpenOf("", FALSE) >>

err_unopened ==
    [k \in 1 .. LastFd + 1 |-> Bad("close", k - 1)]
        \o [k \in 1 .. LastFd - 1 |-> Bad("read", k + 1)] \o [k \in 1 .. LastFd - 1 |-> Bad("write", k + 1)]

(* NULL, and an address of the kernel.                                     *)
err_vidmap == << Bad("vidmap", 0), Bad("vidmap", 4) >>

err_stdin_out == << Bad("write", 0), Bad("read", 1) >>

err_syscall_num == << Bad("call_sys", BIG_NUM), Bad("call_sys", -BIG_NUM), Bad("call_sys", 0) >>

(* The number that main reads from the terminal: one test or all of them.  *)
Tests ==
    << err_neg_fd, err_big_fd, err_open_lots, err_open,
       err_unopened, err_vidmap, err_stdin_out, err_syscall_num >>

AllTests ==
    (err_neg_fd \o err_big_fd) \o
        (err_open_lots \o (err_open \o (err_unopened \o (err_vidmap \o (err_stdin_out \o err_syscall_num)))))

SyserrChoose ==
    /\ Runs("syserr", "main")
    /\ \E n \in Selects : Set([loc[top] EXCEPT !.todo = IF n = 0 THEN AllTests ELSE Tests[n]])
    /\ Goto("test")
    /\ UNCHANGED <<vars, text, opened, prog, out, disturbed>>

(* vidmap refuses what is not in the user's page; the system call entry a  *)
(* number outside 1 .. 10.                                                 *)
Vidmaps(mb) == mb \in 128 .. 131
Called(n) == n \in 1 .. 10

Does(c) ==
    CASE c.call = "open"  -> Open(c.name) \/ OpenFails(c.name)
      [] c.call = "read"  -> ReadRefused(c.arg)
      [] c.call = "write" -> Write(c.arg)
      [] c.call \in {"close", "closeany"} -> Close(c.arg)
      [] OTHER            -> UNCHANGED vars

Succeeds(c) ==
    CASE c.call = "open"     -> Opens(c.name)
      [] c.call = "read"     -> Reads(c.arg)
      [] c.call = "write"    -> Writes(c.arg)
      [] c.call = "close"    -> Closes(c.arg)
      [] c.call = "vidmap"   -> Vidmaps(c.arg)
      [] c.call = "call_sys" -> Called(c.arg)
      [] OTHER               -> TRUE

SyserrCall ==
    LET l == loc[top]
        c == Head(l.todo)
    IN  /\ Runs("syserr", "test")
        /\ l.todo # <<>>
        /\ Does(c)
        /\ Set([l EXCEPT !.todo = Tail(@), !.fail = IF Succeeds(c) = c.ok THEN @ ELSE 2])
        /\ IF c.call = "open" /\ IsDirectory(c.name) THEN Disturb ELSE UNCHANGED disturbed
        /\ UNCHANGED <<text, opened, prog, at, out>>

SyserrDone ==
    /\ Runs("syserr", "test")
    /\ loc[top].todo = <<>>
    /\ Goto("end")
    /\ UNCHANGED <<vars, text, opened, prog, loc, out, disturbed>>

----------------------------------------------------------------------------
(* A read returns to the program that made it.                             *)
Received(items, extra) ==
    /\ CatWrite(items) \/ LsWrite(items) \/ GrepEntry(items) \/ GrepChunk(items, extra)
    /\ UNCHANGED <<text, opened, prog, disturbed>>

FileReturns ==
    LET c == call[top]
        r == read_data(fds[top][c.fd].inode, c.offset, c.nbytes)
    IN  FinishRead /\ Received(r.bytes, Behind(c, r.count))

(* An empty name is a length of 0.                                         *)
DirectoryReturns ==
    LET names == got[top][IF prog[top] = "grep" THEN loc[top].dir ELSE loc[top].fd]
        name == names[Len(names)]
    IN  AdvanceCursor /\ Received(IF name = "" THEN <<>> ELSE <<name>>, <<>>)

(* A new program on top; its PCB may have been another's.                  *)
Start(u, arg) ==
    /\ Execute
    /\ prog' = [prog EXCEPT ![top + 1] = u]
    /\ at' = [at EXCEPT ![top + 1] = "main"]
    /\ loc' = [loc EXCEPT ![top + 1] = [NoLocals EXCEPT !.arg = arg]]
    /\ out' = [out EXCEPT ![top + 1] = <<>>]
    /\ disturbed' = [disturbed EXCEPT ![top + 1] = FALSE]
    /\ UNCHANGED text

ShellStarts ==
    /\ Runs("shell", "main")
    /\ \/ \E name \in Names : Start("cat", name)
       \/ Start("ls", <<>>)
       \/ \E s \in Patterns : Start("grep", s)
       \/ Start("syserr", <<>>)
    /\ UNCHANGED opened

(* The first Alt+Fn for a terminal starts its shell, on top of whatever    *)
(* runs; later ones change the display only.                               *)
AltFn ==
    /\ text \in Switched
    /\ opened < NumTerm
    /\ Start("shell", <<>>)
    /\ opened' = opened + 1

(* main returns and the program halts; a shell ends by exit.  (A shell     *)
(* that is replaced when it ends leaves those below as they are.)          *)
MainReturns ==
    /\ at[top] = "end" \/ prog[top] = "shell"
    /\ Halt
    /\ prog' = [prog EXCEPT ![top] = "shell"]
    /\ at' = [at EXCEPT ![top] = "main"]
    /\ loc' = [loc EXCEPT ![top] = NoLocals]
    /\ out' = [out EXCEPT ![top] = <<>>]
    /\ UNCHANGED <<text, opened, disturbed>>

Step ==
    \/ CatOpen \/ CatRead \/ CatRtc
    \/ LsOpen \/ LsRead
    \/ GrepOpen \/ GrepWalk \/ GrepFile \/ GrepRead \/ GrepRtc \/ GrepLine \/ GrepClose
    \/ SyserrChoose \/ SyserrCall \/ SyserrDone
    \/ FileReturns \/ DirectoryReturns
    \/ MainReturns

UNext == Step \/ ShellStarts \/ AltFn

USpec == UInit /\ [][UNext]_allVars

(* The running program has the CPU whenever no key interrupts it.          *)
UFairSpec == USpec /\ WF_allVars(Step)

----------------------------------------------------------------------------
(* The lines of a text from a place on: the newline at its end closes the  *)
(* last line.                                                              *)
EndOfLine(t, k) ==
    CHOOSE n \in k .. Len(t) + 1 : (n = Len(t) + 1 \/ t[n] = "nl") /\ \A j \in k .. n - 1 : t[j] # "nl"

Lines(t) ==
    LET from[k \in 1 .. Len(t) + 2] ==
            IF k > Len(t) THEN <<>>
            ELSE <<SubSeq(t, k, EndOfLine(t, k) - 1)>> \o from[EndOfLine(t, k) + 1]
    IN  from[1]

TextOf(name) ==
    LET d == CHOOSE d \in 1 .. Len(direntries) : Named(name, d)
        c == Contents(direntries[d].inode)
    IN  IF direntries[d].filetype = REG_FILETYPE THEN [k \in 1 .. Len(c) |-> Char(c[k])] ELSE <<>>

Occurs(s, line) == \E n \in 0 .. Len(line) - Len(s) : SubSeq(line, n + 1, n + Len(s)) = s

(* What grep should find in a file, and when it can: its lines are text    *)
(* and no longer than the buffer.                                          *)
Hits(name, s) ==
    LET lines == SelectSeq(Lines(TextOf(name)), LAMBDA line : Occurs(s, line))
    IN  [k \in 1 .. Len(lines) |-> <<name, lines[k]>>]

IsText(name) ==
    \A k \in 1 .. Len(Lines(TextOf(name))) :
        LET line == Lines(TextOf(name))[k]
        IN  Len(line) <= GREPBUF /\ \A j \in 1 .. Len(line) : line[j] # "nul"

EntryNames == [d \in 1 .. Len(direntries) |-> direntries[d].name]
FileNames == SelectSeq(EntryNames, LAMBDA name : name # ".")

(* grep prints every line of every file that contains the pattern, once,   *)
(* in order and whole, though it sees the files in pieces that end         *)
(* anywhere in a line: for files of text, unless another program moved the *)
(* directory's cursor or the byte behind its data array was a newline.     *)
GrepExact ==
    \A p \in 0 .. top :
        /\ prog[p] = "grep" /\ at[p] = "end" /\ ~disturbed[p] /\ ~loc[p].dirty
        /\ \A k \in 1 .. Len(FileNames) : IsText(FileNames[k])
        => out[p] = SE!FlattenSeq([k \in 1 .. Len(FileNames) |-> Hits(FileNames[k], loc[p].arg)])

(* Whatever the files hold, binaries too, grep stays within its array and  *)
(* asks for at least one byte, so that 0 means the end of the file.        *)
GrepInBuffer ==
    \A p \in 0 .. top : prog[p] = "grep" =>
        /\ at[p] = "read" => loc[p].last \in 0 .. GREPBUF - 1
        /\ at[p] = "line" => loc[p].last <= GREPBUF /\ loc[p].line_start \in 0 .. loc[p].last

(* cat prints exactly the file, and ls each entry of the directory once,   *)
(* in order, however often they are suspended for other programs; ls needs *)
(* the cursor, which is one for all programs, left alone.                  *)
PrintsAll ==
    \A p \in 0 .. top : at[p] = "end" =>
        /\ prog[p] = "cat" =>
              \A d \in 1 .. Len(direntries) :
                  Named(loc[p].arg, d) /\ direntries[d].filetype = REG_FILETYPE =>
                      out[p] = Contents(direntries[d].inode)
        /\ prog[p] = "ls" /\ ~disturbed[p] => out[p] = EntryNames

(* Every test of syserr passes, whatever the program that had its PCB      *)
(* before left there, and whichever tests ran before it.                   *)
SyserrPasses == \A p \in 0 .. top : prog[p] = "syserr" => loc[p].fail = 0

(* A program that keeps the CPU ends: its loop over the reads sees the end *)
(* of the file or of the directory, wherever others left the cursor.       *)
ProgramsEnd == []<>(prog[top] = "shell" \/ at[top] = "end")

----------------------------------------------------------------------------
(* The inductive invariant behind GrepInBuffer, PrintsAll and              *)
(* SyserrPasses: where each program can be ...                             *)
Places(u) ==
    CASE u = "shell" -> {"main"}
      [] u = "grep" -> {"main", "walk", "file", "read", "line", "close", "end"}
      [] u = "syserr" -> {"main", "test", "end"}
      [] OTHER -> {"main", "read", "end"}

UTypeOK ==
    /\ prog \in [Proc -> {"shell", "cat", "ls", "grep", "syserr"}]
    /\ DOMAIN at = Proc /\ \A p \in Proc : at[p] \in Places(prog[p])
    /\ DOMAIN loc = Proc /\ \A p \in Proc : DOMAIN loc[p] = DOMAIN NoLocals
    /\ DOMAIN out = Proc
    /\ disturbed \in [Proc -> BOOLEAN]

IsOpen(p, fd, ops) == fd \in UserFd /\ fds[p][fd].flags = 1 /\ fds[p][fd].fops = ops

(* ... a program that has just started has opened and written nothing ...  *)
Fresher(p) ==
    at[p] = "main" => /\ out[p] = <<>> /\ loc[p].fail = 0
                      /\ \A fd \in UserFd : fds[p][fd].flags = 0

(* ... it is inside a read only where it calls one, and what the call asks *)
(* for is what the program still expects when it returns ...               *)
Asked(p) ==
    /\ pc[p] # "halting"
    /\ pc[p] = "reading" =>
          /\ prog[p] \in {"cat", "grep"} /\ at[p] = "read"
          /\ call[p].fd = loc[p].fd
          /\ call[p].nbytes = IF prog[p] = "cat" THEN CATBUF ELSE GREPBUF - loc[p].last
    /\ pc[p] = "listed" =>
          /\ at[p] \in {"read", "walk"}
          /\ prog[p] = "cat" => IsOpen(p, loc[p].fd, "directory")

(* ... cat has written what it has read of its file ...                    *)
CatInv(p) ==
    prog[p] = "cat" =>
        \A d \in 1 .. Len(direntries) :
            Named(loc[p].arg, d) /\ direntries[d].filetype = REG_FILETYPE =>
                /\ at[p] = "read" => /\ IsOpen(p, loc[p].fd, "files")
                                     /\ fds[p][loc[p].fd].inode = direntries[d].inode
                                     /\ out[p] = got[p][loc[p].fd]
                /\ at[p] = "end" => out[p] = Contents(direntries[d].inode)

(* ... ls has written the entries before the cursor, as long as nobody     *)
(* else has moved it ...                                                   *)
FirstNames(n) == [d \in 1 .. n |-> direntries[d].name]

LsInv(p) ==
    prog[p] = "ls" =>
        /\ at[p] = "read" => /\ IsOpen(p, loc[p].fd, "directory")
                             /\ got[p][loc[p].fd] \in Seq({NameAt(k) : k \in 0 .. 255})
        /\ at[p] = "read" /\ ~disturbed[p] =>
              /\ num_files_read <= Len(direntries) /\ out[p] = FirstNames(num_files_read)
              /\ LET names == got[p][loc[p].fd]
                 IN  pc[p] = "listed" => names # <<>> /\ names[Len(names)] = NameAt(num_files_read)
        /\ at[p] = "end" /\ ~disturbed[p] => out[p] = EntryNames

(* ... grep keeps the directory open below the file it looks at, and its   *)
(* array has room for what it asks for ...                                 *)
GrepInv(p) ==
    prog[p] = "grep" =>
        /\ at[p] \in {"walk", "file", "read", "line", "close"} => IsOpen(p, loc[p].dir, "directory")
        /\ at[p] \in {"read", "line", "close"} => loc[p].fd # loc[p].dir
        /\ at[p] = "read" => loc[p].last \in 0 .. GREPBUF - 1
        /\ at[p] = "line" => loc[p].last \in 0 .. GREPBUF /\ loc[p].line_start \in 0 .. loc[p].last

(* ... and syserr is k calls into err_open_lots, with the descriptors open *)
(* that these have left so, or 0 - k before it; every other call of its    *)
(* tests is one that the kernel refuses while no file is open.             *)
Refused(c) ==
    /\ ~c.ok
    /\ \/ c.call = "open" /\ c.name \in {""} \cup Misspelt
       \/ c.call = "read" /\ c.arg # 0
       \/ c.call = "write" /\ c.arg # 1
       \/ c.call = "close"
       \/ c.call = "vidmap" /\ ~Vidmaps(c.arg)
       \/ c.call = "call_sys" /\ ~Called(c.arg)

Lots == 2 * LastFd - 1
OpenAfter(k) == IF k < LastFd THEN 2 .. k + 1 ELSE k - LastFd + 2 .. LastFd

SysCall == [call : {"open", "read", "write", "close", "closeany", "vidmap", "call_sys"},
            arg : Int, name : {"", "."} \cup Misspelt, ok : BOOLEAN]

Follows(todo, k) ==
    \A j \in 1 .. Len(todo) :
        IF k + j \in 1 .. Lots THEN todo[j] = err_open_lots[k + j] ELSE Refused(todo[j])

SyserrInv(p) ==
    prog[p] = "syserr" =>
        /\ loc[p].fail = 0
        /\ at[p] = "test" =>
              /\ loc[p].todo \in Seq(SysCall)
              /\ \E k \in -6 .. Lots :
                    /\ {fd \in UserFd : fds[p][fd].flags # 0} = OpenAfter(k)
                    /\ Follows(loc[p].todo, k)

(* While a program is inside directory_read, those below it count as       *)
(* disturbed already.                                                      *)
BelowDisturbed == \A p, q \in 0 .. top : pc[p] = "listed" /\ q < p => disturbed[q]

UserInv(p) == Fresher(p) /\ Asked(p) /\ CatInv(p) /\ LsInv(p) /\ GrepInv(p) /\ SyserrInv(p)

UInv == Inv /\ UTypeOK /\ BelowDisturbed /\ \A p \in 0 .. top : UserInv(p)
============================================================================
