# A TLA+ model of the UNIX-Based Simple Kernel

The repository is a small x86 kernel (`student-distrib/`), its user programs
(`syscalls/`) and the `fish` demo (`fish/`).  This directory holds TLA+
modules for the parts with interesting state, TLC configurations that check
them on small instances, and TLAPS proofs that the safety properties hold for
every value of the constants.

## 1. The system

One CPU, no preemption: the PIT is never programmed (`pit_init()` is commented
out, `kernel.c:162`), so the running program changes only by `execute`, `halt`
and by Alt+F1..F3, whose handler starts a shell on a terminal that has none.
All gates are interrupt gates, so handlers and system calls run with IF = 0;
`read` executes `sti` before it calls the device's function, and that is where
keys and RTC ticks come between the statements of kernel code.

| Component | State | Operations | Talks to |
|---|---|---|---|
| Process manager (`syscall.c`) | `pcb_state`, PCBs (`pid`, `parent`, `kbp`, `args`, `fds`), `terminals[]`, `terminal_shell`, TSS, user page | `execute`, `halt`, `display_switch`, `process_init` | paging, file system, screen, keyboard |
| Line discipline (`keyboard.c`) | `keyboard_buf`, `index`, `enter_read`, `buffer_enable`, modifier flags, `disp_term_k` | `keyboard_handler`, `read_terminal`, `write_terminal` | `display_switch`, `putc`, i8259 |
| File system and descriptors (`filesys.c`, `syscall.c`) | boot block, `fds`, `num_files_read` | `open`, `close`, `read`, `read_data`, `directory_read`, `read_dentry_*` | RTC and terminal through `fops` |
| Screen (`lib.c`) | video memory, `screen_x/y`, saved pages | `putc`, `scroll`, `clear`, save/restore in `display_switch` | keyboard, `write_terminal` |
| RTC driver (`rtc.c`) | index port, register A, `interrupt_rtc` | `open_rtc`, `write_rtc`, `read_rtc`, `rtc_handler` | i8259 |
| Interrupts (`i8259.c`, `idt.c`, `interrupt.S`) | masks, IRR/ISR of the 8259s, IF, kernel stack | `enable_irq`, `send_eoi`, gates, system call entry, exceptions | everything |
| Command lines (`syscall.c`) | `pcb_t.args` | parse in `execute`, `getargs` | process manager |
| Paging (`paging.c`, `syscall.c`) | `page_directory`, `page_table`, `vidmap_pt` | `init_paging`, `page_switch`, `vidmap` | process manager |
| Blinking characters (`fish/blink.S`, `fish.c`) | `blink_array`, `mp1_list_head` | add, remove, sync, tasklet, `mp1_malloc/free` | RTC (through `read`) |
| User programs (`syscalls/`) | their buffers and descriptors | `cat`, `ls`, `grep`, `syserr`, the shell's loop | every system call |
| Library (`lib.c`) | the caller's memory, the direction flag | `memset`, `memcpy`, `memmove`, `strcpy`, `strncpy`, `strncmp`, `itoa`, `printf`'s conversions | everything |
| Scheduler (`sched.c`) | unreachable in this build | | |

What is hard: PCBs are reused with the links of their previous owners in them;
`execute` frames pile up on several kernel stacks and `halt` has to find the
right one; Alt+Fn can come between any two instructions of `read_terminal` or a
spin in `read_rtc`, and changes globals (`active_terminal`, `disp_term_k`) these
use; several globals (`interrupt_rtc`, `num_files_read`, `number_printed_line`)
are shared by programs and terminals that know nothing of each other; `grep`
sees files in pieces that end anywhere in a line and looks at a byte it may
never have written.  `PROJECT.json` lists the hazards, each at its line.

## 2. Modules

| Module | Models | Extends / uses |
|---|---|---|
| `TaskStack` | what execute and halt promise: a stack of tasks | |
| `Process` | the process manager | refines `TaskStack` |
| `ProcessHistory` | `Process` with a history of what has happened since boot | `Process` |
| `ProcessProofs` | proofs about `Process` and its history | `Process`, `ProcessHistory` |
| `Terminal` | keyboard_handler and read_terminal, load by load and store by store | |
| `TerminalHistory`, `TerminalProofs` | `Terminal` with a history of the running read; proofs about both | `Terminal` |
| `FileSys` | directory entries, inodes, `read_data` (operators) | |
| `FileTable`, `MCFileTable` | descriptors, positions, the directory cursor | `FileSys` |
| `FileTableProofs` | proofs about `FileTable` and `Utilities` | `Utilities` |
| `Screen`, `ScreenProofs` | video memory and cursor; proofs | |
| `Rtc` | the RTC driver at the level of port accesses | |
| `RtcProofs` | proofs about `Rtc` and about `Blink`, whose tasklet the RTC drives | `Rtc`, `Blink` |
| `Interrupts`, `InterruptsProofs` | controllers, gates, EOIs, system call entry, exceptions; proofs | |
| `Args`, `MCArgs` | command lines and getargs | |
| `Paging` | page directory and tables | |
| `Program`, `MCProgram`, `ProgramProofs` | composition: execute and halt as joint steps of `Args` and `Paging`; proofs | `Paging`, `Args` |
| `Blink` | the list of blinking characters (proofs in `RtcProofs`) | |
| `Utilities`, `MCUtilities` | composition: cat, ls, grep and syserr as programs over the system calls | `FileTable` |
| `Library`, `LibraryProofs` | memory, string and number functions, store by store; proofs | |

### How state and actions correspond to the code

*Process.*  Variables carry the names of the C variables; `kbp[p]` holds which
call of execute the saved frame pointer belongs to.  `callers`, `cur` and
`mode` are the machine's own state: the suspended execute activations, the
kernel stack in use (what `get_pcb()` computes from ESP) and what the CPU does.
`Execute`/`ExecuteFails` are the two ends of `execute`, `Halt` is `halt` (for a
terminal's first shell it starts the replacement, as the code does, before it
returns; `ResumeHalt` is the rest when that replacement has ended), and
`DisplaySwitch` is `display_switch`.  The machine boots on any terminal:
`entry` sets IF before it calls `execute("shell")`, so an Alt+Fn may have
changed the display by then.  After a return on the wrong page or with the wrong
kernel stack (`~Intact`) the program's code is not what its caller was; the
model records that as `astray` and does not follow it further.

*ProcessHistory.*  Some promises of `halt` hold only as long as something has
not happened.  The ghosts say what: `nested` (a shell started a shell),
`switched` (an Alt+Fn), `crossed` (a process ended while another terminal than
its own was shown) and `overwritten` (`execute` changed the pid of another PCB
than the new one).  The properties name exactly the conditions they need, and
section 6 shows that without them they fail.

*Terminal.*  One action per kind of key event (the whole handler).  The
statements of `read_terminal` run with IF set, so each that uses
`X[disp_term_k]` is two actions: `Load` takes `disp_term_k` into `at`, and the
access to `X[at]` follows, on that terminal even if an Alt+Fn has come between.
`memset` gets its terminal once and then stores `WORD` bytes at a time
(`ClearWord`; if the linker puts a buffer at an odd address the first and last
stores are shorter, which the theorems cover with `WORD` 1).  `num` is the
length the program asked for, which ends the copy like the size of the buffer
does.  An Alt+Fn to a terminal without a shell starts one or, when the process
table is full, does not (`display_switch` ignores that `execute` fails).  Shift
and Caps Lock only choose a character. The action for Alt leaves `alt_status` at
either value, which over-approximates the two Alt keys and the prefix `0xE0`
that the code takes for one of them. A `Session` is a set of keys in use; the
run has one with every key of a single terminal and two with Alt+Fn.
`TerminalHistory` records whether the display has moved since the running read
began, whether a key came while a read was taking its line away, and whether an
Enter came with `index` below 0. `InBounds` stops a behaviour where the code
would store outside `keyboard_buf` (see section 6); `BelowZero` and `MaxIndex`
are those bounds, and `Short` the length of a line, `FewCounts` the lengths of
reads in the sessions with two terminals.  `Isolated` and `ReadIsLine` say what
is true of a read: a statement that has loaded a terminal finishes on it, so a
read over which the display has moved does change the terminal that the user has
left (`TerminalStale` in section 6), and no other step does; a read that is
shorter than the line gets what it asked for, the rest of the line is wiped, and
the value returned is one too large (`TerminalShort`).

*FileTable.*  `StartRead`/`FinishRead` split `file_read` between taking and
storing the position, since an Alt+Fn can run other programs there;
`ListEntry`/`AdvanceCursor` split `directory_read` in the same way.  `got` is
a history of what was delivered.  `Opens`, `Closes`, `Reads` and `Writes` say
when a call succeeds; reads and writes that a descriptor does not allow return
-1 (`ReadRefused`, `Write`).

*Screen.*  A cell is a character; attribute bytes are constant.  `line` and
`counted` are ghosts: the characters echoed on the current line, and whether
`number_printed_line` still counts characters of the screen on display
(Ctrl+L, a switch of the display and a program that writes a backspace end
that, the next Enter restores it).  `MaxStray` bounds the rows a Backspace
moves up from a cursor that was saved as (uint8_t)-1.

*Rtc.*  The index port, register A and each `outb`/`inb` are explicit, so an
interrupt between two of them is a behaviour of the model if IF allows it.
`below` are reads suspended when Alt+Fn starts a shell on top of them.
`write_rtc`'s `freq_value`, which only `get_freq` returns, is left out.

*Interrupts.*  `irr`, `isr` and the delivery of interrupts are the 8259's and
the CPU's (marked external in the map); masks, EOIs, gates and the check of the
system call number are the code's.  `stack` is the nesting of handlers and
programs on the kernel stacks.  The 19 exceptions differ only in their stub.

*Program.*  `execute` is one step that parses the command, copies the
arguments into the PCB and maps the program's frame; its error returns come
before the page is switched.  Memory is counted in pages; a directory entry
spans `N` of them.  `vidmap` also rewrites entry 33 of the kernel's own table,
as the code does, and its mapping stays for programs that run later.  `halt`
maps the page that the parent's `pid` names, and `execute` writes that `pid`
through the link that the new PCB still has from its last use, before it sets
the link: the number written is that of the first shell of the terminal on
display, any process of `FirstShells`.  So a caller can come back on a first
shell's page (the finding of `process_nested`): `UserConfined` says that this
is all that can happen.  From there on its next trap takes the other process's
kernel stack, and the model follows it no further (`ProgAstray`); until then
`top` is what `get_pcb()` returns.  The processes are the stack `0 .. top`; the
end of process 0 and its replacement are `Process`'s.

*Utilities.*  Every system call of a program is the corresponding step of
`FileTable`; what it computes between two calls is a step of its own (one line
of `grep`, for instance).  A read returns the bytes of the blocks, whose
contents (`text`) are any text of five bytes; `Behind` is the byte that
`read_data` leaves behind the last one.  `grep`'s array is not initialised:
`Garbage` is what it may hold, and `dirty` remembers that it held a newline.
`disturbed` remembers that another program moved the directory's cursor.  The
eight tests of `syserr` are lists of calls with what each must return, in the
order of the source (`Misspelt` are the names one character off real ones that
`err_open` tries; `open` compares names as a whole).  Shells start programs, and
`AltFn` puts a shell on top of any of them (for the text in `Switched` only, to
bound the run).

*Library.*  Registers, the direction flag and memory are explicit, with one
step per store or string instruction, so the byte loops before and after the
word loop, and the flag that `memmove` leaves set, are part of the model.  The
conversions of `printf` work in `conv_buf` at address 0; how `printf` walks over
its format is left out.

*Blink.*  Program and tasklet run in one thread, so each is one action.
`mp1_ioctl_sync` displays the OFF character whatever the status is (section 6);
the locations where that, or a second element, has written are in `unsure`.

## 3. Runs

| Run | Bounds | Shows |
|---|---|---|
| `process` | 4 PCBs, 2 terminals, 3 slots, shell/app/quit/unknown | the links halt follows lead to the execute that started each task; no kernel stack in use is handed out; halt frees the right PCB; refinement of `TaskStack`; callers get their page, stack and prompt back, PCBs and slots are not lost, each under the conditions it needs |
| `process_nested` (violated) | 6 PCBs, 1 terminal, 4 slots, shells and apps | `ParentPage` fails for a nested shell: see section 6 |
| `terminal` | 2 terminals, buffer of 4 cleared 2 bytes at a time, reads of 2 and of 4 (whole lines), three sessions of keys: one terminal with lines of 4, two with and without Enter and lines of 2 | reads return lines or as much as they ask for, wait on a flag Enter raises, and end; a terminal not displayed is changed only by a read over which the display has moved; Backspace goes at most one place below a line |
| `files` | 3 processes, 1 user descriptor each, files of lengths 3 and 4 with blocks of 2, reads of 1, 2 and 4 | sequential reads; nothing inherited; halt closes |
| `screen` | 2 x 2 cells, 2 terminals, lines of 2 | cursor, echoed line and saved screens |
| `rtc` | 3 frequencies, 2 suspended readers | rate programmed, reads fresh, reads return |
| `interrupts` | lines 1 and 8, nesting up to 7 | EOIs, no nesting, masks, keys taken |
| `interrupts_fault` (violated) | nesting up to 3 | an exception stops the machine |
| `program` | 3 processes, two of them first shells, 37 pages per entry, names shorter than 2, 26 command lines | confinement of user code, screen mapping, arguments |
| `blink` | 3 entries, 3 locations of which one invalid, lengths 0 and 2 | list sound, in step, screen is status |
| `utilities` | 4 processes, 2 terminals, a file of 5 bytes of any text, an empty one, the RTC and the directory; buffers of 2 (cat) and 3 (grep) | grep exact and within its array, cat and ls complete, syserr passes, programs end |
| `library` | 12 bytes of memory, numbers of 8 bits | blocks, strings and numbers exact |

Why these bounds suffice: a PCB has to be freed and reused below and above a
suspended one, which four PCBs give; two terminals give every pair of displayed
and hidden; a buffer of 4 in two stores has a key between them, and a line
shorter, as long and longer than a read; of three processes the one that is not
a first shell must never be what another runs on; one file ends inside a block
and one exactly at its end; 2 x 2 cells have wraps, scrolling and both corners
within a few keys; three list entries have a head, a middle and an end; length 0
wraps the 16-bit countdown; a file of five bytes in a buffer of three has lines
that end in, at the end of and behind the buffer, and two carried parts; 12
bytes hold every alignment with a whole word and both tails; 8 bits have the
least number and up to three digits.  Deadlock is checked except in `Process`,
`FileTable` and `Utilities`, where the system really may stop: when the halt of
the bottom shell has no execute to return to.

Fairness: `WF` of kernel code (it always goes on when no handler runs), of the
RTC chip's tick, of the end of an app in `process` (`PromptReturns` is about
programs that end), and of the running program in `utilities` (there the end is
what is shown); `SF` of interrupt delivery in `Interrupts`,
because IF is set and cleared again and again by system calls and the CPU looks
for an interrupt before each instruction with IF set.  What users type and
which system calls programs make is never fair.

The modules of the kernel state a type invariant (`TypeOK`; `ProgTypeOK` in
`Program`, `BlinkTypeOK` in `Blink`, `UTypeOK` in `Utilities`) as documentation
of their variables, and the proved ones their inductive invariant (`Inv`,
`HInv`, `LineInv`, `SInv`, `ProgInv`, `BlinkInv`, `LInv`, `UInv`), which are
theorems; adding one of them as an `INVARIANT` to a configuration checks it on
the small instance as well.

Each property is paired with a mutant of the code (definitions marked
"Mutant") that violates it.

## 4. Proofs

`ProcessProofs` proves for any number of PCBs up to 8, any positive numbers of
terminals and slots and every set of commands:

* `InvAlways`: `Spec => []Inv`, from which `TypeCorrect`, `HaltFindsCaller`
  (`ReturnPath`), `StacksNotReused` (`StackTaken`) and `HaltAccepted`
  (`OwnTask`) follow;
* `ProcessIsTaskStack`: `Spec => TS!Spec`, the refinement of `TaskStack` under
  the mapping of `callers` and `cur` to the stack.

`ReturnPath` alone is not inductive: `execute` writes through the parent link
that the *previous* owner of a PCB left (`syscall.c:440`), so the invariant
also speaks of PCBs that are free.  `LinksStop` says that no link, stale or
not, of a PCB above a task skips that task; `NoGap` that the PCBs a link jumps
over are taken, so the first free PCB is never one of them; `HaltPid` what pid
a process has whose halt waits for its replacement.  The steps are grouped by
what the code shares: `LaunchInv` (all of execute), `LeaveInv` (the end of
halt), then one case per action.  The assumption `NumProc \in 1 .. 8` is
`page_switch`'s own limit.

`ProcessProofs` also proves, for the same constants, `NeverLeaks`
(`NoPcbLeaks`), `AlwaysPageKept` (`PageKept`) and `SlotsAlwaysKept`
(`SlotsKept`) from `HistoryInvariant`.  On top of `Inv` the invariant says what
each condition on the history buys: `OwnPids` (no pid overwritten: every task
has its own pid, so every PCB in use has a task), `OneTerminal` (no Alt+Fn: the
tasks are the first PCBs in the order they were started, with the replaced
shells at the bottom), `OneShell` (no shell on a shell either: an app leaves
the first shell's pid alone), `SlotsHome` (programs end where they were
started: a PCB is in one slot, of its own terminal, and a halt that waits has
emptied it).

`TerminalProofs` proves for any number of terminals, size of the buffers, sets
of keys and bounds: `TerminalsIsolated` (`Isolated`, an action property),
`AlwaysListens` (`ReaderListens`) and `AlwaysUnderrunByOne` (`UnderrunByOne`),
from `TerminalTypes` and `TerminalInvariant`, for any lengths of reads and any
width of `memset`'s stores.  The strengthening is that `disp_term_k`, read at
the start of the handler, is the displayed terminal; that a terminal loaded by a
read over which the display has not moved is that one too (`Fresh`); that the
Enter flag is up on that one only, and only until the next key event, so at most
one echoed character is counted while it is; and that a read nobody types into
resets `index` in that state (`Resetting`).  `AlwaysReadIsLine` (`ReadIsLine`)
rests on `LineWaits`: behind the position that a read copies from is a newline
that no Backspace can reach, because it lies before the characters the count
still allows to be taken back.  It assumes `EntersFit`: no Enter is pressed
where the buffer has no place left for its newline (the code does not check, see
`TerminalOverrun` in section 6).

`FileTableProofs` proves for any numbers of processes and descriptors, any read
lengths and any file system image that is consistent (`ImageAssumption`: every
block a file's length reaches has a number below `data_count`, every directory
entry an inode): `AlwaysSequentialRead` (`SequentialRead`), `NeverInherited`
(`NothingInherited`) and `HaltAlwaysCloses` (`HaltCloses`).  The invariant
(`FileInvariant`) adds that a read in progress belongs to an open file whose
position is still the one it took, whatever ran on top of it.  The core is the
lemma that a chunk of `read_data` continues the file where the last one ended,
also over the end of a block.

On top of that it proves for the user programs `GrepStaysInBuffer`
(`GrepInBuffer`), `ProgramsPrintAll` (`PrintsAll`) and `SyserrAlwaysPasses`
(`SyserrPasses`), for any sizes of their buffers, any contents of the files and
of the uninitialised array, any selection of tests and any number of terminals.
`UInv` (`UtilitiesInvariant`) says of *every* program of the stack, running or
suspended, where it is between its calls (`Asked`: inside a read only where it
makes one, and with the arguments it still holds) and what it has done so far:
`CatInv` (its output is what its descriptor has delivered), `LsInv` (its output
is the entries before the cursor, unless disturbed), `GrepInv` (the directory
stays open below the file, `last` and `line_start` leave room for the next
read), `SyserrInv` (the calls still to come are those of `err_open_lots` from
its k-th on, with exactly the descriptors open that the first k have left so, or
calls the kernel refuses while none is).  `BelowDisturbed` is what lets an
`ls` trust its cursor: while a program is inside `directory_read`, all below it
count as disturbed.  A step of the running program leaves the others alone
(`Keeps`, `TopStep`), so each action needs one lemma about the program it
belongs to.  `UtilAssumption` is what the build's image has: an entry "." that
is a directory, no empty names, none called as the files that `syserr` looks for
in vain, and, behind the last entry, an empty one for each process that may
advance the cursor when it is resumed, all within the reach of a `uint8_t`.

`ScreenProofs` proves for every screen of at least two rows whose coordinates
fit the bytes they are saved in, every number of terminals and set of
characters: `CursorAlwaysOnScreen` (`CursorOnScreen`), `LineAlwaysShown`
(`LineShown`) and `ScreensAlwaysKept` (`ScreensKept`, an action property).  The
invariant (`SInv`) adds `CountFits` (every key the count lets Backspace erase
stands before the cursor) and `LineCounted` (every character of the line is
counted, and was echoed on the screen).  `MaxLine` is at most what fits above
the last row (1920 characters in the code), so that scrolling does not push the
start of the line off the screen; longer lines are outside the theorems.
The lemmas `NewlineStays`, `BackspaceSteps` and `CharSteps` say what `putc` does
to the cursor and to the cells before it, wraps and scrolling included.

`RtcProofs` proves `RtcInvariant`, `RateProgrammed` and `ReadsFresh` for any
set of valid frequencies and any depth of suspended readers.  The
strengthening is `AccessAtomic` (what has been selected and read is still so
when it is used, because IF is clear) and `FlagIsFresh` (a raised flag seen by
any reader, running or suspended, was raised since its call).  The theorems
assume that the frequencies are powers of two up to 1024; for others see
section 6.

It also proves about `Blink`, for any number of entries, locations and lengths:
`ListAlwaysSound` (`ListSound`), `AlwaysInStep` (`StayInStep`) and
`AlwaysShowsStatus` (`ShownIsStatus`).  `BlinkInv` names the list as a
sequence: following `next` from the head visits each used entry exactly once,
which is what makes unlinking in the middle, and taking the first free entry,
safe; it also says that at a location that is not `unsure` (written by `sync`,
or by a second element) one element writes
(`OneWriter`), that synchronised elements agree in countdown, status and both
lengths (`Paired`), and that the screen shows the status of each used entry there
(`UsedShown`).
That the list never grows longer than the array is a counting argument
(`RoomLeft`).  Location 0 is not used (`BlinkCorner` in
section 6).

`InterruptsProofs` proves `AlwaysAcknowledged` (`Acknowledged`),
`HandlersNeverNest` (`HandlersDontNest`) and `MaskAlwaysExact` (`MaskIsExact`)
for any nesting depth and any set of call numbers.  The invariant
(`InterruptInvariant`) says which frames lie on which, and that the controllers
have in service exactly the lines of the innermost handler that has not yet sent
its EOI.  The theorems assume `Drivers \subseteq {1, 8}`, the keyboard and the
RTC, which are the lines the kernel enables; for other lines `enable_irq` is
wrong (`InterruptsMask` in section 6).

`ProgramProofs` proves for any number of processes up to 8, any size of the page
tables that holds entry 33 and the video pages, and any set of command lines:
`UserAlwaysConfined` (`UserConfined`), `ScreenAlwaysMapped`
(`ScreenStaysMapped`) and `AlwaysGetsWhatWasTyped` (`GetsWhatWasTyped`).  The
page part (`PageInv`) is that the directory is that of `init_paging` but for
`vidmap`'s entry and the program's, which is the one the running PCB's `pid`
names; and that a link, of a PCB in use or free, leads to the PCB below
(`Links`), so that `execute` writes the `pid` of the process that calls it, or
none, and no other.  The theorems hold for every set of first shells.  The
argument part (`ArgInv`) that the PCB of each process up to the top holds what
its command line says, closed by a terminator within the array.  Command lines
are shorter than that array (`ArgsConstants`): a line read from a terminal has
at most 127 characters, and the array 128.  Where the parse stops is the *first*
position with some property, so its lemmas need the least number of a set:
`Least` proves well-ordering from the library's theorem about natural numbers
for that purpose.

`LibraryProofs` proves for memory of any size `BlocksAreExact` (`BlockExact`)
and `StringsAreExact` (`StringExact`).  `LInv` (`LoopInvariants`) is one loop
invariant per function, in terms of `Stored(from, to)`: of the bytes the call
has to store, exactly those `from .. to - 1` are there and everything else is as
the call found it.  In the word loops `Left` is what is still to be stored,
split between `ecx` and `edx`; in `memmove` the flag and the registers say
which end is done, and that the bytes still to be moved lie where no store has
been; in the string functions the terminator is at a fixed place that no
store reaches before it is copied (`EndsAt`).

Only model-checked, and why:

* liveness (`PromptReturns`, both `ReadReturns`, `KeyTaken`, `ProgramsEnd`):
  fairness is out of the prover's reach;
* `GrepExact` of `Utilities`: which lines a file has is a recursive definition,
  and what it computes for every file needs induction over data;
* `NumberShown` of `Library`: it adds up digits times powers of the base with a
  fold, and none of the provers knows more of `^` than its type.

## 5. Not modelled

* The scheduler (`sched.c`): unreachable, see section 1.
* `disable_irq`, `create_paging`: never called.
* A key inside the boot-time `execute("shell")`, which runs with interrupts on:
  only the window before it is a behaviour of `Process`.
* `process_init` clears `terminal_flag` of `terminals[3]`, one past the array:
  what lies there is the linker's choice.
* `counter`, `pingpong`, `hello` and `testprint`, which only read a line, wait
  for the RTC and print; `sigtest`, about signals the kernel does not have;
  `tests.c`, which is not called; the Linux emulation of the system calls.
* Boot code and descriptor tables; how `printf` walks over its format; the
  drawing of fish's frames.

## 6. Where the code departs from what it says

Two of these are runs (`process_nested`, `interrupts_fault`).  The others have
a configuration beside the modules that reproduces them; TLC reports the named
property violated.

| Configuration (module) | Property | What happens |
|---|---|---|
| `ProcessNested` (Process) | `ParentPage` | the write at `syscall.c:440` gives a suspended shell the pid of its terminal's first shell; it is resumed on that one's page.  `Program` has the same write: a nested shell that runs a second program reaches the first shell's frame |
| `InterruptsFault` (Interrupts) | `FaultKills` | `handle_exception` (`idt.c:188`) spins with IF clear; its `halt(255)` is commented out |
| `ProcessSlots` (Process) | `SlotsLive` | halt clears a slot of the *displayed* terminal (`syscall.c:251`), not the process's |
| `ProcessFull` (Process) | `FullOfTasks` | a replaced first shell keeps its PCB (`syscall.c:270`), so fewer than six tasks fill the table |
| `TerminalBackspace` (Terminal) | `NoUnderrun` | `key_noprint` tests the array `index`, not its element (`keyboard.c:304`); after an Enter a Backspace stores before the buffer |
| `TerminalOverrun` (Terminal) | `NoOverrun` | `keyboard_handler` does not compare index with the buffer's size (`keyboard.c:187`) |
| `TerminalDeaf` (Terminal) | `WaitsListening` | a read waits on the terminal now displayed, whose buffer it did not enable (`keyboard.c:347-350`) |
| `TerminalStale` (Terminal) | `StaysAsLeft` | a statement that has loaded `disp_term_k` finishes after an Alt+Fn, the `memset` too: the terminal that is no longer displayed loses its line or is enabled (`keyboard.c:347`, `357-360`) |
| `TerminalShort` (Terminal) | `ReturnsCount` | a read shorter than the line stops without a newline (`keyboard.c:351`), wipes the rest of the line, and `++i` is one more than the bytes copied |
| `TerminalMixed` (Terminal) | `ReadsLine` | an Alt+Fn during the copy continues it in another terminal's buffer (`keyboard.c:353`) |
| `TerminalWakeup` (Terminal) | `EnterServed` | the release of Enter clears the flag before the reader has polled it (`keyboard.c:145`) |
| `FileTableDirectory` (MCFileTable) | `DirectoryListed` | one cursor for all readers of the directory (`filesys.c:157`) |
| `ScreenCorner` (Screen) | `CornerIsZero` | Ctrl+L keeps the count of echoed characters, so a Backspace at the corner moves the cursor to row -1 (`lib.c:297`) |
| `RtcInvalid` (Rtc) | `RateSet` | a frequency that is not a power of two stores 0xFF in register A, not "same as case 2 Hz" (`rtc.c:132`) |
| `InterruptsMask` (Interrupts) | `MaskIsExact` | `~(1)<<n` clears the bits below n too (`i8259.c:110`) |
| `InterruptsCall` (Interrupts) | `CallInTable` | numbers 9 and 10 pass the check but have no entry (`interrupt.S:412`) |
| `ArgsName` (MCArgs) | `NameFits` | the terminator of a name of 32 characters goes to `cmds[32]` (`syscall.c:347`) |
| `ArgsNone` (MCArgs) | `NoArgsFail` | getargs compares an array with NULL and succeeds without arguments (`syscall.c:597`) |
| `PagingZero` (Paging) | `PageZeroAbsent` | the test of `init_paging` is true of every page (`paging.c:15`) |
| `BlinkCorner` (Blink) | `ListEnds` | location 0 marks a free entry; an element there is allocated again and linked to itself (`fish.c:164`) |

One more is not a configuration of its own: the `cmovl` of `mp1_ioctl_sync`
(`blink.S:282`) tests flags that `testb` never sets and so never moves, and the
OFF character is displayed whatever the status is.  `Sync` of `Blink` does so,
and `ShownIsStatus` leaves out the locations that `sync` has written.

## 7. Plan

1. Done: `Process` with its proofs and refinement; `Terminal`, `FileTable`,
   `Screen`, `Rtc` with its proofs, `Interrupts`, `Program`, `Blink`.
2. Done: the histories of `Process` and `Terminal`, the window before the first
   shell, `Utilities` over `FileTable`, `Library`.
3. Done: proofs of the histories of `Process` and `Terminal`, of `FileTable`,
   `Screen`, `Interrupts` and `Program`.
4. Done: proofs of `Library` (but for the numbers), of `Blink` and of
   `Utilities` (but for the exact output of `grep`).
