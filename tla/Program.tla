------------------------------ MODULE Program ------------------------------
(***************************************************************************)
(* What a program gets from execute and gives back at halt: its page       *)
(* (Paging) and its arguments (Args).  Each execute and halt of syscall.c  *)
(* is one step of both; the other system calls are steps of one.           *)
(***************************************************************************)
EXTENDS Paging, Sequences

CONSTANTS NAMESIZE, ARGSIZE, Letters, Commands, Programs, Counts

VARIABLES args, typed, cmds_top, reply

argVars == <<args, typed, cmds_top, reply>>
pageVars == <<page_directory, page_table, vidmap_pt, pid, parent, mapped>>

Cmd == INSTANCE Args

ASSUME ProgramAssumption == Cmd!ArgsConstants

ProgInit == Init /\ Cmd!Init

(* execute parses the command, keeps the arguments, switches the page.     *)
ProgExecute(command) == Cmd!Execute(command) /\ \E first \in FirstShells : Execute(first)

(* Its error returns come before page_switch.                              *)
ProgExecuteFails(command) == Intact /\ Cmd!ExecuteFails(command) /\ UNCHANGED pageVars

ProgGetargs(nbytes) == Intact /\ Cmd!getargs(nbytes) /\ UNCHANGED pageVars

ProgVidmap ==
    /\ Vidmap \/ VidmapFails
    /\ UNCHANGED argVars

ProgHalt == Cmd!Halt /\ Halt

(* In another's frame: the PCB that getargs and execute take for its own   *)
(* is no longer that of top.                                               *)
ProgAstray == Astray /\ UNCHANGED argVars

ProgNext ==
    \/ \E command \in Commands : ProgExecute(command) \/ ProgExecuteFails(command)
    \/ \E nbytes \in Counts : ProgGetargs(nbytes)
    \/ ProgVidmap
    \/ ProgHalt
    \/ ProgAstray

ProgSpec == ProgInit /\ [][ProgNext]_<<vars, argVars>>

----------------------------------------------------------------------------
(* Types of the page tables and of the arguments.                          *)
ProgTypeOK == TypeOK /\ Cmd!TypeOK

(* A program gets exactly what was typed behind its name: see Args.        *)
GetsWhatWasTyped == Cmd!GetsWhatWasTyped

(* The inductive invariant: that of the pages and that of the arguments.   *)
ProgInv == PageInv /\ Cmd!ArgInv
=============================================================================
