---------------------------- MODULE MCUtilities ----------------------------
(***************************************************************************)
(* For TLC: the directory, the RTC and two files of text, in blocks of two *)
(* bytes: one of three blocks, five bytes of it used, and an empty one.    *)
(***************************************************************************)
EXTENDS Utilities

MCdirentries ==
    << [name |-> ".",     filetype |-> 1, inode |-> 0],
       [name |-> "hello", filetype |-> 2, inode |-> 1],
       [name |-> "rtc",   filetype |-> 0, inode |-> 0],
       [name |-> "shell", filetype |-> 2, inode |-> 2] >>

MClength == << 0, 5, 0 >>

MCdata_block_num == << <<0, 0, 0, 0>>, <<2, 0, 1, 0>>, <<0, 0, 0, 0>> >>

(* Everything that five bytes and the one behind them can hold, as text or *)
(* with a NUL in the middle.                                               *)
Blocks(b) == << <<b[3], b[4]>>, <<b[5], b[6]>>, <<b[1], b[2]>> >>

MCTexts ==
    {Blocks(b) : b \in {c \in [1 .. 6 -> {"a", "nl", "nul"}] : \A k \in 1 .. 6 : c[k] = "nul" => k = 4}}

MCSwitched == {Blocks(<<"a", "nl", "a", "a", "nl", "nl">>)}

MCPatterns == {<<"a", "a">>}
============================================================================
