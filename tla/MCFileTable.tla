---------------------------- MODULE MCFileTable ----------------------------
(***************************************************************************)
(* A small image for TLC: blocks of two bytes; a file that ends inside a   *)
(* block and one of two blocks that ends with a block, so that reading it  *)
(* looks one block entry further (0, as createfs leaves it); the blocks    *)
(* are not in order.                                                       *)
(***************************************************************************)
EXTENDS FileTable

MCdirentries ==
    << [name |-> ".",    filetype |-> 1, inode |-> 0],
       [name |-> "rtc",  filetype |-> 0, inode |-> 0],
       [name |-> "odd",  filetype |-> 2, inode |-> 1],
       [name |-> "even", filetype |-> 2, inode |-> 2] >>

MClength == << 0, 3, 4 >>

MCdata_block_num == << <<0, 0, 0, 0>>, <<3, 1, 0, 0>>, <<2, 1, 0, 0>> >>
============================================================================
