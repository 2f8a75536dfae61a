------------------------------ MODULE FileSys ------------------------------
(***************************************************************************)
(* The read-only file system image and the functions of                    *)
(* student-distrib/filesys.c that look into it.  A byte is a value that    *)
(* tells its block and its place in it, so a misplaced byte shows.         *)
(***************************************************************************)
EXTENDS Integers, Sequences

CONSTANTS
    BLOCKSIZE,          \* 4096 in the code
    NUM_MAX_DENTRIES,   \* places in the boot block for entries (63)
    direntries,         \* the entries: [name, filetype, inode], in order
    length,             \* length[n] of inode n
    data_block_num,     \* data_block_num[n][k]: the k-th block of inode n
    data_count          \* number of data blocks

inode_count == Len(length)      \* inodes 0 .. inode_count - 1

Inode == 0 .. inode_count - 1
Size(n) == length[n + 1]

(* The image createfs builds: every byte of a file has a block, and the    *)
(* entries past the last block of a file, which read_data may look at, are *)
(* 0 or other valid blocks.  One place at least is left without an entry:  *)
(* directory_read knows no other end of the directory.                     *)
ASSUME ImageAssumption ==
    /\ BLOCKSIZE \in Nat \ {0}
    /\ data_count \in Nat \ {0}
    /\ length \in Seq(Nat)
    /\ Len(data_block_num) = inode_count
    /\ \A n \in Inode : \A k \in 0 .. Size(n) \div BLOCKSIZE :
          data_block_num[n + 1][k + 1] \in 0 .. data_count - 1
    /\ NUM_MAX_DENTRIES \in Nat /\ Len(direntries) \in 0 .. NUM_MAX_DENTRIES - 1
    /\ \A d \in 1 .. Len(direntries) : direntries[d].inode \in Inode /\ direntries[d].name # ""

(* The block entry of byte i of inode n, and the byte it names.            *)
BlockOf(n, i) == data_block_num[n + 1][i \div BLOCKSIZE + 1]
ByteAt(n, i)  == <<BlockOf(n, i), i % BLOCKSIZE>>

(* The contents of inode n: what a reader should get.                      *)
Contents(n) == [k \in 1 .. Size(n) |-> <<data_block_num[n + 1][(k - 1) \div BLOCKSIZE + 1], (k - 1) % BLOCKSIZE>>]

(* Mutant: the length is compared after the index has been advanced.       *)
EndsLate(n, i) == BlockOf(n, i) >= data_count \/ i = Size(n) + 1

(* read_data: the count it returns and the bytes it counts as read.  The   *)
(* loop copies byte i before it compares i with the length, so it ends at  *)
(* the first i that is the length (that byte is copied but not counted) or *)
(* has no valid block (then the count is one short).                       *)
NoBlock(n, i) == BlockOf(n, i) >= data_count
Ends(n, i) == NoBlock(n, i) \/ i = Size(n)

read_data(n, offset, nbytes) ==
    LET last == offset + nbytes
        ends == {i \in offset .. last - 1 : Ends(n, i)}
        stop == IF ends = {} THEN last ELSE CHOOSE i \in ends : \A j \in ends : i <= j
        count == IF stop < last /\ NoBlock(n, stop) THEN stop - offset - 1 ELSE stop - offset
    IN  [count |-> count, bytes |-> [k \in 1 .. count |-> ByteAt(n, offset + k - 1)]]

(* The entry at a place (from 1); the places behind the last are zero,     *)
(* which is an empty name and the type of the RTC.                         *)
Entry(d) == IF d <= Len(direntries) THEN direntries[d] ELSE [name |-> "", filetype |-> 0, inode |-> 0]

(* read_dentry_by_name searches all places, so it finds an empty name too. *)
Named(name, d) ==
    /\ Entry(d).name = name
    /\ \A e \in 1 .. d - 1 : Entry(e).name # name

Exists(name) == \E d \in 1 .. NUM_MAX_DENTRIES : Entry(d).name = name

(* read_dentry_by_index has no bound: behind the last entry it finds empty *)
(* names, behind the last place the first inode.                           *)
NameAt(k) == IF k < NUM_MAX_DENTRIES THEN Entry(k + 1).name ELSE "inode"
============================================================================
