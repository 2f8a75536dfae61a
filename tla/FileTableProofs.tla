-------------------------- MODULE FileTableProofs --------------------------
(***************************************************************************)
(* Theorems about FileTable, for every image, any block size and any       *)
(* number of processes and descriptors, and about the programs of          *)
(* Utilities that run over it.                                             *)
(***************************************************************************)
EXTENDS Utilities, SequenceTheorems, WellFoundedInduction, TLAPS

(* The image: a byte of a file, and the one behind its last, has a block.  *)
LEMMA DivMonotonic ==
    ASSUME NEW a \in Nat, NEW b \in Nat, a <= b, NEW d \in Nat, d > 0
    PROVE  a \div d \in 0 .. b \div d
  <1>1. a \div d \in Nat /\ b \div d \in Nat
    OBVIOUS
  <1>2. a \div d <= b \div d
    OBVIOUS
  <1>. QED  BY <1>1, <1>2

LEMMA SizeFacts ==
    ASSUME NEW n \in Inode
    PROVE  /\ Size(n) \in Nat
           /\ BLOCKSIZE \in Nat /\ BLOCKSIZE > 0
           /\ \A i \in 0 .. Size(n) : ~NoBlock(n, i)
  <1>1. /\ BLOCKSIZE \in Nat /\ BLOCKSIZE > 0 /\ length \in Seq(Nat)
        /\ data_count \in Nat
        /\ \A k \in 0 .. Size(n) \div BLOCKSIZE : data_block_num[n + 1][k + 1] \in 0 .. data_count - 1
    <2>1. BLOCKSIZE \in Nat \ {0} /\ length \in Seq(Nat) /\ data_count \in Nat \ {0}
      BY ImageAssumption, Zenon
    <2>2. \A k \in 0 .. Size(n) \div BLOCKSIZE : data_block_num[n + 1][k + 1] \in 0 .. data_count - 1
      BY ImageAssumption, Zenon
    <2>. QED  BY <2>1, <2>2
  <1>2. Size(n) \in Nat
    BY <1>1 DEF Inode, inode_count, Size
  <1>3. ASSUME NEW i \in 0 .. Size(n)
        PROVE  ~NoBlock(n, i)
    <2>1. i \div BLOCKSIZE \in 0 .. Size(n) \div BLOCKSIZE
      <3>1. i \in Nat /\ i <= Size(n)
        BY <1>2
      <3>. QED  BY <1>1, <1>2, <3>1, DivMonotonic
    <2>. QED  BY <1>1, <2>1 DEF NoBlock, BlockOf
  <1>. QED  BY <1>1, <1>2, <1>3

(* read_data returns the rest of the file, or what it was asked for.       *)
LEMMA ReadDataFacts ==
    ASSUME NEW n \in Inode, NEW offset \in 0 .. Size(n), NEW nbytes \in Nat
    PROVE  LET r == read_data(n, offset, nbytes)
           IN  /\ r.count \in Nat /\ offset + r.count <= Size(n)
               /\ r.count <= nbytes /\ (r.count < nbytes => offset + r.count = Size(n))
               /\ r.bytes = [k \in 1 .. r.count |-> Contents(n)[offset + k]]
  <1>. DEFINE last == offset + nbytes
              ends == {i \in offset .. last - 1 : Ends(n, i)}
              stop == IF ends = {} THEN last ELSE CHOOSE i \in ends : \A j \in ends : i <= j
              count == IF stop < last /\ NoBlock(n, stop) THEN stop - offset - 1 ELSE stop - offset
  <1>1. /\ Size(n) \in Nat /\ offset \in Nat /\ offset <= Size(n)
        /\ \A i \in 0 .. Size(n) : ~NoBlock(n, i)
    BY SizeFacts
  <1>2. read_data(n, offset, nbytes) =
            [count |-> count, bytes |-> [k \in 1 .. count |-> ByteAt(n, offset + k - 1)]]
    BY DEF read_data
  <1>3. stop \in offset .. Size(n) /\ stop <= last /\ (stop < last => stop = Size(n))
    <2>1. CASE ends = {}
      <3>1. Size(n) \notin offset .. last - 1
        BY <2>1 DEF Ends
      <3>. HIDE DEF ends
      <3>. QED  BY <1>1, <2>1, <3>1
    <2>2. CASE ends # {}
      <3>1. PICK e \in offset .. last - 1 : Ends(n, e)
        BY <2>2
      <3>2. e >= Size(n)
        BY <1>1, <3>1 DEF Ends
      <3>3. Size(n) \in ends
        BY <1>1, <3>1, <3>2 DEF Ends
      <3>4. \A j \in ends : Size(n) <= j
        BY <1>1 DEF Ends
      <3>5. stop \in ends /\ \A j \in ends : stop <= j
        <4>. HIDE DEF ends
        <4>. QED  BY <2>2, <3>3, <3>4
      <3>6. stop \in offset .. last - 1 /\ stop <= Size(n)
        BY <3>3, <3>5
      <3>7. stop >= Size(n)
        BY <3>4, <3>5
      <3>. HIDE DEF stop, ends
      <3>. QED  BY <1>1, <3>6, <3>7
    <2>. QED  BY <2>1, <2>2
  <1>. HIDE DEF stop
  <1>4. count = stop - offset
    BY <1>1, <1>3
  <1>5. /\ count \in Nat /\ offset + count <= Size(n)
        /\ count <= nbytes /\ (count < nbytes => offset + count = Size(n))
    BY <1>1, <1>3, <1>4
  <1>. HIDE DEF count
  <1>6. ASSUME NEW k \in 1 .. count
        PROVE  ByteAt(n, offset + k - 1) = Contents(n)[offset + k]
    <2>1. offset + k \in 1 .. Size(n)
      BY <1>1, <1>5
    <2>. DEFINE j == offset + k
    <2>2. Contents(n)[j] = <<data_block_num[n + 1][(j - 1) \div BLOCKSIZE + 1], (j - 1) % BLOCKSIZE>>
      <3>. HIDE DEF j
      <3>. QED  BY <2>1 DEF j, Contents
    <2>. QED  BY <2>2 DEF ByteAt, BlockOf
  <1>7. [k \in 1 .. count |-> ByteAt(n, offset + k - 1)] = [k \in 1 .. count |-> Contents(n)[offset + k]]
    BY <1>6, Zenon
  <1>8. /\ read_data(n, offset, nbytes).count = count
        /\ read_data(n, offset, nbytes).bytes = [k \in 1 .. count |-> Contents(n)[offset + k]]
    BY <1>2, <1>7
  <1>. QED  BY <1>5, <1>8, Zenon

(* What is read next continues what has been read.                         *)
LEMMA ReadContinues ==
    ASSUME NEW n \in Inode, NEW a \in Nat, NEW c \in Nat, a + c <= Size(n)
    PROVE  SubSeq(Contents(n), 1, a) \o [k \in 1 .. c |-> Contents(n)[a + k]]
             = SubSeq(Contents(n), 1, a + c)
  <1>. DEFINE C == Contents(n)
              S == {C[k] : k \in 1 .. Size(n)}
              t == [k \in 1 .. c |-> C[a + k]]
              u == SubSeq(C, a + 1, a + c)
  <1>1. Size(n) \in Nat
    BY SizeFacts
  <1>2. C \in [1 .. Size(n) -> S]
    BY DEF Contents
  <1>. HIDE DEF C
  <1>3. C \in Seq(S) /\ Len(C) = Size(n)
    <2>. HIDE DEF S
    <2>1. C \in Seq(S)
      BY <1>1, <1>2, SeqDef, Zenon
    <2>2. Len(C) \in Nat /\ DOMAIN C = 1 .. Len(C) /\ DOMAIN C = 1 .. Size(n)
      BY <1>2, <2>1, LenProperties
    <2>3. \A k : k \in 1 .. Len(C) <=> k \in 1 .. Size(n)
      BY <2>2, Zenon
    <2>4. Len(C) >= 1 => Len(C) \in 1 .. Size(n)
      BY <2>2, <2>3
    <2>5. Size(n) >= 1 => Size(n) \in 1 .. Len(C)
      BY <1>1, <2>3
    <2>. QED  BY <1>1, <2>1, <2>2, <2>4, <2>5
  <1>4. \A k \in 1 .. Size(n) : C[k] \in S
    OBVIOUS
  <1>. HIDE DEF S
  <1>5. t \in Seq(S) /\ Len(t) = c /\ \A k \in 1 .. c : t[k] = C[a + k]
    <2>1. \A k \in 1 .. c : C[a + k] \in S
      BY <1>1, <1>4
    <2>. QED  BY <2>1
  <1>6. u \in Seq(S) /\ Len(u) = c /\ \A k \in 1 .. c : u[k] = C[a + k]
    <2>1. \A k \in a + 1 .. a + c : C[k] \in S
      BY <1>1, <1>4
    <2>2. /\ u \in Seq(S)
          /\ Len(u) = IF a + 1 <= a + c THEN a + c - (a + 1) + 1 ELSE 0
          /\ \A k \in 1 .. a + c - (a + 1) + 1 : u[k] = C[a + 1 + k - 1]
      BY <2>1, SubSeqProperties
    <2>. HIDE DEF u
    <2>. QED  BY <2>2
  <1>7. t = u
    <2>. HIDE DEF t, u
    <2>. QED  BY <1>5, <1>6, SeqEqual
  <1>8. SubSeq(C, 1, a) \o SubSeq(C, a + 1, a + c) = SubSeq(C, 1, a + c)
    <2>1. 1 \in 1 .. Len(C) + 1 /\ a \in 1 - 1 .. Len(C) /\ a + c \in a .. Len(C)
      BY <1>1, <1>3
    <2>. QED  BY <1>3, <2>1, ConcatAdjacentSubSeq
  <1>. QED  BY <1>7, <1>8, Zenon DEF C

LEMMA NothingReadYet ==
    ASSUME NEW n
    PROVE  SubSeq(Contents(n), 1, 0) = <<>>
  BY SubSeqEmpty

LEMMA WholeFile ==
    ASSUME NEW n \in Inode
    PROVE  SubSeq(Contents(n), 1, Size(n)) = Contents(n)
  <1>. DEFINE C == Contents(n)
              S == {C[k] : k \in 1 .. Size(n)}
  <1>1. Size(n) \in Nat
    BY SizeFacts
  <1>2. C \in [1 .. Size(n) -> S]
    BY DEF Contents
  <1>. HIDE DEF C, S
  <1>3. C \in Seq(S)
    BY <1>1, <1>2, SeqDef, Zenon
  <1>4. Len(C) = Size(n)
    BY <1>1, <1>2, <1>3, LenProperties
  <1>5. SubSeq(C, 1, Len(C)) = C
    BY <1>3, SubSeqFull
  <1>. QED  BY <1>4, <1>5 DEF C

(* One descriptor of one process is replaced.                              *)
LEMMA Except2 ==
    ASSUME NEW A, NEW B, NEW f, DOMAIN f = A, \A a \in A : DOMAIN f[a] = B,
           NEW p \in A, NEW q \in B, NEW x
    PROVE  LET g == [f EXCEPT ![p][q] = x]
           IN  /\ DOMAIN g = A
               /\ \A a \in A : DOMAIN g[a] = B
               /\ \A a \in A, b \in B : g[a][b] = IF a = p /\ b = q THEN x ELSE f[a][b]
  BY Zenon

LEMMA TypeFacts ==
    ASSUME TypeOK
    PROVE  /\ DOMAIN fds = Proc /\ \A p \in Proc : DOMAIN fds[p] = Fd
           /\ \A p \in Proc, fd \in Fd :
                 /\ fds[p][fd] \in File /\ fds[p][fd].flags \in {0, 1}
                 /\ fds[p][fd].file_pos \in Nat /\ fds[p][fd].inode \in Nat
           /\ top \in Nat /\ \A p \in 0 .. top : p \in Proc
           /\ top \in Proc /\ top \in 0 .. top
           /\ UserFd \subseteq Fd /\ 0 \in Fd /\ 1 \in Fd /\ 0 \notin UserFd /\ 1 \notin UserFd
  <1>1. DOMAIN fds = Proc /\ \A p \in Proc : DOMAIN fds[p] = Fd
    BY DEF TypeOK
  <1>2. \A p \in Proc, fd \in Fd : fds[p][fd] \in File
    BY DEF TypeOK
  <1>3. \A f \in File : f.flags \in {0, 1} /\ f.file_pos \in Nat /\ f.inode \in Nat
    BY DEF File
  <1>4. top \in Nat /\ top \in Proc /\ \A p \in 0 .. top : p \in Proc
    BY FdAssumption DEF TypeOK, Proc
  <1>5. UserFd \subseteq Fd /\ 0 \in Fd /\ 1 \in Fd /\ 0 \notin UserFd /\ 1 \notin UserFd
    BY FdAssumption DEF UserFd, Fd
  <1>. QED  BY <1>1, <1>2, <1>3, <1>4, <1>5

----------------------------------------------------------------------------
(* What Inv says of one descriptor.                                        *)
FdOK(f, read) ==
    /\ IsOpenFile(f) => /\ f.inode \in Inode /\ f.file_pos <= Size(f.inode)
                        /\ read = SubSeq(Contents(f.inode), 1, f.file_pos)
    /\ f.flags = 0 \/ f.fops \in {"rtc", "directory"} => f.file_pos = 0 /\ f.inode = 0

LEMMA FdFacts ==
    ASSUME Inv
    PROVE  /\ \A p \in 0 .. top, fd \in UserFd : FdOK(fds[p][fd], got[p][fd])
           /\ \A p \in Proc, fd \in UserFd : p > top \/ pc[p] = "halting" => fds[p][fd].flags = 0
           /\ \A p \in Proc, fd \in UserFd : FdOK(fds[p][fd], got[p][fd])
  <1>1. ASSUME NEW p \in 0 .. top, NEW fd \in UserFd
        PROVE  FdOK(fds[p][fd], got[p][fd])
    <2>1. p \in Proc
      BY TypeFacts DEF Inv
    <2>. QED  BY <1>1, <2>1 DEF Inv, OpenFiles, SequentialRead, NothingInherited, IsOpenFile, FdOK
  <1>2. \A p \in Proc, fd \in UserFd : p > top \/ pc[p] = "halting" => fds[p][fd].flags = 0
    BY DEF Inv, HaltCloses
  <1>3. ASSUME NEW p \in Proc, NEW fd \in UserFd
        PROVE  FdOK(fds[p][fd], got[p][fd])
    <2>1. p \in 0 .. top \/ p > top
      BY TypeFacts, FdAssumption DEF Inv, Proc
    <2>2. CASE p > top
      BY <1>2, <2>2 DEF Inv, NothingInherited, IsOpenFile, FdOK
    <2>. QED  BY <1>1, <2>1, <2>2
  <1>. QED  BY <1>1, <1>2, <1>3

(* Conversely, it is enough to look at every descriptor.                   *)
LEMMA FdsGiveInv ==
    ASSUME TypeOK', Standard',
           \A p \in Proc, fd \in UserFd : FdOK(fds'[p][fd], got'[p][fd]),
           \A p \in Proc, fd \in UserFd : p > top' \/ pc'[p] = "halting" => fds'[p][fd].flags = 0,
           \A p \in 0 .. top' : pc'[p] = "reading" =>
              /\ call'[p].fd \in UserFd /\ call'[p].nbytes \in Counts
              /\ IsOpenFile(fds'[p][call'[p].fd])
              /\ call'[p].offset = fds'[p][call'[p].fd].file_pos
    PROVE  Inv'
  <1>1. OpenFiles'
    BY DEF OpenFiles, FdOK, IsOpenFile
  <1>2. HaltCloses'
    BY DEF HaltCloses
  <1>3. NothingInherited'
    BY DEF NothingInherited, FdOK
  <1>4. SequentialRead'
    <2>1. \A p \in 0 .. top' : p \in Proc
      BY FdAssumption DEF TypeOK, Proc
    <2>. QED  BY <2>1 DEF SequentialRead, FdOK, IsOpenFile
  <1>. QED  BY <1>1, <1>2, <1>3, <1>4 DEF Inv

(* open, close and the end of a read: one descriptor of the running        *)
(* process changes, and it is not inside a read afterwards.                *)
LEMMA OneFd ==
    ASSUME Inv, NEW fd \in UserFd, NEW f \in File, NEW x, FdOK(f, x),
           fds' = [fds EXCEPT ![top][fd] = f], got' = [got EXCEPT ![top][fd] = x],
           UNCHANGED top, pc[top] # "halting", pc' = [pc EXCEPT ![top] = "user"],
           call' = call \/ call' = [call EXCEPT ![top] = NoCall],
           num_files_read' \in 0 .. 255
    PROVE  Inv'
  <1>1. TypeOK
    BY DEF Inv
  <1>2. /\ \A p \in Proc, e \in Fd :
              /\ fds'[p][e] = IF p = top /\ e = fd THEN f ELSE fds[p][e]
              /\ got'[p][e] = IF p = top /\ e = fd THEN x ELSE got[p][e]
        /\ DOMAIN fds' = Proc /\ \A p \in Proc : DOMAIN fds'[p] = Fd
        /\ DOMAIN got' = Proc /\ \A p \in Proc : DOMAIN got'[p] = Fd
    <2>1. /\ top \in Proc /\ fd \in Fd
          /\ DOMAIN fds = Proc /\ \A p \in Proc : DOMAIN fds[p] = Fd
          /\ DOMAIN got = Proc /\ \A p \in Proc : DOMAIN got[p] = Fd
      BY <1>1, TypeFacts DEF TypeOK
    <2>2. /\ DOMAIN fds' = Proc /\ \A p \in Proc : DOMAIN fds'[p] = Fd
          /\ \A p \in Proc, e \in Fd : fds'[p][e] = IF p = top /\ e = fd THEN f ELSE fds[p][e]
      BY <2>1, Except2
    <2>3. /\ DOMAIN got' = Proc /\ \A p \in Proc : DOMAIN got'[p] = Fd
          /\ \A p \in Proc, e \in Fd : got'[p][e] = IF p = top /\ e = fd THEN x ELSE got[p][e]
      BY <2>1, Except2
    <2>. QED  BY <2>2, <2>3
  <1>3. /\ \A p \in Proc : p # top => pc'[p] = pc[p] /\ call'[p] = call[p]
        /\ pc'[top] = "user"
    BY <1>1 DEF TypeOK
  <1>4. TypeOK'
    <2>1. fds' \in [Proc -> [Fd -> File]]
      BY <1>1, TypeFacts DEF TypeOK
    <2>2. NoCall \in [fd : Fd, nbytes : Counts \cup {0}, offset : Nat]
      BY <1>1, TypeFacts DEF NoCall
    <2>3. call' \in [Proc -> [fd : Fd, nbytes : Counts \cup {0}, offset : Nat]]
      BY <1>1, <2>2 DEF TypeOK
    <2>4. pc' \in [Proc -> {"user", "reading", "listed", "halting"}]
      BY <1>1 DEF TypeOK
    <2>. QED  BY <1>1, <1>2, <2>1, <2>3, <2>4 DEF TypeOK
  <1>5. Standard'
    BY <1>1, <1>2, TypeFacts DEF Inv, Standard
  <1>6. \A p \in Proc, e \in UserFd : FdOK(fds'[p][e], got'[p][e])
    BY <1>1, <1>2, FdFacts, TypeFacts
  <1>7. ASSUME NEW p \in Proc, NEW e \in UserFd, p > top' \/ pc'[p] = "halting"
        PROVE  fds'[p][e].flags = 0
    <2>1. p # top
      BY <1>1, <1>3, <1>7, TypeFacts
    <2>. QED  BY <1>1, <1>2, <1>3, <1>7, <2>1, FdFacts, TypeFacts
  <1>8. ASSUME NEW p \in 0 .. top', pc'[p] = "reading"
        PROVE  /\ call'[p].fd \in UserFd /\ call'[p].nbytes \in Counts
               /\ IsOpenFile(fds'[p][call'[p].fd])
               /\ call'[p].offset = fds'[p][call'[p].fd].file_pos
    <2>1. p # top /\ p \in Proc /\ p \in 0 .. top
      BY <1>1, <1>3, <1>8, TypeFacts
    <2>2. pc[p] = "reading" /\ call'[p] = call[p]
      BY <1>3, <1>8, <2>1
    <2>3. call[p].fd \in UserFd /\ fds'[p][call[p].fd] = fds[p][call[p].fd]
      BY <1>1, <1>2, <2>1, <2>2, TypeFacts DEF Inv, OpenFiles
    <2>. QED  BY <2>1, <2>2, <2>3 DEF Inv, OpenFiles
  <1>. QED  BY <1>4, <1>5, <1>6, <1>7, <1>8, FdsGiveInv

LEMMA OpenInv ==
    ASSUME Inv, NEW name, Open(name)
    PROVE  Inv'
  <1>1. TypeOK
    BY DEF Inv
  <1>2. PICK d \in 1 .. NUM_MAX_DENTRIES, fd \in UserFd :
          /\ Named(name, d) /\ IsFirstUnused(fd)
          /\ fds' = [fds EXCEPT ![top][fd] = Opened(Entry(d), @)]
          /\ num_files_read' = IF Entry(d).filetype = DIR_FILETYPE THEN 0 ELSE num_files_read
          /\ got' = [got EXCEPT ![top][fd] = <<>>]
    BY DEF Open
  <1>3. name # "" /\ pc[top] = "user" /\ UNCHANGED <<top, pc, call>>
    BY DEF Open, Opens
  <1>. DEFINE old == fds[top][fd]
              f == Opened(Entry(d), old)
  <1>4. fds' = [fds EXCEPT ![top][fd] = f]
    BY <1>2
  <1>5. Entry(d).inode \in Inode /\ Inode \subseteq Nat
    <2>1. Entry(d).name # ""
      BY <1>2, <1>3 DEF Named
    <2>2. d <= Len(direntries)
      BY <2>1 DEF Entry
    <2>3. /\ NUM_MAX_DENTRIES \in Nat /\ Len(direntries) \in 0 .. NUM_MAX_DENTRIES - 1
          /\ \A e \in 1 .. Len(direntries) : direntries[e].inode \in Inode
      BY ImageAssumption, Zenon
    <2>4. d \in 1 .. Len(direntries)
      BY <2>2, <2>3
    <2>5. Inode \subseteq Nat
      BY DEF Inode
    <2>. QED  BY <2>2, <2>3, <2>4, <2>5 DEF Entry
  <1>6. old \in File /\ old.file_pos = 0 /\ old.flags = 0
    <2>1. old \in File /\ old.flags = 0
      BY <1>1, <1>2, TypeFacts DEF IsFirstUnused, Used
    <2>2. FdOK(old, got[top][fd])
      BY <1>1, FdFacts, TypeFacts
    <2>. QED  BY <2>1, <2>2 DEF FdOK
  <1>. HIDE DEF old
  <1>7. f \in File
    BY <1>5, <1>6 DEF Opened, File
  <1>8. FdOK(f, <<>>)
    <2>1. CASE Entry(d).filetype = REG_FILETYPE
      <3>1. f.inode = Entry(d).inode /\ f.file_pos = 0 /\ f.flags = 1 /\ f.fops = "files"
        BY <2>1 DEF Opened
      <3>. HIDE DEF f
      <3>2. Size(f.inode) \in Nat
        BY <1>5, <3>1, SizeFacts
      <3>. QED  BY <1>5, <3>1, <3>2, NothingReadYet DEF FdOK
    <2>2. CASE Entry(d).filetype # REG_FILETYPE
      <3>1. f.inode = 0 /\ f.file_pos = 0 /\ f.fops # "files"
        BY <1>6, <2>2 DEF Opened
      <3>. QED  BY <3>1 DEF FdOK, IsOpenFile
    <2>. QED  BY <2>1, <2>2
  <1>9. pc' = [pc EXCEPT ![top] = "user"]
    BY <1>1, <1>3 DEF TypeOK
  <1>10. num_files_read' \in 0 .. 255
    BY <1>1, <1>2 DEF TypeOK
  <1>. HIDE DEF f
  <1>. QED  BY <1>2, <1>3, <1>4, <1>7, <1>8, <1>9, <1>10, OneFd

LEMMA CloseInv ==
    ASSUME Inv, NEW fd \in Fd, Close(fd), Closes(fd),
           fds' = [fds EXCEPT ![top][fd] = Closed(@)], got' = [got EXCEPT ![top][fd] = <<>>]
    PROVE  Inv'
  <1>1. TypeOK /\ fd \in UserFd /\ pc[top] = "user" /\ UNCHANGED <<num_files_read, top, pc, call>>
    BY DEF Inv, Close, Closes
  <1>. DEFINE f == Closed(fds[top][fd])
  <1>2. f \in File /\ f.flags = 0 /\ f.file_pos = 0 /\ f.inode = 0
    <2>1. fds[top][fd] \in File
      BY <1>1, TypeFacts
    <2>. QED  BY <2>1 DEF Closed, File
  <1>3. FdOK(f, <<>>)
    BY <1>2 DEF FdOK, IsOpenFile
  <1>4. pc' = [pc EXCEPT ![top] = "user"] /\ num_files_read' \in 0 .. 255
    BY <1>1 DEF TypeOK
  <1>5. fds' = [fds EXCEPT ![top][fd] = f]
    OBVIOUS
  <1>. HIDE DEF f
  <1>. QED  BY <1>1, <1>2, <1>3, <1>4, <1>5, OneFd

(* A read ends where read_data stopped: the position that it took is still *)
(* the descriptor's, whatever has run meanwhile.                           *)
LEMMA FinishReadInv ==
    ASSUME Inv, FinishRead
    PROVE  Inv'
  <1>1. TypeOK /\ pc[top] = "reading" /\ UNCHANGED <<num_files_read, top>>
        /\ pc' = [pc EXCEPT ![top] = "user"] /\ call' = [call EXCEPT ![top] = NoCall]
    BY DEF Inv, FinishRead
  <1>. DEFINE c == call[top]
              fd == c.fd
              old == fds[top][fd]
              r == read_data(old.inode, c.offset, c.nbytes)
              f == [old EXCEPT !.file_pos = c.offset + r.count]
              x == got[top][fd] \o r.bytes
  <1>2. fds' = [fds EXCEPT ![top][fd] = f] /\ got' = [got EXCEPT ![top][fd] = x]
    BY DEF FinishRead
  <1>3. /\ fd \in UserFd /\ c.nbytes \in Nat /\ old.flags = 1 /\ old.fops = "files"
        /\ c.offset = old.file_pos
    BY <1>1, TypeFacts, FdAssumption DEF Inv, OpenFiles, IsOpenFile
  <1>4. old \in File /\ old.file_pos \in Nat
    BY <1>1, <1>3, TypeFacts
  <1>5. /\ old.inode \in Inode /\ old.file_pos <= Size(old.inode)
        /\ got[top][fd] = SubSeq(Contents(old.inode), 1, old.file_pos)
    <2>1. FdOK(old, got[top][fd])
      BY <1>1, <1>3, FdFacts, TypeFacts
    <2>. QED  BY <1>3, <2>1 DEF FdOK, IsOpenFile
  <1>6. Size(old.inode) \in Nat
    BY <1>5, SizeFacts
  <1>. DEFINE n == old.inode
              a == old.file_pos
              m == c.nbytes
  <1>7. /\ n \in Inode /\ a \in 0 .. Size(n) /\ a \in Nat /\ m \in Nat
        /\ r = read_data(n, a, m)
        /\ got[top][fd] = SubSeq(Contents(n), 1, a)
    BY <1>3, <1>4, <1>5, <1>6
  <1>. HIDE DEF n, a, m, r
  <1>8. /\ r.count \in Nat /\ a + r.count <= Size(n)
        /\ r.bytes = [k \in 1 .. r.count |-> Contents(n)[a + k]]
    BY <1>7, ReadDataFacts, Zenon
  <1>9. x = SubSeq(Contents(n), 1, a + r.count)
    <2>. DEFINE cnt == r.count
    <2>1. cnt \in Nat /\ a + cnt <= Size(n) /\ r.bytes = [k \in 1 .. cnt |-> Contents(n)[a + k]]
      BY <1>8
    <2>. HIDE DEF cnt
    <2>2. SubSeq(Contents(n), 1, a) \o [k \in 1 .. cnt |-> Contents(n)[a + k]]
            = SubSeq(Contents(n), 1, a + cnt)
      BY <1>7, <2>1, ReadContinues
    <2>3. x = SubSeq(Contents(n), 1, a) \o [k \in 1 .. cnt |-> Contents(n)[a + k]]
      BY <1>7, <2>1, Zenon
    <2>. QED  BY <2>2, <2>3, Zenon DEF cnt
  <1>. HIDE DEF x
  <1>10. /\ f \in File /\ f.inode = n /\ f.flags = 1 /\ f.fops = "files"
         /\ f.file_pos = a + r.count
    <2>. DEFINE pos == a + r.count
    <2>1. pos \in Nat /\ c.offset + r.count = pos
      <3>1. c.offset = a
        BY <1>3, Zenon DEF a
      <3>. QED  BY <1>7, <1>8, <3>1
    <2>. HIDE DEF pos
    <2>2. f = [old EXCEPT !.file_pos = pos]
      BY <2>1, Zenon
    <2>. HIDE DEF old
    <2>3. /\ [old EXCEPT !.file_pos = pos] \in File
          /\ [old EXCEPT !.file_pos = pos].inode = old.inode
          /\ [old EXCEPT !.file_pos = pos].flags = old.flags
          /\ [old EXCEPT !.file_pos = pos].fops = old.fops
          /\ [old EXCEPT !.file_pos = pos].file_pos = pos
      BY <1>4, <2>1 DEF File
    <2>. QED  BY <1>3, <2>2, <2>3, Zenon DEF n, pos
  <1>. HIDE DEF f
  <1>12. FdOK(f, x)
    BY <1>7, <1>8, <1>9, <1>10 DEF FdOK
  <1>11. num_files_read' \in 0 .. 255
    BY <1>1 DEF TypeOK
  <1>. QED  BY <1>1, <1>2, <1>3, <1>10, <1>11, <1>12, OneFd

(* The start of a read, and the steps of a directory's: no descriptor      *)
(* changes, and what is read is not of a file.                             *)
LEMMA SameFds ==
    ASSUME Inv, UNCHANGED <<fds, top>>, TypeOK',
           pc' = pc \/ (pc[top] # "halting" /\ \E to \in {"user", "reading", "listed"} : pc' = [pc EXCEPT ![top] = to]),
           \A p \in Proc : p # top => call'[p] = call[p],
           pc'[top] = "reading" =>
              /\ call'[top].fd \in UserFd /\ call'[top].nbytes \in Counts
              /\ IsOpenFile(fds[top][call'[top].fd])
              /\ call'[top].offset = fds[top][call'[top].fd].file_pos,
           \A p \in Proc, e \in UserFd : IsOpenFile(fds[p][e]) => got'[p][e] = got[p][e]
    PROVE  Inv'
  <1>1. TypeOK
    BY DEF Inv
  <1>2. Standard'
    BY DEF Inv, Standard
  <1>3. \A p \in Proc, e \in UserFd : FdOK(fds'[p][e], got'[p][e])
    BY FdFacts DEF FdOK
  <1>4. \A p \in Proc : p # top => pc'[p] = pc[p]
    BY <1>1 DEF TypeOK
  <1>5. pc'[top] = "halting" => pc[top] = "halting"
    BY <1>1 DEF TypeOK
  <1>6. ASSUME NEW p \in Proc, NEW e \in UserFd, p > top' \/ pc'[p] = "halting"
        PROVE  fds'[p][e].flags = 0
    BY <1>4, <1>5, <1>6, FdFacts
  <1>7. ASSUME NEW p \in 0 .. top', pc'[p] = "reading"
        PROVE  /\ call'[p].fd \in UserFd /\ call'[p].nbytes \in Counts
               /\ IsOpenFile(fds'[p][call'[p].fd])
               /\ call'[p].offset = fds'[p][call'[p].fd].file_pos
    <2>1. CASE p = top
      BY <1>7, <2>1
    <2>2. CASE p # top
      <3>1. p \in Proc /\ p \in 0 .. top
        BY <1>1, TypeFacts
      <3>. QED  BY <1>4, <1>7, <2>2, <3>1 DEF Inv, OpenFiles
    <2>. QED  BY <2>1, <2>2
  <1>. QED  BY <1>2, <1>3, <1>6, <1>7, FdsGiveInv

LEMMA StartReadInv ==
    ASSUME Inv, NEW fd \in Fd, NEW n \in Counts, StartRead(fd, n)
    PROVE  Inv'
  <1>1. TypeOK
    BY DEF Inv
  <1>. DEFINE c == [fd |-> fd, nbytes |-> n, offset |-> fds[top][fd].file_pos]
  <1>2. /\ pc[top] = "user" /\ fd # 1 /\ fds[top][fd].flags # 0 /\ fds[top][fd].fops = "files"
        /\ pc' = [pc EXCEPT ![top] = "reading"] /\ call' = [call EXCEPT ![top] = c]
        /\ UNCHANGED <<fds, num_files_read, top, got>>
    BY DEF StartRead, Reads, Used
  <1>3. fd \in UserFd
    <2>1. fd # 0
      BY <1>1, <1>2, TypeFacts DEF Inv, Standard
    <2>. QED  BY <1>2, <2>1, FdAssumption DEF Fd, UserFd
  <1>4. fds[top][fd].flags = 1 /\ fds[top][fd].file_pos \in Nat
    BY <1>1, <1>2, TypeFacts
  <1>5. c \in [fd : Fd, nbytes : Counts \cup {0}, offset : Nat]
    BY <1>4
  <1>6. c.fd = fd /\ c.nbytes = n /\ c.offset = fds[top][fd].file_pos
    OBVIOUS
  <1>. HIDE DEF c
  <1>7. TypeOK'
    BY <1>1, <1>2, <1>5 DEF TypeOK
  <1>8. pc'[top] = "reading" /\ call'[top] = c /\ \A p \in Proc : p # top => call'[p] = call[p]
    BY <1>1, <1>2 DEF TypeOK
  <1>9. IsOpenFile(fds[top][fd])
    BY <1>2, <1>4 DEF IsOpenFile
  <1>. QED  BY <1>2, <1>3, <1>6, <1>7, <1>8, <1>9, SameFds

LEMMA DirectoryInv ==
    ASSUME Inv, AdvanceCursor \/ \E fd \in Fd : ListEntry(fd)
    PROVE  Inv'
  <1>1. TypeOK
    BY DEF Inv
  <1>2. CASE AdvanceCursor
    <2>1. /\ num_files_read' = (num_files_read + 1) % 256 /\ pc' = [pc EXCEPT ![top] = "user"]
          /\ pc[top] = "listed" /\ UNCHANGED <<fds, top, call, got>>
      BY <1>2 DEF AdvanceCursor
    <2>2. num_files_read' \in 0 .. 255
      BY <1>1, <2>1 DEF TypeOK
    <2>3. TypeOK' /\ pc'[top] = "user"
      BY <1>1, <2>1, <2>2 DEF TypeOK
    <2>. QED  BY <2>1, <2>3, SameFds
  <1>3. ASSUME NEW fd \in Fd, ListEntry(fd)
        PROVE  Inv'
    <2>. DEFINE x == Append(got[top][fd], NameAt(num_files_read))
    <2>1. /\ fds[top][fd].fops = "directory" /\ pc[top] = "user" /\ pc' = [pc EXCEPT ![top] = "listed"]
          /\ got' = [got EXCEPT ![top][fd] = x]
          /\ UNCHANGED <<fds, num_files_read, top, call>>
      BY <1>3 DEF ListEntry
    <2>. HIDE DEF x
    <2>2. /\ top \in Proc /\ DOMAIN got = Proc /\ \A p \in Proc : DOMAIN got[p] = Fd
      BY <1>1 DEF TypeOK
    <2>3. /\ DOMAIN got' = Proc /\ \A p \in Proc : DOMAIN got'[p] = Fd
          /\ \A p \in Proc, e \in Fd : got'[p][e] = IF p = top /\ e = fd THEN x ELSE got[p][e]
      BY <2>1, <2>2, Except2
    <2>4. TypeOK' /\ pc'[top] = "listed"
      BY <1>1, <2>1, <2>3 DEF TypeOK
    <2>5. \A p \in Proc, e \in UserFd : IsOpenFile(fds[p][e]) => got'[p][e] = got[p][e]
      BY <1>1, <2>1, <2>3, TypeFacts DEF IsOpenFile
    <2>. QED  BY <2>1, <2>4, <2>5, SameFds
  <1>. QED  BY <1>2, <1>3

----------------------------------------------------------------------------
(* execute and halt.                                                       *)
LEMMA FreshFacts ==
    ASSUME Inv, NEW p \in Proc, p > top
    PROVE  /\ Fresh(fds[p]) \in [Fd -> File]
           /\ Fresh(fds[p])[0].fops = "stdin" /\ Fresh(fds[p])[1].fops = "stdout"
           /\ \A e \in UserFd : \A x : Fresh(fds[p])[e].flags = 0 /\ FdOK(Fresh(fds[p])[e], x)
  <1>1. TypeOK
    BY DEF Inv
  <1>2. \A e \in Fd : fds[p][e] \in File
    BY <1>1, TypeFacts
  <1>. DEFINE New(e) == IF e = 0 THEN [fds[p][e] EXCEPT !.flags = 1, !.fops = "stdin", !.file_pos = 0]
                        ELSE IF e = 1 THEN [fds[p][e] EXCEPT !.flags = 1, !.fops = "stdout", !.file_pos = 0]
                        ELSE [fds[p][e] EXCEPT !.flags = 0]
  <1>3. Fresh(fds[p]) = [e \in Fd |-> New(e)]
    <2>. DEFINE Old(e) == CASE e = 0 -> [fds[p][e] EXCEPT !.flags = 1, !.fops = "stdin", !.file_pos = 0]
                            [] e = 1 -> [fds[p][e] EXCEPT !.flags = 1, !.fops = "stdout", !.file_pos = 0]
                            [] OTHER -> [fds[p][e] EXCEPT !.flags = 0]
    <2>1. ASSUME NEW e \in Fd
          PROVE  Old(e) = New(e)
      <3>1. CASE e = 0
        BY <3>1
      <3>2. CASE e = 1
        BY <3>2
      <3>3. CASE e # 0 /\ e # 1
        BY <3>3
      <3>. QED  BY <3>1, <3>2, <3>3
    <2>2. Fresh(fds[p]) = [e \in Fd |-> Old(e)]
      BY DEF Fresh
    <2>. HIDE DEF Old, New
    <2>. QED  BY <2>1, <2>2, Zenon
  <1>4. ASSUME NEW e \in Fd
        PROVE  New(e) \in File
    BY <1>2 DEF File
  <1>5. New(0).fops = "stdin" /\ New(1).fops = "stdout"
    <2>1. 0 \in Fd /\ 1 \in Fd
      BY <1>1, TypeFacts
    <2>. QED  BY <1>2, <2>1 DEF File
  <1>6. ASSUME NEW e \in UserFd
        PROVE  New(e).flags = 0 /\ New(e).file_pos = 0 /\ New(e).inode = 0
    <2>1. e \in Fd /\ e # 0 /\ e # 1
      BY <1>1, TypeFacts
    <2>2. fds[p][e].file_pos = 0 /\ fds[p][e].inode = 0
      BY FdFacts DEF FdOK
    <2>. QED  BY <1>2, <2>1, <2>2 DEF File
  <1>. HIDE DEF New
  <1>7. Fresh(fds[p]) \in [Fd -> File] /\ \A e \in Fd : Fresh(fds[p])[e] = New(e)
    BY <1>3, <1>4
  <1>8. \A e \in UserFd : Fresh(fds[p])[e] = New(e)
    BY <1>1, <1>7, TypeFacts
  <1>9. Fresh(fds[p])[0] = New(0) /\ Fresh(fds[p])[1] = New(1)
    BY <1>1, <1>7, TypeFacts
  <1>. QED  BY <1>5, <1>6, <1>7, <1>8, <1>9 DEF FdOK, IsOpenFile

LEMMA ClosedAllFacts ==
    ASSUME Inv, NEW p \in Proc
    PROVE  /\ ClosedAll(fds[p]) \in [Fd -> File]
           /\ \A e \in Fd \ UserFd : ClosedAll(fds[p])[e] = fds[p][e]
           /\ \A e \in UserFd : \A x : ClosedAll(fds[p])[e].flags = 0 /\ FdOK(ClosedAll(fds[p])[e], x)
  <1>1. TypeOK
    BY DEF Inv
  <1>2. \A e \in Fd : fds[p][e] \in File /\ fds[p][e].flags \in {0, 1}
    BY <1>1, TypeFacts
  <1>. DEFINE New(e) == IF e \in UserFd /\ fds[p][e].flags = 1 THEN Closed(fds[p][e]) ELSE fds[p][e]
  <1>3. ClosedAll(fds[p]) = [e \in Fd |-> New(e)]
    BY DEF ClosedAll
  <1>4. \A f \in File : /\ Closed(f) \in File /\ Closed(f).flags = 0
                        /\ Closed(f).file_pos = 0 /\ Closed(f).inode = 0
    BY DEF Closed, File
  <1>5. ASSUME NEW e \in Fd
        PROVE  New(e) \in File
    BY <1>2, <1>4
  <1>6. ASSUME NEW e \in UserFd
        PROVE  New(e).flags = 0 /\ New(e).file_pos = 0 /\ New(e).inode = 0
    <2>1. e \in Fd
      BY <1>1, TypeFacts
    <2>2. fds[p][e].flags = 0 => fds[p][e].file_pos = 0 /\ fds[p][e].inode = 0
      BY FdFacts DEF FdOK
    <2>. QED  BY <1>2, <1>4, <2>1, <2>2
  <1>7. \A e \in Fd \ UserFd : New(e) = fds[p][e]
    OBVIOUS
  <1>. HIDE DEF New
  <1>8. ClosedAll(fds[p]) \in [Fd -> File] /\ \A e \in Fd : ClosedAll(fds[p])[e] = New(e)
    BY <1>3, <1>5
  <1>9. \A e \in UserFd : ClosedAll(fds[p])[e] = New(e)
    BY <1>1, <1>8, TypeFacts
  <1>. QED  BY <1>6, <1>7, <1>8, <1>9 DEF FdOK, IsOpenFile

(* A program is started on top of one that stays as it is or is closed.    *)
LEMMA StartInv ==
    ASSUME Inv, top + 1 \in Proc, top' = top + 1, UNCHANGED <<num_files_read, call>>,
           \/ /\ pc[top] # "halting"
              /\ fds' = [fds EXCEPT ![top + 1] = Fresh(@)]
              /\ pc' = [pc EXCEPT ![top + 1] = "user"] /\ got' = got
           \/ /\ pc[top] = "user"
              /\ fds' = [fds EXCEPT ![top] = ClosedAll(@), ![top + 1] = Fresh(@)]
              /\ pc' = [pc EXCEPT ![top] = "halting", ![top + 1] = "user"]
              /\ got' = [got EXCEPT ![top] = NothingRead]
    PROVE  Inv'
  <1>. DEFINE q == top + 1
              halts == pc'[top] = "halting"
  <1>1. TypeOK
    BY DEF Inv
  <1>2. /\ top \in Nat /\ top \in Proc /\ q \in Proc /\ q > top /\ q # top /\ q \in Nat
        /\ 0 \in Fd /\ 1 \in Fd /\ UserFd \subseteq Fd /\ 0 \notin UserFd /\ 1 \notin UserFd
        /\ \A p \in Proc : p \in Nat
        /\ \A p \in 0 .. q : p \in Proc /\ (p \in 0 .. top \/ p = q)
        /\ \A p \in Proc : p > q => p > top
    BY <1>1, TypeFacts, FdAssumption DEF Proc
  <1>3. /\ \A p \in Proc : p # top /\ p # q => fds'[p] = fds[p] /\ pc'[p] = pc[p]
        /\ \A p \in Proc : p # top => got'[p] = got[p]
        /\ fds'[q] = Fresh(fds[q]) /\ pc'[q] = "user"
        /\ \/ ~halts /\ pc[top] # "halting" /\ pc'[top] = pc[top] /\ fds'[top] = fds[top] /\ got'[top] = got[top]
           \/ halts /\ pc[top] = "user" /\ fds'[top] = ClosedAll(fds[top])
        /\ DOMAIN fds' = Proc /\ DOMAIN got' = Proc /\ \A p \in Proc : DOMAIN got'[p] = Fd
    <2>1. fds \in [Proc -> [Fd -> File]] /\ pc \in [Proc -> {"user", "reading", "listed", "halting"}]
          /\ DOMAIN got = Proc /\ \A p \in Proc : DOMAIN got[p] = Fd
      BY <1>1 DEF TypeOK
    <2>. QED  BY <1>2, <2>1 DEF NothingRead
  <1>4. /\ Fresh(fds[q]) \in [Fd -> File]
        /\ Fresh(fds[q])[0].fops = "stdin" /\ Fresh(fds[q])[1].fops = "stdout"
        /\ \A e \in UserFd : \A x : Fresh(fds[q])[e].flags = 0 /\ FdOK(Fresh(fds[q])[e], x)
    BY <1>2, FreshFacts
  <1>5. /\ ClosedAll(fds[top]) \in [Fd -> File]
        /\ ClosedAll(fds[top])[0] = fds[top][0] /\ ClosedAll(fds[top])[1] = fds[top][1]
        /\ \A e \in UserFd : \A x : ClosedAll(fds[top])[e].flags = 0 /\ FdOK(ClosedAll(fds[top])[e], x)
    BY <1>2, ClosedAllFacts
  <1>. HIDE DEF halts, q
  <1>6. TypeOK'
    <2>1. fds' \in [Proc -> [Fd -> File]]
      BY <1>1, <1>2, <1>4, <1>5 DEF TypeOK, q
    <2>2. pc' \in [Proc -> {"user", "reading", "listed", "halting"}]
      BY <1>1, <1>2 DEF TypeOK, q
    <2>. QED  BY <1>1, <1>2, <1>3, <2>1, <2>2 DEF TypeOK, q
  <1>7. Standard'
    <2>1. ASSUME NEW p \in 0 .. q
          PROVE  fds'[p][0].fops = "stdin" /\ fds'[p][1].fops = "stdout"
      <3>1. CASE p = q
        BY <1>3, <1>4, <3>1
      <3>2. CASE p # q
        <4>1. fds[p][0].fops = "stdin" /\ fds[p][1].fops = "stdout" /\ p \in Proc
          BY <1>2, <3>2 DEF Inv, Standard
        <4>. QED  BY <1>3, <1>5, <3>2, <4>1
      <3>. QED  BY <3>1, <3>2
    <2>. QED  BY <2>1 DEF Standard, q
  <1>8. ASSUME NEW p \in Proc, NEW e \in UserFd
        PROVE  /\ FdOK(fds'[p][e], got'[p][e])
               /\ p > q \/ pc'[p] = "halting" => fds'[p][e].flags = 0
    <2>1. /\ FdOK(fds[p][e], got[p][e])
          /\ p > top \/ pc[p] = "halting" => fds[p][e].flags = 0
      BY FdFacts
    <2>2. CASE p = q
      BY <1>2, <1>3, <1>4, <2>2
    <2>3. CASE p = top
      BY <1>2, <1>3, <1>5, <2>1, <2>3 DEF halts, q
    <2>4. CASE p # q /\ p # top
      BY <1>2, <1>3, <2>1, <2>4
    <2>. QED  BY <2>2, <2>3, <2>4
  <1>9. ASSUME NEW p \in 0 .. q, pc'[p] = "reading"
        PROVE  /\ call'[p].fd \in UserFd /\ call'[p].nbytes \in Counts
               /\ IsOpenFile(fds'[p][call'[p].fd])
               /\ call'[p].offset = fds'[p][call'[p].fd].file_pos
    <2>1. p # q /\ p \in 0 .. top /\ pc[p] = "reading" /\ fds'[p] = fds[p]
      BY <1>2, <1>3, <1>9 DEF halts
    <2>. QED  BY <2>1 DEF Inv, OpenFiles
  <1>. QED  BY <1>6, <1>7, <1>8, <1>9, FdsGiveInv DEF q

(* The running process halts, or its halt goes on.                         *)
LEMMA HaltInv ==
    ASSUME Inv, Halt \/ ResumeHalt
    PROVE  Inv'
  <1>1. TypeOK
    BY DEF Inv
  <1>2. /\ top > 0 /\ top' = top - 1 /\ UNCHANGED <<num_files_read, call>>
        /\ \/ /\ fds' = [fds EXCEPT ![top] = ClosedAll(@)]
              /\ got' = [got EXCEPT ![top] = NothingRead] /\ pc' = pc /\ pc[top] = "user"
           \/ /\ pc[top] = "halting" /\ UNCHANGED <<fds, got>>
              /\ pc' = [pc EXCEPT ![top] = "user"]
    BY DEF Halt, ResumeHalt
  <1>3. /\ top \in Nat /\ top \in Proc /\ 0 \in Fd /\ 1 \in Fd /\ UserFd \subseteq Fd
        /\ \A p \in Proc : p \in Nat
        /\ \A p \in 0 .. top - 1 : p \in Proc /\ p \in 0 .. top /\ p # top
        /\ \A p \in Proc : p > top - 1 => p > top \/ p = top
        /\ top - 1 \in Proc
    BY <1>1, <1>2, TypeFacts, FdAssumption DEF Proc
  <1>4. /\ ClosedAll(fds[top]) \in [Fd -> File]
        /\ \A e \in UserFd : \A x : ClosedAll(fds[top])[e].flags = 0 /\ FdOK(ClosedAll(fds[top])[e], x)
    BY <1>3, ClosedAllFacts
  <1>5. /\ \A p \in Proc : p # top => fds'[p] = fds[p] /\ got'[p] = got[p] /\ pc'[p] = pc[p]
        /\ pc'[top] = "user"
        /\ \/ fds'[top] = ClosedAll(fds[top])
           \/ pc[top] = "halting" /\ fds'[top] = fds[top] /\ got'[top] = got[top]
    BY <1>1, <1>2, <1>3 DEF TypeOK
  <1>6. TypeOK'
    <2>1. fds' \in [Proc -> [Fd -> File]]
      BY <1>1, <1>2, <1>4 DEF TypeOK
    <2>2. pc' \in [Proc -> {"user", "reading", "listed", "halting"}]
      BY <1>1, <1>2 DEF TypeOK
    <2>3. DOMAIN got' = Proc /\ \A p \in Proc : DOMAIN got'[p] = Fd
      BY <1>1, <1>2, <1>3 DEF TypeOK, NothingRead
    <2>. QED  BY <1>1, <1>2, <1>3, <2>1, <2>2, <2>3 DEF TypeOK
  <1>7. Standard'
    BY <1>2, <1>3, <1>5 DEF Inv, Standard
  <1>8. ASSUME NEW p \in Proc, NEW e \in UserFd
        PROVE  /\ FdOK(fds'[p][e], got'[p][e])
               /\ p > top' \/ pc'[p] = "halting" => fds'[p][e].flags = 0
    <2>1. /\ FdOK(fds[p][e], got[p][e])
          /\ p > top \/ pc[p] = "halting" => fds[p][e].flags = 0
      BY FdFacts
    <2>2. CASE p = top
      BY <1>4, <1>5, <2>1, <2>2
    <2>3. CASE p # top
      BY <1>2, <1>3, <1>5, <2>1, <2>3
    <2>. QED  BY <2>2, <2>3
  <1>9. ASSUME NEW p \in 0 .. top', pc'[p] = "reading"
        PROVE  /\ call'[p].fd \in UserFd /\ call'[p].nbytes \in Counts
               /\ IsOpenFile(fds'[p][call'[p].fd])
               /\ call'[p].offset = fds'[p][call'[p].fd].file_pos
    <2>1. p \in 0 .. top /\ pc[p] = "reading" /\ fds'[p] = fds[p]
      BY <1>2, <1>3, <1>5, <1>9
    <2>. QED  BY <1>2, <2>1 DEF Inv, OpenFiles
  <1>. QED  BY <1>6, <1>7, <1>8, <1>9, FdsGiveInv

----------------------------------------------------------------------------
LEMMA InitInv == Init => Inv
  <1>. SUFFICES ASSUME Init PROVE Inv
    OBVIOUS
  <1>1. /\ 0 \in Proc /\ 0 \in Fd /\ 1 \in Fd /\ UserFd \subseteq Fd /\ 0 \notin UserFd /\ 1 \notin UserFd
        /\ 0 .. 0 = {0}
    BY FdAssumption DEF Proc, Fd, UserFd
  <1>2. /\ Std("stdin") \in File /\ Std("stdout") \in File /\ Unused \in File
        /\ Std("stdin").fops = "stdin" /\ Std("stdout").fops = "stdout"
        /\ Unused.flags = 0 /\ Unused.file_pos = 0 /\ Unused.inode = 0
    BY DEF Std, Unused, File
  <1>3. /\ fds \in [Proc -> [Fd -> File]]
        /\ \A p \in Proc, e \in UserFd : fds[p][e] = Unused
        /\ fds[0][0] = Std("stdin") /\ fds[0][1] = Std("stdout")
    BY <1>1, <1>2 DEF Init
  <1>4. TypeOK
    BY <1>1, <1>3 DEF Init, TypeOK, NoCall, NothingRead
  <1>5. Standard
    BY <1>1, <1>2, <1>3 DEF Standard, Init
  <1>6. OpenFiles
    BY <1>1, <1>2, <1>3 DEF OpenFiles, IsOpenFile, Init
  <1>7. HaltCloses /\ NothingInherited
    BY <1>2, <1>3 DEF HaltCloses, NothingInherited
  <1>8. SequentialRead
    BY <1>1, <1>2, <1>3 DEF SequentialRead, Init
  <1>. QED  BY <1>4, <1>5, <1>6, <1>7, <1>8 DEF Inv

LEMMA NextInv ==
    ASSUME Inv, [Next]_vars
    PROVE  Inv'
  <1>1. CASE UNCHANGED vars
    BY <1>1 DEF vars, Inv, TypeOK, Standard, OpenFiles, HaltCloses, NothingInherited, SequentialRead
  <1>2. ASSUME NEW name \in Names, Open(name) \/ OpenFails(name)
        PROVE  Inv'
    BY <1>1, <1>2, OpenInv DEF OpenFails
  <1>3. ASSUME NEW fd \in Fd, Close(fd)
        PROVE  Inv'
    <2>1. CASE Closes(fd) /\ fds' = [fds EXCEPT ![top][fd] = Closed(@)]
               /\ got' = [got EXCEPT ![top][fd] = <<>>]
      BY <1>3, <2>1, CloseInv
    <2>2. CASE UNCHANGED <<fds, got>>
      BY <1>1, <1>3, <2>2 DEF Close, vars
    <2>. QED  BY <1>3, <2>1, <2>2 DEF Close
  <1>4. ASSUME NEW fd \in Fd, ListEntry(fd) \/ \E n \in Counts : StartRead(fd, n)
        PROVE  Inv'
    BY <1>4, DirectoryInv, StartReadInv
  <1>5. CASE FinishRead
    BY <1>5, FinishReadInv
  <1>6. CASE AdvanceCursor
    BY <1>6, DirectoryInv
  <1>7. CASE Execute \/ HaltFirst
    BY <1>7, StartInv DEF Execute, HaltFirst
  <1>8. CASE Halt \/ ResumeHalt
    BY <1>8, HaltInv
  <1>. QED  BY <1>1, <1>2, <1>3, <1>4, <1>5, <1>6, <1>7, <1>8 DEF Next

THEOREM FileInvariant == Spec => []Inv
  <1>1. Inv /\ [Next]_vars => Inv'
    BY NextInv
  <1>. QED  BY InitInv, <1>1, PTL DEF Spec

(* Reads of any sizes, cut anywhere by other calls and programs, deliver   *)
(* the bytes of a file in order and stop at its length, for every image    *)
(* whose files have their blocks.                                          *)
THEOREM AlwaysSequentialRead == Spec => []SequentialRead
  <1>1. Inv => SequentialRead
    BY DEF Inv
  <1>. QED  BY <1>1, FileInvariant, PTL

(* A descriptor that is not in use has nothing that open could inherit.    *)
THEOREM NeverInherited == Spec => []NothingInherited
  <1>1. Inv => NothingInherited
    BY DEF Inv
  <1>. QED  BY <1>1, FileInvariant, PTL

(* halt leaves no descriptor open.                                         *)
THEOREM HaltAlwaysCloses == Spec => []HaltCloses
  <1>1. Inv => HaltCloses
    BY DEF Inv
  <1>. QED  BY <1>1, FileInvariant, PTL

----------------------------------------------------------------------------
(* Utilities.  What UInv says about types, and the constants.              *)
LEMMA Least ==
    ASSUME NEW T, T \subseteq Nat, NEW n \in T
    PROVE  \E x \in T : \A y \in T : x <= y
  <1>. DEFINE R == {ss \in Nat \X Nat : ss[1] < ss[2]}
  <1>1. IsWellFoundedOn(R, Nat)
    BY NatLessThanWellFounded, Zenon DEF OpToRel
  <1>2. \A x, y \in Nat : y < x => <<y, x>> \in R
    OBVIOUS
  <1>. HIDE DEF R
  <1>3. PICK x \in T : \A y \in T : ~(<<y, x>> \in R)
    BY <1>1, WFMin, Zenon
  <1>4. \A y \in T : ~(y < x)
    BY <1>2, <1>3
  <1>. QED  BY <1>4

LEMMA ConstantFacts ==
    /\ NUM_MAX_DENTRIES \in Nat /\ Len(direntries) \in Nat
    /\ Len(direntries) < NUM_MAX_DENTRIES /\ Len(direntries) < 256
    /\ CATBUF \in Nat /\ CATBUF > 0 /\ GREPBUF \in Nat /\ GREPBUF > 0
    /\ CATBUF \in Counts /\ 1 .. GREPBUF \subseteq Counts
    /\ \A d \in 1 .. Len(direntries) :
          direntries[d].inode \in Inode /\ direntries[d].name # "" /\ direntries[d].name \notin Misspelt
    /\ \A d \in 1 .. Len(direntries) : direntries[d].name = "." => direntries[d].filetype = DIR_FILETYPE
    /\ \E d \in 1 .. Len(direntries) : direntries[d].name = "."
  <1>1. NUM_MAX_DENTRIES \in Nat /\ Len(direntries) \in 0 .. NUM_MAX_DENTRIES - 1
    BY ImageAssumption, Zenon
  <1>2. NUM_MAX_DENTRIES <= 256
    BY UtilAssumption, Zenon
  <1>3. CATBUF \in Nat \ {0} /\ GREPBUF \in Nat \ {0} /\ CATBUF \in Counts /\ 1 .. GREPBUF \subseteq Counts
    BY UtilAssumption, Zenon
  <1>4. \A d \in 1 .. Len(direntries) : direntries[d].inode \in Inode /\ direntries[d].name # ""
    BY ImageAssumption, Zenon
  <1>5. /\ \A d \in 1 .. Len(direntries) :
             direntries[d].name \notin Misspelt /\ (direntries[d].name = "." => direntries[d].filetype = DIR_FILETYPE)
        /\ \E d \in 1 .. Len(direntries) : direntries[d].name = "."
    BY UtilAssumption, Zenon DEF DIR_FILETYPE
  <1>6. /\ Len(direntries) \in Nat /\ Len(direntries) < NUM_MAX_DENTRIES /\ Len(direntries) < 256
        /\ CATBUF \in Nat /\ CATBUF > 0 /\ GREPBUF \in Nat /\ GREPBUF > 0
    BY <1>1, <1>2, <1>3
  <1>. QED  BY <1>1, <1>3, <1>4, <1>5, <1>6, Zenon

LEMMA UFacts ==
    ASSUME UInv
    PROVE  /\ Inv /\ TypeOK /\ UTypeOK /\ BelowDisturbed /\ UserInv(top)
           /\ top \in Nat /\ top \in Proc /\ top \in 0 .. top /\ \A p \in 0 .. top : p \in Proc
           /\ prog[top] \in {"shell", "cat", "ls", "grep", "syserr"} /\ at[top] \in Places(prog[top])
           /\ pc[top] \in {"user", "reading", "listed"}
           /\ fds \in [Proc -> [Fd -> File]] /\ pc \in [Proc -> {"user", "reading", "listed", "halting"}]
  <1>1. Inv /\ TypeOK /\ UTypeOK /\ BelowDisturbed
    BY DEF UInv, Inv
  <1>2. top \in Nat /\ top \in Proc /\ top \in 0 .. top /\ \A p \in 0 .. top : p \in Proc
    BY <1>1, TypeFacts
  <1>3. UserInv(top)
    BY <1>2 DEF UInv
  <1>4. pc[top] # "halting"
    BY <1>3 DEF UserInv, Asked
  <1>. QED  BY <1>1, <1>2, <1>3, <1>4 DEF UTypeOK, TypeOK

(* What others do does not touch a program, except for the cursor.         *)
LEMMA Keeps ==
    ASSUME NEW p, UserInv(p),
           fds'[p] = fds[p], got'[p] = got[p], pc'[p] = pc[p], call'[p] = call[p],
           prog'[p] = prog[p], at'[p] = at[p], loc'[p] = loc[p], out'[p] = out[p],
           disturbed'[p] \/ (~disturbed[p] /\ num_files_read' = num_files_read)
    PROVE  UserInv(p)'
  <1>1. Fresher(p)' /\ Asked(p)'
    BY DEF UserInv, Fresher, Asked, IsOpen
  <1>2. CatInv(p)'
    BY DEF UserInv, CatInv, IsOpen
  <1>3. LsInv(p)'
    BY DEF UserInv, LsInv, IsOpen
  <1>4. GrepInv(p)'
    BY DEF UserInv, GrepInv, IsOpen
  <1>5. SyserrInv(p)'
    BY DEF UserInv, SyserrInv
  <1>. QED  BY <1>1, <1>2, <1>3, <1>4, <1>5 DEF UserInv

(* The running program and the kernel below it take a step.                *)
OthersKept ==
    /\ top' = top
    /\ \A p \in Proc : p # top => fds'[p] = fds[p] /\ got'[p] = got[p] /\ pc'[p] = pc[p] /\ call'[p] = call[p]

ProgramsKept ==
    /\ prog' = prog
    /\ \A p \in Proc : p # top => at'[p] = at[p] /\ loc'[p] = loc[p] /\ out'[p] = out[p]

LEMMA TopStep ==
    ASSUME UInv, Inv', UTypeOK', OthersKept, ProgramsKept,
           disturbed' = disturbed \/ Disturb,
           num_files_read' # num_files_read \/ pc'[top] = "listed" => \A q \in 0 .. top - 1 : disturbed'[q],
           \A p \in Proc : p = top => UserInv(p)'
    PROVE  UInv'
  <1>1. /\ top \in Nat /\ \A p \in 0 .. top : p \in Proc
        /\ disturbed \in [Proc -> BOOLEAN] /\ BelowDisturbed
    BY UFacts DEF UTypeOK
  <1>2. \A p \in Proc : disturbed[p] => disturbed'[p]
    BY <1>1 DEF Disturb
  <1>3. ASSUME NEW p \in 0 .. top, NEW q \in 0 .. top, pc'[p] = "listed", q < p
        PROVE  disturbed'[q]
    <2>1. CASE p = top
      BY <1>1, <1>3, <2>1
    <2>2. CASE p # top
      BY <1>1, <1>2, <1>3, <2>2 DEF OthersKept, BelowDisturbed
    <2>. QED  BY <2>1, <2>2
  <1>4. ASSUME NEW p \in 0 .. top, p # top
        PROVE  UserInv(p)'
    <2>1. p \in Proc /\ p \in 0 .. top - 1 /\ UserInv(p)
      BY <1>1, <1>4 DEF UInv
    <2>2. disturbed'[p] \/ (~disturbed[p] /\ num_files_read' = num_files_read)
      BY <1>2, <2>1
    <2>3. /\ fds'[p] = fds[p] /\ got'[p] = got[p] /\ pc'[p] = pc[p] /\ call'[p] = call[p]
          /\ prog'[p] = prog[p] /\ at'[p] = at[p] /\ loc'[p] = loc[p] /\ out'[p] = out[p]
      BY <1>4, <2>1 DEF OthersKept, ProgramsKept
    <2>. QED  BY <2>1, <2>2, <2>3, Keeps
  <1>5. BelowDisturbed'
    BY <1>3 DEF BelowDisturbed, OthersKept
  <1>6. \A p \in 0 .. top : UserInv(p)'
    BY <1>1, <1>4
  <1>. QED  BY <1>5, <1>6 DEF UInv, OthersKept

(* It is enough to look at the program that runs.                          *)
LEMMA OnlyCat ==
    ASSUME NEW p, prog'[p] = "cat", Fresher(p)', Asked(p)', CatInv(p)'
    PROVE  UserInv(p)'
  BY DEF UserInv, LsInv, GrepInv, SyserrInv

LEMMA OnlyLs ==
    ASSUME NEW p, prog'[p] = "ls", Fresher(p)', Asked(p)', LsInv(p)'
    PROVE  UserInv(p)'
  BY DEF UserInv, CatInv, GrepInv, SyserrInv

LEMMA OnlyGrep ==
    ASSUME NEW p, prog'[p] = "grep", Fresher(p)', Asked(p)', GrepInv(p)'
    PROVE  UserInv(p)'
  BY DEF UserInv, CatInv, LsInv, SyserrInv

LEMMA OnlySyserr ==
    ASSUME NEW p, prog'[p] = "syserr", Fresher(p)', Asked(p)', SyserrInv(p)'
    PROVE  UserInv(p)'
  BY DEF UserInv, CatInv, LsInv, GrepInv

(* The kernel's steps, as the program that makes them sees them.           *)
LEMMA NamedOnce ==
    ASSUME NEW name, NEW d \in Nat, NEW e \in Nat, d > 0, e > 0, Named(name, d), Named(name, e)
    PROVE  d = e
  <1>1. ~(d < e) /\ ~(e < d)
    BY DEF Named
  <1>. QED  BY <1>1

LEMMA OpenStep ==
    ASSUME UInv, NEW name, Open(name)
    PROVE  /\ Inv' /\ OthersKept /\ pc[top] = "user" /\ pc'[top] = "user"
           /\ FirstUnused \in UserFd /\ fds[top][FirstUnused].flags = 0
           /\ \A fd \in UserFd : fd < FirstUnused => fds[top][fd].flags # 0
           /\ got'[top][FirstUnused] = <<>>
           /\ \A fd \in UserFd : fd # FirstUnused => fds'[top][fd] = fds[top][fd]
           /\ fds'[top][FirstUnused].flags = 1
           /\ \E d \in 1 .. Len(direntries) :
                 /\ Named(name, d) /\ fds'[top][FirstUnused] = Opened(direntries[d], fds[top][FirstUnused])
                 /\ num_files_read' = IF direntries[d].filetype = DIR_FILETYPE THEN 0 ELSE num_files_read
  <1>1. Inv'
    BY UFacts, OpenInv
  <1>2. PICK d \in 1 .. NUM_MAX_DENTRIES, fd \in UserFd :
          /\ Named(name, d) /\ IsFirstUnused(fd)
          /\ fds' = [fds EXCEPT ![top][fd] = Opened(Entry(d), @)]
          /\ num_files_read' = IF Entry(d).filetype = DIR_FILETYPE THEN 0 ELSE num_files_read
          /\ got' = [got EXCEPT ![top][fd] = <<>>]
    BY DEF Open
  <1>3. name # "" /\ pc[top] = "user" /\ UNCHANGED <<top, pc, call>>
    BY DEF Open, Opens
  <1>4. /\ top \in Proc /\ DOMAIN fds = Proc /\ \A p \in Proc : DOMAIN fds[p] = Fd
        /\ DOMAIN got = Proc /\ \A p \in Proc : DOMAIN got[p] = Fd /\ UserFd \subseteq Fd
        /\ \A e \in UserFd : e \in Nat
    <2>1. TypeOK /\ top \in Proc
      BY UFacts
    <2>2. \A e \in UserFd : e \in Nat
      BY DEF UserFd
    <2>. QED  BY <2>1, <2>2, TypeFacts DEF TypeOK
  <1>5. FirstUnused = fd
    <2>1. \A e \in UserFd : IsFirstUnused(e) => e = fd
      BY <1>2, <1>4 DEF IsFirstUnused
    <2>. QED  BY <1>2, <2>1 DEF FirstUnused
  <1>6. d \in 1 .. Len(direntries) /\ Entry(d) = direntries[d]
    <2>1. Entry(d).name # ""
      BY <1>2, <1>3 DEF Named
    <2>2. d <= Len(direntries) /\ Entry(d) = direntries[d]
      BY <2>1 DEF Entry
    <2>3. Len(direntries) \in Nat /\ NUM_MAX_DENTRIES \in Nat
      BY ConstantFacts
    <2>. QED  BY <1>2, <2>2, <2>3
  <1>7. /\ \A p \in Proc, e \in Fd : fds'[p][e] = IF p = top /\ e = fd THEN Opened(Entry(d), fds[top][fd]) ELSE fds[p][e]
        /\ got'[top][fd] = <<>>
        /\ \A p \in Proc : p # top => fds'[p] = fds[p] /\ got'[p] = got[p]
    BY <1>2, <1>4, Zenon
  <1>8. Opened(Entry(d), fds[top][fd]).flags = 1
    BY DEF Opened
  <1>9. OthersKept
    BY <1>3, <1>7 DEF OthersKept
  <1>10. /\ fds[top][fd].flags = 0
         /\ \A e \in UserFd : e < fd => fds[top][e].flags # 0
    BY <1>2 DEF IsFirstUnused, Used
  <1>11. /\ \A e \in UserFd : e # fd => fds'[top][e] = fds[top][e]
         /\ fds'[top][fd] = Opened(direntries[d], fds[top][fd])
         /\ num_files_read' = IF direntries[d].filetype = DIR_FILETYPE THEN 0 ELSE num_files_read
    BY <1>2, <1>4, <1>6, <1>7, Zenon
  <1>. HIDE DEF FirstUnused
  <1>. QED  BY <1>1, <1>2, <1>3, <1>5, <1>6, <1>7, <1>8, <1>9, <1>10, <1>11, Zenon

(* Only a descriptor of open() leads to a file or a directory.             *)
LEMMA UserFds ==
    ASSUME UInv, NEW fd, Reads(fd), fds[top][fd].fops # "stdin"
    PROVE  fd \in UserFd /\ fd \in Fd /\ fds[top][fd].flags = 1
  <1>1. fd \in Fd /\ fd # 1 /\ fds[top][fd].flags # 0
    BY DEF Reads, Used
  <1>2. fd # 0
    BY UFacts DEF Inv, Standard
  <1>3. fd \in UserFd
    BY <1>1, <1>2, FdAssumption DEF Fd, UserFd
  <1>. QED  BY <1>1, <1>3, UFacts, TypeFacts

LEMMA StartReadStep ==
    ASSUME UInv, NEW fd, NEW n \in Counts, StartRead(fd, n)
    PROVE  /\ Inv' /\ OthersKept /\ fds' = fds /\ got' = got /\ num_files_read' = num_files_read
           /\ IsOpen(top, fd, "files") /\ pc[top] = "user" /\ pc'[top] = "reading"
           /\ call'[top].fd = fd /\ call'[top].nbytes = n
  <1>. DEFINE c == [fd |-> fd, nbytes |-> n, offset |-> fds[top][fd].file_pos]
  <1>1. /\ pc[top] = "user" /\ Reads(fd) /\ fds[top][fd].fops = "files"
        /\ pc' = [pc EXCEPT ![top] = "reading"] /\ call' = [call EXCEPT ![top] = c]
        /\ UNCHANGED <<fds, num_files_read, top, got>>
    BY DEF StartRead
  <1>2. fd \in UserFd /\ fd \in Fd /\ fds[top][fd].flags = 1
    BY <1>1, UserFds
  <1>3. Inv'
    BY <1>2, UFacts, StartReadInv
  <1>4. c.fd = fd /\ c.nbytes = n
    OBVIOUS
  <1>. HIDE DEF c
  <1>5. TypeOK /\ top \in Proc
    BY UFacts
  <1>6. /\ pc'[top] = "reading" /\ call'[top] = c
        /\ \A p \in Proc : p # top => pc'[p] = pc[p] /\ call'[p] = call[p]
    BY <1>1, <1>5 DEF TypeOK
  <1>. QED  BY <1>1, <1>2, <1>3, <1>4, <1>6 DEF OthersKept, IsOpen

LEMMA ListStep ==
    ASSUME UInv, NEW fd, ListEntry(fd)
    PROVE  /\ Inv' /\ OthersKept /\ fds' = fds /\ num_files_read' = num_files_read
           /\ IsOpen(top, fd, "directory") /\ pc[top] = "user" /\ pc'[top] = "listed"
           /\ got'[top][fd] = Append(got[top][fd], NameAt(num_files_read))
  <1>. DEFINE x == Append(got[top][fd], NameAt(num_files_read))
  <1>1. /\ pc[top] = "user" /\ Reads(fd) /\ fds[top][fd].fops = "directory"
        /\ pc' = [pc EXCEPT ![top] = "listed"] /\ got' = [got EXCEPT ![top][fd] = x]
        /\ UNCHANGED <<fds, num_files_read, top, call>>
    BY DEF ListEntry
  <1>2. fd \in UserFd /\ fd \in Fd /\ fds[top][fd].flags = 1
    BY <1>1, UserFds
  <1>3. Inv'
    BY <1>2, UFacts, DirectoryInv
  <1>. HIDE DEF x
  <1>4. TypeOK /\ top \in Proc
    BY UFacts
  <1>5. DOMAIN got = Proc /\ DOMAIN got[top] = Fd
    BY <1>4 DEF TypeOK
  <1>6. got'[top][fd] = x /\ \A p \in Proc : p # top => got'[p] = got[p]
    BY <1>1, <1>2, <1>4, <1>5, Zenon
  <1>7. pc'[top] = "listed" /\ \A p \in Proc : p # top => pc'[p] = pc[p]
    BY <1>1, <1>4 DEF TypeOK
  <1>. QED  BY <1>1, <1>2, <1>3, <1>6, <1>7 DEF OthersKept, IsOpen, x

LEMMA AdvanceStep ==
    ASSUME UInv, AdvanceCursor
    PROVE  /\ Inv' /\ OthersKept /\ fds' = fds /\ got' = got
           /\ num_files_read' = (num_files_read + 1) % 256
           /\ pc[top] = "listed" /\ pc'[top] = "user"
  <1>1. /\ pc[top] = "listed" /\ pc' = [pc EXCEPT ![top] = "user"]
        /\ num_files_read' = (num_files_read + 1) % 256
        /\ UNCHANGED <<fds, top, call, got>>
    BY DEF AdvanceCursor
  <1>2. Inv'
    BY UFacts, DirectoryInv
  <1>3. pc'[top] = "user" /\ \A p \in Proc : p # top => pc'[p] = pc[p]
    BY <1>1, UFacts
  <1>. QED  BY <1>1, <1>2, <1>3 DEF OthersKept

LEMMA CloseStep ==
    ASSUME UInv, NEW fd, Close(fd)
    PROVE  /\ Inv' /\ OthersKept /\ num_files_read' = num_files_read /\ pc' = pc /\ pc[top] = "user"
           /\ \A e \in UserFd : e # fd => fds'[top][e] = fds[top][e]
           /\ fd \in UserFd => fds'[top][fd].flags = 0
  <1>1. /\ pc[top] = "user" /\ UNCHANGED <<num_files_read, top, pc, call>>
        /\ TypeOK /\ top \in Proc /\ Inv
    BY UFacts DEF Close
  <1>2. CASE /\ Closes(fd) /\ fds' = [fds EXCEPT ![top][fd] = Closed(@)]
             /\ got' = [got EXCEPT ![top][fd] = <<>>]
    <2>1. fd \in UserFd /\ UserFd \subseteq Fd /\ fds[top][fd] \in File
      BY <1>1, <1>2, TypeFacts DEF Closes
    <2>2. Inv'
      BY <1>1, <1>2, <2>1, CloseInv
    <2>3. Closed(fds[top][fd]).flags = 0
      BY <2>1 DEF Closed, File
    <2>. DEFINE f == Closed(fds[top][fd])
    <2>4. fds' = [fds EXCEPT ![top][fd] = f]
      BY <1>2
    <2>. HIDE DEF f
    <2>5. DOMAIN fds = Proc /\ DOMAIN fds[top] = Fd /\ DOMAIN got = Proc
      BY <1>1 DEF TypeOK
    <2>6. /\ fds'[top][fd] = f /\ \A e \in UserFd : e # fd => fds'[top][e] = fds[top][e]
          /\ \A p \in Proc : p # top => fds'[p] = fds[p] /\ got'[p] = got[p]
      BY <1>1, <1>2, <2>1, <2>4, <2>5, Zenon
    <2>. QED  BY <1>1, <2>2, <2>3, <2>6 DEF OthersKept, f
  <1>3. CASE ~Closes(fd) /\ UNCHANGED <<fds, got>>
    <2>1. Inv'
      BY <1>1, <1>3, NextInv DEF vars
    <2>2. fd \in UserFd => fds[top][fd].flags = 0
      BY <1>3 DEF Closes, Used
    <2>. QED  BY <1>1, <1>3, <2>1, <2>2 DEF OthersKept
  <1>. QED  BY <1>2, <1>3 DEF Close

LEMMA SameStep ==
    ASSUME UInv, UNCHANGED vars
    PROVE  /\ Inv' /\ OthersKept /\ fds' = fds /\ got' = got /\ pc' = pc /\ call' = call
           /\ num_files_read' = num_files_read
  <1>1. Inv'
    BY UFacts, NextInv
  <1>. QED  BY <1>1 DEF vars, OthersKept

LEMMA FinishStep ==
    ASSUME UInv, FinishRead
    PROVE  LET fd == call[top].fd
               r == read_data(fds[top][fd].inode, call[top].offset, call[top].nbytes)
           IN  /\ Inv' /\ OthersKept /\ num_files_read' = num_files_read
               /\ pc[top] = "reading" /\ pc'[top] = "user"
               /\ IsOpen(top, fd, "files")
               /\ \A e \in UserFd : /\ fds'[top][e].flags = fds[top][e].flags
                                    /\ fds'[top][e].fops = fds[top][e].fops
                                    /\ fds'[top][e].inode = fds[top][e].inode
               /\ got'[top][fd] = got[top][fd] \o r.bytes
               /\ Len(r.bytes) \in Nat /\ Len(r.bytes) <= call[top].nbytes
               /\ r.bytes = <<>> /\ call[top].nbytes > 0 => got[top][fd] = Contents(fds[top][fd].inode)
  <1>. DEFINE c == call[top]
              fd == c.fd
              old == fds[top][fd]
              r == read_data(old.inode, c.offset, c.nbytes)
              f == [old EXCEPT !.file_pos = c.offset + r.count]
              x == got[top][fd] \o r.bytes
  <1>1. /\ TypeOK /\ Inv /\ top \in Proc /\ top \in 0 .. top /\ pc[top] = "reading" /\ UNCHANGED <<num_files_read, top>>
        /\ pc' = [pc EXCEPT ![top] = "user"] /\ call' = [call EXCEPT ![top] = NoCall]
        /\ fds' = [fds EXCEPT ![top][fd] = f] /\ got' = [got EXCEPT ![top][fd] = x]
    BY UFacts DEF FinishRead
  <1>2. Inv'
    BY <1>1, FinishReadInv
  <1>3. /\ fd \in UserFd /\ c.nbytes \in Nat /\ old.flags = 1 /\ old.fops = "files"
        /\ c.offset = old.file_pos
    BY <1>1, FdAssumption DEF Inv, OpenFiles, IsOpenFile
  <1>4. old \in File /\ old.file_pos \in Nat /\ UserFd \subseteq Fd
    BY <1>1, <1>3, TypeFacts
  <1>5. /\ old.inode \in Inode /\ old.file_pos <= Size(old.inode)
        /\ got[top][fd] = SubSeq(Contents(old.inode), 1, old.file_pos)
    <2>1. FdOK(old, got[top][fd])
      BY <1>1, <1>3, FdFacts
    <2>. QED  BY <1>3, <2>1 DEF FdOK, IsOpenFile
  <1>6. Size(old.inode) \in Nat
    BY <1>5, SizeFacts
  <1>. DEFINE n == old.inode
              a == old.file_pos
              m == c.nbytes
  <1>7. /\ n \in Inode /\ a \in 0 .. Size(n) /\ a \in Nat /\ m \in Nat
        /\ r = read_data(n, a, m)
        /\ got[top][fd] = SubSeq(Contents(n), 1, a)
    BY <1>3, <1>4, <1>5, <1>6
  <1>. HIDE DEF n, a, m, r
  <1>8. /\ r.count \in Nat /\ r.count <= m /\ (r.count < m => a + r.count = Size(n))
        /\ r.bytes = [k \in 1 .. r.count |-> Contents(n)[a + k]]
    BY <1>7, ReadDataFacts, Zenon
  <1>9. Len(r.bytes) = r.count
    <2>. DEFINE k0 == r.count
    <2>1. k0 \in Nat /\ r.bytes = [k \in 1 .. k0 |-> Contents(n)[a + k]]
      BY <1>8
    <2>. HIDE DEF k0
    <2>2. Len(r.bytes) = k0
      BY <2>1
    <2>. QED  BY <2>2 DEF k0
  <1>10. r.bytes = <<>> /\ m > 0 => got[top][fd] = Contents(n)
    <2>1. SUFFICES ASSUME r.bytes = <<>>, m > 0 PROVE got[top][fd] = Contents(n)
      OBVIOUS
    <2>2. r.count = 0
      BY <1>9, <2>1
    <2>3. a = Size(n)
      BY <1>7, <1>8, <2>1, <2>2
    <2>4. SubSeq(Contents(n), 1, Size(n)) = Contents(n)
      BY <1>7, WholeFile
    <2>. QED  BY <1>7, <2>3, <2>4
  <1>11. /\ f.flags = old.flags /\ f.fops = old.fops /\ f.inode = old.inode
    <2>. HIDE DEF old
    <2>. QED  BY <1>4 DEF File
  <1>. HIDE DEF f, x
  <1>12. /\ DOMAIN fds = Proc /\ DOMAIN fds[top] = Fd /\ DOMAIN got = Proc /\ DOMAIN got[top] = Fd
    BY <1>1 DEF TypeOK
  <1>13. /\ fds'[top][fd] = f /\ \A e \in UserFd : e # fd => fds'[top][e] = fds[top][e]
         /\ got'[top][fd] = x
         /\ \A p \in Proc : p # top => fds'[p] = fds[p] /\ got'[p] = got[p]
    BY <1>1, <1>3, <1>4, <1>12, Zenon
  <1>14. /\ pc'[top] = "user" /\ \A p \in Proc : p # top => pc'[p] = pc[p] /\ call'[p] = call[p]
    BY <1>1 DEF TypeOK
  <1>15. OthersKept
    BY <1>1, <1>13, <1>14 DEF OthersKept
  <1>16. \A e \in UserFd : /\ fds'[top][e].flags = fds[top][e].flags
                           /\ fds'[top][e].fops = fds[top][e].fops
                           /\ fds'[top][e].inode = fds[top][e].inode
    BY <1>11, <1>13, Zenon
  <1>17. IsOpen(top, fd, "files")
    BY <1>3 DEF IsOpen
  <1>18. Len(r.bytes) \in Nat /\ Len(r.bytes) <= c.nbytes
    BY <1>8, <1>9 DEF m
  <1>. QED  BY <1>1, <1>2, <1>10, <1>13, <1>14, <1>15, <1>16, <1>17, <1>18 DEF n, m, r, x

----------------------------------------------------------------------------
(* What a step of a program changes of its own.                            *)
LEMMA Fields ==
    {"arg", "fd", "dir", "name", "dirty", "data", "last", "cnt", "line_start", "todo", "fail"} = DOMAIN NoLocals
  BY DEF NoLocals

LEMMA LocalStep ==
    ASSUME UInv, NEW w \in Places(prog[top]), NEW l, DOMAIN l = DOMAIN NoLocals, NEW o,
           at' = [at EXCEPT ![top] = w] \/ (at' = at /\ w = at[top]),
           loc' = [loc EXCEPT ![top] = l] \/ (loc' = loc /\ l = loc[top]),
           out' = [out EXCEPT ![top] = o] \/ (out' = out /\ o = out[top]),
           prog' = prog, disturbed' = disturbed \/ Disturb
    PROVE  UTypeOK' /\ ProgramsKept /\ at'[top] = w /\ loc'[top] = l /\ out'[top] = o
  <1>1. UTypeOK /\ top \in Proc
    BY UFacts
  <1>2. /\ prog \in [Proc -> {"shell", "cat", "ls", "grep", "syserr"}]
        /\ DOMAIN at = Proc /\ \A p \in Proc : at[p] \in Places(prog[p])
        /\ DOMAIN loc = Proc /\ \A p \in Proc : DOMAIN loc[p] = DOMAIN NoLocals
        /\ DOMAIN out = Proc /\ disturbed \in [Proc -> BOOLEAN]
    BY <1>1 DEF UTypeOK
  <1>3. /\ DOMAIN at' = Proc /\ at'[top] = w /\ \A p \in Proc : p # top => at'[p] = at[p]
        /\ DOMAIN loc' = Proc /\ loc'[top] = l /\ \A p \in Proc : p # top => loc'[p] = loc[p]
        /\ DOMAIN out' = Proc /\ out'[top] = o /\ \A p \in Proc : p # top => out'[p] = out[p]
    BY <1>1, <1>2, Zenon
  <1>4. disturbed' \in [Proc -> BOOLEAN]
    BY <1>2 DEF Disturb
  <1>5. \A p \in Proc : at'[p] \in Places(prog'[p]) /\ DOMAIN loc'[p] = DOMAIN NoLocals
    BY <1>2, <1>3, Zenon
  <1>6. UTypeOK'
    BY <1>2, <1>3, <1>4, <1>5 DEF UTypeOK
  <1>. QED  BY <1>3, <1>6 DEF ProgramsKept

LEMMA OpenOrEndStep ==
    ASSUME UInv, NEW name, NEW w \in Places(prog[top]), NEW l, DOMAIN l = DOMAIN NoLocals,
           OpenOrEnd(name, w, l), prog[top] \in {"cat", "ls", "grep"}
    PROVE  /\ Inv' /\ UTypeOK' /\ OthersKept /\ ProgramsKept
           /\ disturbed' = disturbed \/ Disturb
           /\ num_files_read' # num_files_read => \A q \in 0 .. top - 1 : disturbed'[q]
           /\ pc'[top] = "user" /\ out'[top] = out[top] /\ disturbed'[top] = disturbed[top]
           /\ \/ Open(name) /\ at'[top] = w /\ loc'[top] = l
              \/ ~Opens(name) /\ at'[top] = "end" /\ loc'[top] = loc[top]
  <1>1. UTypeOK /\ top \in Proc /\ top \in Nat /\ \A p \in 0 .. top : p \in Proc
    BY UFacts
  <1>2. /\ prog' = prog /\ out' = out
        /\ \/ Open(name) /\ Goto(w) /\ Set(l) /\ IF IsDirectory(name) THEN Disturb ELSE UNCHANGED disturbed
           \/ OpenFails(name) /\ Goto("end") /\ UNCHANGED <<loc, disturbed>>
    BY DEF OpenOrEnd
  <1>3. "end" \in Places(prog[top])
    BY DEF Places
  <1>4. DOMAIN loc[top] = DOMAIN NoLocals
    BY <1>1 DEF UTypeOK
  <1>5. disturbed' = disturbed \/ Disturb
    BY <1>2
  <1>6. disturbed'[top] = disturbed[top]
    BY <1>1, <1>5 DEF Disturb, UTypeOK
  <1>7. CASE Open(name) /\ Goto(w) /\ Set(l) /\ IF IsDirectory(name) THEN Disturb ELSE UNCHANGED disturbed
    <2>1. /\ Inv' /\ OthersKept /\ pc'[top] = "user"
          /\ \E d \in 1 .. Len(direntries) :
               /\ Named(name, d)
               /\ num_files_read' = IF direntries[d].filetype = DIR_FILETYPE THEN 0 ELSE num_files_read
      BY <1>7, OpenStep
    <2>2. UTypeOK' /\ ProgramsKept /\ at'[top] = w /\ loc'[top] = l /\ out'[top] = out[top]
      BY <1>2, <1>5, <1>7, LocalStep DEF Goto, Set
    <2>3. num_files_read' # num_files_read => \A q \in 0 .. top - 1 : disturbed'[q]
      <3>1. SUFFICES ASSUME num_files_read' # num_files_read, NEW q \in 0 .. top - 1 PROVE disturbed'[q]
        OBVIOUS
      <3>2. IsDirectory(name)
        BY <2>1, <3>1 DEF IsDirectory
      <3>3. q \in Proc /\ q < top
        BY <1>1
      <3>. QED  BY <1>7, <3>2, <3>3 DEF Disturb
    <2>. QED  BY <1>5, <1>6, <1>7, <2>1, <2>2, <2>3
  <1>8. CASE OpenFails(name) /\ Goto("end") /\ UNCHANGED <<loc, disturbed>>
    <2>1. Inv' /\ OthersKept /\ pc'[top] = "user" /\ num_files_read' = num_files_read /\ ~Opens(name)
      BY <1>8, SameStep DEF OpenFails
    <2>2. UTypeOK' /\ ProgramsKept /\ at'[top] = "end" /\ loc'[top] = loc[top] /\ out'[top] = out[top]
      BY <1>2, <1>3, <1>4, <1>5, <1>8, LocalStep DEF Goto, Set
    <2>. QED  BY <1>5, <1>6, <2>1, <2>2
  <1>. QED  BY <1>2, <1>7, <1>8

LEMMA OpensFirst ==
    ASSUME UInv, at[top] = "main", NEW d \in 1 .. Len(direntries)
    PROVE  Opens(direntries[d].name)
  <1>1. 2 \in UserFd
    BY FdAssumption DEF UserFd
  <1>2. fds[top][2].flags = 0
    BY <1>1, UFacts DEF UserInv, Fresher
  <1>3. Entry(d) = direntries[d] /\ d \in 1 .. NUM_MAX_DENTRIES
    <2>1. NUM_MAX_DENTRIES \in Nat /\ Len(direntries) \in Nat /\ Len(direntries) < NUM_MAX_DENTRIES
      BY ConstantFacts
    <2>. QED  BY <2>1 DEF Entry
  <1>4. direntries[d].name # ""
    BY ConstantFacts
  <1>. QED  BY <1>1, <1>2, <1>3, <1>4 DEF Opens, Exists, Used

LEMMA CatOpenStep ==
    ASSUME UInv, CatOpen
    PROVE  UInv'
  <1>. DEFINE l == [loc[top] EXCEPT !.fd = FirstUnused]
  <1>1. prog[top] = "cat" /\ at[top] = "main" /\ OpenOrEnd(loc[top].arg, "read", l)
    BY DEF CatOpen, Runs
  <1>2. top \in Proc /\ UserInv(top) /\ DOMAIN loc[top] = DOMAIN NoLocals
    BY UFacts DEF UTypeOK
  <1>3. DOMAIN l = DOMAIN NoLocals /\ l.fd = FirstUnused /\ l.arg = loc[top].arg
    BY <1>2, Fields, Zenon
  <1>4. "read" \in Places(prog[top])
    BY <1>1 DEF Places
  <1>. HIDE DEF l
  <1>5. /\ Inv' /\ UTypeOK' /\ OthersKept /\ ProgramsKept
        /\ disturbed' = disturbed \/ Disturb
        /\ num_files_read' # num_files_read => \A q \in 0 .. top - 1 : disturbed'[q]
        /\ pc'[top] = "user" /\ out'[top] = out[top]
        /\ \/ Open(loc[top].arg) /\ at'[top] = "read" /\ loc'[top] = l
           \/ ~Opens(loc[top].arg) /\ at'[top] = "end" /\ loc'[top] = loc[top]
    BY <1>1, <1>3, <1>4, OpenOrEndStep
  <1>6. out[top] = <<>>
    BY <1>1, <1>2 DEF UserInv, Fresher
  <1>7. ASSUME NEW p \in Proc, p = top
        PROVE  UserInv(p)'
    <2>1. prog'[p] = "cat"
      BY <1>1, <1>5, <1>7 DEF ProgramsKept
    <2>2. Fresher(p)' /\ Asked(p)'
      BY <1>5, <1>7 DEF Fresher, Asked
    <2>3. ASSUME NEW d \in 1 .. Len(direntries), Named(loc'[p].arg, d), direntries[d].filetype = REG_FILETYPE
          PROVE  /\ at'[p] = "read" => /\ loc'[p].fd \in UserFd /\ fds'[p][loc'[p].fd].flags = 1
                                       /\ fds'[p][loc'[p].fd].fops = "files"
                                       /\ fds'[p][loc'[p].fd].inode = direntries[d].inode
                                       /\ out'[p] = got'[p][loc'[p].fd]
                 /\ at'[p] # "end"
      <3>1. loc'[p].arg = loc[top].arg
        BY <1>3, <1>5, <1>7
      <3>2. Opens(loc[top].arg)
        <4>1. Entry(d) = direntries[d]
          BY DEF Entry
        <4>2. direntries[d].name = loc[top].arg
          BY <2>3, <3>1, <4>1 DEF Named
        <4>. QED  BY <1>1, <4>2, OpensFirst
      <3>3. Open(loc[top].arg) /\ at'[top] = "read" /\ loc'[top] = l
        BY <1>5, <3>2
      <3>4. PICK e \in 1 .. Len(direntries) :
               /\ Named(loc[top].arg, e) /\ fds'[top][FirstUnused] = Opened(direntries[e], fds[top][FirstUnused])
        BY <3>3, OpenStep
      <3>5. d = e
        BY <2>3, <3>1, <3>4, NamedOnce
      <3>6. /\ fds'[top][FirstUnused].flags = 1 /\ fds'[top][FirstUnused].fops = "files"
            /\ fds'[top][FirstUnused].inode = direntries[d].inode
        BY <2>3, <3>4, <3>5 DEF Opened
      <3>7. FirstUnused \in UserFd /\ got'[top][FirstUnused] = <<>>
        BY <3>3, OpenStep
      <3>. QED  BY <1>3, <1>5, <1>6, <1>7, <3>3, <3>6, <3>7, Zenon
    <2>4. CatInv(p)'
      BY <2>3 DEF CatInv, IsOpen
    <2>. QED  BY <2>1, <2>2, <2>4, OnlyCat
  <1>8. pc'[top] # "listed"
    BY <1>5
  <1>. QED  BY <1>5, <1>7, <1>8, TopStep

LEMMA CallReadStep ==
    ASSUME UInv, NEW fd, NEW n, n \in Counts \/ fds[top][fd].fops # "files", CallRead(fd, n)
    PROVE  /\ Inv' /\ UTypeOK' /\ OthersKept /\ ProgramsKept
           /\ disturbed' = disturbed \/ Disturb
           /\ num_files_read' # num_files_read \/ pc'[top] = "listed" => \A q \in 0 .. top - 1 : disturbed'[q]
           /\ num_files_read' = num_files_read /\ fds' = fds /\ at' = at /\ loc' = loc /\ out' = out
           /\ disturbed'[top] = disturbed[top] /\ pc[top] = "user"
           /\ \/ /\ IsOpen(top, fd, "files") /\ pc'[top] = "reading" /\ got' = got
                 /\ call'[top].fd = fd /\ call'[top].nbytes = n
              \/ /\ IsOpen(top, fd, "directory") /\ pc'[top] = "listed"
                 /\ got'[top][fd] = Append(got[top][fd], NameAt(num_files_read))
  <1>1. UTypeOK /\ top \in Proc /\ top \in Nat /\ \A p \in 0 .. top : p \in Proc
    BY UFacts
  <1>2. /\ prog' = prog /\ at' = at /\ loc' = loc /\ out' = out
        /\ \/ StartRead(fd, n) /\ UNCHANGED disturbed
           \/ ListEntry(fd) /\ Disturb
    BY DEF CallRead
  <1>3. disturbed' = disturbed \/ Disturb
    BY <1>2
  <1>4. disturbed'[top] = disturbed[top]
    BY <1>1, <1>3 DEF Disturb, UTypeOK
  <1>5. UTypeOK' /\ ProgramsKept
    <2>1. at[top] \in Places(prog[top]) /\ DOMAIN loc[top] = DOMAIN NoLocals
      BY <1>1 DEF UTypeOK
    <2>. QED  BY <1>2, <1>3, <2>1, LocalStep
  <1>6. CASE StartRead(fd, n)
    <2>1. n \in Counts
      BY <1>6 DEF StartRead
    <2>2. /\ Inv' /\ OthersKept /\ fds' = fds /\ got' = got /\ num_files_read' = num_files_read
          /\ IsOpen(top, fd, "files") /\ pc[top] = "user" /\ pc'[top] = "reading"
          /\ call'[top].fd = fd /\ call'[top].nbytes = n
      BY <1>6, <2>1, StartReadStep
    <2>. QED  BY <1>2, <1>3, <1>4, <1>5, <2>2
  <1>7. CASE ListEntry(fd) /\ Disturb
    <2>1. /\ Inv' /\ OthersKept /\ fds' = fds /\ num_files_read' = num_files_read
          /\ IsOpen(top, fd, "directory") /\ pc[top] = "user" /\ pc'[top] = "listed"
          /\ got'[top][fd] = Append(got[top][fd], NameAt(num_files_read))
      BY <1>7, ListStep
    <2>2. ASSUME NEW q \in 0 .. top - 1
          PROVE  disturbed'[q]
      <3>1. q \in Proc /\ q < top
        BY <1>1
      <3>. QED  BY <1>7, <3>1 DEF Disturb
    <2>. QED  BY <1>2, <1>3, <1>4, <1>5, <2>1, <2>2
  <1>. QED  BY <1>2, <1>6, <1>7

LEMMA CatReadStep ==
    ASSUME UInv, CatRead
    PROVE  UInv'
  <1>. DEFINE fd == loc[top].fd
  <1>1. prog[top] = "cat" /\ at[top] = "read" /\ CallRead(fd, CATBUF) /\ CATBUF \in Counts
    BY ConstantFacts DEF CatRead, Runs
  <1>2. top \in Proc /\ UserInv(top)
    BY UFacts
  <1>3. /\ Inv' /\ UTypeOK' /\ OthersKept /\ ProgramsKept
        /\ disturbed' = disturbed \/ Disturb
        /\ num_files_read' # num_files_read \/ pc'[top] = "listed" => \A q \in 0 .. top - 1 : disturbed'[q]
        /\ fds' = fds /\ at' = at /\ loc' = loc /\ out' = out
        /\ \/ /\ IsOpen(top, fd, "files") /\ pc'[top] = "reading" /\ got' = got
              /\ call'[top].fd = fd /\ call'[top].nbytes = CATBUF
           \/ IsOpen(top, fd, "directory") /\ pc'[top] = "listed"
    BY <1>1, CallReadStep
  <1>4. ASSUME NEW p \in Proc, p = top
        PROVE  UserInv(p)'
    <2>1. prog'[p] = "cat"
      BY <1>1, <1>3, <1>4 DEF ProgramsKept
    <2>2. Fresher(p)'
      BY <1>1, <1>3, <1>4 DEF Fresher
    <2>3. Asked(p)'
      BY <1>1, <1>3, <1>4, <2>1 DEF Asked, IsOpen
    <2>4. CatInv(p)'
      <3>1. CASE got' = got
        BY <1>1, <1>2, <1>3, <1>4, <3>1 DEF UserInv, CatInv, IsOpen
      <3>2. CASE IsOpen(top, fd, "directory")
        BY <1>1, <1>2, <1>3, <1>4, <3>2 DEF UserInv, CatInv, IsOpen
      <3>. QED  BY <1>3, <3>1, <3>2
    <2>. QED  BY <2>1, <2>2, <2>3, <2>4, OnlyCat
  <1>. QED  BY <1>3, <1>4, TopStep

LEMMA CatRtcStep ==
    ASSUME UInv, CatRtc
    PROVE  UInv'
  <1>1. /\ prog[top] = "cat" /\ at[top] = "read" /\ pc[top] = "user" /\ fds[top][loc[top].fd].fops = "rtc"
        /\ Goto("end") /\ UNCHANGED vars /\ UNCHANGED <<prog, loc, out, disturbed>>
    BY DEF CatRtc, Runs, IsRtc
  <1>2. top \in Proc /\ UserInv(top) /\ DOMAIN loc[top] = DOMAIN NoLocals
    BY UFacts DEF UTypeOK
  <1>3. /\ Inv' /\ OthersKept /\ fds' = fds /\ pc' = pc /\ num_files_read' = num_files_read
    BY <1>1, SameStep
  <1>4. "end" \in Places(prog[top])
    BY <1>1 DEF Places
  <1>5. UTypeOK' /\ ProgramsKept /\ at'[top] = "end" /\ loc'[top] = loc[top]
    BY <1>1, <1>2, <1>4, LocalStep DEF Goto
  <1>6. ASSUME NEW p \in Proc, p = top
        PROVE  UserInv(p)'
    <2>1. prog'[p] = "cat" /\ at'[p] = "end" /\ loc'[p] = loc[p] /\ pc'[p] = "user"
      BY <1>1, <1>3, <1>5, <1>6 DEF ProgramsKept
    <2>2. Fresher(p)' /\ Asked(p)'
      BY <2>1 DEF Fresher, Asked
    <2>3. CatInv(p)'
      BY <1>1, <1>2, <1>6, <2>1 DEF UserInv, CatInv, IsOpen
    <2>. QED  BY <2>1, <2>2, <2>3, OnlyCat
  <1>. QED  BY <1>1, <1>3, <1>5, <1>6, TopStep

(* A read of a file returns to cat ...                                     *)
LEMMA CatFileReturns ==
    ASSUME UInv, FinishRead, prog' = prog, disturbed' = disturbed,
           CatWrite(read_data(fds[top][call[top].fd].inode, call[top].offset, call[top].nbytes).bytes)
    PROVE  UInv'
  <1>. DEFINE fd == call[top].fd
              r == read_data(fds[top][fd].inode, call[top].offset, call[top].nbytes)
              items == r.bytes
              inode == fds[top][fd].inode
  <1>1. /\ Inv' /\ OthersKept /\ num_files_read' = num_files_read
        /\ pc[top] = "reading" /\ pc'[top] = "user"
        /\ IsOpen(top, fd, "files")
        /\ \A e \in UserFd : /\ fds'[top][e].flags = fds[top][e].flags
                             /\ fds'[top][e].fops = fds[top][e].fops
                             /\ fds'[top][e].inode = fds[top][e].inode
        /\ got'[top][fd] = got[top][fd] \o items
        /\ items = <<>> /\ call[top].nbytes > 0 => got[top][fd] = Contents(inode)
    BY FinishStep
  <1>2. /\ prog[top] = "cat" /\ loc' = loc
        /\ IF items = <<>> THEN Goto("end") /\ UNCHANGED out ELSE Write1(items) /\ UNCHANGED at
    BY DEF CatWrite
  <1>. HIDE DEF r, items, inode
  <1>3. top \in Proc /\ UserInv(top) /\ DOMAIN loc[top] = DOMAIN NoLocals
    BY UFacts DEF UTypeOK
  <1>4. at[top] = "read" /\ fd = loc[top].fd /\ call[top].nbytes = CATBUF /\ CATBUF > 0
    <2>1. CATBUF > 0
      BY ConstantFacts
    <2>. QED  BY <1>1, <1>2, <1>3, <2>1 DEF UserInv, Asked
  <1>5. "end" \in Places(prog[top]) /\ "read" \in Places(prog[top])
    BY <1>2 DEF Places
  <1>. DEFINE w == IF items = <<>> THEN "end" ELSE "read"
              o == IF items = <<>> THEN out[top] ELSE out[top] \o items
  <1>6. UTypeOK' /\ ProgramsKept /\ at'[top] = w /\ loc'[top] = loc[top] /\ out'[top] = o
    <2>1. CASE items = <<>>
      BY <1>2, <1>3, <1>5, <2>1, LocalStep DEF Goto
    <2>2. CASE items # <<>>
      BY <1>2, <1>3, <1>4, <1>5, <2>2, LocalStep DEF Write1
    <2>. QED  BY <2>1, <2>2
  <1>7. ASSUME NEW p \in Proc, p = top
        PROVE  UserInv(p)'
    <2>1. /\ prog'[p] = "cat" /\ pc'[p] = "user" /\ at'[p] = w /\ loc'[p] = loc[p] /\ out'[p] = o
          /\ w # "main"
      BY <1>1, <1>2, <1>6, <1>7
    <2>2. Fresher(p)' /\ Asked(p)'
      BY <2>1 DEF Fresher, Asked
    <2>3. ASSUME NEW d \in 1 .. Len(direntries), Named(loc'[p].arg, d), direntries[d].filetype = REG_FILETYPE
          PROVE  /\ at'[p] = "read" => /\ loc'[p].fd \in UserFd /\ fds'[p][loc'[p].fd].flags = 1
                                       /\ fds'[p][loc'[p].fd].fops = "files"
                                       /\ fds'[p][loc'[p].fd].inode = direntries[d].inode
                                       /\ out'[p] = got'[p][loc'[p].fd]
                 /\ at'[p] = "end" => out'[p] = Contents(direntries[d].inode)
      <3>1. /\ fd \in UserFd /\ fds[top][fd].flags = 1 /\ fds[top][fd].fops = "files"
            /\ fds[top][fd].inode = direntries[d].inode /\ out[top] = got[top][fd]
        BY <1>2, <1>3, <1>4, <1>7, <2>1, <2>3 DEF UserInv, CatInv, IsOpen
      <3>2. CASE items = <<>>
        <4>1. got[top][fd] = Contents(direntries[d].inode)
          BY <1>1, <1>4, <3>1, <3>2 DEF inode
        <4>. QED  BY <2>1, <3>1, <3>2, <4>1
      <3>3. CASE items # <<>>
        <4>1. out'[p] = got'[top][fd] /\ at'[p] = "read"
          BY <1>1, <2>1, <3>1, <3>3
        <4>. QED  BY <1>1, <1>4, <1>7, <2>1, <3>1, <4>1, Zenon
      <3>. QED  BY <3>2, <3>3
    <2>4. CatInv(p)'
      BY <2>3 DEF CatInv, IsOpen
    <2>. QED  BY <2>1, <2>2, <2>4, OnlyCat
  <1>8. pc'[top] # "listed"
    BY <1>1
  <1>. QED  BY <1>1, <1>6, <1>7, <1>8, TopStep

LEMMA BelowListed ==
    ASSUME UInv, pc[top] = "listed"
    PROVE  \A q \in 0 .. top - 1 : disturbed[q]
  <1>1. top \in Nat /\ top \in 0 .. top /\ BelowDisturbed
    BY UFacts
  <1>2. \A q \in 0 .. top - 1 : q \in 0 .. top /\ q < top
    BY <1>1
  <1>. QED  BY <1>1, <1>2 DEF BelowDisturbed

(* ... and a read of a directory.                                          *)
LEMMA CatDirectoryReturns ==
    ASSUME UInv, AdvanceCursor, prog' = prog, disturbed' = disturbed, NEW items, CatWrite(items)
    PROVE  UInv'
  <1>1. /\ Inv' /\ OthersKept /\ fds' = fds /\ got' = got /\ pc[top] = "listed" /\ pc'[top] = "user"
    BY AdvanceStep
  <1>2. /\ prog[top] = "cat" /\ loc' = loc
        /\ IF items = <<>> THEN Goto("end") /\ UNCHANGED out ELSE Write1(items) /\ UNCHANGED at
    BY DEF CatWrite
  <1>3. top \in Proc /\ UserInv(top) /\ DOMAIN loc[top] = DOMAIN NoLocals
    BY UFacts DEF UTypeOK
  <1>4. Places(prog[top]) = {"main", "read", "end"}
    BY <1>2 DEF Places
  <1>5. at[top] = "read" /\ IsOpen(top, loc[top].fd, "directory")
    BY <1>1, <1>2, <1>3, <1>4, UFacts DEF UserInv, Asked
  <1>. DEFINE w == IF items = <<>> THEN "end" ELSE "read"
              o == IF items = <<>> THEN out[top] ELSE out[top] \o items
  <1>6. UTypeOK' /\ ProgramsKept /\ at'[top] = w /\ loc'[top] = loc[top]
    <2>1. CASE items = <<>>
      BY <1>2, <1>3, <1>4, <2>1, LocalStep DEF Goto
    <2>2. CASE items # <<>>
      BY <1>2, <1>3, <1>4, <1>5, <2>2, LocalStep DEF Write1
    <2>. QED  BY <2>1, <2>2
  <1>7. ASSUME NEW p \in Proc, p = top
        PROVE  UserInv(p)'
    <2>1. prog'[p] = "cat" /\ pc'[p] = "user" /\ at'[p] # "main" /\ loc'[p] = loc[p]
      BY <1>1, <1>2, <1>6, <1>7
    <2>2. Fresher(p)' /\ Asked(p)'
      BY <2>1 DEF Fresher, Asked
    <2>3. CatInv(p)'
      BY <1>2, <1>3, <1>5, <1>7, <2>1 DEF UserInv, CatInv, IsOpen
    <2>. QED  BY <2>1, <2>2, <2>3, OnlyCat
  <1>. QED  BY <1>1, <1>6, <1>7, TopStep, BelowListed

----------------------------------------------------------------------------
(* ls.                                                                     *)
LEMMA DotOpens ==
    ASSUME UInv, NEW d \in 1 .. Len(direntries), Named(".", d)
    PROVE  direntries[d].filetype = DIR_FILETYPE
  <1>1. Entry(d) = direntries[d]
    BY DEF Entry
  <1>2. direntries[d].name = "."
    BY <1>1 DEF Named
  <1>. QED  BY <1>2, ConstantFacts

LEMMA DotOpened ==
    ASSUME UInv, Open(".")
    PROVE  /\ fds'[top][FirstUnused].flags = 1 /\ fds'[top][FirstUnused].fops = "directory"
           /\ num_files_read' = 0
  <1>1. PICK d \in 1 .. Len(direntries) :
                 /\ Named(".", d) /\ fds'[top][FirstUnused] = Opened(direntries[d], fds[top][FirstUnused])
                 /\ num_files_read' = IF direntries[d].filetype = DIR_FILETYPE THEN 0 ELSE num_files_read
    BY OpenStep
  <1>2. direntries[d].filetype = DIR_FILETYPE
    BY <1>1, DotOpens
  <1>. QED  BY <1>1, <1>2 DEF Opened, DIR_FILETYPE, REG_FILETYPE, RTC_FILETYPE

LEMMA FirstNamesFacts ==
    /\ FirstNames(0) = <<>>
    /\ FirstNames(Len(direntries)) = EntryNames
    /\ \A n \in Nat : FirstNames(n) \o <<direntries[n + 1].name>> = FirstNames(n + 1)
  <1>. DEFINE S == {direntries[d].name : d \in Nat}
              Name(d) == direntries[d].name
  <1>1. FirstNames(0) = <<>>
    <2>1. FirstNames(0) = [d \in 1 .. 0 |-> Name(d)]
      BY DEF FirstNames
    <2>. HIDE DEF Name
    <2>. QED  BY <2>1
  <1>2. FirstNames(Len(direntries)) = EntryNames
    BY DEF FirstNames, EntryNames
  <1>3. ASSUME NEW n \in Nat
        PROVE  FirstNames(n) \o <<direntries[n + 1].name>> = FirstNames(n + 1)
    <2>1. /\ FirstNames(n) = [d \in 1 .. n |-> Name(d)] /\ FirstNames(n + 1) = [d \in 1 .. n + 1 |-> Name(d)]
          /\ <<direntries[n + 1].name>> = <<Name(n + 1)>>
      BY DEF FirstNames
    <2>2. \A d \in Nat : Name(d) \in S
      OBVIOUS
    <2>. HIDE DEF S, Name
    <2>3. /\ [d \in 1 .. n |-> Name(d)] \in Seq(S) /\ [d \in 1 .. n + 1 |-> Name(d)] \in Seq(S)
          /\ <<Name(n + 1)>> \in Seq(S)
      BY <2>2
    <2>4. [d \in 1 .. n |-> Name(d)] \o <<Name(n + 1)>> = [d \in 1 .. n + 1 |-> Name(d)]
      BY <2>3
    <2>. QED  BY <2>1, <2>4
  <1>. QED  BY <1>1, <1>2, <1>3

LEMMA LsOpenStep ==
    ASSUME UInv, LsOpen
    PROVE  UInv'
  <1>. DEFINE l == [loc[top] EXCEPT !.fd = FirstUnused]
  <1>1. prog[top] = "ls" /\ at[top] = "main" /\ OpenOrEnd(".", "read", l)
    BY DEF LsOpen, Runs
  <1>2. top \in Proc /\ UserInv(top) /\ DOMAIN loc[top] = DOMAIN NoLocals
    BY UFacts DEF UTypeOK
  <1>3. DOMAIN l = DOMAIN NoLocals /\ l.fd = FirstUnused
    BY <1>2, Fields, Zenon
  <1>4. "read" \in Places(prog[top])
    BY <1>1 DEF Places
  <1>5. Opens(".")
    BY <1>1, ConstantFacts, OpensFirst
  <1>. HIDE DEF l
  <1>6. /\ Inv' /\ UTypeOK' /\ OthersKept /\ ProgramsKept
        /\ disturbed' = disturbed \/ Disturb
        /\ num_files_read' # num_files_read => \A q \in 0 .. top - 1 : disturbed'[q]
        /\ pc'[top] = "user" /\ out'[top] = out[top]
        /\ Open(".") /\ at'[top] = "read" /\ loc'[top] = l
    BY <1>1, <1>3, <1>4, <1>5, OpenOrEndStep
  <1>7. out[top] = <<>>
    BY <1>1, <1>2 DEF UserInv, Fresher
  <1>8. /\ fds'[top][FirstUnused].flags = 1 /\ fds'[top][FirstUnused].fops = "directory"
        /\ num_files_read' = 0 /\ FirstUnused \in UserFd /\ got'[top][FirstUnused] = <<>>
    BY <1>6, DotOpened, OpenStep
  <1>9. FirstNames(0) = <<>> /\ Len(direntries) \in Nat
    BY ConstantFacts, FirstNamesFacts
  <1>10. ASSUME NEW p \in Proc, p = top
         PROVE  UserInv(p)'
    <2>1. /\ prog'[p] = "ls" /\ at'[p] = "read" /\ pc'[p] = "user" /\ loc'[p].fd = FirstUnused
          /\ out'[p] = <<>>
      BY <1>1, <1>3, <1>6, <1>7, <1>10 DEF ProgramsKept
    <2>2. Fresher(p)' /\ Asked(p)'
      BY <2>1 DEF Fresher, Asked
    <2>3. got'[p][FirstUnused] \in Seq({NameAt(k) : k \in 0 .. 255})
      <3>. DEFINE S == {NameAt(k) : k \in 0 .. 255}
      <3>. HIDE DEF S
      <3>1. <<>> \in Seq(S)
        OBVIOUS
      <3>. QED  BY <1>8, <1>10, <3>1 DEF S
    <2>4. IsOpen(p, loc[p].fd, "directory")'
      BY <1>8, <1>10, <2>1 DEF IsOpen
    <2>5. num_files_read' <= Len(direntries) /\ out'[p] = FirstNames(num_files_read')
      BY <1>8, <1>9, <2>1
    <2>6. LsInv(p)'
      BY <2>1, <2>3, <2>4, <2>5 DEF LsInv
    <2>. QED  BY <2>1, <2>2, <2>6, OnlyLs
  <1>11. pc'[top] # "listed"
    BY <1>6
  <1>. QED  BY <1>6, <1>10, <1>11, TopStep

LEMMA LsReadStep ==
    ASSUME UInv, LsRead
    PROVE  UInv'
  <1>. DEFINE fd == loc[top].fd
              S == {NameAt(k) : k \in 0 .. 255}
  <1>1. prog[top] = "ls" /\ at[top] = "read" /\ CallRead(fd, 32)
    BY DEF LsRead, Runs
  <1>2. top \in Proc /\ UserInv(top) /\ num_files_read \in 0 .. 255
    BY UFacts DEF TypeOK
  <1>3. IsOpen(top, fd, "directory") /\ got[top][fd] \in Seq(S) /\ fds[top][fd].fops # "files"
    BY <1>1, <1>2 DEF UserInv, LsInv, IsOpen
  <1>4. /\ Inv' /\ UTypeOK' /\ OthersKept /\ ProgramsKept
        /\ disturbed' = disturbed \/ Disturb
        /\ num_files_read' # num_files_read \/ pc'[top] = "listed" => \A q \in 0 .. top - 1 : disturbed'[q]
        /\ num_files_read' = num_files_read /\ fds' = fds /\ at' = at /\ loc' = loc /\ out' = out
        /\ disturbed'[top] = disturbed[top]
        /\ \/ IsOpen(top, fd, "files")
           \/ /\ pc'[top] = "listed"
              /\ got'[top][fd] = Append(got[top][fd], NameAt(num_files_read))
    BY <1>1, <1>3, CallReadStep
  <1>5. pc'[top] = "listed" /\ got'[top][fd] = Append(got[top][fd], NameAt(num_files_read))
    BY <1>3, <1>4 DEF IsOpen
  <1>. DEFINE names == got'[top][fd]
  <1>6. names \in Seq(S) /\ names # <<>> /\ names[Len(names)] = NameAt(num_files_read)
    <2>1. NameAt(num_files_read) \in S
      BY <1>2
    <2>. DEFINE n == NameAt(num_files_read)
                g == got[top][fd]
    <2>. HIDE DEF S, n, g
    <2>2. n \in S /\ g \in Seq(S) /\ names = Append(g, n)
      BY <1>3, <1>5, <2>1 DEF n, g
    <2>3. Append(g, n) \in Seq(S) /\ Append(g, n) # <<>> /\ Append(g, n)[Len(Append(g, n))] = n
      BY <2>2, AppendProperties
    <2>. QED  BY <2>2, <2>3 DEF n
  <1>7. ASSUME NEW p \in Proc, p = top
        PROVE  UserInv(p)'
    <2>1. prog'[p] = "ls" /\ at'[p] = "read" /\ pc'[p] = "listed" /\ loc'[p] = loc[p] /\ out'[p] = out[p]
      BY <1>1, <1>4, <1>5, <1>7 DEF ProgramsKept
    <2>2. Fresher(p)' /\ Asked(p)'
      BY <2>1 DEF Fresher, Asked
    <2>3. LsInv(p)'
      <3>1. /\ IsOpen(p, loc[p].fd, "directory")' /\ got'[p][loc[p].fd] = names
        BY <1>3, <1>4, <1>7 DEF IsOpen
      <3>2. ~disturbed'[p] => num_files_read' <= Len(direntries) /\ out'[p] = FirstNames(num_files_read')
        BY <1>1, <1>2, <1>4, <1>7, <2>1 DEF UserInv, LsInv
      <3>. HIDE DEF S, names
      <3>. QED  BY <1>4, <1>6, <2>1, <3>1, <3>2 DEF LsInv, S
    <2>. QED  BY <2>1, <2>2, <2>3, OnlyLs
  <1>. QED  BY <1>4, <1>7, TopStep

LEMMA NextName ==
    ASSUME NEW n \in 0 .. 255, n <= Len(direntries)
    PROVE  /\ n = Len(direntries) => NameAt(n) = ""
           /\ n # Len(direntries) =>
                 /\ NameAt(n) = direntries[n + 1].name /\ NameAt(n) # "" /\ n \in Nat
                 /\ (n + 1) % 256 = n + 1 /\ n + 1 <= Len(direntries)
  <1>. DEFINE m == Len(direntries)
  <1>1. m \in Nat /\ NUM_MAX_DENTRIES \in Nat /\ m < NUM_MAX_DENTRIES /\ m < 256
    BY ConstantFacts
  <1>. HIDE DEF m
  <1>2. n < NUM_MAX_DENTRIES /\ n \in Nat
    BY <1>1 DEF m
  <1>3. NameAt(n) = Entry(n + 1).name
    BY <1>2 DEF NameAt
  <1>4. n = m => ~(n + 1 <= m)
    BY <1>1
  <1>5. n # m => n + 1 <= m /\ n + 1 \in 1 .. m /\ (n + 1) % 256 = n + 1
    BY <1>1, <1>2 DEF m
  <1>6. n # m => direntries[n + 1].name # ""
    BY <1>5, ConstantFacts DEF m
  <1>. QED  BY <1>2, <1>3, <1>4, <1>5, <1>6 DEF Entry, m

LEMMA LsReturns ==
    ASSUME UInv, AdvanceCursor, prog' = prog, disturbed' = disturbed, NEW name, NEW items, LsWrite(items),
           name = got[top][loc[top].fd][Len(got[top][loc[top].fd])],
           items = IF name = "" THEN <<>> ELSE <<name>>
    PROVE  UInv'
  <1>. DEFINE n == num_files_read
              fd == loc[top].fd
  <1>1. /\ Inv' /\ OthersKept /\ fds' = fds /\ got' = got /\ pc[top] = "listed" /\ pc'[top] = "user"
        /\ num_files_read' = (n + 1) % 256
    BY AdvanceStep
  <1>2. /\ prog[top] = "ls" /\ loc' = loc
        /\ IF items = <<>> THEN Goto("end") /\ UNCHANGED out ELSE Write1(items) /\ UNCHANGED at
    BY DEF LsWrite
  <1>3. top \in Proc /\ UserInv(top) /\ DOMAIN loc[top] = DOMAIN NoLocals /\ n \in 0 .. 255
    BY UFacts DEF UTypeOK, TypeOK
  <1>4. Places(prog[top]) = {"main", "read", "end"}
    BY <1>2 DEF Places
  <1>5. at[top] = "read"
    BY <1>1, <1>2, <1>3, <1>4, UFacts DEF UserInv, Asked
  <1>6. IsOpen(top, fd, "directory") /\ got[top][fd] \in Seq({NameAt(k) : k \in 0 .. 255})
    BY <1>2, <1>3, <1>5 DEF UserInv, LsInv
  <1>. DEFINE w == IF items = <<>> THEN "end" ELSE "read"
              o == IF items = <<>> THEN out[top] ELSE out[top] \o items
  <1>7. UTypeOK' /\ ProgramsKept /\ at'[top] = w /\ loc'[top] = loc[top] /\ out'[top] = o
    <2>1. CASE items = <<>>
      BY <1>2, <1>3, <1>4, <2>1, LocalStep DEF Goto
    <2>2. CASE items # <<>>
      BY <1>2, <1>3, <1>4, <1>5, <2>2, LocalStep DEF Write1
    <2>. QED  BY <2>1, <2>2
  <1>8. ASSUME ~disturbed[top]
        PROVE  /\ items = <<>> => out'[top] = EntryNames
               /\ items # <<>> => /\ num_files_read' <= Len(direntries)
                                  /\ out'[top] = FirstNames(num_files_read')
    <2>1. n <= Len(direntries) /\ out[top] = FirstNames(n) /\ name = NameAt(n)
      BY <1>1, <1>2, <1>3, <1>5, <1>8 DEF UserInv, LsInv
    <2>2. CASE n = Len(direntries)
      <3>1. name = ""
        BY <1>3, <2>1, <2>2, NextName, Zenon
      <3>2. items = <<>> /\ out'[top] = out[top]
        BY <1>7, <3>1
      <3>. QED  BY <2>1, <2>2, <3>2, FirstNamesFacts, Zenon
    <2>3. CASE n # Len(direntries)
      <3>1. /\ name = direntries[n + 1].name /\ name # "" /\ n \in Nat
            /\ (n + 1) % 256 = n + 1 /\ n + 1 <= Len(direntries)
        BY <1>3, <2>1, <2>3, NextName, Zenon
      <3>2. items = <<direntries[n + 1].name>> /\ items # <<>>
        BY <3>1
      <3>3. out'[top] = FirstNames(n) \o <<direntries[n + 1].name>>
        BY <1>7, <2>1, <3>2
      <3>4. out'[top] = FirstNames(n + 1)
        BY <3>1, <3>3, FirstNamesFacts, Zenon
      <3>. QED  BY <1>1, <3>1, <3>2, <3>4, Zenon
    <2>. QED  BY <2>2, <2>3
  <1>9. ASSUME NEW p \in Proc, p = top
        PROVE  UserInv(p)'
    <2>1. prog'[p] = "ls" /\ pc'[p] = "user" /\ at'[p] = w /\ at'[p] # "main" /\ loc'[p] = loc[p]
      BY <1>1, <1>2, <1>7, <1>9
    <2>2. Fresher(p)' /\ Asked(p)'
      BY <2>1 DEF Fresher, Asked
    <2>3. /\ IsOpen(p, loc[p].fd, "directory")'
          /\ got'[p][loc[p].fd] \in Seq({NameAt(k) : k \in 0 .. 255})
      BY <1>1, <1>6, <1>9, <2>1 DEF IsOpen
    <2>4. LsInv(p)'
      BY <1>8, <1>9, <2>1, <2>3 DEF LsInv
    <2>. QED  BY <2>1, <2>2, <2>4, OnlyLs
  <1>. QED  BY <1>1, <1>7, <1>9, TopStep, BelowListed

----------------------------------------------------------------------------
(* grep.                                                                   *)
LEMMA GrepOpenStep ==
    ASSUME UInv, GrepOpen
    PROVE  UInv'
  <1>. DEFINE l == [loc[top] EXCEPT !.dir = FirstUnused]
  <1>1. prog[top] = "grep" /\ OpenOrEnd(".", "walk", l)
    BY DEF GrepOpen, Runs
  <1>2. top \in Proc /\ UserInv(top) /\ DOMAIN loc[top] = DOMAIN NoLocals
    BY UFacts DEF UTypeOK
  <1>3. DOMAIN l = DOMAIN NoLocals /\ l.dir = FirstUnused
    BY <1>2, Fields, Zenon
  <1>4. "walk" \in Places(prog[top])
    BY <1>1 DEF Places
  <1>. HIDE DEF l
  <1>5. /\ Inv' /\ UTypeOK' /\ OthersKept /\ ProgramsKept
        /\ disturbed' = disturbed \/ Disturb
        /\ num_files_read' # num_files_read => \A q \in 0 .. top - 1 : disturbed'[q]
        /\ pc'[top] = "user"
        /\ \/ Open(".") /\ at'[top] = "walk" /\ loc'[top] = l
           \/ at'[top] = "end"
    BY <1>1, <1>3, <1>4, OpenOrEndStep
  <1>6. ASSUME NEW p \in Proc, p = top
        PROVE  UserInv(p)'
    <2>1. prog'[p] = "grep" /\ at'[p] \in {"walk", "end"} /\ pc'[p] = "user"
      BY <1>1, <1>5, <1>6 DEF ProgramsKept
    <2>2. Fresher(p)' /\ Asked(p)'
      BY <2>1 DEF Fresher, Asked
    <2>3. at'[p] = "walk" => IsOpen(p, loc[p].dir, "directory")'
      <3>1. SUFFICES ASSUME at'[p] = "walk" PROVE IsOpen(p, loc[p].dir, "directory")'
        OBVIOUS
      <3>2. Open(".") /\ loc'[p].dir = FirstUnused
        BY <1>3, <1>5, <1>6, <3>1
      <3>3. FirstUnused \in UserFd /\ fds'[top][FirstUnused].flags = 1 /\ fds'[top][FirstUnused].fops = "directory"
        BY <3>2, OpenStep, DotOpened
      <3>. QED  BY <1>6, <3>2, <3>3 DEF IsOpen
    <2>4. GrepInv(p)'
      BY <2>1, <2>3 DEF GrepInv
    <2>. QED  BY <2>1, <2>2, <2>4, OnlyGrep
  <1>7. pc'[top] # "listed"
    BY <1>5
  <1>. QED  BY <1>5, <1>6, <1>7, TopStep

LEMMA GrepFileStep ==
    ASSUME UInv, GrepFile
    PROVE  UInv'
  <1>1. PICK g \in Garbage :
          OpenOrEnd(loc[top].name, "read",
                    [loc[top] EXCEPT !.fd = FirstUnused, !.last = 0, !.dirty = @ \/ g = "nl",
                                     !.data = [k \in 0 .. GREPBUF |-> g]])
    BY DEF GrepFile
  <1>2. prog[top] = "grep" /\ at[top] = "file"
    BY DEF GrepFile, Runs
  <1>3. top \in Proc /\ UserInv(top) /\ DOMAIN loc[top] = DOMAIN NoLocals
    BY UFacts DEF UTypeOK
  <1>. DEFINE l == [loc[top] EXCEPT !.fd = FirstUnused, !.last = 0, !.dirty = @ \/ g = "nl",
                                    !.data = [k \in 0 .. GREPBUF |-> g]]
              dir == loc[top].dir
  <1>4. DOMAIN l = DOMAIN NoLocals /\ l.fd = FirstUnused /\ l.last = 0 /\ l.dir = dir
    BY <1>3, Fields, Zenon
  <1>5. "read" \in Places(prog[top])
    BY <1>2 DEF Places
  <1>6. OpenOrEnd(loc[top].name, "read", l)
    BY <1>1
  <1>. HIDE DEF l
  <1>7. /\ Inv' /\ UTypeOK' /\ OthersKept /\ ProgramsKept
        /\ disturbed' = disturbed \/ Disturb
        /\ num_files_read' # num_files_read => \A q \in 0 .. top - 1 : disturbed'[q]
        /\ pc'[top] = "user"
        /\ \/ Open(loc[top].name) /\ at'[top] = "read" /\ loc'[top] = l
           \/ at'[top] = "end"
    BY <1>2, <1>4, <1>5, <1>6, OpenOrEndStep
  <1>8. IsOpen(top, dir, "directory")
    BY <1>2, <1>3 DEF UserInv, GrepInv
  <1>9. ASSUME NEW p \in Proc, p = top
        PROVE  UserInv(p)'
    <2>1. prog'[p] = "grep" /\ at'[p] \in {"read", "end"} /\ pc'[p] = "user"
      BY <1>2, <1>7, <1>9 DEF ProgramsKept
    <2>2. Fresher(p)' /\ Asked(p)'
      BY <2>1 DEF Fresher, Asked
    <2>3. ASSUME at'[p] = "read"
          PROVE  /\ IsOpen(p, loc[p].dir, "directory")' /\ loc'[p].fd # loc'[p].dir
                 /\ loc'[p].last = 0
      <3>1. Open(loc[top].name) /\ loc'[p].dir = dir /\ loc'[p].fd = FirstUnused /\ loc'[p].last = 0
        BY <1>4, <1>7, <1>9, <2>3
      <3>2. /\ fds[top][FirstUnused].flags = 0
            /\ \A fd \in UserFd : fd # FirstUnused => fds'[top][fd] = fds[top][fd]
        BY <3>1, OpenStep
      <3>3. dir # FirstUnused /\ fds'[top][dir] = fds[top][dir]
        BY <1>8, <3>2 DEF IsOpen
      <3>. QED  BY <1>8, <1>9, <3>1, <3>3 DEF IsOpen
    <2>4. 0 \in 0 .. GREPBUF - 1
      <3>1. GREPBUF \in Nat /\ GREPBUF > 0
        BY ConstantFacts
      <3>. QED  BY <3>1
    <2>5. GrepInv(p)'
      BY <2>1, <2>3, <2>4 DEF GrepInv
    <2>. QED  BY <2>1, <2>2, <2>5, OnlyGrep
  <1>10. pc'[top] # "listed"
    BY <1>7
  <1>. QED  BY <1>7, <1>9, <1>10, TopStep

(* The directory, or the file, is read ...                                 *)
LEMMA GrepCallsRead ==
    ASSUME UInv, GrepWalk \/ GrepRead
    PROVE  UInv'
  <1>1. prog[top] = "grep" /\ at[top] \in {"walk", "read"}
    BY DEF GrepWalk, GrepRead, Runs
  <1>2. top \in Proc /\ UserInv(top)
    BY UFacts
  <1>3. GREPBUF \in Nat /\ 1 .. GREPBUF \subseteq Counts
    BY ConstantFacts
  <1>4. PICK fd, n : /\ CallRead(fd, n)
                     /\ n \in Counts \/ fds[top][fd].fops # "files"
                     /\ at[top] = "read" => fd = loc[top].fd /\ n = GREPBUF - loc[top].last
                     /\ at[top] = "walk" => fds[top][fd].fops # "files"
    <2>1. CASE GrepWalk
      <3>1. at[top] = "walk" /\ CallRead(loc[top].dir, 32)
        BY <2>1 DEF GrepWalk, Runs
      <3>2. fds[top][loc[top].dir].fops # "files"
        BY <1>1, <1>2, <3>1 DEF UserInv, GrepInv, IsOpen
      <3>. QED  BY <3>1, <3>2
    <2>2. CASE GrepRead
      <3>1. at[top] = "read" /\ CallRead(loc[top].fd, GREPBUF - loc[top].last)
        BY <2>2 DEF GrepRead, Runs
      <3>2. loc[top].last \in 0 .. GREPBUF - 1
        BY <1>1, <1>2, <3>1 DEF UserInv, GrepInv
      <3>3. GREPBUF - loc[top].last \in Counts
        BY <1>3, <3>2
      <3>. QED  BY <3>1, <3>3
    <2>. QED  BY <2>1, <2>2
  <1>5. /\ Inv' /\ UTypeOK' /\ OthersKept /\ ProgramsKept
        /\ disturbed' = disturbed \/ Disturb
        /\ num_files_read' # num_files_read \/ pc'[top] = "listed" => \A q \in 0 .. top - 1 : disturbed'[q]
        /\ fds' = fds /\ at' = at /\ loc' = loc
        /\ \/ /\ IsOpen(top, fd, "files") /\ pc'[top] = "reading"
              /\ call'[top].fd = fd /\ call'[top].nbytes = n
           \/ pc'[top] = "listed"
    BY <1>4, CallReadStep
  <1>6. ASSUME NEW p \in Proc, p = top
        PROVE  UserInv(p)'
    <2>1. prog'[p] = "grep" /\ at'[p] = at[p] /\ loc'[p] = loc[p] /\ fds'[p] = fds[p]
      BY <1>1, <1>5, <1>6 DEF ProgramsKept
    <2>2. Fresher(p)'
      BY <1>1, <1>6, <2>1 DEF Fresher
    <2>3. Asked(p)'
      <3>1. CASE pc'[p] = "listed"
        BY <1>1, <1>6, <2>1, <3>1 DEF Asked
      <3>2. CASE pc'[p] # "listed"
        <4>1. IsOpen(top, fd, "files") /\ pc'[p] = "reading" /\ call'[p].fd = fd /\ call'[p].nbytes = n
          BY <1>5, <1>6, <3>2
        <4>2. at[top] = "read"
          BY <1>1, <1>4, <4>1 DEF IsOpen
        <4>. QED  BY <1>4, <1>6, <2>1, <4>1, <4>2 DEF Asked
      <3>. QED  BY <3>1, <3>2
    <2>4. GrepInv(p)'
      BY <1>1, <1>2, <1>6, <2>1 DEF UserInv, GrepInv, IsOpen
    <2>. QED  BY <2>1, <2>2, <2>3, <2>4, OnlyGrep
  <1>. QED  BY <1>5, <1>6, TopStep

(* ... the next entry of the directory arrives ...                         *)
LEMMA GrepEntryReturns ==
    ASSUME UInv, AdvanceCursor, prog' = prog, disturbed' = disturbed, NEW items, GrepEntry(items)
    PROVE  UInv'
  <1>1. /\ Inv' /\ OthersKept /\ fds' = fds /\ pc[top] = "listed" /\ pc'[top] = "user"
    BY AdvanceStep
  <1>2. prog[top] = "grep" /\ at[top] = "walk" /\ out' = out
    BY DEF GrepEntry
  <1>3. top \in Proc /\ UserInv(top) /\ DOMAIN loc[top] = DOMAIN NoLocals
    BY UFacts DEF UTypeOK
  <1>4. {"end", "walk", "file"} \subseteq Places(prog[top])
    BY <1>2 DEF Places
  <1>. DEFINE l == [loc[top] EXCEPT !.name = items[1]]
  <1>5. DOMAIN l = DOMAIN NoLocals /\ l.dir = loc[top].dir
    BY <1>3, Fields, Zenon
  <1>6. \/ Goto("end") /\ UNCHANGED loc
        \/ UNCHANGED <<at, loc>>
        \/ Goto("file") /\ Set(l)
    BY DEF GrepEntry
  <1>. HIDE DEF l
  <1>7. UTypeOK' /\ ProgramsKept /\ at'[top] \in {"end", "walk", "file"} /\ loc'[top].dir = loc[top].dir
    <2>1. CASE Goto("end") /\ UNCHANGED loc
      BY <1>2, <1>3, <1>4, <2>1, LocalStep DEF Goto
    <2>2. CASE UNCHANGED <<at, loc>>
      BY <1>2, <1>3, <1>4, <2>2, LocalStep
    <2>3. CASE Goto("file") /\ Set(l)
      BY <1>2, <1>3, <1>4, <1>5, <2>3, LocalStep DEF Goto, Set
    <2>. QED  BY <1>6, <2>1, <2>2, <2>3
  <1>8. ASSUME NEW p \in Proc, p = top
        PROVE  UserInv(p)'
    <2>1. prog'[p] = "grep" /\ pc'[p] = "user" /\ at'[p] \in {"end", "walk", "file"} /\ loc'[p].dir = loc[p].dir
      BY <1>1, <1>2, <1>7, <1>8
    <2>2. Fresher(p)' /\ Asked(p)'
      BY <2>1 DEF Fresher, Asked
    <2>3. GrepInv(p)'
      BY <1>1, <1>2, <1>3, <1>8, <2>1 DEF UserInv, GrepInv, IsOpen
    <2>. QED  BY <2>1, <2>2, <2>3, OnlyGrep
  <1>. QED  BY <1>1, <1>7, <1>8, TopStep, BelowListed

(* ... or the next bytes of the file.                                      *)
LEMMA GrepChunkStep ==
    ASSUME UInv, Inv', OthersKept, prog' = prog, disturbed' = disturbed, pc'[top] = "user",
           num_files_read' # num_files_read => \A q \in 0 .. top - 1 : disturbed'[q],
           NEW items, NEW extra, GrepChunk(items, extra),
           Len(items) \in Nat, loc[top].last + Len(items) <= GREPBUF,
           fds'[top][loc[top].dir].flags = fds[top][loc[top].dir].flags,
           fds'[top][loc[top].dir].fops = fds[top][loc[top].dir].fops
    PROVE  UInv'
  <1>. DEFINE l == loc[top]
              new == [k \in 1 .. Len(items \o extra) |-> Char((items \o extra)[k])]
              data == [k \in 0 .. GREPBUF |->
                         IF k - l.last \in 0 .. Len(new) - 1 THEN new[k - l.last + 1] ELSE l.data[k]]
              last == l.last + Len(items)
              r == [l EXCEPT !.data = data, !.cnt = Len(items), !.last = last, !.line_start = 0]
  <1>1. prog[top] = "grep" /\ at[top] = "read" /\ Set(r) /\ Goto("line") /\ out' = out
    BY DEF GrepChunk
  <1>2. top \in Proc /\ UserInv(top) /\ DOMAIN l = DOMAIN NoLocals
    BY UFacts DEF UTypeOK
  <1>. HIDE DEF data, l, last
  <1>3. DOMAIN r = DOMAIN NoLocals /\ r.last = last /\ r.line_start = 0 /\ r.fd = l.fd /\ r.dir = l.dir
    BY <1>2, Fields, Zenon
  <1>4. "line" \in Places(prog[top])
    BY <1>1 DEF Places
  <1>. HIDE DEF r
  <1>5. UTypeOK' /\ ProgramsKept /\ at'[top] = "line" /\ loc'[top] = r
    BY <1>1, <1>3, <1>4, LocalStep DEF Goto, Set
  <1>6. /\ IsOpen(top, l.dir, "directory") /\ l.fd # l.dir /\ l.last \in 0 .. GREPBUF - 1
    BY <1>1, <1>2 DEF UserInv, GrepInv, l
  <1>7. last \in 0 .. GREPBUF /\ 0 \in 0 .. last
    <2>1. GREPBUF \in Nat
      BY ConstantFacts
    <2>. QED  BY <1>6, <2>1 DEF last, l
  <1>8. ASSUME NEW p \in Proc, p = top
        PROVE  UserInv(p)'
    <2>1. prog'[p] = "grep" /\ pc'[p] = "user" /\ at'[p] = "line" /\ loc'[p] = r
      BY <1>1, <1>5, <1>8
    <2>2. Fresher(p)' /\ Asked(p)'
      BY <2>1 DEF Fresher, Asked
    <2>3. IsOpen(p, loc[p].dir, "directory")'
      BY <1>3, <1>6, <1>8, <2>1 DEF IsOpen, l
    <2>4. GrepInv(p)'
      BY <1>3, <1>6, <1>7, <2>1, <2>3 DEF GrepInv
    <2>. QED  BY <2>1, <2>2, <2>4, OnlyGrep
  <1>9. pc'[top] # "listed"
    OBVIOUS
  <1>. QED  BY <1>5, <1>8, <1>9, TopStep

LEMMA GrepFileReturns ==
    ASSUME UInv, FinishRead, prog' = prog, disturbed' = disturbed, NEW extra,
           GrepChunk(read_data(fds[top][call[top].fd].inode, call[top].offset, call[top].nbytes).bytes, extra)
    PROVE  UInv'
  <1>. DEFINE fd == call[top].fd
              r == read_data(fds[top][fd].inode, call[top].offset, call[top].nbytes)
              items == r.bytes
  <1>1. /\ Inv' /\ OthersKept /\ num_files_read' = num_files_read
        /\ pc[top] = "reading" /\ pc'[top] = "user"
        /\ \A e \in UserFd : /\ fds'[top][e].flags = fds[top][e].flags
                             /\ fds'[top][e].fops = fds[top][e].fops
        /\ Len(items) \in Nat /\ Len(items) <= call[top].nbytes
    BY FinishStep
  <1>. HIDE DEF r, items
  <1>2. GrepChunk(items, extra)
    BY DEF items, r
  <1>3. prog[top] = "grep" /\ at[top] = "read" /\ UserInv(top)
    BY <1>2, UFacts DEF GrepChunk
  <1>4. /\ call[top].nbytes = GREPBUF - loc[top].last /\ loc[top].last \in 0 .. GREPBUF - 1
        /\ loc[top].dir \in UserFd
    BY <1>1, <1>3 DEF UserInv, Asked, GrepInv, IsOpen
  <1>5. loc[top].last + Len(items) <= GREPBUF
    <2>1. GREPBUF \in Nat
      BY ConstantFacts
    <2>. QED  BY <1>1, <1>4, <2>1
  <1>. QED  BY <1>1, <1>2, <1>4, <1>5, GrepChunkStep

LEMMA GrepOtherChunks ==
    ASSUME UInv, prog' = prog, disturbed' = disturbed, NEW items, NEW extra, GrepChunk(items, extra),
           AdvanceCursor \/ (UNCHANGED vars /\ pc[top] = "user"),
           Len(items) \in {0, 1}
    PROVE  UInv'
  <1>1. /\ Inv' /\ OthersKept /\ fds' = fds /\ pc'[top] = "user"
        /\ num_files_read' = num_files_read \/ pc[top] = "listed"
    BY AdvanceStep, SameStep
  <1>2. prog[top] = "grep" /\ at[top] = "read" /\ UserInv(top)
    BY UFacts DEF GrepChunk
  <1>3. loc[top].last \in 0 .. GREPBUF - 1
    BY <1>2 DEF UserInv, GrepInv
  <1>4. loc[top].last + Len(items) <= GREPBUF /\ Len(items) \in Nat
    <2>1. GREPBUF \in Nat
      BY ConstantFacts
    <2>. DEFINE m == Len(items)
                last == loc[top].last
    <2>2. m \in {0, 1} /\ last \in 0 .. GREPBUF - 1
      BY <1>3
    <2>. HIDE DEF m, last
    <2>3. last + m <= GREPBUF /\ m \in Nat
      BY <2>1, <2>2
    <2>. QED  BY <2>3 DEF m, last
  <1>5. num_files_read' # num_files_read => \A q \in 0 .. top - 1 : disturbed'[q]
    BY <1>1, BelowListed
  <1>. QED  BY <1>1, <1>4, <1>5, GrepChunkStep

LEMMA GrepRtcStep ==
    ASSUME UInv, GrepRtc
    PROVE  UInv'
  <1>1. /\ GrepChunk(<<>>, <<>>) /\ UNCHANGED vars /\ prog' = prog /\ disturbed' = disturbed /\ pc[top] = "user"
    BY DEF GrepRtc, Runs
  <1>2. Len(<<>>) \in {0, 1}
    OBVIOUS
  <1>. QED  BY <1>1, <1>2, GrepOtherChunks

(* A line has an end.                                                      *)
LEMMA LineEndFacts ==
    ASSUME NEW l, l.last \in Nat, l.line_start \in 0 .. l.last
    PROVE  LineEnd(l) \in l.line_start .. l.last
  <1>. DEFINE a == l.line_start
              b == l.last
              Ended(n) == n = b \/ l.data[n] = "nl"
              T == {n \in a .. b : Ended(n)}
  <1>1. b \in T /\ T \subseteq Nat
    OBVIOUS
  <1>2. PICK x \in T : \A y \in T : x <= y
    BY <1>1, Least
  <1>3. x \in a .. b /\ Ended(x) /\ a \in Nat /\ b \in Nat
    BY <1>2
  <1>4. \A k \in a .. x - 1 : l.data[k] # "nl"
    <2>1. SUFFICES ASSUME NEW k \in a .. x - 1, l.data[k] = "nl" PROVE FALSE
      OBVIOUS
    <2>2. k \in a .. b /\ k < x
      BY <1>3
    <2>3. k \in T
      BY <2>1, <2>2
    <2>. HIDE DEF T
    <2>. QED  BY <1>2, <1>3, <2>2, <2>3
  <1>5. \E n \in a .. b : Ended(n) /\ \A k \in a .. n - 1 : l.data[k] # "nl"
    BY <1>3, <1>4
  <1>6. LineEnd(l) = CHOOSE n \in a .. b : Ended(n) /\ \A k \in a .. n - 1 : l.data[k] # "nl"
    BY DEF LineEnd
  <1>. HIDE DEF a, b, Ended
  <1>7. LineEnd(l) \in a .. b
    BY <1>5, <1>6, Zenon
  <1>. QED  BY <1>7 DEF a, b

LEMMA GrepLineStep ==
    ASSUME UInv, GrepLine
    PROVE  UInv'
  <1>. DEFINE l == loc[top]
              end == LineEnd(l)
              data == [l.data EXCEPT ![end] = "nul"]
              moved == MoveDown(data, l.line_start)
              r1 == [l EXCEPT !.data = moved, !.last = @ - l.line_start]
              r2 == [l EXCEPT !.data = data, !.last = 0]
              r3 == [l EXCEPT !.data = data, !.line_start = end + 1]
  <1>1. /\ prog[top] = "grep" /\ at[top] = "line" /\ pc[top] = "user" /\ UNCHANGED vars
        /\ prog' = prog /\ disturbed' = disturbed
    BY DEF GrepLine, Runs
  <1>2. \E o : /\ out' = [out EXCEPT ![top] = o] \/ (out' = out /\ o = out[top])
               /\ \/ Unfinished(l, end) /\ Set(r1) /\ Goto("read")
                  \/ Set(r2) /\ \E w \in {"close", "read"} : Goto(w)
                  \/ ~(end + 1 >= l.last) /\ Set(r3) /\ UNCHANGED at
    <2>. DEFINE text1 == out[top] \o <<<<l.name, Str(data, l.line_start)>>>>
    <2>1. \/ UNCHANGED out \/ out' = [out EXCEPT ![top] = text1]
      BY DEF GrepLine, Write1
    <2>2. \/ Unfinished(l, end) /\ Set(r1) /\ Goto("read")
          \/ Set(r2) /\ \E w \in {"close", "read"} : Goto(w)
          \/ ~(end + 1 >= l.last) /\ Set(r3) /\ UNCHANGED at
      BY DEF GrepLine
    <2>. HIDE DEF text1, r1, r2, r3, end, l
    <2>. QED  BY <2>1, <2>2
  <1>3. top \in Proc /\ UserInv(top) /\ DOMAIN l = DOMAIN NoLocals
    BY UFacts DEF UTypeOK
  <1>4. /\ l.last \in 0 .. GREPBUF /\ l.line_start \in 0 .. l.last
        /\ IsOpen(top, l.dir, "directory") /\ l.fd # l.dir
    BY <1>1, <1>3 DEF UserInv, GrepInv
  <1>5. GREPBUF \in Nat /\ GREPBUF > 0
    BY ConstantFacts
  <1>6. end \in l.line_start .. l.last /\ l.last \in Nat
    BY <1>4, <1>5, LineEndFacts
  <1>7. Unfinished(l, end) => l.line_start # 0
    BY DEF Unfinished
  <1>8. /\ DOMAIN r1 = DOMAIN NoLocals /\ r1.last = l.last - l.line_start /\ r1.fd = l.fd /\ r1.dir = l.dir
        /\ DOMAIN r2 = DOMAIN NoLocals /\ r2.last = 0 /\ r2.fd = l.fd /\ r2.dir = l.dir
        /\ DOMAIN r3 = DOMAIN NoLocals /\ r3.last = l.last /\ r3.line_start = end + 1
        /\ r3.fd = l.fd /\ r3.dir = l.dir
    <2>. HIDE DEF data, moved, l, end
    <2>. QED  BY <1>3, Fields, Zenon
  <1>9. {"read", "close", "line"} \subseteq Places(prog[top])
    BY <1>1 DEF Places
  <1>10. /\ Inv' /\ OthersKept /\ fds' = fds /\ pc' = pc /\ num_files_read' = num_files_read
    BY <1>1, SameStep
  <1>. HIDE DEF r1, r2, r3, end
  <1>11. /\ UTypeOK' /\ ProgramsKept
         /\ \/ Unfinished(l, end) /\ loc'[top] = r1 /\ at'[top] = "read"
            \/ loc'[top] = r2 /\ at'[top] \in {"read", "close"}
            \/ ~(end + 1 >= l.last) /\ loc'[top] = r3 /\ at'[top] = "line"
    <2>1. PICK o : /\ out' = [out EXCEPT ![top] = o] \/ (out' = out /\ o = out[top])
                   /\ \/ Unfinished(l, end) /\ Set(r1) /\ Goto("read")
                      \/ Set(r2) /\ \E w \in {"close", "read"} : Goto(w)
                      \/ ~(end + 1 >= l.last) /\ Set(r3) /\ UNCHANGED at
      BY <1>2
    <2>6. /\ DOMAIN r1 = DOMAIN NoLocals /\ DOMAIN r2 = DOMAIN NoLocals /\ DOMAIN r3 = DOMAIN NoLocals
          /\ "read" \in Places(prog[top]) /\ "close" \in Places(prog[top]) /\ at[top] \in Places(prog[top])
      BY <1>1, <1>8, <1>9
    <2>2. CASE Unfinished(l, end) /\ Set(r1) /\ Goto("read")
      <3>1. loc' = [loc EXCEPT ![top] = r1] /\ at' = [at EXCEPT ![top] = "read"]
        BY <2>2 DEF Set, Goto
      <3>2. UTypeOK' /\ ProgramsKept /\ at'[top] = "read" /\ loc'[top] = r1
        BY <1>1, <2>1, <2>6, <3>1, LocalStep, Zenon
      <3>. QED  BY <2>2, <3>2
    <2>3. CASE Set(r2) /\ \E w \in {"close", "read"} : Goto(w)
      <3>1. PICK w \in {"close", "read"} : Goto(w)
        BY <2>3
      <3>2. loc' = [loc EXCEPT ![top] = r2] /\ at' = [at EXCEPT ![top] = w] /\ w \in Places(prog[top])
        BY <2>3, <2>6, <3>1 DEF Set, Goto
      <3>3. UTypeOK' /\ ProgramsKept /\ at'[top] = w /\ loc'[top] = r2
        BY <1>1, <2>1, <2>6, <3>2, LocalStep, Zenon
      <3>. QED  BY <3>3
    <2>4. CASE ~(end + 1 >= l.last) /\ Set(r3) /\ UNCHANGED at
      <3>1. loc' = [loc EXCEPT ![top] = r3] /\ at' = at
        BY <2>4 DEF Set
      <3>2. UTypeOK' /\ ProgramsKept /\ at'[top] = at[top] /\ loc'[top] = r3
        BY <1>1, <2>1, <2>6, <3>1, LocalStep, Zenon
      <3>. QED  BY <1>1, <2>4, <3>2
    <2>. QED  BY <2>1, <2>2, <2>3, <2>4
  <1>12. /\ loc'[top].fd = l.fd /\ loc'[top].dir = l.dir
         /\ at'[top] = "read" => loc'[top].last \in 0 .. GREPBUF - 1
         /\ at'[top] = "line" => loc'[top].last \in 0 .. GREPBUF /\ loc'[top].line_start \in 0 .. loc'[top].last
    <2>1. CASE Unfinished(l, end) /\ loc'[top] = r1 /\ at'[top] = "read"
      <3>1. l.last - l.line_start \in 0 .. GREPBUF - 1
        BY <1>4, <1>5, <1>6, <1>7, <2>1
      <3>. QED  BY <1>8, <2>1, <3>1
    <2>2. CASE loc'[top] = r2 /\ at'[top] \in {"read", "close"}
      BY <1>5, <1>8, <2>2
    <2>3. CASE ~(end + 1 >= l.last) /\ loc'[top] = r3 /\ at'[top] = "line"
      <3>1. end + 1 \in 0 .. l.last
        BY <1>4, <1>5, <1>6, <2>3
      <3>. QED  BY <1>4, <1>8, <2>3, <3>1
    <2>. QED  BY <1>11, <2>1, <2>2, <2>3
  <1>13. ASSUME NEW p \in Proc, p = top
         PROVE  UserInv(p)'
    <2>1. /\ prog'[p] = "grep" /\ pc'[p] = "user" /\ at'[p] \in {"line", "read", "close"}
          /\ loc'[p].fd = l.fd /\ loc'[p].dir = l.dir
          /\ at'[p] = "read" => loc'[p].last \in 0 .. GREPBUF - 1
          /\ at'[p] = "line" => loc'[p].last \in 0 .. GREPBUF /\ loc'[p].line_start \in 0 .. loc'[p].last
      BY <1>1, <1>10, <1>11, <1>12, <1>13, Zenon
    <2>2. Fresher(p)' /\ Asked(p)'
      BY <2>1 DEF Fresher, Asked
    <2>3. IsOpen(p, loc[p].dir, "directory")' /\ loc'[p].fd # loc'[p].dir
      BY <1>4, <1>10, <1>13, <2>1 DEF IsOpen
    <2>4. GrepInv(p)'
      BY <2>1, <2>3 DEF GrepInv
    <2>. QED  BY <2>1, <2>2, <2>4, OnlyGrep
  <1>. QED  BY <1>1, <1>10, <1>11, <1>13, TopStep

LEMMA GrepCloseStep ==
    ASSUME UInv, GrepClose
    PROVE  UInv'
  <1>. DEFINE fd == loc[top].fd
              w == IF Closes(fd) THEN "walk" ELSE "end"
  <1>1. /\ prog[top] = "grep" /\ at[top] = "close" /\ Close(fd) /\ Goto(w)
        /\ prog' = prog /\ loc' = loc /\ out' = out /\ disturbed' = disturbed
    BY DEF GrepClose, Runs
  <1>2. top \in Proc /\ UserInv(top) /\ DOMAIN loc[top] = DOMAIN NoLocals
    BY UFacts DEF UTypeOK
  <1>3. /\ Inv' /\ OthersKept /\ num_files_read' = num_files_read /\ pc'[top] = "user"
        /\ \A e \in UserFd : e # fd => fds'[top][e] = fds[top][e]
    BY <1>1, CloseStep
  <1>4. w \in Places(prog[top])
    BY <1>1 DEF Places
  <1>5. UTypeOK' /\ ProgramsKept /\ at'[top] = w /\ loc'[top] = loc[top]
    BY <1>1, <1>2, <1>4, LocalStep DEF Goto
  <1>6. IsOpen(top, loc[top].dir, "directory") /\ fd # loc[top].dir
    BY <1>1, <1>2 DEF UserInv, GrepInv
  <1>7. ASSUME NEW p \in Proc, p = top
        PROVE  UserInv(p)'
    <2>1. prog'[p] = "grep" /\ pc'[p] = "user" /\ at'[p] \in {"walk", "end"} /\ loc'[p] = loc[p]
      BY <1>1, <1>3, <1>5, <1>7
    <2>2. Fresher(p)' /\ Asked(p)'
      BY <2>1 DEF Fresher, Asked
    <2>3. IsOpen(p, loc[p].dir, "directory")'
      BY <1>3, <1>6, <1>7, <2>1 DEF IsOpen
    <2>4. GrepInv(p)'
      BY <2>1, <2>3 DEF GrepInv
    <2>. QED  BY <2>1, <2>2, <2>4, OnlyGrep
  <1>8. pc'[top] # "listed"
    BY <1>3
  <1>. QED  BY <1>1, <1>3, <1>5, <1>7, <1>8, TopStep

----------------------------------------------------------------------------
(* syserr: its tests but for err_open_lots are calls that are refused.     *)
Plain(t) == t \in Seq(SysCall) /\ \A j \in 1 .. Len(t) : Refused(t[j])

LEMMA PlainConcat ==
    ASSUME NEW s, Plain(s), NEW t, Plain(t)
    PROVE  Plain(s \o t)
  <1>1. s \in Seq(SysCall) /\ t \in Seq(SysCall)
    BY DEF Plain
  <1>2. s \o t \in Seq(SysCall) /\ Len(s \o t) = Len(s) + Len(t) /\ Len(s) \in Nat /\ Len(t) \in Nat
        /\ \A j \in 1 .. Len(s) + Len(t) : (s \o t)[j] = IF j <= Len(s) THEN s[j] ELSE t[j - Len(s)]
    BY <1>1, ConcatProperties, LenProperties
  <1>3. ASSUME NEW j \in 1 .. Len(s) + Len(t)
        PROVE  Refused((s \o t)[j])
    <2>1. CASE j <= Len(s)
      <3>1. j \in 1 .. Len(s) /\ (s \o t)[j] = s[j]
        BY <1>2, <2>1
      <3>. QED  BY <3>1 DEF Plain
    <2>2. CASE ~(j <= Len(s))
      <3>1. j - Len(s) \in 1 .. Len(t) /\ (s \o t)[j] = t[j - Len(s)]
        BY <1>2, <2>2
      <3>. QED  BY <3>1 DEF Plain
    <2>. QED  BY <2>1, <2>2
  <1>. QED  BY <1>2, <1>3 DEF Plain

LEMMA BadCalls ==
    ASSUME NEW arg \in Int
    PROVE  /\ \A sys \in {"read", "write", "close", "vidmap", "call_sys"} : Bad(sys, arg) \in SysCall
           /\ arg # 0 => Refused(Bad("read", arg))
           /\ arg # 1 => Refused(Bad("write", arg))
           /\ Refused(Bad("close", arg))
           /\ ~Vidmaps(arg) => Refused(Bad("vidmap", arg))
           /\ ~Called(arg) => Refused(Bad("call_sys", arg))
  <1>1. \A sys \in {"read", "write", "close", "vidmap", "call_sys"} : Bad(sys, arg) \in SysCall
    BY DEF Bad, SysCall
  <1>2. \A sys : /\ Bad(sys, arg).call = sys /\ Bad(sys, arg).arg = arg /\ ~Bad(sys, arg).ok
    BY DEF Bad
  <1>. QED  BY <1>1, <1>2 DEF Refused

LEMMA PlainThree ==
    ASSUME NEW a \in SysCall, NEW b \in SysCall, NEW c \in SysCall, Refused(a), Refused(b), Refused(c)
    PROVE  Plain(<<a, b, c>>) /\ Plain(<<a, b>>) /\ Len(<<a, b, c>>) = 3
  <1>1. <<a, b, c>> \in Seq(SysCall) /\ <<a, b>> \in Seq(SysCall)
    OBVIOUS
  <1>2. \A j \in 1 .. 3 : Refused(<<a, b, c>>[j])
    <2>1. \A j \in 1 .. 3 : j = 1 \/ j = 2 \/ j = 3
      OBVIOUS
    <2>. QED  BY <2>1
  <1>3. \A j \in 1 .. 2 : Refused(<<a, b>>[j])
    <2>1. \A j \in 1 .. 2 : j = 1 \/ j = 2
      OBVIOUS
    <2>. QED  BY <2>1
  <1>4. Len(<<a, b, c>>) = 3 /\ Len(<<a, b>>) = 2
    OBVIOUS
  <1>. QED  BY <1>1, <1>2, <1>3, <1>4 DEF Plain

LEMMA PlainLoop ==
    ASSUME NEW n \in Nat, NEW t \in [1 .. n -> SysCall], \A k \in 1 .. n : Refused(t[k])
    PROVE  Plain(t)
  <1>1. t \in Seq(SysCall) /\ Len(t) = n
    OBVIOUS
  <1>. QED  BY <1>1 DEF Plain

LEMMA PlainTests ==
    /\ Plain(err_neg_fd) /\ Plain(err_big_fd) /\ Len(err_neg_fd) = 3 /\ Len(err_big_fd) = 3
    /\ Plain(err_open) /\ Plain(err_unopened) /\ Plain(err_vidmap) /\ Plain(err_stdin_out)
    /\ Plain(err_syscall_num)
  <1>1. LastFd \in Nat /\ LastFd >= 2
    BY FdAssumption
  <1>2. ASSUME NEW fd \in Int, fd # 0, fd # 1
        PROVE  Plain(OnFd(fd)) /\ Len(OnFd(fd)) = 3
    BY <1>2, BadCalls, PlainThree DEF OnFd
  <1>3. /\ Plain(err_neg_fd) /\ Len(err_neg_fd) = 3 /\ Plain(err_big_fd) /\ Len(err_big_fd) = 3
    <2>1. /\ -BIG_NUM \in Int /\ -BIG_NUM # 0 /\ -BIG_NUM # 1
          /\ BIG_NUM \in Int /\ BIG_NUM # 0 /\ BIG_NUM # 1
      BY DEF BIG_NUM
    <2>. QED  BY <1>2, <2>1 DEF err_neg_fd, err_big_fd
  <1>4. Plain(err_open)
    <2>. DEFINE a == OpenOf("helloo", FALSE)
                b == OpenOf("shel", FALSE)
                c == OpenOf("", FALSE)
    <2>1. /\ a \in SysCall /\ b \in SysCall /\ c \in SysCall
          /\ Refused(a) /\ Refused(b) /\ Refused(c)
      BY DEF OpenOf, SysCall, Refused, Misspelt
    <2>2. err_open = <<a, b, c>>
      BY DEF err_open
    <2>. HIDE DEF a, b, c
    <2>. QED  BY <2>1, <2>2, PlainThree
  <1>5. Plain(err_unopened)
    <2>. DEFINE a == [k \in 1 .. LastFd + 1 |-> Bad("close", k - 1)]
                b == [k \in 1 .. LastFd - 1 |-> Bad("read", k + 1)]
                c == [k \in 1 .. LastFd - 1 |-> Bad("write", k + 1)]
    <2>1. \A k \in 1 .. LastFd + 1 : Bad("close", k - 1) \in SysCall /\ Refused(Bad("close", k - 1))
      BY <1>1, BadCalls
    <2>2. \A k \in 1 .. LastFd - 1 : /\ Bad("read", k + 1) \in SysCall /\ Refused(Bad("read", k + 1))
                                     /\ Bad("write", k + 1) \in SysCall /\ Refused(Bad("write", k + 1))
      <3>1. ASSUME NEW k \in 1 .. LastFd - 1
            PROVE  k + 1 \in Int /\ k + 1 # 0 /\ k + 1 # 1
        BY <1>1
      <3>. QED  BY <3>1, BadCalls
    <2>3. LastFd + 1 \in Nat /\ LastFd - 1 \in Nat
      BY <1>1
    <2>4. /\ a \in [1 .. LastFd + 1 -> SysCall] /\ \A k \in 1 .. LastFd + 1 : Refused(a[k])
          /\ b \in [1 .. LastFd - 1 -> SysCall] /\ \A k \in 1 .. LastFd - 1 : Refused(b[k])
          /\ c \in [1 .. LastFd - 1 -> SysCall] /\ \A k \in 1 .. LastFd - 1 : Refused(c[k])
      BY <2>1, <2>2, Zenon
    <2>5. err_unopened = a \o b \o c
      BY DEF err_unopened
    <2>. HIDE DEF a, b, c
    <2>6. Plain(a) /\ Plain(b) /\ Plain(c)
      BY <2>3, <2>4, PlainLoop, Zenon
    <2>7. Plain(a \o b)
      BY <2>6, PlainConcat, Zenon
    <2>8. Plain((a \o b) \o c)
      BY <2>6, <2>7, PlainConcat, Zenon
    <2>. QED  BY <2>5, <2>8
  <1>6. Plain(err_vidmap)
    <2>. DEFINE a == Bad("vidmap", 0)
                b == Bad("vidmap", 4)
    <2>1. ~Vidmaps(0) /\ ~Vidmaps(4) /\ 0 \in Int /\ 4 \in Int
      BY DEF Vidmaps
    <2>2. a \in SysCall /\ b \in SysCall /\ Refused(a) /\ Refused(b)
      BY <2>1, BadCalls, Zenon
    <2>3. err_vidmap = <<a, b>>
      BY DEF err_vidmap
    <2>. HIDE DEF a, b
    <2>. QED  BY <2>2, <2>3, PlainThree
  <1>7. Plain(err_stdin_out)
    <2>. DEFINE a == Bad("write", 0)
                b == Bad("read", 1)
    <2>1. 0 \in Int /\ 1 \in Int /\ 0 # 1
      OBVIOUS
    <2>2. a \in SysCall /\ b \in SysCall /\ Refused(a) /\ Refused(b)
      BY <2>1, BadCalls, Zenon
    <2>3. err_stdin_out = <<a, b>>
      BY DEF err_stdin_out
    <2>. HIDE DEF a, b
    <2>. QED  BY <2>2, <2>3, PlainThree
  <1>8. Plain(err_syscall_num)
    <2>. DEFINE a == Bad("call_sys", BIG_NUM)
                b == Bad("call_sys", -BIG_NUM)
                c == Bad("call_sys", 0)
    <2>1. BIG_NUM \in Int /\ BIG_NUM > 10
      BY DEF BIG_NUM
    <2>2. ~Called(BIG_NUM) /\ ~Called(-BIG_NUM) /\ ~Called(0) /\ -BIG_NUM \in Int /\ 0 \in Int
      BY <2>1 DEF Called
    <2>3. a \in SysCall /\ b \in SysCall /\ c \in SysCall /\ Refused(a) /\ Refused(b) /\ Refused(c)
      BY <2>1, <2>2, BadCalls, Zenon
    <2>4. err_syscall_num = <<a, b, c>>
      BY DEF err_syscall_num
    <2>. HIDE DEF a, b, c
    <2>. QED  BY <2>3, <2>4, PlainThree
  <1>. QED  BY <1>3, <1>4, <1>5, <1>6, <1>7, <1>8

(* err_open_lots opens LastFd times, the last time in vain, and closes.    *)
LEMMA LotsFacts ==
    /\ err_open_lots \in Seq(SysCall) /\ Len(err_open_lots) = Lots
    /\ \A k \in 1 .. Lots :
          err_open_lots[k] = IF k <= LastFd THEN OpenOf(".", k < LastFd) ELSE AnyClose(k - LastFd + 1)
  <1>. DEFINE a == [k \in 1 .. LastFd |-> OpenOf(".", k < LastFd)]
              b == [k \in 1 .. LastFd - 1 |-> AnyClose(k + 1)]
  <1>1. LastFd \in Nat /\ LastFd >= 2 /\ LastFd - 1 \in Nat
    BY FdAssumption
  <1>2. \A k \in 1 .. LastFd : OpenOf(".", k < LastFd) \in SysCall
    BY <1>1 DEF OpenOf, SysCall
  <1>3. \A k \in 1 .. LastFd - 1 : AnyClose(k + 1) \in SysCall
    BY <1>1 DEF AnyClose, SysCall
  <1>4. a \in [1 .. LastFd -> SysCall] /\ b \in [1 .. LastFd - 1 -> SysCall]
    BY <1>2, <1>3, Zenon
  <1>5. err_open_lots = a \o b
    BY DEF err_open_lots
  <1>6. /\ \A k \in 1 .. LastFd : a[k] = OpenOf(".", k < LastFd)
        /\ \A k \in 1 .. LastFd - 1 : b[k] = AnyClose(k + 1)
    OBVIOUS
  <1>. HIDE DEF a, b
  <1>7. a \in Seq(SysCall) /\ b \in Seq(SysCall) /\ Len(a) = LastFd /\ Len(b) = LastFd - 1
    BY <1>1, <1>4
  <1>8. /\ a \o b \in Seq(SysCall) /\ Len(a \o b) = LastFd + (LastFd - 1)
        /\ \A j \in 1 .. LastFd + (LastFd - 1) : (a \o b)[j] = IF j <= LastFd THEN a[j] ELSE b[j - LastFd]
    <2>1. /\ a \o b \in Seq(SysCall) /\ Len(a \o b) = Len(a) + Len(b)
          /\ \A j \in 1 .. Len(a) + Len(b) : (a \o b)[j] = IF j <= Len(a) THEN a[j] ELSE b[j - Len(a)]
      BY <1>7, ConcatProperties, Zenon
    <2>. QED  BY <1>7, <2>1
  <1>9. LastFd + (LastFd - 1) = Lots
    BY <1>1 DEF Lots
  <1>10. ASSUME NEW k \in 1 .. Lots
         PROVE  err_open_lots[k] = IF k <= LastFd THEN OpenOf(".", k < LastFd) ELSE AnyClose(k - LastFd + 1)
    <2>1. CASE k <= LastFd
      <3>1. k \in 1 .. LastFd /\ (a \o b)[k] = a[k]
        BY <1>8, <1>9, <2>1
      <3>. QED  BY <1>5, <1>6, <2>1, <3>1
    <2>2. CASE ~(k <= LastFd)
      <3>1. k - LastFd \in 1 .. LastFd - 1 /\ (a \o b)[k] = b[k - LastFd]
        BY <1>1, <1>8, <1>9, <2>2
      <3>. QED  BY <1>5, <1>6, <2>2, <3>1
    <2>. QED  BY <2>1, <2>2
  <1>. QED  BY <1>5, <1>8, <1>9, <1>10

(* Where a list of calls stands to err_open_lots.                          *)
LEMMA PlainFollows ==
    ASSUME NEW t, Plain(t), NEW k \in Int, k >= Lots \/ k + Len(t) <= 0
    PROVE  Follows(t, k)
  <1>1. Len(t) \in Nat /\ Lots \in Int
    BY LenProperties, FdAssumption DEF Plain, Lots
  <1>2. \A j \in 1 .. Len(t) : k + j \notin 1 .. Lots
    BY <1>1
  <1>. QED  BY <1>2 DEF Plain, Follows

LEMMA LotsFollows ==
    Follows(err_open_lots, 0)
  <1>1. \A j \in 1 .. Len(err_open_lots) : 0 + j \in 1 .. Lots /\ 0 + j = j
    BY LotsFacts, FdAssumption DEF Lots
  <1>. QED  BY <1>1 DEF Follows

LEMMA FollowsConcat ==
    ASSUME NEW s \in Seq(SysCall), NEW t \in Seq(SysCall), NEW k \in Int,
           Follows(s, k), Follows(t, k + Len(s))
    PROVE  s \o t \in Seq(SysCall) /\ Follows(s \o t, k)
  <1>1. s \o t \in Seq(SysCall) /\ Len(s \o t) = Len(s) + Len(t) /\ Len(s) \in Nat /\ Len(t) \in Nat
        /\ \A j \in 1 .. Len(s) + Len(t) : (s \o t)[j] = IF j <= Len(s) THEN s[j] ELSE t[j - Len(s)]
    BY ConcatProperties, LenProperties
  <1>2. ASSUME NEW j \in 1 .. Len(s) + Len(t)
        PROVE  IF k + j \in 1 .. Lots THEN (s \o t)[j] = err_open_lots[k + j] ELSE Refused((s \o t)[j])
    <2>1. CASE j <= Len(s)
      <3>1. j \in 1 .. Len(s) /\ (s \o t)[j] = s[j]
        BY <1>1, <2>1
      <3>. QED  BY <3>1 DEF Follows
    <2>2. CASE ~(j <= Len(s))
      <3>1. j - Len(s) \in 1 .. Len(t) /\ (s \o t)[j] = t[j - Len(s)] /\ (k + Len(s)) + (j - Len(s)) = k + j
        BY <1>1, <2>2
      <3>2. IF (k + Len(s)) + (j - Len(s)) \in 1 .. Lots
            THEN t[j - Len(s)] = err_open_lots[(k + Len(s)) + (j - Len(s))] ELSE Refused(t[j - Len(s)])
        BY <3>1, Zenon DEF Follows
      <3>. QED  BY <3>1, <3>2, Zenon
    <2>. QED  BY <2>1, <2>2
  <1>. QED  BY <1>1, <1>2, Zenon DEF Follows

LEMMA AfterNothing ==
    /\ OpenAfter(-6) = {} /\ OpenAfter(0) = {} /\ OpenAfter(Lots) = {}
    /\ Lots \in Nat /\ -6 \in -6 .. Lots /\ 0 \in -6 .. Lots /\ Lots \in -6 .. Lots
  BY FdAssumption DEF OpenAfter, Lots

LEMMA TestsFollow ==
    /\ AllTests \in Seq(SysCall) /\ Follows(AllTests, -6)
    /\ \A n \in 1 .. 8 : Tests[n] \in Seq(SysCall) /\ \E k \in {0, Lots} : Follows(Tests[n], k)
  <1>. DEFINE front == err_neg_fd \o err_big_fd
              back == err_open \o (err_unopened \o (err_vidmap \o (err_stdin_out \o err_syscall_num)))
  <1>1. Plain(front)
    BY PlainTests, PlainConcat
  <1>2. Plain(back)
    <2>1. Plain(err_stdin_out \o err_syscall_num)
      BY PlainTests, PlainConcat
    <2>2. Plain(err_vidmap \o (err_stdin_out \o err_syscall_num))
      BY PlainTests, PlainConcat, <2>1
    <2>3. Plain(err_unopened \o (err_vidmap \o (err_stdin_out \o err_syscall_num)))
      BY PlainTests, PlainConcat, <2>2
    <2>. QED  BY PlainTests, PlainConcat, <2>3
  <1>3. Len(front) = 6
    <2>1. err_neg_fd \in Seq(SysCall) /\ err_big_fd \in Seq(SysCall) /\ Len(err_neg_fd) = 3 /\ Len(err_big_fd) = 3
      BY PlainTests DEF Plain
    <2>2. Len(front) = Len(err_neg_fd) + Len(err_big_fd)
      BY <2>1, ConcatProperties, Zenon
    <2>. QED  BY <2>1, <2>2
  <1>4. AllTests = front \o (err_open_lots \o back)
    BY DEF AllTests
  <1>. HIDE DEF front, back
  <1>5. front \in Seq(SysCall) /\ back \in Seq(SysCall)
    BY <1>1, <1>2 DEF Plain
  <1>6. /\ 0 \in Int /\ -6 \in Int /\ Lots \in Int /\ -6 + 6 = 0 /\ 0 + Lots = Lots /\ Lots >= Lots
        /\ -6 + 6 <= 0
    BY AfterNothing
  <1>7. Follows(back, Lots) /\ Follows(front, -6)
    BY <1>1, <1>2, <1>3, <1>6, PlainFollows
  <1>8. Follows(back, 0 + Len(err_open_lots))
    BY <1>6, <1>7, LotsFacts
  <1>9. err_open_lots \o back \in Seq(SysCall) /\ Follows(err_open_lots \o back, 0)
    BY <1>5, <1>6, <1>8, LotsFacts, LotsFollows, FollowsConcat, Zenon
  <1>10. Follows(err_open_lots \o back, -6 + Len(front))
    BY <1>3, <1>6, <1>9
  <1>11. AllTests \in Seq(SysCall) /\ Follows(AllTests, -6)
    BY <1>4, <1>5, <1>6, <1>7, <1>9, <1>10, FollowsConcat, Zenon
  <1>12. ASSUME NEW t, Plain(t)
         PROVE  t \in Seq(SysCall) /\ \E k \in {0, Lots} : Follows(t, k)
    <2>1. Follows(t, Lots)
      BY <1>6, <1>12, PlainFollows
    <2>. QED  BY <1>12, <2>1 DEF Plain
  <1>13. ASSUME NEW n \in 1 .. 8
         PROVE  Tests[n] \in Seq(SysCall) /\ \E k \in {0, Lots} : Follows(Tests[n], k)
    <2>1. n \in {1, 2, 3, 4, 5, 6, 7, 8}
      OBVIOUS
    <2>2. /\ Tests[1] = err_neg_fd /\ Tests[2] = err_big_fd /\ Tests[3] = err_open_lots /\ Tests[4] = err_open
          /\ Tests[5] = err_unopened /\ Tests[6] = err_vidmap /\ Tests[7] = err_stdin_out
          /\ Tests[8] = err_syscall_num
      BY DEF Tests
    <2>3. CASE n = 3
      BY <2>2, <2>3, LotsFacts, LotsFollows
    <2>4. CASE n # 3
      <3>1. Plain(Tests[n])
        BY <2>1, <2>2, <2>4, PlainTests, Zenon
      <3>. QED  BY <1>12, <3>1
    <2>. QED  BY <2>3, <2>4
  <1>. QED  BY <1>11, <1>13

(* A step of syserr: how its list goes on and what it has open.            *)
LEMMA SyserrStep ==
    ASSUME UInv, NEW w \in Places("syserr"), NEW l, DOMAIN l = DOMAIN NoLocals, l.fail = 0,
           prog[top] = "syserr", w # "main",
           at' = [at EXCEPT ![top] = w] \/ (at' = at /\ w = at[top]),
           loc' = [loc EXCEPT ![top] = l] \/ (loc' = loc /\ l = loc[top]),
           prog' = prog, out' = out, disturbed' = disturbed \/ Disturb,
           Inv', OthersKept, pc'[top] = "user",
           num_files_read' # num_files_read => \A q \in 0 .. top - 1 : disturbed'[q],
           w = "test" => /\ l.todo \in Seq(SysCall)
                         /\ \E k \in -6 .. Lots : /\ {fd \in UserFd : fds'[top][fd].flags # 0} = OpenAfter(k)
                                                  /\ Follows(l.todo, k)
    PROVE  UInv'
  <1>1. UTypeOK' /\ ProgramsKept /\ at'[top] = w /\ loc'[top] = l
    BY LocalStep
  <1>2. ASSUME NEW p \in Proc, p = top
        PROVE  UserInv(p)'
    <2>1. prog'[p] = "syserr" /\ pc'[p] = "user" /\ at'[p] = w /\ loc'[p] = l
      BY <1>1, <1>2
    <2>2. Fresher(p)' /\ Asked(p)'
      BY <2>1 DEF Fresher, Asked
    <2>3. SyserrInv(p)'
      BY <1>2, <2>1 DEF SyserrInv
    <2>. QED  BY <2>1, <2>2, <2>3, OnlySyserr
  <1>. QED  BY <1>1, <1>2, TopStep

LEMMA SyserrChooseStep ==
    ASSUME UInv, SyserrChoose
    PROVE  UInv'
  <1>1. PICK n \in Selects : Set([loc[top] EXCEPT !.todo = IF n = 0 THEN AllTests ELSE Tests[n]])
    BY DEF SyserrChoose
  <1>. DEFINE t == IF n = 0 THEN AllTests ELSE Tests[n]
              l == [loc[top] EXCEPT !.todo = t]
  <1>2. /\ prog[top] = "syserr" /\ at[top] = "main" /\ pc[top] = "user" /\ UNCHANGED vars
        /\ at' = [at EXCEPT ![top] = "test"] /\ loc' = [loc EXCEPT ![top] = l]
        /\ prog' = prog /\ out' = out /\ disturbed' = disturbed
    BY <1>1 DEF SyserrChoose, Runs, Goto, Set
  <1>3. top \in Proc /\ UserInv(top) /\ DOMAIN loc[top] = DOMAIN NoLocals
    BY UFacts DEF UTypeOK
  <1>4. n \in 0 .. 8
    BY UtilAssumption
  <1>5. t \in Seq(SysCall) /\ \E k \in {-6, 0, Lots} : Follows(t, k)
    <2>1. CASE n = 0
      BY <2>1, TestsFollow
    <2>2. CASE n # 0
      <3>1. n \in 1 .. 8
        BY <1>4, <2>2
      <3>. QED  BY <2>2, <3>1, TestsFollow, Zenon
    <2>. QED  BY <2>1, <2>2
  <1>. HIDE DEF t
  <1>6. DOMAIN l = DOMAIN NoLocals /\ l.todo = t /\ l.fail = loc[top].fail
    BY <1>3, Fields, Zenon
  <1>7. l.fail = 0 /\ \A fd \in UserFd : fds[top][fd].flags = 0
    BY <1>2, <1>3, <1>6 DEF UserInv, Fresher
  <1>. HIDE DEF l
  <1>8. Inv' /\ OthersKept /\ fds' = fds /\ pc'[top] = "user" /\ num_files_read' = num_files_read
    BY <1>2, SameStep
  <1>9. {fd \in UserFd : fds'[top][fd].flags # 0} = {}
    BY <1>7, <1>8
  <1>10. \E k \in -6 .. Lots : {fd \in UserFd : fds'[top][fd].flags # 0} = OpenAfter(k) /\ Follows(l.todo, k)
    <2>1. PICK k \in {-6, 0, Lots} : Follows(t, k)
      BY <1>5
    <2>2. k \in -6 .. Lots /\ OpenAfter(k) = {}
      BY <2>1, AfterNothing, Zenon
    <2>. QED  BY <1>6, <1>9, <2>1, <2>2, Zenon
  <1>11. "test" \in Places("syserr")
    BY DEF Places
  <1>. QED  BY <1>2, <1>5, <1>6, <1>7, <1>8, <1>10, <1>11, SyserrStep

LEMMA SyserrDoneStep ==
    ASSUME UInv, SyserrDone
    PROVE  UInv'
  <1>1. /\ prog[top] = "syserr" /\ at[top] = "test" /\ pc[top] = "user" /\ UNCHANGED vars
        /\ at' = [at EXCEPT ![top] = "end"] /\ loc' = loc
        /\ prog' = prog /\ out' = out /\ disturbed' = disturbed
    BY DEF SyserrDone, Runs, Goto
  <1>2. top \in Proc /\ UserInv(top) /\ DOMAIN loc[top] = DOMAIN NoLocals
    BY UFacts DEF UTypeOK
  <1>3. loc[top].fail = 0
    BY <1>1, <1>2 DEF UserInv, SyserrInv
  <1>4. Inv' /\ OthersKept /\ pc'[top] = "user" /\ num_files_read' = num_files_read
    BY <1>1, SameStep
  <1>5. "end" \in Places("syserr")
    BY DEF Places
  <1>. QED  BY <1>1, <1>2, <1>3, <1>4, <1>5, SyserrStep

(* Without an open file the kernel refuses each of these calls.            *)
LEMMA RefusedStep ==
    ASSUME UInv, pc[top] = "user", \A fd \in UserFd : fds[top][fd].flags = 0,
           NEW c \in SysCall, Refused(c), Does(c)
    PROVE  UNCHANGED vars /\ Succeeds(c) = c.ok /\ ~(c.call = "open" /\ IsDirectory(c.name))
  <1>1. /\ top \in 0 .. top /\ TypeOK /\ fds[top][0].fops = "stdin"
    BY UFacts DEF Inv, Standard
  <1>2. \A fd \in Fd : fd = 0 \/ fd = 1 \/ fd \in UserFd
    BY FdAssumption DEF Fd, UserFd
  <1>3. c.ok = FALSE /\ c.call \in {"open", "read", "write", "close", "closeany", "vidmap", "call_sys"}
    BY DEF SysCall, Refused
  <1>4. CASE c.call = "open"
    <2>1. c.name \in {""} \cup Misspelt
      BY <1>4 DEF Refused
    <2>2. \A d \in 1 .. Len(direntries) : direntries[d].name # c.name
      BY <2>1, ConstantFacts, Zenon
    <2>3. \A d \in 1 .. NUM_MAX_DENTRIES : d <= Len(direntries) => d \in 1 .. Len(direntries)
      <3>1. NUM_MAX_DENTRIES \in Nat /\ Len(direntries) \in Nat
        BY ConstantFacts, Zenon
      <3>. QED  BY <3>1
    <2>4. c.name \in Misspelt => ~Exists(c.name)
      <3>1. ASSUME NEW d \in 1 .. NUM_MAX_DENTRIES, Entry(d).name = c.name, c.name \in Misspelt
            PROVE  FALSE
        <4>1. CASE d <= Len(direntries)
          BY <2>2, <2>3, <3>1, <4>1 DEF Entry
        <4>2. CASE ~(d <= Len(direntries))
          BY <3>1, <4>2 DEF Entry, Misspelt
        <4>. QED  BY <4>1, <4>2
      <3>. QED  BY <3>1 DEF Exists
    <2>5. ~Opens(c.name)
      BY <2>1, <2>4, Zenon DEF Opens
    <2>6. UNCHANGED vars
      BY <1>4, <2>5 DEF Does, Open, OpenFails
    <2>7. Succeeds(c) = Opens(c.name)
      BY <1>4, Zenon DEF Succeeds
    <2>8. ~IsDirectory(c.name)
      <3>1. Len(direntries) \in Nat
        BY ConstantFacts, Zenon
      <3>2. \A d \in 1 .. Len(direntries) : d <= Len(direntries)
        BY <3>1
      <3>3. \A d \in 1 .. Len(direntries) : Entry(d) = direntries[d]
        BY <3>2, Zenon DEF Entry
      <3>. QED  BY <2>2, <3>3, Zenon DEF IsDirectory, Named
    <2>9. Opens(c.name) \in BOOLEAN
      BY DEF Opens, Exists
    <2>. QED  BY <1>3, <2>5, <2>6, <2>7, <2>8, <2>9
  <1>5. CASE c.call = "read"
    <2>1. c.arg # 0
      BY <1>5 DEF Refused
    <2>2. ~Reads(c.arg)
      BY <1>2, <2>1 DEF Reads, Used
    <2>3. UNCHANGED vars
      BY <1>5, Zenon DEF Does, ReadRefused
    <2>4. Succeeds(c) = Reads(c.arg)
      BY <1>5, Zenon DEF Succeeds
    <2>. QED  BY <1>3, <1>5, <2>2, <2>3, <2>4 DEF Reads
  <1>6. CASE c.call = "write"
    <2>1. c.arg # 1
      BY <1>6 DEF Refused
    <2>2. ~Writes(c.arg)
      BY <1>1, <1>2, <2>1 DEF Writes, Used
    <2>3. UNCHANGED vars
      BY <1>6, Zenon DEF Does, Write
    <2>4. Succeeds(c) = Writes(c.arg)
      BY <1>6, Zenon DEF Succeeds
    <2>. QED  BY <1>3, <1>6, <2>2, <2>3, <2>4 DEF Writes
  <1>7. CASE c.call = "close"
    <2>1. ~Closes(c.arg)
      BY DEF Closes, Used
    <2>2. Close(c.arg)
      BY <1>7, Zenon DEF Does
    <2>3. UNCHANGED vars
      BY <2>1, <2>2 DEF Close, vars
    <2>4. Succeeds(c) = Closes(c.arg)
      BY <1>7, Zenon DEF Succeeds
    <2>. QED  BY <1>3, <1>7, <2>1, <2>3, <2>4 DEF Closes
  <1>8. CASE c.call = "vidmap"
    <2>1. ~Vidmaps(c.arg)
      BY <1>8 DEF Refused
    <2>2. UNCHANGED vars
      BY <1>8, Zenon DEF Does
    <2>3. Succeeds(c) = Vidmaps(c.arg)
      BY <1>8, Zenon DEF Succeeds
    <2>4. Vidmaps(c.arg) = FALSE
      BY <2>1 DEF Vidmaps
    <2>. QED  BY <1>3, <1>8, <2>2, <2>3, <2>4, Zenon
  <1>9. CASE c.call = "call_sys"
    <2>1. ~Called(c.arg)
      BY <1>9 DEF Refused
    <2>2. UNCHANGED vars
      BY <1>9, Zenon DEF Does
    <2>3. Succeeds(c) = Called(c.arg)
      BY <1>9, Zenon DEF Succeeds
    <2>4. Called(c.arg) = FALSE
      BY <2>1 DEF Called
    <2>. QED  BY <1>3, <1>9, <2>2, <2>3, <2>4, Zenon
  <1>10. c.call # "closeany"
    BY DEF Refused
  <1>. QED  BY <1>3, <1>4, <1>5, <1>6, <1>7, <1>8, <1>9, <1>10

LEMMA FollowsTail ==
    ASSUME NEW t \in Seq(SysCall), t # <<>>, NEW k \in -6 .. Lots, Follows(t, k)
    PROVE  /\ Head(t) \in SysCall /\ Tail(t) \in Seq(SysCall)
           /\ k \in 0 .. Lots - 1 => Head(t) = err_open_lots[k + 1]
           /\ k \notin 0 .. Lots - 1 => Refused(Head(t))
           /\ k = Lots => Follows(Tail(t), k)
           /\ k # Lots => Follows(Tail(t), k + 1)
  <1>1. Head(t) = t[1] /\ Head(t) \in SysCall /\ Tail(t) \in Seq(SysCall) /\ Len(t) \in Nat \ {0}
        /\ Len(Tail(t)) = Len(t) - 1 /\ \A j \in 1 .. Len(t) - 1 : Tail(t)[j] = t[j + 1]
    BY HeadTailProperties, EmptySeq, LenProperties
  <1>2. Lots \in Nat /\ 1 \in 1 .. Len(t)
    BY <1>1, AfterNothing
  <1>3. k \in 0 .. Lots - 1 <=> k + 1 \in 1 .. Lots
    BY <1>2
  <1>4. IF k + 1 \in 1 .. Lots THEN t[1] = err_open_lots[k + 1] ELSE Refused(t[1])
    BY <1>2, Zenon DEF Follows
  <1>5. ASSUME NEW i \in Int, i = k + 1 \/ (i = k /\ k = Lots)
        PROVE  Follows(Tail(t), i)
    <2>1. ASSUME NEW j \in 1 .. Len(Tail(t))
          PROVE  IF i + j \in 1 .. Lots THEN Tail(t)[j] = err_open_lots[i + j] ELSE Refused(Tail(t)[j])
      <3>1. j + 1 \in 1 .. Len(t) /\ Tail(t)[j] = t[j + 1]
        BY <1>1
      <3>2. IF k + (j + 1) \in 1 .. Lots THEN t[j + 1] = err_open_lots[k + (j + 1)] ELSE Refused(t[j + 1])
        BY <3>1, Zenon DEF Follows
      <3>3. CASE i = k + 1
        <4>1. i + j = k + (j + 1)
          BY <1>1, <1>2, <3>3
        <4>. QED  BY <3>1, <3>2, <4>1, Zenon
      <3>4. CASE i = k /\ k = Lots
        <4>1. i + j \notin 1 .. Lots /\ k + (j + 1) \notin 1 .. Lots
          BY <1>1, <1>2, <3>4
        <4>. QED  BY <3>1, <3>2, <4>1, Zenon
      <3>. QED  BY <1>5, <3>3, <3>4
    <2>. QED  BY <2>1 DEF Follows
  <1>6. k \in Int /\ k + 1 \in Int
    BY <1>2
  <1>. QED  BY <1>1, <1>3, <1>4, <1>5, <1>6, Zenon

(* The calls of err_open_lots, from the k-th on.                           *)
UsedFds(k) == {fd \in UserFd : fds[top][fd].flags # 0} = OpenAfter(k)

LEMMA DotIsThere ==
    /\ Exists(".") /\ IsDirectory(".")
  <1>1. Len(direntries) \in Nat /\ NUM_MAX_DENTRIES \in Nat /\ Len(direntries) < NUM_MAX_DENTRIES
    BY ConstantFacts, Zenon
  <1>. DEFINE T == {d \in 1 .. Len(direntries) : direntries[d].name = "."}
  <1>2. PICK e \in 1 .. Len(direntries) : direntries[e].name = "."
    BY ConstantFacts, Zenon
  <1>3. T \subseteq Nat /\ e \in T
    BY <1>1, <1>2
  <1>4. PICK d \in T : \A y \in T : d <= y
    BY <1>3, Least, Zenon
  <1>5. d \in 1 .. Len(direntries) /\ direntries[d].name = "." /\ direntries[d].filetype = DIR_FILETYPE
    BY <1>4, ConstantFacts, Zenon
  <1>6. \A i \in 1 .. Len(direntries) : Entry(i) = direntries[i]
    BY <1>1 DEF Entry
  <1>7. \A i \in 1 .. d - 1 : i \in 1 .. Len(direntries) /\ ~(d <= i)
    BY <1>1, <1>5
  <1>8. \A i \in 1 .. d - 1 : Entry(i).name # "."
    BY <1>4, <1>6, <1>7, Zenon
  <1>9. Named(".", d)
    BY <1>5, <1>6, <1>8, Zenon DEF Named
  <1>10. d \in 1 .. NUM_MAX_DENTRIES
    BY <1>1, <1>5
  <1>. QED  BY <1>5, <1>9, <1>10, Zenon DEF IsDirectory, Exists, Named

LEMMA LotsOpens ==
    ASSUME UInv, pc[top] = "user", NEW k \in 0 .. Lots, k + 1 < LastFd, UsedFds(k),
           Open(".") \/ OpenFails(".")
    PROVE  Inv' /\ OthersKept /\ pc'[top] = "user" /\ Opens(".") /\ UsedFds(k + 1)'
  <1>1. LastFd \in Nat /\ LastFd >= 2 /\ k \in Nat
    BY FdAssumption DEF Lots
  <1>2. /\ k + 2 \in UserFd /\ OpenAfter(k) = 2 .. k + 1 /\ k + 2 \notin OpenAfter(k)
        /\ OpenAfter(k + 1) = 2 .. k + 2
    BY <1>1 DEF UserFd, OpenAfter
  <1>3. fds[top][k + 2].flags = 0
    BY <1>2 DEF UsedFds
  <1>4. Opens(".")
    <2>1. "." # ""
      OBVIOUS
    <2>. QED  BY <1>2, <1>3, <2>1, DotIsThere DEF Opens, Used
  <1>5. Open(".")
    BY <1>4 DEF OpenFails
  <1>. DEFINE u == FirstUnused
  <1>6. /\ Inv' /\ OthersKept /\ pc'[top] = "user" /\ u \in UserFd /\ fds[top][u].flags = 0
        /\ \A fd \in UserFd : fd < u => fds[top][fd].flags # 0
        /\ \A fd \in UserFd : fd # u => fds'[top][fd] = fds[top][fd]
        /\ fds'[top][u].flags = 1
    BY <1>5, OpenStep
  <1>. HIDE DEF u
  <1>7. u \in Int /\ u >= 2
    BY <1>1, <1>6 DEF UserFd
  <1>8. u = k + 2
    <2>1. ~(k + 2 < u)
      BY <1>2, <1>3, <1>6
    <2>2. u \notin OpenAfter(k)
      BY <1>6 DEF UsedFds
    <2>. QED  BY <1>1, <1>2, <1>7, <2>1, <2>2
  <1>9. {fd \in UserFd : fds'[top][fd].flags # 0} = OpenAfter(k + 1)
    <2>1. \A fd \in UserFd : fds'[top][fd].flags # 0 <=> fd = u \/ fd \in OpenAfter(k)
      BY <1>6 DEF UsedFds
    <2>2. \A fd : fd \in OpenAfter(k + 1) <=> fd = u \/ fd \in OpenAfter(k)
      BY <1>1, <1>2, <1>8
    <2>3. OpenAfter(k + 1) \subseteq UserFd
      BY <1>1, <1>2 DEF UserFd
    <2>. QED  BY <2>1, <2>2, <2>3
  <1>10. top' = top
    BY <1>6 DEF OthersKept
  <1>11. UsedFds(k + 1)'
    BY <1>9, <1>10 DEF UsedFds, OpenAfter
  <1>. QED  BY <1>4, <1>6, <1>11

LEMMA LotsFull ==
    ASSUME UInv, pc[top] = "user", NEW k \in 0 .. Lots, k + 1 = LastFd, UsedFds(k),
           Open(".") \/ OpenFails(".")
    PROVE  Inv' /\ OthersKept /\ pc'[top] = "user" /\ ~Opens(".") /\ UsedFds(k + 1)' /\ UNCHANGED vars
  <1>1. LastFd \in Nat /\ LastFd >= 2 /\ k \in Nat
    BY FdAssumption DEF Lots
  <1>2. OpenAfter(k) = UserFd /\ OpenAfter(k + 1) = UserFd
    BY <1>1 DEF UserFd, OpenAfter
  <1>3. ~Opens(".")
    BY <1>2 DEF Opens, Used, UsedFds
  <1>4. UNCHANGED vars
    BY <1>3 DEF Open, OpenFails
  <1>5. Inv' /\ OthersKept /\ fds' = fds /\ pc' = pc
    BY <1>4, SameStep
  <1>6. top' = top
    BY <1>5 DEF OthersKept
  <1>7. UsedFds(k + 1)'
    BY <1>2, <1>5, <1>6 DEF UsedFds, OpenAfter
  <1>. QED  BY <1>3, <1>4, <1>5, <1>7

LEMMA LotsCloses ==
    ASSUME UInv, NEW k \in 0 .. Lots - 1, k >= LastFd, UsedFds(k), Close(k - LastFd + 2)
    PROVE  Inv' /\ OthersKept /\ pc'[top] = "user" /\ UsedFds(k + 1)' /\ num_files_read' = num_files_read
  <1>. DEFINE u == k - LastFd + 2
  <1>1. LastFd \in Nat /\ LastFd >= 2 /\ k \in Nat /\ k <= 2 * LastFd - 2
    BY FdAssumption DEF Lots
  <1>2. u \in UserFd /\ u \in Int /\ OpenAfter(k) = u .. LastFd /\ OpenAfter(k + 1) = u + 1 .. LastFd
    BY <1>1 DEF UserFd, OpenAfter
  <1>3. /\ Inv' /\ OthersKept /\ num_files_read' = num_files_read /\ pc' = pc /\ pc[top] = "user"
        /\ \A e \in UserFd : e # u => fds'[top][e] = fds[top][e]
        /\ fds'[top][u].flags = 0
    BY <1>2, CloseStep
  <1>. HIDE DEF u
  <1>4. {fd \in UserFd : fds'[top][fd].flags # 0} = OpenAfter(k + 1)
    <2>1. \A fd \in UserFd : fds'[top][fd].flags # 0 <=> fd # u /\ fd \in OpenAfter(k)
      BY <1>3 DEF UsedFds
    <2>2. \A fd : fd \in OpenAfter(k + 1) <=> fd # u /\ fd \in OpenAfter(k)
      BY <1>1, <1>2
    <2>3. OpenAfter(k) \subseteq UserFd
      BY DEF UsedFds
    <2>. QED  BY <2>1, <2>2, <2>3
  <1>5. top' = top
    BY <1>3 DEF OthersKept
  <1>6. UsedFds(k + 1)'
    BY <1>4, <1>5 DEF UsedFds, OpenAfter
  <1>. QED  BY <1>3, <1>6

LEMMA LotsCalls ==
    ASSUME NEW i \in 1 .. Lots
    PROVE  LET c == err_open_lots[i]
           IN  /\ i <= LastFd => c.call = "open" /\ c.name = "."
               /\ i <= LastFd /\ i < LastFd => c.ok = TRUE
               /\ i <= LastFd /\ ~(i < LastFd) => c.ok = FALSE
               /\ ~(i <= LastFd) => c.call = "closeany" /\ c.arg = i - LastFd + 1 /\ c.ok = TRUE
  <1>. DEFINE c == err_open_lots[i]
              b == i < LastFd
  <1>1. c = IF i <= LastFd THEN OpenOf(".", b) ELSE AnyClose(i - LastFd + 1)
    BY LotsFacts, Zenon
  <1>2. b \in BOOLEAN
    OBVIOUS
  <1>. HIDE DEF c, b
  <1>3. /\ i <= LastFd => c.call = "open" /\ c.name = "." /\ c.ok = b
        /\ ~(i <= LastFd) => c.call = "closeany" /\ c.arg = i - LastFd + 1 /\ c.ok = TRUE
    BY <1>1, Zenon DEF OpenOf, AnyClose
  <1>4. (i < LastFd => b = TRUE) /\ (~(i < LastFd) => b = FALSE)
    BY <1>2, Zenon DEF b
  <1>. QED  BY <1>3, <1>4, Zenon DEF c

(* The k-th call of err_open_lots does what the test expects.              *)
LEMMA LotsStep ==
    ASSUME UInv, pc[top] = "user", NEW k \in 0 .. Lots - 1, UsedFds(k), Does(err_open_lots[k + 1])
    PROVE  LET c == err_open_lots[k + 1]
           IN  /\ Inv' /\ OthersKept /\ pc'[top] = "user" /\ UsedFds(k + 1)' /\ Succeeds(c) = c.ok
               /\ num_files_read' # num_files_read => c.call = "open" /\ IsDirectory(c.name)
  <1>. DEFINE c == err_open_lots[k + 1]
  <1>1. LastFd \in Nat /\ LastFd >= 2 /\ k \in Nat /\ k <= 2 * LastFd - 2
    BY FdAssumption DEF Lots
  <1>2. k + 1 \in 1 .. Lots /\ k \in 0 .. Lots
    BY <1>1 DEF Lots
  <1>3. /\ k + 1 <= LastFd => c.call = "open" /\ c.name = "."
        /\ k + 1 <= LastFd /\ k + 1 < LastFd => c.ok = TRUE
        /\ k + 1 <= LastFd /\ ~(k + 1 < LastFd) => c.ok = FALSE
        /\ ~(k + 1 <= LastFd) => c.call = "closeany" /\ c.arg = (k + 1) - LastFd + 1 /\ c.ok = TRUE
    BY <1>2, LotsCalls
  <1>. HIDE DEF c
  <1>4. CASE k + 1 <= LastFd
    <2>1. c.call = "open" /\ c.name = "."
      BY <1>3, <1>4, Zenon
    <2>2. Open(".") \/ OpenFails(".")
      <3>1. Open(c.name) \/ OpenFails(c.name)
        BY <2>1, Zenon DEF Does, c
      <3>. QED  BY <2>1, <3>1, Zenon
    <2>3. Succeeds(c) = Opens(".")
      BY <2>1, Zenon DEF Succeeds
    <2>4. Opens(".") \in BOOLEAN /\ IsDirectory(".")
      BY DotIsThere DEF Opens
    <2>5. CASE k + 1 < LastFd
      <3>1. Inv' /\ OthersKept /\ pc'[top] = "user" /\ Opens(".") /\ UsedFds(k + 1)'
        BY <1>2, <2>2, <2>5, LotsOpens
      <3>2. Succeeds(c) = c.ok
        BY <1>3, <1>4, <2>3, <2>4, <2>5, <3>1, Zenon
      <3>. QED  BY <2>1, <2>4, <3>1, <3>2, Zenon DEF c
    <2>6. CASE ~(k + 1 < LastFd)
      <3>1. k + 1 = LastFd
        BY <1>1, <1>4, <2>6
      <3>2. Inv' /\ OthersKept /\ pc'[top] = "user" /\ ~Opens(".") /\ UsedFds(k + 1)'
        BY <1>2, <2>2, <3>1, LotsFull
      <3>3. Succeeds(c) = c.ok
        BY <1>3, <1>4, <2>3, <2>4, <2>6, <3>2, Zenon
      <3>. QED  BY <2>1, <2>4, <3>2, <3>3, Zenon DEF c
    <2>. QED  BY <2>5, <2>6
  <1>5. CASE ~(k + 1 <= LastFd)
    <2>1. k + 1 - LastFd + 1 = k - LastFd + 2 /\ k >= LastFd
      BY <1>1, <1>5
    <2>2. c.call = "closeany" /\ c.arg = k - LastFd + 2 /\ c.ok = TRUE
      BY <1>1, <1>3, <1>5
    <2>3. Close(k - LastFd + 2)
      <3>1. Close(c.arg)
        BY <2>2, Zenon DEF Does, c
      <3>. QED  BY <2>2, <3>1, Zenon
    <2>4. Succeeds(c) = TRUE
      BY <2>2, Zenon DEF Succeeds
    <2>5. Inv' /\ OthersKept /\ pc'[top] = "user" /\ UsedFds(k + 1)' /\ num_files_read' = num_files_read
      BY <2>1, <2>3, LotsCloses
    <2>. QED  BY <2>2, <2>4, <2>5, Zenon DEF c
  <1>. QED  BY <1>4, <1>5

LEMMA SyserrCallStep ==
    ASSUME UInv, SyserrCall
    PROVE  UInv'
  <1>. DEFINE t == loc[top].todo
              c == Head(t)
              f == IF Succeeds(c) = c.ok THEN loc[top].fail ELSE 2
              u == Tail(t)
              l == [loc[top] EXCEPT !.todo = u, !.fail = f]
  <1>1. /\ prog[top] = "syserr" /\ at[top] = "test" /\ pc[top] = "user" /\ t # <<>> /\ Does(c)
        /\ loc' = [loc EXCEPT ![top] = [loc[top] EXCEPT !.todo = Tail(@), !.fail = IF Succeeds(c) = c.ok THEN @ ELSE 2]]
        /\ prog' = prog /\ at' = at /\ out' = out
        /\ IF c.call = "open" /\ IsDirectory(c.name) THEN Disturb ELSE disturbed' = disturbed
    BY DEF SyserrCall, Runs, Set
  <1>2. /\ top \in Proc /\ top \in Nat /\ UserInv(top) /\ DOMAIN loc[top] = DOMAIN NoLocals
        /\ \A p \in 0 .. top : p \in Proc
    BY UFacts DEF UTypeOK
  <1>3. loc' = [loc EXCEPT ![top] = l]
    BY <1>1, <1>2, Fields, Zenon
  <1>4. t \in Seq(SysCall) /\ loc[top].fail = 0
    BY <1>1, <1>2 DEF UserInv, SyserrInv
  <1>5. PICK k \in -6 .. Lots : UsedFds(k) /\ Follows(t, k)
    BY <1>1, <1>2, Zenon DEF UserInv, SyserrInv, UsedFds
  <1>6. Lots \in Nat /\ LastFd \in Nat /\ LastFd >= 2
    BY AfterNothing, FdAssumption
  <1>. HIDE DEF t
  <1>7. /\ c \in SysCall /\ u \in Seq(SysCall)
        /\ k \in 0 .. Lots - 1 => c = err_open_lots[k + 1]
        /\ k \notin 0 .. Lots - 1 => Refused(c)
        /\ k = Lots => Follows(u, k)
        /\ k # Lots => Follows(u, k + 1)
    BY <1>1, <1>4, <1>5, FollowsTail
  <1>. HIDE DEF c, u
  <1>8. /\ Inv' /\ OthersKept /\ pc'[top] = "user" /\ Succeeds(c) = c.ok
        /\ num_files_read' # num_files_read => c.call = "open" /\ IsDirectory(c.name)
        /\ \E i \in -6 .. Lots : UsedFds(i)' /\ Follows(u, i)
    <2>1. CASE k \in 0 .. Lots - 1
      <3>1. c = err_open_lots[k + 1] /\ Follows(u, k + 1) /\ k + 1 \in -6 .. Lots
        BY <1>6, <1>7, <2>1
      <3>2. Does(err_open_lots[k + 1])
        BY <1>1, <3>1, Zenon
      <3>3. /\ Inv' /\ OthersKept /\ pc'[top] = "user" /\ UsedFds(k + 1)' /\ Succeeds(c) = c.ok
            /\ num_files_read' # num_files_read => c.call = "open" /\ IsDirectory(c.name)
        BY <1>1, <1>5, <2>1, <3>1, <3>2, LotsStep
      <3>. QED  BY <3>1, <3>3
    <2>2. CASE k \notin 0 .. Lots - 1
      <3>1. OpenAfter(k) = {}
        BY <1>6, <2>2 DEF OpenAfter, Lots
      <3>2. \A fd \in UserFd : fds[top][fd].flags = 0
        BY <1>5, <3>1 DEF UsedFds
      <3>3. UNCHANGED vars /\ Succeeds(c) = c.ok
        BY <1>1, <1>7, <2>2, <3>2, RefusedStep
      <3>4. Inv' /\ OthersKept /\ fds' = fds /\ pc' = pc /\ num_files_read' = num_files_read
        BY <3>3, SameStep
      <3>5. PICK i \in -6 .. Lots : Follows(u, i) /\ OpenAfter(i) = {}
        <4>1. CASE k = Lots
          BY <1>7, <3>1, <4>1
        <4>2. CASE k # Lots
          <5>1. k + 1 \in -6 .. Lots /\ OpenAfter(k + 1) = {}
            BY <1>6, <2>2, <4>2 DEF OpenAfter, Lots
          <5>. QED  BY <1>7, <4>2, <5>1
        <4>. QED  BY <4>1, <4>2
      <3>6. top' = top
        BY <3>4 DEF OthersKept
      <3>7. {fd \in UserFd : fds'[top'][fd].flags # 0} = {}
        BY <3>2, <3>4, <3>6
      <3>8. UsedFds(i)'
        BY <3>5, <3>7 DEF UsedFds, OpenAfter
      <3>. QED  BY <1>1, <3>3, <3>4, <3>5, <3>8
    <2>. QED  BY <2>1, <2>2
  <1>9. f = 0
    BY <1>4, <1>8
  <1>. HIDE DEF f
  <1>10. DOMAIN l = DOMAIN NoLocals /\ l.todo = u /\ l.fail = f
    BY <1>2, Fields, Zenon
  <1>. HIDE DEF l
  <1>11. disturbed' = disturbed \/ Disturb
    BY <1>1
  <1>12. num_files_read' # num_files_read => \A q \in 0 .. top - 1 : disturbed'[q]
    <2>1. ASSUME Disturb, NEW q \in 0 .. top - 1
          PROVE  disturbed'[q]
      <3>1. q \in Proc /\ q < top
        BY <1>2, <2>1
      <3>. QED  BY <2>1, <3>1 DEF Disturb
    <2>. QED  BY <1>1, <1>8, <2>1
  <1>13. \E i \in -6 .. Lots : {fd \in UserFd : fds'[top][fd].flags # 0} = OpenAfter(i) /\ Follows(l.todo, i)
    <2>1. top' = top
      BY <1>8 DEF OthersKept
    <2>2. PICK i \in -6 .. Lots : UsedFds(i)' /\ Follows(u, i)
      BY <1>8
    <2>3. {fd \in UserFd : fds'[top][fd].flags # 0} = OpenAfter(i)
      BY <2>1, <2>2 DEF UsedFds, OpenAfter
    <2>. QED  BY <1>10, <2>2, <2>3, Zenon
  <1>14. "test" \in Places("syserr")
    BY DEF Places
  <1>. QED  BY <1>1, <1>3, <1>7, <1>8, <1>9, <1>10, <1>11, <1>12, <1>13, <1>14, SyserrStep

----------------------------------------------------------------------------
(* A program is started on top of the others, or ends.                     *)
LEMMA StartStep ==
    ASSUME UInv, NEW u \in {"shell", "cat", "ls", "grep", "syserr"}, NEW arg, Start(u, arg)
    PROVE  UInv'
  <1>. DEFINE n == top + 1
              l == [NoLocals EXCEPT !.arg = arg]
  <1>1. /\ pc[top] # "halting" /\ n \in Proc /\ fds' = [fds EXCEPT ![n] = Fresh(@)] /\ top' = n
        /\ pc' = [pc EXCEPT ![n] = "user"] /\ UNCHANGED <<num_files_read, call, got>>
        /\ prog' = [prog EXCEPT ![n] = u] /\ at' = [at EXCEPT ![n] = "main"]
        /\ loc' = [loc EXCEPT ![n] = l] /\ out' = [out EXCEPT ![n] = <<>>]
        /\ disturbed' = [disturbed EXCEPT ![n] = FALSE]
    BY DEF Start, Execute
  <1>2. /\ Inv /\ UTypeOK /\ BelowDisturbed /\ top \in Nat /\ fds \in [Proc -> [Fd -> File]]
        /\ pc \in [Proc -> {"user", "reading", "listed", "halting"}] /\ \A p \in 0 .. top : p \in Proc
    BY UFacts
  <1>3. Inv'
    BY <1>1, <1>2, StartInv
  <1>4. n > top /\ n \in Nat /\ \A p \in 0 .. n : p = n \/ (p \in 0 .. top /\ p # n)
    BY <1>2
  <1>5. \A e \in UserFd : Fresh(fds[n])[e].flags = 0
    BY <1>1, <1>2, <1>4, FreshFacts
  <1>6. DOMAIN l = DOMAIN NoLocals /\ l.fail = 0
    BY DEF NoLocals
  <1>. HIDE DEF l
  <1>7. "main" \in Places(u)
    BY DEF Places
  <1>8. /\ fds'[n] = Fresh(fds[n]) /\ pc'[n] = "user" /\ prog'[n] = u /\ at'[n] = "main" /\ loc'[n] = l
        /\ out'[n] = <<>>
        /\ \A p \in Proc : p # n =>
              /\ fds'[p] = fds[p] /\ pc'[p] = pc[p] /\ prog'[p] = prog[p] /\ at'[p] = at[p]
              /\ loc'[p] = loc[p] /\ out'[p] = out[p] /\ disturbed'[p] = disturbed[p]
    BY <1>1, <1>2 DEF UTypeOK
  <1>9. UTypeOK'
    <2>1. prog' \in [Proc -> {"shell", "cat", "ls", "grep", "syserr"}] /\ disturbed' \in [Proc -> BOOLEAN]
      BY <1>1, <1>2 DEF UTypeOK
    <2>2. DOMAIN at' = Proc /\ DOMAIN loc' = Proc /\ DOMAIN out' = Proc
      BY <1>1, <1>2 DEF UTypeOK
    <2>3. ASSUME NEW p \in Proc
          PROVE  at'[p] \in Places(prog'[p]) /\ DOMAIN loc'[p] = DOMAIN NoLocals
      <3>1. CASE p = n
        BY <1>6, <1>7, <1>8, <3>1, Zenon
      <3>2. CASE p # n
        <4>1. at[p] \in Places(prog[p]) /\ DOMAIN loc[p] = DOMAIN NoLocals
          BY <1>2, Zenon DEF UTypeOK
        <4>. QED  BY <1>8, <3>2, <4>1, Zenon
      <3>. QED  BY <3>1, <3>2
    <2>. QED  BY <2>1, <2>2, <2>3 DEF UTypeOK, NoLocals, Places
  <1>. HIDE DEF n
  <1>10. ASSUME NEW p \in 0 .. n
         PROVE  UserInv(p)'
    <2>1. CASE p = n
      <3>1. Fresher(p)' /\ Asked(p)'
        BY <1>5, <1>6, <1>8, <2>1 DEF Fresher, Asked
      <3>2. CatInv(p)' /\ LsInv(p)' /\ GrepInv(p)' /\ SyserrInv(p)'
        BY <1>6, <1>8, <2>1 DEF CatInv, LsInv, GrepInv, SyserrInv
      <3>. QED  BY <3>1, <3>2 DEF UserInv
    <2>2. CASE p # n
      <3>1. p \in 0 .. top /\ p \in Proc
        BY <1>2, <1>4, <2>2
      <3>2. UserInv(p) /\ disturbed[p] \in BOOLEAN
        BY <1>2, <3>1 DEF UInv, UTypeOK
      <3>. QED  BY <1>1, <1>8, <2>2, <3>1, <3>2, Keeps
    <2>. QED  BY <2>1, <2>2
  <1>11. ASSUME NEW p \in 0 .. n, NEW q \in 0 .. n, pc'[p] = "listed", q < p
         PROVE  disturbed'[q]
    <2>1. p # n
      BY <1>8, <1>11
    <2>2. p \in 0 .. top /\ q \in 0 .. top /\ q # n
      <3>1. p \in 0 .. top /\ top \in Nat /\ n \in Nat /\ n > top
        BY <1>2, <1>4, <2>1, Zenon
      <3>. QED  BY <1>11, <3>1
    <2>3. pc[p] = "listed"
      BY <1>2, <1>8, <1>11, <2>1, <2>2
    <2>4. disturbed[q]
      BY <1>2, <1>11, <2>2, <2>3 DEF BelowDisturbed
    <2>. QED  BY <1>2, <1>8, <2>2, <2>4
  <1>12. BelowDisturbed' /\ \A p \in 0 .. top' : UserInv(p)'
    BY <1>1, <1>10, <1>11 DEF BelowDisturbed
  <1>. QED  BY <1>3, <1>9, <1>12 DEF UInv

LEMMA MainReturnsStep ==
    ASSUME UInv, MainReturns
    PROVE  UInv'
  <1>1. /\ Halt /\ pc[top] = "user" /\ top > 0 /\ fds' = [fds EXCEPT ![top] = ClosedAll(@)] /\ top' = top - 1
        /\ got' = [got EXCEPT ![top] = NothingRead] /\ UNCHANGED <<num_files_read, pc, call>>
        /\ prog' = [prog EXCEPT ![top] = "shell"] /\ at' = [at EXCEPT ![top] = "main"]
        /\ loc' = [loc EXCEPT ![top] = NoLocals] /\ out' = [out EXCEPT ![top] = <<>>]
        /\ disturbed' = disturbed
    BY DEF MainReturns, Halt
  <1>2. /\ Inv /\ TypeOK /\ UTypeOK /\ BelowDisturbed /\ top \in Nat /\ top \in Proc
        /\ \A p \in 0 .. top : p \in Proc
    BY UFacts
  <1>3. Inv'
    BY <1>1, <1>2, HaltInv
  <1>4. \A p \in 0 .. top - 1 : p \in 0 .. top /\ p # top
    BY <1>2
  <1>5. \A p \in Proc : p # top =>
          /\ fds'[p] = fds[p] /\ got'[p] = got[p] /\ prog'[p] = prog[p] /\ at'[p] = at[p]
          /\ loc'[p] = loc[p] /\ out'[p] = out[p]
    BY <1>1, <1>2 DEF UTypeOK, TypeOK
  <1>6. UTypeOK'
    <2>1. prog' \in [Proc -> {"shell", "cat", "ls", "grep", "syserr"}] /\ disturbed' \in [Proc -> BOOLEAN]
      BY <1>1, <1>2 DEF UTypeOK
    <2>2. DOMAIN at' = Proc /\ DOMAIN loc' = Proc /\ DOMAIN out' = Proc
      BY <1>1, <1>2 DEF UTypeOK
    <2>3. "main" \in Places("shell")
      BY DEF Places
    <2>4. prog'[top] = "shell" /\ at'[top] = "main" /\ loc'[top] = NoLocals
      BY <1>1, <1>2 DEF UTypeOK
    <2>5. ASSUME NEW p \in Proc
          PROVE  at'[p] \in Places(prog'[p]) /\ DOMAIN loc'[p] = DOMAIN NoLocals
      <3>1. CASE p = top
        BY <2>3, <2>4, <3>1, Zenon
      <3>2. CASE p # top
        <4>1. at[p] \in Places(prog[p]) /\ DOMAIN loc[p] = DOMAIN NoLocals
          BY <1>2, Zenon DEF UTypeOK
        <4>. QED  BY <1>5, <3>2, <4>1, Zenon
      <3>. QED  BY <3>1, <3>2
    <2>. QED  BY <2>1, <2>2, <2>5 DEF UTypeOK, NoLocals, Places
  <1>7. ASSUME NEW p \in 0 .. top - 1
        PROVE  UserInv(p)'
    <2>1. p \in 0 .. top /\ p # top /\ p \in Proc
      BY <1>2, <1>4
    <2>2. UserInv(p) /\ disturbed[p] \in BOOLEAN
      BY <1>2, <2>1 DEF UInv, UTypeOK
    <2>. QED  BY <1>1, <1>5, <2>1, <2>2, Keeps
  <1>8. BelowDisturbed'
    BY <1>1, <1>2, <1>4 DEF BelowDisturbed
  <1>9. \A p \in 0 .. top' : UserInv(p)'
    BY <1>1, <1>7
  <1>. QED  BY <1>3, <1>6, <1>8, <1>9 DEF UInv

LEMMA UInitInv == UInit => UInv
  <1>. SUFFICES ASSUME UInit PROVE UInv
    OBVIOUS
  <1>1. /\ Inv /\ top = 0 /\ 0 .. top = {0} /\ 0 \in Proc /\ pc[0] = "user"
        /\ \A e \in UserFd : fds[0][e].flags = 0
    <2>1. Init
      BY DEF UInit
    <2>2. top = 0 /\ 0 .. 0 = {0} /\ 0 \in Proc
      BY <2>1, FdAssumption DEF Init, Proc
    <2>3. \A e \in UserFd : fds[0][e] = Unused
      <3>1. \A e \in UserFd : e \in Fd /\ e # 0 /\ e # 1
        BY FdAssumption DEF UserFd, Fd
      <3>. QED  BY <2>1, <2>2, <3>1 DEF Init
    <2>4. pc[0] = "user"
      BY <2>1, <2>2 DEF Init
    <2>. QED  BY <2>1, <2>2, <2>3, <2>4, InitInv DEF Unused
  <1>2. UTypeOK
    BY DEF UInit, UTypeOK, Places
  <1>3. /\ prog[0] = "shell" /\ at[0] = "main" /\ out[0] = <<>> /\ loc[0] = NoLocals /\ NoLocals.fail = 0
    BY <1>1 DEF UInit, NoLocals
  <1>4. Fresher(0) /\ Asked(0)
    BY <1>1, <1>3 DEF Fresher, Asked
  <1>5. CatInv(0) /\ LsInv(0) /\ GrepInv(0) /\ SyserrInv(0)
    BY <1>3 DEF CatInv, LsInv, GrepInv, SyserrInv
  <1>6. \A p \in 0 .. top : UserInv(p)
    BY <1>1, <1>4, <1>5 DEF UserInv
  <1>7. BelowDisturbed
    BY <1>1 DEF BelowDisturbed
  <1>. QED  BY <1>1, <1>2, <1>6, <1>7 DEF UInv

LEMMA FileReturnsStep ==
    ASSUME UInv, FileReturns
    PROVE  UInv'
  <1>. DEFINE c == call[top]
              r == read_data(fds[top][c.fd].inode, c.offset, c.nbytes)
              b == Behind(c, r.count)
  <1>1. /\ FinishRead /\ prog' = prog /\ disturbed' = disturbed
        /\ CatWrite(r.bytes) \/ LsWrite(r.bytes) \/ GrepEntry(r.bytes) \/ GrepChunk(r.bytes, b)
    BY Zenon DEF FileReturns, Received
  <1>2. prog[top] \in {"cat", "grep"} /\ at[top] = "read"
    <2>1. UserInv(top) /\ pc[top] = "reading"
      BY <1>1, UFacts DEF FinishRead
    <2>. QED  BY <2>1 DEF UserInv, Asked
  <1>3. ~LsWrite(r.bytes) /\ ~GrepEntry(r.bytes)
    BY <1>2 DEF LsWrite, GrepEntry
  <1>4. CASE CatWrite(r.bytes)
    BY <1>1, <1>4, CatFileReturns
  <1>5. CASE GrepChunk(r.bytes, b)
    BY <1>1, <1>5, GrepFileReturns
  <1>. QED  BY <1>1, <1>3, <1>4, <1>5

LEMMA DirectoryReturnsStep ==
    ASSUME UInv, DirectoryReturns
    PROVE  UInv'
  <1>. DEFINE names == got[top][IF prog[top] = "grep" THEN loc[top].dir ELSE loc[top].fd]
              name == names[Len(names)]
              items == IF name = "" THEN <<>> ELSE <<name>>
  <1>1. /\ AdvanceCursor /\ prog' = prog /\ disturbed' = disturbed
        /\ CatWrite(items) \/ LsWrite(items) \/ GrepEntry(items) \/ GrepChunk(items, <<>>)
    BY Zenon DEF DirectoryReturns, Received
  <1>2. Len(items) \in {0, 1}
    OBVIOUS
  <1>3. CASE CatWrite(items)
    BY <1>1, <1>3, CatDirectoryReturns
  <1>4. CASE LsWrite(items)
    <2>1. prog[top] = "ls"
      BY <1>4 DEF LsWrite
    <2>2. name = got[top][loc[top].fd][Len(got[top][loc[top].fd])]
      BY <2>1
    <2>. HIDE DEF name
    <2>. QED  BY <1>1, <1>4, <2>2, LsReturns
  <1>5. CASE GrepEntry(items)
    BY <1>1, <1>5, GrepEntryReturns
  <1>6. CASE GrepChunk(items, <<>>)
    <2>. HIDE DEF items
    <2>. QED  BY <1>1, <1>2, <1>6, GrepOtherChunks
  <1>. QED  BY <1>1, <1>3, <1>4, <1>5, <1>6

LEMMA UStep ==
    ASSUME UInv, [UNext]_allVars
    PROVE  UInv'
  <1>1. CASE UNCHANGED allVars
    <2>1. UNCHANGED vars /\ UNCHANGED progVars
      BY <1>1 DEF allVars
    <2>2. Inv' /\ OthersKept /\ pc' = pc /\ num_files_read' = num_files_read
          /\ fds' = fds /\ got' = got /\ call' = call
      BY <2>1, SameStep
    <2>3. /\ prog' = prog /\ at' = at /\ loc' = loc /\ out' = out /\ disturbed' = disturbed
      BY <2>1 DEF progVars
    <2>4. Inv /\ UTypeOK /\ top' = top /\ \A p \in 0 .. top : UserInv(p) /\ p \in Proc
      BY <2>2, UFacts DEF OthersKept, UInv
    <2>5. UTypeOK'
      BY <2>3, <2>4 DEF UTypeOK, NoLocals, Places
    <2>6. \A p \in 0 .. top : UserInv(p)'
      <3>1. \A p \in 0 .. top : disturbed[p] \in BOOLEAN
        BY <2>4 DEF UTypeOK
      <3>. QED  BY <2>2, <2>3, <2>4, <3>1, Keeps
    <2>7. BelowDisturbed'
      BY <2>2, <2>3, <2>4 DEF BelowDisturbed, UInv
    <2>. QED  BY <2>2, <2>4, <2>5, <2>6, <2>7 DEF UInv
  <1>2. CASE CatOpen \/ CatRead \/ CatRtc
    BY <1>2, CatOpenStep, CatReadStep, CatRtcStep
  <1>3. CASE LsOpen \/ LsRead
    BY <1>3, LsOpenStep, LsReadStep
  <1>4. CASE GrepOpen \/ GrepWalk \/ GrepFile \/ GrepRead
    BY <1>4, GrepOpenStep, GrepCallsRead, GrepFileStep
  <1>5. CASE GrepRtc \/ GrepLine \/ GrepClose
    BY <1>5, GrepRtcStep, GrepLineStep, GrepCloseStep
  <1>6. CASE SyserrChoose \/ SyserrCall \/ SyserrDone
    BY <1>6, SyserrChooseStep, SyserrCallStep, SyserrDoneStep
  <1>7. CASE FileReturns \/ DirectoryReturns \/ MainReturns
    BY <1>7, FileReturnsStep, DirectoryReturnsStep, MainReturnsStep
  <1>8. CASE ShellStarts \/ AltFn
    <2>1. \E u \in {"shell", "cat", "ls", "grep", "syserr"} : \E arg : Start(u, arg)
      BY <1>8, Zenon DEF ShellStarts, AltFn
    <2>. QED  BY <2>1, StartStep
  <1>. QED  BY <1>1, <1>2, <1>3, <1>4, <1>5, <1>6, <1>7, <1>8 DEF UNext, Step

(* The invariant of the user programs holds in every run of them, for      *)
(* every image with its directory ".", any number of processes and         *)
(* descriptors, any sizes of the buffers and any contents of the files.    *)
THEOREM UtilitiesInvariant == USpec => []UInv
  <1>1. UInv /\ [UNext]_allVars => UInv'
    BY UStep
  <1>. QED  BY UInitInv, <1>1, PTL DEF USpec

(* grep's do_one_file never leaves its array, whatever bytes it reads and  *)
(* wherever the reads cut the lines, and never asks for an empty read.     *)
THEOREM GrepStaysInBuffer == USpec => []GrepInBuffer
  <1>1. UInv => GrepInBuffer
    <2>1. SUFFICES ASSUME UInv, NEW p \in 0 .. top, prog[p] = "grep"
                   PROVE  /\ at[p] = "read" => loc[p].last \in 0 .. GREPBUF - 1
                          /\ at[p] = "line" => loc[p].last <= GREPBUF /\ loc[p].line_start \in 0 .. loc[p].last
      BY DEF GrepInBuffer
    <2>2. GrepInv(p)
      BY <2>1 DEF UInv, UserInv
    <2>3. GREPBUF \in Nat
      BY ConstantFacts, Zenon
    <2>4. \A k \in 0 .. GREPBUF : k <= GREPBUF
      BY <2>3
    <2>. QED  BY <2>1, <2>2, <2>4, Zenon DEF GrepInv
  <1>. QED  BY UtilitiesInvariant, <1>1, PTL

(* cat has printed its whole file, and ls every entry unless another       *)
(* program has moved the cursor, when they end, though Alt+Fn suspends     *)
(* them in the middle of their reads for any programs in between.          *)
THEOREM ProgramsPrintAll == USpec => []PrintsAll
  <1>1. UInv => PrintsAll
    <2>1. SUFFICES ASSUME UInv, NEW p \in 0 .. top, at[p] = "end"
                   PROVE  /\ prog[p] = "cat" =>
                                \A d \in 1 .. Len(direntries) :
                                    Named(loc[p].arg, d) /\ direntries[d].filetype = REG_FILETYPE =>
                                        out[p] = Contents(direntries[d].inode)
                          /\ prog[p] = "ls" /\ ~disturbed[p] => out[p] = EntryNames
      BY DEF PrintsAll
    <2>2. CatInv(p) /\ LsInv(p)
      BY <2>1 DEF UInv, UserInv
    <2>. QED  BY <2>1, <2>2 DEF CatInv, LsInv
  <1>. QED  BY UtilitiesInvariant, <1>1, PTL

(* The tests of syserr pass, one by one or all of them, in a PCB that any  *)
(* programs may have used before and with any number of descriptors: after *)
(* err_open_lots has opened and closed all of them none is left over.      *)
THEOREM SyserrAlwaysPasses == USpec => []SyserrPasses
  <1>1. UInv => SyserrPasses
    BY DEF UInv, UserInv, SyserrInv, SyserrPasses
  <1>. QED  BY UtilitiesInvariant, <1>1, PTL
=============================================================================
