------------------------------- MODULE FileSys -------------------------------
(***************************************************************************)
(* The read-only file system (filesystem.c): directory entries, inodes and *)
(* data blocks.  A byte is its address in the area of the data blocks, so  *)
(* that a copy from the wrong place shows in what was copied.              *)
(***************************************************************************)
EXTENDS Integers, Sequences

CONSTANTS
    BLOCK_SIZE,
    MaxBlocks,          \* 1023, the block numbers of an inode
    Dentries,           \* the directory, as <<name, type, inode>>
    Inodes              \* <<length, blocks>> of each inode

RTC_FILE == 0
DIRECTORY == 1
REGULAR == 2

Name(i)  == Dentries[i][1]
Type(i)  == Dentries[i][2]
Inode(i) == Dentries[i][3]
Length(inode) == Inodes[inode][1]
Blocks(inode) == Inodes[inode][2]

\* The disk is whole: a file has an inode, of which 0 stands for none, and its blocks,
\* which are not all that an inode can list (read_data gives up after the last of them).
ASSUME FileSysAssumption ==
    /\ BLOCK_SIZE \in Nat \ {0} /\ MaxBlocks \in Nat
    /\ Dentries \in Seq(STRING \X {RTC_FILE, DIRECTORY, REGULAR} \X Nat)
    /\ \A i \in DOMAIN Dentries :
          Type(i) = REGULAR => Inode(i) \in 1 .. 63 /\ Inode(i) \in DOMAIN Inodes
    /\ \A n \in DOMAIN Inodes :
          /\ Inodes[n] \in Nat \X Seq(Nat)
          /\ Length(n) <= BLOCK_SIZE * Len(Blocks(n))
          /\ Length(n) < BLOCK_SIZE * MaxBlocks

\* 0 for none, else the first entry of that name
DentryByName(name) ==
    LET Named == {i \in DOMAIN Dentries : Name(i) = name}
    IN  IF Named = {} THEN 0 ELSE CHOOSE i \in Named : \A j \in Named : i <= j

\* n bytes from byte `off' of block b on, whatever block they are in
Copy(b, off, n) == [i \in 1 .. n |-> b * BLOCK_SIZE + off + i - 1]

\* (slip: the offset of the first block is kept)
LoopKeepsOffset(inode, c) ==
    IF c.remain < BLOCK_SIZE \/ c.block >= MaxBlocks THEN c
    ELSE [out    |-> c.out \o Copy(Blocks(inode)[c.block + 1], c.off, BLOCK_SIZE - c.off),
          remain |-> c.remain - (BLOCK_SIZE - c.off),
          block  |-> c.block + 1,
          off    |-> c.off]

\* one round of the loop of read_data: the rest of a block
Loop(inode, c) ==
    IF c.remain < BLOCK_SIZE \/ c.block >= MaxBlocks THEN c
    ELSE [out    |-> c.out \o Copy(Blocks(inode)[c.block + 1], c.off, BLOCK_SIZE - c.off),
          remain |-> c.remain - (BLOCK_SIZE - c.off),
          block  |-> c.block + 1,
          off    |-> 0]

\* the loop, which ends after as many rounds
Rounds(inode, c) ==
    LET N == (c.remain \div BLOCK_SIZE) + 1
        f[k \in 0 .. N] == IF k = 0 THEN c ELSE Loop(inode, f[k - 1])
    IN  f[N]

LeastOf(a, b) == IF a < b THEN a ELSE b

\* read_data: what it returns, and the bytes it copies
ReadData(inode, offset, nbytes) ==
    IF inode > 63 THEN [ret |-> -1, out |-> <<>>]
    ELSE IF Length(inode) < offset THEN [ret |-> 0, out |-> <<>>]
    ELSE LET n == LeastOf(offset + nbytes, Length(inode)) - offset
             c == Rounds(inode, [out |-> <<>>, remain |-> n, block |-> offset \div BLOCK_SIZE,
                                 off |-> offset % BLOCK_SIZE])
         IN  IF c.block >= MaxBlocks THEN [ret |-> 0, out |-> c.out]
             ELSE [ret |-> n,
                   out |-> IF c.remain = 0 THEN c.out
                           ELSE c.out \o Copy(Blocks(inode)[c.block + 1], c.off, c.remain)]

\* the file as its inode lists it
Contents(inode) ==
    [k \in 1 .. Length(inode) |->
        Blocks(inode)[((k - 1) \div BLOCK_SIZE) + 1] * BLOCK_SIZE + ((k - 1) % BLOCK_SIZE)]

\* A read of less than a block that ends past its first block runs on into the
\* block that lies behind on the disk, which need not be the file's next.
RunsOn(inode, offset, nbytes) ==
    LET k   == offset \div BLOCK_SIZE
        end == LeastOf(offset + nbytes, Length(inode))
    IN  /\ end - offset < BLOCK_SIZE
        /\ (k + 1) * BLOCK_SIZE < end
        /\ Blocks(inode)[k + 2] # Blocks(inode)[k + 1] + 1
=============================================================================
