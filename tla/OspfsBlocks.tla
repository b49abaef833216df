---------------------------- MODULE OspfsBlocks ----------------------------
(***************************************************************************)
(* The blocks of an OSPFS disk, File_System/ospfsmod.c: the free-block     *)
(* bitmap, the pointers that inodes and indirect blocks hold, and          *)
(* change_size, which adds or removes the blocks of a file one by one.     *)
(* change_size runs within an operation of module Ospfs; each turn of its  *)
(* loops is a step.  Block 0 is the boot sector and, as a pointer, "none". *)
(***************************************************************************)
EXTENDS Integers, FiniteSets

CONSTANTS
  NBLOCKS,             \* os_nblocks
  BORDER,              \* os_firstinob + os_ninodes / OSPFS_BLKINODES: the last
                       \* block that free_block takes for a system block
  NINODES,             \* os_ninodes
  NDIRECT, NINDIRECT,  \* OSPFS_NDIRECT, OSPFS_NINDIRECT
  BLKSIZE,             \* OSPFS_BLKSIZE, in the unit sizes are counted in
  WRAP                 \* sizes are computed modulo WRAP (2^32 in the code)

(* OSPFS_MAXFILEBLKS: the blocks that an inode's pointers can lead to.     *)
MAXFILEBLKS == NDIRECT + NINDIRECT + NINDIRECT * NINDIRECT

ASSUME BlocksAssumption ==
  /\ NBLOCKS \in Nat /\ BORDER \in Nat /\ 0 < BORDER /\ BORDER < NBLOCKS
  /\ NINODES \in Nat /\ NINODES > 2
  /\ NDIRECT \in Nat /\ NDIRECT > 0 /\ NINDIRECT \in Nat /\ NINDIRECT > 0
  /\ BLKSIZE \in Nat /\ BLKSIZE > 0
  /\ WRAP \in Nat /\ WRAP > (NBLOCKS + 2) * BLKSIZE /\ WRAP % BLKSIZE = 0

(* ospfsformat makes no disk of more than 8192 blocks, fewer than a file's *)
(* pointers can lead to.                                                   *)
ASSUME DiskAssumption == NBLOCKS - BORDER <= MAXFILEBLKS

VARIABLES
  inode,  \* the inode table
  free,   \* the blocks whose bit in the free-block bitmap is set
  word,   \* the contents of each block read as an array of block pointers
  tag,    \* whose data each block holds: the inode last written, 0 once erased
  call,   \* the operation in progress and its change_size; Idle if none
  far     \* history: has a file ever had a block past the indirect ones

disk == <<inode, free, word, tag>>

Blocks == 0..(NBLOCKS - 1)
Root   == 1                 \* OSPFS_ROOT_INO
Inodes == 1..(NINODES - 1)
Files  == 2..(NINODES - 1)
Idle   == [op |-> "idle"]
Blank  == [k \in 0..(NINDIRECT - 1) |-> 0]

-----------------------------------------------------------------------------
(* Sizes and indices.                                                      *)
size2nblocks(size) == ((size + BLKSIZE - 1) % WRAP) \div BLKSIZE

indir2_index(b) == IF b >= NDIRECT + NINDIRECT THEN 0 ELSE -1

indir_index(b) ==
  IF b < NDIRECT THEN -1
  ELSE IF b < NDIRECT + NINDIRECT THEN 0
  ELSE (b - NDIRECT - NINDIRECT) \div NINDIRECT

direct_index(b) == IF b < NDIRECT THEN b ELSE (b - NDIRECT) % NINDIRECT

(* The block holding a byte of a file, 0 past its end and for symlinks.    *)
inode_blockno(oi, offset) ==
  LET b == offset \div BLKSIZE
      o == b - (NDIRECT + NINDIRECT)
  IN IF offset >= oi.size \/ oi.ftype = "symlink" THEN 0
     ELSE IF b >= NDIRECT + NINDIRECT
       THEN word[word[oi.indirect2][o \div NINDIRECT]][o % NINDIRECT]
     ELSE IF b >= NDIRECT THEN word[oi.indirect][b - NDIRECT]
     ELSE oi.direct[b]

-----------------------------------------------------------------------------
(* The bitmap.  allocate_block takes the lowest free block; free_block     *)
(* ignores the blocks up to BORDER.                                        *)
allocate_block(S) == CHOOSE b \in S : \A c \in S : b <= c

free_block(S) == {b \in S : b > BORDER}

erased(new) == [b \in Blocks |-> IF b \in new THEN Blank ELSE word[b]]

(* Mutant: the old data stays in a new block. *)
still_tagged(new) == tag

untagged(new) == [b \in Blocks |-> IF b \in new THEN 0 ELSE tag[b]]

-----------------------------------------------------------------------------
(* add_block(oi), with oi = inode[i] and n its number of blocks, as it     *)
(* succeeds: a case for each place the new pointer can be in.  The second  *)
(* case also takes the first NINDIRECT blocks that belong under the doubly *)
(* indirect block, for which indir_index is 0 as well.                     *)
grown(size) == (size + BLKSIZE) % WRAP

add_direct(i, n) ==
  LET new == allocate_block(free)
  IN /\ indir_index(n) = -1
     /\ inode' = [inode EXCEPT ![i].direct[n] = new, ![i].size = grown(@)]
     /\ free' = free \ {new}
     /\ word' = erased({new}) /\ tag' = untagged({new})

add_indirect(i, n) ==
  LET oi  == inode[i]
      ind == IF oi.indirect = 0 THEN allocate_block(free) ELSE oi.indirect
      new == allocate_block(free \ {ind})
      taken == {new, ind} \ {oi.indirect}
  IN /\ indir_index(n) = 0
     /\ inode' = [inode EXCEPT ![i].indirect = ind, ![i].size = grown(@)]
     /\ free' = free \ taken
     /\ word' = [erased(taken) EXCEPT ![ind][direct_index(n)] = new]
     /\ tag' = untagged(taken)

add_indirect2(i, n) ==
  LET oi   == inode[i]
      ind2 == IF oi.indirect2 = 0 THEN allocate_block(free) ELSE oi.indirect2
      old  == IF oi.indirect2 = 0 THEN 0 ELSE word[ind2][indir_index(n)]
      ind  == IF old = 0 THEN allocate_block(free \ {ind2}) ELSE old
      new  == allocate_block(free \ {ind2, ind})
      taken == {new, ind, ind2} \ {old, oi.indirect2}
  IN /\ indir_index(n) > 0
     /\ inode' = [inode EXCEPT ![i].indirect2 = ind2, ![i].size = grown(@)]
     /\ free' = free \ taken
     /\ word' = [erased(taken) EXCEPT ![ind2][indir_index(n)] = ind,
                                      ![ind][direct_index(n)] = new]
     /\ tag' = untagged(taken)

(* How many blocks add_block has to allocate.                              *)
missing(oi, n) ==
  LET no_ind2 == oi.indirect2 = 0
      no_ind  == IF indir_index(n) = 0 THEN oi.indirect = 0
                 ELSE no_ind2 \/ word[oi.indirect2][indir_index(n)] = 0
  IN CASE indir_index(n) = -1 -> 1
       [] indir_index(n) = 0  -> IF no_ind THEN 2 ELSE 1
       [] OTHER -> 1 + (IF no_ind THEN 1 ELSE 0) + (IF no_ind2 THEN 1 ELSE 0)

add_block(i) ==
  LET n == size2nblocks(inode[i].size)
  IN /\ missing(inode[i], n) <= Cardinality(free)
     /\ add_direct(i, n) \/ add_indirect(i, n) \/ add_indirect2(i, n)

(* Mutant: what was allocated before the failure is not given back. *)
add_block_keeps(i) ==
  /\ missing(inode[i], size2nblocks(inode[i].size)) > Cardinality(free)
  /\ free' = {}
  /\ word' = erased(free) /\ tag' = untagged(free)
  /\ UNCHANGED inode

(* add_block fails with -ENOSPC: it has taken every block that was left,   *)
(* erased them, and gives them back; the pointers to them are reset.       *)
add_block_fails(i) ==
  /\ missing(inode[i], size2nblocks(inode[i].size)) > Cardinality(free)
  /\ free' = free_block(free)
  /\ word' = erased(free) /\ tag' = untagged(free)
  /\ UNCHANGED inode

-----------------------------------------------------------------------------
(* remove_block(oi), with last the number of its last block: the three     *)
(* places again.  Under the doubly indirect block the code frees and       *)
(* resets oi_indirect where an emptied indirect block is meant.            *)
(* Mutant: the size is not computed modulo WRAP. *)
shrunk_below(size) == size - BLKSIZE

shrunk(size) == (size - BLKSIZE) % WRAP

remove_direct(i, last) ==
  LET b == inode[i].direct[last]
  IN /\ last < NDIRECT /\ b # 0
     /\ inode' = [inode EXCEPT ![i].direct[last] = 0, ![i].size = shrunk(@)]
     /\ free' = free \cup free_block({b})
     /\ word' = word

(* Mutant: the emptied indirect block is freed, but the inode keeps it. *)
remove_indirect_only(i, last) ==
  LET ind == inode[i].indirect
      k == direct_index(last)
      b == word[ind][k]
  IN /\ last \in NDIRECT..(NDIRECT + NINDIRECT - 1) /\ ind # 0 /\ b # 0
     /\ inode' = [inode EXCEPT ![i].size = shrunk(@)]
     /\ free' = free \cup free_block(IF k = 0 THEN {b, ind} ELSE {b})
     /\ word' = [word EXCEPT ![ind][k] = 0]

remove_indirect(i, last) ==
  LET ind == inode[i].indirect
      k == direct_index(last)
      b == word[ind][k]
  IN /\ last \in NDIRECT..(NDIRECT + NINDIRECT - 1) /\ ind # 0 /\ b # 0
     /\ inode' = [inode EXCEPT ![i].size = shrunk(@),
                               ![i].indirect = IF k = 0 THEN 0 ELSE ind]
     /\ free' = free \cup free_block(IF k = 0 THEN {b, ind} ELSE {b})
     /\ word' = [word EXCEPT ![ind][k] = 0]

remove_indirect2(i, last) ==
  LET oi == inode[i]
      ind == word[oi.indirect2][indir_index(last)]
      k == direct_index(last)
      b == word[ind][k]
      emptied == k = 0 /\ indir_index(last) = 0
  IN /\ last >= NDIRECT + NINDIRECT /\ oi.indirect2 # 0 /\ ind # 0 /\ b # 0
     /\ inode' = [inode EXCEPT ![i].size = shrunk(@),
                               ![i].indirect = IF k = 0 THEN 0 ELSE @,
                               ![i].indirect2 = IF emptied THEN 0 ELSE @]
     /\ free' = free \cup free_block({b} \cup (IF k = 0 THEN {oi.indirect} ELSE {})
                                        \cup (IF emptied THEN {oi.indirect2} ELSE {}))
     /\ word' = [word EXCEPT ![ind][k] = 0]

(* The pointer to the last block, 0 if any on the way is missing: -EIO.    *)
last_pointer(oi, last) ==
  IF last < NDIRECT THEN oi.direct[last]
  ELSE IF last < NDIRECT + NINDIRECT
    THEN IF oi.indirect = 0 THEN 0 ELSE word[oi.indirect][direct_index(last)]
  ELSE LET ind == IF oi.indirect2 = 0 THEN 0 ELSE word[oi.indirect2][indir_index(last)]
       IN IF ind = 0 THEN 0 ELSE word[ind][direct_index(last)]

remove_block(i) ==
  LET last == size2nblocks(inode[i].size) - 1
  IN /\ last_pointer(inode[i], last) # 0
     /\ remove_direct(i, last) \/ remove_indirect(i, last) \/ remove_indirect2(i, last)
     /\ tag' = tag

-----------------------------------------------------------------------------
(* change_size(oi, new_size), called by operation op, which keeps arg for  *)
(* when it is done.  Three loops: "grow", within it "undo", and "shrink".  *)
(* After an undo the code goes on with "grow".                             *)
change_size(i, new_size, op, arg) ==
  [oi |-> i, old_size |-> inode[i].size, new_size |-> new_size, loop |-> "grow",
   op |-> op, arg |-> arg]

Blocks_of(i) == size2nblocks(inode[i].size)

(* Mutant: one block too many is added. *)
GrowToo ==
  /\ call # Idle /\ call.loop = "grow"
  /\ \/ /\ Blocks_of(call.oi) <= size2nblocks(call.new_size)
        /\ \/ add_block(call.oi) /\ UNCHANGED <<call, far>>
           \/ /\ add_block_fails(call.oi)
              /\ call' = [call EXCEPT !.loop = "undo"] /\ UNCHANGED far
     \/ /\ Blocks_of(call.oi) > size2nblocks(call.new_size)
        /\ call' = [call EXCEPT !.loop = "shrink"] /\ UNCHANGED <<disk, far>>

Grow ==
  /\ call # Idle /\ call.loop = "grow"
  /\ \/ /\ Blocks_of(call.oi) < size2nblocks(call.new_size)
        /\ \/ /\ add_block(call.oi) /\ UNCHANGED call
              /\ far' = (far \/ indir2_index(Blocks_of(call.oi)) = 0)
           \/ /\ add_block_fails(call.oi)
              /\ call' = [call EXCEPT !.loop = "undo"] /\ UNCHANGED far
     \/ /\ Blocks_of(call.oi) >= size2nblocks(call.new_size)
        /\ call' = [call EXCEPT !.loop = "shrink"] /\ UNCHANGED <<disk, far>>

Undo ==
  /\ call # Idle /\ call.loop = "undo"
  /\ \/ /\ Blocks_of(call.oi) > size2nblocks(call.old_size)
        /\ remove_block(call.oi) /\ UNCHANGED <<call, far>>
     \/ /\ Blocks_of(call.oi) <= size2nblocks(call.old_size)
        /\ call' = [call EXCEPT !.loop = "grow"] /\ UNCHANGED <<disk, far>>

Shrink ==
  /\ call # Idle /\ call.loop = "shrink"
  /\ Blocks_of(call.oi) > size2nblocks(call.new_size)
  /\ remove_block(call.oi) /\ UNCHANGED <<call, far>>

(* remove_block fails and the operation with it.                           *)
Broken ==
  /\ call # Idle
  /\ \/ call.loop = "shrink" /\ Blocks_of(call.oi) > size2nblocks(call.new_size)
     \/ call.loop = "undo" /\ Blocks_of(call.oi) > size2nblocks(call.old_size)
  /\ last_pointer(inode[call.oi], Blocks_of(call.oi) - 1) = 0
  /\ call' = Idle /\ UNCHANGED <<disk, far>>
=============================================================================
