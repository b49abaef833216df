------------------------------- MODULE Ospfs -------------------------------
(***************************************************************************)
(* The operations of OSPFS, File_System/ospfsmod.c, as Linux calls them on *)
(* a disk with one directory, the root: lookup, readdir, open and close,   *)
(* read, write, truncate, link, unlink, create, symlink and the ioctl that *)
(* simulates a crash.  The kernel is not preemptible and the operations do *)
(* not sleep, so one runs at a time; what surrounds change_size            *)
(* (OspfsBlocks) is one step.                                              *)
(***************************************************************************)
EXTENDS OspfsBlocks, Sequences

CONSTANTS
  Names,       \* file names, as sequences of one or two characters
  FirstName,   \* the name of the file on the freshly formatted disk
  Sizes,       \* the sizes and file positions that callers ask for
  Counts,      \* the arguments of ioctl IOCTL_NWRITES
  DIRENTRY_SIZE, \* OSPFS_DIRENTRY_SIZE, in the unit sizes are counted in
  StaleSymlink \* may a symlink take the inode of an unlinked file still open?

ASSUME NamesAssumption ==
  FirstName \in Names /\ Names \subseteq Seq(STRING) /\ \A n \in Names : Len(n) \in 1..2
(* Linux refuses sizes and positions that do not fit in a signed number.   *)
ASSUME SizesAssumption == Sizes \subseteq 0..(WRAP - BLKSIZE)
ASSUME EntryAssumption == DIRENTRY_SIZE \in 1..BLKSIZE /\ BLKSIZE % DIRENTRY_SIZE = 0
ASSUME CountsAssumption == Counts \subseteq Int
(* The freshly formatted disk has a block for its one file.                *)
ASSUME FirstFileAssumption == BORDER + 1 < NBLOCKS

VARIABLES
  dirents,          \* the entries of the root directory, in order
  opened,           \* the inodes that processes have open as regular files
  nwrites_to_crash,
  lost              \* history: blocks of an inode that was made anew

rest == <<dirents, opened, nwrites_to_crash, lost>>
vars == <<disk, call, far, rest>>

BlankEntry == [ino |-> 0, name |-> <<>>]

NewFile(ftype, size) ==
  [size |-> size, ftype |-> ftype, nlink |-> 1,
   direct |-> [k \in 0..(NDIRECT - 1) |-> 0], indirect |-> 0, indirect2 |-> 0]

(* The disk that ospfsformat leaves: the root directory with one block,    *)
(* which is the first data block and, since the number of inodes is a      *)
(* multiple of those in a block, BORDER; and one file of one block.        *)
Init ==
  /\ inode = [i \in Inodes |->
       CASE i = Root -> [NewFile("dir", BLKSIZE) EXCEPT !.direct[0] = BORDER]
         [] i = 2    -> [NewFile("reg", 1) EXCEPT !.direct[0] = BORDER + 1]
         [] OTHER    -> [NewFile("reg", 0) EXCEPT !.nlink = 0]]
  /\ free = {b \in Blocks : b > BORDER + 1}
  /\ word = [b \in Blocks |-> Blank]
  /\ tag = [b \in Blocks |-> IF b = BORDER + 1 THEN 2 ELSE 0]
  /\ call = Idle /\ far = FALSE
  /\ dirents = [k \in 1..(BLKSIZE \div DIRENTRY_SIZE) |-> IF k = 1 THEN [ino |-> 2, name |-> FirstName] ELSE BlankEntry]
  /\ opened = {} /\ nwrites_to_crash = -1
  /\ lost = {}

-----------------------------------------------------------------------------
(* find_direntry, and the loops of ospfs_dir_lookup and ospfs_unlink: the  *)
(* first entry of that name, 0 if there is none.                           *)
First(P) == IF P = {} THEN 0 ELSE CHOOSE k \in P : \A l \in P : k <= l
find_direntry(name) ==
  First({k \in 1..Len(dirents) : dirents[k].ino > 0 /\ dirents[k].name = name})

(* The loop of create_blank_direntry.                                      *)
blank_direntry == First({k \in 1..Len(dirents) : dirents[k].ino = 0})

dir_lookup(name) ==
  IF find_direntry(name) = 0 THEN 0 ELSE dirents[find_direntry(name)].ino

(* Mutant: blank entries are listed too. *)
readdir_blanks(f_pos, room) ==
  LET last == Len(dirents) + 1
      from[p \in f_pos..(last + 1)] == [n \in 0..room |->
        IF p > last THEN [listed |-> <<>>, f_pos |-> p, r |-> 1]
        ELSE IF n = 0 THEN [listed |-> <<>>, f_pos |-> IF p >= 2 THEN p + 1 ELSE p, r |-> 0]
        ELSE [from[p + 1][n - 1] EXCEPT !.listed = <<p>> \o @]]
  IN from[f_pos][room]

(* ospfs_dir_readdir from position f_pos on, for a caller whose buffer     *)
(* takes room entries: the positions it lists, f_pos afterwards, and the   *)
(* result, 1 at the end of the directory.  0 and 1 are "." and "..", which *)
(* wait for the next call when there is no room; an entry does not.        *)
ospfs_dir_readdir(f_pos, room) ==
  LET last == Len(dirents) + 1
      from[p \in f_pos..(last + 1)] == [n \in 0..room |->
        IF p > last THEN [listed |-> <<>>, f_pos |-> p, r |-> 1]
        ELSE IF p >= 2 /\ dirents[p - 1].ino = 0 THEN from[p + 1][n]
        ELSE IF n = 0 THEN [listed |-> <<>>, f_pos |-> IF p >= 2 THEN p + 1 ELSE p, r |-> 0]
        ELSE [from[p + 1][n - 1] EXCEPT !.listed = <<p>> \o @]]
  IN from[f_pos][room]

(* open(2) and the last close(2) of a regular file; the module has no part *)
(* in them, but a file that is open can be used after it is unlinked.      *)
Open ==
  \E name \in Names :
    LET i == dir_lookup(name)
    IN /\ call = Idle /\ i # 0 /\ inode[i].ftype = "reg"
       /\ opened' = opened \cup {i}
       /\ UNCHANGED <<disk, call, far, dirents, nwrites_to_crash, lost>>

Close ==
  \E i \in opened :
    /\ call = Idle
    /\ opened' = opened \ {i}
    /\ UNCHANGED <<disk, call, far, dirents, nwrites_to_crash, lost>>

ospfs_ioctl ==
  /\ call = Idle /\ opened # {}
  /\ nwrites_to_crash' \in Counts
  /\ UNCHANGED <<disk, call, far, dirents, opened, lost>>

(* How write, link, unlink, create and symlink begin.  With the counter at *)
(* 0 they return success and change nothing at all.                        *)
BeforeCrash ==
  /\ nwrites_to_crash # 0
  /\ nwrites_to_crash' = IF nwrites_to_crash > 0 THEN nwrites_to_crash - 1 ELSE nwrites_to_crash

-----------------------------------------------------------------------------
(* ospfs_read at position pos; a failing copy_to_user aside.  A position   *)
(* past the end makes count wrap around, and the first block lookup fails. *)
EIO == -5

(* Mutant: the request is not cut at the end of the file. *)
read_uncut(oi, pos, count) ==
  IF \E off \in pos..(pos + count - 1) : inode_blockno(oi, off) = 0 THEN EIO ELSE count

ospfs_read(oi, pos, count) ==
  LET n == IF pos + count > oi.size THEN (oi.size - pos) % WRAP ELSE count
  IN IF \E off \in pos..(pos + n - 1) : inode_blockno(oi, off) = 0 THEN EIO ELSE n

(* The copying loop of ospfs_write stops at the first block not found.     *)
copied(i, oi, pos, end) ==
  LET reached == {off \in pos..(end - 1) : \A o \in pos..off : inode_blockno(oi, o) # 0}
      written == {inode_blockno(oi, off) : off \in reached}
  IN [b \in Blocks |-> IF b \in written THEN i ELSE tag[b]]

(* ospfs_write of the bytes from pos to end.  f_pos can be anything, be it *)
(* by lseek or O_APPEND.                                                   *)
ospfs_write ==
  \E i \in opened, pos \in Sizes, end \in Sizes :
    /\ call = Idle /\ pos <= end
    /\ BeforeCrash
    /\ IF end > inode[i].size
         THEN /\ call' = change_size(i, end, "write", pos)
              /\ UNCHANGED disk
         ELSE /\ tag' = copied(i, inode[i], pos, end)
              /\ UNCHANGED <<inode, free, word, call>>
    /\ UNCHANGED <<far, dirents, opened, lost>>

(* ospfs_notify_change with ATTR_SIZE, for a path or an open file.  It is  *)
(* not counted as a write.  Directories are refused.                       *)
ospfs_notify_change ==
  \E i \in Files, size \in Sizes :
    /\ call = Idle
    /\ i \in opened \/ (inode[i].nlink > 0 /\ inode[i].ftype = "reg")
    /\ call' = change_size(i, size, "truncate", 0)
    /\ UNCHANGED <<disk, far, dirents, opened, nwrites_to_crash, lost>>

-----------------------------------------------------------------------------
(* memcpy of a name without its terminating 0: of a longer name that the   *)
(* entry had before, the tail remains.                                     *)
memcpy_name(old, name) == name \o SubSeq(old, Len(name) + 1, Len(old))

(* The pointers of an inode: who holds them, in what place, to what block. *)
(* And the blocks they lead to.                                            *)
Pointers(i, oi) ==
  LET ind2 == IF oi.indirect2 = 0 THEN {} ELSE {oi.indirect2}
      ind  == {oi.indirect} \cup UNION {{word[b][k] : k \in DOMAIN Blank} : b \in ind2}
      refs == {<<i, "direct", k, oi.direct[k]>> : k \in DOMAIN oi.direct}
              \cup {<<i, "indirect", 0, oi.indirect>>, <<i, "indirect2", 0, oi.indirect2>>}
              \cup {<<b, "word", k, word[b][k]>> : b \in (ind \ {0}) \cup ind2, k \in DOMAIN Blank}
  IN IF oi.ftype = "symlink" THEN {} ELSE {r \in refs : r[4] # 0}

Owned(i, oi) == {r[4] : r \in Pointers(i, oi)}

empty_inode(tab) == First({i \in Files : tab[i].nlink = 0})

(* A symlink's text lies over the block pointers of its inode; read as     *)
(* pointers it could name any block.                                       *)
SymlinkInode ==
  [NewFile("symlink", 1) EXCEPT !.direct = [k \in 0..(NDIRECT - 1) |-> NBLOCKS - 1]]

(* Mutant: create does not reset the pointers of the inode it takes. *)
keeps_pointers(oi, op) ==
  IF op = "symlink" THEN SymlinkInode
  ELSE [oi EXCEPT !.size = 0, !.ftype = "reg", !.nlink = 1]

made(oi, op) == IF op = "symlink" THEN SymlinkInode ELSE NewFile("reg", 0)

(* How link, create and symlink end once there is a blank entry at k: ds   *)
(* and tab are the directory and the inode table at that point.  arg is    *)
(* the name and, for a link, its inode.  Without a free inode create and   *)
(* symlink fail, and the directory keeps the blank entry.                  *)
(* Mutant: the link is not counted. *)
enter_uncounted(op, arg, k, ds, tab) ==
  LET i == IF op = "link" THEN arg.ino ELSE empty_inode(tab)
  IN IF i = 0 THEN dirents' = ds /\ inode' = tab /\ UNCHANGED lost
     ELSE /\ dirents' = [ds EXCEPT ![k] = [ino |-> i, name |-> arg.name]]
          /\ inode' = IF op = "link" THEN tab ELSE [tab EXCEPT ![i] = made(@, op)]
          /\ UNCHANGED lost

enter(op, arg, k, ds, tab) ==
  LET i == IF op = "link" THEN arg.ino ELSE empty_inode(tab)
  IN IF i = 0 THEN dirents' = ds /\ inode' = tab /\ UNCHANGED lost
     ELSE IF op = "link"
     THEN /\ dirents' = [ds EXCEPT ![k] = [ino |-> i, name |-> memcpy_name(@.name, arg.name)]]
          /\ inode' = [tab EXCEPT ![i].nlink = @ + 1]
          /\ UNCHANGED lost
     ELSE /\ dirents' = [ds EXCEPT ![k] = [ino |-> i, name |-> arg.name]]
          /\ inode' = [tab EXCEPT ![i] = made(@, op)]
          /\ lost' = lost \cup Owned(i, tab[i])

(* How they begin.  Linux has looked the name up and not found it, so the  *)
(* -EEXIST test does not fire.                                             *)
MakeEntry(op, arg) ==
  /\ call = Idle
  /\ dir_lookup(arg.name) = 0
  /\ BeforeCrash
  /\ IF blank_direntry # 0
       THEN /\ enter(op, arg, blank_direntry, dirents, inode)
            /\ UNCHANGED call
       ELSE /\ call' = change_size(Root, inode[Root].size + DIRENTRY_SIZE, op, arg)
            /\ UNCHANGED <<inode, dirents, lost>>
  /\ UNCHANGED <<free, word, tag, far, opened>>

ospfs_create == \E name \in Names : MakeEntry("create", [name |-> name])

ospfs_symlink ==
  /\ StaleSymlink \/ empty_inode(inode) \notin opened
  /\ \E name \in Names : MakeEntry("symlink", [name |-> name])

ospfs_link ==
  \E name, src \in Names :
    /\ dir_lookup(src) # 0
    /\ MakeEntry("link", [name |-> name, ino |-> dir_lookup(src)])

ospfs_unlink ==
  \E name \in Names :
    LET i == dir_lookup(name)
    IN /\ call = Idle /\ i # 0
       /\ BeforeCrash
       /\ dirents' = [dirents EXCEPT ![find_direntry(name)].ino = 0]
       /\ inode' = [inode EXCEPT ![i].nlink = @ - 1]
       /\ call' = IF inode[i].ftype # "symlink" /\ inode[i].nlink = 1
                  THEN change_size(i, 0, "unlink", 0) ELSE Idle
       /\ UNCHANGED <<free, word, tag, far, opened, lost>>

(* change_size has come to its end: it sets the size and returns, and the  *)
(* operation that called it does what it has left.                         *)
Return ==
  LET tab == [inode EXCEPT ![call.oi].size = call.new_size]
  IN /\ call # Idle /\ call.loop = "shrink"
     /\ Blocks_of(call.oi) <= size2nblocks(call.new_size)
     /\ call' = Idle
     /\ IF call.op \in {"link", "create", "symlink"}
          THEN enter(call.op, call.arg, Len(dirents) + 1, Append(dirents, BlankEntry), tab)
          ELSE inode' = tab /\ UNCHANGED <<dirents, lost>>
     /\ tag' = IF call.op = "write"
               THEN copied(call.oi, tab[call.oi], call.arg, call.new_size) ELSE tag
     /\ UNCHANGED <<free, word, far, opened, nwrites_to_crash>>

ChangeSize == (Grow \/ Undo \/ Shrink \/ Broken) /\ UNCHANGED rest

Next == \/ Open \/ Close \/ ospfs_ioctl
        \/ ospfs_write \/ ospfs_notify_change
        \/ ospfs_create \/ ospfs_symlink \/ ospfs_link \/ ospfs_unlink
        \/ ChangeSize \/ Return

(* An operation that has begun goes on; nobody has to begin one.           *)
Spec == Init /\ [][Next]_vars /\ WF_vars(ChangeSize \/ Return)

-----------------------------------------------------------------------------
(* Every variable stays in its type; sizes are unsigned numbers.           *)
TypeOK ==
  /\ inode \in [Inodes -> [size : 0..(WRAP - 1), ftype : {"reg", "dir", "symlink"}, nlink : Nat,
                           direct : [0..(NDIRECT - 1) -> Blocks], indirect : Blocks, indirect2 : Blocks]]
  /\ free \in SUBSET Blocks /\ word \in [Blocks -> [DOMAIN Blank -> Blocks]]
  /\ tag \in [Blocks -> Inodes \cup {0}]
  /\ call = Idle \/ (call.oi \in Inodes /\ call.loop \in {"grow", "undo", "shrink"}
                     /\ call.old_size \in 0..(WRAP - 1) /\ call.new_size \in 0..(WRAP - 1))
  /\ \A k \in DOMAIN dirents : dirents[k].ino \in Files \cup {0}
  /\ opened \subseteq Files /\ nwrites_to_crash \in Int /\ far \in BOOLEAN
  /\ lost \subseteq Blocks

AllPointers == UNION {Pointers(i, inode[i]) : i \in Inodes}

(* No block is pointed to from two places, none that is pointed to is free *)
(* and none is a system block: whatever files grow to, add_block and       *)
(* remove_block keep the bitmap and the pointers from contradicting each   *)
(* other.                                                                  *)
NeverShared ==
  /\ \A r, s \in AllPointers : r[4] = s[4] => r = s
  /\ \A r \in AllPointers : r[4] \notin free /\ r[4] >= BORDER

(* While no file has gone past its indirect block, every data block is     *)
(* free or belongs to a file, unless create took the inode of a file that  *)
(* was written to after its last unlink: rollbacks and truncations lose    *)
(* nothing.                                                                *)
AllAccounted ==
  ~far => BORDER..(NBLOCKS - 1) = free \cup lost \cup {r[4] : r \in AllPointers}

(* While no file has gone past its indirect block, an inode's pointers are *)
(* those to its size2nblocks blocks, and no others ("Don't leave pointers  *)
(* to deallocated blocks laying around!"); also in the middle of           *)
(* change_size.                                                            *)
FileShape ==
  ~far => \A i \in Inodes :
    LET oi == inode[i]
        n  == size2nblocks(oi.size)
    IN oi.ftype = "symlink" \/
         /\ \A k \in DOMAIN oi.direct : oi.direct[k] # 0 <=> k < n
         /\ oi.indirect # 0 <=> n > NDIRECT
         /\ oi.indirect2 = 0
         /\ oi.indirect # 0 => \A k \in DOMAIN Blank : word[oi.indirect][k] # 0 <=> NDIRECT + k < n

(* ospfs_read returns every byte up to the end of the file, and past the   *)
(* end fails with -EIO where a file system should return 0.                *)
ReadsExactly ==
  (call = Idle /\ ~far) => \A i \in Inodes, pos, end \in Sizes :
    (inode[i].ftype # "symlink" /\ pos < end) =>
      ospfs_read(inode[i], pos, end - pos) =
        IF pos > inode[i].size THEN EIO
        ELSE (IF end > inode[i].size THEN inode[i].size ELSE end) - pos

(* A caller reads the directory, room entries a call, to its end.  The     *)
(* positions in use are those of ".", ".." and the entries not blank.      *)
Reading(room) ==
  LET calls[k \in 0..(Len(dirents) + 2)] ==
        IF k = 0 THEN [pos |-> 0, listed |-> <<>>, r |-> 0]
        ELSE LET c == ospfs_dir_readdir(calls[k - 1].pos, room)
             IN IF calls[k - 1].r = 1 THEN calls[k - 1]
                ELSE [pos |-> c.f_pos, r |-> c.r, listed |-> calls[k - 1].listed \o c.listed]
  IN calls[Len(dirents) + 2]

InUse == {0, 1} \cup {k + 1 : k \in {j \in DOMAIN dirents : dirents[j].ino # 0}}

Listed(all) == {all.listed[k] : k \in DOMAIN all.listed}

(* However small the buffer, the caller gets to the end of the directory,  *)
(* no entry is listed twice or out of order and no blank one is; and a     *)
(* caller whose buffer takes the whole directory is given all of it.       *)
ListedInOrder ==
  call = Idle => \A room \in 1..(Len(dirents) + 2) :
    LET all == Reading(room)
    IN /\ all.r = 1
       /\ \A j, k \in DOMAIN all.listed : j < k => all.listed[j] < all.listed[k]
       /\ Listed(all) \subseteq InUse
       /\ room >= Cardinality(InUse) => Listed(all) = InUse

(* What the comment in ospfs_dir_readdir asks ("If the current entry is    *)
(* successfully read (the call to filldir returns >= 0), or the current    *)
(* entry is skipped, your function should advance f_pos"): no entry is     *)
(* passed over without being listed.  The code advances f_pos whatever     *)
(* filldir returns, and the entry that did not fit is lost.                *)
ListedOnce ==
  call = Idle => \A room \in 1..(Len(dirents) + 2) : Listed(Reading(room)) = InUse

(* What a file's blocks hold was written to that file: blocks are erased   *)
(* when they change hands.                                                 *)
NoForeignData ==
  \A i \in Files : \A b \in Owned(i, inode[i]) : tag[b] \in {0, i}

(* The link count of a file is the number of its directory entries, so an  *)
(* inode is taken for free only when no entry names it.                    *)
LinksCounted ==
  \A i \in Files : inode[i].nlink = Cardinality({k \in DOMAIN dirents : dirents[k].ino = i})

(* Does the file that change_size is to make fit on the disk?              *)
Fits ==
  LET n == size2nblocks(call.new_size)
  IN n + (IF n > NDIRECT THEN 1 ELSE 0)
       <= Cardinality(free) + Cardinality(Owned(call.oi, inode[call.oi]))

(* An operation returns if the file it makes fits.                         *)
ReturnsIfFits == (call # Idle) ~> (call = Idle \/ far \/ ~Fits)

(* What the comment on change_size promises: without room it returns       *)
(* -ENOSPC.  The code tries again for ever.                                *)
AlwaysReturns == (call # Idle) ~> (call = Idle)

(* What the comment on add_block promises: the pointer to a new block is   *)
(* stored where it belongs, so that every byte of a file has its block.    *)
EveryByteHasBlock ==
  call = Idle => \A i \in Inodes : inode[i].ftype # "symlink" =>
     \A off \in 0..(inode[i].size - 1) : inode_blockno(inode[i], off) # 0

(* Three promises of the comments that the code does not keep.  What       *)
(* violates this property breaks all of them: an operation never returns   *)
(* for want of room, a byte has no block, an entry is not listed.          *)
SomePromiseKept == AlwaysReturns \/ []EveryByteHasBlock \/ []ListedOnce
=============================================================================
