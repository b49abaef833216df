---------------------------- MODULE OspfsProofs ----------------------------
(***************************************************************************)
(* Theorems about OSPFS, for disks, inode tables, block sizes and          *)
(* directories of every size.  Three inductive invariants, each resting on *)
(* the one before: LinkInv, the link counts; FsInv, which block belongs to *)
(* whom and what it holds, with files of any size; and ShapeInv, while no  *)
(* file is past its indirect block.  Last, what reading a directory lists. *)
(***************************************************************************)
EXTENDS Ospfs, NatMin, SequenceTheorems, TLAPS

-----------------------------------------------------------------------------
(* Link counts.                                                            *)
Entry == [ino : Files \cup {0}, name : Seq(STRING)]

(* What an operation keeps for its end: link, create and symlink a name,   *)
(* and link the inode.                                                     *)
Making == {"link", "create", "symlink"}

ArgOK(op, arg) ==
  /\ op \in Making => arg.name \in Seq(STRING)
  /\ op = "link" => arg.ino \in Files

(* The entries of directory ds that name inode i. *)
Naming(ds, i) == {k \in DOMAIN ds : ds[k].ino = i}

LinkInv ==
  /\ DOMAIN inode = Inodes
  /\ \A i \in Inodes : "nlink" \in DOMAIN inode[i]
  /\ dirents \in Seq(Entry)
  /\ call # Idle => ArgOK(call.op, call.arg)
  /\ \A i \in Files : inode[i].nlink = Cardinality(Naming(dirents, i))

(* First is the least element of a set of naturals, or 0. *)
LEMMA FirstIs ==
  ASSUME NEW S \in SUBSET Nat
  PROVE  IF S = {} THEN First(S) = 0 ELSE First(S) \in S /\ \A l \in S : First(S) <= l
BY MinNat DEF First, Min

LEMMA FilesInodes == Files \subseteq Inodes /\ Files \subseteq Nat /\ 0 \notin Files /\ Inodes \subseteq Nat
                     /\ Root \in Inodes /\ Root \notin Files /\ Inodes = Files \cup {Root}
BY BlocksAssumption DEF Files, Inodes, Root

LEMMA EntryIs ==
  ASSUME NEW d \in Seq(Entry), NEW k \in DOMAIN d
  PROVE  d[k].ino \in Files \cup {0} /\ d[k].name \in Seq(STRING) /\ k \in Nat /\ d[k] \in Entry
         /\ DOMAIN d = 1..Len(d) /\ Len(d) \in Nat
<1>1. DOMAIN d = 1..Len(d) /\ Len(d) \in Nat /\ d[k] \in Entry
  BY LenProperties, ElementOfSeq
<1> QED
  BY <1>1 DEF Entry

LEMMA LookupIs ==
  ASSUME dirents \in Seq(Entry), NEW name, dir_lookup(name) # 0
  PROVE  /\ find_direntry(name) \in DOMAIN dirents
         /\ dir_lookup(name) \in Files
         /\ dirents[find_direntry(name)].ino = dir_lookup(name)
<1> DEFINE S == {k \in 1..Len(dirents) : dirents[k].ino > 0 /\ dirents[k].name = name}
<1>1. DOMAIN dirents = 1..Len(dirents) /\ Len(dirents) \in Nat
  BY LenProperties
<1>2. S \in SUBSET Nat
  BY <1>1
<1>3. find_direntry(name) # 0 /\ find_direntry(name) = First(S)
  BY DEF dir_lookup, find_direntry
<1>4. find_direntry(name) \in S
  BY <1>2, <1>3, FirstIs
<1>5. find_direntry(name) \in DOMAIN dirents
  BY <1>1, <1>4
<1>6. dir_lookup(name) = dirents[find_direntry(name)].ino
  BY <1>3 DEF dir_lookup
<1> QED
  BY <1>5, <1>6, EntryIs

LEMMA BlankIs ==
  ASSUME dirents \in Seq(Entry), blank_direntry # 0
  PROVE  blank_direntry \in DOMAIN dirents /\ dirents[blank_direntry].ino = 0
<1> DEFINE S == {k \in 1..Len(dirents) : dirents[k].ino = 0}
<1>1. DOMAIN dirents = 1..Len(dirents) /\ Len(dirents) \in Nat
  BY LenProperties
<1>2. S \in SUBSET Nat
  BY <1>1
<1>3. blank_direntry = First(S)
  BY DEF blank_direntry
<1>4. blank_direntry \in S
  BY <1>2, <1>3, FirstIs
<1> QED
  BY <1>1, <1>4

LEMMA EmptyIs ==
  ASSUME NEW tab, empty_inode(tab) # 0
  PROVE  empty_inode(tab) \in Files /\ tab[empty_inode(tab)].nlink = 0
<1> DEFINE S == {i \in Files : tab[i].nlink = 0}
<1>2. S \in SUBSET Nat
  BY FilesInodes
<1>3. empty_inode(tab) = First(S)
  BY DEF empty_inode
<1>4. empty_inode(tab) \in S
  BY <1>2, <1>3, FirstIs
<1> QED
  BY <1>4

(* Steps that leave the link counts and the directory alone. *)
LEMMA LinksKept ==
  ASSUME LinkInv, dirents' = dirents, DOMAIN inode' = DOMAIN inode,
         \A i \in Inodes : "nlink" \in DOMAIN inode'[i] /\ inode'[i].nlink = inode[i].nlink,
         (call # Idle => ArgOK(call.op, call.arg))'
  PROVE  LinkInv'
<1>1. \A i \in Files : Naming(dirents, i)' = Naming(dirents, i)
  BY DEF Naming
<1> QED
  BY <1>1, FilesInodes DEF LinkInv

LEMMA LinkedFinite ==
  ASSUME NEW ds \in Seq(Entry), NEW i
  PROVE  IsFiniteSet(Naming(ds, i))
<1>1. DOMAIN ds = 1..Len(ds) /\ Len(ds) \in Nat
  BY LenProperties
<1>2. IsFiniteSet(1..Len(ds))
  BY <1>1, FS_Interval
<1> QED
  BY <1>1, <1>2, FS_Subset DEF Naming

(* An entry of the directory is given to an inode. *)
LEMMA EntryGiven ==
  ASSUME NEW ds \in Seq(Entry), NEW k \in DOMAIN ds, ds[k].ino = 0,
         NEW i \in Files, NEW j \in Files,
         NEW ds2, DOMAIN ds2 = DOMAIN ds, ds2[k].ino = i, \A l \in DOMAIN ds : l # k => ds2[l] = ds[l]
  PROVE  Cardinality(Naming(ds2, j)) =
           Cardinality(Naming(ds, j)) + (IF j = i THEN 1 ELSE 0)
<1> DEFINE S == Naming(ds, j)
           T == Naming(ds2, j)
<1>2. k \notin S /\ j # 0
  BY FilesInodes DEF Naming
<1>3. T = IF j = i THEN S \cup {k} ELSE S
  BY <1>2 DEF Naming
<1>4. IsFiniteSet(S)
  BY LinkedFinite
<1>5. Cardinality(S) \in Nat /\ Cardinality(S \cup {k}) = Cardinality(S) + 1
  <2> HIDE DEF S
  <2> QED BY <1>2, <1>4, FS_AddElement, FS_CardinalityType
<1> HIDE DEF S, T
<1>6. Cardinality(T) = Cardinality(S) + (IF j = i THEN 1 ELSE 0)
  BY <1>3, <1>5
<1> QED
  BY <1>6 DEF S, T

(* An entry of the directory is blanked. *)
LEMMA EntryBlanked ==
  ASSUME NEW ds \in Seq(Entry), NEW k \in DOMAIN ds, NEW i \in Files, ds[k].ino = i,
         NEW j \in Files, NEW ds2, DOMAIN ds2 = DOMAIN ds, ds2[k].ino = 0,
         \A l \in DOMAIN ds : l # k => ds2[l] = ds[l]
  PROVE  Cardinality(Naming(ds2, j)) =
           Cardinality(Naming(ds, j)) - (IF j = i THEN 1 ELSE 0)
<1> DEFINE S == Naming(ds, j)
           T == Naming(ds2, j)
<1>2. k \in S <=> j = i
  BY DEF Naming
<1>3. T = IF j = i THEN S \ {k} ELSE S
  BY <1>2, FilesInodes DEF Naming
<1>4. IsFiniteSet(S)
  BY LinkedFinite
<1>5. Cardinality(S) \in Nat /\ (k \in S => Cardinality(S \ {k}) = Cardinality(S) - 1)
  <2> HIDE DEF S
  <2> QED BY <1>4, FS_RemoveElement, FS_CardinalityType
<1> HIDE DEF S, T
<1>6. Cardinality(T) = Cardinality(S) - (IF j = i THEN 1 ELSE 0)
  BY <1>2, <1>3, <1>5
<1> QED
  BY <1>6 DEF S, T

LEMMA NameTyped == ASSUME NEW n \in Seq(STRING), NEW o \in Seq(STRING) PROVE memcpy_name(o, n) \in Seq(STRING)
<1>1. Len(n) \in Nat /\ Len(o) \in Nat
  BY LenProperties
<1>2. SubSeq(o, Len(n) + 1, Len(o)) \in Seq(STRING)
  BY <1>1 
<1> QED
  BY <1>2, ConcatProperties DEF memcpy_name

(* link, create and symlink end: ds is the directory with a blank entry,   *)
(* tab the inode table.                                                    *)
LEMMA EnterLinks ==
  ASSUME NEW ds \in Seq(Entry), NEW k \in DOMAIN ds, ds[k].ino = 0,
         NEW tab, DOMAIN tab = Inodes, \A i \in Inodes : "nlink" \in DOMAIN tab[i],
         \A i \in Files : tab[i].nlink = Cardinality(Naming(ds, i)),
         NEW op, NEW arg, op \in Making, ArgOK(op, arg), enter(op, arg, k, ds, tab)
  PROVE  /\ DOMAIN inode' = Inodes
         /\ \A i \in Inodes : "nlink" \in DOMAIN inode'[i]
         /\ dirents' \in Seq(Entry)
         /\ \A i \in Files : inode'[i].nlink = Cardinality(Naming(dirents', i))
<1> DEFINE i == IF op = "link" THEN arg.ino ELSE empty_inode(tab)
           Has(d, j) == Cardinality(Naming(d, j))
<1>0. \A j \in Files : Has(ds, j) \in Nat
  BY LinkedFinite, FS_CardinalityType
<1>a. \A j \in Files : tab[j].nlink = Has(ds, j)
  OBVIOUS
<1>1. CASE i = 0
  <2>1. dirents' = ds /\ inode' = tab
    BY <1>1 DEF enter
  <2> QED
    BY <2>1
<1>2. CASE i # 0 /\ op = "link"
  <2> DEFINE nm == memcpy_name(ds[k].name, arg.name)
  <2>1. dirents' = [ds EXCEPT ![k] = [ino |-> i, name |-> nm]]
    BY <1>2 DEF enter
  <2>2. inode' = [tab EXCEPT ![i].nlink = @ + 1]
    BY <1>2 DEF enter
  <2>3. i \in Files
    BY <1>2 DEF ArgOK
  <2>4. nm \in Seq(STRING)
    BY <1>2, NameTyped, EntryIs DEF ArgOK, Making
  <2> HIDE DEF i, nm
  <2>5. dirents' \in Seq(Entry)
    <3>1. [ino |-> i, name |-> nm] \in Entry
      BY <2>3, <2>4 DEF Entry
    <3> QED BY <2>1, <3>1, ExceptSeq
  <2>6. \A j \in Files : Has(dirents', j) = Has(ds, j) + (IF j = i THEN 1 ELSE 0)
    <3>1. DOMAIN dirents' = DOMAIN ds /\ dirents'[k].ino = i /\ \A l \in DOMAIN ds : l # k => dirents'[l] = ds[l]
      BY <2>1
    <3> QED BY <2>3, <3>1, EntryGiven
  <2>7. DOMAIN inode' = Inodes /\ \A j \in Inodes : "nlink" \in DOMAIN inode'[j]
    BY <2>2
  <2>8. \A j \in Files : inode'[j].nlink = tab[j].nlink + (IF j = i THEN 1 ELSE 0)
    <3>1. inode'[i].nlink = tab[i].nlink + 1
      BY <2>2, <2>3, FilesInodes
    <3>2. \A j \in Files : j # i => inode'[j].nlink = tab[j].nlink
      BY <2>2, <2>3, FilesInodes
    <3>3. \A j \in Files : tab[j].nlink \in Nat
      BY <1>0, <1>a
    <3> QED BY <3>1, <3>2, <3>3
  <2>9. \A j \in Files : inode'[j].nlink = Has(dirents', j)
    <3> HIDE DEF Has
    <3> QED BY <2>6, <2>8, <1>0, <1>a
  <2> QED
    BY <2>5, <2>7, <2>9
<1>3. CASE i # 0 /\ op # "link"
  <2>1. dirents' = [ds EXCEPT ![k] = [ino |-> i, name |-> arg.name]]
    BY <1>3 DEF enter
  <2>2. inode' = [tab EXCEPT ![i] = made(@, op)]
    BY <1>3 DEF enter
  <2>3. i \in Files /\ tab[i].nlink = 0
    BY <1>3, EmptyIs
  <2>4. arg.name \in Seq(STRING)
    BY <1>3 DEF ArgOK
  <2> HIDE DEF i
  <2>5. dirents' \in Seq(Entry)
    <3>1. [ino |-> i, name |-> arg.name] \in Entry
      BY <2>3, <2>4 DEF Entry
    <3> QED BY <2>1, <3>1, ExceptSeq
  <2>6. \A j \in Files : Has(dirents', j) = Has(ds, j) + (IF j = i THEN 1 ELSE 0)
    <3>1. DOMAIN dirents' = DOMAIN ds /\ dirents'[k].ino = i /\ \A l \in DOMAIN ds : l # k => dirents'[l] = ds[l]
      BY <2>1
    <3> QED BY <2>3, <3>1, EntryGiven
  <2>6a. "nlink" \in DOMAIN made(tab[i], op) /\ made(tab[i], op).nlink = 1
    BY DEF made, SymlinkInode, NewFile
  <2>7. DOMAIN inode' = Inodes /\ \A j \in Inodes : "nlink" \in DOMAIN inode'[j]
    BY <2>2, <2>6a
  <2>8. \A j \in Files : inode'[j].nlink = tab[j].nlink + (IF j = i THEN 1 ELSE 0)
    <3>1. inode'[i].nlink = 1
      BY <2>2, <2>3, <2>6a, FilesInodes
    <3>2. \A j \in Files : j # i => inode'[j].nlink = tab[j].nlink
      BY <2>2, <2>3, FilesInodes
    <3>3. \A j \in Files : tab[j].nlink \in Nat
      BY <1>0, <1>a
    <3> QED BY <2>3, <3>1, <3>2, <3>3
  <2>9. \A j \in Files : inode'[j].nlink = Has(dirents', j)
    <3> HIDE DEF Has
    <3> QED BY <2>6, <2>8, <1>0, <1>a
  <2> QED
    BY <2>5, <2>7, <2>9
<1> QED
  BY <1>1, <1>2, <1>3

LEMMA LinkInit == ASSUME Init PROVE LinkInv
<1> DEFINE L == BLKSIZE \div DIRENTRY_SIZE
<1>1. L \in Nat /\ L > 0
  <2>1. \A b, d \in Nat : d > 0 /\ d <= b => b \div d \in Nat /\ b \div d > 0
    OBVIOUS
  <2> QED BY <2>1, BlocksAssumption, EntryAssumption
<1>2. BlankEntry \in Entry /\ [ino |-> 2, name |-> FirstName] \in Entry
  <2>1. <<>> \in Seq(STRING)
    OBVIOUS
  <2> QED BY <2>1, BlocksAssumption, NamesAssumption DEF BlankEntry, Entry, Files
<1>3. dirents = [k \in 1..L |-> IF k = 1 THEN [ino |-> 2, name |-> FirstName] ELSE BlankEntry]
  BY DEF Init
<1> HIDE DEF L
<1>4. dirents \in Seq(Entry)
  BY <1>1, <1>2, <1>3
<1>5. \A i \in Files : Naming(dirents, i) = IF i = 2 THEN {1} ELSE {}
  <2>1. \A k \in 1..L : dirents[k].ino = IF k = 1 THEN 2 ELSE 0
    BY <1>3 DEF BlankEntry
  <2>2. DOMAIN dirents = 1..L
    BY <1>3
  <2> QED BY <1>1, <2>1, <2>2, FilesInodes DEF Naming
<1>6. \A i \in Files : Cardinality(Naming(dirents, i)) = IF i = 2 THEN 1 ELSE 0
  BY <1>5, FS_EmptySet, FS_Singleton
<1>7. /\ DOMAIN inode = Inodes
      /\ \A i \in Inodes : "nlink" \in DOMAIN inode[i] /\ (i # Root => inode[i].nlink = IF i = 2 THEN 1 ELSE 0)
  BY DEF Init, NewFile, Root
<1>8. call = Idle
  BY DEF Init
<1> QED
  BY <1>4, <1>6, <1>7, <1>8, FilesInodes DEF LinkInv

(* change_size leaves the counts and the directory alone. *)
LEMMA ChangeSizeLinks == ASSUME LinkInv, ChangeSize PROVE LinkInv'
<1>1. DOMAIN inode = Inodes /\ \A i \in Inodes : "nlink" \in DOMAIN inode[i]
  BY DEF LinkInv
<1> DEFINE Same == DOMAIN inode' = Inodes /\ \A i \in Inodes : "nlink" \in DOMAIN inode'[i] /\ inode'[i].nlink = inode[i].nlink
<1>2. ASSUME NEW i, add_block(i) PROVE Same
  <2> DEFINE n == size2nblocks(inode[i].size)
  <2> HIDE DEF n
  <2>1. CASE add_direct(i, n)
    BY <1>1, <2>1 DEF add_direct
  <2>2. CASE add_indirect(i, n)
    BY <1>1, <2>2 DEF add_indirect
  <2>3. CASE add_indirect2(i, n)
    BY <1>1, <2>3 DEF add_indirect2
  <2> QED
    BY <1>2, <2>1, <2>2, <2>3 DEF add_block, n
<1>3. ASSUME NEW i, remove_block(i) PROVE Same
  <2> DEFINE n == size2nblocks(inode[i].size) - 1
  <2> HIDE DEF n
  <2>1. CASE remove_direct(i, n)
    BY <1>1, <2>1 DEF remove_direct
  <2>2. CASE remove_indirect(i, n)
    BY <1>1, <2>2 DEF remove_indirect
  <2>3. CASE remove_indirect2(i, n)
    BY <1>1, <2>3 DEF remove_indirect2
  <2> QED
    BY <1>3, <2>1, <2>2, <2>3 DEF remove_block, n
<1>4. UNCHANGED inode => Same
  BY <1>1
<1>5. Same
  BY <1>2, <1>3, <1>4 DEF ChangeSize, Grow, Undo, Shrink, Broken, add_block_fails, disk
<1>6. (call # Idle => ArgOK(call.op, call.arg))'
  <2>1. call # Idle /\ ArgOK(call.op, call.arg)
    BY DEF ChangeSize, Grow, Undo, Shrink, Broken, LinkInv
  <2>2. CASE call' = call
    BY <2>1, <2>2 
  <2>3. CASE call' = Idle
    BY <2>3
  <2>4. ASSUME NEW l, call' = [call EXCEPT !.loop = l] PROVE call'.op = call.op /\ call'.arg = call.arg
    BY <2>4
  <2> QED
    BY <2>1, <2>2, <2>3, <2>4 DEF ChangeSize, Grow, Undo, Shrink, Broken, ArgOK
<1> QED
  BY <1>1, <1>5, <1>6, LinksKept DEF ChangeSize, rest

LEMMA MakeEntryLinks ==
  ASSUME LinkInv, NEW op, op \in Making, NEW arg, ArgOK(op, arg), MakeEntry(op, arg)
  PROVE  LinkInv'
<1>1. CASE blank_direntry # 0
  <2>1. enter(op, arg, blank_direntry, dirents, inode) /\ call' = Idle
    BY <1>1 DEF MakeEntry
  <2>2. blank_direntry \in DOMAIN dirents /\ dirents[blank_direntry].ino = 0
    BY <1>1, BlankIs DEF LinkInv
  <2> QED
    BY <2>1, <2>2, EnterLinks DEF LinkInv
<1>2. CASE blank_direntry = 0
  <2>1. call' = change_size(Root, inode[Root].size + DIRENTRY_SIZE, op, arg)
        /\ inode' = inode /\ dirents' = dirents
    BY <1>2 DEF MakeEntry
  <2>2. call'.op = op /\ call'.arg = arg
    BY <2>1 DEF change_size
  <2> QED
    BY <2>1, <2>2, LinksKept DEF LinkInv
<1> QED
  BY <1>1, <1>2

LEMMA UnlinkLinks == ASSUME LinkInv, ospfs_unlink PROVE LinkInv'
<1>1. PICK name \in Names :
         /\ dir_lookup(name) # 0
         /\ dirents' = [dirents EXCEPT ![find_direntry(name)].ino = 0]
         /\ inode' = [inode EXCEPT ![dir_lookup(name)].nlink = @ - 1]
         /\ call' = Idle \/ call' = change_size(dir_lookup(name), 0, "unlink", 0)
  BY DEF ospfs_unlink
<1> DEFINE i == dir_lookup(name)
           k == find_direntry(name)
<1>2. k \in DOMAIN dirents /\ i \in Files /\ dirents[k].ino = i /\ dirents \in Seq(Entry)
  BY <1>1, LookupIs DEF LinkInv
<1>3. dirents[k] \in Entry
  BY <1>2, EntryIs
<1> HIDE DEF i, k
<1>4. DOMAIN dirents' = DOMAIN dirents /\ dirents'[k].ino = 0
      /\ \A l \in DOMAIN dirents : l # k => dirents'[l] = dirents[l]
  BY <1>1, <1>2, <1>3 DEF Entry, i, k
<1>5. dirents' \in Seq(Entry)
  <2>1. dirents' = [dirents EXCEPT ![k] = [dirents[k] EXCEPT !.ino = 0]]
    BY <1>1 DEF k
  <2>2. [dirents[k] EXCEPT !.ino = 0] \in Entry
    BY <1>3 DEF Entry
  <2>3. k \in 1..Len(dirents)
    BY <1>2, LenProperties
  <2> QED BY <1>2, <2>1, <2>2, <2>3, ExceptSeq
<1>6. \A j \in Files : Cardinality(Naming(dirents', j)) = Cardinality(Naming(dirents, j)) - (IF j = i THEN 1 ELSE 0)
  BY <1>2, <1>4, EntryBlanked
<1>7. \A j \in Files : Cardinality(Naming(dirents, j)) \in Nat
  BY <1>2, LinkedFinite, FS_CardinalityType
<1>8. DOMAIN inode' = Inodes /\ \A j \in Inodes : "nlink" \in DOMAIN inode'[j]
  BY <1>1 DEF LinkInv
<1>9. \A j \in Files : inode'[j].nlink = inode[j].nlink - (IF j = i THEN 1 ELSE 0)
  <2>1. inode' = [inode EXCEPT ![i].nlink = @ - 1]
    BY <1>1 DEF i
  <2>2. inode'[i].nlink = inode[i].nlink - 1
    BY <1>2, <2>1, FilesInodes DEF LinkInv
  <2>3. \A j \in Files : j # i => inode'[j].nlink = inode[j].nlink
    BY <1>2, <2>1, FilesInodes DEF LinkInv
  <2>4. \A j \in Files : inode[j].nlink \in Nat
    BY <1>7 DEF LinkInv
  <2> QED BY <2>2, <2>3, <2>4
<1>10. \A j \in Files : inode'[j].nlink = Cardinality(Naming(dirents', j))
  BY <1>6, <1>7, <1>9 DEF LinkInv
<1>11. (call # Idle => ArgOK(call.op, call.arg))'
  BY <1>1 DEF change_size, ArgOK, Making
<1> QED
  BY <1>5, <1>8, <1>10, <1>11 DEF LinkInv

LEMMA ReturnLinks == ASSUME LinkInv, Return PROVE LinkInv'
<1> DEFINE tab == [inode EXCEPT ![call.oi].size = call.new_size]
<1>1. DOMAIN tab = Inodes /\ \A i \in Inodes : "nlink" \in DOMAIN tab[i] /\ tab[i].nlink = inode[i].nlink
  BY DEF LinkInv
<1>2. call # Idle /\ call' = Idle
  BY DEF Return
<1>3. CASE call.op \notin Making
  <2>1. inode' = tab /\ dirents' = dirents
    BY <1>3 DEF Return, Making
  <2> HIDE DEF tab
  <2> QED
    BY <1>1, <1>2, <2>1, LinksKept DEF LinkInv
<1>4. CASE call.op \in Making
  <2> DEFINE ds == Append(dirents, BlankEntry)
             k  == Len(dirents) + 1
  <2>1. enter(call.op, call.arg, k, ds, tab)
    BY <1>4 DEF Return, Making
  <2>2. BlankEntry \in Entry
    <3>1. <<>> \in Seq(STRING)
      OBVIOUS
    <3> QED BY <3>1 DEF BlankEntry, Entry
  <2>3. dirents \in Seq(Entry) /\ ArgOK(call.op, call.arg)
    BY <1>2 DEF LinkInv
  <2>4. ds \in Seq(Entry) /\ DOMAIN ds = 1..k /\ ds[k] = BlankEntry /\ Len(dirents) \in Nat
        /\ DOMAIN dirents = 1..Len(dirents) /\ \A l \in 1..Len(dirents) : ds[l] = dirents[l]
    BY <2>2, <2>3, AppendProperties, LenProperties
  <2> HIDE DEF ds, tab
  <2>5. k \in DOMAIN ds /\ ds[k].ino = 0
    BY <2>4 DEF BlankEntry
  <2>6. \A i \in Files : Naming(ds, i) = Naming(dirents, i)
    <3>1. DOMAIN ds = DOMAIN dirents \cup {k}
      BY <2>4
    <3> QED BY <2>4, <2>5, <3>1, FilesInodes DEF Naming
  <2>7. \A i \in Files : tab[i].nlink = Cardinality(Naming(ds, i))
    BY <1>1, <2>6, FilesInodes DEF LinkInv
  <2> HIDE DEF k
  <2> QED
    BY <1>1, <1>2, <1>4, <2>1, <2>3, <2>4, <2>5, <2>7, EnterLinks DEF LinkInv
<1> QED
  BY <1>3, <1>4

LEMMA LinkNext == ASSUME LinkInv, [Next]_vars PROVE LinkInv'
<1> USE FilesInodes
<1>1. ASSUME inode' = inode, dirents' = dirents, call' = call \/ call'.op \notin Making PROVE LinkInv'
  <2>1. (call # Idle => ArgOK(call.op, call.arg))'
    BY <1>1 DEF LinkInv, ArgOK, Making
  <2> QED BY <1>1, <2>1, LinksKept DEF LinkInv
<1>2. CASE Open \/ Close \/ ospfs_ioctl
  BY <1>1, <1>2 DEF Open, Close, ospfs_ioctl, disk
<1>3. CASE ospfs_write
  BY <1>1, <1>3 DEF ospfs_write, disk, change_size, Making
<1>4. CASE ospfs_notify_change
  BY <1>1, <1>4 DEF ospfs_notify_change, disk, change_size, Making
<1>5. CASE ospfs_create
  <2>1. PICK name \in Names : MakeEntry("create", [name |-> name])
    BY <1>5 DEF ospfs_create
  <2>2. ArgOK("create", [name |-> name]) /\ "create" \in Making
    BY NamesAssumption DEF ArgOK, Making
  <2> QED BY <2>1, <2>2, MakeEntryLinks
<1>6. CASE ospfs_symlink
  <2>1. PICK name \in Names : MakeEntry("symlink", [name |-> name])
    BY <1>6 DEF ospfs_symlink
  <2>2. ArgOK("symlink", [name |-> name]) /\ "symlink" \in Making
    BY NamesAssumption DEF ArgOK, Making
  <2> QED BY <2>1, <2>2, MakeEntryLinks
<1>7. CASE ospfs_link
  <2>1. PICK name \in Names, src \in Names :
           dir_lookup(src) # 0 /\ MakeEntry("link", [name |-> name, ino |-> dir_lookup(src)])
    BY <1>7 DEF ospfs_link
  <2>2. dir_lookup(src) \in Files
    BY <2>1, LookupIs DEF LinkInv
  <2>3. ArgOK("link", [name |-> name, ino |-> dir_lookup(src)]) /\ "link" \in Making
    BY <2>2, NamesAssumption DEF ArgOK, Making
  <2> QED BY <2>1, <2>3, MakeEntryLinks
<1>8. CASE UNCHANGED vars
  BY <1>1, <1>8 DEF vars, disk, rest
<1> QED
  BY <1>2, <1>3, <1>4, <1>5, <1>6, <1>7, <1>8, UnlinkLinks, ReturnLinks, ChangeSizeLinks DEF Next

(* The link count of a file is the number of its directory entries, under  *)
(* ospfs_link, ospfs_unlink, ospfs_create and ospfs_symlink, whether they  *)
(* find a blank entry or make change_size extend the directory first.      *)
THEOREM LinksAreCounted == Spec => []LinksCounted
<1>1. Init => LinkInv
  BY LinkInit
<1>2. LinkInv /\ [Next]_vars => LinkInv'
  BY LinkNext
<1>3. LinkInv => LinksCounted
  BY DEF LinkInv, LinksCounted, Naming
<1> QED
  BY <1>1, <1>2, <1>3, PTL DEF Spec
-----------------------------------------------------------------------------
(* Sizes.  A size is plain if rounding it up to whole blocks does not wrap *)
(* around; shrinking a file of less than a block makes it wrap.            *)
Plain(s) == s \in 0..(WRAP - BLKSIZE)

Limit == WRAP \div BLKSIZE

LEMMA DivBounds ==
  ASSUME NEW x \in Nat, NEW b \in Nat, b > 0
  PROVE  x \div b \in Nat /\ b * (x \div b) <= x /\ x < b * (x \div b) + b
OBVIOUS

LEMMA DivIs ==
  ASSUME NEW x \in Nat, NEW b \in Nat, b > 0, NEW q \in Int, b * q <= x, x < b * q + b
  PROVE  x \div b = q
<1> DEFINE p == x \div b
<1>1. p \in Nat /\ b * p <= x /\ x < b * p + b
  BY DivBounds
<1> HIDE DEF p
<1>2. CASE p < q
  <2>1. b * (p + 1) <= b * q
    <3>1. \E d \in Nat : q = p + 1 + d
      BY <1>1, <1>2
    <3>2. PICK d \in Nat : q = p + 1 + d
      BY <3>1
    <3>3. b * q = b * (p + 1) + b * d /\ b * d >= 0
      BY <1>1, <3>2
    <3> QED BY <1>1, <3>3
  <2> QED BY <1>1, <2>1
<1>3. CASE q < p
  <2>1. b * (q + 1) <= b * p
    <3>1. \E d \in Nat : p = q + 1 + d
      BY <1>1, <1>3
    <3>2. PICK d \in Nat : p = q + 1 + d
      BY <3>1
    <3>3. b * p = b * (q + 1) + b * d /\ b * d >= 0
      BY <1>1, <3>2
    <3> QED BY <1>1, <3>3
  <2> QED BY <1>1, <2>1
<1> QED
  BY <1>1, <1>2, <1>3 DEF p

LEMMA ModSmall == ASSUME NEW x \in Nat, NEW w \in Nat, x < w PROVE x % w = x
OBVIOUS

LEMMA ModOnce == ASSUME NEW x \in Nat, NEW w \in Nat, w > 0, w <= x, x < 2 * w PROVE x % w = x - w
<1>1. \E d \in Nat : x = w + d /\ d < w
  BY SMT
<1> QED BY <1>1

LEMMA ModBelow == ASSUME NEW x \in Int, NEW w \in Nat, w > 0, x < 0, -w <= x PROVE x % w = x + w
OBVIOUS

LEMMA LimitIs == Limit \in Nat /\ WRAP = BLKSIZE * Limit /\ Limit > NBLOCKS + 2
<1>1. WRAP \in Nat /\ BLKSIZE \in Nat /\ BLKSIZE > 0 /\ WRAP % BLKSIZE = 0 /\ NBLOCKS \in Nat
      /\ (NBLOCKS + 2) * BLKSIZE < WRAP
  BY BlocksAssumption
<1>2. Limit \in Nat /\ WRAP = BLKSIZE * Limit
  BY <1>1 DEF Limit
<1> HIDE DEF Limit
<1>3. CASE Limit <= NBLOCKS + 2
  <2>1. \E d \in Nat : NBLOCKS + 2 = Limit + d
    BY <1>1, <1>2, <1>3
  <2>2. PICK d \in Nat : NBLOCKS + 2 = Limit + d
    BY <2>1
  <2>3. BLKSIZE * (NBLOCKS + 2) = BLKSIZE * Limit + BLKSIZE * d /\ BLKSIZE * d >= 0
    BY <1>1, <1>2, <2>2
  <2> QED BY <1>1, <1>2, <2>3
<1> QED BY <1>1, <1>2, <1>3

(* The number of blocks of a plain size. *)
LEMMA PlainBlocks ==
  ASSUME NEW s, Plain(s)
  PROVE  /\ s \in Nat /\ size2nblocks(s) \in Nat
         /\ size2nblocks(s) = (s + BLKSIZE - 1) \div BLKSIZE
         /\ s <= BLKSIZE * size2nblocks(s) /\ BLKSIZE * size2nblocks(s) < s + BLKSIZE
<1>1. BLKSIZE \in Nat /\ BLKSIZE > 0 /\ WRAP \in Nat /\ s \in Nat /\ s + BLKSIZE - 1 < WRAP /\ s + BLKSIZE - 1 \in Nat
  BY BlocksAssumption DEF Plain
<1>2. (s + BLKSIZE - 1) % WRAP = s + BLKSIZE - 1
  BY <1>1, ModSmall
<1>3. size2nblocks(s) = (s + BLKSIZE - 1) \div BLKSIZE
  BY <1>2 DEF size2nblocks
<1> DEFINE x == s + BLKSIZE - 1
<1>4. x \div BLKSIZE \in Nat /\ BLKSIZE * (x \div BLKSIZE) <= x /\ x < BLKSIZE * (x \div BLKSIZE) + BLKSIZE
  <2> HIDE DEF x
  <2>1. x \in Nat
    BY <1>1 DEF x
  <2> QED BY <1>1, <2>1, DivBounds
<1>5. size2nblocks(s) = x \div BLKSIZE
  BY <1>3
<1> DEFINE q == x \div BLKSIZE
<1>6. q \in Nat /\ BLKSIZE * q <= s + BLKSIZE - 1 /\ s + BLKSIZE - 1 < BLKSIZE * q + BLKSIZE
  BY <1>4
<1> HIDE DEF q
<1>7. s <= BLKSIZE * q /\ BLKSIZE * q < s + BLKSIZE
  <2>1. BLKSIZE * q \in Nat
    BY <1>1, <1>6
  <2> QED BY <1>1, <1>6, <2>1
<1> QED
  BY <1>1, <1>3, <1>6, <1>7 DEF q

(* Conversely: the number of blocks determined by its bounds. *)
LEMMA BlocksAre ==
  ASSUME NEW s, Plain(s), NEW n \in Int, s <= BLKSIZE * n, BLKSIZE * n < s + BLKSIZE
  PROVE  size2nblocks(s) = n
<1>1. BLKSIZE \in Nat /\ BLKSIZE > 0 /\ s \in Nat /\ s + BLKSIZE - 1 \in Nat /\ BLKSIZE * n \in Int
  BY BlocksAssumption DEF Plain
<1>2. BLKSIZE * n <= s + BLKSIZE - 1 /\ s + BLKSIZE - 1 < BLKSIZE * n + BLKSIZE
  BY <1>1
<1>3. (s + BLKSIZE - 1) \div BLKSIZE = n
  BY <1>1, <1>2, DivIs
<1> QED
  BY <1>3, PlainBlocks

LEMMA WrappedBlocks ==
  ASSUME NEW s \in 0..(WRAP - 1), ~Plain(s)
  PROVE  size2nblocks(s) = 0
<1>1. BLKSIZE \in Nat /\ BLKSIZE > 0 /\ WRAP \in Nat /\ BLKSIZE < WRAP
  BY BlocksAssumption, LimitIs
<1>2. s \in Nat /\ s > WRAP - BLKSIZE /\ s < WRAP
  BY <1>1 DEF Plain
<1> DEFINE x == s + BLKSIZE - 1
<1>3. x \in Nat /\ WRAP <= x /\ x < 2 * WRAP /\ x - WRAP \in Nat /\ x - WRAP < BLKSIZE
  BY <1>1, <1>2
<1> HIDE DEF x
<1>4. x % WRAP = x - WRAP
  BY <1>1, <1>3, ModOnce
<1>5. (x - WRAP) \div BLKSIZE = 0
  BY <1>1, <1>3, DivIs
<1> QED
  BY <1>4, <1>5 DEF size2nblocks, x

LEMMA BlocksNat ==
  ASSUME NEW s \in 0..(WRAP - 1)
  PROVE  size2nblocks(s) \in Nat /\ size2nblocks(s) < Limit /\ (size2nblocks(s) > 0 => Plain(s))
<1>1. CASE ~Plain(s)
  BY <1>1, WrappedBlocks, LimitIs, BlocksAssumption
<1>2. CASE Plain(s)
  <2> DEFINE n == size2nblocks(s)
  <2>1. n \in Nat /\ s \in Nat /\ BLKSIZE * n < s + BLKSIZE /\ s + BLKSIZE <= WRAP
    BY <1>2, PlainBlocks, BlocksAssumption DEF Plain
  <2> HIDE DEF n
  <2>2. BLKSIZE * n < BLKSIZE * Limit /\ BLKSIZE \in Nat /\ BLKSIZE > 0 /\ Limit \in Nat
    <3>1. BLKSIZE * n \in Int
      BY <2>1, BlocksAssumption
    <3> QED BY <2>1, <3>1, LimitIs, BlocksAssumption
  <2>3. CASE Limit <= n
    <3>1. PICK d \in Nat : n = Limit + d
      <4>1. n - Limit \in Nat /\ n = Limit + (n - Limit)
        BY <2>1, <2>2, <2>3
      <4> QED BY <4>1
    <3>2. BLKSIZE * n = BLKSIZE * Limit + BLKSIZE * d /\ BLKSIZE * d >= 0
      BY <2>2, <3>1
    <3> QED BY <2>2, <3>2
  <2> QED BY <1>2, <2>1, <2>2, <2>3 DEF n
<1> QED BY <1>1, <1>2

LEMMA GrownBlocks ==
  ASSUME NEW s \in 0..(WRAP - 1), size2nblocks(s) + 1 < Limit
  PROVE  grown(s) \in 0..(WRAP - 1) /\ size2nblocks(grown(s)) = size2nblocks(s) + 1
<1> DEFINE n == size2nblocks(s)
<1>1. BLKSIZE \in Nat /\ BLKSIZE > 0 /\ WRAP \in Nat /\ 2 * BLKSIZE < WRAP /\ s \in Nat /\ s < WRAP /\ n \in Nat
  <2>1. (NBLOCKS + 2) * BLKSIZE = NBLOCKS * BLKSIZE + 2 * BLKSIZE /\ NBLOCKS * BLKSIZE >= 0 /\ NBLOCKS * BLKSIZE \in Int
    BY BlocksAssumption
  <2> QED BY <2>1, BlocksAssumption, BlocksNat
<1>2. CASE ~Plain(s)
  <2>1. n = 0
    BY <1>2, WrappedBlocks
  <2>2. s > WRAP - BLKSIZE
    BY <1>1, <1>2 DEF Plain
  <2>3. grown(s) = s + BLKSIZE - WRAP
    BY <1>1, <2>2, ModOnce DEF grown
  <2>4. grown(s) \in 1..(BLKSIZE - 1) /\ Plain(grown(s))
    BY <1>1, <2>2, <2>3 DEF Plain
  <2>5. size2nblocks(grown(s)) = 1
    <3> DEFINE g == grown(s)
    <3>1. g \in Nat /\ g <= BLKSIZE * 1 /\ BLKSIZE * 1 < g + BLKSIZE
      BY <1>1, <2>4
    <3> HIDE DEF g
    <3>2. Plain(g)
      BY <2>4 DEF g
    <3> QED BY <3>1, <3>2, BlocksAre DEF g
  <2> QED BY <1>1, <2>1, <2>4, <2>5
<1>3. CASE Plain(s)
  <2>1. s <= BLKSIZE * n /\ BLKSIZE * n < s + BLKSIZE
    BY <1>3, PlainBlocks
  <2> HIDE DEF n
  <2>2. BLKSIZE * (n + 1) = BLKSIZE * n + BLKSIZE /\ BLKSIZE * n \in Int
    BY <1>1
  <2>3. n + 2 <= Limit /\ Limit \in Nat
    BY <1>1, LimitIs DEF n
  <2>4. BLKSIZE * n + 2 * BLKSIZE <= WRAP
    <3>1. PICK d \in Nat : Limit = n + 2 + d
      <4>1. Limit - n - 2 \in Nat /\ Limit = n + 2 + (Limit - n - 2)
        BY <1>1, <2>3
      <4> QED BY <4>1
    <3>2. BLKSIZE * Limit = BLKSIZE * n + 2 * BLKSIZE + BLKSIZE * d /\ BLKSIZE * d >= 0 /\ BLKSIZE * d \in Int
      BY <1>1, <3>1
    <3> QED BY <1>1, <2>2, <3>2, LimitIs
  <2>5. s + BLKSIZE <= WRAP - BLKSIZE
    BY <1>1, <2>1, <2>2, <2>4
  <2>6. grown(s) = s + BLKSIZE
    BY <1>1, <2>5, ModSmall DEF grown
  <2>7. Plain(s + BLKSIZE)
    BY <1>1, <2>5 DEF Plain
  <2>8. s + BLKSIZE <= BLKSIZE * (n + 1) /\ BLKSIZE * (n + 1) < s + BLKSIZE + BLKSIZE /\ n + 1 \in Int
    BY <1>1, <2>1, <2>2
  <2>9. size2nblocks(s + BLKSIZE) = n + 1
    BY <2>7, <2>8, BlocksAre
  <2> QED BY <1>1, <2>5, <2>6, <2>9 DEF n
<1> QED BY <1>2, <1>3

LEMMA ShrunkBlocks ==
  ASSUME NEW s \in 0..(WRAP - 1), size2nblocks(s) > 0
  PROVE  shrunk(s) \in 0..(WRAP - 1) /\ size2nblocks(shrunk(s)) = size2nblocks(s) - 1
<1> DEFINE n == size2nblocks(s)
<1>1. BLKSIZE \in Nat /\ BLKSIZE > 0 /\ WRAP \in Nat /\ 2 * BLKSIZE < WRAP /\ s \in Nat /\ s < WRAP /\ n \in Nat /\ n > 0
  <2>1. (NBLOCKS + 2) * BLKSIZE = NBLOCKS * BLKSIZE + 2 * BLKSIZE /\ NBLOCKS * BLKSIZE >= 0 /\ NBLOCKS * BLKSIZE \in Int
    BY BlocksAssumption
  <2> QED BY <2>1, BlocksAssumption, BlocksNat
<1>2. Plain(s)
  BY BlocksNat
<1>3. s <= BLKSIZE * n /\ BLKSIZE * n < s + BLKSIZE
  BY <1>2, PlainBlocks
<1> DEFINE m == n - 1
<1>4. BLKSIZE * n = BLKSIZE * m + BLKSIZE /\ BLKSIZE * m \in Nat /\ m \in Nat
  <2> HIDE DEF n
  <2>1. m \in Nat /\ n = m + 1
    BY <1>1
  <2> HIDE DEF m
  <2> QED BY <1>1, <2>1
<1> HIDE DEF n
<1>5. s - BLKSIZE <= BLKSIZE * m /\ BLKSIZE * m < s
  BY <1>1, <1>3, <1>4
<1>6. CASE s >= BLKSIZE
  <2>1. shrunk(s) = s - BLKSIZE
    BY <1>1, <1>6, ModSmall DEF shrunk
  <2>2. Plain(s - BLKSIZE)
    BY <1>1, <1>2, <1>6 DEF Plain
  <2>3. size2nblocks(s - BLKSIZE) = m
    <3> DEFINE t == s - BLKSIZE
    <3>1. t <= BLKSIZE * m /\ BLKSIZE * m < t + BLKSIZE /\ m \in Int /\ Plain(t)
      BY <1>1, <1>4, <1>5, <2>2
    <3> HIDE DEF t, m
    <3> QED BY <3>1, BlocksAre DEF t
  <2> QED BY <1>1, <1>6, <2>1, <2>3 DEF n
<1>7. CASE s < BLKSIZE
  <2>1. m = 0
    <3> HIDE DEF m
    <3>1. BLKSIZE * m < BLKSIZE
      BY <1>1, <1>4, <1>5, <1>7
    <3>2. CASE m > 0
      <4>1. PICK d \in Nat : m = d + 1
        <5>1. m - 1 \in Nat /\ m = (m - 1) + 1
          BY <1>4, <3>2
        <5> QED BY <5>1
      <4>2. BLKSIZE * m = BLKSIZE * d + BLKSIZE /\ BLKSIZE * d >= 0 /\ BLKSIZE * d \in Int
        BY <1>1, <4>1
      <4> QED BY <1>1, <3>1, <4>2
    <3> QED BY <1>4, <3>2
  <2>2. s > 0
    BY <1>1, <1>4, <1>5
  <2>3. shrunk(s) = s - BLKSIZE + WRAP
    <3>1. s - BLKSIZE \in Int /\ s - BLKSIZE < 0 /\ -WRAP <= s - BLKSIZE
      BY <1>1, <1>7
    <3> DEFINE t == s - BLKSIZE
    <3>2. t \in Int /\ t < 0 /\ -WRAP <= t
      BY <3>1
    <3> HIDE DEF t
    <3>3. t % WRAP = t + WRAP
      BY <1>1, <3>2, ModBelow
    <3> QED BY <3>3 DEF shrunk, t
  <2>4. shrunk(s) \in 0..(WRAP - 1) /\ ~Plain(shrunk(s))
    BY <1>1, <1>7, <2>2, <2>3 DEF Plain
  <2>5. size2nblocks(shrunk(s)) = 0
    BY <2>4, WrappedBlocks
  <2> QED BY <1>1, <2>1, <2>4, <2>5 DEF n
<1> QED BY <1>1, <1>6, <1>7

-----------------------------------------------------------------------------
(* Pointers.  Pts(w, i, oi, h, c, k, b): with w the words of the blocks,   *)
(* inode i, oi, has a pointer to block b, held by h in place k of kind c.  *)
(* Tables are the indirect blocks of an inode.                             *)
Slots     == 0..(NINDIRECT - 1)
InodeType == [size : 0..(WRAP - 1), ftype : {"reg", "dir", "symlink"}, nlink : Nat,
              direct : [0..(NDIRECT - 1) -> Blocks], indirect : Blocks, indirect2 : Blocks]
WordType  == [Blocks -> [Slots -> Blocks]]

IsTable(w, oi, h) ==
  /\ h \in Blocks /\ h # 0
  /\ \/ h = oi.indirect
     \/ h = oi.indirect2
     \/ oi.indirect2 # 0 /\ \E k \in Slots : h = w[oi.indirect2][k]

Pts(w, i, oi, h, c, k, b) ==
  /\ oi.ftype # "symlink" /\ b # 0
  /\ \/ h = i /\ c = "direct" /\ k \in 0..(NDIRECT - 1) /\ b = oi.direct[k]
     \/ h = i /\ c = "indirect" /\ k = 0 /\ b = oi.indirect
     \/ h = i /\ c = "indirect2" /\ k = 0 /\ b = oi.indirect2
     \/ IsTable(w, oi, h) /\ c = "word" /\ k \in Slots /\ b = w[h][k]

Has(w, i, oi, b) == \E h, c, k : Pts(w, i, oi, h, c, k, b)

(* NeverShared, in these terms. *)
Separate(w, tab, fr) ==
  /\ \A i, j \in Inodes : \A h, c, k, g, d, l, b :
       Pts(w, i, tab[i], h, c, k, b) /\ Pts(w, j, tab[j], g, d, l, b) => h = g /\ c = d /\ k = l
  /\ \A i \in Inodes : \A h, c, k, b :
       Pts(w, i, tab[i], h, c, k, b) => b \notin fr /\ b >= BORDER

(* The blocks that are neither free nor another inode's nor i's own        *)
(* indirect blocks: there is one for each block of i's size.               *)
Away(w, tab, fr, i) ==
  {b \in BORDER..(NBLOCKS - 1) :
     /\ b \notin fr /\ b # tab[i].indirect /\ b # tab[i].indirect2
     /\ \A j \in Inodes \ {i} : ~Has(w, j, tab[j], b)}

Counted(w, tab, fr) ==
  \A i \in Inodes : tab[i].ftype # "symlink" =>
    size2nblocks(tab[i].size) <= Cardinality(Away(w, tab, fr, i))

DiskOK ==
  /\ inode \in [Inodes -> InodeType]
  /\ free \subseteq (BORDER + 1)..(NBLOCKS - 1)
  /\ word \in WordType /\ word[0] = Blank
  /\ tag \in [Blocks -> Inodes \cup {0}]
  /\ Separate(word, inode, free)
  /\ Counted(word, inode, free)

TagsOK == \A i \in Files : \A b : Has(word, i, inode[i], b) => tag[b] \in {0, i}

OpenOK ==
  /\ opened \subseteq Files /\ \A i \in opened : inode[i].ftype # "symlink"
  /\ inode[Root].ftype = "dir" /\ size2nblocks(inode[Root].size) > 0
  /\ \A i \in Inodes : Plain(inode[i].size) \/ (call # Idle /\ i = call.oi)

CallOK ==
  call # Idle =>
    /\ "loop" \in DOMAIN call /\ call.oi \in Inodes /\ inode[call.oi].ftype # "symlink"
    /\ call.loop \in {"grow", "undo", "shrink"}
    /\ Plain(call.old_size) /\ Plain(call.new_size)
    /\ call.loop = "shrink" => Blocks_of(call.oi) >= size2nblocks(call.new_size)
    /\ call.oi = Root => size2nblocks(call.old_size) > 0 /\ size2nblocks(call.new_size) > 0
    /\ call.op \in Making => call.oi = Root
    /\ call.op = "write" => call.arg \in Nat
    /\ call.op = "symlink" => empty_inode(inode) \notin opened

RestOK == nwrites_to_crash \in Int /\ far \in BOOLEAN /\ lost \subseteq Blocks

FsInv == LinkInv /\ DiskOK /\ TagsOK /\ OpenOK /\ CallOK /\ RestOK

LEMMA Numbers ==
  /\ NBLOCKS \in Nat /\ BORDER \in Nat /\ 0 < BORDER /\ BORDER < NBLOCKS
  /\ NDIRECT \in Nat /\ NDIRECT > 0 /\ NINDIRECT \in Nat /\ NINDIRECT > 0
  /\ Blocks = 0..(NBLOCKS - 1) /\ 0 \in Blocks /\ BORDER \in Blocks
  /\ Blocks \subseteq Nat /\ Slots \subseteq Nat /\ 0 \in Slots /\ DOMAIN Blank = Slots
BY BlocksAssumption DEF Blocks, Slots, Blank

(* The pointers of Ospfs are these. *)
LEMMA PointersAre ==
  ASSUME word \in WordType, NEW i, NEW oi \in InodeType, NEW r
  PROVE  r \in Pointers(i, oi) <=>
           \E h, c, k, b : r = <<h, c, k, b>> /\ Pts(word, i, oi, h, c, k, b)
<1> DEFINE ind2 == IF oi.indirect2 = 0 THEN {} ELSE {oi.indirect2}
           ind  == {oi.indirect} \cup UNION {{word[b][k] : k \in DOMAIN Blank} : b \in ind2}
           refs == {<<i, "direct", k, oi.direct[k]>> : k \in DOMAIN oi.direct}
                   \cup {<<i, "indirect", 0, oi.indirect>>, <<i, "indirect2", 0, oi.indirect2>>}
                   \cup {<<b, "word", k, word[b][k]>> : b \in (ind \ {0}) \cup ind2, k \in DOMAIN Blank}
<1>0. /\ DOMAIN oi.direct = 0..(NDIRECT - 1) /\ oi.indirect \in Blocks /\ oi.indirect2 \in Blocks
      /\ \A b \in Blocks, k \in Slots : word[b][k] \in Blocks
  BY DEF InodeType, WordType
<1>1. \A b : b \in (ind \ {0}) \cup ind2 <=> IsTable(word, oi, b)
  <2> DEFINE u == UNION {{word[b][k] : k \in DOMAIN Blank} : b \in ind2}
  <2>1. \A x : x \in u <=> oi.indirect2 # 0 /\ \E k \in Slots : x = word[oi.indirect2][k]
    <3>1. \A x : x \in u <=> \E b \in ind2 : \E k \in DOMAIN Blank : x = word[b][k]
      <4> HIDE DEF ind2
      <4> QED OBVIOUS
    <3>2. \A b : b \in ind2 <=> oi.indirect2 # 0 /\ b = oi.indirect2
      OBVIOUS
    <3> HIDE DEF ind2, u
    <3>3. DOMAIN Blank = Slots
      BY Numbers
    <3>4. ASSUME NEW x, x \in u PROVE oi.indirect2 # 0 /\ \E k \in Slots : x = word[oi.indirect2][k]
      <4>1. PICK b \in ind2 : \E k \in DOMAIN Blank : x = word[b][k]
        BY <3>1, <3>4
      <4> QED BY <3>2, <3>3, <4>1
    <3>5. ASSUME NEW x, oi.indirect2 # 0, NEW k \in Slots, x = word[oi.indirect2][k] PROVE x \in u
      <4>1. oi.indirect2 \in ind2 /\ k \in DOMAIN Blank
        BY <3>2, <3>3, <3>5
      <4> QED BY <3>1, <3>5, <4>1
    <3> QED BY <3>4, <3>5
  <2> HIDE DEF u
  <2>2. ind = {oi.indirect} \cup u
    BY DEF u
  <2> HIDE DEF ind
  <2> QED BY <1>0, <2>1, <2>2, Numbers DEF IsTable
<1>2. Pointers(i, oi) = IF oi.ftype = "symlink" THEN {} ELSE {s \in refs : s[4] # 0}
  BY DEF Pointers
<1>3. r \in refs <=> \/ \E k \in 0..(NDIRECT - 1) : r = <<i, "direct", k, oi.direct[k]>>
                     \/ r = <<i, "indirect", 0, oi.indirect>>
                     \/ r = <<i, "indirect2", 0, oi.indirect2>>
                     \/ \E b, k : IsTable(word, oi, b) /\ k \in Slots /\ r = <<b, "word", k, word[b][k]>>
  <2> DEFINE tbl == (ind \ {0}) \cup ind2
  <2>1. \A b : b \in tbl <=> IsTable(word, oi, b)
    BY <1>1
  <2>2. refs = {<<i, "direct", k, oi.direct[k]>> : k \in DOMAIN oi.direct}
                   \cup {<<i, "indirect", 0, oi.indirect>>, <<i, "indirect2", 0, oi.indirect2>>}
                   \cup {<<b, "word", k, word[b][k]>> : b \in tbl, k \in DOMAIN Blank}
    OBVIOUS
  <2> HIDE DEF tbl, refs, ind, ind2
  <2>3. r \in {<<b, "word", k, word[b][k]>> : b \in tbl, k \in DOMAIN Blank}
          <=> \E b, k : IsTable(word, oi, b) /\ k \in Slots /\ r = <<b, "word", k, word[b][k]>>
    <3>1. r \in {<<b, "word", k, word[b][k]>> : b \in tbl, k \in DOMAIN Blank}
            <=> \E b \in tbl, k \in DOMAIN Blank : r = <<b, "word", k, word[b][k]>>
      OBVIOUS
    <3> QED BY <2>1, <3>1, Numbers
  <2>4. r \in {<<i, "direct", k, oi.direct[k]>> : k \in DOMAIN oi.direct}
          <=> \E k \in 0..(NDIRECT - 1) : r = <<i, "direct", k, oi.direct[k]>>
    BY <1>0, Zenon
  <2> QED BY <2>2, <2>3, <2>4
<1> HIDE DEF refs, ind, ind2
<1>4. r \in Pointers(i, oi) <=> oi.ftype # "symlink" /\ r \in refs /\ r[4] # 0
  BY <1>2
<1>5. ASSUME NEW h, NEW c, NEW k, NEW b, r = <<h, c, k, b>> PROVE r[4] = b
  BY <1>5
<1>6. ASSUME r \in Pointers(i, oi)
      PROVE  \E h, c, k, b : r = <<h, c, k, b>> /\ Pts(word, i, oi, h, c, k, b)
  <2>1. oi.ftype # "symlink" /\ r \in refs /\ r[4] # 0
    BY <1>4, <1>6
  <2>2. CASE \E k \in 0..(NDIRECT - 1) : r = <<i, "direct", k, oi.direct[k]>>
    <3>1. PICK k \in 0..(NDIRECT - 1) : r = <<i, "direct", k, oi.direct[k]>>
      BY <2>2
    <3>2. Pts(word, i, oi, i, "direct", k, oi.direct[k])
      BY <2>1, <3>1, <1>5 DEF Pts
    <3> QED BY <3>1, <3>2, Zenon
  <2>3. CASE r = <<i, "indirect", 0, oi.indirect>>
    <3>2. Pts(word, i, oi, i, "indirect", 0, oi.indirect)
      BY <2>1, <2>3, <1>5 DEF Pts
    <3> QED BY <2>3, <3>2, Zenon
  <2>4. CASE r = <<i, "indirect2", 0, oi.indirect2>>
    <3>2. Pts(word, i, oi, i, "indirect2", 0, oi.indirect2)
      BY <2>1, <2>4, <1>5 DEF Pts
    <3> QED BY <2>4, <3>2, Zenon
  <2>5. CASE \E b, k : IsTable(word, oi, b) /\ k \in Slots /\ r = <<b, "word", k, word[b][k]>>
    <3>1. PICK b, k : IsTable(word, oi, b) /\ k \in Slots /\ r = <<b, "word", k, word[b][k]>>
      BY <2>5
    <3>2. Pts(word, i, oi, b, "word", k, word[b][k])
      BY <2>1, <3>1, <1>5 DEF Pts
    <3> QED BY <3>1, <3>2, Zenon
  <2> QED BY <1>3, <2>1, <2>2, <2>3, <2>4, <2>5
<1>7. ASSUME NEW h, NEW c, NEW k, NEW b, r = <<h, c, k, b>>, Pts(word, i, oi, h, c, k, b)
      PROVE  r \in Pointers(i, oi)
  <2>1. r[4] # 0 /\ oi.ftype # "symlink"
    BY <1>5, <1>7 DEF Pts
  <2>2. r \in refs
    BY <1>3, <1>7, Zenon DEF Pts
  <2> QED BY <1>4, <2>1, <2>2
<1> QED
  BY <1>6, <1>7

LEMMA OwnedAre ==
  ASSUME word \in WordType, NEW i, NEW oi \in InodeType, NEW b
  PROVE  b \in Owned(i, oi) <=> Has(word, i, oi, b)
<1>1. b \in Owned(i, oi) <=> \E r \in Pointers(i, oi) : b = r[4]
  BY DEF Owned
<1>2. ASSUME NEW r \in Pointers(i, oi), b = r[4] PROVE Has(word, i, oi, b)
  <2>1. PICK h, c, k, bb : r = <<h, c, k, bb>> /\ Pts(word, i, oi, h, c, k, bb)
    BY <1>2, PointersAre
  <2>2. b = bb
    BY <1>2, <2>1
  <2> QED BY <2>1, <2>2 DEF Has
<1>3. ASSUME Has(word, i, oi, b) PROVE \E r \in Pointers(i, oi) : b = r[4]
  <2>1. PICK h, c, k : Pts(word, i, oi, h, c, k, b)
    BY <1>3 DEF Has
  <2>2. <<h, c, k, b>> \in Pointers(i, oi)
    BY <2>1, PointersAre, Zenon
  <2>3. <<h, c, k, b>>[4] = b
    OBVIOUS
  <2> QED BY <2>2, <2>3, Zenon
<1> QED BY <1>1, <1>2, <1>3

LEMMA PtsType ==
  ASSUME NEW w \in WordType, NEW i, NEW oi \in InodeType, NEW h, NEW c, NEW k, NEW b, Pts(w, i, oi, h, c, k, b)
  PROVE  b \in Blocks /\ b # 0
<1>1. /\ \A l \in 0..(NDIRECT - 1) : oi.direct[l] \in Blocks
      /\ oi.indirect \in Blocks /\ oi.indirect2 \in Blocks
      /\ \A g \in Blocks, l \in Slots : w[g][l] \in Blocks
  BY DEF InodeType, WordType
<1> QED
  BY <1>1 DEF Pts, IsTable

(* The indirect blocks of an inode are among its blocks. *)
LEMMA TableHeld ==
  ASSUME NEW w, NEW i, NEW oi \in InodeType, oi.ftype # "symlink", NEW h, IsTable(w, oi, h)
  PROVE  \/ Pts(w, i, oi, i, "indirect", 0, h)
         \/ Pts(w, i, oi, i, "indirect2", 0, h)
         \/ IsTable(w, oi, oi.indirect2) /\ \E l \in Slots : h = w[oi.indirect2][l] /\ Pts(w, i, oi, oi.indirect2, "word", l, h)
<1>1. h # 0 /\ h \in Blocks
  BY DEF IsTable
<1>2. CASE h = oi.indirect
  BY <1>1, <1>2 DEF Pts
<1>3. CASE h = oi.indirect2
  BY <1>1, <1>3 DEF Pts
<1>4. CASE oi.indirect2 # 0 /\ oi.indirect2 \in Blocks /\ \E k \in Slots : h = w[oi.indirect2][k]
  BY <1>1, <1>4 DEF Pts, IsTable
<1>5. oi.indirect2 \in Blocks
  BY DEF InodeType
<1> QED
  BY <1>2, <1>3, <1>4, <1>5 DEF IsTable

LEMMA TableHas ==
  ASSUME NEW w, NEW i, NEW oi \in InodeType, oi.ftype # "symlink", NEW h, IsTable(w, oi, h)
  PROVE  Has(w, i, oi, h)
BY TableHeld DEF Has

(* A block has one owner. *)
LEMMA OneOwner ==
  ASSUME NEW w \in WordType, NEW tab \in [Inodes -> InodeType], NEW fr, Separate(w, tab, fr),
         NEW i \in Inodes, NEW j \in Inodes, NEW b, Has(w, i, tab[i], b), Has(w, j, tab[j], b)
  PROVE  i = j
<1> DEFINE P(a, h, c, k, x) == Pts(w, a, tab[a], h, c, k, x)
<1>0. \A a, e \in Inodes : \A h, c, k, g, d, l, x : P(a, h, c, k, x) /\ P(e, g, d, l, x) => h = g /\ c = d /\ k = l
  BY Zenon DEF Separate
<1>1. ASSUME NEW a \in Inodes, NEW h, NEW c, NEW k, NEW x, P(a, h, c, k, x)
      PROVE  c \in {"direct", "indirect", "indirect2", "word"} /\ (c # "word" => h = a) /\ (c = "word" => IsTable(w, tab[a], h))
             /\ tab[a].ftype # "symlink"
  BY <1>1 DEF Pts
<1> HIDE DEF P
(* of an inode's own place *)
<1>2. ASSUME NEW a \in Inodes, NEW e \in Inodes, NEW h, NEW c, NEW k, NEW x, P(a, h, c, k, x), P(e, h, c, k, x), c # "word"
      PROVE  a = e
  BY <1>1, <1>2
<1>3. ASSUME NEW a \in Inodes, NEW h, NEW c, NEW k, NEW x, P(a, h, c, k, x), c = "word"
      PROVE  \/ P(a, a, "indirect", 0, h) \/ P(a, a, "indirect2", 0, h)
             \/ \E l : P(a, tab[a].indirect2, "word", l, h) /\ P(a, a, "indirect2", 0, tab[a].indirect2)
  <2>1. IsTable(w, tab[a], h) /\ tab[a].ftype # "symlink"
    BY <1>1, <1>3
  <2>2. IsTable(w, tab[a], tab[a].indirect2) => P(a, a, "indirect2", 0, tab[a].indirect2)
    BY <2>1 DEF IsTable, Pts, P
  <2> QED BY <2>1, <2>2, TableHeld DEF P
<1>4. ASSUME NEW a \in Inodes, NEW e \in Inodes, NEW h, NEW l, P(a, tab[a].indirect2, "word", l, h), P(a, a, "indirect2", 0, tab[a].indirect2),
             NEW m, P(e, tab[e].indirect2, "word", m, h), P(e, e, "indirect2", 0, tab[e].indirect2)
      PROVE  a = e
  <2>1. tab[a].indirect2 = tab[e].indirect2
    BY <1>0, <1>4
  <2> QED BY <1>0, <1>4, <2>1
<1>5. ASSUME NEW a \in Inodes, NEW e \in Inodes, NEW h, NEW l, P(a, a, "indirect2", 0, h), P(e, tab[e].indirect2, "word", l, h)
      PROVE  FALSE
  BY <1>0, <1>5
<1>6. ASSUME NEW a \in Inodes, NEW e \in Inodes, NEW h, NEW l, P(a, a, "indirect", 0, h), P(e, tab[e].indirect2, "word", l, h)
      PROVE  FALSE
  BY <1>0, <1>6
<1>7. ASSUME NEW a \in Inodes, NEW e \in Inodes, NEW h, P(a, a, "indirect2", 0, h), P(e, e, "indirect", 0, h)
      PROVE  FALSE
  BY <1>0, <1>7
<1>8. ASSUME NEW a \in Inodes, NEW e \in Inodes, NEW h, NEW c, P(a, a, c, 0, h), P(e, e, c, 0, h)
      PROVE  a = e
  BY <1>0, <1>8
<1>9. PICK h, c, k : P(i, h, c, k, b)
  BY DEF Has, P
<1>10. P(j, h, c, k, b)
  <2>1. PICK g, d, l : P(j, g, d, l, b)
    BY DEF Has, P
  <2> QED BY <1>0, <1>9, <2>1
<1>11. CASE c # "word"
  BY <1>2, <1>9, <1>10, <1>11
<1>12. CASE c = "word"
  <2>1. \/ P(i, i, "indirect", 0, h) \/ P(i, i, "indirect2", 0, h)
        \/ \E l : P(i, tab[i].indirect2, "word", l, h) /\ P(i, i, "indirect2", 0, tab[i].indirect2)
    BY <1>3, <1>9, <1>12
  <2>2. \/ P(j, j, "indirect", 0, h) \/ P(j, j, "indirect2", 0, h)
        \/ \E l : P(j, tab[j].indirect2, "word", l, h) /\ P(j, j, "indirect2", 0, tab[j].indirect2)
    BY <1>3, <1>10, <1>12
  <2> QED BY <1>4, <1>5, <1>6, <1>7, <1>8, <2>1, <2>2
<1> QED BY <1>11, <1>12

(* The words of an inode's indirect blocks determine its pointers. *)
LEMMA Unmoved ==
  ASSUME NEW w \in WordType, NEW w2 \in WordType, NEW i, NEW oi \in InodeType,
         oi.ftype # "symlink" => \A g : IsTable(w, oi, g) => w2[g] = w[g],
         NEW h, NEW c, NEW k, NEW b
  PROVE  Pts(w2, i, oi, h, c, k, b) <=> Pts(w, i, oi, h, c, k, b)
<1>1. CASE oi.ftype = "symlink"
  BY <1>1 DEF Pts
<1>2. CASE oi.ftype # "symlink"
  <2>1. oi.indirect2 # 0 => w2[oi.indirect2] = w[oi.indirect2]
    <3>1. oi.indirect2 \in Blocks
      BY DEF InodeType
    <3> QED BY <1>2, <3>1 DEF IsTable
  <2>2. IsTable(w2, oi, h) <=> IsTable(w, oi, h)
    BY <2>1 DEF IsTable
  <2>3. IsTable(w, oi, h) => w2[h] = w[h]
    BY <1>2
  <2> QED BY <2>2, <2>3 DEF Pts
<1> QED BY <1>1, <1>2

LEMMA SamePlaces ==
  ASSUME NEW w, NEW i, NEW oi, NEW oj, oj.ftype = oi.ftype, oj.direct = oi.direct,
         oj.indirect = oi.indirect, oj.indirect2 = oi.indirect2, NEW h, NEW c, NEW k, NEW b
  PROVE  Pts(w, i, oj, h, c, k, b) <=> Pts(w, i, oi, h, c, k, b)
BY DEF Pts, IsTable

-----------------------------------------------------------------------------
(* What a step does to the disk: inode i gets blocks of T, which were      *)
(* free, each in one place; the blocks it gives up may become free; only   *)
(* the words of free blocks and of i's own blocks change.                  *)
Rewires(i, T) ==
  /\ inode' \in [Inodes -> InodeType] /\ word' \in WordType
  /\ \A j \in Inodes : j # i => inode'[j] = inode[j]
  /\ T \subseteq free /\ T \cap free' = {}
  /\ \A g \in Blocks : word'[g] # word[g] => g \in free \/ Has(word, i, inode[i], g)
  /\ \A h, c, k, b : Pts(word', i, inode'[i], h, c, k, b) =>
       b \in T \/ (Pts(word, i, inode[i], h, c, k, b) /\ b \notin free')
  /\ \A h, c, k, g, d, l, b :
       Pts(word', i, inode'[i], h, c, k, b) /\ Pts(word', i, inode'[i], g, d, l, b) /\ b \in T
         => h = g /\ c = d /\ k = l
  /\ \A b \in free' : b \in free \/ Has(word, i, inode[i], b)

LEMMA OthersKept ==
  ASSUME DiskOK, NEW i \in Inodes, NEW T, Rewires(i, T), NEW j \in Inodes, j # i,
         NEW h, NEW c, NEW k, NEW b
  PROVE  Pts(word', j, inode'[j], h, c, k, b) <=> Pts(word, j, inode[j], h, c, k, b)
<1>1. word \in WordType /\ word' \in WordType /\ inode[j] \in InodeType /\ inode'[j] = inode[j]
      /\ inode \in [Inodes -> InodeType] /\ Separate(word, inode, free)
  BY DEF DiskOK, Rewires
<1>2. ASSUME inode[j].ftype # "symlink", NEW g, IsTable(word, inode[j], g) PROVE word'[g] = word[g]
  <2>1. g \in Blocks /\ Has(word, j, inode[j], g)
    BY <1>1, <1>2, TableHas DEF IsTable
  <2>2. g \notin free
    BY <1>1, <2>1 DEF Has, Separate
  <2>3. ~Has(word, i, inode[i], g)
    BY <1>1, <2>1, OneOwner
  <2> QED BY <2>1, <2>2, <2>3 DEF Rewires
<1> QED
  BY <1>1, <1>2, Unmoved

LEMMA RewiredSeparate ==
  ASSUME DiskOK, NEW i \in Inodes, NEW T, Rewires(i, T)
  PROVE  Separate(word', inode', free')
<1> DEFINE P(a, h, c, k, x) == Pts(word, a, inode[a], h, c, k, x)
           Q(a, h, c, k, x) == Pts(word', a, inode'[a], h, c, k, x)
<1>0. \A a, e \in Inodes : \A h, c, k, g, d, l, x : P(a, h, c, k, x) /\ P(e, g, d, l, x) => h = g /\ c = d /\ k = l
  BY Zenon DEF Separate, DiskOK
<1>1. \A a \in Inodes : \A h, c, k, b : P(a, h, c, k, b) => b \notin free /\ b >= BORDER
  BY Zenon DEF Separate, DiskOK
<1>2. ASSUME NEW a \in Inodes, NEW e \in Inodes, NEW h, NEW c, NEW k, NEW g, NEW d, NEW l, NEW b,
             P(a, h, c, k, b), P(e, g, d, l, b)
      PROVE  a = e
  <2>1. Has(word, a, inode[a], b) /\ Has(word, e, inode[e], b)
    BY <1>2, Zenon DEF Has
  <2> QED BY <2>1, OneOwner, Zenon DEF DiskOK
<1>3. \A j \in Inodes : j # i => \A h, c, k, b : Q(j, h, c, k, b) <=> P(j, h, c, k, b)
  BY OthersKept
<1>4. \A h, c, k, b : Q(i, h, c, k, b) => b \in T \/ (P(i, h, c, k, b) /\ b \notin free')
  BY Zenon DEF Rewires
<1>5. \A h, c, k, g, d, l, b : Q(i, h, c, k, b) /\ Q(i, g, d, l, b) /\ b \in T => h = g /\ c = d /\ k = l
  BY Zenon DEF Rewires
<1>6. T \subseteq free /\ T \cap free' = {} /\ free \subseteq (BORDER + 1)..(NBLOCKS - 1)
  BY DEF Rewires, DiskOK
<1>7. \A b \in free' : b \in free \/ \E h, c, k : P(i, h, c, k, b)
  BY DEF Rewires, Has
<1> HIDE DEF P, Q
<1>8. ASSUME NEW a \in Inodes, NEW e \in Inodes, NEW h, NEW c, NEW k, NEW g, NEW d, NEW l, NEW b,
             Q(a, h, c, k, b), Q(e, g, d, l, b)
      PROVE  h = g /\ c = d /\ k = l
  <2>1. CASE a # i /\ e # i
    BY <1>0, <1>3, <1>8, <2>1
  <2>2. CASE a = i /\ e # i
    <3>1. P(e, g, d, l, b)
      BY <1>3, <1>8, <2>2
    <3>2. b \notin T
      BY <1>1, <1>6, <3>1
    <3> QED BY <1>0, <1>4, <1>8, <2>2, <3>1, <3>2
  <2>3. CASE a # i /\ e = i
    <3>1. P(a, h, c, k, b)
      BY <1>3, <1>8, <2>3
    <3>2. b \notin T
      BY <1>1, <1>6, <3>1
    <3> QED BY <1>0, <1>4, <1>8, <2>3, <3>1, <3>2
  <2>4. CASE a = i /\ e = i /\ b \in T
    BY <1>5, <1>8, <2>4
  <2>5. CASE a = i /\ e = i /\ b \notin T
    BY <1>0, <1>4, <1>8, <2>5
  <2> QED BY <2>1, <2>2, <2>3, <2>4, <2>5
<1>9. ASSUME NEW a \in Inodes, NEW h, NEW c, NEW k, NEW b, Q(a, h, c, k, b)
      PROVE  b \notin free' /\ b >= BORDER
  <2>1. CASE a = i /\ b \in T
    BY <1>6, <2>1, Numbers
  <2>2. CASE a = i /\ b \notin T
    BY <1>1, <1>4, <1>9, <2>2
  <2>3. CASE a # i
    <3>1. P(a, h, c, k, b)
      BY <1>3, <1>9, <2>3
    <3>2. b \notin free /\ b >= BORDER
      BY <1>1, <3>1
    <3>3. ASSUME NEW g, NEW d, NEW l, P(i, g, d, l, b) PROVE FALSE
      BY <1>2, <2>3, <3>1, <3>3
    <3> QED BY <1>7, <3>2, <3>3
  <2> QED BY <2>1, <2>2, <2>3
<1>10. \A a, e \in Inodes : \A h, c, k, g, d, l, b : Q(a, h, c, k, b) /\ Q(e, g, d, l, b) => h = g /\ c = d /\ k = l
  BY <1>8
<1>11. \A a \in Inodes : \A h, c, k, b : Q(a, h, c, k, b) => b \notin free' /\ b >= BORDER
  BY <1>9
<1> QED
  BY <1>10, <1>11, Zenon DEF Separate, Q

LEMMA AwayFinite ==
  ASSUME NEW w, NEW tab, NEW fr, NEW i
  PROVE  /\ IsFiniteSet(Away(w, tab, fr, i)) /\ Cardinality(Away(w, tab, fr, i)) \in Nat
         /\ Cardinality(Away(w, tab, fr, i)) <= NBLOCKS - BORDER
<1>1. IsFiniteSet(BORDER..(NBLOCKS - 1)) /\ Cardinality(BORDER..(NBLOCKS - 1)) = NBLOCKS - BORDER
  BY Numbers, FS_Interval
<1>2. Away(w, tab, fr, i) \subseteq BORDER..(NBLOCKS - 1)
  BY DEF Away
<1> QED
  BY <1>1, <1>2, FS_Subset, FS_CardinalityType

LEMMA OthersHave ==
  ASSUME DiskOK, NEW i \in Inodes, NEW T, Rewires(i, T), NEW j \in Inodes, j # i, NEW b
  PROVE  Has(word', j, inode'[j], b) <=> Has(word, j, inode[j], b)
BY OthersKept DEF Has

LEMMA IHas ==
  ASSUME DiskOK, NEW i \in Inodes, NEW T, Rewires(i, T), NEW b, Has(word', i, inode'[i], b)
  PROVE  b \in T \/ Has(word, i, inode[i], b)
BY DEF Has, Rewires

(* The count of the inode concerned is enough. *)
LEMMA RewiredCounted ==
  ASSUME DiskOK, NEW i \in Inodes, NEW T, Rewires(i, T),
         inode'[i].ftype # "symlink" =>
           size2nblocks(inode'[i].size) <= Cardinality(Away(word', inode', free', i))
  PROVE  Counted(word', inode', free')
<1> SUFFICES ASSUME NEW j \in Inodes, j # i, inode'[j].ftype # "symlink"
             PROVE  size2nblocks(inode'[j].size) <= Cardinality(Away(word', inode', free', j))
  BY DEF Counted
<1> DEFINE A == Away(word, inode, free, j)
           B == Away(word', inode', free', j)
<1>1. inode'[j] = inode[j]
  BY DEF Rewires
<1>2. ASSUME NEW b \in A PROVE b \in B
  <2>1. /\ b \in BORDER..(NBLOCKS - 1) /\ b \notin free /\ b # inode[j].indirect /\ b # inode[j].indirect2
        /\ \A e \in Inodes \ {j} : ~Has(word, e, inode[e], b)
    BY DEF Away
  <2>2. ~Has(word, i, inode[i], b) /\ b \notin free'
    BY <2>1 DEF Rewires
  <2>3. ASSUME NEW e \in Inodes \ {j} PROVE ~Has(word', e, inode'[e], b)
    <3>1. CASE e # i
      BY <2>1, <3>1, OthersHave
    <3>2. CASE e = i
      <4>1. b \notin T
        BY <2>1 DEF Rewires
      <4> QED BY <2>2, <3>2, <4>1, IHas
    <3> QED BY <3>1, <3>2
  <2> QED BY <1>1, <2>1, <2>2, <2>3 DEF Away
<1>3. A \subseteq B
  BY <1>2
<1>4. Cardinality(A) \in Nat /\ Cardinality(B) \in Nat /\ IsFiniteSet(B)
  BY AwayFinite
<1>5. Cardinality(A) <= Cardinality(B)
  <2> HIDE DEF A, B
  <2> QED BY <1>3, <1>4, FS_Subset
<1>6. size2nblocks(inode[j].size) <= Cardinality(A)
  BY <1>1 DEF DiskOK, Counted
<1>7. size2nblocks(inode[j].size) \in Nat
  <2>1. inode[j].size \in 0..(WRAP - 1)
    BY DEF DiskOK, InodeType
  <2> QED BY <2>1, BlocksNat
<1> HIDE DEF A, B
<1> QED
  BY <1>1, <1>4, <1>5, <1>6, <1>7 DEF B

(* One block more. *)
LEMMA OneMore ==
  ASSUME DiskOK, NEW i \in Inodes, NEW T, Rewires(i, T), free' \subseteq free,
         NEW new \in T, new # inode'[i].indirect, new # inode'[i].indirect2,
         inode'[i].indirect \in {0, inode[i].indirect} \cup T,
         inode'[i].indirect2 \in {0, inode[i].indirect2} \cup T
  PROVE  Cardinality(Away(word', inode', free', i)) >= Cardinality(Away(word, inode, free, i)) + 1
<1> DEFINE A == Away(word, inode, free, i)
           B == Away(word', inode', free', i)
<1>0. T \subseteq free /\ T \cap free' = {} /\ free \subseteq (BORDER + 1)..(NBLOCKS - 1)
  BY DEF Rewires, DiskOK
<1>1. ASSUME NEW b \in A PROVE b \in B
  <2>1. /\ b \in BORDER..(NBLOCKS - 1) /\ b \notin free /\ b # inode[i].indirect /\ b # inode[i].indirect2
        /\ \A e \in Inodes \ {i} : ~Has(word, e, inode[e], b)
    BY DEF Away
  <2>2. b # 0 /\ b \notin T /\ b \notin free'
    BY <1>0, <2>1, Numbers
  <2>3. \A e \in Inodes \ {i} : ~Has(word', e, inode'[e], b)
    BY <2>1, OthersHave
  <2> QED BY <2>1, <2>2, <2>3 DEF Away
<1>2. new \in B
  <2>1. new \in BORDER..(NBLOCKS - 1) /\ new \in free /\ new \notin free'
    BY <1>0, Numbers
  <2>2. \A e \in Inodes : ~Has(word, e, inode[e], new)
    BY <2>1 DEF Has, DiskOK, Separate
  <2>3. \A e \in Inodes \ {i} : ~Has(word', e, inode'[e], new)
    BY <2>2, OthersHave
  <2> QED BY <2>1, <2>3 DEF Away
<1>3. new \notin A
  BY <1>0 DEF Away
<1>4. Cardinality(A) \in Nat /\ Cardinality(B) \in Nat /\ IsFiniteSet(B) /\ IsFiniteSet(A)
  BY AwayFinite
<1> HIDE DEF A, B
<1>5. A \cup {new} \subseteq B
  BY <1>1, <1>2
<1>6. Cardinality(A \cup {new}) = Cardinality(A) + 1 /\ Cardinality(A \cup {new}) <= Cardinality(B)
  BY <1>3, <1>4, <1>5, FS_AddElement, FS_Subset
<1> QED
  BY <1>4, <1>6 DEF A, B

(* One block less. *)
LEMMA OneLess ==
  ASSUME DiskOK, NEW i \in Inodes, NEW T, Rewires(i, T), NEW b,
         free' \subseteq free \cup {b, inode[i].indirect, inode[i].indirect2},
         inode'[i].indirect \in {0, inode[i].indirect},
         inode'[i].indirect2 \in {0, inode[i].indirect2}
  PROVE  Cardinality(Away(word', inode', free', i)) >= Cardinality(Away(word, inode, free, i)) - 1
<1> DEFINE A == Away(word, inode, free, i)
           B == Away(word', inode', free', i)
<1>1. ASSUME NEW x \in A, x # b PROVE x \in B
  <2>1. /\ x \in BORDER..(NBLOCKS - 1) /\ x \notin free /\ x # inode[i].indirect /\ x # inode[i].indirect2
        /\ \A e \in Inodes \ {i} : ~Has(word, e, inode[e], x)
    BY DEF Away
  <2>2. x # 0 /\ x \notin free'
    BY <1>1, <2>1, Numbers
  <2>3. \A e \in Inodes \ {i} : ~Has(word', e, inode'[e], x)
    BY <2>1, OthersHave
  <2> QED BY <2>1, <2>2, <2>3 DEF Away
<1>4. Cardinality(A) \in Nat /\ Cardinality(B) \in Nat /\ IsFiniteSet(B) /\ IsFiniteSet(A)
  BY AwayFinite
<1> HIDE DEF A, B
<1>5. A \ {b} \subseteq B
  BY <1>1
<1>6. Cardinality(A \ {b}) <= Cardinality(B)
  BY <1>4, <1>5, FS_Subset
<1>7. CASE b \in A
  <2>1. Cardinality(A \ {b}) = Cardinality(A) - 1
    BY <1>4, <1>7, FS_RemoveElement
  <2> QED BY <1>4, <1>6, <2>1 DEF A, B
<1>8. CASE b \notin A
  <2>1. A \ {b} = A
    BY <1>8
  <2> QED BY <1>4, <1>6, <2>1 DEF A, B
<1> QED
  BY <1>7, <1>8

LEMMA RewiredTags ==
  ASSUME DiskOK, TagsOK, NEW i \in Inodes, NEW T, Rewires(i, T),
         \A b \in Blocks : tag'[b] = 0 \/ (tag'[b] = tag[b] /\ b \notin T)
  PROVE  TagsOK'
<1> SUFFICES ASSUME NEW j \in Files, NEW b, Has(word', j, inode'[j], b)
             PROVE  tag'[b] \in {0, j}
  BY DEF TagsOK
<1>1. b \in Blocks
  BY FilesInodes, PtsType DEF Has, Rewires
<1>2. b \in T \/ Has(word, j, inode[j], b)
  BY FilesInodes, IHas, OthersHave
<1> QED
  BY <1>1, <1>2 DEF TagsOK

-----------------------------------------------------------------------------
(* add_block.                                                              *)
LEMMA Indices ==
  ASSUME NEW n \in Nat, n < MAXFILEBLKS
  PROVE  /\ n < NDIRECT => indir_index(n) = -1 /\ direct_index(n) = n
         /\ n >= NDIRECT => direct_index(n) \in Slots /\ indir_index(n) \in Slots
         /\ n >= NDIRECT /\ n < NDIRECT + NINDIRECT => indir_index(n) = 0 /\ direct_index(n) = n - NDIRECT
         /\ indir_index(n) > 0 => n >= NDIRECT + NINDIRECT
<1>1. n < NDIRECT => indir_index(n) = -1 /\ direct_index(n) = n
  BY DEF indir_index, direct_index
<1>2. n >= NDIRECT => direct_index(n) \in Slots
  BY Numbers DEF direct_index, Slots
<1>3. n >= NDIRECT /\ n < NDIRECT + NINDIRECT => indir_index(n) = 0 /\ direct_index(n) = n - NDIRECT
  <2>1. ASSUME n >= NDIRECT, n < NDIRECT + NINDIRECT PROVE direct_index(n) = n - NDIRECT
    <3>1. n - NDIRECT \in Nat /\ n - NDIRECT < NINDIRECT
      BY <2>1, Numbers
    <3>2. (n - NDIRECT) % NINDIRECT = n - NDIRECT
      BY <3>1, Numbers, ModSmall
    <3> QED BY <2>1, <3>2, Numbers DEF direct_index
  <2> QED BY <2>1, Numbers DEF indir_index
<1>4. n >= NDIRECT + NINDIRECT => indir_index(n) \in Slots
  <2> SUFFICES ASSUME n >= NDIRECT + NINDIRECT PROVE indir_index(n) \in Slots
    OBVIOUS
  <2> DEFINE x == n - NDIRECT - NINDIRECT
             q == x \div NINDIRECT
  <2>1. x \in Nat /\ x < NINDIRECT * NINDIRECT
    <3>1. NINDIRECT * NINDIRECT \in Nat
      BY Numbers
    <3> QED BY <3>1, Numbers DEF MAXFILEBLKS
  <2> HIDE DEF x
  <2>2. q \in Nat /\ NINDIRECT * q <= x
    BY <2>1, Numbers, DivBounds
  <2> HIDE DEF q
  <2>3. ASSUME q >= NINDIRECT PROVE FALSE
    <3>1. PICK d \in Nat : q = NINDIRECT + d
      <4>1. q - NINDIRECT \in Nat /\ q = NINDIRECT + (q - NINDIRECT)
        BY <2>2, <2>3, Numbers
      <4> QED BY <4>1
    <3>2. NINDIRECT * q = NINDIRECT * NINDIRECT + NINDIRECT * d /\ NINDIRECT * d >= 0
          /\ NINDIRECT * d \in Int /\ NINDIRECT * NINDIRECT \in Int
      BY <3>1, Numbers
    <3> QED BY <2>1, <2>2, <3>2
  <2>4. q \in Slots
    BY <2>2, <2>3, Numbers DEF Slots
  <2>5. indir_index(n) = q
    BY Numbers DEF indir_index, q, x
  <2> QED BY <2>4, <2>5
<1>5. indir_index(n) > 0 => n >= NDIRECT + NINDIRECT
  BY Numbers DEF indir_index
<1> QED
  BY <1>1, <1>2, <1>3, <1>4, <1>5, Numbers

(* allocate_block finds a block if there is one. *)
LEMMA Allocated ==
  ASSUME NEW S, S \subseteq Nat, S # {}
  PROVE  allocate_block(S) \in S
BY MinNat DEF allocate_block, Min

LEMMA LeftOver ==
  ASSUME NEW S, IsFiniteSet(S), NEW x
  PROVE  IsFiniteSet(S \ {x}) /\ Cardinality(S \ {x}) \in Nat /\ Cardinality(S \ {x}) >= Cardinality(S) - 1
<1>1. Cardinality(S) \in Nat
  BY FS_CardinalityType
<1>2. CASE x \in S
  <2>1. IsFiniteSet(S \ {x}) /\ Cardinality(S \ {x}) = Cardinality(S) - 1
    BY <1>2, FS_RemoveElement
  <2>2. Cardinality(S \ {x}) \in Nat
    BY <2>1, FS_CardinalityType
  <2> QED BY <1>1, <2>1, <2>2
<1>3. CASE x \notin S
  <2>1. S \ {x} = S
    BY <1>3
  <2> QED BY <1>1, <2>1
<1> QED
  BY <1>2, <1>3

LEMMA EnoughLeft ==
  ASSUME NEW S, IsFiniteSet(S), NEW x, NEW y
  PROVE  /\ Cardinality(S) >= 1 => S # {}
         /\ Cardinality(S) >= 2 => S \ {x} # {}
         /\ Cardinality(S) >= 3 => S \ {x, y} # {}
<1>0. Cardinality(S) \in Nat
  BY FS_CardinalityType
<1>1. Cardinality(S) >= 1 => S # {}
  BY FS_EmptySet
<1>2. IsFiniteSet(S \ {x}) /\ Cardinality(S \ {x}) \in Nat /\ Cardinality(S \ {x}) >= Cardinality(S) - 1
  BY LeftOver
<1>3. (S \ {x}) \ {y} = S \ {x, y}
  OBVIOUS
<1> DEFINE R == S \ {x}
<1>4. IsFiniteSet(R) /\ Cardinality(R) \in Nat /\ Cardinality(R) >= Cardinality(S) - 1
  BY <1>2
<1>5. R \ {y} = S \ {x, y}
  BY <1>3
<1> HIDE DEF R
<1>6. Cardinality(R \ {y}) \in Nat /\ Cardinality(R \ {y}) >= Cardinality(R) - 1
  BY <1>4, LeftOver
<1>7. Cardinality(S) >= 2 => R # {}
  BY <1>0, <1>4, FS_EmptySet
<1>8. Cardinality(S) >= 3 => R \ {y} # {}
  BY <1>0, <1>4, <1>6, FS_EmptySet
<1> QED
  BY <1>1, <1>5, <1>7, <1>8 DEF R

LEMMA FreeIs ==
  ASSUME DiskOK
  PROVE  /\ IsFiniteSet(free) /\ Cardinality(free) \in Nat /\ free \subseteq Blocks /\ free \subseteq Nat
         /\ \A b \in free : b > BORDER /\ b # 0 /\ b \in BORDER..(NBLOCKS - 1)
         /\ \A i \in Inodes : \A b : Has(word, i, inode[i], b) => b \notin free
<1>1. free \subseteq (BORDER + 1)..(NBLOCKS - 1)
  BY DEF DiskOK
<1>2. IsFiniteSet((BORDER + 1)..(NBLOCKS - 1))
  BY Numbers, FS_Interval
<1>3. IsFiniteSet(free) /\ Cardinality(free) \in Nat
  BY <1>1, <1>2, FS_Subset, FS_CardinalityType
<1>4. \A i \in Inodes : \A b : Has(word, i, inode[i], b) => b \notin free
  BY DEF DiskOK, Separate, Has
<1> QED
  BY <1>1, <1>3, <1>4, Numbers

(* While a block is free, a file's pointers have not run out. *)
LEMMA RoomLeft ==
  ASSUME DiskOK, NEW i \in Inodes, inode[i].ftype # "symlink", free # {}
  PROVE  size2nblocks(inode[i].size) \in Nat /\ size2nblocks(inode[i].size) < MAXFILEBLKS
         /\ size2nblocks(inode[i].size) < NBLOCKS
<1> DEFINE A == Away(word, inode, free, i)
           n == size2nblocks(inode[i].size)
<1>1. PICK f : f \in free
  OBVIOUS
<1>2. f \in BORDER..(NBLOCKS - 1) /\ f \notin A
  BY <1>1, FreeIs DEF Away
<1>3. IsFiniteSet(BORDER..(NBLOCKS - 1)) /\ Cardinality(BORDER..(NBLOCKS - 1)) = NBLOCKS - BORDER
  BY Numbers, FS_Interval
<1>4. IsFiniteSet(A) /\ Cardinality(A) \in Nat
  BY AwayFinite
<1>5. A \cup {f} \subseteq BORDER..(NBLOCKS - 1)
  BY <1>2 DEF Away
<1>6. n <= Cardinality(A)
  BY DEF DiskOK, Counted
<1>7. n \in Nat
  <2>1. inode[i].size \in 0..(WRAP - 1)
    BY DEF DiskOK, InodeType
  <2> QED BY <2>1, BlocksNat
<1> HIDE DEF A, n
<1>8. Cardinality(A) + 1 <= NBLOCKS - BORDER
  <2>1. Cardinality(A \cup {f}) = Cardinality(A) + 1
    BY <1>2, <1>4, FS_AddElement
  <2>2. Cardinality(A \cup {f}) <= Cardinality(BORDER..(NBLOCKS - 1))
    BY <1>3, <1>5, FS_Subset
  <2> QED BY <1>3, <2>1, <2>2
<1>9. MAXFILEBLKS \in Nat
  BY Numbers DEF MAXFILEBLKS
<1> QED
  BY <1>4, <1>6, <1>7, <1>8, <1>9, DiskAssumption, Numbers DEF n

(* The new pointers are at most three, to different blocks. *)
Wires(i, T, h1, c1, k1, b1, h2, c2, k2, b2, h3, c3, k3, b3) ==
  /\ T \subseteq free /\ free' = free \ T
  /\ inode' \in [Inodes -> InodeType] /\ word' \in WordType
  /\ \A j \in Inodes : j # i => inode'[j] = inode[j]
  /\ \A g \in Blocks : word'[g] # word[g] => g \in free \/ Has(word, i, inode[i], g)
  /\ b1 \in T /\ b2 \in T /\ b3 \in T
  /\ b1 = b2 => h1 = h2 /\ c1 = c2 /\ k1 = k2
  /\ b1 = b3 => h1 = h3 /\ c1 = c3 /\ k1 = k3
  /\ b2 = b3 => h2 = h3 /\ c2 = c3 /\ k2 = k3
  /\ \A h, c, k, b : Pts(word', i, inode'[i], h, c, k, b) =>
       \/ h = h1 /\ c = c1 /\ k = k1 /\ b = b1
       \/ h = h2 /\ c = c2 /\ k = k2 /\ b = b2
       \/ h = h3 /\ c = c3 /\ k = k3 /\ b = b3
       \/ Pts(word, i, inode[i], h, c, k, b)

LEMMA Wired ==
  ASSUME DiskOK, NEW i \in Inodes, NEW T,
         NEW h1, NEW c1, NEW k1, NEW b1, NEW h2, NEW c2, NEW k2, NEW b2, NEW h3, NEW c3, NEW k3, NEW b3,
         Wires(i, T, h1, c1, k1, b1, h2, c2, k2, b2, h3, c3, k3, b3)
  PROVE  Rewires(i, T)
<1> DEFINE P(h, c, k, x) == Pts(word, i, inode[i], h, c, k, x)
           Q(h, c, k, x) == Pts(word', i, inode'[i], h, c, k, x)
<1>1. \A h, c, k, b : P(h, c, k, b) => b \notin free
  BY DEF DiskOK, Separate
<1>2. \A h, c, k, b : Q(h, c, k, b) =>
           \/ h = h1 /\ c = c1 /\ k = k1 /\ b = b1
           \/ h = h2 /\ c = c2 /\ k = k2 /\ b = b2
           \/ h = h3 /\ c = c3 /\ k = k3 /\ b = b3
           \/ P(h, c, k, b)
  BY Zenon DEF Wires
<1> HIDE DEF P, Q
<1>a. /\ T \subseteq free /\ free' = free \ T /\ b1 \in T /\ b2 \in T /\ b3 \in T
      /\ b1 = b2 => h1 = h2 /\ c1 = c2 /\ k1 = k2
      /\ b1 = b3 => h1 = h3 /\ c1 = c3 /\ k1 = k3
      /\ b2 = b3 => h2 = h3 /\ c2 = c3 /\ k2 = k3
  BY DEF Wires
<1>3. \A h, c, k, b : Q(h, c, k, b) => b \in T \/ (P(h, c, k, b) /\ b \notin free')
  BY <1>1, <1>2, <1>a
<1>4. \A h, c, k, g, d, l, b : Q(h, c, k, b) /\ Q(g, d, l, b) /\ b \in T => h = g /\ c = d /\ k = l
  BY <1>1, <1>2, <1>a
<1>5. T \cap free' = {} /\ \A b \in free' : b \in free
  BY <1>a
<1> QED
  BY <1>3, <1>4, <1>5 DEF Rewires, Wires, P, Q

(* add_block has given inode i blocks T. *)
Added(i, T) ==
  /\ Rewires(i, T) /\ free' = free \ T
  /\ tag' \in [Blocks -> Inodes \cup {0}]
  /\ \A b \in Blocks : tag'[b] = 0 \/ (tag'[b] = tag[b] /\ b \notin T)
  /\ word'[0] = Blank
  /\ \E new \in T : new # inode'[i].indirect /\ new # inode'[i].indirect2
  /\ inode'[i].indirect \in {0, inode[i].indirect} \cup T
  /\ inode'[i].indirect2 \in {0, inode[i].indirect2} \cup T
  /\ inode'[i].size = grown(inode[i].size)
  /\ inode'[i].ftype = inode[i].ftype /\ inode'[i].nlink = inode[i].nlink

LEMMA ErasedIs ==
  ASSUME DiskOK, NEW S, S \subseteq free
  PROVE  /\ erased(S) \in WordType /\ erased(S)[0] = Blank
         /\ \A b \in Blocks : erased(S)[b] = IF b \in S THEN Blank ELSE word[b]
         /\ untagged(S) \in [Blocks -> Inodes \cup {0}]
         /\ \A b \in Blocks : untagged(S)[b] = IF b \in S THEN 0 ELSE tag[b]
<1>1. Blank \in [Slots -> Blocks]
  BY Numbers DEF Blank, Slots
<1>2. word \in [Blocks -> [Slots -> Blocks]] /\ tag \in [Blocks -> Inodes \cup {0}] /\ word[0] = Blank
  BY DEF DiskOK, WordType
<1>3. 0 \notin S /\ 0 \in Blocks
  BY FreeIs, Numbers
<1> QED
  BY <1>1, <1>2, <1>3 DEF erased, untagged, WordType

(* What is known of the inode before add_block. *)
LEMMA BeforeAdd ==
  ASSUME DiskOK, NEW i \in Inodes, inode[i].ftype # "symlink", free # {}
  PROVE  /\ inode[i].direct \in [0..(NDIRECT - 1) -> Blocks] /\ inode[i].indirect \in Blocks
         /\ inode[i].indirect2 \in Blocks /\ inode[i].size \in 0..(WRAP - 1) /\ inode[i].nlink \in Nat
         /\ inode[i].ftype \in {"reg", "dir", "symlink"}
         /\ grown(inode[i].size) \in 0..(WRAP - 1)
         /\ size2nblocks(grown(inode[i].size)) = size2nblocks(inode[i].size) + 1
         /\ \A h : IsTable(word, inode[i], h) => h \notin free /\ Has(word, i, inode[i], h)
         /\ inode[i].indirect \notin free /\ inode[i].indirect2 \notin free
         /\ \A h, c, k, b : Pts(word, i, inode[i], h, c, k, b) => b \notin free
<1>1. /\ inode[i].direct \in [0..(NDIRECT - 1) -> Blocks] /\ inode[i].indirect \in Blocks
      /\ inode[i].indirect2 \in Blocks /\ inode[i].size \in 0..(WRAP - 1) /\ inode[i].nlink \in Nat
      /\ inode[i].ftype \in {"reg", "dir", "symlink"} /\ inode[i] \in InodeType
  BY DEF DiskOK, InodeType
<1>2. size2nblocks(inode[i].size) + 1 < Limit
  BY RoomLeft, LimitIs, Numbers
<1>3. /\ grown(inode[i].size) \in 0..(WRAP - 1)
      /\ size2nblocks(grown(inode[i].size)) = size2nblocks(inode[i].size) + 1
  BY <1>1, <1>2, GrownBlocks
<1>4. \A h : IsTable(word, inode[i], h) => h \notin free /\ Has(word, i, inode[i], h)
  BY <1>1, TableHas, FreeIs
<1>5. inode[i].indirect \notin free /\ inode[i].indirect2 \notin free
  BY <1>1, <1>4, FreeIs DEF IsTable
<1>6. \A h, c, k, b : Pts(word, i, inode[i], h, c, k, b) => b \notin free
  BY FreeIs DEF Has
<1> QED
  BY <1>1, <1>3, <1>4, <1>5, <1>6

LEMMA AddDirect ==
  ASSUME DiskOK, NEW i \in Inodes, inode[i].ftype # "symlink", free # {}, NEW n \in Nat, n < MAXFILEBLKS, add_direct(i, n)
  PROVE  Added(i, {allocate_block(free)})
<1> DEFINE new == allocate_block(free)
           oi  == inode[i]
           oj  == inode'[i]
<1>1. new \in free /\ new \in Blocks
  BY Allocated, FreeIs
<1>2. n \in 0..(NDIRECT - 1)
  BY Indices, Numbers DEF add_direct, Slots
<1>3. /\ inode' = [inode EXCEPT ![i].direct[n] = new, ![i].size = grown(@)]
      /\ free' = free \ {new} /\ word' = erased({new}) /\ tag' = untagged({new})
  BY DEF add_direct
<1>4. inode \in [Inodes -> InodeType]
  BY DEF DiskOK
<1> HIDE DEF new
<1>5. /\ oj.direct = [oi.direct EXCEPT ![n] = new] /\ oj.size = grown(oi.size)
      /\ oj.indirect = oi.indirect /\ oj.indirect2 = oi.indirect2 /\ oj.ftype = oi.ftype /\ oj.nlink = oi.nlink
      /\ oj = [oi EXCEPT !.direct = [oi.direct EXCEPT ![n] = new], !.size = grown(oi.size)]
      /\ DOMAIN inode' = Inodes /\ \A j \in Inodes : j # i => inode'[j] = inode[j]
  BY <1>3, <1>4 DEF InodeType
<1>6. inode' \in [Inodes -> InodeType]
  <2>1. oj \in InodeType
    <3> DEFINE nd == [oi.direct EXCEPT ![n] = new]
    <3>1. nd \in [0..(NDIRECT - 1) -> Blocks] /\ oi \in InodeType /\ grown(oi.size) \in 0..(WRAP - 1)
      BY <1>1, <1>4, BeforeAdd
    <3> HIDE DEF nd
    <3>2. oj = [oi EXCEPT !.direct = nd, !.size = grown(oi.size)]
      BY <1>5 DEF nd
    <3> QED BY <3>1, <3>2 DEF InodeType
  <2>2. inode' = [j \in Inodes |-> inode'[j]]
    BY <1>3, <1>4
  <2> QED BY <1>4, <1>5, <2>1, <2>2
<1>7. /\ word' \in WordType /\ word'[0] = Blank
      /\ \A b \in Blocks : word'[b] = IF b = new THEN Blank ELSE word[b]
      /\ tag' \in [Blocks -> Inodes \cup {0}] /\ \A b \in Blocks : tag'[b] = IF b = new THEN 0 ELSE tag[b]
  BY <1>1, <1>3, ErasedIs
<1>8. \A h : IsTable(word', oj, h) => IsTable(word, oi, h) /\ word'[h] = word[h]
  <2>1. oi.indirect2 # new /\ oi.indirect # new
    BY <1>1, BeforeAdd
  <2>2. oi.indirect2 # 0 => word'[oi.indirect2] = word[oi.indirect2]
    BY <1>7, <2>1, BeforeAdd
  <2>3. \A h : IsTable(word', oj, h) => IsTable(word, oi, h)
    BY <1>5, <2>2 DEF IsTable
  <2> QED BY <1>1, <1>7, <2>3, BeforeAdd DEF IsTable
<1>9. ASSUME NEW h, NEW c, NEW k, NEW b, Pts(word', i, oj, h, c, k, b)
      PROVE  (h = i /\ c = "direct" /\ k = n /\ b = new) \/ Pts(word, i, oi, h, c, k, b)
  <2>1. CASE c = "word"
    BY <1>5, <1>8, <1>9, <2>1 DEF Pts
  <2>2. CASE c # "word"
    BY <1>2, <1>5, <1>9, <2>2, BeforeAdd DEF Pts
  <2> QED BY <2>1, <2>2
<1>10. Rewires(i, {new})
  <2>1. \A g \in Blocks : word'[g] # word[g] => g \in free \/ Has(word, i, inode[i], g)
    BY <1>1, <1>7
  <2>2. Wires(i, {new}, i, "direct", n, new, i, "direct", n, new, i, "direct", n, new)
    BY <1>1, <1>3, <1>5, <1>6, <1>7, <1>9, <2>1 DEF Wires
  <2> QED BY <2>2, Wired
<1>11. Added(i, {new})
  <2>1. \A b \in Blocks : tag'[b] = 0 \/ (tag'[b] = tag[b] /\ b \notin {new})
    BY <1>7
  <2>2. new \in {new} /\ new # oj.indirect /\ new # oj.indirect2
    BY <1>1, <1>5, BeforeAdd
  <2>3. oj.indirect \in {0, oi.indirect} \cup {new} /\ oj.indirect2 \in {0, oi.indirect2} \cup {new}
    BY <1>5
  <2> QED BY <1>3, <1>5, <1>7, <1>10, <2>1, <2>2, <2>3 DEF Added
<1> QED
  BY <1>11 DEF new

(* The two indirect blocks of an inode differ. *)
LEMMA TablesDiffer ==
  ASSUME DiskOK, NEW i \in Inodes, inode[i].ftype # "symlink"
  PROVE  /\ inode[i].indirect # 0 => inode[i].indirect # inode[i].indirect2
         /\ inode[i].indirect2 # 0 => \A k \in Slots : word[inode[i].indirect2][k] # 0 =>
              /\ word[inode[i].indirect2][k] # inode[i].indirect /\ word[inode[i].indirect2][k] # inode[i].indirect2
<1> DEFINE P(h, c, k, x) == Pts(word, i, inode[i], h, c, k, x)
<1>0. \A h, c, k, g, d, l, x : P(h, c, k, x) /\ P(g, d, l, x) => h = g /\ c = d /\ k = l
  BY Zenon DEF Separate, DiskOK
<1>1. inode[i].indirect # 0 => P(i, "indirect", 0, inode[i].indirect)
  BY DEF Pts
<1>2. inode[i].indirect2 # 0 => P(i, "indirect2", 0, inode[i].indirect2)
  BY DEF Pts
<1>3. \A k \in Slots : inode[i].indirect2 # 0 /\ word[inode[i].indirect2][k] # 0
        => P(inode[i].indirect2, "word", k, word[inode[i].indirect2][k])
  <2>1. inode[i].indirect2 \in Blocks
    BY DEF DiskOK, InodeType
  <2> QED BY <2>1 DEF Pts, IsTable
<1> HIDE DEF P
<1>4. inode[i].indirect # 0 => inode[i].indirect # inode[i].indirect2
  BY <1>0, <1>1, <1>2
<1> QED
  BY <1>0, <1>1, <1>2, <1>3, <1>4

LEMMA AddIndirect ==
  ASSUME DiskOK, NEW i \in Inodes, inode[i].ftype # "symlink", free # {}, NEW n \in Nat, n < MAXFILEBLKS,
         add_indirect(i, n), missing(inode[i], n) <= Cardinality(free)
  PROVE  \E T : Added(i, T)
<1> DEFINE oi  == inode[i]
           oj  == inode'[i]
           ind == IF oi.indirect = 0 THEN allocate_block(free) ELSE oi.indirect
           new == allocate_block(free \ {ind})
           T   == {new, ind} \ {oi.indirect}
           kk  == direct_index(n)
<1>0. indir_index(n) = 0 /\ kk \in Slots
  BY Indices, Numbers DEF add_indirect
<1>1. oi.indirect = 0 => missing(oi, n) = 2
  BY <1>0 DEF missing
<1>2. ind \in Blocks /\ ind # 0 /\ (ind = oi.indirect \/ (oi.indirect = 0 /\ ind \in free))
  BY Allocated, FreeIs, BeforeAdd
<1>3. free \ {ind} # {}
  <2>1. CASE oi.indirect = 0
    BY <1>1, <2>1, EnoughLeft, FreeIs
  <2>2. CASE oi.indirect # 0
    BY <2>2, BeforeAdd
  <2> QED BY <2>1, <2>2
<1> HIDE DEF ind
<1>4. new \in free /\ new # ind /\ new \in Blocks /\ new # 0
  <2>1. free \ {ind} \subseteq Nat
    BY FreeIs
  <2>2. new \in free \ {ind}
    BY <1>3, <2>1, Allocated
  <2> QED BY <2>2, FreeIs
<1>5. /\ inode' = [inode EXCEPT ![i].indirect = ind, ![i].size = grown(@)]
      /\ free' = free \ T
      /\ word' = [erased(T) EXCEPT ![ind][kk] = new]
      /\ tag' = untagged(T)
  BY DEF add_indirect, ind
<1> HIDE DEF new, kk
<1>6. T \subseteq free /\ new \in T /\ (oi.indirect = 0 => ind \in T) /\ (oi.indirect # 0 => T = {new} /\ ind \notin T)
      /\ \A b \in T : b = new \/ b = ind
  BY <1>2, <1>4, BeforeAdd, FreeIs
<1> HIDE DEF T
<1>7. /\ oj.indirect = ind /\ oj.size = grown(oi.size)
      /\ oj.direct = oi.direct /\ oj.indirect2 = oi.indirect2 /\ oj.ftype = oi.ftype /\ oj.nlink = oi.nlink
      /\ oj = [oi EXCEPT !.indirect = ind, !.size = grown(oi.size)]
      /\ inode' = [j \in Inodes |-> inode'[j]] /\ \A j \in Inodes : j # i => inode'[j] = inode[j]
      /\ inode \in [Inodes -> InodeType]
  BY <1>5 DEF InodeType, DiskOK
<1>8. inode' \in [Inodes -> InodeType]
  <2>1. oj \in InodeType
    <3>1. oi \in InodeType /\ grown(oi.size) \in 0..(WRAP - 1)
      BY <1>7, BeforeAdd
    <3> QED BY <1>2, <1>7, <3>1 DEF InodeType
  <2> QED BY <1>7, <2>1
<1>9. /\ word' \in WordType /\ word'[0] = Blank
      /\ \A b \in Blocks : b # ind => word'[b] = IF b \in T THEN Blank ELSE word[b]
      /\ word'[ind][kk] = new
      /\ \A k \in Slots : k # kk => word'[ind][k] = IF ind \in T THEN 0 ELSE word[ind][k]
  <2>1. /\ erased(T) \in WordType /\ erased(T)[0] = Blank
        /\ \A b \in Blocks : erased(T)[b] = IF b \in T THEN Blank ELSE word[b]
    BY <1>6, ErasedIs
  <2>2. Blank = [k \in Slots |-> 0]
    BY DEF Blank, Slots
  <2> DEFINE e == erased(T)
  <2> HIDE DEF e
  <2>3. e \in [Blocks -> [Slots -> Blocks]] /\ e[0] = Blank /\ word' = [e EXCEPT ![ind][kk] = new]
        /\ \A b \in Blocks : e[b] = IF b \in T THEN Blank ELSE word[b]
    BY <1>5, <2>1 DEF e, WordType
  <2>4. word' \in [Blocks -> [Slots -> Blocks]]
    BY <1>0, <1>2, <1>4, <2>3
  <2>5. word'[ind][kk] = new /\ \A k \in Slots : k # kk => word'[ind][k] = e[ind][k]
    BY <1>0, <1>2, <2>3
  <2>6. \A b \in Blocks : b # ind => word'[b] = e[b]
    BY <1>2, <2>3
  <2>7. word'[0] = Blank
    BY <1>2, <2>3, <2>6, Numbers
  <2> QED BY <1>2, <2>2, <2>3, <2>4, <2>5, <2>6, <2>7 DEF WordType
<1>10. tag' \in [Blocks -> Inodes \cup {0}] /\ \A b \in Blocks : tag'[b] = IF b \in T THEN 0 ELSE tag[b]
  BY <1>5, <1>6, ErasedIs
<1>11. oi.indirect2 # 0 => oi.indirect2 # ind /\ oi.indirect2 \notin T /\ word'[oi.indirect2] = word[oi.indirect2]
  <2>1. oi.indirect2 # 0 => oi.indirect2 # ind
    BY <1>2, TablesDiffer, BeforeAdd
  <2>2. oi.indirect2 # 0 => oi.indirect2 \notin T
    BY <1>6, BeforeAdd
  <2> QED BY <1>9, <2>1, <2>2, BeforeAdd
<1>12. \A h : IsTable(word', oj, h) /\ h # ind => IsTable(word, oi, h) /\ word'[h] = word[h]
  <2>1. \A h : IsTable(word', oj, h) /\ h # ind => IsTable(word, oi, h)
    BY <1>7, <1>11 DEF IsTable
  <2> QED BY <1>6, <1>9, <2>1, BeforeAdd DEF IsTable
<1>13. ASSUME NEW h, NEW c, NEW k, NEW b, Pts(word', i, oj, h, c, k, b)
      PROVE  \/ h = ind /\ c = "word" /\ k = kk /\ b = new
             \/ oi.indirect = 0 /\ h = i /\ c = "indirect" /\ k = 0 /\ b = ind
             \/ Pts(word, i, oi, h, c, k, b)
  <2>1. CASE c = "word" /\ h # ind
    BY <1>7, <1>12, <1>13, <2>1 DEF Pts
  <2>2. CASE c = "word" /\ h = ind /\ k # kk
    <3>1. k \in Slots /\ b = word'[ind][k] /\ b # 0
      BY <1>13, <2>2 DEF Pts
    <3>2. ind \notin T /\ b = word[ind][k]
      BY <1>9, <2>2, <3>1
    <3>3. IsTable(word, oi, ind)
      BY <1>2, <1>6, <3>2 DEF IsTable
    <3> QED BY <2>2, <3>1, <3>2, <3>3 DEF Pts
  <2>3. CASE c = "word" /\ h = ind /\ k = kk
    BY <1>9, <1>13, <2>3 DEF Pts
  <2>4. CASE c # "word"
    BY <1>2, <1>7, <1>13, <2>4 DEF Pts
  <2> QED BY <2>1, <2>2, <2>3, <2>4
<1>14. \A g \in Blocks : word'[g] # word[g] => g \in free \/ Has(word, i, inode[i], g)
  <2>1. oi.indirect # 0 => Has(word, i, oi, oi.indirect)
    BY BeforeAdd DEF IsTable
  <2> QED BY <1>2, <1>6, <1>9, <2>1
<1>15. Rewires(i, T)
  <2>1. CASE oi.indirect = 0
    <3>1. Wires(i, T, ind, "word", kk, new, i, "indirect", 0, ind, i, "indirect", 0, ind)
      BY <1>4, <1>5, <1>6, <1>7, <1>8, <1>9, <1>13, <1>14, <2>1 DEF Wires
    <3> QED BY <3>1, Wired
  <2>2. CASE oi.indirect # 0
    <3>1. Wires(i, T, ind, "word", kk, new, ind, "word", kk, new, ind, "word", kk, new)
      BY <1>4, <1>5, <1>6, <1>7, <1>8, <1>9, <1>13, <1>14, <2>2 DEF Wires
    <3> QED BY <3>1, Wired
  <2> QED BY <2>1, <2>2
<1>16. Added(i, T)
  <2>1. \A b \in Blocks : tag'[b] = 0 \/ (tag'[b] = tag[b] /\ b \notin T)
    BY <1>10
  <2>2. new \in T /\ new # oj.indirect /\ new # oj.indirect2
    BY <1>4, <1>6, <1>7, BeforeAdd
  <2>3. oj.indirect \in {0, oi.indirect} \cup T /\ oj.indirect2 \in {0, oi.indirect2} \cup T
    BY <1>2, <1>6, <1>7
  <2> QED BY <1>5, <1>7, <1>9, <1>10, <1>15, <2>1, <2>2, <2>3 DEF Added
<1> QED
  BY <1>16

LEMMA AddIndirect2 ==
  ASSUME DiskOK, NEW i \in Inodes, inode[i].ftype # "symlink", free # {}, NEW n \in Nat, n < MAXFILEBLKS,
         add_indirect2(i, n), missing(inode[i], n) <= Cardinality(free)
  PROVE  \E T : Added(i, T)
<1> DEFINE oi   == inode[i]
           oj   == inode'[i]
           x    == indir_index(n)
           kk   == direct_index(n)
           ind2 == IF oi.indirect2 = 0 THEN allocate_block(free) ELSE oi.indirect2
           old  == IF oi.indirect2 = 0 THEN 0 ELSE word[ind2][x]
           ind  == IF old = 0 THEN allocate_block(free \ {ind2}) ELSE old
           new  == allocate_block(free \ {ind2, ind})
           T    == {new, ind, ind2} \ {old, oi.indirect2}
<1>0. x > 0 /\ x \in Slots /\ kk \in Slots
  <2>1. x > 0
    BY DEF add_indirect2
  <2>2. n >= NDIRECT + NINDIRECT
    BY <2>1, Indices
  <2>3. n >= NDIRECT
    BY <2>2, Numbers
  <2> QED BY <2>1, <2>3, Indices
<1>1. /\ inode' = [inode EXCEPT ![i].indirect2 = ind2, ![i].size = grown(@)]
      /\ free' = free \ T
      /\ word' = [erased(T) EXCEPT ![ind2][x] = ind, ![ind][kk] = new]
      /\ tag' = untagged(T)
  BY DEF add_indirect2
<1>2. /\ oi.indirect2 = 0 => Cardinality(free) >= 3
      /\ oi.indirect2 # 0 /\ word[oi.indirect2][x] = 0 => Cardinality(free) >= 2
  <2>1. x # -1 /\ x # 0 /\ x \in Int
    BY <1>0, Numbers
  <2>2. missing(oi, n) = 1 + (IF oi.indirect2 = 0 \/ word[oi.indirect2][x] = 0 THEN 1 ELSE 0) + (IF oi.indirect2 = 0 THEN 1 ELSE 0)
    BY <2>1 DEF missing
  <2> QED BY <2>2, FreeIs
<1>3. ind2 \in Blocks /\ ind2 # 0 /\ ((ind2 = oi.indirect2 /\ ind2 \notin free) \/ (oi.indirect2 = 0 /\ ind2 \in free))
  BY Allocated, FreeIs, BeforeAdd
<1>4. (oi.indirect2 = 0 => old = 0) /\ (oi.indirect2 # 0 => ind2 = oi.indirect2 /\ old = word[oi.indirect2][x])
  OBVIOUS
<1> HIDE DEF ind2, x, kk
<1>5. old \in Blocks
  <2>1. \A b \in Blocks, k \in Slots : word[b][k] \in Blocks
    BY DEF DiskOK, WordType
  <2>2. oi.indirect2 \in Blocks /\ 0 \in Blocks
    BY BeforeAdd, Numbers
  <2> HIDE DEF old
  <2> QED BY <1>0, <1>4, <2>1, <2>2
<1>6. old # 0 => old # ind2 /\ old # oi.indirect /\ old \notin free /\ oi.indirect2 # 0 /\ IsTable(word, oi, old)
  <2>1. old # 0 => oi.indirect2 # 0 /\ IsTable(word, oi, old)
    BY <1>0, <1>4, <1>5 DEF IsTable
  <2> QED BY <1>0, <1>4, <2>1, TablesDiffer, BeforeAdd
<1> HIDE DEF old
<1>7. ind \in Blocks /\ ind # 0 /\ ind # ind2 /\ ((ind = old /\ ind \notin free) \/ (old = 0 /\ ind \in free))
  <2>1. CASE old = 0
    <3>1. free \ {ind2} # {} /\ free \ {ind2} \subseteq Nat
      BY <1>2, <1>4, <2>1, EnoughLeft, FreeIs
    <3>2. ind \in free \ {ind2}
      BY <2>1, <3>1, Allocated
    <3> QED BY <2>1, <3>2, FreeIs
  <2>2. CASE old # 0
    BY <1>5, <1>6, <2>2
  <2> QED BY <2>1, <2>2
<1> HIDE DEF ind
<1>8. new \in free /\ new # ind /\ new # ind2 /\ new \in Blocks /\ new # 0
  <2>1. free \ {ind2, ind} # {}
    <3>1. CASE oi.indirect2 = 0
      BY <1>2, <3>1, EnoughLeft, FreeIs
    <3>2. CASE oi.indirect2 # 0 /\ old = 0
      <4>1. free \ {ind2, ind} = free \ {ind}
        BY <1>3, <3>2
      <4>2. free \ {ind} # {}
        BY <1>2, <1>4, <3>2, EnoughLeft, FreeIs
      <4> QED BY <4>1, <4>2
    <3>3. CASE oi.indirect2 # 0 /\ old # 0
      BY <1>3, <1>7, <3>3
    <3> QED BY <3>1, <3>2, <3>3
  <2>2. free \ {ind2, ind} \subseteq Nat
    BY FreeIs
  <2>3. new \in free \ {ind2, ind}
    BY <2>1, <2>2, Allocated
  <2> QED BY <2>3, FreeIs
<1> HIDE DEF new
<1>9. T \subseteq free /\ new \in T /\ (ind \in T <=> old = 0) /\ (ind2 \in T <=> oi.indirect2 = 0)
      /\ \A b \in T : b = new \/ b = ind \/ b = ind2
  BY <1>3, <1>4, <1>7, <1>8, BeforeAdd, FreeIs
<1> HIDE DEF T
<1>10. /\ oj.indirect2 = ind2 /\ oj.size = grown(oi.size)
       /\ oj.direct = oi.direct /\ oj.indirect = oi.indirect /\ oj.ftype = oi.ftype /\ oj.nlink = oi.nlink
       /\ oj = [oi EXCEPT !.indirect2 = ind2, !.size = grown(oi.size)]
       /\ inode' = [j \in Inodes |-> inode'[j]] /\ \A j \in Inodes : j # i => inode'[j] = inode[j]
       /\ inode \in [Inodes -> InodeType]
  BY <1>1 DEF InodeType, DiskOK
<1>11. inode' \in [Inodes -> InodeType]
  <2>1. oj \in InodeType
    <3>1. oi \in InodeType /\ grown(oi.size) \in 0..(WRAP - 1)
      BY <1>10, BeforeAdd
    <3> QED BY <1>3, <1>10, <3>1 DEF InodeType
  <2> QED BY <1>10, <2>1
<1>12. /\ word' \in WordType /\ word'[0] = Blank
       /\ \A b \in Blocks : b # ind /\ b # ind2 => word'[b] = IF b \in T THEN Blank ELSE word[b]
       /\ word'[ind][kk] = new
       /\ \A k \in Slots : k # kk => word'[ind][k] = IF ind \in T THEN 0 ELSE word[ind][k]
       /\ word'[ind2][x] = ind
       /\ \A k \in Slots : k # x => word'[ind2][k] = IF ind2 \in T THEN 0 ELSE word[ind2][k]
  <2>1. /\ erased(T) \in WordType /\ erased(T)[0] = Blank
        /\ \A b \in Blocks : erased(T)[b] = IF b \in T THEN Blank ELSE word[b]
    BY <1>9, ErasedIs
  <2>2. Blank = [k \in Slots |-> 0]
    BY DEF Blank, Slots
  <2> DEFINE e == erased(T)
             f == [e EXCEPT ![ind2][x] = ind]
  <2> HIDE DEF e
  <2>3. e \in [Blocks -> [Slots -> Blocks]] /\ e[0] = Blank /\ word' = [f EXCEPT ![ind][kk] = new]
        /\ \A b \in Blocks : e[b] = IF b \in T THEN Blank ELSE word[b]
    BY <1>1, <2>1 DEF e, WordType
  <2>4. /\ f \in [Blocks -> [Slots -> Blocks]] /\ f[ind2][x] = ind
        /\ \A k \in Slots : k # x => f[ind2][k] = e[ind2][k]
        /\ \A b \in Blocks : b # ind2 => f[b] = e[b]
    BY <1>0, <1>3, <1>7, <2>3
  <2> HIDE DEF f
  <2>5. word' \in [Blocks -> [Slots -> Blocks]]
    BY <1>0, <1>7, <1>8, <2>3, <2>4
  <2>6. word'[ind][kk] = new /\ \A k \in Slots : k # kk => word'[ind][k] = f[ind][k]
    BY <1>0, <1>7, <2>3, <2>4
  <2>7. \A b \in Blocks : b # ind => word'[b] = f[b]
    BY <1>7, <2>3, <2>4
  <2>8. word'[0] = Blank
    BY <1>3, <1>7, <2>3, <2>4, <2>7, Numbers
  <2>8a. \A b \in Blocks, k \in Slots : e[b][k] = IF b \in T THEN 0 ELSE word[b][k]
    BY <2>2, <2>3
  <2>9. /\ word'[ind2][x] = ind
        /\ \A k \in Slots : k # x => word'[ind2][k] = IF ind2 \in T THEN 0 ELSE word[ind2][k]
    BY <1>3, <1>7, <2>4, <2>7, <2>8a
  <2>10. \A k \in Slots : k # kk => word'[ind][k] = IF ind \in T THEN 0 ELSE word[ind][k]
    <3>1. f[ind] = e[ind]
      BY <1>7, <2>4
    <3> QED BY <1>7, <2>6, <2>8a, <3>1
  <2>11. \A b \in Blocks : b # ind /\ b # ind2 => word'[b] = IF b \in T THEN Blank ELSE word[b]
    BY <2>3, <2>4, <2>7
  <2> QED BY <2>5, <2>6, <2>8, <2>9, <2>10, <2>11 DEF WordType
<1>13. tag' \in [Blocks -> Inodes \cup {0}] /\ \A b \in Blocks : tag'[b] = IF b \in T THEN 0 ELSE tag[b]
  BY <1>1, <1>9, ErasedIs
<1>14. \A h : IsTable(word', oj, h) /\ h # ind /\ h # ind2 => IsTable(word, oi, h) /\ word'[h] = word[h]
  <2>1. \A h : IsTable(word', oj, h) /\ h # ind /\ h # ind2 => IsTable(word, oi, h)
    <3> SUFFICES ASSUME NEW h, IsTable(word', oj, h), h # ind, h # ind2 PROVE IsTable(word, oi, h)
      OBVIOUS
    <3>1. CASE h = oi.indirect
      BY <3>1 DEF IsTable
    <3>2. CASE h # oi.indirect
      <4>1. PICK k \in Slots : h = word'[ind2][k] /\ h # 0 /\ h \in Blocks
        BY <1>10, <3>2 DEF IsTable
      <4>2. k # x /\ ind2 \notin T /\ h = word[ind2][k]
        BY <1>12, <4>1
      <4> QED BY <1>4, <1>9, <4>1, <4>2 DEF IsTable
    <3> QED BY <3>1, <3>2
  <2> QED BY <1>9, <1>12, <2>1, BeforeAdd DEF IsTable
<1>15. ASSUME NEW h, NEW c, NEW k, NEW b, Pts(word', i, oj, h, c, k, b)
      PROVE  \/ h = ind /\ c = "word" /\ k = kk /\ b = new
             \/ old = 0 /\ h = ind2 /\ c = "word" /\ k = x /\ b = ind
             \/ oi.indirect2 = 0 /\ h = i /\ c = "indirect2" /\ k = 0 /\ b = ind2
             \/ Pts(word, i, oi, h, c, k, b)
  <2>1. CASE c = "word" /\ h # ind /\ h # ind2
    BY <1>10, <1>14, <1>15, <2>1 DEF Pts
  <2>2. CASE c = "word" /\ h = ind /\ k # kk
    <3>1. k \in Slots /\ b = word'[ind][k] /\ b # 0
      BY <1>15, <2>2 DEF Pts
    <3>2. ind \notin T /\ b = word[ind][k]
      BY <1>12, <2>2, <3>1
    <3>3. IsTable(word, oi, ind)
      BY <1>6, <1>7, <1>9, <3>2
    <3> QED BY <2>2, <3>1, <3>2, <3>3 DEF Pts
  <2>3. CASE c = "word" /\ h = ind /\ k = kk
    BY <1>12, <1>15, <2>3 DEF Pts
  <2>4. CASE c = "word" /\ h = ind2 /\ k # x
    <3>1. k \in Slots /\ b = word'[ind2][k] /\ b # 0
      BY <1>15, <2>4 DEF Pts
    <3>2. ind2 \notin T /\ b = word[ind2][k]
      BY <1>12, <2>4, <3>1
    <3>3. IsTable(word, oi, ind2)
      BY <1>3, <1>9, <3>2 DEF IsTable
    <3> QED BY <2>4, <3>1, <3>2, <3>3 DEF Pts
  <2>5. CASE c = "word" /\ h = ind2 /\ k = x
    <3>1. b = ind
      BY <1>12, <1>15, <2>5 DEF Pts
    <3>2. CASE old # 0
      <4>1. ind2 = oi.indirect2 /\ ind = word[ind2][x] /\ IsTable(word, oi, ind2)
        BY <1>3, <1>4, <1>6, <1>7, <3>2 DEF IsTable
      <4> QED BY <1>0, <1>7, <2>5, <3>1, <4>1 DEF Pts
    <3> QED BY <2>5, <3>1, <3>2
  <2>6. CASE c # "word"
    BY <1>3, <1>10, <1>15, <2>6 DEF Pts
  <2> QED BY <2>1, <2>2, <2>3, <2>4, <2>5, <2>6
<1>16. \A g \in Blocks : word'[g] # word[g] => g \in free \/ Has(word, i, inode[i], g)
  <2>1. oi.indirect2 # 0 => Has(word, i, oi, oi.indirect2)
    BY BeforeAdd DEF IsTable
  <2>2. old # 0 => Has(word, i, oi, old)
    BY <1>6, BeforeAdd
  <2> QED BY <1>3, <1>7, <1>9, <1>12, <2>1, <2>2
<1>17. Rewires(i, T)
  <2>1. CASE oi.indirect2 = 0
    <3>0. /\ new \in T /\ ind \in T /\ ind2 \in T /\ new # ind /\ new # ind2 /\ ind # ind2
          /\ T \subseteq free /\ free' = free \ T /\ word' \in WordType
          /\ \A j \in Inodes : j # i => inode'[j] = inode[j]
      BY <1>1, <1>4, <1>7, <1>8, <1>9, <1>10, <1>12, <2>1
    <3>1. Wires(i, T, ind, "word", kk, new, ind2, "word", x, ind, i, "indirect2", 0, ind2)
      BY <1>11, <1>15, <1>16, <3>0 DEF Wires
    <3> QED BY <3>1, Wired
  <2>2. CASE oi.indirect2 # 0 /\ old = 0
    <3>1. Wires(i, T, ind, "word", kk, new, ind2, "word", x, ind, ind2, "word", x, ind)
      BY <1>1, <1>4, <1>7, <1>8, <1>9, <1>10, <1>11, <1>12, <1>15, <1>16, <2>2 DEF Wires
    <3> QED BY <3>1, Wired
  <2>3. CASE oi.indirect2 # 0 /\ old # 0
    <3>1. Wires(i, T, ind, "word", kk, new, ind, "word", kk, new, ind, "word", kk, new)
      BY <1>1, <1>4, <1>7, <1>8, <1>9, <1>10, <1>11, <1>12, <1>15, <1>16, <2>3 DEF Wires
    <3> QED BY <3>1, Wired
  <2> QED BY <2>1, <2>2, <2>3
<1>18. Added(i, T)
  <2>1. \A b \in Blocks : tag'[b] = 0 \/ (tag'[b] = tag[b] /\ b \notin T)
    BY <1>13
  <2>2. new \in T /\ new # oj.indirect /\ new # oj.indirect2
    BY <1>8, <1>9, <1>10, BeforeAdd
  <2>3. oj.indirect \in {0, oi.indirect} \cup T /\ oj.indirect2 \in {0, oi.indirect2} \cup T
    BY <1>3, <1>9, <1>10
  <2> QED BY <1>1, <1>10, <1>12, <1>13, <1>17, <2>1, <2>2, <2>3 DEF Added
<1> QED
  BY <1>18

LEMMA AddBlock ==
  ASSUME DiskOK, NEW i \in Inodes, inode[i].ftype # "symlink", add_block(i)
  PROVE  \E T : Added(i, T)
<1> DEFINE n == size2nblocks(inode[i].size)
<1>1. missing(inode[i], n) <= Cardinality(free) /\ (add_direct(i, n) \/ add_indirect(i, n) \/ add_indirect2(i, n))
  BY DEF add_block
<1>2. missing(inode[i], n) >= 1
  <2> HIDE DEF n
  <2> QED BY DEF missing
<1>3. missing(inode[i], n) \in Int
  <2> HIDE DEF n
  <2> QED BY DEF missing
<1>4. free # {}
  BY <1>1, <1>2, <1>3, FreeIs, EnoughLeft
<1>5. n \in Nat /\ n < MAXFILEBLKS
  BY <1>4, RoomLeft
<1> HIDE DEF n
<1> QED
  BY <1>1, <1>4, <1>5, AddDirect, AddIndirect, AddIndirect2

-----------------------------------------------------------------------------
(* remove_block.                                                           *)
Removed(i, b) ==
  /\ Rewires(i, {}) /\ tag' = tag /\ word'[0] = Blank
  /\ free' \subseteq free \cup {b, inode[i].indirect, inode[i].indirect2}
  /\ free' \subseteq (BORDER + 1)..(NBLOCKS - 1)
  /\ inode'[i].indirect \in {0, inode[i].indirect}
  /\ inode'[i].indirect2 \in {0, inode[i].indirect2}
  /\ inode'[i].size = shrunk(inode[i].size)
  /\ inode'[i].ftype = inode[i].ftype /\ inode'[i].nlink = inode[i].nlink

(* Blocks F are given up. *)
Unwires(i, F) ==
  /\ inode' \in [Inodes -> InodeType] /\ word' \in WordType
  /\ \A j \in Inodes : j # i => inode'[j] = inode[j]
  /\ \A g \in Blocks : word'[g] # word[g] => Has(word, i, inode[i], g)
  /\ free' = free \cup free_block(F)
  /\ \A b \in F : b = 0 \/ Has(word, i, inode[i], b)
  /\ \A h, c, k, b : Pts(word', i, inode'[i], h, c, k, b) =>
       Pts(word, i, inode[i], h, c, k, b) /\ b \notin F

LEMMA Unwired ==
  ASSUME DiskOK, NEW i \in Inodes, NEW F, Unwires(i, F)
  PROVE  Rewires(i, {}) /\ free' \subseteq free \cup F /\ free' \subseteq (BORDER + 1)..(NBLOCKS - 1)
<1>0. free' = free \cup free_block(F) /\ \A b \in F : b = 0 \/ Has(word, i, inode[i], b)
  BY DEF Unwires
<1>1. \A b \in free_block(F) : b \in F /\ b > BORDER
  BY DEF free_block
<1>2. \A b \in free_block(F) : Has(word, i, inode[i], b) /\ b \in Blocks
  <2>1. \A b \in free_block(F) : Has(word, i, inode[i], b)
    BY <1>0, <1>1, Numbers
  <2> QED BY <2>1, PtsType DEF Has, DiskOK
<1>3. free \subseteq (BORDER + 1)..(NBLOCKS - 1)
  BY DEF DiskOK
<1>4. free' \subseteq (BORDER + 1)..(NBLOCKS - 1)
  <2>1. \A b \in free_block(F) : b \in (BORDER + 1)..(NBLOCKS - 1)
    <3> SUFFICES ASSUME NEW b \in free_block(F) PROVE b \in (BORDER + 1)..(NBLOCKS - 1)
      OBVIOUS
    <3>1. b \in Blocks /\ b > BORDER
      BY <1>1, <1>2
    <3> QED BY <3>1, Numbers
  <2> QED BY <1>0, <1>3, <2>1
<1>5. \A b \in free' : b \in free \/ Has(word, i, inode[i], b)
  BY <1>0, <1>2
<1>6. \A h, c, k, b : Pts(word', i, inode'[i], h, c, k, b) => Pts(word, i, inode[i], h, c, k, b) /\ b \notin free'
  <2>1. \A h, c, k, b : Pts(word, i, inode[i], h, c, k, b) => b \notin free
    BY FreeIs DEF Has
  <2>2. \A h, c, k, b : Pts(word', i, inode'[i], h, c, k, b) => Pts(word, i, inode[i], h, c, k, b) /\ b \notin F
    BY DEF Unwires
  <2> QED BY <1>0, <1>1, <2>1, <2>2
<1> QED
  BY <1>0, <1>1, <1>4, <1>5, <1>6 DEF Rewires, Unwires

LEMMA BeforeRemove ==
  ASSUME DiskOK, NEW i \in Inodes, inode[i].ftype # "symlink", size2nblocks(inode[i].size) > 0
  PROVE  /\ inode \in [Inodes -> InodeType] /\ inode[i] \in InodeType
         /\ inode[i].direct \in [0..(NDIRECT - 1) -> Blocks] /\ inode[i].indirect \in Blocks
         /\ inode[i].indirect2 \in Blocks /\ inode[i].size \in 0..(WRAP - 1) /\ inode[i].nlink \in Nat
         /\ shrunk(inode[i].size) \in 0..(WRAP - 1)
         /\ size2nblocks(shrunk(inode[i].size)) = size2nblocks(inode[i].size) - 1
         /\ \A h : IsTable(word, inode[i], h) => Has(word, i, inode[i], h)
         /\ size2nblocks(inode[i].size) - 1 \in Nat /\ size2nblocks(inode[i].size) - 1 < MAXFILEBLKS
         /\ word \in [Blocks -> [Slots -> Blocks]] /\ word[0] = Blank
         /\ \A h, c, k, g, d, l, b : Pts(word, i, inode[i], h, c, k, b) /\ Pts(word, i, inode[i], g, d, l, b)
              => h = g /\ c = d /\ k = l
<1>1. /\ inode[i].direct \in [0..(NDIRECT - 1) -> Blocks] /\ inode[i].indirect \in Blocks
      /\ inode[i].indirect2 \in Blocks /\ inode[i].size \in 0..(WRAP - 1) /\ inode[i].nlink \in Nat
      /\ inode[i] \in InodeType /\ inode \in [Inodes -> InodeType]
      /\ word \in [Blocks -> [Slots -> Blocks]] /\ word[0] = Blank
  BY DEF DiskOK, InodeType, WordType
<1>2. /\ shrunk(inode[i].size) \in 0..(WRAP - 1)
      /\ size2nblocks(shrunk(inode[i].size)) = size2nblocks(inode[i].size) - 1
  BY <1>1, ShrunkBlocks
<1>3. \A h : IsTable(word, inode[i], h) => Has(word, i, inode[i], h)
  BY <1>1, TableHas
<1>4. size2nblocks(inode[i].size) - 1 \in Nat /\ size2nblocks(inode[i].size) - 1 < MAXFILEBLKS
  <2> DEFINE n == size2nblocks(inode[i].size)
             A == Cardinality(Away(word, inode, free, i))
  <2>1. n \in Nat /\ n > 0
    BY <1>1, BlocksNat
  <2>2. n <= A
    BY DEF DiskOK, Counted
  <2>3. A \in Nat /\ A <= NBLOCKS - BORDER
    BY AwayFinite
  <2>4. MAXFILEBLKS \in Nat
    BY Numbers DEF MAXFILEBLKS
  <2> HIDE DEF n, A
  <2> QED BY <2>1, <2>2, <2>3, <2>4, DiskAssumption, Numbers DEF n
<1>5. \A h, c, k, g, d, l, b : Pts(word, i, inode[i], h, c, k, b) /\ Pts(word, i, inode[i], g, d, l, b)
              => h = g /\ c = d /\ k = l
  BY Zenon DEF DiskOK, Separate
<1> QED
  BY <1>1, <1>2, <1>3, <1>4, <1>5

LEMMA RemoveDirect ==
  ASSUME DiskOK, NEW i \in Inodes, inode[i].ftype # "symlink", NEW last, last = size2nblocks(inode[i].size) - 1,
         size2nblocks(inode[i].size) > 0, remove_direct(i, last), tag' = tag
  PROVE  Removed(i, inode[i].direct[last])
<1> DEFINE oi == inode[i]
           oj == inode'[i]
           b  == oi.direct[last]
<1>0. last \in 0..(NDIRECT - 1)
  BY BeforeRemove, Numbers DEF remove_direct
<1>1. /\ inode' = [inode EXCEPT ![i].direct[last] = 0, ![i].size = shrunk(@)]
      /\ free' = free \cup free_block({b}) /\ word' = word /\ b # 0
  BY DEF remove_direct
<1>2. /\ oj.direct = [oi.direct EXCEPT ![last] = 0] /\ oj.size = shrunk(oi.size)
      /\ oj.indirect = oi.indirect /\ oj.indirect2 = oi.indirect2 /\ oj.ftype = oi.ftype /\ oj.nlink = oi.nlink
      /\ oj = [oi EXCEPT !.direct = [oi.direct EXCEPT ![last] = 0], !.size = shrunk(oi.size)]
      /\ inode' = [j \in Inodes |-> inode'[j]] /\ \A j \in Inodes : j # i => inode'[j] = inode[j]
  BY <1>1, BeforeRemove DEF InodeType
<1>3. inode' \in [Inodes -> InodeType]
  <2>1. oj \in InodeType
    <3> DEFINE nd == [oi.direct EXCEPT ![last] = 0]
    <3>1. nd \in [0..(NDIRECT - 1) -> Blocks] /\ oi \in InodeType /\ shrunk(oi.size) \in 0..(WRAP - 1)
      BY BeforeRemove, Numbers
    <3>2. oj = [oi EXCEPT !.direct = nd, !.size = shrunk(oi.size)]
      BY <1>2
    <3> HIDE DEF nd
    <3> QED BY <3>1, <3>2 DEF InodeType
  <2> QED BY <1>2, <2>1, BeforeRemove
<1>4. Pts(word, i, oi, i, "direct", last, b)
  BY <1>0, <1>1 DEF Pts
<1>5. ASSUME NEW h, NEW c, NEW k, NEW x, Pts(word', i, oj, h, c, k, x)
      PROVE  Pts(word, i, oi, h, c, k, x) /\ x \notin {b}
  <2>1. Pts(word, i, oi, h, c, k, x) /\ ~(c = "direct" /\ k = last)
    <3>1. CASE c # "direct"
      <4>1. Pts(word, i, oj, h, c, k, x)
        BY <1>1, <1>5
      <4>2. IsTable(word, oj, h) <=> IsTable(word, oi, h)
        BY <1>2 DEF IsTable
      <4> QED BY <1>2, <3>1, <4>1, <4>2 DEF Pts
    <3>2. CASE c = "direct"
      <4>1. h = i /\ k \in 0..(NDIRECT - 1) /\ x = oj.direct[k] /\ x # 0 /\ oi.ftype # "symlink"
        BY <1>5, <3>2 DEF Pts
      <4>2. k # last /\ x = oi.direct[k]
        BY <1>0, <1>2, <4>1, BeforeRemove
      <4> QED BY <3>2, <4>1, <4>2 DEF Pts
    <3> QED BY <3>1, <3>2
  <2>2. ASSUME x = b PROVE c = "direct" /\ k = last
    <3>1. \A hh, cc, kk, g, d, l, bb : Pts(word, i, oi, hh, cc, kk, bb) /\ Pts(word, i, oi, g, d, l, bb)
              => hh = g /\ cc = d /\ kk = l
      BY BeforeRemove
    <3> HIDE DEF b
    <3> QED BY <1>4, <2>1, <2>2, <3>1
  <2> QED BY <2>1, <2>2
<1>6. Has(word, i, oi, b)
  BY <1>4 DEF Has
<1> HIDE DEF b
<1>7. Rewires(i, {}) /\ free' \subseteq free \cup {b} /\ free' \subseteq (BORDER + 1)..(NBLOCKS - 1)
  <2>1. word' \in WordType
    BY <1>1 DEF DiskOK
  <2>2. \A g \in Blocks : word'[g] # word[g] => Has(word, i, inode[i], g)
    BY <1>1
  <2>3. Unwires(i, {b})
    BY <1>1, <1>2, <1>3, <1>5, <1>6, <2>1, <2>2 DEF Unwires
  <2> QED BY <2>3, Unwired
<1> QED
  BY <1>1, <1>2, <1>7, BeforeRemove DEF Removed, b

LEMMA UniquePlace ==
  ASSUME DiskOK, NEW i \in Inodes, NEW h, NEW c, NEW k, NEW g, NEW d, NEW l, NEW b,
         Pts(word, i, inode[i], h, c, k, b), Pts(word, i, inode[i], g, d, l, b)
  PROVE  h = g /\ c = d /\ k = l
BY Zenon DEF DiskOK, Separate

LEMMA RemoveIndirect ==
  ASSUME DiskOK, NEW i \in Inodes, inode[i].ftype # "symlink", NEW last, last = size2nblocks(inode[i].size) - 1,
         size2nblocks(inode[i].size) > 0, remove_indirect(i, last), tag' = tag
  PROVE  \E b : Removed(i, b)
<1> DEFINE oi  == inode[i]
           oj  == inode'[i]
           ind == oi.indirect
           kk  == direct_index(last)
           b   == word[ind][kk]
           F   == IF kk = 0 THEN {b, ind} ELSE {b}
<1>0. kk \in Slots
  <2>1. last \in Nat /\ last < MAXFILEBLKS
    BY BeforeRemove
  <2>2. last >= NDIRECT
    BY <2>1, Numbers DEF remove_indirect
  <2> QED BY <2>1, <2>2, Indices
<1>1. /\ inode' = [inode EXCEPT ![i].size = shrunk(@), ![i].indirect = IF kk = 0 THEN 0 ELSE ind]
      /\ free' = free \cup free_block(F) /\ word' = [word EXCEPT ![ind][kk] = 0] /\ b # 0 /\ ind # 0
  BY DEF remove_indirect
<1> HIDE DEF kk
<1>2. /\ oj.direct = oi.direct /\ oj.size = shrunk(oi.size)
      /\ oj.indirect = (IF kk = 0 THEN 0 ELSE ind) /\ oj.indirect2 = oi.indirect2 /\ oj.ftype = oi.ftype /\ oj.nlink = oi.nlink
      /\ oj = [oi EXCEPT !.size = shrunk(oi.size), !.indirect = IF kk = 0 THEN 0 ELSE ind]
      /\ inode' = [j \in Inodes |-> inode'[j]] /\ \A j \in Inodes : j # i => inode'[j] = inode[j]
  BY <1>1, BeforeRemove DEF InodeType
<1>3. inode' \in [Inodes -> InodeType]
  <2>1. oj \in InodeType
    <3> DEFINE ni == IF kk = 0 THEN 0 ELSE ind
    <3>1. ni \in Blocks /\ oi \in InodeType /\ shrunk(oi.size) \in 0..(WRAP - 1)
      BY BeforeRemove, Numbers
    <3>2. oj = [oi EXCEPT !.size = shrunk(oi.size), !.indirect = ni]
      BY <1>2
    <3> HIDE DEF ni
    <3> QED BY <3>1, <3>2 DEF InodeType
  <2> QED BY <1>2, <2>1, BeforeRemove
<1>4. ind \in Blocks /\ IsTable(word, oi, ind)
  BY <1>1, BeforeRemove DEF IsTable
<1>5. Pts(word, i, oi, ind, "word", kk, b) /\ Pts(word, i, oi, i, "indirect", 0, ind)
  BY <1>0, <1>1, <1>4 DEF Pts
<1>6. /\ word' \in WordType /\ word'[0] = Blank /\ word'[ind][kk] = 0
      /\ \A k \in Slots : k # kk => word'[ind][k] = word[ind][k]
      /\ \A g \in Blocks : g # ind => word'[g] = word[g]
  <2>1. word \in [Blocks -> [Slots -> Blocks]] /\ 0 \in Blocks /\ word[0] = Blank
    BY BeforeRemove, Numbers
  <2> QED BY <1>0, <1>1, <1>4, <2>1 DEF WordType
<1>7. oi.indirect2 # 0 => oi.indirect2 # ind /\ word'[oi.indirect2] = word[oi.indirect2]
  BY <1>1, <1>6, BeforeRemove, TablesDiffer
<1> HIDE DEF b
<1>8. ASSUME NEW h, NEW c, NEW k, NEW x, Pts(word', i, oj, h, c, k, x)
      PROVE  Pts(word, i, oi, h, c, k, x) /\ x \notin F
  <2>1. IsTable(word', oj, h) => IsTable(word, oi, h)
    BY <1>2, <1>7 DEF IsTable
  <2>2. Pts(word, i, oi, h, c, k, x) /\ ~(h = ind /\ c = "word" /\ k = kk) /\ ~(kk = 0 /\ c = "indirect")
    <3>1. CASE c = "word"
      <4>1. IsTable(word, oi, h) /\ k \in Slots /\ x = word'[h][k] /\ x # 0 /\ h \in Blocks
        BY <1>8, <2>1, <3>1 DEF Pts, IsTable
      <4>2. ~(h = ind /\ k = kk) /\ x = word[h][k]
        BY <1>6, <4>1
      <4> QED BY <3>1, <4>1, <4>2 DEF Pts
    <3>2. CASE c # "word"
      BY <1>2, <1>8, <3>2 DEF Pts
    <3> QED BY <3>1, <3>2
  <2>3. x # b
    BY <1>5, <2>2, UniquePlace
  <2>4. kk = 0 => x # ind
    BY <1>5, <2>2, UniquePlace
  <2> QED BY <2>2, <2>3, <2>4
<1>9. Unwires(i, F)
  <2>1. Has(word, i, oi, b) /\ Has(word, i, oi, ind)
    BY <1>5 DEF Has
  <2>2. \A y \in F : Has(word, i, oi, y)
    BY <2>1
  <2> HIDE DEF F
  <2> QED BY <1>1, <1>2, <1>3, <1>6, <1>8, <2>1, <2>2 DEF Unwires
<1>10. Rewires(i, {}) /\ free' \subseteq free \cup F /\ free' \subseteq (BORDER + 1)..(NBLOCKS - 1)
  BY <1>9, Unwired
<1>11. Removed(i, b)
  <2>1. free' \subseteq free \cup {b, ind, oi.indirect2}
    BY <1>10
  <2> HIDE DEF F
  <2> QED BY <1>2, <1>6, <1>10, <2>1 DEF Removed
<1> QED
  BY <1>11

LEMMA RemoveIndirect2 ==
  ASSUME DiskOK, NEW i \in Inodes, inode[i].ftype # "symlink", NEW last, last = size2nblocks(inode[i].size) - 1,
         size2nblocks(inode[i].size) > 0, remove_indirect2(i, last), tag' = tag
  PROVE  \E b : Removed(i, b)
<1> DEFINE oi  == inode[i]
           oj  == inode'[i]
           x   == indir_index(last)
           kk  == direct_index(last)
           ind == word[oi.indirect2][x]
           b   == word[ind][kk]
           emp == kk = 0 /\ x = 0
           F   == {b} \cup (IF kk = 0 THEN {oi.indirect} ELSE {}) \cup (IF emp THEN {oi.indirect2} ELSE {})
<1>0. kk \in Slots /\ x \in Slots
  <2>1. last \in Nat /\ last < MAXFILEBLKS
    BY BeforeRemove
  <2>2. last >= NDIRECT + NINDIRECT
    BY DEF remove_indirect2
  <2>3. last >= NDIRECT
    BY <2>1, <2>2, Numbers
  <2> QED BY <2>1, <2>3, Indices
<1>1. /\ inode' = [inode EXCEPT ![i].size = shrunk(@), ![i].indirect = IF kk = 0 THEN 0 ELSE @,
                                ![i].indirect2 = IF emp THEN 0 ELSE @]
      /\ free' = free \cup free_block(F) /\ word' = [word EXCEPT ![ind][kk] = 0]
      /\ b # 0 /\ ind # 0 /\ oi.indirect2 # 0
  BY DEF remove_indirect2
<1> HIDE DEF kk, x
<1> DEFINE ni == IF kk = 0 THEN 0 ELSE oi.indirect
           nj == IF emp THEN 0 ELSE oi.indirect2
<1>2. /\ oj.direct = oi.direct /\ oj.size = shrunk(oi.size)
      /\ oj.indirect = ni /\ oj.indirect2 = nj /\ oj.ftype = oi.ftype /\ oj.nlink = oi.nlink
      /\ oj = [oi EXCEPT !.size = shrunk(oi.size), !.indirect = ni, !.indirect2 = nj]
      /\ inode' = [j \in Inodes |-> inode'[j]] /\ \A j \in Inodes : j # i => inode'[j] = inode[j]
  <2> HIDE DEF emp
  <2> QED BY <1>1, BeforeRemove DEF InodeType
<1>3. inode' \in [Inodes -> InodeType]
  <2>1. oj \in InodeType
    <3>1. ni \in Blocks /\ nj \in Blocks /\ oi \in InodeType /\ shrunk(oi.size) \in 0..(WRAP - 1)
      BY BeforeRemove, Numbers
    <3>2. oj = [oi EXCEPT !.size = shrunk(oi.size), !.indirect = ni, !.indirect2 = nj]
      BY <1>2
    <3> HIDE DEF ni, nj
    <3> QED BY <3>1, <3>2 DEF InodeType
  <2> QED BY <1>2, <2>1, BeforeRemove
<1>4. /\ ind \in Blocks /\ IsTable(word, oi, ind) /\ IsTable(word, oi, oi.indirect2) /\ oi.indirect2 \in Blocks
      /\ ind # oi.indirect2 /\ ind # oi.indirect
  <2>1. oi.indirect2 \in Blocks /\ ind \in Blocks
    BY <1>0, BeforeRemove
  <2>2. IsTable(word, oi, ind) /\ IsTable(word, oi, oi.indirect2)
    BY <1>0, <1>1, <2>1 DEF IsTable
  <2> QED BY <1>0, <1>1, <2>1, <2>2, TablesDiffer
<1>5. /\ Pts(word, i, oi, ind, "word", kk, b) /\ Pts(word, i, oi, i, "indirect2", 0, oi.indirect2)
      /\ oi.indirect # 0 => Pts(word, i, oi, i, "indirect", 0, oi.indirect)
  BY <1>0, <1>1, <1>4 DEF Pts
<1> HIDE DEF ind, emp
<1>6. /\ word' \in WordType /\ word'[0] = Blank /\ word'[ind][kk] = 0
      /\ \A k \in Slots : k # kk => word'[ind][k] = word[ind][k]
      /\ \A g \in Blocks : g # ind => word'[g] = word[g]
  <2>1. word \in [Blocks -> [Slots -> Blocks]] /\ 0 \in Blocks /\ word[0] = Blank
    BY BeforeRemove, Numbers
  <2> QED BY <1>0, <1>1, <1>4, <2>1 DEF WordType
<1>7. word'[oi.indirect2] = word[oi.indirect2]
  BY <1>4, <1>6
<1> HIDE DEF b
<1>8. ASSUME NEW h, NEW c, NEW k, NEW y, Pts(word', i, oj, h, c, k, y)
      PROVE  Pts(word, i, oi, h, c, k, y) /\ y \notin F
  <2>1. IsTable(word', oj, h) => IsTable(word, oi, h)
    BY <1>2, <1>7 DEF IsTable
  <2>2. Pts(word, i, oi, h, c, k, y) /\ ~(h = ind /\ c = "word" /\ k = kk) /\ ~(kk = 0 /\ c = "indirect") /\ ~(emp /\ c = "indirect2")
    <3>1. CASE c = "word"
      <4>1. IsTable(word, oi, h) /\ k \in Slots /\ y = word'[h][k] /\ y # 0 /\ h \in Blocks
        BY <1>8, <2>1, <3>1 DEF Pts, IsTable
      <4>2. ~(h = ind /\ k = kk) /\ y = word[h][k]
        BY <1>6, <4>1
      <4> QED BY <3>1, <4>1, <4>2 DEF Pts
    <3>2. CASE c # "word"
      BY <1>2, <1>8, <3>2 DEF Pts
    <3> QED BY <3>1, <3>2
  <2>3. y # b
    <3> SUFFICES ASSUME y = b PROVE FALSE
      OBVIOUS
    <3>1. Pts(word, i, oi, ind, "word", kk, y) /\ Pts(word, i, oi, h, c, k, y)
      BY <1>5, <2>2
    <3> QED BY <2>2, <3>1, UniquePlace
  <2>4. kk = 0 => y # oi.indirect
    <3>1. y # 0
      BY <2>2 DEF Pts
    <3> QED BY <1>5, <2>2, <3>1, UniquePlace
  <2>5. emp => y # oi.indirect2
    <3> SUFFICES ASSUME emp, y = oi.indirect2 PROVE FALSE
      OBVIOUS
    <3>1. Pts(word, i, oi, i, "indirect2", 0, y) /\ Pts(word, i, oi, h, c, k, y)
      BY <1>5, <2>2
    <3> QED BY <2>2, <3>1, UniquePlace
  <2> QED BY <2>2, <2>3, <2>4, <2>5
<1>9. Unwires(i, F)
  <2>1. Has(word, i, oi, b) /\ Has(word, i, oi, oi.indirect2) /\ (oi.indirect # 0 => Has(word, i, oi, oi.indirect))
    BY <1>5 DEF Has
  <2>2. \A y \in F : y = 0 \/ Has(word, i, oi, y)
    BY <2>1
  <2>3. Has(word, i, oi, ind)
    BY <1>4, BeforeRemove
  <2> HIDE DEF F
  <2> QED BY <1>1, <1>2, <1>3, <1>6, <1>8, <2>2, <2>3 DEF Unwires
<1>10. Rewires(i, {}) /\ free' \subseteq free \cup F /\ free' \subseteq (BORDER + 1)..(NBLOCKS - 1)
  BY <1>9, Unwired
<1>11. Removed(i, b)
  <2>1. free' \subseteq free \cup {b, oi.indirect, oi.indirect2}
    BY <1>10
  <2> HIDE DEF F
  <2> QED BY <1>1, <1>2, <1>6, <1>10, <2>1 DEF Removed
<1> QED
  BY <1>11

LEMMA RemoveBlock ==
  ASSUME DiskOK, NEW i \in Inodes, inode[i].ftype # "symlink", size2nblocks(inode[i].size) > 0, remove_block(i)
  PROVE  \E b : Removed(i, b)
<1> DEFINE last == size2nblocks(inode[i].size) - 1
<1>1. tag' = tag /\ (remove_direct(i, last) \/ remove_indirect(i, last) \/ remove_indirect2(i, last))
  BY DEF remove_block
<1> QED
  BY <1>1, RemoveDirect, RemoveIndirect, RemoveIndirect2

-----------------------------------------------------------------------------
(* The steps of change_size keep the invariant.                            *)
LEMMA AddedKeeps ==
  ASSUME DiskOK, TagsOK, NEW i \in Inodes, inode[i].ftype # "symlink", NEW T, Added(i, T)
  PROVE  DiskOK' /\ TagsOK' /\ size2nblocks(inode'[i].size) = size2nblocks(inode[i].size) + 1
<1> DEFINE n == size2nblocks(inode[i].size)
           A == Cardinality(Away(word, inode, free, i))
           B == Cardinality(Away(word', inode', free', i))
<1>1. Rewires(i, T) /\ free' = free \ T /\ inode'[i].size = grown(inode[i].size)
  BY DEF Added
<1>2. B >= A + 1
  BY <1>1, OneMore DEF Added
<1>3. n <= A /\ n \in Nat /\ A \in Nat /\ B \in Nat
  <2>1. inode[i].size \in 0..(WRAP - 1)
    BY DEF DiskOK, InodeType
  <2> QED BY <2>1, BlocksNat, AwayFinite DEF DiskOK, Counted
<1>4. free # {}
  BY <1>1 DEF Added, Rewires
<1>5. size2nblocks(inode'[i].size) = n + 1
  BY <1>1, <1>4, BeforeAdd
<1>6. Counted(word', inode', free')
  <2>1. size2nblocks(inode'[i].size) <= B
    <3> HIDE DEF n, A, B
    <3> QED BY <1>2, <1>3, <1>5
  <2> QED BY <1>1, <2>1, RewiredCounted
<1>7. Separate(word', inode', free')
  BY <1>1, RewiredSeparate
<1>8. TagsOK'
  BY <1>1, RewiredTags DEF Added
<1>9. DiskOK'
  BY <1>1, <1>6, <1>7 DEF DiskOK, Added, Rewires
<1> QED
  BY <1>5, <1>8, <1>9

LEMMA RemovedKeeps ==
  ASSUME DiskOK, TagsOK, NEW i \in Inodes, inode[i].ftype # "symlink", size2nblocks(inode[i].size) > 0,
         NEW b, Removed(i, b)
  PROVE  DiskOK' /\ TagsOK' /\ size2nblocks(inode'[i].size) = size2nblocks(inode[i].size) - 1
<1> DEFINE n == size2nblocks(inode[i].size)
           A == Cardinality(Away(word, inode, free, i))
           B == Cardinality(Away(word', inode', free', i))
<1>1. Rewires(i, {}) /\ inode'[i].size = shrunk(inode[i].size) /\ tag' = tag
  BY DEF Removed
<1>2. B >= A - 1
  BY <1>1, OneLess DEF Removed
<1>3. n <= A /\ n \in Nat /\ A \in Nat /\ B \in Nat
  <2>1. inode[i].size \in 0..(WRAP - 1)
    BY DEF DiskOK, InodeType
  <2> QED BY <2>1, BlocksNat, AwayFinite DEF DiskOK, Counted
<1>5. size2nblocks(inode'[i].size) = n - 1
  BY <1>1, BeforeRemove
<1>6. Counted(word', inode', free')
  <2>1. size2nblocks(inode'[i].size) <= B
    <3> HIDE DEF n, A, B
    <3> QED BY <1>2, <1>3, <1>5
  <2> QED BY <1>1, <2>1, RewiredCounted
<1>7. Separate(word', inode', free')
  BY <1>1, RewiredSeparate
<1>8. TagsOK'
  <2>1. \A x \in Blocks : tag'[x] = 0 \/ (tag'[x] = tag[x] /\ x \notin {})
    BY <1>1
  <2> QED BY <1>1, <2>1, RewiredTags
<1>9. DiskOK'
  BY <1>1, <1>6, <1>7 DEF DiskOK, Removed, Rewires
<1> QED
  BY <1>5, <1>8, <1>9

(* add_block fails: the free blocks are erased, and free again. *)
LEMMA FailKeeps ==
  ASSUME DiskOK, TagsOK, NEW i \in Inodes, add_block_fails(i)
  PROVE  /\ DiskOK' /\ TagsOK' /\ inode' = inode /\ free' = free
         /\ \A b \in Blocks : b \notin free => word'[b] = word[b]
         /\ \A j \in Inodes : \A b : Has(word', j, inode'[j], b) <=> Has(word, j, inode[j], b)
<1>1. free' = free_block(free) /\ word' = erased(free) /\ tag' = untagged(free) /\ inode' = inode
  BY DEF add_block_fails
<1>2. free' = free
  BY <1>1, FreeIs DEF free_block
<1>3. /\ word' \in WordType /\ word'[0] = Blank /\ tag' \in [Blocks -> Inodes \cup {0}]
      /\ \A b \in Blocks : word'[b] = IF b \in free THEN Blank ELSE word[b]
      /\ \A b \in Blocks : tag'[b] = IF b \in free THEN 0 ELSE tag[b]
  BY <1>1, ErasedIs
<1>4. \A j \in Inodes : \A h, c, k, b : Pts(word', j, inode[j], h, c, k, b) <=> Pts(word, j, inode[j], h, c, k, b)
  <2> SUFFICES ASSUME NEW j \in Inodes, NEW h, NEW c, NEW k, NEW b
               PROVE  Pts(word', j, inode[j], h, c, k, b) <=> Pts(word, j, inode[j], h, c, k, b)
    OBVIOUS
  <2>1. word \in WordType /\ inode[j] \in InodeType
    BY DEF DiskOK
  <2>2. ASSUME inode[j].ftype # "symlink", NEW g, IsTable(word, inode[j], g) PROVE word'[g] = word[g]
    <3>1. g \in Blocks /\ Has(word, j, inode[j], g)
      BY <2>1, <2>2, TableHas DEF IsTable
    <3>2. g \notin free
      BY <3>1, FreeIs
    <3> QED BY <1>3, <3>1, <3>2
  <2> QED BY <1>3, <2>1, <2>2, Unmoved
<1>5. \A j \in Inodes : \A b : Has(word', j, inode'[j], b) <=> Has(word, j, inode[j], b)
  BY <1>1, <1>4 DEF Has
<1>6. Separate(word', inode', free')
  <2>1. Separate(word', inode, free)
    BY <1>4 DEF DiskOK, Separate
  <2> QED BY <1>1, <1>2, <2>1
<1>7. Counted(word', inode', free')
  <2>1. \A j \in Inodes : Away(word', inode', free', j) = Away(word, inode, free, j)
    BY <1>1, <1>2, <1>5 DEF Away
  <2> QED BY <1>1, <2>1 DEF DiskOK, Counted
<1>8. TagsOK'
  <2> SUFFICES ASSUME NEW j \in Files, NEW b, Has(word', j, inode'[j], b)
               PROVE  tag'[b] \in {0, j}
    BY DEF TagsOK
  <2>1. Has(word, j, inode[j], b)
    BY <1>5, FilesInodes
  <2>2. b \in Blocks
    BY <2>1, PtsType, FilesInodes DEF Has, DiskOK
  <2> QED BY <1>3, <2>1, <2>2 DEF TagsOK
<1> QED
  BY <1>1, <1>2, <1>3, <1>5, <1>6, <1>7, <1>8 DEF DiskOK

LEMMA EmptySame ==
  ASSUME NEW tab, NEW tab2, \A j \in Files : tab2[j].nlink = tab[j].nlink
  PROVE  empty_inode(tab2) = empty_inode(tab)
<1>1. {j \in Files : tab2[j].nlink = 0} = {j \in Files : tab[j].nlink = 0}
  OBVIOUS
<1> QED
  BY <1>1 DEF empty_inode

(* A turn of a loop of change_size. *)
LEMMA TurnKeeps ==
  ASSUME FsInv, call # Idle, UNCHANGED rest, far' \in BOOLEAN,
         \A j \in Inodes : j # call.oi => inode'[j] = inode[j],
         inode'[call.oi].ftype = inode[call.oi].ftype, inode'[call.oi].nlink = inode[call.oi].nlink,
         NEW l \in {"grow", "undo", "shrink"}, (call' = call /\ l = call.loop) \/ call' = [call EXCEPT !.loop = l],
         call.oi = Root => size2nblocks(inode'[Root].size) > 0,
         l = "shrink" => size2nblocks(inode'[call.oi].size) >= size2nblocks(call.new_size)
  PROVE  OpenOK' /\ CallOK' /\ RestOK'
<1>1. /\ "loop" \in DOMAIN call /\ call.oi \in Inodes /\ inode[call.oi].ftype # "symlink"
      /\ Plain(call.old_size) /\ Plain(call.new_size)
      /\ call.oi = Root => size2nblocks(call.old_size) > 0 /\ size2nblocks(call.new_size) > 0
      /\ call.op \in Making => call.oi = Root
      /\ call.op = "write" => call.arg \in Nat
      /\ call.op = "symlink" => empty_inode(inode) \notin opened
  BY DEF FsInv, CallOK
<1>2. /\ "loop" \in DOMAIN call' /\ call'.oi = call.oi /\ call'.loop = l /\ call'.op = call.op /\ call'.arg = call.arg
      /\ call'.old_size = call.old_size /\ call'.new_size = call.new_size
  <2>1. CASE call' = call /\ l = call.loop
    BY <1>1, <2>1, Zenon
  <2>2. CASE call' = [call EXCEPT !.loop = l]
    BY <1>1, <2>2
  <2> QED BY <2>1, <2>2
<1>3. call' # Idle
  BY <1>2 DEF Idle
<1>4. \A j \in Inodes : inode'[j].ftype = inode[j].ftype /\ inode'[j].nlink = inode[j].nlink
  BY <1>1
<1>5. empty_inode(inode') = empty_inode(inode)
  BY <1>4, EmptySame, FilesInodes
<1>6. dirents' = dirents /\ opened' = opened /\ nwrites_to_crash' = nwrites_to_crash /\ lost' = lost
  BY DEF rest
<1>7. OpenOK'
  <2>1. /\ opened \subseteq Files /\ \A i \in opened : inode[i].ftype # "symlink"
        /\ inode[Root].ftype = "dir" /\ size2nblocks(inode[Root].size) > 0
        /\ \A i \in Inodes : Plain(inode[i].size) \/ i = call.oi
    BY DEF FsInv, OpenOK
  <2>2. size2nblocks(inode'[Root].size) > 0
    BY <2>1, FilesInodes
  <2>3. \A i \in Inodes : Plain(inode'[i].size) \/ i = call.oi
    BY <2>1
  <2>4. opened' \subseteq Files /\ \A i \in opened' : inode'[i].ftype # "symlink"
    BY <1>4, <1>6, <2>1, FilesInodes
  <2>5. inode'[Root].ftype = "dir"
    BY <1>4, <2>1, FilesInodes
  <2>6. \A i \in Inodes : Plain(inode'[i].size) \/ (call' # Idle /\ i = call'.oi)
    BY <1>2, <1>3, <2>3
  <2> QED BY <2>2, <2>4, <2>5, <2>6 DEF OpenOK
<1>8. CallOK'
  <2>1. l = "shrink" => Blocks_of(call.oi)' >= size2nblocks(call.new_size)
    BY <1>2 DEF Blocks_of
  <2>2. (Blocks_of(call.oi) >= size2nblocks(call.new_size))' <=> Blocks_of(call.oi)' >= size2nblocks(call.new_size)
    BY <1>2 DEF Blocks_of
  <2>3. (empty_inode(inode) \notin opened)' <=> empty_inode(inode) \notin opened
    BY <1>5, <1>6 DEF empty_inode
  <2> QED BY <1>1, <1>2, <1>4, <2>1, <2>2, <2>3, Zenon DEF CallOK
<1>9. RestOK'
  BY <1>6 DEF FsInv, RestOK
<1> QED BY <1>7, <1>8, <1>9

LEMMA GrowFs == ASSUME FsInv, Grow, UNCHANGED rest PROVE DiskOK' /\ TagsOK' /\ OpenOK' /\ CallOK' /\ RestOK'
<1> DEFINE i == call.oi
           n == size2nblocks(inode[i].size)
<1>1. /\ call # Idle /\ call.loop = "grow" /\ i \in Inodes /\ inode[i].ftype # "symlink"
      /\ DiskOK /\ TagsOK /\ far \in BOOLEAN
      /\ i = Root => n > 0
  BY DEF Grow, FsInv, CallOK, RestOK, OpenOK
<1>2. n \in Nat
  BY <1>1, BlocksNat DEF DiskOK, InodeType
<1>3. CASE add_block(i) /\ UNCHANGED call /\ far' = (far \/ indir2_index(Blocks_of(i)) = 0)
  <2>1. PICK T : Added(i, T)
    BY <1>1, <1>3, AddBlock
  <2>2. DiskOK' /\ TagsOK' /\ size2nblocks(inode'[i].size) = n + 1
    BY <1>1, <2>1, AddedKeeps
  <2>3. far' \in BOOLEAN
    BY <1>1, <1>3
  <2>4. \A j \in Inodes : j # i => inode'[j] = inode[j]
    BY <2>1 DEF Added, Rewires
  <2>5. inode'[i].ftype = inode[i].ftype /\ inode'[i].nlink = inode[i].nlink
    BY <2>1 DEF Added
  <2>6. call' = call /\ call.loop = "grow"
    BY <1>1, <1>3
  <2>7. i = Root => size2nblocks(inode'[Root].size) > 0
    BY <1>2, <2>2
  <2> HIDE DEF n
  <2> QED BY <1>1, <2>2, <2>3, <2>4, <2>5, <2>6, <2>7, TurnKeeps
<1>4. CASE add_block_fails(i) /\ call' = [call EXCEPT !.loop = "undo"] /\ UNCHANGED far
  <2>1. DiskOK' /\ TagsOK' /\ inode' = inode
    BY <1>1, <1>4, FailKeeps
  <2> QED BY <1>1, <1>4, <2>1, TurnKeeps
<1>5. CASE n >= size2nblocks(call.new_size) /\ call' = [call EXCEPT !.loop = "shrink"] /\ UNCHANGED <<disk, far>>
  <2>1. inode' = inode /\ far' = far
    BY <1>5 DEF disk
  <2>2. DiskOK' /\ TagsOK'
    BY <1>1, <1>5 DEF DiskOK, TagsOK, disk
  <2> QED BY <1>1, <1>5, <2>1, <2>2, TurnKeeps
<1> QED
  BY <1>3, <1>4, <1>5, Zenon DEF Grow, Blocks_of

LEMMA UndoFs == ASSUME FsInv, Undo, UNCHANGED rest PROVE DiskOK' /\ TagsOK' /\ OpenOK' /\ CallOK' /\ RestOK'
<1> DEFINE i == call.oi
           n == size2nblocks(inode[i].size)
           o == size2nblocks(call.old_size)
<1>1. /\ call # Idle /\ call.loop = "undo" /\ i \in Inodes /\ inode[i].ftype # "symlink"
      /\ DiskOK /\ TagsOK /\ far \in BOOLEAN /\ Plain(call.old_size)
      /\ i = Root => n > 0 /\ o > 0
  BY DEF Undo, FsInv, CallOK, RestOK, OpenOK
<1>2. n \in Nat /\ o \in Nat
  BY <1>1, BlocksNat, PlainBlocks DEF DiskOK, InodeType
<1>3. CASE n > o /\ remove_block(i) /\ UNCHANGED <<call, far>>
  <2>0. n > 0
    BY <1>2, <1>3
  <2>1. PICK b : Removed(i, b)
    BY <1>1, <1>3, <2>0, RemoveBlock
  <2>2. DiskOK' /\ TagsOK' /\ size2nblocks(inode'[i].size) = n - 1
    BY <1>1, <2>0, <2>1, RemovedKeeps
  <2>4. \A j \in Inodes : j # i => inode'[j] = inode[j]
    BY <2>1 DEF Removed, Rewires
  <2>5. inode'[i].ftype = inode[i].ftype /\ inode'[i].nlink = inode[i].nlink
    BY <2>1 DEF Removed
  <2>6. call' = call /\ call.loop = "undo"
    BY <1>1, <1>3
  <2>7. i = Root => size2nblocks(inode'[Root].size) > 0
    <3> HIDE DEF n, o
    <3> QED BY <1>1, <1>2, <1>3, <2>2
  <2> HIDE DEF n, o
  <2> QED BY <1>1, <1>3, <2>2, <2>4, <2>5, <2>6, <2>7, TurnKeeps
<1>5. CASE call' = [call EXCEPT !.loop = "grow"] /\ UNCHANGED <<disk, far>>
  <2>1. inode' = inode /\ far' = far
    BY <1>5 DEF disk
  <2>2. DiskOK' /\ TagsOK'
    BY <1>1, <1>5 DEF DiskOK, TagsOK, disk
  <2> QED BY <1>1, <1>5, <2>1, <2>2, TurnKeeps
<1> QED
  BY <1>3, <1>5, Zenon DEF Undo, Blocks_of

LEMMA ShrinkFs == ASSUME FsInv, Shrink, UNCHANGED rest PROVE DiskOK' /\ TagsOK' /\ OpenOK' /\ CallOK' /\ RestOK'
<1> DEFINE i == call.oi
           n == size2nblocks(inode[i].size)
           m == size2nblocks(call.new_size)
<1>1. /\ call # Idle /\ call.loop = "shrink" /\ i \in Inodes /\ inode[i].ftype # "symlink"
      /\ DiskOK /\ TagsOK /\ far \in BOOLEAN /\ Plain(call.new_size)
      /\ i = Root => m > 0
  BY DEF Shrink, FsInv, CallOK, RestOK, OpenOK
<1>2. n \in Nat /\ m \in Nat
  BY <1>1, BlocksNat, PlainBlocks DEF DiskOK, InodeType
<1>3. n > m /\ remove_block(i) /\ UNCHANGED <<call, far>>
  BY DEF Shrink, Blocks_of
<1>4. n > 0
  BY <1>2, <1>3
<1>5. PICK b : Removed(i, b)
  BY <1>1, <1>3, <1>4, RemoveBlock
<1>6. DiskOK' /\ TagsOK' /\ size2nblocks(inode'[i].size) = n - 1
  BY <1>1, <1>4, <1>5, RemovedKeeps
<1>7. \A j \in Inodes : j # i => inode'[j] = inode[j]
  BY <1>5 DEF Removed, Rewires
<1>8. inode'[i].ftype = inode[i].ftype /\ inode'[i].nlink = inode[i].nlink
  BY <1>5 DEF Removed
<1>9. call' = call /\ call.loop = "shrink"
  BY <1>1, <1>3
<1>10. size2nblocks(inode'[i].size) >= m
  <2> HIDE DEF n, m
  <2> QED BY <1>2, <1>3, <1>6
<1>11. i = Root => size2nblocks(inode'[Root].size) > 0
  <2> HIDE DEF m
  <2> QED BY <1>1, <1>2, <1>3, <1>6, <1>10
<1> HIDE DEF n
<1> QED BY <1>1, <1>3, <1>6, <1>7, <1>8, <1>9, <1>10, <1>11, TurnKeeps

LEMMA BrokenFs == ASSUME FsInv, Broken, UNCHANGED rest PROVE DiskOK' /\ TagsOK' /\ OpenOK' /\ CallOK' /\ RestOK'
<1> DEFINE i == call.oi
           n == size2nblocks(inode[i].size)
<1>1. /\ call # Idle /\ i \in Inodes /\ DiskOK /\ TagsOK /\ OpenOK /\ RestOK /\ Plain(call.old_size) /\ Plain(call.new_size)
  BY DEF Broken, FsInv, CallOK
<1>2. inode[i].size \in 0..(WRAP - 1)
  BY <1>1 DEF DiskOK, InodeType
<1>3. n > 0
  <2>1. n \in Nat /\ size2nblocks(call.old_size) \in Nat /\ size2nblocks(call.new_size) \in Nat
    BY <1>1, <1>2, BlocksNat, PlainBlocks
  <2>2. n > size2nblocks(call.old_size) \/ n > size2nblocks(call.new_size)
    BY DEF Broken, Blocks_of
  <2> HIDE DEF n
  <2> QED BY <2>1, <2>2
<1>4. Plain(inode[i].size)
  BY <1>2, <1>3, BlocksNat
<1>5. UNCHANGED <<disk, far>> /\ call' = Idle
  BY DEF Broken
<1>6. DiskOK' /\ TagsOK'
  BY <1>1, <1>5 DEF DiskOK, TagsOK, disk
<1>7. OpenOK'
  <2>1. \A j \in Inodes : Plain(inode[j].size)
    BY <1>1, <1>4 DEF OpenOK
  <2> QED BY <1>1, <1>5, <2>1 DEF OpenOK, disk, rest
<1>8. CallOK' /\ RestOK'
  BY <1>1, <1>5 DEF CallOK, RestOK, rest
<1> QED BY <1>6, <1>7, <1>8

-----------------------------------------------------------------------------
(* The operations around change_size: an inode keeps its pointers or loses *)
(* all of them.                                                            *)
SamePlace(oj, oi) ==
  /\ oj.ftype = oi.ftype /\ oj.direct = oi.direct
  /\ oj.indirect = oi.indirect /\ oj.indirect2 = oi.indirect2
  /\ size2nblocks(oj.size) = size2nblocks(oi.size)

Cleared(i, oi) ==
  /\ \A w, h, c, k, b : ~Pts(w, i, oi, h, c, k, b)
  /\ oi.ftype # "symlink" => size2nblocks(oi.size) = 0

(* The blocks of an inode that loses its pointers are in lost. *)
Sheds ==
  /\ SamePlace(inode'[Root], inode[Root])
  /\ \A j \in Inodes : \/ SamePlace(inode'[j], inode[j])
                       \/ (Cleared(j, inode'[j]) /\ \A b : Has(word, j, inode[j], b) => b \in lost')
  /\ lost \subseteq lost' /\ \A b \in lost' : b \in lost \/ \E j \in Inodes : Has(word, j, inode[j], b)

LEMMA ShedsNone ==
  ASSUME \A j \in Inodes : SamePlace(inode'[j], inode[j]), lost' = lost
  PROVE  Sheds
<1>1. SamePlace(inode'[Root], inode[Root])
  BY FilesInodes
<1>2. lost \subseteq lost' /\ \A b \in lost' : b \in lost
  OBVIOUS
<1>3. ASSUME NEW j \in Inodes PROVE SamePlace(inode'[j], inode[j])
  OBVIOUS
<1> HIDE DEF SamePlace
<1> QED BY <1>1, <1>2, <1>3 DEF Sheds

LEMMA PointersFall ==
  ASSUME DiskOK, UNCHANGED <<free, word>>, inode' \in [Inodes -> InodeType],
         \A j \in Inodes : SamePlace(inode'[j], inode[j]) \/ Cleared(j, inode'[j])
  PROVE  /\ Separate(word', inode', free') /\ Counted(word', inode', free')
         /\ \A j \in Inodes : \A b : Has(word', j, inode'[j], b) => Has(word, j, inode[j], b)
<1>1. \A j \in Inodes : \A h, c, k, b : Pts(word', j, inode'[j], h, c, k, b) => Pts(word, j, inode[j], h, c, k, b)
  <2> SUFFICES ASSUME NEW j \in Inodes, NEW h, NEW c, NEW k, NEW b, Pts(word', j, inode'[j], h, c, k, b)
               PROVE  Pts(word, j, inode[j], h, c, k, b)
    OBVIOUS
  <2>1. Pts(word, j, inode'[j], h, c, k, b)
    OBVIOUS
  <2>2. SamePlace(inode'[j], inode[j])
    BY <2>1 DEF Cleared
  <2> QED BY <2>1, <2>2, SamePlaces DEF SamePlace
<1>2. \A j \in Inodes : \A b : Has(word', j, inode'[j], b) => Has(word, j, inode[j], b)
  BY <1>1 DEF Has
<1> DEFINE P(a, h, c, k, x) == Pts(word, a, inode[a], h, c, k, x)
           Q(a, h, c, k, x) == Pts(word', a, inode'[a], h, c, k, x)
<1>3. \A a, e \in Inodes : \A h, c, k, g, d, l, x : P(a, h, c, k, x) /\ P(e, g, d, l, x) => h = g /\ c = d /\ k = l
  BY Zenon DEF Separate, DiskOK
<1>4. \A a \in Inodes : \A h, c, k, b : P(a, h, c, k, b) => b \notin free /\ b >= BORDER
  BY Zenon DEF Separate, DiskOK
<1>5. \A a \in Inodes : \A h, c, k, b : Q(a, h, c, k, b) => P(a, h, c, k, b)
  BY <1>1
<1> HIDE DEF P, Q
<1>6. \A a, e \in Inodes : \A h, c, k, g, d, l, b : Q(a, h, c, k, b) /\ Q(e, g, d, l, b) => h = g /\ c = d /\ k = l
  BY <1>3, <1>5
<1>7. \A a \in Inodes : \A h, c, k, b : Q(a, h, c, k, b) => b \notin free' /\ b >= BORDER
  BY <1>4, <1>5
<1>8. Separate(word', inode', free')
  BY <1>6, <1>7, Zenon DEF Separate, Q
<1>9. Counted(word', inode', free')
  <2> SUFFICES ASSUME NEW j \in Inodes, inode'[j].ftype # "symlink"
               PROVE  size2nblocks(inode'[j].size) <= Cardinality(Away(word', inode', free', j))
    BY DEF Counted
  <2> DEFINE A == Away(word, inode, free, j)
             B == Away(word', inode', free', j)
  <2>1. Cardinality(A) \in Nat /\ Cardinality(B) \in Nat /\ IsFiniteSet(B)
    BY AwayFinite
  <2>2. CASE SamePlace(inode'[j], inode[j])
    <3>1. A \subseteq B
      BY <1>2, <2>2 DEF Away, SamePlace
    <3>2. Cardinality(A) <= Cardinality(B)
      <4> HIDE DEF A, B
      <4> QED BY <2>1, <3>1, FS_Subset
    <3>3. inode[j].size \in 0..(WRAP - 1) /\ inode[j].ftype # "symlink"
      BY <2>2 DEF DiskOK, InodeType, SamePlace
    <3>4. size2nblocks(inode[j].size) <= Cardinality(A) /\ size2nblocks(inode[j].size) \in Nat
      BY <3>3, BlocksNat DEF DiskOK, Counted
    <3>5. size2nblocks(inode'[j].size) = size2nblocks(inode[j].size)
      BY <2>2 DEF SamePlace
    <3> HIDE DEF A, B
    <3> QED BY <2>1, <3>2, <3>4, <3>5 DEF B
  <2>3. CASE Cleared(j, inode'[j])
    <3>1. size2nblocks(inode'[j].size) = 0
      BY <2>3 DEF Cleared
    <3> HIDE DEF A, B
    <3> QED BY <2>1, <3>1 DEF B
  <2> QED BY <2>2, <2>3
<1> QED
  BY <1>2, <1>8, <1>9

(* Data is written into blocks of one inode only. *)
LEMMA TagsFall ==
  ASSUME DiskOK, TagsOK, NEW i \in Inodes,
         \A j \in Inodes : \A b : Has(word', j, inode'[j], b) => Has(word, j, inode[j], b),
         \A b \in Blocks : tag'[b] = tag[b] \/ (tag'[b] = i /\ Has(word, i, inode[i], b))
  PROVE  TagsOK'
<1> SUFFICES ASSUME NEW j \in Files, NEW b, Has(word', j, inode'[j], b)
             PROVE  tag'[b] \in {0, j}
  BY DEF TagsOK
<1>1. Has(word, j, inode[j], b) /\ j \in Inodes
  BY FilesInodes
<1>2. b \in Blocks
  BY <1>1, PtsType DEF Has, DiskOK
<1>3. CASE tag'[b] = tag[b]
  BY <1>1, <1>3 DEF TagsOK
<1>4. CASE tag'[b] = i /\ Has(word, i, inode[i], b)
  BY <1>1, <1>4, OneOwner DEF DiskOK
<1> QED BY <1>2, <1>3, <1>4

(* The block of a byte is a block of the file. *)
LEMMA ByteOwned ==
  ASSUME DiskOK, NEW i \in Inodes, NEW oi \in InodeType, SamePlace(oi, inode[i]), Plain(oi.size),
         NEW off \in Nat, inode_blockno(oi, off) # 0
  PROVE  Has(word, i, inode[i], inode_blockno(oi, off))
<1> DEFINE b == off \div BLKSIZE
           o == b - (NDIRECT + NINDIRECT)
           n == size2nblocks(oi.size)
           x == inode_blockno(oi, off)
<1>1. /\ ~(off >= oi.size) /\ oi.ftype # "symlink"
      /\ x = IF b >= NDIRECT + NINDIRECT THEN word[word[oi.indirect2][o \div NINDIRECT]][o % NINDIRECT]
             ELSE IF b >= NDIRECT THEN word[oi.indirect][b - NDIRECT] ELSE oi.direct[b]
  BY DEF inode_blockno
<1>2. b \in Nat /\ BLKSIZE * b <= off /\ BLKSIZE \in Nat /\ BLKSIZE > 0
  BY BlocksAssumption, DivBounds
<1>3. n \in Nat /\ oi.size \in Nat /\ oi.size <= BLKSIZE * n
  BY PlainBlocks
<1>4. n <= NBLOCKS - BORDER
  <2>1. n = size2nblocks(inode[i].size) /\ inode[i].ftype # "symlink"
    BY <1>1 DEF SamePlace
  <2>2. n <= Cardinality(Away(word, inode, free, i))
    BY <2>1 DEF DiskOK, Counted
  <2> HIDE DEF n
  <2> QED BY <1>3, <2>2, AwayFinite, Numbers
<1> HIDE DEF b, n
<1>5. b < n
  <2> SUFFICES ASSUME b >= n PROVE FALSE
    BY <1>2, <1>3
  <2>1. PICK d \in Nat : b = n + d
    <3>1. b - n \in Nat /\ b = n + (b - n)
      BY <1>2, <1>3
    <3> QED BY <3>1
  <2>2. BLKSIZE * b = BLKSIZE * n + BLKSIZE * d /\ BLKSIZE * d >= 0 /\ BLKSIZE * d \in Int /\ BLKSIZE * n \in Int
    BY <1>2, <1>3, <2>1
  <2> QED BY <1>1, <1>2, <1>3, <2>2
<1>6. b < MAXFILEBLKS
  <2>1. MAXFILEBLKS \in Nat
    BY Numbers DEF MAXFILEBLKS
  <2> QED BY <1>2, <1>3, <1>4, <1>5, <2>1, DiskAssumption, Numbers
<1>7. /\ word \in [Blocks -> [Slots -> Blocks]] /\ word[0] = Blank /\ \A k \in Slots : word[0][k] = 0
      /\ oi.direct \in [0..(NDIRECT - 1) -> Blocks] /\ oi.indirect \in Blocks /\ oi.indirect2 \in Blocks
  BY DEF DiskOK, WordType, InodeType, Blank, Slots
<1> HIDE DEF x
<1>8. x # 0
  BY DEF x
<1>9. \E h, c, k : Pts(word, i, oi, h, c, k, x)
  <2>1. CASE b < NDIRECT
    <3>1. x = oi.direct[b] /\ b \in 0..(NDIRECT - 1)
      BY <1>1, <1>2, <2>1, Numbers
    <3>2. Pts(word, i, oi, i, "direct", b, x)
      BY <1>1, <1>8, <3>1 DEF Pts
    <3> QED BY <3>2
  <2>2. CASE b >= NDIRECT /\ b < NDIRECT + NINDIRECT
    <3>1. x = word[oi.indirect][b - NDIRECT] /\ b - NDIRECT \in Slots
      BY <1>1, <1>2, <2>2, Numbers DEF Slots
    <3>2. IsTable(word, oi, oi.indirect)
      BY <1>7, <1>8, <3>1 DEF IsTable
    <3>3. Pts(word, i, oi, oi.indirect, "word", b - NDIRECT, x)
      BY <1>1, <1>8, <3>1, <3>2 DEF Pts
    <3> QED BY <3>3
  <2>3. CASE b >= NDIRECT + NINDIRECT
    <3> DEFINE p == o \div NINDIRECT
               q == o % NINDIRECT
    <3>1. x = word[word[oi.indirect2][p]][q]
      BY <1>1, <2>3
    <3>2. q \in Slots
      BY <1>2, <2>3, Numbers DEF Slots
    <3>3. p \in Slots
      <4>1. indir_index(b) \in Slots
        BY <1>2, <1>6, <2>3, Indices, Numbers
      <4>2. b - NDIRECT - NINDIRECT = b - (NDIRECT + NINDIRECT)
        BY <1>2, Numbers
      <4>3. indir_index(b) = p
        BY <1>2, <2>3, <4>2, Numbers DEF indir_index
      <4> QED BY <4>1, <4>3
    <3> HIDE DEF p, q
    <3> DEFINE t == word[oi.indirect2][p]
    <3>4. t \in Blocks /\ x = word[t][q]
      BY <1>7, <3>1, <3>3
    <3>5. t # 0 /\ oi.indirect2 # 0
      BY <1>7, <1>8, <3>2, <3>3, <3>4
    <3>6. IsTable(word, oi, t)
      BY <3>3, <3>4, <3>5 DEF IsTable
    <3> HIDE DEF t
    <3>7. Pts(word, i, oi, t, "word", q, x)
      BY <1>1, <1>8, <3>2, <3>4, <3>6 DEF Pts
    <3> QED BY <3>7
  <2> QED BY <1>2, <2>1, <2>2, <2>3, Numbers
<1>10. \E h, c, k : Pts(word, i, inode[i], h, c, k, x)
  BY <1>9, SamePlaces DEF SamePlace
<1> QED BY <1>10 DEF Has, x

LEMMA CopiedIs ==
  ASSUME DiskOK, NEW i \in Inodes, NEW oi \in InodeType, SamePlace(oi, inode[i]), Plain(oi.size),
         NEW pos \in Nat, NEW end \in Nat
  PROVE  /\ copied(i, oi, pos, end) \in [Blocks -> Inodes \cup {0}]
         /\ \A b \in Blocks : \/ copied(i, oi, pos, end)[b] = tag[b]
                              \/ copied(i, oi, pos, end)[b] = i /\ Has(word, i, inode[i], b)
<1> DEFINE reached == {off \in pos..(end - 1) : \A o \in pos..off : inode_blockno(oi, o) # 0}
           written == {inode_blockno(oi, off) : off \in reached}
<1>1. copied(i, oi, pos, end) = [b \in Blocks |-> IF b \in written THEN i ELSE tag[b]]
  BY DEF copied
<1>2. ASSUME NEW b \in written PROVE Has(word, i, inode[i], b)
  <2>1. PICK off \in reached : b = inode_blockno(oi, off)
    BY <1>2
  <2>2. off \in pos..(end - 1) /\ off \in Nat /\ off \in pos..off
    BY <2>1
  <2>3. inode_blockno(oi, off) # 0
    BY <2>1, <2>2
  <2> QED BY <2>1, <2>2, <2>3, ByteOwned
<1> HIDE DEF reached, written
<1> QED
  BY <1>1, <1>2 DEF DiskOK

(* link, create and symlink enter a name: tab is the inode table with, it  *)
(* may be, the new size of the directory.                                  *)
LEMMA EnterFs ==
  ASSUME DiskOK, lost \subseteq Blocks, opened \subseteq Files, \A j \in opened : inode[j].ftype # "symlink",
         NEW tab \in [Inodes -> InodeType], \A j \in Inodes : SamePlace(tab[j], inode[j]) /\ Plain(tab[j].size),
         NEW op \in Making, NEW arg, ArgOK(op, arg), NEW k, NEW ds, enter(op, arg, k, ds, tab),
         op = "symlink" => empty_inode(tab) \notin opened
  PROVE  /\ inode' \in [Inodes -> InodeType] /\ lost' \subseteq Blocks /\ inode'[Root] = tab[Root]
         /\ \A j \in Inodes : SamePlace(inode'[j], inode[j]) \/ Cleared(j, inode'[j])
         /\ \A j \in Inodes : Plain(inode'[j].size)
         /\ \A j \in opened : inode'[j].ftype # "symlink"
         /\ Sheds
<1> DEFINE i == IF op = "link" THEN arg.ino ELSE empty_inode(tab)
<1>0. \A j \in opened : j \in Inodes /\ tab[j].ftype # "symlink"
  BY FilesInodes DEF SamePlace
<1>1. CASE inode' = tab /\ lost' = lost
  BY <1>0, <1>1, ShedsNone
<1>2. CASE op = "link" /\ i # 0
  <2>1. inode' = [tab EXCEPT ![i].nlink = @ + 1] /\ lost' = lost /\ i \in Files
    BY <1>2 DEF enter, ArgOK
  <2>2. i \in Inodes /\ i # Root
    BY <2>1, FilesInodes
  <2> HIDE DEF i
  <2>3. tab[i].nlink + 1 \in Nat
    BY <2>2 DEF InodeType
  <2>4. inode' \in [Inodes -> InodeType]
    BY <2>1, <2>2, <2>3 DEF InodeType
  <2>5. ASSUME NEW j \in Inodes
        PROVE  /\ inode'[j].size = tab[j].size /\ inode'[j].ftype = tab[j].ftype /\ inode'[j].direct = tab[j].direct
               /\ inode'[j].indirect = tab[j].indirect /\ inode'[j].indirect2 = tab[j].indirect2
    BY <2>1, <2>2
  <2>6. \A j \in Inodes : SamePlace(inode'[j], inode[j]) /\ Plain(inode'[j].size)
    BY <2>5, Zenon DEF SamePlace
  <2>7. \A j \in opened : inode'[j].ftype # "symlink"
    BY <1>0, <2>5
  <2>8. inode'[Root] = tab[Root]
    BY <2>1, <2>2
  <2>9. Sheds
    BY <2>1, <2>6, ShedsNone
  <2> QED BY <2>1, <2>4, <2>6, <2>7, <2>8, <2>9
<1>3. CASE op # "link" /\ i # 0
  <2>1. inode' = [tab EXCEPT ![i] = made(@, op)] /\ lost' = lost \cup Owned(i, tab[i])
    BY <1>3 DEF enter
  <2>2. i \in Files /\ (op = "symlink" => i \notin opened)
    BY <1>3, EmptyIs
  <2>3. i \in Inodes /\ i # Root
    BY <2>2, FilesInodes
  <2> HIDE DEF i
  <2> DEFINE oi == made(tab[i], op)
  <2>4. /\ oi \in InodeType /\ oi.size \in {0, 1} /\ oi.ftype = IF op = "symlink" THEN "symlink" ELSE "reg"
        /\ op # "symlink" => /\ oi.size = 0 /\ oi.indirect = 0 /\ oi.indirect2 = 0
                             /\ \A l \in 0..(NDIRECT - 1) : oi.direct[l] = 0
    <3>1. NBLOCKS - 1 \in Blocks /\ 0 \in Blocks /\ 0 \in 0..(WRAP - 1) /\ 1 \in 0..(WRAP - 1)
      BY Numbers, LimitIs, BlocksAssumption
    <3>2. [k2 \in 0..(NDIRECT - 1) |-> 0] \in [0..(NDIRECT - 1) -> Blocks]
          /\ [k2 \in 0..(NDIRECT - 1) |-> NBLOCKS - 1] \in [0..(NDIRECT - 1) -> Blocks]
      BY <3>1
    <3> QED BY <3>1, <3>2 DEF made, SymlinkInode, NewFile, InodeType
  <2>5. Plain(oi.size) /\ size2nblocks(0) = 0
    <3>1. Plain(0) /\ Plain(1)
      BY BlocksAssumption, LimitIs DEF Plain
    <3>2. BLKSIZE * 0 = 0 /\ 0 <= 0 /\ 0 < 0 + BLKSIZE
      BY BlocksAssumption
    <3>3. size2nblocks(0) = 0
      BY <3>1, <3>2, BlocksAre
    <3> QED BY <2>4, <3>1, <3>3
  <2>6. Cleared(i, oi)
    <3>1. ASSUME op # "symlink" PROVE \A w, h, c, l, b : ~Pts(w, i, oi, h, c, l, b)
      BY <2>4, <3>1 DEF Pts, IsTable
    <3>2. ASSUME op = "symlink" PROVE \A w, h, c, l, b : ~Pts(w, i, oi, h, c, l, b)
      BY <2>4, <3>2 DEF Pts
    <3> QED BY <2>4, <2>5, <3>1, <3>2 DEF Cleared
  <2>7. inode'[i] = oi /\ \A j \in Inodes : j # i => inode'[j] = tab[j]
    BY <2>1, <2>3
  <2>8. inode' \in [Inodes -> InodeType]
    <3> HIDE DEF oi
    <3>1. inode' = [tab EXCEPT ![i] = oi]
      BY <2>1 DEF oi
    <3> QED BY <2>4, <3>1
  <2>9. lost' \subseteq Blocks /\ lost' = lost \cup Owned(i, tab[i]) /\ \A b : b \in Owned(i, tab[i]) <=> Has(word, i, inode[i], b)
    <3>2. ASSUME NEW b PROVE b \in Owned(i, tab[i]) <=> Has(word, i, inode[i], b)
      <4>1. word \in WordType /\ tab[i] \in InodeType /\ SamePlace(tab[i], inode[i])
        BY <2>3 DEF DiskOK
      <4>2. Has(word, i, tab[i], b) <=> Has(word, i, inode[i], b)
        BY <4>1, SamePlaces DEF SamePlace, Has
      <4> QED BY <4>1, <4>2, OwnedAre
    <3>1. ASSUME NEW b \in Owned(i, tab[i]) PROVE b \in Blocks
      <4>1. word \in WordType /\ tab[i] \in InodeType
        BY <2>3 DEF DiskOK
      <4>2. Has(word, i, tab[i], b)
        BY <3>1, <4>1, OwnedAre
      <4> QED BY <4>1, <4>2, PtsType DEF Has
    <3> QED BY <2>1, <3>1, <3>2
  <2>10. \A j \in opened : inode'[j].ftype # "symlink"
    <3> HIDE DEF oi
    <3> QED BY <1>0, <2>2, <2>4, <2>7
  <2> HIDE DEF oi
  <2>11. Sheds
    <3>1. \A j \in Inodes : j # i => SamePlace(inode'[j], inode[j])
      BY <2>7
    <3>2. SamePlace(inode'[Root], inode[Root])
      BY <2>3, <3>1, FilesInodes
    <3>3. \A b : Has(word, i, inode[i], b) => b \in lost'
      BY <2>9
    <3>4. Cleared(i, inode'[i])
      BY <2>6, <2>7
    <3>5. \A j \in Inodes : \/ SamePlace(inode'[j], inode[j])
                            \/ (Cleared(j, inode'[j]) /\ \A b : Has(word, j, inode[j], b) => b \in lost')
      <4> SUFFICES ASSUME NEW j \in Inodes, ~SamePlace(inode'[j], inode[j])
                   PROVE  Cleared(j, inode'[j]) /\ \A b : Has(word, j, inode[j], b) => b \in lost'
        OBVIOUS
      <4>1. j = i
        BY <3>1
      <4> QED BY <3>3, <3>4, <4>1
    <3>6. lost \subseteq lost' /\ \A b \in lost' : b \in lost \/ \E j \in Inodes : Has(word, j, inode[j], b)
      BY <2>3, <2>9
    <3> QED BY <3>2, <3>5, <3>6, Zenon DEF Sheds
  <2> QED BY <2>3, <2>5, <2>6, <2>7, <2>8, <2>9, <2>10, <2>11, FilesInodes
<1>4. i = 0 => inode' = tab /\ lost' = lost
  BY DEF enter
<1> QED
  BY <1>1, <1>2, <1>3, <1>4

(* Steps that do not touch the disk. *)
LEMMA DiskSame == ASSUME DiskOK, TagsOK, UNCHANGED disk PROVE DiskOK' /\ TagsOK'
BY DEF DiskOK, TagsOK, disk

(* An operation begins change_size. *)
LEMMA BeginFs ==
  ASSUME FsInv, call = Idle, NEW i \in Inodes, inode'[i].ftype # "symlink", NEW size, Plain(size),
         NEW op, NEW arg, call' = change_size(i, size, op, arg),
         i = Root => size2nblocks(size) > 0,
         op \in Making => i = Root, op = "write" => arg \in Nat,
         op = "symlink" => empty_inode(inode') \notin opened'
  PROVE  CallOK'
<1>1. /\ call'.oi = i /\ call'.old_size = inode[i].size /\ call'.new_size = size /\ call'.loop = "grow"
      /\ call'.op = op /\ call'.arg = arg /\ "loop" \in DOMAIN call'
  BY DEF change_size
<1>2. Plain(inode[i].size) /\ size2nblocks(inode[Root].size) > 0
  BY DEF FsInv, OpenOK
<1>3. op = "symlink" => (empty_inode(inode) \notin opened)'
  BY DEF empty_inode
<1>4. ~(call'.loop = "shrink")
  BY <1>1
<1> QED BY <1>1, <1>2, <1>3, <1>4, Zenon DEF CallOK

LEMMA SmallFs ==
  ASSUME FsInv, Open \/ Close \/ ospfs_ioctl
  PROVE  DiskOK' /\ TagsOK' /\ OpenOK' /\ CallOK' /\ RestOK'
<1>1. UNCHANGED <<disk, call, far, dirents, lost>> /\ call = Idle
  BY DEF Open, Close, ospfs_ioctl
<1>2. DiskOK' /\ TagsOK'
  BY <1>1, DiskSame DEF FsInv
<1>3. CallOK'
  BY <1>1 DEF CallOK
<1>4. RestOK'
  BY <1>1, CountsAssumption DEF Open, Close, ospfs_ioctl, FsInv, RestOK
<1>5. opened' \subseteq Files /\ \A i \in opened' : inode[i].ftype # "symlink"
  <2>1. CASE Open
    <3>1. PICK name \in Names : dir_lookup(name) # 0 /\ inode[dir_lookup(name)].ftype = "reg" /\ opened' = opened \cup {dir_lookup(name)}
      BY <2>1 DEF Open
    <3>2. dir_lookup(name) \in Files
      BY <3>1, LookupIs DEF FsInv, LinkInv
    <3> QED BY <3>1, <3>2 DEF FsInv, OpenOK
  <2>2. CASE Close \/ ospfs_ioctl
    BY <2>2 DEF Close, ospfs_ioctl, FsInv, OpenOK
  <2> QED BY <2>1, <2>2
<1>6. OpenOK'
  BY <1>1, <1>5 DEF FsInv, OpenOK, disk
<1> QED BY <1>2, <1>3, <1>4, <1>6

(* OpenOK when inodes keep their sizes and kinds. *)
LEMMA OpenSame ==
  ASSUME FsInv, opened' = opened, call = Idle,
         \A j \in Inodes : inode'[j].size = inode[j].size /\ inode'[j].ftype = inode[j].ftype
  PROVE  OpenOK'
<1>1. \A j \in Inodes : Plain(inode'[j].size)
  BY DEF FsInv, OpenOK
<1> QED BY <1>1, FilesInodes DEF FsInv, OpenOK

LEMMA CrashFs == ASSUME FsInv, BeforeCrash PROVE nwrites_to_crash' \in Int
BY DEF FsInv, RestOK, BeforeCrash

LEMMA SizeIs == ASSUME NEW s \in Sizes PROVE Plain(s) /\ s \in Nat
BY SizesAssumption, BlocksAssumption DEF Plain

LEMMA WriteFs ==
  ASSUME FsInv, ospfs_write
  PROVE  DiskOK' /\ TagsOK' /\ OpenOK' /\ CallOK' /\ RestOK'
<1>1. PICK i \in opened, pos \in Sizes, end \in Sizes :
         /\ call = Idle /\ pos <= end
         /\ BeforeCrash
         /\ IF end > inode[i].size
              THEN call' = change_size(i, end, "write", pos) /\ UNCHANGED disk
              ELSE tag' = copied(i, inode[i], pos, end) /\ UNCHANGED <<inode, free, word, call>>
         /\ UNCHANGED <<far, dirents, opened, lost>>
  BY DEF ospfs_write
<1>2. i \in Inodes /\ i \in Files /\ i # Root /\ inode[i].ftype # "symlink"
  BY FilesInodes DEF FsInv, OpenOK
<1>3. RestOK' /\ inode' = inode /\ opened' = opened
  BY <1>1, CrashFs DEF FsInv, RestOK, disk
<1>4. OpenOK'
  BY <1>1, <1>3, OpenSame
<1>5. CASE end > inode[i].size
  <2>1. DiskOK' /\ TagsOK'
    BY <1>1, <1>5, DiskSame DEF FsInv
  <2>2. CallOK'
    BY <1>1, <1>2, <1>3, <1>5, SizeIs, BeginFs DEF Making
  <2> QED BY <1>3, <1>4, <2>1, <2>2
<1>6. CASE ~(end > inode[i].size)
  <2>1. DiskOK /\ TagsOK /\ Plain(inode[i].size) /\ inode[i] \in InodeType /\ inode \in [Inodes -> InodeType]
    BY <1>1, <1>2 DEF FsInv, OpenOK, DiskOK
  <2>2. \A j \in Inodes : SamePlace(inode[j], inode[j])
    BY DEF SamePlace
  <2>3. /\ tag' \in [Blocks -> Inodes \cup {0}]
        /\ \A b \in Blocks : tag'[b] = tag[b] \/ (tag'[b] = i /\ Has(word, i, inode[i], b))
    BY <1>1, <1>2, <1>6, <2>1, <2>2, SizeIs, CopiedIs
  <2>4. UNCHANGED <<inode, free, word, call>>
    BY <1>1, <1>6
  <2>5. TagsOK'
    BY <1>2, <2>1, <2>3, <2>4, TagsFall
  <2>6. DiskOK'
    BY <2>1, <2>3, <2>4 DEF DiskOK
  <2>7. CallOK'
    BY <1>1, <2>4 DEF CallOK
  <2> QED BY <1>3, <1>4, <2>5, <2>6, <2>7
<1> QED BY <1>5, <1>6

LEMMA TruncateFs ==
  ASSUME FsInv, ospfs_notify_change
  PROVE  DiskOK' /\ TagsOK' /\ OpenOK' /\ CallOK' /\ RestOK'
<1>1. PICK i \in Files, size \in Sizes :
         /\ call = Idle
         /\ i \in opened \/ (inode[i].nlink > 0 /\ inode[i].ftype = "reg")
         /\ call' = change_size(i, size, "truncate", 0)
         /\ UNCHANGED <<disk, far, dirents, opened, nwrites_to_crash, lost>>
  BY DEF ospfs_notify_change
<1>2. i \in Inodes /\ i # Root /\ inode[i].ftype # "symlink"
  BY <1>1, FilesInodes DEF FsInv, OpenOK
<1>3. RestOK' /\ inode' = inode /\ opened' = opened
  BY <1>1 DEF FsInv, RestOK, disk
<1>4. OpenOK'
  BY <1>1, <1>3, OpenSame
<1>5. DiskOK' /\ TagsOK'
  BY <1>1, DiskSame DEF FsInv
<1>6. CallOK'
  BY <1>1, <1>2, <1>3, SizeIs, BeginFs DEF Making
<1> QED BY <1>3, <1>4, <1>5, <1>6

(* The directory can always be asked to grow by an entry. *)
LEMMA RootGrows ==
  ASSUME FsInv, call = Idle
  PROVE  Plain(inode[Root].size + DIRENTRY_SIZE) /\ size2nblocks(inode[Root].size + DIRENTRY_SIZE) > 0
<1> DEFINE s == inode[Root].size
           n == size2nblocks(s)
           t == s + DIRENTRY_SIZE
<1>1. Plain(s) /\ inode[Root].ftype = "dir" /\ DiskOK
  BY FilesInodes DEF FsInv, OpenOK
<1>2. n \in Nat /\ s \in Nat /\ s <= BLKSIZE * n
  BY <1>1, PlainBlocks
<1>3. n <= NBLOCKS
  <2>1. n <= Cardinality(Away(word, inode, free, Root))
    BY <1>1, FilesInodes DEF DiskOK, Counted
  <2> HIDE DEF n
  <2> QED BY <1>2, <2>1, AwayFinite, Numbers
<1> HIDE DEF n, s
<1>4. DIRENTRY_SIZE \in Nat /\ DIRENTRY_SIZE >= 1 /\ DIRENTRY_SIZE <= BLKSIZE /\ BLKSIZE \in Nat /\ BLKSIZE > 0
  BY BlocksAssumption, EntryAssumption
<1>5. BLKSIZE * n <= BLKSIZE * NBLOCKS /\ BLKSIZE * n \in Int /\ BLKSIZE * NBLOCKS \in Int
  <2>1. PICK d \in Nat : NBLOCKS = n + d
    <3>1. NBLOCKS - n \in Nat /\ NBLOCKS = n + (NBLOCKS - n)
      BY <1>2, <1>3, Numbers
    <3> QED BY <3>1
  <2>2. BLKSIZE * NBLOCKS = BLKSIZE * n + BLKSIZE * d /\ BLKSIZE * d >= 0 /\ BLKSIZE * d \in Int
        /\ BLKSIZE * n \in Int /\ BLKSIZE * NBLOCKS \in Int
    BY <1>2, <1>4, <2>1, Numbers
  <2> QED BY <2>2
<1>6. (NBLOCKS + 2) * BLKSIZE = BLKSIZE * NBLOCKS + 2 * BLKSIZE /\ WRAP \in Nat /\ WRAP > (NBLOCKS + 2) * BLKSIZE
  BY BlocksAssumption
<1>7. t \in Nat /\ t >= 1 /\ t <= WRAP - BLKSIZE
  BY <1>2, <1>4, <1>5, <1>6
<1> HIDE DEF t
<1>8. Plain(t)
  BY <1>4, <1>6, <1>7 DEF Plain
<1>9. size2nblocks(t) \in Nat /\ t <= BLKSIZE * size2nblocks(t)
  BY <1>8, PlainBlocks
<1>10. size2nblocks(t) # 0
  BY <1>4, <1>7, <1>9
<1>11. size2nblocks(t) > 0
  BY <1>9, <1>10
<1> QED BY <1>8, <1>11 DEF t, s

LEMMA MakeEntryFs ==
  ASSUME FsInv, NEW op \in Making, NEW arg, ArgOK(op, arg), MakeEntry(op, arg),
         op = "symlink" => empty_inode(inode) \notin opened
  PROVE  DiskOK' /\ TagsOK' /\ OpenOK' /\ CallOK' /\ RestOK' /\ Sheds
<1>1. /\ call = Idle /\ BeforeCrash /\ UNCHANGED <<free, word, tag, far, opened>>
      /\ DiskOK /\ TagsOK /\ OpenOK /\ RestOK
  BY DEF MakeEntry, FsInv
<1>2. nwrites_to_crash' \in Int
  BY <1>1, CrashFs
<1>3. CASE blank_direntry # 0
  <2>1. enter(op, arg, blank_direntry, dirents, inode) /\ call' = call
    BY <1>3 DEF MakeEntry
  <2>2. /\ inode \in [Inodes -> InodeType] /\ lost \subseteq Blocks /\ opened \subseteq Files
        /\ \A j \in opened : inode[j].ftype # "symlink"
        /\ \A j \in Inodes : SamePlace(inode[j], inode[j]) /\ Plain(inode[j].size)
    BY <1>1 DEF DiskOK, RestOK, OpenOK, SamePlace
  <2>3. /\ inode' \in [Inodes -> InodeType] /\ lost' \subseteq Blocks /\ inode'[Root] = inode[Root]
        /\ \A j \in Inodes : SamePlace(inode'[j], inode[j]) \/ Cleared(j, inode'[j])
        /\ \A j \in Inodes : Plain(inode'[j].size)
        /\ \A j \in opened : inode'[j].ftype # "symlink"
        /\ Sheds
    BY <1>1, <2>1, <2>2, EnterFs
  <2>4. /\ Separate(word', inode', free') /\ Counted(word', inode', free')
        /\ \A j \in Inodes : \A b : Has(word', j, inode'[j], b) => Has(word, j, inode[j], b)
    BY <1>1, <2>3, PointersFall
  <2>5. DiskOK'
    BY <1>1, <2>3, <2>4 DEF DiskOK
  <2>6. TagsOK'
    BY <1>1, <2>4, FilesInodes, TagsFall
  <2>7. OpenOK'
    BY <1>1, <2>2, <2>3 DEF OpenOK
  <2>8. CallOK'
    BY <1>1, <2>1 DEF CallOK
  <2>9. RestOK'
    BY <1>1, <1>2, <2>3 DEF RestOK
  <2> QED BY <2>3, <2>5, <2>6, <2>7, <2>8, <2>9
<1>4. CASE ~(blank_direntry # 0)
  <2>1. call' = change_size(Root, inode[Root].size + DIRENTRY_SIZE, op, arg) /\ UNCHANGED <<inode, dirents, lost>>
    BY <1>4 DEF MakeEntry
  <2>2. DiskOK' /\ TagsOK'
    BY <1>1, <2>1, DiskSame DEF disk
  <2>3. OpenOK'
    BY <1>1, <2>1, OpenSame
  <2>4. CallOK'
    <3>1. op # "write"
      BY DEF Making
    <3>2. inode'[Root].ftype # "symlink"
      BY <1>1, <2>1 DEF OpenOK
    <3>3. op = "symlink" => empty_inode(inode') \notin opened'
      BY <1>1, <2>1
    <3> QED BY <1>1, <2>1, <3>1, <3>2, <3>3, RootGrows, FilesInodes, BeginFs
  <2>5. RestOK'
    BY <1>1, <1>2, <2>1 DEF RestOK
  <2>6. Sheds
    BY <2>1, ShedsNone DEF SamePlace
  <2> QED BY <2>2, <2>3, <2>4, <2>5, <2>6
<1> QED BY <1>3, <1>4

LEMMA UnlinkFs ==
  ASSUME FsInv, LinkInv', ospfs_unlink
  PROVE  DiskOK' /\ TagsOK' /\ OpenOK' /\ CallOK' /\ RestOK' /\ Sheds
<1>1. PICK name \in Names :
         /\ call = Idle /\ dir_lookup(name) # 0 /\ BeforeCrash
         /\ inode' = [inode EXCEPT ![dir_lookup(name)].nlink = @ - 1]
         /\ call' = IF inode[dir_lookup(name)].ftype # "symlink" /\ inode[dir_lookup(name)].nlink = 1
                    THEN change_size(dir_lookup(name), 0, "unlink", 0) ELSE Idle
         /\ UNCHANGED <<free, word, tag, far, opened, lost>>
  BY DEF ospfs_unlink
<1> DEFINE i == dir_lookup(name)
<1>2. i \in Files
  BY <1>1, LookupIs DEF FsInv, LinkInv
<1> HIDE DEF i
<1>3. i \in Inodes /\ i # Root /\ DiskOK /\ TagsOK /\ OpenOK /\ RestOK /\ inode \in [Inodes -> InodeType]
  BY <1>2, FilesInodes DEF FsInv, DiskOK
<1>4. inode' = [inode EXCEPT ![i].nlink = @ - 1]
  BY <1>1 DEF i
<1>5. inode'[i].nlink \in Nat
  <2>1. inode'[i].nlink = Cardinality(Naming(dirents', i)) /\ dirents' \in Seq(Entry)
    BY <1>2 DEF LinkInv
  <2> QED BY <2>1, LinkedFinite, FS_CardinalityType
<1>6. \A j \in Inodes : /\ inode'[j].size = inode[j].size /\ inode'[j].ftype = inode[j].ftype /\ inode'[j].direct = inode[j].direct
                        /\ inode'[j].indirect = inode[j].indirect /\ inode'[j].indirect2 = inode[j].indirect2
  BY <1>3, <1>4
<1>7. inode' \in [Inodes -> InodeType]
  <2>1. inode'[i].nlink = inode[i].nlink - 1
    BY <1>3, <1>4 DEF InodeType
  <2>2. inode[i].nlink - 1 \in Nat
    BY <1>5, <2>1
  <2> QED BY <1>3, <1>4, <2>2 DEF InodeType
<1>8. \A j \in Inodes : SamePlace(inode'[j], inode[j])
  BY <1>6 DEF SamePlace
<1>9. /\ Separate(word', inode', free') /\ Counted(word', inode', free')
      /\ \A j \in Inodes : \A b : Has(word', j, inode'[j], b) => Has(word, j, inode[j], b)
  BY <1>1, <1>3, <1>7, <1>8, PointersFall
<1>10. DiskOK'
  BY <1>1, <1>3, <1>7, <1>9 DEF DiskOK
<1>11. TagsOK'
  BY <1>1, <1>3, <1>9, TagsFall
<1>12. OpenOK'
  BY <1>1, <1>6, OpenSame
<1>13. CallOK'
  <2>1. CASE inode[i].ftype # "symlink" /\ inode[i].nlink = 1
    <3>1. call' = change_size(i, 0, "unlink", 0)
      BY <1>1, <2>1 DEF i
    <3>2. inode'[i].ftype # "symlink" /\ Plain(0)
      BY <1>3, <1>6, <2>1, BlocksAssumption, LimitIs DEF Plain
    <3> QED BY <1>1, <1>3, <3>1, <3>2, BeginFs DEF Making
  <2>2. CASE ~(inode[i].ftype # "symlink" /\ inode[i].nlink = 1)
    <3>1. call' = Idle
      BY <1>1, <2>2, Zenon DEF i
    <3> QED BY <3>1 DEF CallOK
  <2> QED BY <2>1, <2>2
<1>14. RestOK'
  BY <1>1, <1>3, CrashFs DEF RestOK
<1>15. Sheds
  BY <1>1, <1>8, ShedsNone
<1> QED BY <1>10, <1>11, <1>12, <1>13, <1>14, <1>15

LEMMA ReturnFs ==
  ASSUME FsInv, Return
  PROVE  DiskOK' /\ TagsOK' /\ OpenOK' /\ CallOK' /\ RestOK' /\ Sheds
<1> DEFINE i == call.oi
           tab == [inode EXCEPT ![i].size = call.new_size]
<1>1. /\ call # Idle /\ call.loop = "shrink" /\ call' = Idle
      /\ size2nblocks(inode[i].size) <= size2nblocks(call.new_size)
      /\ UNCHANGED <<free, word, far, opened, nwrites_to_crash>>
  BY DEF Return, Blocks_of
<1>2. /\ i \in Inodes /\ inode[i].ftype # "symlink" /\ Plain(call.new_size)
      /\ size2nblocks(inode[i].size) >= size2nblocks(call.new_size)
      /\ i = Root => size2nblocks(call.new_size) > 0
      /\ call.op \in Making => i = Root
      /\ call.op = "write" => call.arg \in Nat
      /\ call.op = "symlink" => empty_inode(inode) \notin opened
      /\ DiskOK /\ TagsOK /\ OpenOK /\ RestOK /\ inode \in [Inodes -> InodeType]
  BY <1>1 DEF FsInv, CallOK, DiskOK, Blocks_of
<1>3. size2nblocks(inode[i].size) = size2nblocks(call.new_size)
  <2>1. inode[i].size \in 0..(WRAP - 1)
    BY <1>2 DEF InodeType
  <2>2. size2nblocks(inode[i].size) \in Nat /\ size2nblocks(call.new_size) \in Nat
    BY <1>2, <2>1, BlocksNat, PlainBlocks
  <2> QED BY <1>1, <1>2, <2>2
<1>4. call.new_size \in 0..(WRAP - 1) /\ call.new_size \in Nat
  BY <1>2, BlocksAssumption DEF Plain
<1>5. tab \in [Inodes -> InodeType]
  BY <1>2, <1>4 DEF InodeType
<1>6. /\ tab[i].size = call.new_size
      /\ \A j \in Inodes : /\ tab[j].ftype = inode[j].ftype /\ tab[j].direct = inode[j].direct /\ tab[j].nlink = inode[j].nlink
                           /\ tab[j].indirect = inode[j].indirect /\ tab[j].indirect2 = inode[j].indirect2
                           /\ j # i => tab[j] = inode[j]
  BY <1>2 DEF InodeType
<1>7. /\ inode' = tab \/ (call.op \in Making /\ enter(call.op, call.arg, Len(dirents) + 1, Append(dirents, BlankEntry), tab))
      /\ call.op \notin Making => inode' = tab /\ lost' = lost
      /\ tag' = IF call.op = "write" THEN copied(i, tab[i], call.arg, call.new_size) ELSE tag
  BY DEF Return, Making
<1> HIDE DEF tab, i
<1>8. \A j \in Inodes : SamePlace(tab[j], inode[j]) /\ Plain(tab[j].size)
  <2>1. \A j \in Inodes : j # i => Plain(inode[j].size)
    BY <1>2 DEF OpenOK, i
  <2>2. \A j \in Inodes : Plain(tab[j].size) /\ size2nblocks(tab[j].size) = size2nblocks(inode[j].size)
    BY <1>2, <1>3, <1>6, <2>1
  <2> QED BY <1>6, <2>2 DEF SamePlace
<1>9. empty_inode(tab) = empty_inode(inode)
  BY <1>6, EmptySame, FilesInodes
<1>10. opened \subseteq Files /\ (\A j \in opened : inode[j].ftype # "symlink") /\ lost \subseteq Blocks
  BY <1>2 DEF OpenOK, RestOK
<1>11. /\ inode' \in [Inodes -> InodeType] /\ lost' \subseteq Blocks /\ inode'[Root] = tab[Root]
       /\ \A j \in Inodes : SamePlace(inode'[j], inode[j]) \/ Cleared(j, inode'[j])
       /\ \A j \in Inodes : Plain(inode'[j].size)
       /\ \A j \in opened : inode'[j].ftype # "symlink"
       /\ Sheds
  <2>1. CASE call.op \in Making
    <3>1. enter(call.op, call.arg, Len(dirents) + 1, Append(dirents, BlankEntry), tab)
      BY <2>1 DEF Return, Making, tab, i
    <3>2. ArgOK(call.op, call.arg)
      BY <1>1 DEF FsInv, LinkInv
    <3> QED BY <1>2, <1>5, <1>8, <1>9, <1>10, <2>1, <3>1, <3>2, EnterFs
  <2>2. CASE call.op \notin Making
    <3>1. inode' = tab /\ lost' = lost
      BY <1>7, <2>2
    <3>2. \A j \in opened : inode'[j].ftype # "symlink"
      BY <1>6, <1>10, <3>1, FilesInodes
    <3> QED BY <1>5, <1>8, <1>10, <3>1, <3>2, ShedsNone
  <2> QED BY <2>1, <2>2
<1>12. /\ Separate(word', inode', free') /\ Counted(word', inode', free')
       /\ \A j \in Inodes : \A b : Has(word', j, inode'[j], b) => Has(word, j, inode[j], b)
  BY <1>1, <1>2, <1>11, PointersFall
<1>13. /\ tag' \in [Blocks -> Inodes \cup {0}]
       /\ \A b \in Blocks : tag'[b] = tag[b] \/ (tag'[b] = i /\ Has(word, i, inode[i], b))
  <2>1. CASE call.op = "write"
    <3>1. tag' = copied(i, tab[i], call.arg, call.new_size)
      BY <1>7, <2>1
    <3>2. tab[i] \in InodeType /\ call.arg \in Nat
      BY <1>2, <1>5, <2>1
    <3> QED BY <1>2, <1>4, <1>8, <3>1, <3>2, CopiedIs
  <2>2. CASE call.op # "write"
    BY <1>2, <1>7, <2>2 DEF DiskOK
  <2> QED BY <2>1, <2>2
<1>14. DiskOK'
  BY <1>1, <1>2, <1>11, <1>12, <1>13 DEF DiskOK
<1>15. TagsOK'
  BY <1>2, <1>12, <1>13, TagsFall
<1>16. OpenOK'
  <2>1. inode'[Root].ftype = "dir" /\ size2nblocks(inode'[Root].size) > 0
    BY <1>2, <1>8, <1>11, FilesInodes DEF OpenOK, SamePlace
  <2> QED BY <1>1, <1>10, <1>11, <2>1 DEF OpenOK
<1>17. CallOK'
  BY <1>1 DEF CallOK
<1>18. RestOK'
  BY <1>1, <1>2, <1>11 DEF RestOK
<1> QED BY <1>11, <1>14, <1>15, <1>16, <1>17, <1>18

-----------------------------------------------------------------------------
(* FsInv is an invariant, if a symlink never takes the inode of a file     *)
(* that is still open.                                                     *)
Formatted(r, ft, s, b) ==
  /\ r \in InodeType /\ r.size = s /\ r.ftype = ft /\ r.indirect = 0 /\ r.indirect2 = 0
  /\ \A k \in 0..(NDIRECT - 1) : r.direct[k] = IF k = 0 THEN b ELSE 0

LEMMA FirstInode ==
  ASSUME NEW ft \in {"reg", "dir"}, NEW s \in 0..(WRAP - 1), NEW b \in Blocks,
         NEW r, r = [NewFile(ft, s) EXCEPT !.direct[0] = b]
  PROVE  Formatted(r, ft, s, b)
<1> DEFINE f == NewFile(ft, s)
           Z == [k \in 0..(NDIRECT - 1) |-> 0]
<1>1. f = [size |-> s, ftype |-> ft, nlink |-> 1, direct |-> Z, indirect |-> 0, indirect2 |-> 0]
  BY DEF NewFile
<1>2. Z \in [0..(NDIRECT - 1) -> Blocks] /\ 0 \in 0..(NDIRECT - 1) /\ (\A k \in 0..(NDIRECT - 1) : Z[k] = 0) /\ 0 \in Blocks
  BY Numbers
<1> HIDE DEF Z
<1>3. f \in InodeType /\ f.direct = Z /\ f.size = s /\ f.ftype = ft /\ f.indirect = 0 /\ f.indirect2 = 0
  BY <1>1, <1>2 DEF InodeType
<1>4. r = [f EXCEPT !.direct[0] = b]
  OBVIOUS
<1> HIDE DEF f
<1> DEFINE d == [Z EXCEPT ![0] = b]
<1>5. d \in [0..(NDIRECT - 1) -> Blocks] /\ \A k \in 0..(NDIRECT - 1) : d[k] = IF k = 0 THEN b ELSE 0
  BY <1>2
<1>6. r = [f EXCEPT !.direct = d]
  BY <1>3, <1>4
<1> HIDE DEF d
<1>7. r \in InodeType
  BY <1>3, <1>5, <1>6 DEF InodeType
<1>8. r.direct = d /\ r.size = s /\ r.ftype = ft /\ r.indirect = 0 /\ r.indirect2 = 0
  BY <1>3, <1>6 DEF InodeType
<1> QED BY <1>5, <1>7, <1>8 DEF Formatted

LEMMA FreshInode ==
  ASSUME 0 \in 0..(WRAP - 1), NEW r, r = [NewFile("reg", 0) EXCEPT !.nlink = 0]
  PROVE  Formatted(r, "reg", 0, 0)
<1> DEFINE Z == [k \in 0..(NDIRECT - 1) |-> 0]
<1>1. r = [size |-> 0, ftype |-> "reg", nlink |-> 0, direct |-> Z, indirect |-> 0, indirect2 |-> 0]
  BY DEF NewFile
<1>2. Z \in [0..(NDIRECT - 1) -> Blocks] /\ (\A k \in 0..(NDIRECT - 1) : Z[k] = 0) /\ 0 \in Blocks
  BY Numbers
<1> HIDE DEF Z
<1>3. r \in InodeType
  BY <1>1, <1>2 DEF InodeType
<1>4. r.direct = Z /\ r.size = 0 /\ r.ftype = "reg" /\ r.indirect = 0 /\ r.indirect2 = 0
  BY <1>1
<1> QED BY <1>2, <1>3, <1>4 DEF Formatted

(* The freshly formatted disk. *)
Fresh ==
  /\ free = {b \in Blocks : b > BORDER + 1} /\ word = [b \in Blocks |-> Blank]
  /\ tag = [b \in Blocks |-> IF b = BORDER + 1 THEN 2 ELSE 0]
  /\ call = Idle /\ far = FALSE /\ opened = {} /\ nwrites_to_crash = -1 /\ lost = {}
  /\ inode = [i \in Inodes |-> inode[i]]
  /\ inode[Root].size = BLKSIZE /\ inode[Root].ftype = "dir"
  /\ inode[2].size = 1 /\ inode[2].ftype = "reg"
  /\ \A k \in 0..(NDIRECT - 1) : inode[Root].direct[k] = IF k = 0 THEN BORDER ELSE 0
  /\ \A k \in 0..(NDIRECT - 1) : inode[2].direct[k] = IF k = 0 THEN BORDER + 1 ELSE 0
  /\ \A i \in Inodes : i # Root /\ i # 2 =>
       inode[i].size = 0 /\ inode[i].ftype = "reg" /\ \A k \in 0..(NDIRECT - 1) : inode[i].direct[k] = 0
  /\ \A i \in Inodes : inode[i].indirect = 0 /\ inode[i].indirect2 = 0 /\ inode[i] \in InodeType

LEMMA FreshSizes ==
  /\ Plain(BLKSIZE) /\ Plain(1) /\ Plain(0)
  /\ size2nblocks(BLKSIZE) = 1 /\ size2nblocks(1) = 1 /\ size2nblocks(0) = 0
<1>1. Plain(BLKSIZE) /\ Plain(1) /\ Plain(0)
  <2>1. (NBLOCKS + 2) * BLKSIZE = NBLOCKS * BLKSIZE + 2 * BLKSIZE /\ NBLOCKS * BLKSIZE >= 0 /\ NBLOCKS * BLKSIZE \in Int
    BY BlocksAssumption
  <2> QED BY <2>1, BlocksAssumption DEF Plain
<1>2. BLKSIZE * 1 = BLKSIZE /\ BLKSIZE * 0 = 0 /\ BLKSIZE \in Nat /\ BLKSIZE > 0
  BY BlocksAssumption
<1>3. size2nblocks(BLKSIZE) = 1
  BY <1>1, <1>2, BlocksAre
<1>4. size2nblocks(1) = 1
  BY <1>1, <1>2, BlocksAre
<1>5. size2nblocks(0) = 0
  BY <1>1, <1>2, BlocksAre
<1> QED BY <1>1, <1>3, <1>4, <1>5

LEMMA FreshPlaces ==
  2 \in Files /\ 2 # Root /\ Root \in Inodes /\ 2 \in Inodes /\ BORDER + 1 \in Blocks /\ 0 \in 0..(NDIRECT - 1)
BY BlocksAssumption, FirstFileAssumption, Numbers, FilesInodes DEF Files, Root

LEMMA FreshDisk == ASSUME Init PROVE Fresh
<1>1. /\ free = {b \in Blocks : b > BORDER + 1} /\ word = [b \in Blocks |-> Blank]
      /\ tag = [b \in Blocks |-> IF b = BORDER + 1 THEN 2 ELSE 0]
      /\ call = Idle /\ far = FALSE /\ opened = {} /\ nwrites_to_crash = -1 /\ lost = {}
  BY DEF Init
<1>2. 2 \in Files /\ 2 # Root /\ Root \in Inodes /\ 2 \in Inodes /\ BORDER + 1 \in Blocks /\ 0 \in 0..(NDIRECT - 1)
  BY FreshPlaces
<1>3. /\ inode = [i \in Inodes |->
           IF i = Root THEN [NewFile("dir", BLKSIZE) EXCEPT !.direct[0] = BORDER]
           ELSE IF i = 2 THEN [NewFile("reg", 1) EXCEPT !.direct[0] = BORDER + 1]
           ELSE [NewFile("reg", 0) EXCEPT !.nlink = 0]]
  BY <1>2 DEF Init
<1>8. Plain(BLKSIZE) /\ Plain(1) /\ Plain(0) /\ size2nblocks(BLKSIZE) = 1 /\ size2nblocks(1) = 1 /\ size2nblocks(0) = 0
  BY FreshSizes
<1>9. BLKSIZE \in 0..(WRAP - 1) /\ 1 \in 0..(WRAP - 1) /\ 0 \in 0..(WRAP - 1)
  BY <1>8, BlocksAssumption DEF Plain
<1>10. /\ inode[Root] = [NewFile("dir", BLKSIZE) EXCEPT !.direct[0] = BORDER]
       /\ inode[2] = [NewFile("reg", 1) EXCEPT !.direct[0] = BORDER + 1]
       /\ \A i \in Inodes : i # Root /\ i # 2 => inode[i] = [NewFile("reg", 0) EXCEPT !.nlink = 0]
  BY <1>2, <1>3
<1>11. /\ Formatted(inode[Root], "dir", BLKSIZE, BORDER) /\ Formatted(inode[2], "reg", 1, BORDER + 1)
       /\ \A i \in Inodes : i # Root /\ i # 2 => Formatted(inode[i], "reg", 0, 0)
  <2>1. Formatted(inode[Root], "dir", BLKSIZE, BORDER)
    BY <1>9, <1>10, Numbers, FirstInode
  <2>2. Formatted(inode[2], "reg", 1, BORDER + 1)
    BY <1>2, <1>9, <1>10, FirstInode
  <2>3. \A i \in Inodes : i # Root /\ i # 2 => Formatted(inode[i], "reg", 0, 0)
    BY <1>9, <1>10, FreshInode
  <2> QED BY <2>1, <2>2, <2>3
<1>12. /\ inode[Root].size = BLKSIZE /\ inode[Root].ftype = "dir"
       /\ inode[2].size = 1 /\ inode[2].ftype = "reg"
       /\ \A k \in 0..(NDIRECT - 1) : inode[Root].direct[k] = IF k = 0 THEN BORDER ELSE 0
       /\ \A k \in 0..(NDIRECT - 1) : inode[2].direct[k] = IF k = 0 THEN BORDER + 1 ELSE 0
       /\ \A i \in Inodes : i # Root /\ i # 2 =>
            inode[i].size = 0 /\ inode[i].ftype = "reg" /\ \A k \in 0..(NDIRECT - 1) : inode[i].direct[k] = 0
       /\ \A i \in Inodes : inode[i].indirect = 0 /\ inode[i].indirect2 = 0 /\ inode[i] \in InodeType
  BY <1>11 DEF Formatted
<1>13. inode = [i \in Inodes |-> inode[i]]
  BY <1>3
<1> QED BY <1>1, <1>12, <1>13 DEF Fresh

LEMMA FsInit == ASSUME Init PROVE FsInv
<1>1. /\ free = {b \in Blocks : b > BORDER + 1} /\ word = [b \in Blocks |-> Blank]
      /\ tag = [b \in Blocks |-> IF b = BORDER + 1 THEN 2 ELSE 0]
      /\ call = Idle /\ far = FALSE /\ opened = {} /\ nwrites_to_crash = -1 /\ lost = {}
  BY FreshDisk DEF Fresh
<1>2. 2 \in Files /\ 2 # Root /\ Root \in Inodes /\ 2 \in Inodes /\ BORDER + 1 \in Blocks /\ 0 \in 0..(NDIRECT - 1)
  BY FreshPlaces
<1>3. inode = [i \in Inodes |-> inode[i]]
  BY FreshDisk DEF Fresh
<1>8. Plain(BLKSIZE) /\ Plain(1) /\ Plain(0) /\ size2nblocks(BLKSIZE) = 1 /\ size2nblocks(1) = 1 /\ size2nblocks(0) = 0
  BY FreshSizes
<1>12. /\ inode[Root].size = BLKSIZE /\ inode[Root].ftype = "dir"
       /\ inode[2].size = 1 /\ inode[2].ftype = "reg"
       /\ \A k \in 0..(NDIRECT - 1) : inode[Root].direct[k] = IF k = 0 THEN BORDER ELSE 0
       /\ \A k \in 0..(NDIRECT - 1) : inode[2].direct[k] = IF k = 0 THEN BORDER + 1 ELSE 0
       /\ \A i \in Inodes : i # Root /\ i # 2 =>
            inode[i].size = 0 /\ inode[i].ftype = "reg" /\ \A k \in 0..(NDIRECT - 1) : inode[i].direct[k] = 0
       /\ \A i \in Inodes : inode[i].indirect = 0 /\ inode[i].indirect2 = 0 /\ inode[i] \in InodeType
  BY FreshDisk DEF Fresh
<1>13. \A i \in Inodes : \A h, c, k, b : Pts(word, i, inode[i], h, c, k, b) =>
         h = i /\ c = "direct" /\ k = 0 /\ ((i = Root /\ b = BORDER) \/ (i = 2 /\ b = BORDER + 1))
  <2> SUFFICES ASSUME NEW i \in Inodes, NEW h, NEW c, NEW k, NEW b, Pts(word, i, inode[i], h, c, k, b)
               PROVE  h = i /\ c = "direct" /\ k = 0 /\ ((i = Root /\ b = BORDER) \/ (i = 2 /\ b = BORDER + 1))
    OBVIOUS
  <2>1. ~IsTable(word, inode[i], h)
    BY <1>12 DEF IsTable
  <2>2. b # 0 /\ h = i /\ c = "direct" /\ k \in 0..(NDIRECT - 1) /\ b = inode[i].direct[k]
    BY <1>12, <2>1 DEF Pts
  <2>3. CASE i = Root
    BY <1>12, <2>2, <2>3
  <2>4. CASE i = 2
    BY <1>2, <1>12, <2>2, <2>4
  <2>5. CASE i # Root /\ i # 2
    BY <1>12, <2>2, <2>5
  <2> QED BY <2>2, <2>3, <2>4, <2>5
<1>14. Separate(word, inode, free)
  <2> DEFINE P(a, h, c, k, x) == Pts(word, a, inode[a], h, c, k, x)
  <2>1. \A a \in Inodes : \A h, c, k, b : P(a, h, c, k, b) =>
          h = a /\ c = "direct" /\ k = 0 /\ ((a = Root /\ b = BORDER) \/ (a = 2 /\ b = BORDER + 1))
    BY <1>13
  <2> HIDE DEF P
  <2>2. BORDER # BORDER + 1 /\ BORDER \notin free /\ BORDER + 1 \notin free /\ BORDER + 1 >= BORDER /\ BORDER >= BORDER
    BY <1>1, Numbers
  <2>3. \A a, e \in Inodes : \A h, c, k, g, d, l, b : P(a, h, c, k, b) /\ P(e, g, d, l, b) => h = g /\ c = d /\ k = l
    BY <2>1, <2>2
  <2>4. \A a \in Inodes : \A h, c, k, b : P(a, h, c, k, b) => b \notin free /\ b >= BORDER
    BY <2>1, <2>2
  <2> QED BY <2>3, <2>4, Zenon DEF Separate, P
<1>15. \A i \in Inodes : \A b : Has(word, i, inode[i], b) => (i = Root /\ b = BORDER) \/ (i = 2 /\ b = BORDER + 1)
  <2> SUFFICES ASSUME NEW i \in Inodes, NEW b, Has(word, i, inode[i], b)
               PROVE  (i = Root /\ b = BORDER) \/ (i = 2 /\ b = BORDER + 1)
    OBVIOUS
  <2>1. PICK h, c, k : Pts(word, i, inode[i], h, c, k, b)
    BY DEF Has
  <2> QED BY <1>13, <2>1
<1>16. Counted(word, inode, free)
  <2> SUFFICES ASSUME NEW i \in Inodes PROVE size2nblocks(inode[i].size) <= Cardinality(Away(word, inode, free, i))
    BY DEF Counted
  <2> DEFINE A == Away(word, inode, free, i)
  <2>1. IsFiniteSet(A) /\ Cardinality(A) \in Nat
    BY AwayFinite
  <2>2. ASSUME NEW x, x \in A PROVE 1 <= Cardinality(A)
    <3>1. {x} \subseteq A
      BY <2>2
    <3>2. Cardinality({x}) = 1
      BY FS_Singleton
    <3> HIDE DEF A
    <3>3. Cardinality({x}) <= Cardinality(A)
      BY <2>1, <3>1, FS_Subset
    <3> QED BY <3>2, <3>3
  <2>3. CASE i = Root
    <3>1. BORDER \in A
      <4>1. BORDER \in BORDER..(NBLOCKS - 1) /\ BORDER \notin free /\ BORDER # 0 /\ BORDER # BORDER + 1
        BY <1>1, Numbers
      <4>2. \A j \in Inodes \ {i} : ~Has(word, j, inode[j], BORDER)
        BY <1>15, <2>3, <4>1
      <4> QED BY <1>12, <4>1, <4>2 DEF Away
    <3> QED BY <1>8, <1>12, <2>2, <2>3, <3>1
  <2>4. CASE i = 2
    <3>1. BORDER + 1 \in A
      <4>1. BORDER + 1 \in BORDER..(NBLOCKS - 1) /\ BORDER + 1 \notin free /\ BORDER + 1 # 0 /\ BORDER # BORDER + 1
        BY <1>1, <1>2, Numbers
      <4>2. \A j \in Inodes \ {i} : ~Has(word, j, inode[j], BORDER + 1)
        BY <1>15, <2>4, <4>1
      <4> QED BY <1>12, <4>1, <4>2 DEF Away
    <3> QED BY <1>8, <1>12, <2>2, <2>4, <3>1
  <2>5. CASE i # Root /\ i # 2
    <3>1. size2nblocks(inode[i].size) = 0
      BY <1>8, <1>12, <2>5
    <3> HIDE DEF A
    <3> QED BY <2>1, <3>1 DEF A
  <2> QED BY <2>3, <2>4, <2>5
<1>17. DiskOK
  <2>1. free \subseteq (BORDER + 1)..(NBLOCKS - 1)
    BY <1>1, Numbers
  <2>2. Blank \in [Slots -> Blocks]
    BY Numbers DEF Blank, Slots
  <2>3. word \in WordType /\ word[0] = Blank
    BY <1>1, <2>2, Numbers DEF WordType
  <2>4. tag \in [Blocks -> Inodes \cup {0}]
    BY <1>1, <1>2
  <2>5. inode \in [Inodes -> InodeType]
    <3>1. DOMAIN inode = Inodes /\ inode = [i \in Inodes |-> inode[i]]
      BY <1>3
    <3> QED BY <1>12, <3>1
  <2> QED BY <1>14, <1>16, <2>1, <2>3, <2>4, <2>5 DEF DiskOK
<1>18. TagsOK
  <2> SUFFICES ASSUME NEW i \in Files, NEW b, Has(word, i, inode[i], b) PROVE tag[b] \in {0, i}
    BY DEF TagsOK
  <2>1. i = 2 /\ b = BORDER + 1
    BY <1>15, FilesInodes
  <2> QED BY <1>1, <1>2, <2>1
<1>19. OpenOK
  <2>1. \A i \in Inodes : Plain(inode[i].size)
    BY <1>8, <1>12
  <2> QED BY <1>1, <1>8, <1>12, <2>1 DEF OpenOK
<1>20. CallOK
  BY <1>1 DEF CallOK
<1>21. RestOK
  <2>1. -1 \in Int /\ FALSE \in BOOLEAN /\ {} \subseteq Blocks
    OBVIOUS
  <2> QED BY <1>1, <2>1 DEF RestOK
<1> QED BY <1>17, <1>18, <1>19, <1>20, <1>21, LinkInit DEF FsInv

LEMMA FsNext == ASSUME ~StaleSymlink, FsInv, [Next]_vars PROVE FsInv'
<1>1. LinkInv'
  BY LinkNext DEF FsInv
<1> SUFFICES DiskOK' /\ TagsOK' /\ OpenOK' /\ CallOK' /\ RestOK'
  BY <1>1 DEF FsInv
<1>2. CASE Open \/ Close \/ ospfs_ioctl \/ ospfs_write \/ ospfs_notify_change
  BY <1>2, SmallFs, WriteFs, TruncateFs
<1>3. CASE ospfs_create
  <2>1. PICK name \in Names : MakeEntry("create", [name |-> name])
    BY <1>3 DEF ospfs_create
  <2>2. ArgOK("create", [name |-> name]) /\ "create" \in Making
    BY NamesAssumption DEF ArgOK, Making
  <2> QED BY <2>1, <2>2, MakeEntryFs
<1>4. CASE ospfs_symlink
  <2>1. PICK name \in Names : MakeEntry("symlink", [name |-> name]) /\ empty_inode(inode) \notin opened
    BY <1>4 DEF ospfs_symlink
  <2>2. ArgOK("symlink", [name |-> name]) /\ "symlink" \in Making
    BY NamesAssumption DEF ArgOK, Making
  <2> QED BY <2>1, <2>2, MakeEntryFs
<1>5. CASE ospfs_link
  <2>1. PICK name \in Names, src \in Names :
           dir_lookup(src) # 0 /\ MakeEntry("link", [name |-> name, ino |-> dir_lookup(src)])
    BY <1>5 DEF ospfs_link
  <2>2. dir_lookup(src) \in Files
    BY <2>1, LookupIs DEF FsInv, LinkInv
  <2>3. ArgOK("link", [name |-> name, ino |-> dir_lookup(src)]) /\ "link" \in Making
    BY <2>2, NamesAssumption DEF ArgOK, Making
  <2> QED BY <2>1, <2>3, MakeEntryFs
<1>6. CASE ospfs_unlink
  BY <1>1, <1>6, UnlinkFs
<1>7. CASE ChangeSize
  BY <1>7, GrowFs, UndoFs, ShrinkFs, BrokenFs DEF ChangeSize
<1>8. CASE Return
  BY <1>8, ReturnFs
<1>9. CASE UNCHANGED vars
  <2>1. UNCHANGED disk /\ UNCHANGED <<call, far, opened, nwrites_to_crash, lost, inode>>
    BY <1>9 DEF vars, rest, disk
  <2>2. DiskOK' /\ TagsOK'
    BY <2>1, DiskSame DEF FsInv
  <2>3. OpenOK'
    BY <2>1 DEF FsInv, OpenOK
  <2>4. CallOK' /\ RestOK'
    BY <2>1 DEF FsInv, CallOK, RestOK, Blocks_of, empty_inode
  <2> QED BY <2>2, <2>3, <2>4
<1> QED
  BY <1>2, <1>3, <1>4, <1>5, <1>6, <1>7, <1>8, <1>9 DEF Next

LEMMA FsIsInvariant == ASSUME ~StaleSymlink PROVE Spec => []FsInv
<1>1. Init => FsInv
  BY FsInit
<1>2. FsInv /\ [Next]_vars => FsInv'
  BY FsNext
<1> QED
  BY <1>1, <1>2, PTL DEF Spec

(* The inode table, the bitmap, the pointers and change_size's arguments   *)
(* stay in their types: no computation modulo 2^32 and no indirect block   *)
(* ever yields a pointer outside the disk.                                 *)
THEOREM TypesHold == ASSUME ~StaleSymlink PROVE Spec => []TypeOK
<1>1. FsInv => TypeOK
  <2> SUFFICES ASSUME FsInv PROVE TypeOK
    OBVIOUS
  <2>1. inode \in [Inodes -> InodeType] /\ word \in WordType /\ tag \in [Blocks -> Inodes \cup {0}]
    BY DEF FsInv, DiskOK
  <2>2. word \in [Blocks -> [DOMAIN Blank -> Blocks]]
    BY <2>1, Numbers DEF WordType
  <2>3. free \in SUBSET Blocks
    BY FreeIs DEF FsInv
  <2>4. call = Idle \/ (call.oi \in Inodes /\ call.loop \in {"grow", "undo", "shrink"}
                        /\ call.old_size \in 0..(WRAP - 1) /\ call.new_size \in 0..(WRAP - 1))
    <3>1. \A s : Plain(s) => s \in 0..(WRAP - 1)
      BY BlocksAssumption DEF Plain
    <3> QED BY <3>1 DEF FsInv, CallOK
  <2>5. \A k \in DOMAIN dirents : dirents[k].ino \in Files \cup {0}
    BY EntryIs DEF FsInv, LinkInv
  <2>6. opened \subseteq Files /\ nwrites_to_crash \in Int /\ far \in BOOLEAN /\ lost \subseteq Blocks
    BY DEF FsInv, OpenOK, RestOK
  <2> QED BY <2>1, <2>2, <2>3, <2>4, <2>5, <2>6, Zenon DEF TypeOK, InodeType
<1> QED
  BY <1>1, FsIsInvariant, PTL

(* No block is pointed to from two places, none that is pointed to is free *)
(* and none is a system block, whatever add_block and remove_block do, and *)
(* also when remove_block frees oi_indirect for an emptied indirect block. *)
THEOREM BlocksNotShared == ASSUME ~StaleSymlink PROVE Spec => []NeverShared
<1>1. FsInv => NeverShared
  <2> SUFFICES ASSUME FsInv PROVE NeverShared
    OBVIOUS
  <2>1. word \in WordType /\ inode \in [Inodes -> InodeType] /\ Separate(word, inode, free)
    BY DEF FsInv, DiskOK
  <2>2. ASSUME NEW r \in AllPointers
        PROVE  \E i \in Inodes : \E h, c, k, b : r = <<h, c, k, b>> /\ r[4] = b /\ Pts(word, i, inode[i], h, c, k, b)
    <3>1. PICK i \in Inodes : r \in Pointers(i, inode[i])
      BY <2>2 DEF AllPointers
    <3>2. inode[i] \in InodeType
      BY <2>1
    <3>3. PICK h, c, k, b : r = <<h, c, k, b>> /\ Pts(word, i, inode[i], h, c, k, b)
      BY <2>1, <3>1, <3>2, PointersAre
    <3>4. r[4] = b
      BY <3>3
    <3> QED BY <3>3, <3>4
  <2>3. ASSUME NEW r \in AllPointers, NEW s \in AllPointers, r[4] = s[4] PROVE r = s
    <3>1a. PICK i \in Inodes : \E h, c, k, b : r = <<h, c, k, b>> /\ r[4] = b /\ Pts(word, i, inode[i], h, c, k, b)
      BY <2>2
    <3>1. PICK h, c, k, b : r = <<h, c, k, b>> /\ r[4] = b /\ Pts(word, i, inode[i], h, c, k, b)
      BY <3>1a
    <3>2a. PICK j \in Inodes : \E g, d, l, a : s = <<g, d, l, a>> /\ s[4] = a /\ Pts(word, j, inode[j], g, d, l, a)
      BY <2>2
    <3>2. PICK g, d, l, a : s = <<g, d, l, a>> /\ s[4] = a /\ Pts(word, j, inode[j], g, d, l, a)
      BY <3>2a
    <3>3. a = b
      BY <2>3, <3>1, <3>2
    <3>4. h = g /\ c = d /\ k = l
      BY <2>1, <3>1, <3>2, <3>3, Zenon DEF Separate
    <3> QED BY <3>1, <3>2, <3>3, <3>4
  <2>4. ASSUME NEW r \in AllPointers PROVE r[4] \notin free /\ r[4] >= BORDER
    <3>1a. PICK i \in Inodes : \E h, c, k, b : r = <<h, c, k, b>> /\ r[4] = b /\ Pts(word, i, inode[i], h, c, k, b)
      BY <2>2
    <3>1. PICK h, c, k, b : r = <<h, c, k, b>> /\ r[4] = b /\ Pts(word, i, inode[i], h, c, k, b)
      BY <3>1a
    <3>2. b \notin free /\ b >= BORDER
      BY <2>1, <3>1, Zenon DEF Separate
    <3> QED BY <3>1, <3>2
  <2> QED BY <2>3, <2>4 DEF NeverShared
<1> QED
  BY <1>1, FsIsInvariant, PTL

(* What the blocks of a file hold was written to that file: ospfs_write    *)
(* copies into the file's own blocks only, and add_block erases a block    *)
(* before it hands it to another file.                                     *)
THEOREM NoForeignBytes == ASSUME ~StaleSymlink PROVE Spec => []NoForeignData
<1>1. FsInv => NoForeignData
  <2> SUFFICES ASSUME FsInv, NEW i \in Files, NEW b \in Owned(i, inode[i]) PROVE tag[b] \in {0, i}
    BY DEF NoForeignData
  <2>1. word \in WordType /\ inode[i] \in InodeType
    BY FilesInodes DEF FsInv, DiskOK
  <2>2. Has(word, i, inode[i], b)
    BY <2>1, OwnedAre
  <2> QED BY <2>2 DEF FsInv, TagsOK
<1> QED
  BY <1>1, FsIsInvariant, PTL

-----------------------------------------------------------------------------
(* The shape of a file without doubly indirect block, and what it has.     *)
Shape(w, oi) ==
  \/ oi.ftype = "symlink"
  \/ /\ size2nblocks(oi.size) <= NDIRECT + NINDIRECT
     /\ \A k \in 0..(NDIRECT - 1) : oi.direct[k] # 0 <=> k < size2nblocks(oi.size)
     /\ oi.indirect # 0 <=> size2nblocks(oi.size) > NDIRECT
     /\ oi.indirect2 = 0
     /\ oi.indirect # 0 => \A k \in Slots : w[oi.indirect][k] # 0 <=> NDIRECT + k < size2nblocks(oi.size)

ShapeOK == ~far => \A i \in Inodes : Shape(word, inode[i])

(* AllAccounted, and the block that free_block would not free is in use:   *)
(* it is the first of the root directory, which is never removed.          *)
AccountOK ==
  ~far => /\ inode[Root].direct[0] = BORDER
          /\ \A b \in BORDER..(NBLOCKS - 1) :
               b \in free \/ b \in lost \/ \E i \in Inodes : Has(word, i, inode[i], b)

LostOK == lost \subseteq BORDER..(NBLOCKS - 1)

ShapeInv == ShapeOK /\ AccountOK /\ LostOK

InDirect(oi, b) == b # 0 /\ \E k \in 0..(NDIRECT - 1) : b = oi.direct[k]
InWords(w, oi, b) == b # 0 /\ oi.indirect # 0 /\ \E k \in Slots : b = w[oi.indirect][k]

LEMMA ShapedHas ==
  ASSUME NEW w, NEW i, NEW oi \in InodeType, oi.ftype # "symlink", oi.indirect2 = 0, NEW b
  PROVE  Has(w, i, oi, b) <=> InDirect(oi, b) \/ (b # 0 /\ b = oi.indirect) \/ InWords(w, oi, b)
<1>0. oi.indirect \in Blocks
  BY DEF InodeType
<1>1. \A h : IsTable(w, oi, h) <=> h = oi.indirect /\ h # 0
  BY <1>0 DEF IsTable
<1>2. ASSUME Has(w, i, oi, b)
      PROVE  InDirect(oi, b) \/ (b # 0 /\ b = oi.indirect) \/ InWords(w, oi, b)
  <2>1. PICK h, c, k : Pts(w, i, oi, h, c, k, b)
    BY <1>2 DEF Has
  <2> QED BY <1>1, <2>1 DEF Pts, InDirect, InWords
<1>3. ASSUME b # 0, NEW k \in 0..(NDIRECT - 1), b = oi.direct[k] PROVE Has(w, i, oi, b)
  <2>1. Pts(w, i, oi, i, "direct", k, b)
    BY <1>3 DEF Pts
  <2> QED BY <2>1 DEF Has
<1>4. ASSUME b # 0, b = oi.indirect PROVE Has(w, i, oi, b)
  <2>1. Pts(w, i, oi, i, "indirect", 0, b)
    BY <1>4 DEF Pts
  <2> QED BY <2>1 DEF Has
<1>5. ASSUME b # 0, oi.indirect # 0, NEW k \in Slots, b = w[oi.indirect][k] PROVE Has(w, i, oi, b)
  <2>1. Pts(w, i, oi, oi.indirect, "word", k, b)
    BY <1>1, <1>5 DEF Pts
  <2> QED BY <2>1 DEF Has
<1> QED BY <1>2, <1>3, <1>4, <1>5 DEF InDirect, InWords

LEMMA ShapeSame == ASSUME NEW w, NEW oi, NEW oj, SamePlace(oj, oi), Shape(w, oi) PROVE Shape(w, oj)
BY DEF Shape, SamePlace

LEMMA ShapeCleared ==
  ASSUME NEW w, NEW i, NEW oi \in InodeType, Cleared(i, oi)
  PROVE  Shape(w, oi)
<1> SUFFICES ASSUME oi.ftype # "symlink" PROVE Shape(w, oi)
  BY DEF Shape
<1>1. size2nblocks(oi.size) = 0 /\ \A h, c, k, b : ~Pts(w, i, oi, h, c, k, b)
  BY DEF Cleared
<1>2. \A k \in 0..(NDIRECT - 1) : oi.direct[k] = 0
  <2> SUFFICES ASSUME NEW k \in 0..(NDIRECT - 1), oi.direct[k] # 0 PROVE FALSE
    OBVIOUS
  <2>1. Pts(w, i, oi, i, "direct", k, oi.direct[k])
    BY DEF Pts
  <2> QED BY <1>1, <2>1
<1>3. oi.indirect = 0
  <2> SUFFICES ASSUME oi.indirect # 0 PROVE FALSE
    OBVIOUS
  <2>1. Pts(w, i, oi, i, "indirect", 0, oi.indirect)
    BY DEF Pts
  <2> QED BY <1>1, <2>1
<1>4. oi.indirect2 = 0
  <2> SUFFICES ASSUME oi.indirect2 # 0 PROVE FALSE
    OBVIOUS
  <2>1. Pts(w, i, oi, i, "indirect2", 0, oi.indirect2)
    BY DEF Pts
  <2> QED BY <1>1, <2>1
<1> QED BY <1>1, <1>2, <1>3, <1>4, Numbers DEF Shape

(* A step on one inode leaves the shape of the others. *)
LEMMA OthersShape ==
  ASSUME DiskOK, NEW i \in Inodes, NEW T, Rewires(i, T), NEW j \in Inodes, j # i, Shape(word, inode[j])
  PROVE  Shape(word', inode'[j])
<1>1. inode'[j] = inode[j] /\ inode[j] \in InodeType /\ word \in WordType /\ inode \in [Inodes -> InodeType]
      /\ Separate(word, inode, free)
  BY DEF DiskOK, Rewires
<1>2. CASE inode[j].ftype = "symlink"
  BY <1>1, <1>2 DEF Shape
<1>3. CASE inode[j].ftype # "symlink"
  <2>1. inode[j].indirect # 0 => word'[inode[j].indirect] = word[inode[j].indirect]
    <3> SUFFICES ASSUME inode[j].indirect # 0 PROVE word'[inode[j].indirect] = word[inode[j].indirect]
      OBVIOUS
    <3> DEFINE g == inode[j].indirect
    <3>1. g \in Blocks /\ IsTable(word, inode[j], g)
      BY <1>1 DEF IsTable, InodeType
    <3>2. Has(word, j, inode[j], g)
      BY <1>1, <1>3, <3>1, TableHas
    <3>3. g \notin free /\ ~Has(word, i, inode[i], g)
      BY <1>1, <3>2, FreeIs, OneOwner
    <3> QED BY <3>1, <3>3 DEF Rewires
  <2> QED BY <1>1, <1>3, <2>1 DEF Shape
<1> QED BY <1>2, <1>3

(* add_block keeps the shape of the file, and the blocks it takes are the  *)
(* file's.                                                                 *)
Gained(i) ==
  /\ Shape(word', inode'[i])
  /\ \A b : b \in free /\ b \notin free' => Has(word', i, inode'[i], b)
  /\ \A b : Has(word, i, inode[i], b) => Has(word', i, inode'[i], b)
  /\ size2nblocks(inode[i].size) > 0 => inode'[i].direct[0] = inode[i].direct[0]

LEMMA GainDirect ==
  ASSUME DiskOK, NEW i \in Inodes, inode[i].ftype # "symlink", free # {}, Shape(word, inode[i]),
         NEW n, n = size2nblocks(inode[i].size), n < NDIRECT + NINDIRECT, add_direct(i, n)
  PROVE  Gained(i)
<1> DEFINE new == allocate_block(free)
           oi  == inode[i]
           oj  == inode'[i]
<1>1. new \in free /\ new \in Blocks /\ new # 0
  BY Allocated, FreeIs
<1>2. n \in Nat /\ n < MAXFILEBLKS
  BY RoomLeft
<1>3. n \in 0..(NDIRECT - 1)
  BY <1>2, Indices, Numbers DEF add_direct, Slots
<1>4. /\ inode' = [inode EXCEPT ![i].direct[n] = new, ![i].size = grown(@)]
      /\ free' = free \ {new} /\ word' = erased({new})
  BY DEF add_direct
<1>5. inode \in [Inodes -> InodeType]
  BY DEF DiskOK
<1> HIDE DEF new
<1>6. /\ oj.direct = [oi.direct EXCEPT ![n] = new] /\ oj.size = grown(oi.size)
      /\ oj.indirect = oi.indirect /\ oj.indirect2 = oi.indirect2 /\ oj.ftype = oi.ftype
  BY <1>4, <1>5 DEF InodeType
<1>7. \A k \in 0..(NDIRECT - 1) : oj.direct[k] = IF k = n THEN new ELSE oi.direct[k]
  BY <1>3, <1>6, BeforeAdd
<1>8. size2nblocks(oj.size) = n + 1
  BY <1>6, BeforeAdd
<1>9. oi.direct[n] = 0 /\ oi.indirect = 0 /\ oi.indirect2 = 0 /\ \A k \in 0..(NDIRECT - 1) : oi.direct[k] # 0 <=> k < n
  BY <1>2, <1>3, Numbers DEF Shape
<1>10. oj \in InodeType /\ oi \in InodeType
  <2>1. Added(i, {new})
    BY <1>2, AddDirect DEF new
  <2> QED BY <1>5, <2>1 DEF Added, Rewires
<1>11. Shape(word', oj)
  BY <1>1, <1>2, <1>3, <1>6, <1>7, <1>8, <1>9, Numbers DEF Shape
<1>12. Has(word', i, oj, new)
  <2>1. new = oj.direct[n]
    BY <1>3, <1>7
  <2>2. InDirect(oj, new)
    BY <1>1, <1>3, <2>1 DEF InDirect
  <2> QED BY <1>6, <1>9, <1>10, <2>2, ShapedHas
<1>13. ASSUME NEW b, Has(word, i, oi, b) PROVE Has(word', i, oj, b)
  <2>0. InDirect(oi, b)
    <3>1. InDirect(oi, b) \/ (b # 0 /\ b = oi.indirect) \/ InWords(word, oi, b)
      BY <1>9, <1>10, <1>13, ShapedHas
    <3> QED BY <1>9, <3>1 DEF InWords
  <2>1. PICK k \in 0..(NDIRECT - 1) : b # 0 /\ b = oi.direct[k]
    BY <2>0 DEF InDirect
  <2>2. b = oj.direct[k]
    BY <1>7, <1>9, <2>1
  <2>3. InDirect(oj, b)
    BY <2>1, <2>2 DEF InDirect
  <2> QED BY <1>6, <1>9, <1>10, <2>3, ShapedHas
<1>14. n > 0 => oj.direct[0] = oi.direct[0]
  BY <1>2, <1>7, Numbers
<1> QED BY <1>4, <1>11, <1>12, <1>13, <1>14 DEF Gained

LEMMA GainIndirect ==
  ASSUME DiskOK, NEW i \in Inodes, inode[i].ftype # "symlink", free # {}, Shape(word, inode[i]),
         NEW n, n = size2nblocks(inode[i].size), n < NDIRECT + NINDIRECT,
         add_indirect(i, n), missing(inode[i], n) <= Cardinality(free)
  PROVE  Gained(i)
<1> DEFINE oi  == inode[i]
           oj  == inode'[i]
           ind == IF oi.indirect = 0 THEN allocate_block(free) ELSE oi.indirect
           new == allocate_block(free \ {ind})
           T   == {new, ind} \ {oi.indirect}
           kk  == direct_index(n)
<1>0. n \in Nat /\ n < MAXFILEBLKS
  BY RoomLeft
<1>1. indir_index(n) = 0 /\ kk \in Slots /\ n >= NDIRECT /\ kk = n - NDIRECT
  <2>1. indir_index(n) = 0
    BY DEF add_indirect
  <2>2. n >= NDIRECT
    BY <1>0, <2>1, Indices, Numbers
  <2> QED BY <1>0, <2>1, <2>2, Indices
<1>2. ind \in Blocks /\ ind # 0 /\ (ind = oi.indirect \/ (oi.indirect = 0 /\ ind \in free))
  BY Allocated, FreeIs, BeforeAdd
<1>3. free \ {ind} # {}
  <2>1. CASE oi.indirect = 0
    <3>1. missing(oi, n) = 2
      BY <1>1, <2>1 DEF missing
    <3> QED BY <3>1, EnoughLeft, FreeIs
  <2>2. CASE oi.indirect # 0
    BY <2>2, BeforeAdd
  <2> QED BY <2>1, <2>2
<1> HIDE DEF ind
<1>4. new \in free /\ new # ind /\ new \in Blocks /\ new # 0
  <2>1. free \ {ind} \subseteq Nat
    BY FreeIs
  <2>2. new \in free \ {ind}
    BY <1>3, <2>1, Allocated
  <2> QED BY <2>2, FreeIs
<1>5. /\ inode' = [inode EXCEPT ![i].indirect = ind, ![i].size = grown(@)]
      /\ free' = free \ T
      /\ word' = [erased(T) EXCEPT ![ind][kk] = new]
  BY DEF add_indirect, ind
<1> HIDE DEF new, kk
<1>6. T \subseteq free /\ (oi.indirect = 0 => ind \in T) /\ (oi.indirect # 0 => ind \notin T)
      /\ \A b \in T : b = new \/ b = ind
  BY <1>2, <1>4, BeforeAdd, FreeIs
<1> HIDE DEF T
<1>7. /\ oj.indirect = ind /\ oj.size = grown(oi.size)
      /\ oj.direct = oi.direct /\ oj.indirect2 = oi.indirect2 /\ oj.ftype = oi.ftype
  BY <1>5 DEF InodeType, DiskOK
<1>8. oj \in InodeType /\ oi \in InodeType
  <2>1. \E S : Added(i, S)
    BY <1>0, AddIndirect
  <2> QED BY <2>1 DEF Added, Rewires, DiskOK
<1>9. \A k \in Slots : word'[ind][k] = IF k = kk THEN new ELSE IF oi.indirect = 0 THEN 0 ELSE word[ind][k]
  <2>1. /\ erased(T) \in [Blocks -> [Slots -> Blocks]]
        /\ \A b \in Blocks : erased(T)[b] = IF b \in T THEN Blank ELSE word[b]
    BY <1>6, ErasedIs DEF WordType
  <2>2. \A k \in Slots : Blank[k] = 0
    BY DEF Blank, Slots
  <2> DEFINE e == erased(T)
  <2> HIDE DEF e
  <2>3. e \in [Blocks -> [Slots -> Blocks]] /\ word' = [e EXCEPT ![ind][kk] = new]
        /\ e[ind] = IF ind \in T THEN Blank ELSE word[ind]
    BY <1>2, <1>5, <2>1 DEF e
  <2>4. \A k \in Slots : word'[ind][k] = IF k = kk THEN new ELSE e[ind][k]
    BY <1>1, <1>2, <2>3
  <2> QED BY <1>6, <2>2, <2>3, <2>4
<1>10. size2nblocks(oj.size) = n + 1
  BY <1>7, BeforeAdd
<1>11. /\ oi.indirect2 = 0 /\ (oi.indirect # 0 <=> n > NDIRECT)
       /\ \A k \in 0..(NDIRECT - 1) : oi.direct[k] # 0 <=> k < n
       /\ oi.indirect # 0 => \A k \in Slots : word[oi.indirect][k] # 0 <=> NDIRECT + k < n
  BY DEF Shape
<1>12. \A k \in Slots : word'[ind][k] # 0 <=> NDIRECT + k < n + 1
  <2> SUFFICES ASSUME NEW k \in Slots PROVE word'[ind][k] # 0 <=> NDIRECT + k < n + 1
    OBVIOUS
  <2>0. k \in Nat /\ NDIRECT \in Nat
    BY Numbers
  <2>1. CASE k = kk
    BY <1>0, <1>1, <1>4, <1>9, <2>0, <2>1
  <2>2. CASE k # kk /\ oi.indirect = 0
    BY <1>0, <1>1, <1>9, <1>11, <2>0, <2>2
  <2>3. CASE k # kk /\ oi.indirect # 0
    <3>1. word'[ind][k] = word[ind][k] /\ ind = oi.indirect
      BY <1>2, <1>9, <2>3
    <3> QED BY <1>0, <1>1, <1>11, <2>0, <2>3, <3>1
  <2> QED BY <2>1, <2>2, <2>3
<1>13. Shape(word', oj)
  <2>1. n + 1 <= NDIRECT + NINDIRECT /\ n + 1 > NDIRECT
    BY <1>0, <1>1, Numbers
  <2>2. \A k \in 0..(NDIRECT - 1) : oj.direct[k] # 0 <=> k < n + 1
    BY <1>0, <1>1, <1>7, <1>11, Numbers
  <2> QED BY <1>2, <1>7, <1>10, <1>11, <1>12, <2>1, <2>2 DEF Shape
<1>14. /\ oj.ftype # "symlink" /\ oj.indirect2 = 0
  BY <1>7, <1>11
<1>15. ASSUME NEW b, b \in T PROVE Has(word', i, oj, b)
  <2>1. CASE b = new
    <3>1. b = word'[oj.indirect][kk] /\ oj.indirect # 0 /\ b # 0
      BY <1>1, <1>2, <1>4, <1>7, <1>9, <2>1
    <3>2. InWords(word', oj, b)
      BY <1>1, <3>1 DEF InWords
    <3> QED BY <1>8, <1>14, <3>2, ShapedHas
  <2>2. CASE b = ind
    BY <1>2, <1>7, <1>8, <1>14, <2>2, ShapedHas
  <2> QED BY <1>6, <1>15, <2>1, <2>2
<1>16. ASSUME NEW b, Has(word, i, oi, b) PROVE Has(word', i, oj, b)
  <2>1. InDirect(oi, b) \/ (b # 0 /\ b = oi.indirect) \/ InWords(word, oi, b)
    BY <1>8, <1>11, <1>16, ShapedHas
  <2>2. CASE InDirect(oi, b)
    <3>1. InDirect(oj, b)
      BY <1>7, <2>2 DEF InDirect
    <3> QED BY <1>8, <1>14, <3>1, ShapedHas
  <2>3. CASE b # 0 /\ b = oi.indirect
    BY <1>2, <1>7, <1>8, <1>14, <2>3, ShapedHas
  <2>4. CASE InWords(word, oi, b)
    <3>0. b # 0 /\ oi.indirect # 0
      BY <2>4 DEF InWords
    <3>1. PICK k \in Slots : b = word[oi.indirect][k]
      BY <2>4 DEF InWords
    <3>2. k # kk
      BY <1>0, <1>1, <1>11, <3>0, <3>1, Numbers
    <3>3. b = word'[oj.indirect][k] /\ oj.indirect # 0
      BY <1>2, <1>7, <1>9, <3>0, <3>1, <3>2
    <3>4. InWords(word', oj, b)
      BY <3>0, <3>3 DEF InWords
    <3> QED BY <1>8, <1>14, <3>4, ShapedHas
  <2> QED BY <2>1, <2>2, <2>3, <2>4
<1>17. oj.direct[0] = oi.direct[0]
  BY <1>7
<1> QED BY <1>5, <1>13, <1>15, <1>16, <1>17 DEF Gained

LEMMA AddGains ==
  ASSUME DiskOK, NEW i \in Inodes, inode[i].ftype # "symlink", add_block(i), Shape(word, inode[i]),
         size2nblocks(inode[i].size) < NDIRECT + NINDIRECT
  PROVE  Gained(i)
<1> DEFINE n == size2nblocks(inode[i].size)
<1>1. missing(inode[i], n) <= Cardinality(free) /\ (add_direct(i, n) \/ add_indirect(i, n) \/ add_indirect2(i, n))
  BY DEF add_block
<1>2. free # {}
  <2>1. PICK T : Added(i, T)
    BY AddBlock
  <2> QED BY <2>1 DEF Added, Rewires
<1>3. n \in Nat /\ n < MAXFILEBLKS
  BY <1>2, RoomLeft
<1>4. ~add_indirect2(i, n)
  <2> HIDE DEF n
  <2>1. indir_index(n) > 0 => n >= NDIRECT + NINDIRECT
    BY <1>3, Indices
  <2>2. ~(n >= NDIRECT + NINDIRECT)
    BY <1>3, Numbers DEF n
  <2>3. ~(indir_index(n) > 0)
    BY <2>1, <2>2
  <2> QED BY <2>3 DEF add_indirect2
<1> HIDE DEF n
<1>5. n = size2nblocks(inode[i].size) /\ n < NDIRECT + NINDIRECT
  BY DEF n
<1>6. CASE add_direct(i, n)
  BY <1>2, <1>5, <1>6, GainDirect
<1>7. CASE add_indirect(i, n)
  BY <1>1, <1>2, <1>5, <1>7, GainIndirect
<1> QED BY <1>1, <1>4, <1>6, <1>7

LEMMA OwnedAbove ==
  ASSUME DiskOK, NEW i \in Inodes, NEW b, Has(word, i, inode[i], b)
  PROVE  b \in BORDER..(NBLOCKS - 1)
<1>1. PICK h, c, k : Pts(word, i, inode[i], h, c, k, b)
  BY DEF Has
<1>2. b \in Blocks
  BY <1>1, PtsType DEF DiskOK
<1>3. b >= BORDER
  BY <1>1, Zenon DEF DiskOK, Separate
<1> QED BY <1>2, <1>3, Numbers

(* remove_block keeps the shape of the file, and what the file no longer   *)
(* has is free, unless it is the one block that free_block refuses.        *)
Spared(i) ==
  /\ Shape(word', inode'[i])
  /\ \A b : Has(word, i, inode[i], b) => Has(word', i, inode'[i], b) \/ b \in free' \/ b = BORDER
  /\ size2nblocks(inode[i].size) > 1 => inode'[i].direct[0] = inode[i].direct[0]

LEMMA Given ==
  ASSUME DiskOK, NEW i \in Inodes, NEW b, Has(word, i, inode[i], b), NEW F, b \in F, free' = free \cup free_block(F)
  PROVE  b \in free' \/ b = BORDER
<1>1. b \in BORDER..(NBLOCKS - 1)
  BY OwnedAbove
<1>2. b = BORDER \/ b > BORDER
  BY <1>1, Numbers
<1> QED BY <1>2 DEF free_block

LEMMA SpareDirect ==
  ASSUME DiskOK, NEW i \in Inodes, inode[i].ftype # "symlink", Shape(word, inode[i]),
         NEW last, last = size2nblocks(inode[i].size) - 1, size2nblocks(inode[i].size) > 0, remove_direct(i, last)
  PROVE  Spared(i)
<1> DEFINE oi == inode[i]
           oj == inode'[i]
           b  == oi.direct[last]
<1>0. last \in 0..(NDIRECT - 1) /\ last \in Nat
  BY BeforeRemove, Numbers DEF remove_direct
<1>1. /\ inode' = [inode EXCEPT ![i].direct[last] = 0, ![i].size = shrunk(@)]
      /\ free' = free \cup free_block({b}) /\ word' = word /\ b # 0
  BY DEF remove_direct
<1>2. /\ oj.direct = [oi.direct EXCEPT ![last] = 0] /\ oj.size = shrunk(oi.size)
      /\ oj.indirect = oi.indirect /\ oj.indirect2 = oi.indirect2 /\ oj.ftype = oi.ftype
      /\ oj = [oi EXCEPT !.direct = [oi.direct EXCEPT ![last] = 0], !.size = shrunk(oi.size)]
  BY <1>1, BeforeRemove DEF InodeType
<1>3. \A k \in 0..(NDIRECT - 1) : oj.direct[k] = IF k = last THEN 0 ELSE oi.direct[k]
  BY <1>0, <1>2, BeforeRemove
<1>4. size2nblocks(oj.size) = last /\ size2nblocks(oi.size) = last + 1
  <2>1. size2nblocks(oj.size) = size2nblocks(oi.size) - 1
    BY <1>2, BeforeRemove
  <2>2. size2nblocks(oi.size) \in Nat
    BY BeforeRemove, BlocksNat
  <2> QED BY <1>0, <2>1, <2>2
<1>5. /\ oi.indirect = 0 /\ oi.indirect2 = 0
      /\ \A k \in 0..(NDIRECT - 1) : oi.direct[k] # 0 <=> k < last + 1
  BY <1>0, <1>4, Numbers DEF Shape
<1>6. oj \in InodeType /\ oi \in InodeType
  <2> DEFINE nd == [oi.direct EXCEPT ![last] = 0]
  <2>1. nd \in [0..(NDIRECT - 1) -> Blocks] /\ oi \in InodeType /\ shrunk(oi.size) \in 0..(WRAP - 1)
    BY BeforeRemove, Numbers
  <2>2. oj = [oi EXCEPT !.direct = nd, !.size = shrunk(oi.size)]
    BY <1>2
  <2> HIDE DEF nd
  <2> QED BY <2>1, <2>2 DEF InodeType
<1>7. Shape(word', oj)
  <2>1. \A k \in 0..(NDIRECT - 1) : oj.direct[k] # 0 <=> k < last
    BY <1>0, <1>3, <1>5
  <2>2. last <= NDIRECT + NINDIRECT /\ ~(last > NDIRECT)
    BY <1>0, Numbers
  <2> QED BY <1>2, <1>4, <1>5, <2>1, <2>2 DEF Shape
<1> HIDE DEF b
<1>8. ASSUME NEW x, Has(word, i, oi, x) PROVE Has(word', i, oj, x) \/ x \in free' \/ x = BORDER
  <2>1. InDirect(oi, x) \/ (x # 0 /\ x = oi.indirect) \/ InWords(word, oi, x)
    BY <1>5, <1>6, <1>8, ShapedHas
  <2>2. InDirect(oi, x)
    BY <1>5, <2>1 DEF InWords
  <2>3. PICK k \in 0..(NDIRECT - 1) : x # 0 /\ x = oi.direct[k]
    BY <2>2 DEF InDirect
  <2>4. CASE k = last
    <3>1. x \in {b}
      BY <2>3, <2>4 DEF b
    <3> QED BY <1>1, <1>8, <3>1, Given
  <2>5. CASE k # last
    <3>1. x = oj.direct[k]
      BY <1>3, <2>3, <2>5
    <3>2. InDirect(oj, x)
      BY <2>3, <3>1 DEF InDirect
    <3> QED BY <1>2, <1>5, <1>6, <3>2, ShapedHas
  <2> QED BY <2>4, <2>5
<1>9. size2nblocks(oi.size) > 1 => oj.direct[0] = oi.direct[0]
  BY <1>0, <1>3, <1>4, Numbers
<1> QED BY <1>7, <1>8, <1>9 DEF Spared

LEMMA SpareIndirect ==
  ASSUME DiskOK, NEW i \in Inodes, inode[i].ftype # "symlink", Shape(word, inode[i]),
         NEW last, last = size2nblocks(inode[i].size) - 1, size2nblocks(inode[i].size) > 0, remove_indirect(i, last)
  PROVE  Spared(i)
<1> DEFINE oi  == inode[i]
           oj  == inode'[i]
           ind == oi.indirect
           kk  == direct_index(last)
           b   == word[ind][kk]
           F   == IF kk = 0 THEN {b, ind} ELSE {b}
<1>0. kk \in Slots /\ last \in Nat /\ last >= NDIRECT /\ kk = last - NDIRECT
  <2>1. last \in Nat /\ last < MAXFILEBLKS
    BY BeforeRemove
  <2>2. last >= NDIRECT /\ last < NDIRECT + NINDIRECT
    BY <2>1, Numbers DEF remove_indirect
  <2> QED BY <2>1, <2>2, Indices
<1>1. /\ inode' = [inode EXCEPT ![i].size = shrunk(@), ![i].indirect = IF kk = 0 THEN 0 ELSE ind]
      /\ free' = free \cup free_block(F) /\ word' = [word EXCEPT ![ind][kk] = 0] /\ b # 0 /\ ind # 0
  BY DEF remove_indirect
<1> HIDE DEF kk
<1>2. /\ oj.direct = oi.direct /\ oj.size = shrunk(oi.size)
      /\ oj.indirect = (IF kk = 0 THEN 0 ELSE ind) /\ oj.indirect2 = oi.indirect2 /\ oj.ftype = oi.ftype
      /\ oj = [oi EXCEPT !.size = shrunk(oi.size), !.indirect = IF kk = 0 THEN 0 ELSE ind]
  BY <1>1, BeforeRemove DEF InodeType
<1>3. oj \in InodeType /\ oi \in InodeType
  <2> DEFINE ni == IF kk = 0 THEN 0 ELSE ind
  <2>1. ni \in Blocks /\ oi \in InodeType /\ shrunk(oi.size) \in 0..(WRAP - 1)
    BY BeforeRemove, Numbers
  <2>2. oj = [oi EXCEPT !.size = shrunk(oi.size), !.indirect = ni]
    BY <1>2
  <2> HIDE DEF ni
  <2> QED BY <2>1, <2>2 DEF InodeType
<1>4. \A k \in Slots : word'[ind][k] = IF k = kk THEN 0 ELSE word[ind][k]
  <2>1. word \in [Blocks -> [Slots -> Blocks]] /\ ind \in Blocks
    BY BeforeRemove
  <2> QED BY <1>0, <1>1, <2>1
<1>5. size2nblocks(oj.size) = last /\ size2nblocks(oi.size) = last + 1
  <2>1. size2nblocks(oj.size) = size2nblocks(oi.size) - 1
    BY <1>2, BeforeRemove
  <2>2. size2nblocks(oi.size) \in Nat
    BY BeforeRemove, BlocksNat
  <2> QED BY <1>0, <2>1, <2>2
<1>6. /\ oi.indirect2 = 0 /\ last + 1 <= NDIRECT + NINDIRECT
      /\ \A k \in 0..(NDIRECT - 1) : oi.direct[k] # 0 <=> k < last + 1
      /\ \A k \in Slots : word[ind][k] # 0 <=> NDIRECT + k < last + 1
  BY <1>1, <1>5 DEF Shape
<1>7. Shape(word', oj)
  <2>1. ASSUME NEW k \in 0..(NDIRECT - 1) PROVE oj.direct[k] # 0 <=> k < last
    <3>1. k < last /\ k < last + 1
      BY <1>0, Numbers
    <3> QED BY <1>2, <1>6, <3>1
  <2>2. oj.indirect # 0 <=> last > NDIRECT
    BY <1>0, <1>1, <1>2, Numbers
  <2>3. ASSUME NEW k \in Slots PROVE word'[ind][k] # 0 <=> NDIRECT + k < last
    <3>1. k \in Nat /\ NDIRECT \in Nat
      BY Numbers
    <3>2. CASE k = kk
      BY <1>0, <1>4, <3>1, <3>2
    <3>3. CASE k # kk
      BY <1>0, <1>4, <1>6, <3>1, <3>3
    <3> QED BY <3>2, <3>3
  <2>4. oj.indirect # 0 => oj.indirect = ind
    BY <1>2
  <2>5. last <= NDIRECT + NINDIRECT
    BY <1>0, <1>6, Numbers
  <2> QED BY <1>2, <1>5, <1>6, <2>1, <2>2, <2>3, <2>4, <2>5 DEF Shape
<1>8. oj.ftype # "symlink" /\ oj.indirect2 = 0
  BY <1>2, <1>6
<1> HIDE DEF b
<1>9. ASSUME NEW x, Has(word, i, oi, x) PROVE Has(word', i, oj, x) \/ x \in free' \/ x = BORDER
  <2>1. InDirect(oi, x) \/ (x # 0 /\ x = ind) \/ InWords(word, oi, x)
    BY <1>3, <1>6, <1>9, ShapedHas
  <2>2. CASE InDirect(oi, x)
    <3>1. InDirect(oj, x)
      BY <1>2, <2>2 DEF InDirect
    <3> QED BY <1>3, <1>8, <3>1, ShapedHas
  <2>3. CASE x # 0 /\ x = ind
    <3>1. CASE kk = 0
      <4>1. x \in F
        BY <2>3, <3>1
      <4> HIDE DEF F
      <4> QED BY <1>1, <1>9, <4>1, Given
    <3>2. CASE kk # 0
      <4>1. x = oj.indirect
        BY <1>2, <2>3, <3>2
      <4> QED BY <1>3, <1>8, <2>3, <4>1, ShapedHas
    <3> QED BY <3>1, <3>2
  <2>4. CASE InWords(word, oi, x)
    <3>1. PICK k \in Slots : x # 0 /\ x = word[ind][k]
      BY <2>4 DEF InWords
    <3>2. CASE k = kk
      <4>1. x \in F
        BY <3>1, <3>2 DEF b
      <4> HIDE DEF F
      <4> QED BY <1>1, <1>9, <4>1, Given
    <3>3. CASE k # kk
      <4>1. NDIRECT + k < last + 1
        BY <1>6, <3>1
      <4>2. kk # 0
        BY <1>0, <3>3, <4>1, Numbers
      <4>3. oj.indirect = ind /\ x = word'[ind][k]
        BY <1>2, <1>4, <3>1, <3>3, <4>2
      <4>4. InWords(word', oj, x)
        BY <1>1, <3>1, <4>3 DEF InWords
      <4> QED BY <1>3, <1>8, <4>4, ShapedHas
    <3> QED BY <3>2, <3>3
  <2> QED BY <2>1, <2>2, <2>3, <2>4
<1>10. oj.direct[0] = oi.direct[0]
  BY <1>2
<1> QED BY <1>7, <1>9, <1>10 DEF Spared

LEMMA RemoveSpares ==
  ASSUME DiskOK, NEW i \in Inodes, inode[i].ftype # "symlink", remove_block(i), Shape(word, inode[i]),
         size2nblocks(inode[i].size) > 0
  PROVE  Spared(i)
<1> DEFINE last == size2nblocks(inode[i].size) - 1
<1>1. remove_direct(i, last) \/ remove_indirect(i, last) \/ remove_indirect2(i, last)
  BY DEF remove_block
<1>2. ~remove_indirect2(i, last)
  <2>1. inode[i].indirect2 = 0
    BY DEF Shape
  <2> HIDE DEF last
  <2> QED BY <2>1 DEF remove_indirect2
<1> HIDE DEF last
<1>3. last = size2nblocks(inode[i].size) - 1
  BY DEF last
<1>4. CASE remove_direct(i, last)
  BY <1>3, <1>4, SpareDirect
<1>5. CASE remove_indirect(i, last)
  BY <1>3, <1>5, SpareIndirect
<1> QED BY <1>1, <1>2, <1>4, <1>5

(* AllAccounted, one step on. *)
LEMMA AccountNext ==
  ASSUME AccountOK, ~far, inode'[Root].direct[0] = BORDER,
         \A b \in BORDER..(NBLOCKS - 1) : b \in free => b \in free' \/ \E i \in Inodes : Has(word', i, inode'[i], b),
         \A b \in BORDER..(NBLOCKS - 1) : b \in lost => b \in lost',
         \A i \in Inodes : \A b \in BORDER..(NBLOCKS - 1) : Has(word, i, inode[i], b) =>
           b \in free' \/ b \in lost' \/ \E j \in Inodes : Has(word', j, inode'[j], b)
  PROVE  AccountOK'
<1> SUFFICES ASSUME NEW b \in BORDER..(NBLOCKS - 1)
             PROVE  b \in free' \/ b \in lost' \/ \E i \in Inodes : Has(word', i, inode'[i], b)
  BY DEF AccountOK
<1>1. b \in free \/ b \in lost \/ \E i \in Inodes : Has(word, i, inode[i], b)
  BY DEF AccountOK
<1>2. CASE \E i \in Inodes : Has(word, i, inode[i], b)
  BY <1>2
<1> QED BY <1>1, <1>2

LEMMA RootHas ==
  ASSUME NEW w, NEW oi, oi.ftype # "symlink", oi.direct[0] = BORDER
  PROVE  Has(w, Root, oi, BORDER)
<1>1. Pts(w, Root, oi, Root, "direct", 0, BORDER)
  BY Numbers DEF Pts
<1> QED BY <1>1 DEF Has

(* A turn of change_size that adds a block. *)
LEMMA AddShape ==
  ASSUME FsInv, ShapeInv, call # Idle, add_block(call.oi), UNCHANGED rest,
         far' = (far \/ indir2_index(Blocks_of(call.oi)) = 0)
  PROVE  ShapeInv'
<1> DEFINE i == call.oi
<1>1. /\ DiskOK /\ i \in Inodes /\ inode[i].ftype # "symlink" /\ far \in BOOLEAN /\ lost' = lost
      /\ Root \in Inodes /\ (i = Root => size2nblocks(inode[Root].size) > 0)
  BY BlocksAssumption DEF FsInv, CallOK, RestOK, rest, OpenOK, Root, Inodes
<1>2. LostOK'
  BY <1>1 DEF ShapeInv, LostOK
<1>3. CASE far'
  BY <1>2, <1>3 DEF ShapeInv, ShapeOK, AccountOK
<1>4. CASE ~far'
  <2>1. ~far /\ size2nblocks(inode[i].size) < NDIRECT + NINDIRECT
    <3>1. ~far /\ indir2_index(size2nblocks(inode[i].size)) # 0
      BY <1>1, <1>4 DEF Blocks_of
    <3>2. size2nblocks(inode[i].size) \in Nat
      BY <1>1, BlocksNat DEF DiskOK, InodeType
    <3> QED BY <3>1, <3>2, Numbers DEF indir2_index
  <2>2. \A j \in Inodes : Shape(word, inode[j])
    BY <2>1 DEF ShapeInv, ShapeOK
  <2>3. Gained(i)
    BY <1>1, <2>1, <2>2, AddGains
  <2>4. PICK T : Rewires(i, T) /\ free' = free \ T
    BY <1>1, AddBlock DEF Added
  <2>5. \A j \in Inodes : Shape(word', inode'[j])
    BY <1>1, <2>2, <2>3, <2>4, OthersShape DEF Gained
  <2>6. \A j \in Inodes : \A b : Has(word, j, inode[j], b) => Has(word', j, inode'[j], b)
    BY <1>1, <2>3, <2>4, OthersHave DEF Gained
  <2>7. \A b : b \in free => b \in free' \/ Has(word', i, inode'[i], b)
    BY <2>3 DEF Gained
  <2>8. inode'[Root].direct[0] = BORDER
    <3>1. inode[Root].direct[0] = BORDER
      BY <2>1 DEF ShapeInv, AccountOK
    <3>2. CASE i = Root
      BY <1>1, <2>3, <3>1, <3>2 DEF Gained
    <3>3. CASE i # Root
      <4>1. \A j \in Inodes : j # i => inode'[j] = inode[j]
        BY <2>4 DEF Rewires
      <4>2. inode'[Root] = inode[Root]
        BY <1>1, <3>3, <4>1
      <4> QED BY <3>1, <4>2
    <3> QED BY <3>2, <3>3
  <2>9. AccountOK'
    BY <1>1, <2>1, <2>6, <2>7, <2>8, AccountNext DEF ShapeInv
  <2> QED BY <1>2, <2>5, <2>9 DEF ShapeInv, ShapeOK
<1> QED BY <1>3, <1>4

(* A turn that removes one. *)
LEMMA RemoveShape ==
  ASSUME FsInv, ShapeInv, call # Idle, remove_block(call.oi), UNCHANGED rest, far' = far,
         size2nblocks(inode[call.oi].size) > 0, call.oi = Root => size2nblocks(inode[Root].size) > 1
  PROVE  ShapeInv'
<1> DEFINE i == call.oi
<1>1. /\ DiskOK /\ i \in Inodes /\ inode[i].ftype # "symlink" /\ far \in BOOLEAN /\ lost' = lost
      /\ Root \in Inodes /\ inode[Root].ftype = "dir"
  BY BlocksAssumption DEF FsInv, CallOK, RestOK, rest, OpenOK, Root, Inodes
<1>2. LostOK'
  BY <1>1 DEF ShapeInv, LostOK
<1>3. CASE far'
  BY <1>2, <1>3 DEF ShapeInv, ShapeOK, AccountOK
<1>4. CASE ~far'
  <2>1. ~far
    BY <1>4
  <2>2. \A j \in Inodes : Shape(word, inode[j])
    BY <2>1 DEF ShapeInv, ShapeOK
  <2>3. Spared(i)
    BY <1>1, <2>2, RemoveSpares
  <2>4. PICK c : Removed(i, c)
    BY <1>1, RemoveBlock
  <2>5. Rewires(i, {}) /\ inode'[i].ftype = inode[i].ftype
    BY <2>4 DEF Removed
  <2>6. \A j \in Inodes : Shape(word', inode'[j])
    BY <1>1, <2>2, <2>3, <2>5, OthersShape DEF Spared
  <2>7. inode'[Root].direct[0] = BORDER /\ inode'[Root].ftype # "symlink"
    <3>1. inode[Root].direct[0] = BORDER
      BY <2>1 DEF ShapeInv, AccountOK
    <3>2. CASE i = Root
      BY <1>1, <2>3, <2>5, <3>1, <3>2 DEF Spared
    <3>3. CASE i # Root
      BY <1>1, <2>5, <3>1, <3>3 DEF Rewires
    <3> QED BY <3>2, <3>3
  <2>8. Has(word', Root, inode'[Root], BORDER)
    BY <2>7, RootHas
  <2>9. ASSUME NEW j \in Inodes, NEW b, Has(word, j, inode[j], b)
        PROVE  b \in free' \/ \E l \in Inodes : Has(word', l, inode'[l], b)
    <3>1. CASE j = i
      BY <1>1, <2>3, <2>8, <2>9, <3>1 DEF Spared
    <3>2. CASE j # i
      BY <1>1, <2>5, <2>9, <3>2, OthersHave
    <3> QED BY <3>1, <3>2
  <2>10. free \subseteq free'
    <3>1. remove_direct(i, size2nblocks(inode[i].size) - 1) \/ remove_indirect(i, size2nblocks(inode[i].size) - 1)
          \/ remove_indirect2(i, size2nblocks(inode[i].size) - 1)
      BY DEF remove_block
    <3>2. \A l : remove_direct(i, l) => free \subseteq free'
      BY DEF remove_direct
    <3>3. \A l : remove_indirect(i, l) => free \subseteq free'
      BY DEF remove_indirect
    <3>4. \A l : remove_indirect2(i, l) => free \subseteq free'
      BY DEF remove_indirect2
    <3> QED BY <3>1, <3>2, <3>3, <3>4
  <2>11. AccountOK'
    BY <1>1, <2>1, <2>7, <2>9, <2>10, AccountNext DEF ShapeInv
  <2> QED BY <1>2, <2>6, <2>11 DEF ShapeInv, ShapeOK
<1> QED BY <1>3, <1>4

(* add_block runs out of room: nothing has changed. *)
LEMMA FailShape ==
  ASSUME FsInv, ShapeInv, NEW i \in Inodes, add_block_fails(i), UNCHANGED rest, far' = far
  PROVE  ShapeInv'
<1>1. /\ DiskOK /\ inode' = inode /\ free' = free /\ lost' = lost
      /\ \A b \in Blocks : b \notin free => word'[b] = word[b]
      /\ \A j \in Inodes : \A b : Has(word', j, inode'[j], b) <=> Has(word, j, inode[j], b)
  <2>1. DiskOK /\ TagsOK
    BY DEF FsInv
  <2>2. lost' = lost
    BY DEF rest
  <2> QED BY <2>1, <2>2, FailKeeps
<1>2. ASSUME NEW j \in Inodes, Shape(word, inode[j]) PROVE Shape(word', inode'[j])
  <2>0. inode[j] \in InodeType
    BY <1>1 DEF DiskOK
  <2>1. CASE inode[j].ftype = "symlink"
    BY <1>1, <2>1 DEF Shape
  <2>2. CASE inode[j].ftype # "symlink"
    <3>1. ASSUME inode[j].indirect # 0 PROVE word'[inode[j].indirect] = word[inode[j].indirect]
      <4> DEFINE g == inode[j].indirect
      <4>1. g \in Blocks /\ IsTable(word, inode[j], g)
        BY <2>0, <3>1 DEF IsTable, InodeType
      <4>2. Has(word, j, inode[j], g)
        BY <2>0, <2>2, <4>1, TableHas
      <4>3. g \notin free
        BY <1>1, <4>2, FreeIs
      <4> QED BY <1>1, <4>1, <4>3
    <3> QED BY <1>1, <1>2, <2>2, <3>1 DEF Shape
  <2> QED BY <2>1, <2>2
<1>3. ShapeOK'
  BY <1>2 DEF ShapeInv, ShapeOK
<1>4. AccountOK'
  BY <1>1 DEF ShapeInv, AccountOK
<1>5. LostOK'
  BY <1>1 DEF ShapeInv, LostOK
<1> QED BY <1>3, <1>4, <1>5 DEF ShapeInv

LEMMA QuietShape == ASSUME ShapeInv, UNCHANGED <<inode, free, word, far, lost>> PROVE ShapeInv'
BY DEF ShapeInv, ShapeOK, AccountOK, LostOK

(* The operations around change_size. *)
LEMMA ShedShape ==
  ASSUME FsInv, DiskOK', ShapeInv, Sheds, UNCHANGED <<free, word, far>>
  PROVE  ShapeInv'
<1>1. /\ DiskOK /\ word \in WordType /\ inode \in [Inodes -> InodeType] /\ inode' \in [Inodes -> InodeType]
      /\ word' = word /\ free' = free /\ far' = far
  BY DEF FsInv, DiskOK
<1>2. /\ SamePlace(inode'[Root], inode[Root]) /\ lost \subseteq lost'
      /\ \A j \in Inodes : \/ SamePlace(inode'[j], inode[j])
                           \/ (Cleared(j, inode'[j]) /\ \A b : Has(word, j, inode[j], b) => b \in lost')
      /\ \A b \in lost' : b \in lost \/ \E j \in Inodes : Has(word, j, inode[j], b)
  BY DEF Sheds
<1>3. LostOK'
  BY <1>1, <1>2, OwnedAbove DEF ShapeInv, LostOK
<1>4. ASSUME NEW j \in Inodes, Shape(word, inode[j]) PROVE Shape(word', inode'[j])
  <2>1. CASE SamePlace(inode'[j], inode[j])
    <3>1. Shape(word, inode'[j])
      BY <1>4, <2>1, ShapeSame
    <3> QED BY <1>1, <3>1
  <2>2. CASE Cleared(j, inode'[j])
    BY <1>1, <2>2, ShapeCleared
  <2> QED BY <1>2, <2>1, <2>2
<1>5. ShapeOK'
  BY <1>1, <1>4 DEF ShapeInv, ShapeOK
<1>6. ASSUME NEW j \in Inodes, NEW b, Has(word, j, inode[j], b)
      PROVE  b \in lost' \/ Has(word', j, inode'[j], b)
  <2>1. CASE SamePlace(inode'[j], inode[j])
    <3>1. PICK h, c, k : Pts(word, j, inode[j], h, c, k, b)
      BY <1>6 DEF Has
    <3>2. Pts(word, j, inode'[j], h, c, k, b)
      BY <2>1, <3>1 DEF SamePlace, Pts, IsTable
    <3> QED BY <1>1, <3>2 DEF Has
  <2> QED BY <1>2, <1>6, <2>1
<1>7. CASE far
  BY <1>1, <1>3, <1>5, <1>7 DEF ShapeInv, AccountOK
<1>8. CASE ~far
  <2>1. inode'[Root].direct[0] = BORDER
    BY <1>2, <1>8 DEF ShapeInv, AccountOK, SamePlace
  <2>2. AccountOK'
    BY <1>1, <1>2, <1>6, <1>8, <2>1, AccountNext DEF ShapeInv
  <2> QED BY <1>3, <1>5, <2>2 DEF ShapeInv
<1> QED BY <1>7, <1>8

LEMMA TurnShape == ASSUME FsInv, ShapeInv, ChangeSize PROVE ShapeInv'
<1> DEFINE i == call.oi
           n == size2nblocks(inode[i].size)
           o == size2nblocks(call.old_size)
           m == size2nblocks(call.new_size)
<1>1. /\ call # Idle /\ i \in Inodes /\ UNCHANGED rest
      /\ n \in Nat /\ o \in Nat /\ m \in Nat
      /\ i = Root => o > 0 /\ m > 0
  <2>1. call # Idle /\ UNCHANGED rest
    BY DEF ChangeSize, Grow, Undo, Shrink, Broken
  <2>2. i \in Inodes /\ Plain(call.old_size) /\ Plain(call.new_size) /\ (i = Root => o > 0 /\ m > 0)
    BY <2>1 DEF FsInv, CallOK
  <2>3. inode[i].size \in 0..(WRAP - 1)
    BY <2>2 DEF FsInv, DiskOK, InodeType
  <2> QED BY <2>1, <2>2, <2>3, BlocksNat, PlainBlocks
<1>2. CASE add_block(i) /\ far' = (far \/ indir2_index(Blocks_of(i)) = 0)
  BY <1>1, <1>2, AddShape
<1>3. CASE add_block_fails(i) /\ UNCHANGED far
  BY <1>1, <1>3, FailShape
<1>4. CASE UNCHANGED <<disk, far>>
  BY <1>1, <1>4, QuietShape DEF disk, rest
<1>5. CASE (n > o \/ n > m) /\ remove_block(i) /\ UNCHANGED far
  <2>1. n > 0 /\ (i = Root => n > 1)
    <3> HIDE DEF n, o, m
    <3> QED BY <1>1, <1>5
  <2> QED BY <1>1, <1>5, <2>1, RemoveShape
<1>6. Grow => \/ add_block(i) /\ far' = (far \/ indir2_index(Blocks_of(i)) = 0)
              \/ add_block_fails(i) /\ UNCHANGED far
              \/ UNCHANGED <<disk, far>>
  BY Zenon DEF Grow
<1>7. Undo => (n > o /\ remove_block(i) /\ UNCHANGED far) \/ UNCHANGED <<disk, far>>
  BY DEF Undo, Blocks_of
<1>8. Shrink => n > m /\ remove_block(i) /\ UNCHANGED far
  BY DEF Shrink, Blocks_of
<1>9. Broken => UNCHANGED <<disk, far>>
  BY DEF Broken
<1> HIDE DEF n, o, m
<1> QED BY <1>2, <1>3, <1>4, <1>5, <1>6, <1>7, <1>8, <1>9 DEF ChangeSize

LEMMA MakeShape ==
  ASSUME FsInv, ShapeInv, NEW op \in Making, NEW arg, ArgOK(op, arg), MakeEntry(op, arg),
         op = "symlink" => empty_inode(inode) \notin opened
  PROVE  ShapeInv'
<1>1. DiskOK' /\ Sheds
  BY MakeEntryFs
<1>2. UNCHANGED <<free, word, far>>
  BY DEF MakeEntry
<1> QED BY <1>1, <1>2, ShedShape

LEMMA ShapeNext == ASSUME ~StaleSymlink, FsInv, ShapeInv, [Next]_vars PROVE ShapeInv'
<1>1. LinkInv'
  BY LinkNext DEF FsInv
<1>2. CASE Open \/ Close \/ ospfs_ioctl \/ ospfs_notify_change \/ UNCHANGED vars
  <2>1. UNCHANGED <<inode, free, word, far, lost>>
    BY <1>2 DEF Open, Close, ospfs_ioctl, ospfs_notify_change, vars, disk, rest
  <2> QED BY <2>1, QuietShape
<1>3. CASE ospfs_write
  <2>1. UNCHANGED <<inode, free, word, far, lost>>
    BY <1>3 DEF ospfs_write, disk
  <2> QED BY <2>1, QuietShape
<1>4. CASE ospfs_create
  <2>1. PICK name \in Names : MakeEntry("create", [name |-> name])
    BY <1>4 DEF ospfs_create
  <2>2. ArgOK("create", [name |-> name]) /\ "create" \in Making
    BY NamesAssumption DEF ArgOK, Making
  <2> QED BY <2>1, <2>2, MakeShape
<1>5. CASE ospfs_symlink
  <2>1. PICK name \in Names : MakeEntry("symlink", [name |-> name]) /\ empty_inode(inode) \notin opened
    BY <1>5 DEF ospfs_symlink
  <2>2. ArgOK("symlink", [name |-> name]) /\ "symlink" \in Making
    BY NamesAssumption DEF ArgOK, Making
  <2> QED BY <2>1, <2>2, MakeShape
<1>6. CASE ospfs_link
  <2>1. PICK name \in Names, src \in Names :
           dir_lookup(src) # 0 /\ MakeEntry("link", [name |-> name, ino |-> dir_lookup(src)])
    BY <1>6 DEF ospfs_link
  <2>2. dir_lookup(src) \in Files
    BY <2>1, LookupIs DEF FsInv, LinkInv
  <2>3. ArgOK("link", [name |-> name, ino |-> dir_lookup(src)]) /\ "link" \in Making
    BY <2>2, NamesAssumption DEF ArgOK, Making
  <2> QED BY <2>1, <2>3, MakeShape
<1>7. CASE ospfs_unlink
  <2>1. DiskOK' /\ Sheds
    BY <1>1, <1>7, UnlinkFs
  <2>2. UNCHANGED <<free, word, far>>
    BY <1>7 DEF ospfs_unlink
  <2> QED BY <2>1, <2>2, ShedShape
<1>8. CASE Return
  <2>1. DiskOK' /\ Sheds
    BY <1>8, ReturnFs
  <2>2. UNCHANGED <<free, word, far>>
    BY <1>8 DEF Return
  <2> QED BY <2>1, <2>2, ShedShape
<1>9. CASE ChangeSize
  BY <1>9, TurnShape
<1> QED
  BY <1>2, <1>3, <1>4, <1>5, <1>6, <1>7, <1>8, <1>9 DEF Next

LEMMA ShapeInit == ASSUME Init PROVE ShapeInv
<1>1. Fresh
  BY FreshDisk
<1>2. /\ Root \in Inodes /\ 2 \in Inodes /\ 2 # Root /\ 0 \in 0..(NDIRECT - 1)
      /\ NDIRECT \in Nat /\ NDIRECT > 0 /\ NINDIRECT \in Nat /\ BORDER \in Nat /\ BORDER > 0
  BY FreshPlaces, Numbers
<1>3. ASSUME NEW i \in Inodes PROVE Shape(word, inode[i])
  <2>1. inode[i].indirect = 0 /\ inode[i].indirect2 = 0
    BY <1>1 DEF Fresh
  <2>2. CASE i = Root
    <3>1. \A k \in 0..(NDIRECT - 1) : inode[i].direct[k] # 0 <=> k < 1
      BY <1>1, <1>2, <2>2 DEF Fresh
    <3>2. size2nblocks(inode[i].size) = 1
      BY <1>1, <2>2, FreshSizes DEF Fresh
    <3> QED BY <1>2, <2>1, <3>1, <3>2 DEF Shape
  <2>3. CASE i = 2
    <3>1. \A k \in 0..(NDIRECT - 1) : inode[i].direct[k] # 0 <=> k < 1
      BY <1>1, <1>2, <2>3 DEF Fresh
    <3>2. size2nblocks(inode[i].size) = 1
      BY <1>1, <2>3, FreshSizes DEF Fresh
    <3> QED BY <1>2, <2>1, <3>1, <3>2 DEF Shape
  <2>4. CASE i # Root /\ i # 2
    <3>1. \A k \in 0..(NDIRECT - 1) : inode[i].direct[k] # 0 <=> k < 0
      BY <1>1, <1>2, <2>4 DEF Fresh
    <3>2. size2nblocks(inode[i].size) = 0
      BY <1>1, <2>4, FreshSizes DEF Fresh
    <3> QED BY <1>2, <2>1, <3>1, <3>2 DEF Shape
  <2> QED BY <2>2, <2>3, <2>4
<1>4. inode[Root].direct[0] = BORDER /\ inode[2].direct[0] = BORDER + 1
      /\ inode[Root].ftype = "dir" /\ inode[2].ftype = "reg"
  BY <1>1, <1>2 DEF Fresh
<1>5. Has(word, Root, inode[Root], BORDER)
  BY <1>4, RootHas
<1>6. Has(word, 2, inode[2], BORDER + 1)
  <2>1. Pts(word, 2, inode[2], 2, "direct", 0, BORDER + 1)
    BY <1>2, <1>4 DEF Pts
  <2> QED BY <2>1 DEF Has
<1>7. ASSUME NEW b \in BORDER..(NBLOCKS - 1)
      PROVE  b \in free \/ \E i \in Inodes : Has(word, i, inode[i], b)
  <2>1. b = BORDER \/ b = BORDER + 1 \/ b > BORDER + 1
    BY <1>2, Numbers
  <2>2. CASE b > BORDER + 1
    <3>1. b \in Blocks
      BY <1>2, Numbers
    <3> QED BY <1>1, <2>2, <3>1 DEF Fresh
  <2> QED BY <1>2, <1>5, <1>6, <2>1, <2>2
<1>8. LostOK
  BY <1>1 DEF Fresh, LostOK
<1> QED BY <1>3, <1>4, <1>7, <1>8 DEF ShapeInv, ShapeOK, AccountOK

LEMMA ShapeIsInvariant == ASSUME ~StaleSymlink PROVE Spec => []ShapeInv
<1>1. Init => ShapeInv
  BY ShapeInit
<1>2. FsInv /\ ShapeInv /\ [Next]_vars => ShapeInv'
  BY ShapeNext
<1> QED
  BY <1>1, <1>2, FsIsInvariant, PTL DEF Spec

(* While no file has gone past its indirect block, an inode has exactly    *)
(* the pointers to its size2nblocks blocks, at every turn of change_size's *)
(* loops and after every rollback.                                         *)
THEOREM FilesInShape == ASSUME ~StaleSymlink PROVE Spec => []FileShape
<1>1. FsInv /\ ShapeInv => FileShape
  <2> SUFFICES ASSUME FsInv, ShapeInv, ~far, NEW i \in Inodes, inode[i].ftype # "symlink"
               PROVE  LET oi == inode[i]
                          n  == size2nblocks(oi.size)
                      IN /\ \A k \in DOMAIN oi.direct : oi.direct[k] # 0 <=> k < n
                         /\ oi.indirect # 0 <=> n > NDIRECT
                         /\ oi.indirect2 = 0
                         /\ oi.indirect # 0 => \A k \in DOMAIN Blank : word[oi.indirect][k] # 0 <=> NDIRECT + k < n
    BY DEF FileShape
  <2>1. Shape(word, inode[i])
    BY DEF ShapeInv, ShapeOK
  <2>2. DOMAIN inode[i].direct = 0..(NDIRECT - 1) /\ DOMAIN Blank = Slots
    BY Numbers DEF FsInv, DiskOK, InodeType
  <2> QED BY <2>1, <2>2 DEF Shape
<1> QED
  BY <1>1, FsIsInvariant, ShapeIsInvariant, PTL

(* While no file has gone past its indirect block, every data block is     *)
(* free, a file's, or was a file's whose inode create took: the rollback   *)
(* of add_block and the removals of change_size lose no block.             *)
THEOREM NoBlockLeaks == ASSUME ~StaleSymlink PROVE Spec => []AllAccounted
<1>1. FsInv /\ ShapeInv => AllAccounted
  <2> SUFFICES ASSUME FsInv, ShapeInv, ~far
               PROVE  BORDER..(NBLOCKS - 1) = free \cup lost \cup {r[4] : r \in AllPointers}
    BY DEF AllAccounted
  <2>1. DiskOK /\ word \in WordType /\ inode \in [Inodes -> InodeType]
    BY DEF FsInv, DiskOK
  <2>2. \A b : b \in {r[4] : r \in AllPointers} <=> \E i \in Inodes : b \in Owned(i, inode[i])
    BY DEF AllPointers, Owned
  <2>3. \A b : b \in {r[4] : r \in AllPointers} <=> \E i \in Inodes : Has(word, i, inode[i], b)
    BY <2>1, <2>2, OwnedAre
  <2> DEFINE used == {r[4] : r \in AllPointers}
  <2> HIDE DEF used
  <2>4. \A b : b \in used <=> \E i \in Inodes : Has(word, i, inode[i], b)
    BY <2>3 DEF used
  <2>5. ASSUME NEW b \in BORDER..(NBLOCKS - 1) PROVE b \in free \cup lost \cup used
    BY <2>4 DEF ShapeInv, AccountOK
  <2>6. ASSUME NEW b \in free \cup lost \cup used PROVE b \in BORDER..(NBLOCKS - 1)
    <3>1. CASE b \in free
      BY <2>1, <3>1, FreeIs
    <3>2. CASE b \in lost
      BY <3>2 DEF ShapeInv, LostOK
    <3>3. CASE b \in used
      BY <2>1, <2>4, <3>3, OwnedAbove
    <3> QED BY <3>1, <3>2, <3>3
  <2> QED BY <2>5, <2>6 DEF used
<1> QED
  BY <1>1, FsIsInvariant, ShapeIsInvariant, PTL

LEMMA ByteIndex ==
  ASSUME NEW s, Plain(s), NEW off \in Nat, off < s
  PROVE  off \div BLKSIZE \in Nat /\ off \div BLKSIZE < size2nblocks(s)
<1> DEFINE b == off \div BLKSIZE
           n == size2nblocks(s)
<1>1. b \in Nat /\ BLKSIZE * b <= off /\ BLKSIZE \in Nat /\ BLKSIZE > 0
  BY BlocksAssumption, DivBounds
<1>2. n \in Nat /\ s \in Nat /\ s <= BLKSIZE * n
  BY PlainBlocks
<1> HIDE DEF b, n
<1>3. b < n
  <2> SUFFICES ASSUME b >= n PROVE FALSE
    BY <1>1, <1>2
  <2>1. PICK d \in Nat : b = n + d
    <3>1. b - n \in Nat /\ b = n + (b - n)
      BY <1>1, <1>2
    <3> QED BY <3>1
  <2>2. BLKSIZE * b = BLKSIZE * n + BLKSIZE * d /\ BLKSIZE * d >= 0 /\ BLKSIZE * d \in Int /\ BLKSIZE * n \in Int
    BY <1>1, <1>2, <2>1
  <2> QED BY <1>1, <1>2, <2>2
<1> QED BY <1>1, <1>3 DEF b, n

(* In a file of the right shape every byte has its block. *)
LEMMA ByteThere ==
  ASSUME NEW oi, Shape(word, oi), oi.ftype # "symlink", Plain(oi.size), NEW off \in Nat, off < oi.size
  PROVE  inode_blockno(oi, off) # 0
<1> DEFINE b == off \div BLKSIZE
           n == size2nblocks(oi.size)
<1>1. b \in Nat /\ b < n /\ n \in Nat /\ oi.size \in Nat
  BY ByteIndex, PlainBlocks
<1>2. inode_blockno(oi, off) = IF b >= NDIRECT + NINDIRECT
                               THEN word[word[oi.indirect2][(b - (NDIRECT + NINDIRECT)) \div NINDIRECT]][(b - (NDIRECT + NINDIRECT)) % NINDIRECT]
                               ELSE IF b >= NDIRECT THEN word[oi.indirect][b - NDIRECT] ELSE oi.direct[b]
  BY <1>1 DEF inode_blockno
<1>3. /\ n <= NDIRECT + NINDIRECT
      /\ \A k \in 0..(NDIRECT - 1) : oi.direct[k] # 0 <=> k < n
      /\ oi.indirect # 0 <=> n > NDIRECT
      /\ oi.indirect # 0 => \A k \in Slots : word[oi.indirect][k] # 0 <=> NDIRECT + k < n
  BY DEF Shape
<1> HIDE DEF b, n
<1>4. ~(b >= NDIRECT + NINDIRECT)
  BY <1>1, <1>3, Numbers
<1>5. CASE b < NDIRECT
  <2>1. b \in 0..(NDIRECT - 1) /\ ~(b >= NDIRECT)
    BY <1>1, <1>5, Numbers
  <2> QED BY <1>1, <1>2, <1>3, <1>4, <2>1
<1>6. CASE b >= NDIRECT
  <2>1. b - NDIRECT \in Slots /\ NDIRECT + (b - NDIRECT) < n /\ n > NDIRECT
    BY <1>1, <1>4, <1>6, Numbers DEF Slots
  <2>2. word[oi.indirect][b - NDIRECT] # 0
    BY <1>3, <2>1
  <2> QED BY <1>2, <1>4, <1>6, <2>2
<1> QED BY <1>1, <1>5, <1>6, Numbers

(* While no file has gone past its indirect block, ospfs_read finds every  *)
(* byte up to the end of the file, whatever size and position it is asked  *)
(* for, and past the end returns -EIO.                                     *)
THEOREM ReadsWhatIsThere == ASSUME ~StaleSymlink PROVE Spec => []ReadsExactly
<1>1. FsInv /\ ShapeInv => ReadsExactly
  <2> SUFFICES ASSUME FsInv, ShapeInv, call = Idle, ~far, NEW i \in Inodes, NEW pos \in Sizes, NEW end \in Sizes,
                      inode[i].ftype # "symlink", pos < end
               PROVE  ospfs_read(inode[i], pos, end - pos) =
                        IF pos > inode[i].size THEN EIO
                        ELSE (IF end > inode[i].size THEN inode[i].size ELSE end) - pos
    BY DEF ReadsExactly
  <2> DEFINE oi == inode[i]
             n  == IF pos + (end - pos) > oi.size THEN (oi.size - pos) % WRAP ELSE end - pos
  <2>1. Shape(word, oi) /\ Plain(oi.size)
    BY DEF ShapeInv, ShapeOK, FsInv, OpenOK
  <2>2. /\ pos \in Nat /\ end \in Nat /\ oi.size \in Nat /\ pos + (end - pos) = end
        /\ pos < WRAP /\ oi.size < WRAP /\ WRAP \in Nat
    BY <2>1, SizesAssumption, BlocksAssumption DEF Plain
  <2>3. \A off \in Nat : off < oi.size => inode_blockno(oi, off) # 0
    BY <2>1, ByteThere
  <2>4. ospfs_read(oi, pos, end - pos) =
          IF \E off \in pos..(pos + n - 1) : inode_blockno(oi, off) = 0 THEN EIO ELSE n
    BY DEF ospfs_read
  <2>5. CASE pos > oi.size
    <3>1. oi.size - pos \in Int /\ oi.size - pos < 0 /\ -WRAP <= oi.size - pos /\ WRAP > 0
      BY <2>2, <2>5
    <3>2. (oi.size - pos) % WRAP = oi.size - pos + WRAP
      BY <2>2, <3>1, ModBelow
    <3>3. n = oi.size - pos + WRAP
      BY <2>2, <2>5, <3>2
    <3> HIDE DEF n
    <3>4. pos \in pos..(pos + n - 1)
      BY <2>2, <2>5, <3>3
    <3>5. inode_blockno(oi, pos) = 0
      BY <2>2, <2>5 DEF inode_blockno
    <3> QED BY <2>4, <2>5, <3>4, <3>5
  <2>6. CASE pos <= oi.size
    <3> DEFINE m == (IF end > oi.size THEN oi.size ELSE end) - pos
    <3>1. n = m
      <4>1. oi.size - pos \in Nat /\ oi.size - pos < WRAP
        BY <2>2, <2>6
      <4>2. (oi.size - pos) % WRAP = oi.size - pos
        BY <2>2, <4>1, ModSmall
      <4> QED BY <2>2, <4>2
    <3>2. \A off \in pos..(pos + m - 1) : off \in Nat /\ off < oi.size
      BY <2>2, <2>6
    <3> HIDE DEF n, m
    <3>3. ospfs_read(oi, pos, end - pos) = m
      BY <2>3, <2>4, <3>1, <3>2
    <3> QED BY <2>2, <2>6, <3>3 DEF m
  <2> QED BY <2>2, <2>5, <2>6
<1> QED
  BY <1>1, FsIsInvariant, ShapeIsInvariant, PTL
-----------------------------------------------------------------------------
(* Reading the directory.  The position of the last entry: 0 and 1 are "." *)
(* and "..".                                                               *)
Last == Len(dirents) + 1

(* One turn of the loop of ospfs_dir_readdir, at position p with room for  *)
(* n more, when g is what the turns after it do; for each n; the loop.     *)
Turn(g, p, n) ==
  IF p > Last THEN [listed |-> <<>>, f_pos |-> p, r |-> 1]
  ELSE IF p >= 2 /\ dirents[p - 1].ino = 0 THEN g[n]
  ELSE IF n = 0 THEN [listed |-> <<>>, f_pos |-> IF p >= 2 THEN p + 1 ELSE p, r |-> 0]
  ELSE [g[n - 1] EXCEPT !.listed = <<p>> \o @]

Turns(g, p, room) == [n \in 0..room |-> Turn(g, p, n)]

Loop(f_pos, room) == CHOOSE f : f = [p \in f_pos..(Last + 1) |-> Turns(f[p + 1], p, room)]

LEMMA ReaddirIsLoop ==
  ASSUME NEW f_pos, NEW room
  PROVE  ospfs_dir_readdir(f_pos, room) = Loop(f_pos, room)[f_pos][room]
BY Zenon DEF ospfs_dir_readdir, Loop, Turns, Turn, Last

(* The loop's equation has a solution: the loop only looks ahead. *)
LEMMA LoopExists ==
  ASSUME Last \in Nat, NEW f_pos \in Nat, f_pos <= Last + 1, NEW room
  PROVE  \E f : f = [p \in f_pos..(Last + 1) |-> Turns(f[p + 1], p, room)]
<1> DEFINE Good(m) == \E f : f = [p \in m..(Last + 1) |-> Turns(f[p + 1], p, room)]
           S == {d \in Nat : d <= Last + 2 /\ ~Good(Last + 2 - d)}
<1>1. \A g, h, p : p > Last => Turns(g, p, room) = Turns(h, p, room)
  BY DEF Turns, Turn
<1>2. Good(Last + 2)
  <2>1. (Last + 2)..(Last + 1) = {}
    OBVIOUS
  <2>2. [p \in {} |-> 0] = [p \in {} |-> Turns([x \in {} |-> 0][p + 1], p, room)]
    OBVIOUS
  <2> QED BY <2>1, <2>2
<1>3. ASSUME NEW m \in Nat, m <= Last + 1, Good(m + 1) PROVE Good(m)
  <2>1. PICK f : f = [p \in (m + 1)..(Last + 1) |-> Turns(f[p + 1], p, room)]
    BY <1>3
  <2> DEFINE h == [p \in m..(Last + 1) |-> IF p = m THEN Turns(f[m + 1], m, room) ELSE f[p]]
  <2>2. ASSUME NEW p \in m..(Last + 1) PROVE h[p] = Turns(h[p + 1], p, room)
    <3>1. h[p] = Turns(f[p + 1], p, room)
      <4>1. CASE p = m
        BY <4>1
      <4>2. CASE p # m
        <5>1. p \in (m + 1)..(Last + 1)
          BY <4>2, <1>3
        <5>2. f[p] = Turns(f[p + 1], p, room)
          BY <2>1, <5>1
        <5>3. h[p] = f[p]
          BY <4>2
        <5> QED BY <5>2, <5>3
      <4> QED BY <4>1, <4>2
    <3>2. CASE p <= Last
      <4>1. p + 1 \in m..(Last + 1) /\ p + 1 # m
        BY <3>2, <1>3
      <4>2. h[p + 1] = f[p + 1]
        BY <4>1
      <4> QED BY <3>1, <4>2
    <3>3. CASE p > Last
      <4> HIDE DEF h
      <4> QED BY <3>1, <3>3, <1>1
    <3> QED BY <3>2, <3>3, <1>3
  <2>3. DOMAIN h = m..(Last + 1) /\ h = [p \in DOMAIN h |-> h[p]]
    OBVIOUS
  <2> HIDE DEF h
  <2>4. h = [p \in m..(Last + 1) |-> Turns(h[p + 1], p, room)]
    BY <2>2, <2>3
  <2> QED BY <2>4
<1> HIDE DEF Good
<1>4. S = {}
  <2> SUFFICES ASSUME S # {} PROVE FALSE
    OBVIOUS
  <2>1. Min(S) \in S /\ \A y \in S : Min(S) <= y
    BY MinNat
  <2> DEFINE d == Min(S)
  <2>2. d \in Nat /\ d <= Last + 2 /\ ~Good(Last + 2 - d) /\ \A y \in S : d <= y
    BY <2>1
  <2> HIDE DEF d
  <2>3. d # 0
    BY <2>2, <1>2
  <2>4. Good(Last + 2 - (d - 1))
    <3>1. d - 1 \in Nat /\ ~(d <= d - 1) /\ d - 1 <= Last + 2
      BY <2>2, <2>3
    <3>2. d - 1 \notin S
      BY <2>2, <3>1
    <3> QED BY <3>1, <3>2
  <2>5. Last + 2 - (d - 1) = (Last + 2 - d) + 1 /\ Last + 2 - d \in Nat /\ Last + 2 - d <= Last + 1
    BY <2>2, <2>3
  <2> QED BY <2>2, <2>4, <2>5, <1>3
<1>5. Good(f_pos)
  <2>1. Last + 2 - f_pos \in Nat /\ Last + 2 - f_pos <= Last + 2 /\ Last + 2 - (Last + 2 - f_pos) = f_pos
    OBVIOUS
  <2> QED BY <1>4, <2>1
<1> QED BY <1>5 DEF Good

LEMMA LoopIs ==
  ASSUME Last \in Nat, NEW f_pos \in Nat, f_pos <= Last + 1, NEW room
  PROVE  Loop(f_pos, room) = [p \in f_pos..(Last + 1) |-> Turns(Loop(f_pos, room)[p + 1], p, room)]
<1>1. \E f : f = [p \in f_pos..(Last + 1) |-> Turns(f[p + 1], p, room)]
  BY LoopExists
<1> QED BY <1>1, Zenon DEF Loop

(* The positions in use from lo to before hi; the elements of a sequence,  *)
(* and one that rises; the entry a call dropped, if it dropped one.        *)
Positions(lo, hi) == {p \in lo..(hi - 1) : p < 2 \/ dirents[p - 1].ino # 0}

Elements(s) == {s[k] : k \in DOMAIN s}

Rises(s) == \A j, k \in DOMAIN s : j < k => s[j] < s[k]

Drops(c) == IF c.r = 0 /\ c.f_pos > 2 THEN {c.f_pos - 1} ELSE {}

LEMMA ConcatRises ==
  ASSUME NEW s \in Seq(Nat), NEW t \in Seq(Nat)
  PROVE  /\ s \o t \in Seq(Nat) /\ Len(s \o t) = Len(s) + Len(t)
         /\ Elements(s \o t) = Elements(s) \cup Elements(t)
         /\ (Rises(s) /\ Rises(t) /\ \A a \in Elements(s), b \in Elements(t) : a < b) => Rises(s \o t)
<1> DEFINE u == s \o t  m == Len(s)  n == Len(t)
<1>1. /\ u \in Seq(Nat) /\ Len(u) = m + n
      /\ \A i \in 1..(m + n) : u[i] = IF i <= m THEN s[i] ELSE t[i - m]
  BY ConcatProperties
<1>2. m \in Nat /\ n \in Nat /\ DOMAIN s = 1..m /\ DOMAIN t = 1..n /\ DOMAIN u = 1..(m + n)
  BY <1>1, LenProperties
<1> HIDE DEF u, m, n
<1>3. \A i \in 1..m : i \in DOMAIN u /\ u[i] = s[i]
  BY <1>1, <1>2
<1>4. \A i \in 1..n : m + i \in DOMAIN u /\ u[m + i] = t[i]
  BY <1>1, <1>2
<1>5. \A i \in DOMAIN u : (i \in 1..m /\ u[i] = s[i]) \/ (i - m \in 1..n /\ i > m /\ u[i] = t[i - m])
  BY <1>1, <1>2
<1>6. Elements(u) = Elements(s) \cup Elements(t)
  <2>1. Elements(u) \subseteq Elements(s) \cup Elements(t)
    BY <1>2, <1>5 DEF Elements
  <2>2. Elements(s) \subseteq Elements(u)
    BY <1>2, <1>3 DEF Elements
  <2>3. Elements(t) \subseteq Elements(u)
    BY <1>2, <1>4 DEF Elements
  <2> QED BY <2>1, <2>2, <2>3
<1>7. ASSUME Rises(s), Rises(t), \A a \in Elements(s), b \in Elements(t) : a < b PROVE Rises(u)
  <2> SUFFICES ASSUME NEW j \in DOMAIN u, NEW k \in DOMAIN u, j < k PROVE u[j] < u[k]
    BY DEF Rises
  <2>1. CASE k \in 1..m /\ u[k] = s[k]
    <3>1. j \in 1..m /\ u[j] = s[j]
      BY <2>1, <1>2, <1>3, <1>5
    <3> QED BY <2>1, <3>1, <1>2, <1>7 DEF Rises
  <2>2. CASE k - m \in 1..n /\ k > m /\ u[k] = t[k - m]
    <3>1. CASE j \in 1..m /\ u[j] = s[j]
      BY <2>2, <3>1, <1>2, <1>7 DEF Elements
    <3>2. CASE j - m \in 1..n /\ u[j] = t[j - m]
      BY <2>2, <3>2, <1>2, <1>7 DEF Rises
    <3> QED BY <3>1, <3>2, <1>5
  <2> QED BY <2>1, <2>2, <1>5
<1> QED BY <1>1, <1>6, <1>7 DEF u, m, n

LEMMA OneRises ==
  ASSUME NEW p \in Nat
  PROVE  /\ <<p>> \in Seq(Nat) /\ Len(<<p>>) = 1 /\ Elements(<<p>>) = {p} /\ Rises(<<p>>)
         /\ <<>> \in Seq(Nat) /\ Len(<<>>) = 0 /\ Elements(<<>>) = {} /\ Rises(<<>>)
BY DEF Elements, Rises

(* What the loop of ospfs_dir_readdir does from position p with room for n *)
(* more: it lists what is in use up to where it stops, or drops it.        *)
ReadOK(c, p, n) ==
  /\ c \in [listed : Seq(Nat), f_pos : Nat, r : {0, 1}]
  /\ p <= c.f_pos /\ c.f_pos <= Last + 1
  /\ Elements(c.listed) \cup Drops(c) = Positions(p, c.f_pos)
  /\ Elements(c.listed) \cap Drops(c) = {}
  /\ Rises(c.listed)
  /\ c.r = 1 => c.f_pos = Last + 1
  /\ c.r = 0 => Len(c.listed) = n /\ c.f_pos # 2

LEMMA IsReadOK ==
  ASSUME NEW c, NEW p, NEW n, c \in [listed : Seq(Nat), f_pos : Nat, r : {0, 1}],
         p <= c.f_pos, c.f_pos <= Last + 1,
         Elements(c.listed) \cup Drops(c) = Positions(p, c.f_pos),
         Elements(c.listed) \cap Drops(c) = {}, Rises(c.listed),
         c.r = 1 => c.f_pos = Last + 1,
         c.r = 0 => Len(c.listed) = n /\ c.f_pos # 2
  PROVE  ReadOK(c, p, n)
BY DEF ReadOK

LEMMA TurnOK ==
  ASSUME Last \in Nat, NEW p \in Nat, p <= Last + 1, NEW n \in Nat, NEW g,
         p <= Last => \A m \in 0..n : ReadOK(g[m], p + 1, m)
  PROVE  ReadOK(Turn(g, p, n), p, n)
<1> DEFINE c == Turn(g, p, n)
<1>1. CASE p > Last
  <2>1. c = [listed |-> <<>>, f_pos |-> p, r |-> 1] /\ p = Last + 1
    BY <1>1 DEF Turn
  <2>2. Positions(p, p) = {}
    BY DEF Positions
  <2> HIDE DEF c
  <2>3. c.listed = <<>> /\ c.f_pos = p /\ c.r = 1 /\ c \in [listed : Seq(Nat), f_pos : Nat, r : {0, 1}]
    BY <2>1
  <2>4. Drops(c) = {}
    BY <2>3 DEF Drops
  <2>5. Elements(c.listed) = {} /\ Rises(c.listed)
    BY <2>3, OneRises
  <2>6. p <= c.f_pos /\ c.f_pos <= Last + 1 /\ c.r # 0 /\ c.f_pos = Last + 1
    BY <2>1, <2>3
  <2>7. Elements(c.listed) \cup Drops(c) = Positions(p, c.f_pos) /\ Elements(c.listed) \cap Drops(c) = {}
    BY <2>2, <2>3, <2>4, <2>5
  <2>8. ReadOK(c, p, n)
    BY <2>3, <2>5, <2>6, <2>7, IsReadOK, Zenon
  <2> QED BY <2>8 DEF c
<1>2. CASE p <= Last /\ p >= 2 /\ dirents[p - 1].ino = 0
  <2>1. c = g[n]
    BY <1>2 DEF Turn
  <2> HIDE DEF c
  <2>2. ReadOK(c, p + 1, n)
    BY <2>1, <1>2
  <2>3. c.f_pos \in Nat
    BY <2>2 DEF ReadOK
  <2>4. Positions(p, c.f_pos) = Positions(p + 1, c.f_pos)
    BY <2>3, <1>2 DEF Positions
  <2>5. ReadOK(c, p, n)
    BY <2>2, <2>3, <2>4 DEF ReadOK
  <2> QED BY <2>5 DEF c
<1>3. CASE p <= Last /\ (p < 2 \/ dirents[p - 1].ino # 0) /\ n = 0
  <2>1. c = [listed |-> <<>>, f_pos |-> IF p >= 2 THEN p + 1 ELSE p, r |-> 0]
    BY <1>3 DEF Turn
  <2> HIDE DEF c
  <2>2. c.listed = <<>> /\ c.f_pos = (IF p >= 2 THEN p + 1 ELSE p) /\ c.r = 0
        /\ c \in [listed : Seq(Nat), f_pos : Nat, r : {0, 1}]
    BY <2>1
  <2>3. p <= c.f_pos /\ c.f_pos <= Last + 1 /\ c.f_pos # 2 /\ c.r # 1
    BY <2>2, <1>3
  <2>4. Elements(c.listed) = {} /\ Rises(c.listed) /\ Len(c.listed) = n
    BY <2>2, <1>3, OneRises
  <2>5. Drops(c) = Positions(p, c.f_pos)
    <3>1. CASE p >= 2
      <4>1. c.f_pos = p + 1 /\ c.f_pos > 2 /\ c.f_pos - 1 = p
        BY <2>2, <3>1
      <4>2. Positions(p, p + 1) = {p}
        BY <1>3 DEF Positions
      <4> QED BY <2>2, <4>1, <4>2 DEF Drops
    <3>2. CASE p < 2
      <4>1. c.f_pos = p /\ ~(c.f_pos > 2)
        BY <2>2, <3>2
      <4>2. Positions(p, p) = {}
        BY DEF Positions
      <4> QED BY <4>1, <4>2 DEF Drops
    <3> QED BY <3>1, <3>2
  <2>6. Elements(c.listed) \cup Drops(c) = Positions(p, c.f_pos) /\ Elements(c.listed) \cap Drops(c) = {}
    BY <2>4, <2>5
  <2>7. ReadOK(c, p, n)
    BY <2>2, <2>3, <2>4, <2>6, IsReadOK, Zenon
  <2> QED BY <2>7 DEF c
<1>4. CASE p <= Last /\ (p < 2 \/ dirents[p - 1].ino # 0) /\ n # 0
  <2> DEFINE d == g[n - 1]
  <2>1. c = [d EXCEPT !.listed = <<p>> \o @]
    BY <1>4 DEF Turn
  <2>2. ReadOK(d, p + 1, n - 1) /\ n - 1 \in Nat
    BY <1>4
  <2> HIDE DEF c, d
  <2>3. d \in [listed : Seq(Nat), f_pos : Nat, r : {0, 1}] /\ p + 1 <= d.f_pos
    BY <2>2 DEF ReadOK
  <2>4. c = [listed |-> <<p>> \o d.listed, f_pos |-> d.f_pos, r |-> d.r]
    BY <2>1, <2>3
  <2>5. /\ <<p>> \o d.listed \in Seq(Nat) /\ Len(<<p>> \o d.listed) = 1 + Len(d.listed) /\ Len(d.listed) \in Nat
        /\ Elements(<<p>> \o d.listed) = {p} \cup Elements(d.listed)
        /\ (Rises(d.listed) /\ \A b \in Elements(d.listed) : p < b) => Rises(<<p>> \o d.listed)
    <3> DEFINE a == <<p>>  b == d.listed
    <3>1. a \in Seq(Nat) /\ Len(a) = 1 /\ Elements(a) = {p} /\ Rises(a)
      BY OneRises
    <3>2. b \in Seq(Nat) /\ Len(b) \in Nat
      BY <2>3, LenProperties
    <3> HIDE DEF a, b
    <3>3. /\ a \o b \in Seq(Nat) /\ Len(a \o b) = Len(a) + Len(b) /\ Elements(a \o b) = Elements(a) \cup Elements(b)
          /\ (Rises(a) /\ Rises(b) /\ \A x \in Elements(a), y \in Elements(b) : x < y) => Rises(a \o b)
      BY <3>1, <3>2, ConcatRises, Zenon
    <3> QED BY <3>1, <3>2, <3>3 DEF a, b
  <2>6. c \in [listed : Seq(Nat), f_pos : Nat, r : {0, 1}] /\ c.listed = <<p>> \o d.listed
        /\ c.f_pos = d.f_pos /\ c.r = d.r /\ Drops(c) = Drops(d)
    BY <2>3, <2>4, <2>5 DEF Drops
  <2>7. Positions(p, d.f_pos) = {p} \cup Positions(p + 1, d.f_pos)
    BY <2>3, <1>4 DEF Positions
  <2>8. \A b \in Positions(p + 1, d.f_pos) : p < b /\ b # p
    BY <2>3 DEF Positions
  <2>9. Rises(c.listed)
    BY <2>2, <2>5, <2>6, <2>8 DEF ReadOK
  <2>10. /\ Elements(c.listed) \cup Drops(c) = Positions(p, c.f_pos)
         /\ Elements(c.listed) \cap Drops(c) = {}
    BY <2>2, <2>5, <2>6, <2>7, <2>8 DEF ReadOK
  <2>11. /\ d.f_pos <= Last + 1 /\ (d.r = 1 => d.f_pos = Last + 1)
         /\ d.r = 0 => Len(d.listed) = n - 1 /\ d.f_pos # 2
    BY <2>2 DEF ReadOK
  <2>12. /\ p <= c.f_pos /\ c.f_pos <= Last + 1 /\ (c.r = 1 => c.f_pos = Last + 1)
         /\ c.r = 0 => Len(c.listed) = n /\ c.f_pos # 2
    BY <2>3, <2>5, <2>6, <2>11
  <2>13. ReadOK(c, p, n)
    BY <2>6, <2>9, <2>10, <2>12, IsReadOK, Zenon
  <2> QED BY <2>13 DEF c
<1> QED BY <1>1, <1>2, <1>3, <1>4

LEMMA ReaddirOK ==
  ASSUME Last \in Nat, NEW f_pos \in Nat, f_pos <= Last + 1, NEW room \in Nat
  PROVE  ReadOK(ospfs_dir_readdir(f_pos, room), f_pos, room)
<1> DEFINE f == Loop(f_pos, room)
           Good(p) == \A n \in 0..room : ReadOK(f[p][n], p, n)
           S == {d \in Nat : f_pos <= Last + 1 - d /\ ~Good(Last + 1 - d)}
<1>1. \A p \in f_pos..(Last + 1) : f[p] = [n \in 0..room |-> Turn(f[p + 1], p, n)]
  <2>1. f = [p \in f_pos..(Last + 1) |-> Turns(f[p + 1], p, room)]
    BY LoopIs
  <2> HIDE DEF f
  <2> QED BY <2>1 DEF Turns
<1> HIDE DEF f
<1>2. ASSUME NEW p \in f_pos..(Last + 1), p <= Last => Good(p + 1) PROVE Good(p)
  <2> SUFFICES ASSUME NEW n \in 0..room PROVE ReadOK(f[p][n], p, n)
    OBVIOUS
  <2>1. f[p][n] = Turn(f[p + 1], p, n)
    BY <1>1
  <2>2. p \in Nat /\ p <= Last + 1 /\ n \in Nat /\ 0..n \subseteq 0..room
    OBVIOUS
  <2>3. ReadOK(Turn(f[p + 1], p, n), p, n)
    BY <2>2, <1>2, TurnOK
  <2> QED BY <2>1, <2>3
<1> HIDE DEF Good
<1>3. S = {}
  <2> SUFFICES ASSUME S # {} PROVE FALSE
    OBVIOUS
  <2>1. Min(S) \in S /\ \A y \in S : Min(S) <= y
    BY MinNat
  <2> DEFINE d == Min(S)
  <2>2. d \in Nat /\ f_pos <= Last + 1 - d /\ ~Good(Last + 1 - d) /\ \A y \in S : d <= y
    BY <2>1
  <2> HIDE DEF d
  <2>3. Last + 1 - d \in f_pos..(Last + 1)
    BY <2>2
  <2>4. ASSUME Last + 1 - d <= Last PROVE Good((Last + 1 - d) + 1)
    <3>1. d - 1 \in Nat /\ ~(d <= d - 1) /\ f_pos <= Last + 1 - (d - 1) /\ Last + 1 - (d - 1) = (Last + 1 - d) + 1
      BY <2>2, <2>4
    <3>2. d - 1 \notin S
      BY <2>2, <3>1
    <3> QED BY <3>1, <3>2
  <2> QED BY <2>2, <2>3, <2>4, <1>2
<1>4. Good(f_pos)
  <2>1. Last + 1 - f_pos \in Nat /\ Last + 1 - (Last + 1 - f_pos) = f_pos
    OBVIOUS
  <2>2. Last + 1 - f_pos \notin S
    BY <1>3
  <2> QED BY <2>1, <2>2
<1>5. room \in 0..room
  OBVIOUS
<1> QED BY <1>4, <1>5, ReaddirIsLoop DEF Good, f

(* Reading the directory to its end: one more call after a, and the calls. *)
Start == [pos |-> 0, listed |-> <<>>, r |-> 0]

Again(a, room) ==
  LET c == ospfs_dir_readdir(a.pos, room)
  IN IF a.r = 1 THEN a
     ELSE [pos |-> c.f_pos, r |-> c.r, listed |-> a.listed \o c.listed]

Calls(room) == CHOOSE f : f = [k \in 0..(Len(dirents) + 2) |-> IF k = 0 THEN Start ELSE Again(f[k - 1], room)]

LEMMA ReadingIs ==
  ASSUME NEW room
  PROVE  Reading(room) = Calls(room)[Len(dirents) + 2]
BY Zenon DEF Reading, Calls, Start, Again

LEMMA CallsExist ==
  ASSUME NEW K \in Nat, NEW room
  PROVE  \E f : f = [k \in 0..K |-> IF k = 0 THEN Start ELSE Again(f[k - 1], room)]
<1> DEFINE Good(m) == \E f : f = [k \in 0..m |-> IF k = 0 THEN Start ELSE Again(f[k - 1], room)]
           S == {m \in Nat : ~Good(m)}
<1>1. Good(0)
  <2> DEFINE h == [k \in 0..0 |-> Start]
  <2>1. h = [k \in 0..0 |-> IF k = 0 THEN Start ELSE Again(h[k - 1], room)]
    OBVIOUS
  <2> QED BY <2>1
<1>2. ASSUME NEW m \in Nat, Good(m) PROVE Good(m + 1)
  <2>1. PICK f : f = [k \in 0..m |-> IF k = 0 THEN Start ELSE Again(f[k - 1], room)]
    BY <1>2
  <2> DEFINE h == [k \in 0..(m + 1) |-> IF k = m + 1 THEN Again(f[m], room) ELSE f[k]]
  <2>2. \A k \in 0..m : h[k] = f[k] /\ f[k] = IF k = 0 THEN Start ELSE Again(f[k - 1], room)
    <3>1. \A k \in 0..m : k \in 0..(m + 1) /\ k # m + 1
      OBVIOUS
    <3>2. \A k \in 0..m : f[k] = IF k = 0 THEN Start ELSE Again(f[k - 1], room)
      BY <2>1
    <3> QED BY <3>1, <3>2
  <2>3. h[m + 1] = Again(f[m], room)
    OBVIOUS
  <2>4. DOMAIN h = 0..(m + 1) /\ h = [k \in DOMAIN h |-> h[k]]
    OBVIOUS
  <2> HIDE DEF h
  <2>5. ASSUME NEW k \in 0..(m + 1) PROVE h[k] = IF k = 0 THEN Start ELSE Again(h[k - 1], room)
    <3>1. CASE k = 0
      <4>1. 0 \in 0..m
        OBVIOUS
      <4> QED BY <2>2, <3>1, <4>1
    <3>2. CASE k # 0 /\ k <= m
      <4>1. k \in 0..m /\ k - 1 \in 0..m
        BY <3>2
      <4> QED BY <2>2, <3>2, <4>1
    <3>3. CASE k = m + 1
      <4>1. k - 1 = m /\ m \in 0..m /\ k # 0
        BY <3>3
      <4> QED BY <2>2, <2>3, <3>3, <4>1
    <3> QED BY <3>1, <3>2, <3>3
  <2>6. h = [k \in 0..(m + 1) |-> IF k = 0 THEN Start ELSE Again(h[k - 1], room)]
    BY <2>4, <2>5
  <2> QED BY <2>6
<1> HIDE DEF Good
<1>3. S = {}
  <2> SUFFICES ASSUME S # {} PROVE FALSE
    OBVIOUS
  <2>1. Min(S) \in S /\ \A y \in S : Min(S) <= y
    BY MinNat
  <2> DEFINE m == Min(S)
  <2>2. m \in Nat /\ ~Good(m) /\ \A y \in S : m <= y
    BY <2>1
  <2> HIDE DEF m
  <2>3. m # 0
    BY <2>2, <1>1
  <2>4. m - 1 \in Nat /\ ~(m <= m - 1) /\ (m - 1) + 1 = m
    BY <2>2, <2>3
  <2>5. Good(m - 1)
    BY <2>2, <2>4
  <2> QED BY <2>2, <2>4, <2>5, <1>2
<1>4. Good(K)
  BY <1>3
<1> QED BY <1>4 DEF Good

LEMMA CallsAre ==
  ASSUME Len(dirents) \in Nat, NEW room
  PROVE  Calls(room) = [k \in 0..(Len(dirents) + 2) |-> IF k = 0 THEN Start ELSE Again(Calls(room)[k - 1], room)]
<1>1. Len(dirents) + 2 \in Nat
  OBVIOUS
<1>2. \E f : f = [k \in 0..(Len(dirents) + 2) |-> IF k = 0 THEN Start ELSE Again(f[k - 1], room)]
  BY <1>1, CallsExist, Zenon
<1> QED BY <1>2, Zenon DEF Calls

(* After k calls: only what is in use up to the position was listed, and   *)
(* all of it unless the caller's buffer is too small for the directory;    *)
(* and every call that runs out of room moves on.                          *)
CallsOK(a, k, room) ==
  /\ a \in [pos : Nat, listed : Seq(Nat), r : {0, 1}]
  /\ a.pos <= Last + 1
  /\ Elements(a.listed) \subseteq Positions(0, a.pos)
  /\ Elements(a.listed) = Positions(0, a.pos) \/ room < Cardinality(Positions(0, Last + 1))
  /\ Rises(a.listed)
  /\ a.r = 1 => a.pos = Last + 1
  /\ a.r = 0 => a.pos >= k /\ (k >= 2 => a.pos > k)

LEMMA PositionsFinite ==
  ASSUME Last \in Nat, NEW lo \in Nat
  PROVE  /\ IsFiniteSet(Positions(lo, Last + 1)) /\ Cardinality(Positions(lo, Last + 1)) \in Nat
         /\ \A hi \in Nat : hi <= Last + 1 => Positions(lo, hi) \subseteq Positions(0, Last + 1)
<1>1. Positions(lo, Last + 1) \in SUBSET Nat /\ \A s \in Positions(lo, Last + 1) : s <= Last + 1
  BY DEF Positions
<1>2. Last + 1 \in Nat
  OBVIOUS
<1>3. IsFiniteSet(Positions(lo, Last + 1))
  BY <1>1, <1>2, FS_BoundedSetOfNaturals
<1>4. \A hi \in Nat : hi <= Last + 1 => Positions(lo, hi) \subseteq Positions(0, Last + 1)
  BY DEF Positions
<1> QED BY <1>3, <1>4, FS_CardinalityType

(* A call that drops an entry filled its room entries before. *)
LEMMA DropMeansFull ==
  ASSUME Last \in Nat, NEW p \in Nat, NEW room \in Nat, NEW c, ReadOK(c, p, room), Drops(c) # {}
  PROVE  room < Cardinality(Positions(0, Last + 1))
<1> DEFINE s == c.listed  x == c.f_pos - 1  P == Positions(0, Last + 1)  T == P \ {x}
<1>1. c.r = 0 /\ Drops(c) = {x}
  BY DEF Drops
<1>2. /\ s \in Seq(Nat) /\ Len(s) = room /\ Rises(s) /\ c.f_pos \in Nat /\ c.f_pos <= Last + 1
      /\ Elements(s) \cup {x} = Positions(p, c.f_pos) /\ Elements(s) \cap {x} = {}
  BY <1>1 DEF ReadOK
<1>3. /\ Positions(p, c.f_pos) \subseteq P /\ IsFiniteSet(P) /\ Cardinality(P) \in Nat
  BY <1>2, PositionsFinite
<1>4. DOMAIN s = 1..room /\ \A k \in 1..room : s[k] \in Nat
  BY <1>2, LenProperties, ElementOfSeq
<1> HIDE DEF s, x, P
<1>5. IsFiniteSet(T) /\ Cardinality(T) = Cardinality(P) - 1
  BY <1>2, <1>3, FS_RemoveElement
<1>6. \A k \in 1..room : s[k] \in T
  BY <1>2, <1>3, <1>4 DEF Elements
<1> HIDE DEF T
<1>7. \A j, k \in 1..room : s[j] = s[k] => j = k
  BY <1>2, <1>4 DEF Rises
<1> DEFINE f == [k \in 1..room |-> s[k]]
<1>8. f \in Injection(1..room, T)
  <2>1. f \in [1..room -> T] /\ \A j, k \in DOMAIN f : f[j] = f[k] => j = k
    BY <1>6, <1>7
  <2> HIDE DEF f
  <2> QED BY <2>1 DEF Injection, IsInjective
<1> HIDE DEF f
<1>9. Cardinality(1..room) <= Cardinality(T)
  BY <1>5, <1>8, FS_Injection
<1>10. Cardinality(1..room) = room
  BY FS_Interval
<1>11. room < Cardinality(P)
  BY <1>3, <1>5, <1>9, <1>10
<1> QED BY <1>11 DEF P

LEMMA StartOK == ASSUME Last \in Nat, NEW room PROVE CallsOK(Start, 0, room)
<1>1. /\ Start \in [pos : Nat, listed : Seq(Nat), r : {0, 1}]
      /\ Start.pos = 0 /\ Start.listed = <<>> /\ Start.r = 0
  BY DEF Start
<1>2. Positions(0, 0) = {}
  BY DEF Positions
<1>3. Elements(Start.listed) = {} /\ Rises(Start.listed)
  BY <1>1, OneRises
<1>4. Elements(Start.listed) = Positions(0, Start.pos) /\ Elements(Start.listed) \subseteq Positions(0, Start.pos)
  BY <1>1, <1>2, <1>3
<1>5. Start.pos <= Last + 1 /\ Start.pos >= 0 /\ ~(0 >= 2) /\ Start.r # 1
  BY <1>1
<1> QED BY <1>1, <1>3, <1>4, <1>5, Zenon DEF CallsOK

LEMMA AgainOK ==
  ASSUME Last \in Nat, NEW a, NEW k \in Nat, NEW room \in Nat, room >= 1, CallsOK(a, k, room)
  PROVE  CallsOK(Again(a, room), k + 1, room)
<1>1. CASE a.r = 1
  <2>1. Again(a, room) = a
    BY <1>1 DEF Again
  <2> QED BY <2>1, <1>1 DEF CallsOK
<1>2. CASE a.r = 0
  <2> DEFINE c == ospfs_dir_readdir(a.pos, room)  b == Again(a, room)
             full == room < Cardinality(Positions(0, Last + 1))
  <2>1. /\ a.pos \in Nat /\ a.pos <= Last + 1 /\ a.listed \in Seq(Nat)
        /\ Elements(a.listed) \subseteq Positions(0, a.pos)
        /\ Elements(a.listed) = Positions(0, a.pos) \/ full
        /\ Rises(a.listed) /\ a.pos >= k /\ (k >= 2 => a.pos > k)
    BY <1>2 DEF CallsOK
  <2>2. ReadOK(c, a.pos, room)
    BY <2>1, ReaddirOK
  <2>3. b = [pos |-> c.f_pos, r |-> c.r, listed |-> a.listed \o c.listed]
    BY <1>2 DEF Again
  <2>4. Drops(c) # {} => full
    BY <2>1, <2>2, DropMeansFull
  <2> HIDE DEF b, c, full
  <2>5. /\ c.listed \in Seq(Nat) /\ c.f_pos \in Nat /\ c.r \in {0, 1} /\ a.pos <= c.f_pos /\ c.f_pos <= Last + 1
        /\ Elements(c.listed) \cup Drops(c) = Positions(a.pos, c.f_pos)
        /\ Rises(c.listed) /\ (c.r = 1 => c.f_pos = Last + 1)
        /\ c.r = 0 => Len(c.listed) = room /\ c.f_pos # 2
    BY <2>2 DEF ReadOK
  <2>6. b.pos = c.f_pos /\ b.r = c.r /\ b.listed = a.listed \o c.listed
    BY <2>3
  <2>7. b = [pos |-> b.pos, r |-> b.r, listed |-> b.listed]
    BY <2>3
  <2>8. /\ b.listed \in Seq(Nat) /\ Elements(b.listed) = Elements(a.listed) \cup Elements(c.listed)
        /\ (\A x \in Elements(a.listed), y \in Elements(c.listed) : x < y) => Rises(b.listed)
    BY <2>1, <2>5, <2>6, ConcatRises
  <2>9. b \in [pos : Nat, listed : Seq(Nat), r : {0, 1}]
    BY <2>5, <2>6, <2>7, <2>8
  <2>10. /\ Positions(0, a.pos) \cup Positions(a.pos, c.f_pos) = Positions(0, c.f_pos)
         /\ \A x \in Positions(0, a.pos), y \in Positions(a.pos, c.f_pos) : x < y /\ x # y
    BY <2>1, <2>5 DEF Positions
  <2>11. Elements(c.listed) \subseteq Positions(a.pos, c.f_pos)
    BY <2>5
  <2>12. Elements(b.listed) \subseteq Positions(0, b.pos)
    BY <2>1, <2>6, <2>8, <2>10, <2>11
  <2>13. Elements(b.listed) = Positions(0, b.pos) \/ full
    <3>1. CASE full
      BY <3>1
    <3>2. CASE ~full
      <4>1. Elements(a.listed) = Positions(0, a.pos) /\ Elements(c.listed) = Positions(a.pos, c.f_pos)
        BY <2>1, <2>4, <2>5, <3>2
      <4> QED BY <4>1, <2>6, <2>8, <2>10
    <3> QED BY <3>1, <3>2
  <2>14. Rises(b.listed)
    BY <2>1, <2>8, <2>10, <2>11
  <2>15. ASSUME c.r = 0 PROVE c.f_pos > a.pos
    <3>1. 1 \in DOMAIN c.listed
      BY <2>5, <2>15, LenProperties
    <3>2. c.listed[1] \in Positions(a.pos, c.f_pos)
      BY <3>1, <2>11 DEF Elements
    <3>3. \E x : x \in a.pos..(c.f_pos - 1)
      BY <3>2, Zenon DEF Positions
    <3>4. a.pos \in Nat /\ c.f_pos \in Nat
      BY <2>1, <2>5
    <3> QED BY <3>3, <3>4
  <2>16. b.r = 0 => b.pos >= k + 1 /\ (k + 1 >= 2 => b.pos > k + 1)
    <3> SUFFICES ASSUME c.r = 0 PROVE c.f_pos >= k + 1 /\ (k + 1 >= 2 => c.f_pos > k + 1)
      BY <2>6
    <3>1. c.f_pos > a.pos /\ c.f_pos # 2
      BY <2>5, <2>15
    <3> QED BY <3>1, <2>1, <2>5
  <2>17. b.pos <= Last + 1 /\ (b.r = 1 => b.pos = Last + 1)
    BY <2>5, <2>6
  <2>18. CallsOK(b, k + 1, room)
    BY <2>9, <2>12, <2>13, <2>14, <2>16, <2>17 DEF CallsOK, full
  <2> QED BY <2>18 DEF b
<1> QED BY <1>1, <1>2 DEF CallsOK

LEMMA EveryCallOK ==
  ASSUME Len(dirents) \in Nat, NEW room \in Nat, room >= 1, NEW K \in 0..(Len(dirents) + 2)
  PROVE  CallsOK(Calls(room)[K], K, room)
<1> DEFINE f == Calls(room)  S == {k \in Nat : k <= Len(dirents) + 2 /\ ~CallsOK(f[k], k, room)}
<1>1. Last \in Nat
  BY DEF Last
<1>2. \A k \in 0..(Len(dirents) + 2) : f[k] = IF k = 0 THEN Start ELSE Again(f[k - 1], room)
  <2>1. f = [k \in 0..(Len(dirents) + 2) |-> IF k = 0 THEN Start ELSE Again(f[k - 1], room)]
    BY CallsAre
  <2> HIDE DEF f
  <2> QED BY <2>1
<1> HIDE DEF f
<1>3. S = {}
  <2> SUFFICES ASSUME S # {} PROVE FALSE
    OBVIOUS
  <2>1. Min(S) \in S /\ \A y \in S : Min(S) <= y
    BY MinNat
  <2> DEFINE k == Min(S)
  <2>2. k \in Nat /\ k <= Len(dirents) + 2 /\ ~CallsOK(f[k], k, room) /\ \A y \in S : k <= y
    BY <2>1
  <2> HIDE DEF k
  <2>3. k # 0
    <3>1. 0 \in 0..(Len(dirents) + 2)
      OBVIOUS
    <3>2. f[0] = Start
      BY <1>2, <3>1
    <3>3. CallsOK(f[0], 0, room)
      BY <3>2, <1>1, StartOK
    <3> QED BY <2>2, <3>3
  <2>4. k - 1 \in Nat /\ ~(k <= k - 1) /\ (k - 1) + 1 = k /\ k - 1 <= Len(dirents) + 2 /\ k \in 0..(Len(dirents) + 2)
    BY <2>2, <2>3
  <2>5. CallsOK(f[k - 1], k - 1, room)
    BY <2>2, <2>4
  <2>6. CallsOK(Again(f[k - 1], room), (k - 1) + 1, room)
    BY <2>4, <2>5, <1>1, AgainOK
  <2>7. f[k] = Again(f[k - 1], room)
    BY <1>2, <2>3, <2>4
  <2> QED BY <2>2, <2>4, <2>6, <2>7
<1>4. CallsOK(f[K], K, room)
  BY <1>3
<1> QED BY <1>4 DEF f

LEMMA DirectoryRead == ASSUME dirents \in Seq(Entry) PROVE ListedInOrder
<1>1. Len(dirents) \in Nat /\ DOMAIN dirents = 1..Len(dirents)
  BY LenProperties
<1>2. Last \in Nat /\ Last = Len(dirents) + 1
  BY <1>1 DEF Last
<1>3. InUse = Positions(0, Last + 1)
  BY <1>1, <1>2 DEF InUse, Positions
<1> SUFFICES ASSUME NEW room \in 1..(Len(dirents) + 2)
             PROVE  /\ Reading(room).r = 1 /\ Rises(Reading(room).listed)
                    /\ Listed(Reading(room)) \subseteq InUse
                    /\ room >= Cardinality(InUse) => Listed(Reading(room)) = InUse
  BY Zenon DEF ListedInOrder, Rises
<1> DEFINE a == Reading(room)
<1>4. CallsOK(a, Len(dirents) + 2, room) /\ room \in Nat
  <2>1. room \in Nat /\ room >= 1 /\ Len(dirents) + 2 \in 0..(Len(dirents) + 2)
    BY <1>1
  <2> QED BY <2>1, <1>1, EveryCallOK, ReadingIs
<1> HIDE DEF a
<1>5. Listed(a) = Elements(a.listed)
  BY DEF Listed, Elements
<1>6. /\ a.pos \in Nat /\ a.r \in {0, 1} /\ a.pos <= Last + 1 /\ Listed(a) \subseteq Positions(0, a.pos)
      /\ Listed(a) = Positions(0, a.pos) \/ room < Cardinality(Positions(0, Last + 1))
      /\ Rises(a.listed) /\ (a.r = 1 => a.pos = Last + 1) /\ (a.r = 0 => a.pos > Len(dirents) + 2)
  BY <1>1, <1>4, <1>5 DEF CallsOK
<1>7. a.r = 1 /\ a.pos = Last + 1
  BY <1>1, <1>2, <1>6
<1>8. Cardinality(Positions(0, Last + 1)) \in Nat
  BY <1>2, PositionsFinite
<1>9. room >= Cardinality(InUse) => Listed(a) = InUse
  BY <1>3, <1>4, <1>6, <1>7, <1>8
<1> QED BY <1>3, <1>6, <1>7, <1>9 DEF a

(* Whatever is linked, made, unlinked and extended before, a caller who    *)
(* reads the directory with a buffer of any size gets to its end, is given *)
(* entries in use only, none twice and in order, and all of them if the    *)
(* buffer takes them.                                                      *)
THEOREM DirectoryListed == Spec => []ListedInOrder
<1>1. Init => LinkInv
  BY LinkInit
<1>2. LinkInv /\ [Next]_vars => LinkInv'
  BY LinkNext
<1>3. LinkInv => ListedInOrder
  BY DirectoryRead DEF LinkInv
<1> QED
  BY <1>1, <1>2, <1>3, PTL DEF Spec
=============================================================================
