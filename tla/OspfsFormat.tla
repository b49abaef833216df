---------------------------- MODULE OspfsFormat ----------------------------
(***************************************************************************)
(* ospfsformat (File_System/ospfsformat.c): it writes a file system image  *)
(* through a small cache of blocks.  Its functions are operators on the    *)
(* program's memory and the disk; main's walk over the host's directories  *)
(* is the state machine, one directory entry a step.  The host is little-  *)
(* endian, where swizzle changes nothing, and its files can be read.       *)
(***************************************************************************)
EXTENDS Integers, Sequences, FiniteSets, FiniteSetsExt, SequencesExt

CONSTANTS
  Jobs,          \* command lines, with the host's files they name
  DiskSizes, InodeCounts, CacheSizes,   \* nblocks, ninodes, nelem(cache)
  BLKSIZE,       \* units of data in a block; a directory grows by as many
  NDIRECT, NINDIRECT, BLKINODES, BLKENTRIES, BLKBITSIZE,
  MAXNAMELEN, MAXSYMLINKLEN

(* A job: r, is it -r; c, is it -c; entries, the files or the contents of  *)
(* the directory; l, the -l links from the last to the first.  An entry    *)
(* has its name (a sequence), type, content (sequences of numbers, also    *)
(* the target of a symbolic link), host_ino (0 for one with one link), and *)
(* kids.                                                                   *)
ASSUME FormatAssumption ==
  /\ {BLKSIZE, NDIRECT, NINDIRECT, BLKINODES, BLKENTRIES, BLKBITSIZE} \subseteq Nat \ {0}
  /\ {MAXNAMELEN, MAXSYMLINKLEN} \subseteq Nat
  /\ \A k \in CacheSizes : k \in Nat \ {0}

VARIABLES
  job, nblocks, ninodes,
  fs,      \* the program's memory and the disk, see Fresh
  stack,   \* the writedirectory calls under way, innermost first
  phase    \* "open", "write", "done"

vars == <<job, nblocks, ninodes, fs, stack, phase>>

FREEMAP_BLK == 2
ROOT_INO    == 1
Up(a, b)    == (a + b - 1) \div b     \* quotient rounded up
nbitblock   == Up(nblocks, BLKBITSIZE)
firstinob   == FREEMAP_BLK + nbitblock
firstdata   == firstinob + Up(ninodes, BLKINODES)

(* Blocks hold cells by number; one that is not there is zero. *)
Zeros == [k \in {} |-> 0]
Set(data, k, v) == [j \in DOMAIN data \cup {k} |-> IF j = k THEN v ELSE data[j]]
Cell(data, k, zero) == IF k \in DOMAIN data THEN data[k] ELSE zero
NoEntry == [ino |-> 0, name |-> <<>>]
NoInode == [size |-> 0, ftype |-> "reg", nlink |-> 0, direct |-> [k \in 0..(NDIRECT - 1) |-> 0],
            indirect |-> 0, indirect2 |-> 0, symlink |-> <<>>]

(* slot and entry are what the last call returned; slot 0 is what it       *)
(* returns when abort() has been called.                                   *)
Fresh(slots, n) == [disk |-> [b \in 0..(n - 1) |-> Zeros], t |-> 1, nextb |-> 0, nextinode |-> 0,
  hardlinks |-> <<>>, ok |-> TRUE, slot |-> 0, entry |-> 0,
  cache |-> [i \in 0..slots |-> [bno |-> 0, type |-> "SUPER", busy |-> 0, used |-> 0, data |-> Zeros]]]

-----------------------------------------------------------------------------
(* The block cache. *)
abort(s) == [s EXCEPT !.ok = FALSE, !.slot = 0]
flushb(s, i) == [s EXCEPT !.disk[s.cache[i].bno] = s.cache[i].data]

(* Mutant: blocks are thrown out without being saved. *)
evicted_unsaved(s, i) == s

evicted(s, i) == IF s.cache[i].used # 0 THEN flushb(s, i) ELSE s

idle(s) == {i \in DOMAIN s.cache \ {0} : s.cache[i].busy = 0}

getblk(s, bno, clr, type) ==
  LET hit   == {i \in DOMAIN s.cache \ {0} : s.cache[i].bno = bno}
      least == CHOOSE i \in idle(s) : \A j \in idle(s) :
                 s.cache[i].used < s.cache[j].used \/ (s.cache[i].used = s.cache[j].used /\ i <= j)
      i     == IF hit # {} THEN Min(hit) ELSE least
      out   == evicted(s, i)
      in    == IF hit # {} THEN s
               ELSE [out EXCEPT !.cache[i] = [@ EXCEPT !.bno = bno, !.busy = 0, !.type = type, !.data = out.disk[bno]]]
  IN IF ~s.ok \/ bno >= nblocks \/ (hit = {} /\ idle(s) = {}) THEN abort(s)
     ELSE IF in.cache[i].type # type /\ in.cache[i].busy # 0 THEN abort(s)
     ELSE [in EXCEPT !.t = @ + 1, !.slot = i, !.cache[i] = [@ EXCEPT !.type = type, !.busy = @ + 1,
             !.used = s.t + 1, !.data = IF clr THEN Zeros ELSE @]]

putblk(s, i) == [s EXCEPT !.cache[i].busy = @ - 1]
newblk(s, type) == getblk([s EXCEPT !.nextb = @ + 1], s.nextb, TRUE, type)

(* Assignments through a pointer into a cached block. *)
put(s, i, k, v) == IF s.ok THEN [s EXCEPT !.cache[i].data = Set(@, k, v)] ELSE s
get(s, i, k, zero) == Cell(s.cache[i].data, k, zero)
inode(s, p) == get(s, p[1], p[2], NoInode)
setinode(s, p, v) == put(s, p[1], p[2], v)

-----------------------------------------------------------------------------
(* Mutant: every block of a file gets an indirect block of its own. *)
bindir_new(s, known) == newblk(s, "BITS")

bindir(s, known) == IF known = 0 THEN newblk(s, "BITS") ELSE getblk(s, known, FALSE, "BITS")

(* The indirect block, named by the field f of the inode at p or by cell k *)
(* of the block in s.slot: known or new.                                   *)
inomap(s, p, f) ==
  LET r == bindir(s, inode(s, p)[f])
  IN IF inode(s, p)[f] = 0 THEN setinode(r, p, [inode(s, p) EXCEPT ![f] = s.nextb]) ELSE r
submap(s, k) ==
  LET r == bindir(s, get(s, s.slot, k, 0))
  IN IF get(s, s.slot, k, 0) = 0 THEN put(r, s.slot, k, s.nextb) ELSE r

(* Block b becomes block nblk of the file whose inode is at p. *)
storeblk(s, p, b, nblk) ==
  LET off == nblk - NDIRECT - NINDIRECT
      into(r, k) == putblk(put(r, r.slot, k, b), r.slot)
      ind2 == inomap(s, p, "indirect2")
  IN CASE nblk < NDIRECT -> setinode(s, p, [inode(s, p) EXCEPT !.direct[nblk] = b])
       [] nblk >= NDIRECT /\ off < 0 -> into(inomap(s, p, "indirect"), nblk - NDIRECT)
       [] off >= 0 /\ off < NINDIRECT * NINDIRECT ->
            putblk(into(submap(ind2, off \div NINDIRECT), off % NINDIRECT), ind2.slot)
       [] OTHER -> abort(s)

(* The inode returned is in s.slot; its number was s.nextinode. *)
inodeblk(s, ino) == getblk(s, firstinob + ino \div BLKINODES, FALSE, "INODES")
allocinode(s) == IF s.nextinode = ninodes THEN abort(s)
                 ELSE inodeblk([s EXCEPT !.nextinode = @ + 1], s.nextinode)

(* The last block of the directory whose inode is at p, its block nblk. *)
lastdirb(s, p, nblk) ==
  LET off == nblk - NDIRECT - NINDIRECT
      of(r, k, type) == getblk(r, get(r, r.slot, k, 0), FALSE, type)
      through(r, k)  == putblk(of(r, k, "DIR"), r.slot)
      ind2 == getblk(s, inode(s, p).indirect2, FALSE, "BITS")
  IN CASE nblk < NDIRECT -> getblk(s, inode(s, p).direct[nblk], FALSE, "DIR")
       [] nblk >= NDIRECT /\ off < 0 -> through(getblk(s, inode(s, p).indirect, FALSE, "BITS"), nblk - NDIRECT)
       [] OTHER -> putblk(through(of(ind2, off \div NINDIRECT, "BITS"), off % NINDIRECT), ind2.slot)

(* The entry returned is entry s.entry of the block in s.slot.  A name too *)
(* long makes it a null pointer, which every caller writes through.        *)
allocdirentry(s, p, name) ==
  LET nblk == Up(inode(s, p).size, BLKSIZE)
      at(r, i, k)   == [put(r, i, k, [NoEntry EXCEPT !.name = name]) EXCEPT !.slot = i, !.entry = k]
      grown(r)      == setinode(r, p, [inode(r, p) EXCEPT !.size = @ + BLKSIZE])
      in_new(r)     == at(grown(storeblk(r, p, r.cache[r.slot].bno, nblk)), r.slot, 0)
      empty(r)      == {k \in 0..(BLKENTRIES - 1) : get(r, r.slot, k, NoEntry).ino = 0}
      in_last(r)    == IF empty(r) # {} THEN at(r, r.slot, Min(empty(r)))
                       ELSE in_new(newblk(putblk(r, r.slot), "DIR"))
  IN CASE Len(name) > MAXNAMELEN -> abort(s)
       [] Len(name) <= MAXNAMELEN /\ nblk > 0 -> in_last(lastdirb(s, p, nblk - 1))
       [] OTHER -> in_new(newblk(s, "DIR"))

-----------------------------------------------------------------------------
(* Hard links, newest first.  A digest is the set of the content it is of, *)
(* {} where there is none: MD5 is taken to tell contents apart.            *)
get_hardlink(s, host_ino, digest) ==
  LET cur == SelectInSeq(s.hardlinks, LAMBDA h :
               \/ host_ino # 0 /\ h.host_ino = host_ino
               \/ job.c /\ digest # {} /\ h.digest = digest)
  IN IF cur = 0 THEN 0 ELSE s.hardlinks[cur].osp_ino

add_hardlink(s, host_ino, osp_ino, digest) ==
  [s EXCEPT !.hardlinks = <<[host_ino |-> host_ino, osp_ino |-> osp_ino, digest |-> IF job.c THEN digest ELSE {}]>> \o @]

(* A new name in the directory at p, of an inode that is known already or  *)
(* of a new one: the blocks of both, pinned.                               *)
addname(s, p, name, host_ino, digest) ==
  LET asked == host_ino # 0 \/ (job.c /\ digest # {})
      counted(r, at, known) == setinode(r, at, [inode(r, at) EXCEPT !.nlink = IF known = 0 THEN 1 ELSE @ + 1])
      named(s1, s2, known, ino) ==
        LET at == <<s2.slot, ino % BLKINODES>>
            r  == counted(put(s2, s1.slot, s1.entry, [name |-> name, ino |-> ino]), at, known)
        IN [fs |-> IF known = 0 /\ asked THEN add_hardlink(r, host_ino, ino, digest) ELSE r,
            at |-> at, dirb |-> s1.slot, inob |-> s2.slot, new |-> known = 0]
      of(s1, known) == IF known = 0 THEN named(s1, allocinode(s1), 0, s1.nextinode)
                       ELSE named(s1, inodeblk(s1, known), known, known)
      entered(s1) == of(s1, IF asked THEN get_hardlink(s1, host_ino, digest) ELSE 0)
  IN entered(allocdirentry(s, p, name))

(* The end of both its callers: only a new inode has been written to. *)
release(a, r) == putblk(putblk(IF a.new THEN r ELSE a.fs, a.dirb), a.inob)

(* One turn of writefile's loop: the block is taken before the data that   *)
(* may not be there is read.                                               *)
writeblk(s, p, content, nblk) ==
  LET data == SubSeq(content, nblk * BLKSIZE + 1, Min({Len(content), (nblk + 1) * BLKSIZE}))
      s1   == getblk(s, s.nextb, TRUE, "FILE")
      s2   == IF s1.ok THEN [s1 EXCEPT !.nextb = @ + 1, !.cache[s1.slot].data = [k \in 0..(Len(data) - 1) |-> data[k + 1]]]
              ELSE s1
  IN IF Len(data) = 0 THEN putblk(s1, s1.slot)
     ELSE putblk(storeblk(s2, p, s.nextb, nblk), s1.slot)

writefile(s, p, name, content, host_ino) ==
  LET fill(r, at) == FoldLeft(LAMBDA q, k : writeblk(q, at, content, k - 1), r,
                              [k \in 1..(Len(content) \div BLKSIZE + 1) |-> k])
      typed(r, at) == setinode(r, at, [inode(r, at) EXCEPT !.ftype = "reg"])
      sized(r, at) == setinode(r, at, [inode(r, at) EXCEPT !.size = Len(content)])
      whole(a) == release(a, sized(fill(typed(a.fs, a.at), a.at), a.at))
  IN whole(addname(s, p, name, host_ino, {content}))

addsymlink(s, p, name, linkbuf, host_ino) ==
  LET to(r, at) == setinode(r, at, [inode(r, at) EXCEPT !.ftype = "sym", !.symlink = linkbuf, !.size = Len(linkbuf)])
      whole(a)  == release(a, to(a.fs, a.at))
  IN whole(addname(s, p, name, host_ino, {}))

writesymlink(s, p, name, link, host_ino) ==
  IF Len(link) > MAXSYMLINKLEN THEN s ELSE addsymlink(s, p, name, link, host_ino)

-----------------------------------------------------------------------------
(* The start and the end. *)
opendisk(s) ==
  LET Ones == [k \in 0..(BLKBITSIZE - 1) |-> 1]
      bits(r, b)   == LET g == getblk(r, b, FALSE, "BITS") IN putblk([g EXCEPT !.cache[g.slot].data = Ones], g.slot)
      inodes(r, b) == LET g == getblk(r, b, TRUE, "INODES") IN putblk(g, g.slot)
  IN [FoldLeft(inodes, FoldLeft(bits, s, [k \in 1..nbitblock |-> FREEMAP_BLK + k - 1]),
               [k \in 1..(firstdata - firstinob) |-> firstinob + k - 1]) EXCEPT !.nextb = firstdata]

(* Mutant: the first bit past the end of the disk is left free. *)
tailbits_late == ((nblocks % BLKBITSIZE) + 1)..(BLKBITSIZE - 1)

tailbits == (nblocks % BLKBITSIZE)..(BLKBITSIZE - 1)

clearbits(s, b, bits) ==
  LET g == getblk(s, FREEMAP_BLK + b, FALSE, "BITS")
  IN putblk(IF g.ok THEN [g EXCEPT !.cache[g.slot].data = [k \in DOMAIN @ |-> IF k \in bits THEN 0 ELSE @[k]]] ELSE g, g.slot)
finishfs(s) ==
  LET used == FoldLeft(LAMBDA r, i : clearbits(r, i \div BLKBITSIZE, {i % BLKBITSIZE}), s, [k \in 1..s.nextb |-> k - 1])
      tail == IF nblocks # nbitblock * BLKBITSIZE THEN clearbits(used, nbitblock - 1, tailbits) ELSE used
      sup  == getblk(tail, 1, TRUE, "SUPER")
  IN putblk(put(sup, sup.slot, 0, [nblocks |-> nblocks, ninodes |-> ninodes, firstinob |-> firstinob]), sup.slot)

flushdisk(s) == FoldLeft(LAMBDA r, i : IF r.cache[i].used # 0 THEN flushb(r, i) ELSE r, s,
                         [i \in 1..Cardinality(DOMAIN s.cache \ {0}) |-> i])

-----------------------------------------------------------------------------
(* main: what it has refused as a usage error is not here. *)
Init == /\ job \in Jobs /\ nblocks \in DiskSizes /\ ninodes \in InodeCounts
        /\ ninodes < nblocks - 2 - nblocks \div BLKBITSIZE
        /\ \E slots \in CacheSizes : fs = Fresh(slots, nblocks)
        /\ stack = <<>> /\ phase = "open"

Open ==
  LET s1 == allocinode(opendisk(fs))
      s2 == putblk(setinode(s1, <<s1.slot, 0>>, [NoInode EXCEPT !.nlink = 1]), s1.slot)
      s3 == allocinode(s2)
      p  == <<s3.slot, ROOT_INO % BLKINODES>>
  IN /\ phase = "open"
     /\ fs' = setinode(s3, p, [NoInode EXCEPT !.nlink = 1, !.ftype = "dir"])
     /\ stack' = <<[entries |-> job.entries, at |-> p, dirb |-> 0, inob |-> 0]>>
     /\ phase' = "write" /\ UNCHANGED <<job, nblocks, ninodes>>

(* The next entry that readdir gives, or the next file argument. *)
Skipped == {<<".">>, <<".", ".">>, <<"C", "V", "S">>, <<".", "s", "v", "n">>, <<".", "g", "i", "t">>}
Walking == fs.ok /\ phase = "write"
top  == Head(stack)
next == Head(top.entries)
Below(rest) == <<[top EXCEPT !.entries = Tail(@)]>> \o rest

WriteFile ==
  /\ Walking /\ top.entries # <<>> /\ next.type = "reg"
  /\ fs' = writefile(fs, top.at, next.name, next.content, IF job.r THEN next.host_ino ELSE 0)
  /\ stack' = Below(Tail(stack)) /\ UNCHANGED <<job, nblocks, ninodes, phase>>

WriteSymlink ==
  /\ Walking /\ top.entries # <<>> /\ next.type = "sym"
  /\ fs' = writesymlink(fs, top.at, next.name, next.content, next.host_ino)
  /\ stack' = Below(Tail(stack)) /\ UNCHANGED <<job, nblocks, ninodes, phase>>

(* Devices, files gone since, and some directories. *)
PassOver ==
  /\ Walking /\ top.entries # <<>>
  /\ next.type \notin {"reg", "sym", "dir"} \/ (next.type = "dir" /\ next.name \in Skipped)
  /\ stack' = Below(Tail(stack)) /\ UNCHANGED <<job, nblocks, ninodes, phase, fs>>

EnterDirectory ==
  LET into(s1, s2) ==
        LET ino == s1.nextinode
            at  == <<s2.slot, ino % BLKINODES>>
            s3  == put(s2, s1.slot, s1.entry, [name |-> next.name, ino |-> ino])
            up(r)   == setinode(r, top.at, [inode(r, top.at) EXCEPT !.nlink = @ + 1])
            down(r) == setinode(r, at, [inode(r, at) EXCEPT !.ftype = "dir", !.size = 0, !.nlink = 1])
        IN /\ fs' = down(up(s3))
           /\ stack' = <<[entries |-> next.kids, at |-> at, dirb |-> s1.slot, inob |-> s2.slot]>> \o Below(Tail(stack))
      from(s1) == into(s1, allocinode(s1))
  IN /\ Walking /\ top.entries # <<>> /\ next.type = "dir" /\ next.name \notin Skipped
     /\ from(allocdirentry(fs, top.at, next.name))
     /\ UNCHANGED <<job, nblocks, ninodes, phase>>

LeaveDirectory ==
  /\ Walking /\ top.entries = <<>> /\ Len(stack) > 1
  /\ fs' = putblk(putblk(fs, top.dirb), top.inob)
  /\ stack' = Tail(stack) /\ UNCHANGED <<job, nblocks, ninodes, phase>>

(* The -l links go to the root; then its inode is let go, the rest of the  *)
(* image is written and the cache flushed.                                 *)
Finish ==
  LET links == FoldLeft(LAMBDA r, l : addsymlink(r, top.at, l.name, l.content, 0), fs, job.l)
      saved(r) == IF r.ok THEN flushdisk(r) ELSE r
  IN /\ Walking /\ Len(stack) = 1 /\ top.entries = <<>>
     /\ fs' = saved(finishfs(putblk(links, top.at[1])))
     /\ stack' = <<>> /\ phase' = "done" /\ UNCHANGED <<job, nblocks, ninodes>>

Next == Open \/ WriteFile \/ WriteSymlink \/ PassOver \/ EnterDirectory \/ LeaveDirectory \/ Finish
Spec == Init /\ [][Next]_vars

-----------------------------------------------------------------------------
(* What the program was told to store, in the order it meets it. *)
Deepest == 6     \* bound on the depth of a host, ends the recursion on an image with a cycle
Stored(e) == ~(\/ e.type \notin {"reg", "sym", "dir"}
               \/ e.type = "dir" /\ e.name \in Skipped
               \/ e.type = "sym" /\ Len(e.content) > MAXSYMLINKLEN)
RECURSIVE Flat(_, _)
Flat(entries, d) ==
  FlattenSeq([k \in DOMAIN entries |-> LET e == entries[k] IN
    IF ~Stored(e) THEN <<>>
    ELSE <<[depth |-> d, name |-> e.name, type |-> e.type, content |-> IF e.type = "dir" THEN <<>> ELSE e.content,
            host_ino |-> IF job.r THEN e.host_ino ELSE 0]>>
         \o (IF e.type = "dir" THEN Flat(e.kids, d + 1) ELSE <<>>)])
Asked == Flat(job.entries, 0) \o [k \in DOMAIN job.l |->
           [depth |-> 0, name |-> job.l[k].name, type |-> "sym", content |-> job.l[k].content, host_ino |-> 0]]

(* Two of them are one file. *)
Same(x, y) == /\ x.type = y.type
              /\ \/ x.host_ino # 0 /\ x.host_ino = y.host_ino
                 \/ job.c /\ x.type = "reg" /\ x.content = y.content

-----------------------------------------------------------------------------
(* The image as the file system module reads it. *)
Inode(i) == Cell(fs.disk[firstinob + i \div BLKINODES], i % BLKINODES, NoInode)
At(b, k) == Cell(fs.disk[b], k, 0)
BlockOf(ino, n) ==
  LET off == n - NDIRECT - NINDIRECT
  IN CASE n < NDIRECT -> ino.direct[n]
       [] n >= NDIRECT /\ off < 0 -> At(ino.indirect, n - NDIRECT)
       [] OTHER -> At(At(ino.indirect2, off \div NINDIRECT), off % NINDIRECT)
Blocks(ino) == [n \in 1..Up(IF ino.ftype = "sym" THEN 0 ELSE ino.size, BLKSIZE) |-> BlockOf(ino, n - 1)]
Content(ino) == IF ino.ftype = "sym" THEN ino.symlink
                ELSE [k \in 1..ino.size |-> Cell(fs.disk[BlockOf(ino, (k - 1) \div BLKSIZE)], (k - 1) % BLKSIZE, 0)]
RECURSIVE Listing(_, _)
Listing(i, d) ==
  LET ents == FlattenSeq([n \in DOMAIN Blocks(Inode(i)) |->
                [k \in 1..BLKENTRIES |-> Cell(fs.disk[Blocks(Inode(i))[n]], k - 1, NoEntry)]])
  IN FlattenSeq([k \in DOMAIN ents |-> LET ino == Inode(ents[k].ino) IN
       IF ents[k].ino = 0 \/ d > Deepest THEN <<>>
       ELSE <<[depth |-> d, name |-> ents[k].name, ino |-> ents[k].ino, type |-> ino.ftype,
               content |-> IF ino.ftype = "dir" THEN <<>> ELSE Content(ino)]>>
            \o (IF ino.ftype = "dir" THEN Listing(ents[k].ino, d + 1) ELSE <<>>)])

Written == phase = "done" /\ fs.ok

(* The image holds the files, directories and links asked for, whatever    *)
(* blocks were thrown out of the cache on the way: the same names in the   *)
(* same order with the same contents; two names share an inode exactly     *)
(* when they are links of one file (or, with -c, equal), and an inode's    *)
(* link count is the number of its names, a directory's one more than its  *)
(* subdirectories.                                                         *)
ImageHoldsTree == Written =>
  LET image == Listing(ROOT_INO, 0)
      asked == Asked
      I == DOMAIN asked
  IN /\ Len(image) = Len(asked)
     /\ \A k \in I : /\ image[k].depth = asked[k].depth /\ image[k].name = asked[k].name
                     /\ image[k].type = asked[k].type /\ image[k].content = asked[k].content
     /\ \A j, k \in I : j < k => (image[j].ino = image[k].ino <=> Same(asked[j], asked[k]))
     /\ \A k \in I : Inode(image[k].ino).nlink =
          IF image[k].type # "dir" THEN Cardinality({j \in I : image[j].ino = image[k].ino})
          ELSE LET out == {j \in I : j > k /\ image[j].depth <= image[k].depth}
                   end == IF out = {} THEN Len(image) + 1 ELSE Min(out)
               IN 1 + Cardinality({j \in I : j > k /\ j < end /\ image[j].type = "dir" /\ image[j].depth = image[k].depth + 1})

(* Every block is in one place of one file, and the free map the file      *)
(* system module will allocate from marks exactly the others as free:      *)
(* nothing in use, nothing lost, and nothing beyond the end of the disk.   *)
ImageAccounted == Written =>
  LET super == Cell(fs.disk[1], 0, 0)
      live  == {i \in ROOT_INO..(ninodes - 1) : Inode(i).nlink > 0}
      maps(ino) == IF ino.ftype = "sym" THEN <<>> ELSE
        SelectSeq(<<ino.indirect, ino.indirect2>> \o [k \in 1..NINDIRECT |->
          IF ino.indirect2 = 0 THEN 0 ELSE At(ino.indirect2, k - 1)], LAMBDA b : b # 0)
      uses == FlattenSeq([i \in 1..(ninodes - 1) |-> IF i \in live THEN Blocks(Inode(i)) \o maps(Inode(i)) ELSE <<>>])
      taken == ToSet(uses) \cup 0..(firstdata - 1)
  IN /\ Len(uses) = Cardinality(ToSet(uses)) /\ ToSet(uses) \subseteq firstdata..(super.nblocks - 1)
     /\ super = [nblocks |-> nblocks, ninodes |-> ninodes, firstinob |-> firstinob]
     /\ \A i \in 0..(nbitblock * BLKBITSIZE - 1) :
          At(FREEMAP_BLK + i \div BLKBITSIZE, i % BLKBITSIZE) = (IF i \in taken \/ i >= super.nblocks THEN 0 ELSE 1)

(* It gives up only on what cannot be stored: a name or a file too long,   *)
(* too few inodes, too few blocks (it may touch one block more than it     *)
(* keeps, looking for the end of a file) or directories nested too deep    *)
(* for its cache, each level pinning two blocks.                           *)
FormatsIfFits == ~fs.ok =>
  LET asked == Asked
      first == {k \in DOMAIN asked : \A j \in 1..(k - 1) : ~Same(asked[j], asked[k])}
      kids(k) == LET d   == IF k = 0 THEN -1 ELSE asked[k].depth
                     out == {j \in DOMAIN asked : j > k /\ asked[j].depth <= d}
                     end == IF out = {} THEN Len(asked) + 1 ELSE Min(out)
                 IN Cardinality({j \in DOMAIN asked : j > k /\ j < end /\ asked[j].depth = d + 1})
      data(k) == IF k = 0 THEN Up(kids(0), BLKENTRIES)
                 ELSE CASE asked[k].type = "sym" -> 0
                        [] asked[k].type = "dir" -> Up(kids(k), BLKENTRIES)
                        [] OTHER -> Up(Len(asked[k].content), BLKSIZE)
      maps(n) == (IF n > NDIRECT THEN 1 ELSE 0)
                 + (IF n > NDIRECT + NINDIRECT THEN 1 + Up(n - NDIRECT - NINDIRECT, NINDIRECT) ELSE 0)
      need == MapThenSumSet(LAMBDA k : data(k) + maps(data(k)), first \cup {0})
      depth == Max({asked[k].depth : k \in DOMAIN asked} \cup {0})
  IN \/ firstdata + need + 1 > nblocks
     \/ Cardinality(first) + 2 > ninodes
     \/ Cardinality(DOMAIN fs.cache \ {0}) < 6 + 2 * depth
     \/ \E k \in DOMAIN asked : Len(asked[k].name) > MAXNAMELEN
     \/ \E k \in first \cup {0} : data(k) > NDIRECT + NINDIRECT + NINDIRECT * NINDIRECT
=============================================================================
