----------------------------- MODULE FileBlocks -----------------------------
(***************************************************************************)
(* The contents of files: read and write (kernel/file.c), and the blocks   *)
(* under an inode with the bitmap they come from (kernel/fs.c).            *)
(*                                                                         *)
(* An inode is changed under its lock; processes meet on one inode between *)
(* two pieces of a write, and in the bitmap at any time.  The buffer of    *)
(* the bitmap is locked while a bit is found and set, and a block without  *)
(* its bit is in nobody's hands: taking one, zeroing it and entering its   *)
(* number is one step, and so is giving one back.  A block has its         *)
(* contents in the cache and, if they were logged, on the disk or in the   *)
(* log; the buffer of the block is recycled at any time.  A transaction is *)
(* durable as a whole (module Log): a crash finds the disk as it is when   *)
(* no operation is under way.                                              *)
(***************************************************************************)
EXTENDS Integers, FiniteSets, Sequences

CONSTANTS Procs,
          Opens,        (* struct files; all processes inherit them           *)
          Inodes,       (* files, not directories                             *)
          NBlocks,      (* data blocks                                        *)
          BSIZE,        (* bytes in a block; a block number is as long as one *)
          NDIRECT,
          BPB,          (* bits in a block of the bitmap                      *)
          MAXOPBLOCKS,
          Sizes,        (* how much a call reads or writes                    *)
          Buffer,       (* the bytes that are written: those of a call are    *)
                        (* the first of them                                  *)
          Torn,         (* an undefined byte                                  *)
          Nobody

FileConstants ==
  /\ {NBlocks, BSIZE, BPB, NDIRECT} \subseteq Nat \ {0}
  /\ MAXOPBLOCKS \in Nat /\ MAXOPBLOCKS >= 6
  /\ Sizes \subseteq 1..Len(Buffer)
  /\ Nobody \notin Procs

DataBlocks == 1..NBlocks
NINDIRECT == BSIZE
MAXFILE == NDIRECT + NINDIRECT
Nil == 0
Zeroes == [c \in 0..(BSIZE - 1) |-> 0]
Stale == [c \in 0..(BSIZE - 1) |-> 1]    (* what a free block was last used for *)

VARIABLES
  fip,            \* f->ip, once f is open
  foff,           \* f->off
  addrs, size,    \* of each inode, ip->addrs and ip->size
  marked,         \* blocks whose bit in the bitmap is set
  cached, stored, \* contents of each block: in the buffer cache; what is to survive it
  op,             \* where a process is in its call: the file and its inode, n bytes to write,
                  \* i written before this piece and tot in it; the next block (k) of itrunc;
                  \* and the blocks it has logged
  torn,           \* history: bytes that a failed write has changed
  halted          \* the panic, if any, or "crash"

fileVars == <<fip, foff, addrs, size, marked, cached, stored, op, torn, halted>>

Idle == [at |-> "user", f |-> Nil, ip |-> Nil, n |-> 0, i |-> 0, tot |-> 0, k |-> 0, logged |-> {}]

Init ==
  /\ fip = [f \in Opens |-> Nil] /\ foff = [f \in Opens |-> 0]
  /\ addrs = [i \in Inodes |-> [k \in 0..NDIRECT |-> Nil]] /\ size = [i \in Inodes |-> 0]
  /\ marked = {}
  /\ cached = [b \in DataBlocks |-> Stale] /\ stored = cached
  /\ op = [p \in Procs |-> Idle]
  /\ torn = {} /\ halted = "no"
-----------------------------------------------------------------------------
InInode(p) == op[p].at \in {"turn", "trunc"}
Locked(i) == \E p \in Procs : InInode(p) /\ op[p].ip = i

(* The block with the k-th part of the file, Nil if it has none.           *)
Slot(i, k) ==
  IF k < NDIRECT THEN addrs[i][k]
  ELSE IF addrs[i][NDIRECT] = Nil THEN Nil ELSE cached[addrs[i][NDIRECT]][k - NDIRECT]

(* The byte readi finds at position x.                                     *)
ByteAt(i, x) == cached[Slot(i, x \div BSIZE)][x % BSIZE]

\* Variant: no room is left for a piece that starts in the middle of a block.
MaxPieceNoSlop == ((MAXOPBLOCKS - 1 - 1) \div 2) * BSIZE

(* max and n1 of filewrite.                                                *)
MaxPiece == ((MAXOPBLOCKS - 1 - 1 - 2) \div 2) * BSIZE
Piece(o) == IF o.n - o.i > MaxPiece THEN MaxPiece ELSE o.n - o.i

(* off and off/BSIZE of writei.                                            *)
At(p) == foff[op[p].f] + op[p].tot
Bn(p) == At(p) \div BSIZE

BitmapBlock(b) == <<"bitmap", b \div BPB>>
InodeBlock == <<"inode">>
Data(b) == <<"data", b>>
-----------------------------------------------------------------------------
(* sys_open, which starts at the beginning.  (Close, and an entry of the   *)
(* file table that is used again, are in module Inodes.)                   *)
Open ==
  /\ \E f \in Opens, i \in Inodes : fip[f] = Nil /\ ~Locked(i) /\ fip' = [fip EXCEPT ![f] = i]
  /\ UNCHANGED <<foff, addrs, size, marked, cached, stored, op, torn, halted>>

IsOpen == {f \in Opens : fip[f] # Nil}

(* begin_op, ilock, and the checks of writei: a piece that is refused ends *)
(* the call.                                                               *)
Piecewise(p, o) ==
  /\ ~Locked(o.ip)
  /\ op' = [op EXCEPT ![p] =
              IF foff[o.f] > size[o.ip] \/ foff[o.f] + Piece(o) > MAXFILE * BSIZE THEN Idle
              ELSE [o EXCEPT !.at = "turn"]]
  /\ UNCHANGED <<fip, foff, addrs, size, marked, cached, stored, torn, halted>>

Write(p) ==
  /\ op[p].at = "user"
  /\ \E f \in IsOpen, n \in Sizes : Piecewise(p, [Idle EXCEPT !.f = f, !.ip = fip[f], !.n = n])

WriteOn(p) == op[p].at = "piece" /\ Piecewise(p, op[p])

(* balloc and bzero, and bmap, which enters the number of the block in the *)
(* inode (as a block of the file, or the one with the indirect numbers) or *)
(* among the indirect numbers.                                             *)
Alloc(p, contents) ==
  LET i == op[p].ip
      b == CHOOSE x \in DataBlocks \ marked : \A y \in DataBlocks \ marked : x <= y
      ind == addrs[i][NDIRECT]
      taken == [cached EXCEPT ![b] = contents]
  IN
  /\ marked' = marked \cup {b}
  /\ IF Bn(p) >= NDIRECT /\ ind # Nil
     THEN /\ cached' = [taken EXCEPT ![ind][Bn(p) - NDIRECT] = b]
          /\ stored' = [stored EXCEPT ![b] = contents, ![ind] = cached'[ind]]
          /\ op' = [op EXCEPT ![p].logged = @ \cup {BitmapBlock(b), Data(b), Data(ind)}]
          /\ UNCHANGED addrs
     ELSE /\ cached' = taken
          /\ stored' = [stored EXCEPT ![b] = contents]
          /\ op' = [op EXCEPT ![p].logged = @ \cup {BitmapBlock(b), Data(b)}]
          /\ addrs' = [addrs EXCEPT ![i][IF Bn(p) < NDIRECT THEN Bn(p) ELSE NDIRECT] = b]
  /\ UNCHANGED <<fip, foff, size, torn, halted>>

Missing(p) == op[p].at = "turn" /\ Slot(op[p].ip, Bn(p)) = Nil

Bmap(p) ==
  /\ Missing(p)
  /\ IF marked = DataBlocks
     THEN halted' = "out of blocks" /\ UNCHANGED <<fip, foff, addrs, size, marked, cached, stored, op, torn>>
     ELSE Alloc(p, Zeroes)

(* The end of writei, with r bytes written, and the turn of filewrite.     *)
Written(p, r) ==
  LET o == op[p] f == op[p].f IN
  /\ size' = [size EXCEPT ![o.ip] = IF foff[f] + r > @ THEN foff[f] + r ELSE @]
  /\ foff' = [foff EXCEPT ![f] = @ + r]
  /\ op' = [op EXCEPT ![p] =
              IF r = Piece(op[p]) /\ o.i + r < o.n
              THEN [o EXCEPT !.at = "piece", !.i = @ + r, !.tot = 0, !.logged = {}]
              ELSE Idle]

(* m of writei, and the block with the next m bytes in it.                 *)
M(p) == LET room == BSIZE - (At(p) % BSIZE) IN
        IF Piece(op[p]) - op[p].tot < room THEN Piece(op[p]) - op[p].tot ELSE room

Filled(p, m) ==
  LET x == At(p) % BSIZE IN
  [c \in 0..(BSIZE - 1) |-> IF c \in x..(x + m - 1) THEN Buffer[op[p].i + op[p].tot + (c - x) + 1]
                            ELSE cached[Slot(op[p].ip, Bn(p))][c]]

\* Variant: the block is not logged.
NoLogWrite(b, contents) == UNCHANGED stored

(* log_write: the contents will outlive the buffer. *)
LogWrite(b, contents) == stored' = [stored EXCEPT ![b] = contents]

Copy(p) ==
  LET o == op[p] b == Slot(o.ip, Bn(p)) m == M(p) IN
  /\ o.at = "turn" /\ b # Nil
  /\ cached' = [cached EXCEPT ![b] = Filled(p, m)]
  /\ LogWrite(b, Filled(p, m))
  /\ torn' = torn \ {<<o.ip, x>> : x \in At(p)..(At(p) + m - 1)}
  /\ IF o.tot + m = Piece(o) THEN Written(p, Piece(o))
     ELSE /\ op' = [op EXCEPT ![p].tot = @ + m, ![p].logged = @ \cup {Data(b)}]
          /\ UNCHANGED <<foff, size>>
  /\ UNCHANGED <<fip, addrs, marked, halted>>

(* either_copyin fails, perhaps at a page's end: what it has copied is in  *)
(* the buffer, and is not logged.                                          *)
CopyFails(p) ==
  LET o == op[p] b == Slot(o.ip, Bn(p)) IN
  /\ o.at = "turn" /\ b # Nil
  /\ \E m \in 0..(M(p) - 1) :
       /\ cached' = [cached EXCEPT ![b] = Filled(p, m)]
       /\ torn' = torn \cup {<<o.ip, x>> : x \in {y \in At(p)..(At(p) + m - 1) : y < size[o.ip]}}
  /\ Written(p, o.tot)
  /\ UNCHANGED <<fip, addrs, marked, stored, halted>>
-----------------------------------------------------------------------------
(* fileread and readi, which allocates nothing.  (A read that fails        *)
(* changes nothing.)                                                       *)
Read(p) ==
  /\ op[p].at = "user"
  /\ \E f \in IsOpen, n \in Sizes :
       LET s == size[fip[f]] IN
       /\ ~Locked(fip[f]) /\ foff[f] < s
       /\ foff' = [foff EXCEPT ![f] = IF @ + n > s THEN s ELSE @ + n]
  /\ UNCHANGED <<fip, addrs, size, marked, cached, stored, op, torn, halted>>

(* open with O_TRUNC, up to itrunc.  (The last iput of a file does the     *)
(* same.)                                                                  *)
Truncate(p) ==
  /\ op[p].at = "user"
  /\ \E i \in Inodes :
       /\ ~Locked(i)
       /\ op' = [op EXCEPT ![p] = [Idle EXCEPT !.at = "trunc", !.ip = i]]
       /\ torn' = {t \in torn : t[1] # i}
  /\ UNCHANGED <<fip, foff, addrs, size, marked, cached, stored, halted>>

(* The k-th block itrunc frees: after those of the file the indirect one.  *)
ToFree(i, k) == IF k = MAXFILE THEN addrs[i][NDIRECT] ELSE Slot(i, k)

(* bfree.  The indirect numbers stay where they are.                       *)
Free(p) ==
  LET i == op[p].ip IN
  /\ op[p].at = "trunc"
  /\ \E k \in op[p].k..MAXFILE :
       /\ ToFree(i, k) # Nil /\ \A j \in op[p].k..(k - 1) : ToFree(i, j) = Nil
       /\ IF ToFree(i, k) \notin marked
          THEN halted' = "freeing free block" /\ UNCHANGED <<addrs, marked, cached, stored, op>>
          ELSE /\ marked' = marked \ {ToFree(i, k)}
               /\ addrs' = [addrs EXCEPT ![i] =
                              [j \in DOMAIN @ |->
                                 IF (k < NDIRECT /\ j = k) \/ (k = MAXFILE /\ j = NDIRECT) THEN Nil
                                 ELSE @[j]]]
               /\ cached' = [cached EXCEPT ![ToFree(i, k)] = Stale]
               /\ stored' = [stored EXCEPT ![ToFree(i, k)] = Stale]
               /\ op' = [op EXCEPT ![p].k = k + 1]
               /\ UNCHANGED halted
  /\ UNCHANGED <<fip, foff, size, torn>>

Truncated(p) ==
  LET i == op[p].ip IN
  /\ op[p].at = "trunc" /\ \A k \in op[p].k..MAXFILE : ToFree(i, k) = Nil
  /\ size' = [size EXCEPT ![i] = 0]
  /\ op' = [op EXCEPT ![p] = Idle]
  /\ UNCHANGED <<fip, foff, addrs, marked, cached, stored, torn, halted>>
-----------------------------------------------------------------------------
(* A block changed in the cache only: its buffer is recycled, unless it    *)
(* was in the transaction already, which then takes the change along.      *)
Recycle ==
  /\ \E b \in DataBlocks : cached[b] # stored[b] /\ cached' = [cached EXCEPT ![b] = stored[b]]
  /\ UNCHANGED <<fip, foff, addrs, size, marked, stored, op, torn, halted>>

Absorb ==
  /\ \E b \in DataBlocks : cached[b] # stored[b] /\ stored' = [stored EXCEPT ![b] = cached[b]]
  /\ UNCHANGED <<fip, foff, addrs, size, marked, cached, op, torn, halted>>

(* What a system does that starts again is not followed. *)
Crash ==
  /\ \A p \in Procs : ~InInode(p)
  /\ cached' = stored
  /\ foff' = [f \in Opens |-> 0]
  /\ op' = [p \in Procs |-> Idle]
  /\ halted' = "crash"
  /\ UNCHANGED <<fip, addrs, size, marked, stored, torn>>

Next ==
  /\ halted = "no"
  /\ \/ \E p \in Procs :
          \/ Write(p) \/ WriteOn(p) \/ Bmap(p) \/ Copy(p) \/ CopyFails(p)
          \/ Read(p) \/ Truncate(p) \/ Free(p) \/ Truncated(p)
     \/ Open \/ Recycle \/ Absorb \/ Crash

Spec == Init /\ [][Next]_fileVars
-----------------------------------------------------------------------------
FileTypeOK ==
  /\ fip \in [Opens -> Inodes \cup {Nil}] /\ foff \in [Opens -> Nat]
  /\ addrs \in [Inodes -> [0..NDIRECT -> DataBlocks \cup {Nil}]] /\ size \in [Inodes -> 0..(MAXFILE * BSIZE)]
  /\ marked \subseteq DataBlocks
  /\ cached \in [DataBlocks -> [0..(BSIZE - 1) -> Nat]] /\ stored \in [DataBlocks -> [0..(BSIZE - 1) -> Nat]]
  /\ \A p \in Procs : op[p].at \in {"user", "piece", "turn", "trunc"}
  /\ torn \subseteq Inodes \X Nat
  /\ halted \in {"no", "crash", "out of blocks", "freeing free block"}

(* Where the number of a block is: not where itrunc has already freed it.  *)
Holders(b) ==
  {h \in Inodes \X (0..MAXFILE) :
     /\ ToFree(h[1], h[2]) = b
     /\ \A p \in Procs : op[p].at = "trunc" /\ op[p].ip = h[1] => h[2] >= op[p].k}

(* A block is marked in use exactly if one file has it, in one place.      *)
BlocksOwned ==
  \A b \in DataBlocks : Cardinality(Holders(b)) = (IF b \in marked THEN 1 ELSE 0)

(* A file has a block for every byte, and no byte of it is left undefined. *)
NoHoles ==
  \A i \in Inodes : ~Locked(i) =>
    \A k \in 0..(MAXFILE - 1) : k * BSIZE < size[i] => Slot(i, k) # Nil

(* The pieces of filewrite are small enough for what begin_op reserves,    *)
(* wherever a piece starts and however many blocks the bitmap has; the     *)
(* inode is still to be logged.                                            *)
PieceFits ==
  \A p \in Procs : op[p].at = "turn" =>
    Cardinality(op[p].logged \cup {InodeBlock, Data(Slot(op[p].ip, Bn(p)))}) <= MAXOPBLOCKS

(* No block is lost or in two files, at any time and after a crash; the    *)
(* kernel never frees a free block; and a transaction is never too big.    *)
FilesSafe == FileTypeOK /\ BlocksOwned /\ NoHoles /\ PieceFits /\ halted # "freeing free block"

Writer(i) == {p \in Procs : InInode(p) /\ op[p].ip = i}
Reached(i) ==
  LET end == {At(p) : p \in {q \in Writer(i) : op[q].at = "turn"}} \cup {size[i]} IN
  CHOOSE x \in end : \A y \in end : y <= x

Bytes == INSTANCE ByteFile WITH
  ip   <- fip,
  text <- [i \in Inodes |->
             IF \E p \in Writer(i) : op[p].at = "trunc" THEN <<>>
             ELSE [j \in 1..Reached(i) |-> IF <<i, j - 1>> \in torn THEN Torn ELSE ByteAt(i, j - 1)]],
  off  <- [f \in Opens |->
             IF \E p \in Procs : op[p].at = "turn" /\ op[p].f = f
             THEN At(CHOOSE p \in Procs : op[p].at = "turn" /\ op[p].f = f)
             ELSE foff[f]],
  call <- [p \in Procs |-> [f |-> op[p].f,
                           bytes |-> [j \in 1..(op[p].n - op[p].i - op[p].tot) |-> Buffer[op[p].i + op[p].tot + j]]]],
  holder <- [i \in Inodes |-> IF Writer(i) = {} THEN Nobody ELSE CHOOSE p \in Writer(i) : TRUE]

(* A file is a sequence of bytes, and an open file an offset in it that is *)
(* shared: writes of several processes overwrite nothing of each other     *)
(* through one offset, what is written is read, and only the bytes a       *)
(* failed write was about to overwrite are undefined.                      *)
ImplementsByteFile == Bytes!Spec
=============================================================================
