----------------------------- MODULE FileProofs -----------------------------
(***************************************************************************)
(* Proofs about the blocks of files (FileBlocks) as MCKernel runs them,    *)
(* for every number of processes, files, open files and blocks, every size *)
(* of a block and every bound on a transaction: no block is lost or shared *)
(* (FilesInv), and what readers and writers see is a sequence of bytes     *)
(* with one writer at a time (BytesInv, and the refinement of ByteFile).   *)
(***************************************************************************)
EXTENDS MCKernel, Integers, FiniteSetTheorems, SequenceTheorems, WellFoundedInduction, TLAPS

(* Cardinality is the same in FileBlocks and in this module.               *)
LEMMA SameSize == \A S : B!Cardinality(S) = Cardinality(S)
BY DEF B!Cardinality, Cardinality, B!IsFiniteSet, IsFiniteSet

(* A product is at least a factor.                                         *)
LEMMA Multiple ==
  ASSUME NEW n \in Nat, n > 0, NEW k \in Int, k >= 1
  PROVE  k * n >= n
OBVIOUS

(* The block a number of bytes ends in.                                    *)
LEMMA Division ==
  ASSUME NEW n \in Nat, n > 0, NEW x \in Nat
  PROVE  /\ x \div n \in Nat /\ x % n \in 0..(n - 1)
         /\ x = (x \div n) * n + (x % n)
OBVIOUS

(* Multiples of a number are in the order of the factors.                  *)
LEMMA MultiplesOrdered ==
  ASSUME NEW n \in Nat, n > 0, NEW x \in Int, NEW y \in Int
  PROVE  /\ x * n \in Int
         /\ x <= y => x * n <= y * n
         /\ x < y => x * n + n <= y * n
         /\ x * n < y * n => x < y
<1>0. x * n \in Int /\ y * n \in Int
  OBVIOUS
<1>1. ASSUME x < y PROVE x * n + n <= y * n
  <2>1. y - x \in Int /\ y - x >= 1
    BY <1>1
  <2>2. (y - x) * n >= n
    BY <2>1, Multiple
  <2>3. (y - x) * n = y * n - x * n
    OBVIOUS
  <2> QED BY <2>2, <2>3, <1>0
<1>2. ASSUME x * n < y * n PROVE x < y
  <2>1. ASSUME y < x PROVE FALSE
    <3>1. x - y \in Int /\ x - y >= 1
      BY <2>1
    <3>2. (x - y) * n >= n
      BY <3>1, Multiple
    <3>3. (x - y) * n = x * n - y * n
      OBVIOUS
    <3> QED BY <3>2, <3>3, <1>0, <1>2
  <2>2. x # y
    BY <1>2
  <2> QED BY <2>1, <2>2
<1>3. x = y => x * n <= y * n
  BY <1>0
<1> QED BY <1>0, <1>1, <1>2, <1>3

(* A position is before the block k exactly if its own block is.           *)
LEMMA BlockBefore ==
  ASSUME NEW n \in Nat, n > 0, NEW x \in Nat, NEW k \in Int
  PROVE  /\ x < k * n <=> x \div n < k
         /\ (x % n = 0) => (k * n < x <=> k < x \div n)
         /\ k * n <= x <=> k <= x \div n
<1> DEFINE q == x \div n
           r == x % n
<1>1. q \in Nat /\ r \in 0..(n - 1) /\ x = q * n + r
  BY Division
<1> HIDE DEF q, r
<1>2. q < k => q * n + n <= k * n
  BY <1>1, MultiplesOrdered
<1>3. k < q => k * n + n <= q * n
  BY <1>1, MultiplesOrdered
<1>4. q * n \in Int /\ k * n \in Int
  BY <1>1, MultiplesOrdered
<1>5. k = q => k * n = q * n
  OBVIOUS
<1> QED BY <1>1, <1>2, <1>3, <1>4, <1>5 DEF q, r

(* Going on within a block, up to its end at most.                         *)
LEMMA WithinBlock ==
  ASSUME NEW n \in Nat, n > 0, NEW x \in Nat, NEW m \in Nat, m > 0, m <= n - (x % n)
  PROVE  /\ m < n - (x % n) => (x + m) \div n = x \div n
         /\ m = n - (x % n) => (x + m) \div n = (x \div n) + 1 /\ (x + m) % n = 0
<1> DEFINE q == x \div n
           r == x % n
           p == (x + m) \div n
           s == (x + m) % n
<1>1. q \in Nat /\ r \in 0..(n - 1) /\ x = q * n + r
  BY Division
<1>2. p \in Nat /\ s \in 0..(n - 1) /\ x + m = p * n + s
  BY Division
<1>3. m <= n - r
  OBVIOUS
<1> HIDE DEF q, r, p, s
<1>4. q * n \in Int /\ p * n \in Int /\ (q + 1) * n \in Int /\ (q + 1) * n = q * n + n
  BY <1>1, <1>2, MultiplesOrdered
<1>5. p < q => p * n + n <= q * n
  BY <1>1, <1>2, MultiplesOrdered
<1>6. q < p => q * n + n <= p * n
  BY <1>1, <1>2, MultiplesOrdered
<1>7. q + 1 < p => (q + 1) * n + n <= p * n
  BY <1>1, <1>2, MultiplesOrdered
<1>8. p = q => p * n = q * n
  OBVIOUS
<1>9. p = q + 1 => p * n = (q + 1) * n
  OBVIOUS
<1> HIDE <1>1, <1>2
<1>10. m < n - r => p = q
  BY <1>1, <1>2, <1>4, <1>5, <1>6
<1>11. m = n - r => p = q + 1 /\ s = 0
  BY <1>1, <1>2, <1>4, <1>5, <1>6, <1>7, <1>8, <1>9
<1> QED BY <1>10, <1>11 DEF q, r, p, s
-----------------------------------------------------------------------------
(* Where a process is in its call on a file.                               *)
LogEntries == {B!Data(b) : b \in B!DataBlocks} \cup {B!BitmapBlock(b) : b \in B!DataBlocks}
FileCalls == [at : {"user", "piece", "turn", "trunc"}, f : Opens \cup {0}, ip : Files \cup {0},
              n : Nat, i : Nat, tot : Nat, k : 0..(B!MAXFILE + 1), logged : SUBSET LogEntries]

FileTypes ==
  /\ fip \in [Opens -> Files \cup {0}] /\ foff \in [Opens -> Nat]
  /\ addrs \in [Files -> [0..NDIRECT -> B!DataBlocks \cup {0}]]
  /\ size \in [Files -> 0..(B!MAXFILE * BSIZE)]
  /\ marked \subseteq B!DataBlocks
  /\ cached \in [B!DataBlocks -> [0..(BSIZE - 1) -> Nat]]
  /\ stored \in [B!DataBlocks -> [0..(BSIZE - 1) -> Nat]]
  /\ op \in [FsProcs -> FileCalls]
  /\ torn \subseteq Files \X Nat
  /\ halted \in {"no", "crash", "out of blocks"}

(* A call is about an open file.                                           *)
Calling ==
  \A p \in FsProcs :
    /\ op[p].at # "user" => op[p].ip \in Files
    /\ op[p].at \in {"piece", "turn"} =>
         /\ op[p].f \in Opens /\ fip[op[p].f] = op[p].ip /\ op[p].ip # 0
         /\ op[p].n \in Sizes /\ op[p].i < op[p].n
    /\ op[p].at = "piece" => op[p].tot = 0 /\ op[p].logged = {}

(* An inode is one process's at a time.                                    *)
Alone == \A p, q \in FsProcs : B!InInode(p) /\ B!InInode(q) /\ op[p].ip = op[q].ip => p = q

(* What itrunc has freed.                                                  *)
Ind(i) == addrs[i][NDIRECT]
Freed ==
  \A p \in FsProcs : op[p].at = "trunc" =>
    /\ \A j \in 0..(NDIRECT - 1) : j < op[p].k => addrs[op[p].ip][j] = 0
    /\ op[p].k > B!MAXFILE => Ind(op[p].ip) = 0

(* The k-th number of the file i is good, unless itrunc has passed it; the *)
(* good ones are those of the marked blocks, each one once.                *)
Good(i, k) == \A p \in FsProcs : op[p].at = "trunc" /\ op[p].ip = i => k >= op[p].k
Numbers == 0..B!MAXFILE
Owned ==
  /\ \A i \in Files, k \in Numbers : Good(i, k) /\ B!ToFree(i, k) # 0 => B!ToFree(i, k) \in marked
  /\ \A i, j \in Files, k, l \in Numbers :
       Good(i, k) /\ Good(j, l) /\ B!ToFree(i, k) # 0 /\ B!ToFree(i, k) = B!ToFree(j, l) => i = j /\ k = l
  /\ \A b \in marked : \E i \in Files, k \in Numbers : Good(i, k) /\ B!ToFree(i, k) = b

(* Indirect blocks are never changed without being logged.                 *)
Kept ==
  \A i \in Files : Ind(i) # 0 =>
    /\ cached[Ind(i)] = stored[Ind(i)]
    /\ \A c \in 0..(BSIZE - 1) : cached[Ind(i)][c] \in B!DataBlocks \cup {0}

(* A piece of a write fits in the file, and is copied up to the end of a   *)
(* block; there is a block for every byte, also for those the writer has   *)
(* put behind the end of the file.                                         *)
InBounds(p) ==
  /\ foff[op[p].f] <= size[op[p].ip]
  /\ foff[op[p].f] + B!Piece(op[p]) <= B!MAXFILE * BSIZE
  /\ op[p].tot < B!Piece(op[p])
  /\ op[p].tot > 0 => B!At(p) % BSIZE = 0
Backed(p) ==
  \A k \in 0..(B!MAXFILE - 1) : k * BSIZE < size[op[p].ip] \/ k * BSIZE < B!At(p) => B!Slot(op[p].ip, k) # 0

(* What a piece has logged and has in hand; two blocks for each of its own *)
(* that it has got, two for an indirect one, and the inode: one less if    *)
(* its first block was there already because it starts in the middle of it.*)
Has(x) == IF x = 0 THEN 0 ELSE 1
DataOf(x, y) == {B!Data(b) : b \in {x, y} \ {0}}
ItsSlot(p) == B!Slot(op[p].ip, B!Bn(p))
Touched(p) == (op[p].logged \cup {B!InodeBlock}) \cup DataOf(Ind(op[p].ip), ItsSlot(p))
Allowance(p) ==
  1 + 2 * (B!Bn(p) - (foff[op[p].f] \div BSIZE)) + 2 * Has(ItsSlot(p)) + 2 * Has(Ind(op[p].ip))
    - Has(foff[op[p].f] % BSIZE)
Fits(p) == IsFiniteSet(op[p].logged) /\ Cardinality(Touched(p)) <= Allowance(p)

Turns == \A p \in FsProcs : op[p].at = "turn" => InBounds(p) /\ Backed(p) /\ Fits(p)

FilesInv ==
  /\ FileTypes /\ Calling /\ Turns /\ Alone /\ Freed /\ Owned /\ Kept /\ B!NoHoles
-----------------------------------------------------------------------------
(* The constants of the files.                                             *)
LEMMA FileNumbers ==
  /\ NBlocks \in Nat /\ NBlocks > 0 /\ BSIZE \in Nat /\ BSIZE > 0 /\ BPB \in Nat /\ BPB > 0
  /\ NDIRECT \in Nat /\ NDIRECT > 0 /\ MAXOPBLOCKS \in Nat /\ MAXOPBLOCKS >= 6
  /\ Sizes \subseteq 1..4
  /\ B!MAXFILE = NDIRECT + BSIZE /\ B!MAXFILE \in Nat
  /\ B!Zeroes \in [0..(BSIZE - 1) -> Nat] /\ B!Stale \in [0..(BSIZE - 1) -> Nat]
<1>1. Len(<<1, 1, 1, 2>>) = 4
  OBVIOUS
<1> QED BY <1>1, KernelConstants DEF B!FileConstants, B!MAXFILE, B!NINDIRECT, B!Zeroes, B!Stale

(* The largest piece is some whole blocks.                                 *)
PieceBlocks == (MAXOPBLOCKS - 1 - 1 - 2) \div 2

(* It is not empty, and fits in what a transaction has room for.           *)
LEMMA PieceNumbers ==
  /\ PieceBlocks \in Nat /\ PieceBlocks >= 1 /\ 2 * PieceBlocks <= MAXOPBLOCKS - 4
  /\ B!MaxPiece = PieceBlocks * BSIZE /\ B!MaxPiece \in Nat /\ B!MaxPiece >= 1
<1>1. MAXOPBLOCKS \in Nat /\ MAXOPBLOCKS >= 6 /\ BSIZE \in Nat /\ BSIZE > 0
  BY FileNumbers
<1>2. PieceBlocks \in Nat /\ PieceBlocks >= 1 /\ 2 * PieceBlocks <= MAXOPBLOCKS - 4
  BY <1>1 DEF PieceBlocks
<1>3. B!MaxPiece = PieceBlocks * BSIZE
  BY DEF B!MaxPiece, PieceBlocks
<1>4. PieceBlocks * BSIZE >= BSIZE /\ PieceBlocks * BSIZE \in Int
  BY <1>1, <1>2, Multiple, MultiplesOrdered
<1> QED BY <1>1, <1>2, <1>3, <1>4

(* A piece is as much as is left, or a largest one.                        *)
LEMMA PieceIs ==
  ASSUME NEW o \in FileCalls, o.i < o.n
  PROVE  /\ B!Piece(o) \in Nat /\ B!Piece(o) >= 1
         /\ B!Piece(o) <= o.n - o.i /\ B!Piece(o) <= B!MaxPiece
BY PieceNumbers DEF B!Piece, FileCalls

(* The numbers of a file are those of blocks.                              *)
LEMMA NumbersType ==
  ASSUME FileTypes, Kept, NEW i \in Files, NEW k \in Numbers
  PROVE  /\ Ind(i) \in B!DataBlocks \cup {0}
         /\ k < B!MAXFILE => B!Slot(i, k) \in B!DataBlocks \cup {0}
         /\ B!ToFree(i, k) \in B!DataBlocks \cup {0}
         /\ k < B!MAXFILE => B!ToFree(i, k) = B!Slot(i, k)
         /\ B!ToFree(i, B!MAXFILE) = Ind(i)
<1>0. addrs \in [Files -> [0..NDIRECT -> B!DataBlocks \cup {0}]]
  BY DEF FileTypes
<1>1. Ind(i) \in B!DataBlocks \cup {0} /\ \A j \in 0..NDIRECT : addrs[i][j] \in B!DataBlocks \cup {0}
  BY <1>0, FileNumbers DEF Ind
<1>2. ASSUME k < B!MAXFILE
      PROVE  B!Slot(i, k) \in B!DataBlocks \cup {0}
  <2>1. CASE k < NDIRECT
    BY <1>1, <2>1, FileNumbers DEF B!Slot, Numbers
  <2>2. CASE ~(k < NDIRECT) /\ Ind(i) = 0
    BY <2>2 DEF B!Slot, B!Nil, Ind
  <2>3. CASE ~(k < NDIRECT) /\ Ind(i) # 0
    <3>1. k - NDIRECT \in 0..(BSIZE - 1)
      BY <1>2, <2>3, FileNumbers DEF Numbers
    <3>2. cached[Ind(i)][k - NDIRECT] \in B!DataBlocks \cup {0}
      BY <2>3, <3>1 DEF Kept
    <3> QED BY <2>3, <3>2 DEF B!Slot, B!Nil, Ind
  <2> QED BY <2>1, <2>2, <2>3
<1> QED BY <1>1, <1>2, FileNumbers DEF B!ToFree, Numbers, Ind

(* What a process in the middle of a piece is about to do.                 *)
LEMMA TurnIs ==
  ASSUME FileTypes, Calling, Turns, NEW p \in FsProcs, op[p].at = "turn"
  PROVE  /\ op[p] \in FileCalls /\ op[p].ip \in Files /\ op[p].f \in Opens
         /\ foff[op[p].f] \in Nat /\ op[p].tot \in Nat /\ op[p].i \in Nat /\ op[p].n \in Nat
         /\ op[p].n <= 4
         /\ B!At(p) = foff[op[p].f] + op[p].tot /\ B!At(p) \in Nat
         /\ B!Piece(op[p]) \in Nat /\ op[p].i + B!Piece(op[p]) <= op[p].n
         /\ B!Piece(op[p]) <= B!MaxPiece
         /\ B!At(p) < foff[op[p].f] + B!Piece(op[p])
         /\ B!At(p) < B!MAXFILE * BSIZE
         /\ B!Bn(p) = B!At(p) \div BSIZE
         /\ B!Bn(p) \in 0..(B!MAXFILE - 1) /\ B!Bn(p) \in Numbers /\ B!Bn(p) < B!MAXFILE
         /\ B!M(p) \in Nat /\ B!M(p) >= 1 /\ op[p].tot + B!M(p) <= B!Piece(op[p])
         /\ B!M(p) <= BSIZE - (B!At(p) % BSIZE)
         /\ B!M(p) = BSIZE - (B!At(p) % BSIZE) \/ op[p].tot + B!M(p) = B!Piece(op[p])
<1>1. op[p] \in FileCalls
  BY DEF FileTypes
<1>0. foff \in [Opens -> Nat]
  BY DEF FileTypes
<1>2. /\ op[p].ip \in Files /\ op[p].f \in Opens /\ op[p].n \in Sizes /\ op[p].i < op[p].n
      /\ foff[op[p].f] + B!Piece(op[p]) <= B!MAXFILE * BSIZE /\ op[p].tot < B!Piece(op[p])
  BY DEF Calling, Turns, InBounds
<1>3. foff[op[p].f] \in Nat /\ op[p].tot \in Nat /\ op[p].i \in Nat /\ op[p].n \in Nat /\ op[p].n <= 4
  <2>1. op[p].tot \in Nat /\ op[p].i \in Nat /\ op[p].n \in Nat
    BY <1>1 DEF FileCalls
  <2>2. op[p].n <= 4
    <3>1. op[p].n \in Sizes /\ Sizes \subseteq 1..4
      BY <1>2, FileNumbers, Zenon
    <3>2. op[p].n \in 1..4
      BY <3>1, Zenon
    <3> QED BY <3>2
  <2>3. foff[op[p].f] \in Nat
    BY <1>0, <1>2
  <2> QED BY <2>1, <2>2, <2>3
<1>4. /\ B!Piece(op[p]) \in Nat /\ B!Piece(op[p]) <= op[p].n - op[p].i
      /\ B!Piece(op[p]) <= B!MaxPiece
  BY <1>1, <1>2, PieceIs
<1>5. B!At(p) = foff[op[p].f] + op[p].tot /\ B!At(p) \in Nat
  BY <1>3 DEF B!At
<1>6. B!MAXFILE * BSIZE \in Int
  BY FileNumbers, MultiplesOrdered
<1>7. B!At(p) < foff[op[p].f] + B!Piece(op[p]) /\ B!At(p) < B!MAXFILE * BSIZE
  BY <1>2, <1>3, <1>4, <1>5, <1>6
<1>8. B!Bn(p) \in Nat /\ B!Bn(p) < B!MAXFILE
  <2> DEFINE x == B!At(p)
  <2>1. x \in Nat /\ x < B!MAXFILE * BSIZE /\ BSIZE \in Nat /\ BSIZE > 0 /\ B!MAXFILE \in Int
    BY <1>5, <1>7, FileNumbers
  <2> HIDE DEF x
  <2>2. x \div BSIZE \in Nat /\ x \div BSIZE < B!MAXFILE
    BY <2>1, Division, BlockBefore
  <2> QED BY <2>2 DEF B!Bn, x
<1>9. B!At(p) % BSIZE \in 0..(BSIZE - 1)
  BY <1>5, FileNumbers, Division
<1>10. /\ B!M(p) \in Nat /\ B!M(p) >= 1 /\ op[p].tot + B!M(p) <= B!Piece(op[p])
       /\ B!M(p) <= BSIZE - (B!At(p) % BSIZE)
       /\ B!M(p) = BSIZE - (B!At(p) % BSIZE) \/ op[p].tot + B!M(p) = B!Piece(op[p])
  <2> DEFINE r == B!At(p) % BSIZE
             n == B!Piece(op[p])
             t == op[p].tot
  <2>1. r \in 0..(BSIZE - 1) /\ n \in Nat /\ t \in Nat /\ t < n /\ BSIZE \in Nat
    BY <1>2, <1>3, <1>4, <1>9, FileNumbers
  <2>2. B!M(p) = IF n - t < BSIZE - r THEN n - t ELSE BSIZE - r
    BY DEF B!M
  <2> HIDE DEF r, n, t
  <2>3. B!M(p) \in Nat /\ B!M(p) >= 1 /\ t + B!M(p) <= n /\ B!M(p) <= BSIZE - r
        /\ (B!M(p) = BSIZE - r \/ t + B!M(p) = n)
    BY <2>1, <2>2
  <2> QED BY <2>3 DEF r, n, t
<1>11. B!Bn(p) \in 0..(B!MAXFILE - 1) /\ B!Bn(p) \in Numbers
  BY <1>8, FileNumbers DEF Numbers
<1>12. op[p].i + B!Piece(op[p]) <= op[p].n
  BY <1>3, <1>4
<1> QED BY <1>1, <1>2, <1>3, <1>4, <1>5, <1>7, <1>8, <1>10, <1>11, <1>12 DEF B!Bn

(* Between steps of itrunc, and elsewhere, all numbers are good.           *)
LEMMA AllGood ==
  ASSUME Alone, NEW p \in FsProcs, op[p].at = "turn", NEW k \in Numbers
  PROVE  Good(op[p].ip, k)
BY DEF Alone, Good, B!InInode

(* The number of an indirect block is good until there is none.            *)
LEMMA IndirectGood ==
  ASSUME FileTypes, Freed, NEW i \in Files, Ind(i) # 0
  PROVE  Good(i, B!MAXFILE)
<1>1. \A p \in FsProcs : op[p].k \in 0..(B!MAXFILE + 1)
  BY DEF FileTypes, FileCalls
<1> QED BY <1>1, FileNumbers DEF Freed, Good

(* A block of a file is no indirect block.                                 *)
LEMMA NotIndirect ==
  ASSUME FilesInv, NEW i \in Files, NEW j \in Files, NEW k \in Numbers, k < B!MAXFILE,
         Good(i, k), B!Slot(i, k) # 0
  PROVE  B!Slot(i, k) # Ind(j)
<1> SUFFICES ASSUME B!Slot(i, k) = Ind(j)
             PROVE  FALSE
  OBVIOUS
<1>1. B!MAXFILE \in Numbers
  BY FileNumbers DEF Numbers
<1>2. B!ToFree(i, k) = Ind(j) /\ B!ToFree(j, B!MAXFILE) = Ind(j) /\ Ind(j) # 0
  BY NumbersType DEF FilesInv
<1>3. Good(j, B!MAXFILE)
  BY <1>2, IndirectGood DEF FilesInv
<1>4. k = B!MAXFILE
  BY <1>1, <1>2, <1>3 DEF FilesInv, Owned
<1> QED BY <1>4, FileNumbers

(* Nothing of a file moves when no indirect block changes.                 *)
LEMMA SameNumbers ==
  ASSUME addrs' = addrs, \A i \in Files : Ind(i) # 0 => cached'[Ind(i)] = cached[Ind(i)]
  PROVE  \A i \in Files, k \in Numbers :
           /\ Ind(i)' = Ind(i) /\ B!Slot(i, k)' = B!Slot(i, k) /\ B!ToFree(i, k)' = B!ToFree(i, k)
BY DEF Ind, B!Slot, B!ToFree, B!Nil
-----------------------------------------------------------------------------
(* No block changes hands.                                                 *)
Steady ==
  /\ addrs' = addrs /\ marked' = marked
  /\ \A i \in Files : Ind(i) # 0 => cached'[Ind(i)] = cached[Ind(i)] /\ stored'[Ind(i)] = stored[Ind(i)]

(* The blocks are owned as before.                                         *)
LEMMA SteadyOwned ==
  ASSUME FilesInv, Steady, \A i \in Files, k \in Numbers : Good(i, k)' <=> Good(i, k)
  PROVE  Owned' /\ Kept'
<1>1. \A i \in Files, k \in Numbers : Ind(i)' = Ind(i) /\ B!ToFree(i, k)' = B!ToFree(i, k)
  BY SameNumbers DEF Steady
<1>2. marked' = marked
  BY DEF Steady
<1>3. Owned
  BY DEF FilesInv
<1>4. Owned'
  <2>1. \A i \in Files, k \in Numbers : Good(i, k)' /\ B!ToFree(i, k)' # 0 => B!ToFree(i, k)' \in marked'
    BY <1>1, <1>2, <1>3 DEF Owned
  <2>2. \A i, j \in Files, k, l \in Numbers :
          Good(i, k)' /\ Good(j, l)' /\ B!ToFree(i, k)' # 0 /\ B!ToFree(i, k)' = B!ToFree(j, l)'
          => i = j /\ k = l
    BY <1>1, <1>3 DEF Owned
  <2>3. \A b \in marked' : \E i \in Files, k \in Numbers : Good(i, k)' /\ B!ToFree(i, k)' = b
    BY <1>1, <1>2, <1>3 DEF Owned
  <2>4. Numbers' = Numbers
    BY DEF Numbers
  <2> QED BY <2>1, <2>2, <2>3, <2>4 DEF Owned
<1>5. Kept'
  <2> SUFFICES ASSUME NEW i \in Files, Ind(i)' # 0
               PROVE  /\ cached'[Ind(i)'] = stored'[Ind(i)']
                      /\ \A c \in 0..(BSIZE - 1) : cached'[Ind(i)'][c] \in B!DataBlocks \cup {0}
    BY DEF Kept, B!DataBlocks
  <2>0. 0 \in Numbers
    BY FileNumbers DEF Numbers
  <2>1. Ind(i)' = Ind(i) /\ Ind(i) # 0
    BY <1>1, <2>0
  <2>2. cached'[Ind(i)] = cached[Ind(i)] /\ stored'[Ind(i)] = stored[Ind(i)]
    BY <2>1 DEF Steady
  <2>3. cached[Ind(i)] = stored[Ind(i)] /\ \A c \in 0..(BSIZE - 1) : cached[Ind(i)][c] \in B!DataBlocks \cup {0}
    BY <2>1 DEF FilesInv, Kept
  <2> QED BY <2>1, <2>2, <2>3
<1> QED BY <1>4, <1>5

(* A block is taken from the bitmap.                                       *)
LEMMA TakenOwned ==
  ASSUME Owned, marked \subseteq B!DataBlocks, NEW b \in B!DataBlocks, b \notin marked, marked' = marked \cup {b},
         NEW i0 \in Files, NEW k0 \in Numbers, Good(i0, k0), B!ToFree(i0, k0) = 0,
         \A i \in Files, k \in Numbers :
           B!ToFree(i, k)' = IF i = i0 /\ k = k0 THEN b ELSE B!ToFree(i, k),
         \A i \in Files, k \in Numbers : Good(i, k)' <=> Good(i, k)
  PROVE  Owned'
<1>1. \A i \in Files, k \in Numbers : Good(i, k)' /\ B!ToFree(i, k)' # 0 => B!ToFree(i, k)' \in marked'
  BY DEF Owned
<1>2. ASSUME NEW i \in Files, NEW j \in Files, NEW k \in Numbers, NEW l \in Numbers,
             Good(i, k)', Good(j, l)', B!ToFree(i, k)' # 0, B!ToFree(i, k)' = B!ToFree(j, l)'
      PROVE  i = j /\ k = l
  <2>1. CASE i = i0 /\ k = k0
    BY <1>2, <2>1 DEF Owned
  <2>2. CASE j = i0 /\ l = k0
    BY <1>2, <2>2 DEF Owned
  <2>3. CASE ~(i = i0 /\ k = k0) /\ ~(j = i0 /\ l = k0)
    BY <1>2, <2>3 DEF Owned
  <2> QED BY <2>1, <2>2, <2>3
<1>3. ASSUME NEW c \in marked'
      PROVE  \E i \in Files, k \in Numbers : Good(i, k)' /\ B!ToFree(i, k)' = c
  <2>1. CASE c = b
    BY <2>1
  <2>2. CASE c # b
    <3>1. PICK i \in Files, k \in Numbers : Good(i, k) /\ B!ToFree(i, k) = c
      BY <2>2 DEF Owned
    <3>2. c # 0
      BY <1>3, <2>2 DEF B!DataBlocks
    <3> QED BY <3>1, <3>2
  <2> QED BY <2>1, <2>2
<1>4. Numbers' = Numbers
  BY DEF Numbers
<1> QED BY <1>1, <1>2, <1>3, <1>4 DEF Owned

(* A block is given back to the bitmap by itrunc, which has passed it.     *)
LEMMA GivenOwned ==
  ASSUME Owned, marked \subseteq B!DataBlocks,
         NEW i0 \in Files, NEW k0 \in Numbers, Good(i0, k0), B!ToFree(i0, k0) # 0,
         marked' = marked \ {B!ToFree(i0, k0)},
         \A k \in Numbers : k < k0 /\ Good(i0, k) => B!ToFree(i0, k) = 0,
         \A i \in Files, k \in Numbers : Good(i, k)' <=> Good(i, k) /\ ~(i = i0 /\ k <= k0),
         \A i \in Files, k \in Numbers : Good(i, k)' => B!ToFree(i, k)' = B!ToFree(i, k)
  PROVE  Owned'
<1>0. Numbers \subseteq Int
  BY FileNumbers DEF Numbers
<1>1. ASSUME NEW i \in Files, NEW k \in Numbers, Good(i, k)', B!ToFree(i, k)' # 0
      PROVE  B!ToFree(i, k)' \in marked'
  <2>1. Good(i, k) /\ ~(i = i0 /\ k = k0) /\ B!ToFree(i, k)' = B!ToFree(i, k)
    BY <1>0, <1>1
  <2> QED BY <1>1, <2>1 DEF Owned
<1>2. ASSUME NEW i \in Files, NEW j \in Files, NEW k \in Numbers, NEW l \in Numbers,
             Good(i, k)', Good(j, l)', B!ToFree(i, k)' # 0, B!ToFree(i, k)' = B!ToFree(j, l)'
      PROVE  i = j /\ k = l
  <2>1. Good(i, k) /\ Good(j, l) /\ B!ToFree(i, k)' = B!ToFree(i, k) /\ B!ToFree(j, l)' = B!ToFree(j, l)
    BY <1>2
  <2>2. Good(i, k) /\ Good(j, l) /\ B!ToFree(i, k) # 0 /\ B!ToFree(i, k) = B!ToFree(j, l) => i = j /\ k = l
    BY DEF Owned
  <2> QED BY <1>2, <2>1, <2>2
<1>3. ASSUME NEW c \in marked'
      PROVE  \E i \in Files, k \in Numbers : Good(i, k)' /\ B!ToFree(i, k)' = c
  <2>1. c \in marked /\ c # B!ToFree(i0, k0)
    BY <1>3
  <2>2. PICK i \in Files, k \in Numbers : Good(i, k) /\ B!ToFree(i, k) = c
    BY <2>1 DEF Owned
  <2>3. c # 0
    BY <2>1 DEF B!DataBlocks
  <2>4. ~(i = i0 /\ k <= k0)
    BY <1>0, <2>1, <2>2, <2>3
  <2> QED BY <2>2, <2>4
<1>4. Numbers' = Numbers
  BY DEF Numbers
<1> QED BY <1>1, <1>2, <1>3, <1>4 DEF Owned
-----------------------------------------------------------------------------
(* A piece that nobody disturbs stays as it is.                            *)
LEMMA Undisturbed ==
  ASSUME NEW q, InBounds(q), Backed(q), Fits(q), B!Bn(q) \in 0..(B!MAXFILE - 1),
         op'[q] = op[q], foff'[op[q].f] = foff[op[q].f], size'[op[q].ip] = size[op[q].ip],
         Ind(op[q].ip)' = Ind(op[q].ip),
         \A k \in 0..(B!MAXFILE - 1) : B!Slot(op[q].ip, k)' = B!Slot(op[q].ip, k)
  PROVE  InBounds(q)' /\ Backed(q)' /\ Fits(q)'
<1>1. B!At(q)' = B!At(q)
  BY DEF B!At
<1>2. B!Bn(q)' = B!Bn(q)
  BY <1>1 DEF B!Bn
<1>3. ItsSlot(q)' = ItsSlot(q)
  <2>1. ItsSlot(q)' = B!Slot(op[q].ip, B!Bn(q))'
    BY DEF ItsSlot
  <2>2. PICK n \in 0..(B!MAXFILE - 1) : n = B!Bn(q)
    OBVIOUS
  <2>3. B!Slot(op[q].ip, n)' = B!Slot(op[q].ip, n)
    OBVIOUS
  <2>4. ItsSlot(q)' = B!Slot(op[q].ip, n)'
    BY <1>2, <2>2 DEF ItsSlot, B!Slot
  <2> QED BY <2>2, <2>3, <2>4 DEF ItsSlot
<1>5. Touched(q)' = Touched(q)
  BY <1>3 DEF Touched, B!InodeBlock, B!Data, Ind
<1>6. Allowance(q)' = Allowance(q)
  BY <1>2, <1>3 DEF Allowance, Ind
<1>7. InBounds(q)'
  BY <1>1 DEF InBounds
<1>8. Backed(q)'
  BY <1>1 DEF Backed, B!Slot
<1> QED BY <1>5, <1>6, <1>7, <1>8 DEF Fits

(* A step of the processes in Moved that changes no block's owner.             *)
LEMMA QuietStep ==
  ASSUME FilesInv, Steady, size' = size, NEW Moved \in SUBSET FsProcs,
         \A q \in FsProcs : q \notin Moved => op'[q] = op[q],
         \A q \in FsProcs : q \notin Moved /\ op[q].at = "turn" => foff'[op[q].f] = foff[op[q].f],
         \A q \in Moved : op[q].at # "trunc" /\ (op'[q].at = "trunc" => op'[q].k = 0),
         \A i \in Files : B!Locked(i) => B!Locked(i)',
         \A q \in Moved : op'[q].at = "turn" => InBounds(q)' /\ Backed(q)' /\ Fits(q)'
  PROVE  Turns' /\ Freed' /\ Owned' /\ Kept' /\ B!NoHoles'
<1>1. \A i \in Files, k \in Numbers :
        Ind(i)' = Ind(i) /\ B!Slot(i, k)' = B!Slot(i, k) /\ B!ToFree(i, k)' = B!ToFree(i, k)
  BY SameNumbers DEF Steady
<1>2. 0..(B!MAXFILE - 1) \subseteq Numbers /\ 0 \in Numbers
  BY FileNumbers DEF Numbers
<1>3. Owned' /\ Kept'
  <2> SUFFICES ASSUME NEW i \in Files, NEW k \in Numbers
               PROVE  Good(i, k)' <=> Good(i, k)
    BY SteadyOwned
  <2>1. k \in Nat
    BY FileNumbers DEF Numbers
  <2> QED BY <2>1 DEF Good
<1>4. Turns'
  <2> SUFFICES ASSUME NEW q \in FsProcs, op'[q].at = "turn"
               PROVE  InBounds(q)' /\ Backed(q)' /\ Fits(q)'
    BY DEF Turns
  <2>1. CASE q \in Moved
    BY <2>1
  <2>2. CASE q \notin Moved
    <3>1. op'[q] = op[q] /\ op[q].at = "turn" /\ foff'[op[q].f] = foff[op[q].f]
      BY <2>2
    <3>2. op[q].ip \in Files /\ B!Bn(q) \in 0..(B!MAXFILE - 1)
      BY <3>1, TurnIs DEF FilesInv
    <3>3. InBounds(q) /\ Backed(q) /\ Fits(q)
      BY <3>1 DEF FilesInv, Turns
    <3>4. \A k \in 0..(B!MAXFILE - 1) : B!Slot(op[q].ip, k)' = B!Slot(op[q].ip, k)
      BY <1>1, <1>2, <3>1, <3>2 DEF B!Slot
    <3>5. Ind(op[q].ip)' = Ind(op[q].ip)
      BY <1>1, <1>2, <3>1, <3>2 DEF Ind
    <3> QED BY <3>1, <3>2, <3>3, <3>4, <3>5, Undisturbed
  <2> QED BY <2>1, <2>2
<1>5. Freed'
  <2> SUFFICES ASSUME NEW q \in FsProcs, op'[q].at = "trunc"
               PROVE  /\ \A j \in 0..(NDIRECT - 1) : j < op'[q].k => addrs'[op'[q].ip][j] = 0
                      /\ op'[q].k > B!MAXFILE => addrs'[op'[q].ip][NDIRECT] = 0
    BY DEF Freed, Ind
  <2>1. addrs' = addrs
    BY DEF Steady
  <2>2. CASE q \in Moved
    <3>1. op'[q].k = 0
      BY <2>2
    <3> QED BY <3>1, FileNumbers
  <2>3. CASE q \notin Moved
    <3>1. op'[q] = op[q]
      BY <2>3
    <3> QED BY <2>1, <3>1 DEF FilesInv, Freed, Ind
  <2> QED BY <2>2, <2>3
<1>6. B!NoHoles'
  <2> SUFFICES ASSUME NEW i \in Files, ~B!Locked(i)', NEW k \in 0..(B!MAXFILE - 1), k * BSIZE < size'[i]
               PROVE  B!Slot(i, k)' # 0
    BY DEF B!NoHoles, B!Nil
  <2>1. ~B!Locked(i)
    OBVIOUS
  <2>2. B!Slot(i, k)' = B!Slot(i, k)
    BY <1>1, <1>2
  <2> QED BY <2>1, <2>2 DEF FilesInv, B!NoHoles, B!Nil
<1> QED BY <1>3, <1>4, <1>5, <1>6
-----------------------------------------------------------------------------
(* A call that has not begun.                                              *)
LEMMA IdleIs ==
  /\ B!Idle \in FileCalls /\ B!Idle.at = "user" /\ B!Idle.k = 0 /\ B!Idle.i = 0 /\ B!Idle.tot = 0
  /\ B!Idle.logged = {}
BY FileNumbers DEF B!Idle, FileCalls, B!Nil

(* A file is opened.                                                       *)
LEMMA OpenStep ==
  ASSUME FilesInv, B!Open
  PROVE  FilesInv'
<1>1. /\ UNCHANGED <<foff, addrs, size, marked, cached, stored, op, torn, halted>>
      /\ \A f \in Opens : fip[f] # 0 => fip'[f] = fip[f]
      /\ fip' \in [Opens -> Files \cup {0}]
  BY DEF FilesInv, FileTypes, B!Open, B!Nil
<1>2. FileTypes'
  BY <1>1 DEF FilesInv, FileTypes, FileCalls, LogEntries, B!Data, B!BitmapBlock, B!DataBlocks
<1>3. Calling'
  BY <1>1 DEF FilesInv, Calling
<1>4. Alone'
  BY <1>1 DEF FilesInv, Alone, B!InInode
<1>5. Steady
  BY <1>1 DEF Steady
<1>6. \A i \in Files : B!Locked(i) => B!Locked(i)'
  BY <1>1 DEF B!Locked, B!InInode
<1>7. Turns' /\ Freed' /\ Owned' /\ Kept' /\ B!NoHoles'
  <2> DEFINE Moved == {}
  <2>1. Moved \in SUBSET FsProcs /\ \A q \in Moved : FALSE
    OBVIOUS
  <2> HIDE DEF Moved
  <2> QED BY <1>1, <1>5, <1>6, <2>1, QuietStep
<1> QED BY <1>2, <1>3, <1>4, <1>7 DEF FilesInv

(* A buffer that is recycled, or absorbed into the transaction, is of no   *)
(* indirect block.                                                         *)
LEMMA BufferStep ==
  ASSUME FilesInv, B!Recycle \/ B!Absorb
  PROVE  FilesInv'
<1>1. UNCHANGED <<fip, foff, addrs, size, marked, op, torn, halted>>
  BY DEF B!Recycle, B!Absorb
<1>2. PICK b \in B!DataBlocks :
        /\ cached[b] # stored[b]
        /\ \/ cached' = [cached EXCEPT ![b] = stored[b]] /\ stored' = stored
           \/ stored' = [stored EXCEPT ![b] = cached[b]] /\ cached' = cached
  BY DEF B!Recycle, B!Absorb
<1>3. /\ cached \in [B!DataBlocks -> [0..(BSIZE - 1) -> Nat]]
      /\ stored \in [B!DataBlocks -> [0..(BSIZE - 1) -> Nat]]
  BY DEF FilesInv, FileTypes
<1>4. /\ cached' \in [B!DataBlocks -> [0..(BSIZE - 1) -> Nat]]
      /\ stored' \in [B!DataBlocks -> [0..(BSIZE - 1) -> Nat]]
  BY <1>2, <1>3
<1>5. FileTypes'
  BY <1>1, <1>4 DEF FilesInv, FileTypes, FileCalls, LogEntries, B!Data, B!BitmapBlock, B!DataBlocks
<1>6. Calling' /\ Alone'
  BY <1>1 DEF FilesInv, Calling, Alone, B!InInode
<1>7. Steady
  <2>1. \A i \in Files : Ind(i) # 0 => Ind(i) # b
    BY <1>2 DEF FilesInv, Kept
  <2>2. \A i \in Files : Ind(i) # 0 => Ind(i) \in B!DataBlocks
    <3>1. 0 \in Numbers
      BY FileNumbers DEF Numbers
    <3> QED BY <3>1, NumbersType DEF FilesInv
  <2>3. \A c \in B!DataBlocks : c # b => cached'[c] = cached[c] /\ stored'[c] = stored[c]
    BY <1>2, <1>3
  <2> QED BY <1>1, <2>1, <2>2, <2>3 DEF Steady
<1>8. \A i \in Files : B!Locked(i) => B!Locked(i)'
  BY <1>1 DEF B!Locked, B!InInode
<1>9. Turns' /\ Freed' /\ Owned' /\ Kept' /\ B!NoHoles'
  <2> DEFINE Moved == {}
  <2>1. Moved \in SUBSET FsProcs /\ \A q \in Moved : FALSE
    OBVIOUS
  <2> HIDE DEF Moved
  <2> QED BY <1>1, <1>7, <1>8, <2>1, QuietStep
<1> QED BY <1>5, <1>6, <1>9 DEF FilesInv

(* A crash keeps what has been logged, and meets no inode in between.      *)
LEMMA FilesCrashStep ==
  ASSUME FilesInv, B!Crash
  PROVE  FilesInv'
<1>1. /\ UNCHANGED <<fip, addrs, size, marked, stored, torn>>
      /\ cached' = stored /\ foff' = [f \in Opens |-> 0] /\ op' = [p \in FsProcs |-> B!Idle]
      /\ halted' = "crash" /\ \A p \in FsProcs : ~B!InInode(p)
  BY DEF B!Crash
<1>2. op' \in [FsProcs -> FileCalls] /\ foff' \in [Opens -> Nat]
  BY <1>1, IdleIs
<1>3. FileTypes'
  BY <1>1, <1>2 DEF FilesInv, FileTypes, FileCalls, LogEntries, B!Data, B!BitmapBlock, B!DataBlocks
<1>4. \A p \in FsProcs : op'[p].at = "user"
  BY <1>1, IdleIs
<1>5. Calling' /\ Alone'
  BY <1>4 DEF Calling, Alone, B!InInode
<1>6. Steady
  BY <1>1 DEF FilesInv, Kept, Steady
<1>7. \A q \in FsProcs : op[q].at # "trunc"
  BY <1>1 DEF B!InInode
<1>8. \A i \in Files : ~B!Locked(i)
  BY <1>1 DEF B!Locked
<1>9. Turns' /\ Freed' /\ Owned' /\ Kept' /\ B!NoHoles'
  <2> DEFINE Moved == FsProcs
  <2>1. Moved \in SUBSET FsProcs
    OBVIOUS
  <2>2. /\ \A q \in FsProcs : q \in Moved
        /\ \A q \in Moved : op[q].at # "trunc" /\ op'[q].at = "user"
    BY <1>4, <1>7
  <2> HIDE DEF Moved
  <2> QED BY <1>1, <1>6, <1>8, <2>1, <2>2, QuietStep
<1> QED BY <1>3, <1>5, <1>9 DEF FilesInv

(* A read moves an offset that no writer is using.                         *)
LEMMA FileReadStep ==
  ASSUME FilesInv, NEW p \in FsProcs, B!Read(p)
  PROVE  FilesInv'
<1>1. UNCHANGED <<fip, addrs, size, marked, cached, stored, op, torn, halted>>
  BY DEF B!Read
<1>2. PICK f \in Opens, n \in Sizes :
        /\ ~B!Locked(fip[f])
        /\ foff' = [foff EXCEPT ![f] = IF @ + n > size[fip[f]] THEN size[fip[f]] ELSE @ + n]
        /\ fip[f] # 0
  BY DEF B!Read, B!IsOpen, B!Nil
<1>3. foff' \in [Opens -> Nat] /\ \A g \in Opens : g # f => foff'[g] = foff[g]
  <2>1. foff \in [Opens -> Nat] /\ fip[f] \in Files
    BY <1>2 DEF FilesInv, FileTypes
  <2>2. size[fip[f]] \in Nat
    <3>1. size \in [Files -> 0..(B!MAXFILE * BSIZE)]
      BY DEF FilesInv, FileTypes
    <3>2. B!MAXFILE * BSIZE \in Int
      BY FileNumbers, MultiplesOrdered
    <3> QED BY <2>1, <3>1, <3>2
  <2>3. n \in Nat
    BY FileNumbers
  <2>4. (IF foff[f] + n > size[fip[f]] THEN size[fip[f]] ELSE foff[f] + n) \in Nat
    BY <2>1, <2>2, <2>3
  <2> QED BY <1>2, <2>1, <2>4
<1>4. FileTypes'
  BY <1>1, <1>3 DEF FilesInv, FileTypes, FileCalls, LogEntries, B!Data, B!BitmapBlock, B!DataBlocks
<1>5. Calling' /\ Alone'
  BY <1>1 DEF FilesInv, Calling, Alone, B!InInode
<1>6. Steady
  BY <1>1 DEF Steady
<1>7. \A q \in FsProcs : op[q].at = "turn" => foff'[op[q].f] = foff[op[q].f]
  <2> SUFFICES ASSUME NEW q \in FsProcs, op[q].at = "turn"
               PROVE  foff'[op[q].f] = foff[op[q].f]
    OBVIOUS
  <2>1. op[q].f \in Opens /\ fip[op[q].f] = op[q].ip
    BY DEF FilesInv, Calling
  <2>2. B!Locked(op[q].ip)
    BY DEF B!Locked, B!InInode
  <2> QED BY <1>2, <1>3, <2>1, <2>2
<1>8. \A i \in Files : B!Locked(i) => B!Locked(i)'
  BY <1>1 DEF B!Locked, B!InInode
<1>9. Turns' /\ Freed' /\ Owned' /\ Kept' /\ B!NoHoles'
  <2> DEFINE Moved == {}
  <2>1. Moved \in SUBSET FsProcs /\ \A q \in Moved : FALSE
    OBVIOUS
  <2> HIDE DEF Moved
  <2> QED BY <1>1, <1>6, <1>7, <1>8, <2>1, QuietStep
<1> QED BY <1>4, <1>5, <1>9 DEF FilesInv

(* Itrunc begins.                                                          *)
LEMMA TruncateStep ==
  ASSUME FilesInv, NEW p \in FsProcs, B!Truncate(p)
  PROVE  FilesInv'
<1>1. op[p].at = "user" /\ UNCHANGED <<fip, foff, addrs, size, marked, cached, stored, halted>>
  BY DEF B!Truncate
<1>2. PICK i \in Files :
        /\ ~B!Locked(i) /\ op' = [op EXCEPT ![p] = [B!Idle EXCEPT !.at = "trunc", !.ip = i]]
        /\ torn' = {t \in torn : t[1] # i}
  BY DEF B!Truncate
<1>3. [B!Idle EXCEPT !.at = "trunc", !.ip = i] \in FileCalls
  BY IdleIs DEF FileCalls
<1>4. op \in [FsProcs -> FileCalls]
  BY DEF FilesInv, FileTypes
<1>5. /\ op' \in [FsProcs -> FileCalls] /\ \A q \in FsProcs : q # p => op'[q] = op[q]
      /\ op'[p].at = "trunc" /\ op'[p].ip = i /\ op'[p].k = 0
  <2>1. /\ [B!Idle EXCEPT !.at = "trunc", !.ip = i].at = "trunc"
        /\ [B!Idle EXCEPT !.at = "trunc", !.ip = i].ip = i
        /\ [B!Idle EXCEPT !.at = "trunc", !.ip = i].k = 0
    BY DEF B!Idle, B!Nil
  <2> QED BY <1>2, <1>3, <1>4, <2>1
<1>6. FileTypes'
  BY <1>1, <1>2, <1>5 DEF FilesInv, FileTypes, FileCalls, LogEntries, B!Data, B!BitmapBlock, B!DataBlocks
<1>7. Calling'
  BY <1>1, <1>5 DEF FilesInv, Calling
<1>8. Alone'
  BY <1>2, <1>5 DEF FilesInv, Alone, B!InInode, B!Locked
<1>9. Steady
  BY <1>1 DEF Steady
<1>10. \A j \in Files : B!Locked(j) => B!Locked(j)'
  <2> SUFFICES ASSUME NEW j \in Files, NEW q \in FsProcs, B!InInode(q), op[q].ip = j
               PROVE  B!InInode(q)' /\ op'[q].ip = j
    BY DEF B!Locked
  <2>1. q # p
    BY <1>1 DEF B!InInode
  <2> QED BY <1>5, <2>1 DEF B!InInode
<1>11. Turns' /\ Freed' /\ Owned' /\ Kept' /\ B!NoHoles'
  <2> DEFINE Moved == {p}
  <2>1. Moved \in SUBSET FsProcs /\ \A q \in FsProcs : q \in Moved <=> q = p
    OBVIOUS
  <2> HIDE DEF Moved
  <2> QED BY <1>1, <1>5, <1>9, <1>10, <2>1, QuietStep
<1> QED BY <1>6, <1>7, <1>8, <1>11 DEF FilesInv

(* Blocks in hand add as many as there are.                                *)
LEMMA InHandSize ==
  ASSUME NEW S, IsFiniteSet(S), NEW x, NEW y, NEW T, T = S \cup DataOf(x, y)
  PROVE  /\ IsFiniteSet(T) /\ Cardinality(T) \in Nat
         /\ Cardinality(T) <= Cardinality(S) + Has(x) + Has(y)
<1> DEFINE U == S \cup {B!Data(x)}
           Y == S \cup {B!Data(y)}
           W == U \cup {B!Data(y)}
<1>0. Cardinality(S) \in Nat
  BY FS_CardinalityType
<1>1. /\ x = 0 /\ y = 0 => T = S
      /\ x # 0 /\ y = 0 => T = U
      /\ x = 0 /\ y # 0 => T = Y
      /\ x # 0 /\ y # 0 => T = W
  BY DEF DataOf
<1>2. IsFiniteSet(U) /\ Cardinality(U) \in {Cardinality(S), Cardinality(S) + 1}
  BY FS_AddElement
<1>3. IsFiniteSet(Y) /\ Cardinality(Y) \in {Cardinality(S), Cardinality(S) + 1}
  BY FS_AddElement
<1> HIDE DEF U, Y
<1>4. IsFiniteSet(W) /\ Cardinality(W) \in {Cardinality(U), Cardinality(U) + 1}
  BY <1>2, FS_AddElement
<1> HIDE DEF W
<1>5. Cardinality(U) \in Nat /\ Cardinality(Y) \in Nat /\ Cardinality(W) \in Nat
      /\ Cardinality(W) <= Cardinality(S) + 2
  BY <1>0, <1>2, <1>3, <1>4
<1>6. CASE x = 0 /\ y = 0
  <2>0. IsFiniteSet(T) /\ Cardinality(T) = Cardinality(S)
    BY <1>1, <1>6, Zenon
  <2>1. Has(x) = 0 /\ Has(y) = 0
    BY <1>6 DEF Has
  <2> QED BY <1>0, <2>0, <2>1
<1>7. CASE x # 0 /\ y = 0
  <2>0. IsFiniteSet(T) /\ Cardinality(T) = Cardinality(U)
    BY <1>2, <1>1, <1>7, Zenon
  <2>1. Has(x) = 1 /\ Has(y) = 0
    BY <1>7 DEF Has
  <2> QED BY <1>0, <1>2, <1>5, <2>0, <2>1
<1>8. CASE x = 0 /\ y # 0
  <2>0. IsFiniteSet(T) /\ Cardinality(T) = Cardinality(Y)
    BY <1>3, <1>1, <1>8, Zenon
  <2>1. Has(x) = 0 /\ Has(y) = 1
    BY <1>8 DEF Has
  <2> QED BY <1>0, <1>3, <1>5, <2>0, <2>1
<1>9. CASE x # 0 /\ y # 0
  <2>0. IsFiniteSet(T) /\ Cardinality(T) = Cardinality(W)
    BY <1>4, <1>1, <1>9, Zenon
  <2>1. Has(x) = 1 /\ Has(y) = 1
    BY <1>9 DEF Has
  <2> QED BY <1>0, <1>4, <1>5, <2>0, <2>1
<1> QED BY <1>6, <1>7, <1>8, <1>9

(* A piece begins with what was there.                                     *)
Beginning(p) ==
  /\ op[p].tot = 0 /\ op[p].logged = {} /\ op[p].f \in Opens /\ foff[op[p].f] \in Nat
  /\ foff[op[p].f] % BSIZE # 0 => ItsSlot(p) # 0

(* So what it logs fits.                                                   *)
LEMMA FirstFits == \A p \in FsProcs : Beginning(p) => Fits(p)
<1> SUFFICES ASSUME NEW p \in FsProcs, Beginning(p)
             PROVE  Fits(p)
  OBVIOUS
<1>0. /\ op[p].tot = 0 /\ op[p].logged = {} /\ op[p].f \in Opens /\ foff[op[p].f] \in Nat
      /\ foff[op[p].f] % BSIZE # 0 => ItsSlot(p) # 0
  BY DEF Beginning
<1>1. B!At(p) = foff[op[p].f] /\ B!Bn(p) = foff[op[p].f] \div BSIZE
  BY <1>0 DEF B!At, B!Bn
<1> DEFINE S == op[p].logged \cup {B!InodeBlock}
           x == Ind(op[p].ip)
           y == ItsSlot(p)
           u == foff[op[p].f] % BSIZE
           d == B!Bn(p) - (foff[op[p].f] \div BSIZE)
<1>2. IsFiniteSet(S) /\ Cardinality(S) = 1
  <2>1. S = {B!InodeBlock}
    BY <1>0
  <2> HIDE DEF S
  <2> QED BY <2>1, FS_Singleton
<1>3. Touched(p) = S \cup DataOf(x, y)
  BY DEF Touched
<1>4. d = 0
  <2> DEFINE n == foff[op[p].f] \div BSIZE
  <2>1. n \in Nat /\ B!Bn(p) = n
    BY <1>0, <1>1, FileNumbers, Division
  <2> HIDE DEF n
  <2>2. B!Bn(p) - n = 0
    BY <2>1
  <2> QED BY <2>2 DEF n
<1>5. Allowance(p) = 1 + 2 * d + 2 * Has(y) + 2 * Has(x) - Has(u)
  BY DEF Allowance
<1>6. u # 0 => y # 0
  BY <1>0
<1> HIDE DEF S, x, y, u, d
<1>7. Cardinality(Touched(p)) \in Nat /\ Cardinality(Touched(p)) <= 1 + Has(x) + Has(y)
  <2>1. /\ Cardinality(Touched(p)) \in Nat
        /\ Cardinality(Touched(p)) <= Cardinality(S) + Has(x) + Has(y)
    BY <1>2, <1>3, InHandSize
  <2> QED BY <1>2, <2>1
<1>8. Cardinality(Touched(p)) <= Allowance(p)
  BY <1>4, <1>5, <1>6, <1>7 DEF Has
<1> QED BY <1>0, <1>8, FS_EmptySet DEF Fits

(* The same after a step.                                                  *)
LEMMA FirstFitsNext == (\A p \in FsProcs : Beginning(p) => Fits(p))'
BY FirstFits, PTL

(* A piece of a write begins, or is refused.                               *)
LEMMA PiecewiseStep ==
  ASSUME FilesInv, NEW p \in FsProcs, NEW o \in FileCalls, op[p].at \in {"user", "piece"},
         o.f \in Opens, o.ip \in Files, o.ip # 0, fip[o.f] = o.ip, o.n \in Sizes, o.i < o.n,
         o.tot = 0, o.logged = {},
         B!Piecewise(p, o)
  PROVE  FilesInv'
<1>1. /\ ~B!Locked(o.ip)
      /\ op' = [op EXCEPT ![p] =
              IF foff[o.f] > size[o.ip] \/ foff[o.f] + B!Piece(o) > B!MAXFILE * BSIZE THEN B!Idle
              ELSE [o EXCEPT !.at = "turn"]]
      /\ UNCHANGED <<fip, foff, addrs, size, marked, cached, stored, torn, halted>>
  BY DEF B!Piecewise
<1>2. op \in [FsProcs -> FileCalls] /\ foff \in [Opens -> Nat]
  BY DEF FilesInv, FileTypes
<1> DEFINE t == [o EXCEPT !.at = "turn"]
<1>3. /\ t \in FileCalls /\ t.at = "turn" /\ t.f = o.f /\ t.ip = o.ip /\ t.n = o.n /\ t.i = o.i
      /\ t.tot = o.tot /\ t.logged = o.logged
  BY DEF FileCalls
<1>4. \A q \in FsProcs : q # p => op'[q] = op[q]
  BY <1>1, <1>2
<1> HIDE DEF t
<1>5. op'[p] = B!Idle \/ (op'[p] = t /\ ~(foff[o.f] > size[o.ip]) /\ ~(foff[o.f] + B!Piece(o) > B!MAXFILE * BSIZE))
  BY <1>1, <1>2 DEF t
<1>6. op' \in [FsProcs -> FileCalls]
  BY <1>1, <1>2, <1>3, IdleIs DEF t
<1>7. FileTypes'
  BY <1>1, <1>6 DEF FilesInv, FileTypes, FileCalls, LogEntries, B!Data, B!BitmapBlock, B!DataBlocks
<1>8. Calling'
  <2> SUFFICES ASSUME NEW q \in FsProcs
               PROVE  /\ op'[q].at # "user" => op'[q].ip \in Files
                      /\ op'[q].at \in {"piece", "turn"} =>
                           /\ op'[q].f \in Opens /\ fip'[op'[q].f] = op'[q].ip /\ op'[q].ip # 0
                           /\ op'[q].n \in Sizes /\ op'[q].i < op'[q].n
                      /\ op'[q].at = "piece" => op'[q].tot = 0 /\ op'[q].logged = {}
    BY DEF Calling
  <2>1. CASE q # p
    BY <1>1, <1>4, <2>1 DEF FilesInv, Calling
  <2>2. CASE q = p
    BY <1>1, <1>3, <1>5, <2>2, IdleIs
  <2> QED BY <2>1, <2>2
<1>9. Alone'
  BY <1>1, <1>3, <1>4, <1>5, IdleIs DEF FilesInv, Alone, B!InInode, B!Locked
<1>10. Steady
  BY <1>1 DEF Steady
<1>11. \A j \in Files : B!Locked(j) => B!Locked(j)'
  <2> SUFFICES ASSUME NEW j \in Files, NEW q \in FsProcs, B!InInode(q), op[q].ip = j
               PROVE  B!InInode(q)' /\ op'[q].ip = j
    BY DEF B!Locked
  <2>1. q # p
    BY DEF B!InInode
  <2> QED BY <1>4, <2>1 DEF B!InInode
<1>12. ASSUME op'[p] = t, ~(foff[o.f] > size[o.ip]), ~(foff[o.f] + B!Piece(o) > B!MAXFILE * BSIZE)
       PROVE  InBounds(p)' /\ Backed(p)' /\ Fits(p)'
  <2>1. /\ foff[o.f] \in Nat /\ size[o.ip] \in Nat /\ B!MAXFILE * BSIZE \in Nat
        /\ size[o.ip] <= B!MAXFILE * BSIZE
    <3>1. B!MAXFILE * BSIZE \in Int
      BY FileNumbers, MultiplesOrdered
    <3>2. size \in [Files -> 0..(B!MAXFILE * BSIZE)]
      BY DEF FilesInv, FileTypes
    <3> QED BY <1>2, <3>1, <3>2
  <2>2. B!Piece(o) \in Nat /\ B!Piece(o) >= 1 /\ B!Piece(op'[p]) = B!Piece(o)
    BY <1>3, <1>12, PieceIs DEF B!Piece
  <2>3. B!At(p)' = foff[o.f]
    BY <1>1, <1>3, <1>12, <2>1 DEF B!At
  <2>4. InBounds(p)'
    BY <1>1, <1>3, <1>12, <2>1, <2>2 DEF InBounds
  <2>5. \A k \in 0..(B!MAXFILE - 1) : k * BSIZE < size[o.ip] => B!Slot(o.ip, k) # 0
    BY <1>1 DEF FilesInv, B!NoHoles, B!Nil
  <2>6. \A k \in 0..(B!MAXFILE - 1) : B!Slot(op[p].ip, k)' = B!Slot(o.ip, k)
    BY <1>1, <1>3, <1>12 DEF B!Slot
  <2>7. Backed(p)'
    <3> SUFFICES ASSUME NEW k \in 0..(B!MAXFILE - 1), k * BSIZE < size'[op'[p].ip] \/ k * BSIZE < B!At(p)'
                 PROVE  B!Slot(op[p].ip, k)' # 0
      BY DEF Backed
    <3>1. k * BSIZE \in Int
      BY FileNumbers, MultiplesOrdered
    <3>2. k * BSIZE < size[o.ip]
      BY <1>1, <1>3, <1>12, <2>1, <2>3, <3>1
    <3> QED BY <2>5, <2>6, <3>2
  <2>8. (B!Bn(p) \in 0..(B!MAXFILE - 1))'
    <3> DEFINE x == foff[o.f]
    <3>1. x \in Nat /\ x < B!MAXFILE * BSIZE /\ BSIZE \in Nat /\ BSIZE > 0 /\ B!MAXFILE \in Int
      BY <1>12, <2>1, <2>2, FileNumbers
    <3> HIDE DEF x
    <3>2. x \div BSIZE \in Nat /\ x \div BSIZE < B!MAXFILE
      BY <3>1, Division, BlockBefore
    <3> QED BY <2>3, <3>1, <3>2 DEF B!Bn, x
  <2>9. (foff[op[p].f] % BSIZE # 0 => ItsSlot(p) # 0)'
    <3> SUFFICES ASSUME foff[o.f] % BSIZE # 0
                 PROVE  ItsSlot(p)' # 0
      BY <1>1, <1>3, <1>12
    <3> DEFINE x == foff[o.f]
               n == x \div BSIZE
    <3>1. x \in Nat /\ BSIZE \in Nat /\ BSIZE > 0 /\ x % BSIZE # 0
      BY <2>1, FileNumbers
    <3> HIDE DEF x
    <3>2. n * BSIZE < x /\ n * BSIZE \in Int
      <4>1. n \in Nat /\ x % BSIZE \in 0..(BSIZE - 1) /\ x = n * BSIZE + (x % BSIZE)
        BY <3>1, Division
      <4> HIDE DEF n
      <4>2. n * BSIZE \in Int
        BY <3>1, <4>1, MultiplesOrdered
      <4> QED BY <3>1, <4>1, <4>2
    <3>3. n = B!Bn(p)' /\ n \in 0..(B!MAXFILE - 1)
      BY <2>3, <2>8 DEF B!Bn, x
    <3>7. PICK k \in 0..(B!MAXFILE - 1) : k = n
      BY <3>3
    <3> HIDE DEF n
    <3>4. n * BSIZE < size[o.ip]
      BY <1>12, <2>1, <3>2 DEF x
    <3>5. B!Slot(op[p].ip, k)' # 0
      BY <2>5, <2>6, <3>4, <3>7
    <3>6. ItsSlot(p)' = B!Slot(op[p].ip, k)'
      BY <3>3, <3>7 DEF ItsSlot, B!Slot
    <3> QED BY <3>5, <3>6
  <2>10. Beginning(p)'
    <3>1. op'[p].tot = 0 /\ op'[p].logged = {} /\ op'[p].f \in Opens /\ foff'[op'[p].f] \in Nat
      BY <1>1, <1>3, <1>12, <2>1
    <3> QED BY <2>9, <3>1 DEF Beginning
  <2>12. (Beginning(p) => Fits(p))'
    BY FirstFitsNext
  <2>13. Fits(p)'
    BY <2>10, <2>12
  <2> QED BY <2>4, <2>7, <2>13
<1>13. Turns' /\ Freed' /\ Owned' /\ Kept' /\ B!NoHoles'
  <2> DEFINE Moved == {p}
  <2>1. Moved \in SUBSET FsProcs /\ \A q \in FsProcs : q \in Moved <=> q = p
    OBVIOUS
  <2>2. op[p].at # "trunc" /\ op'[p].at # "trunc" /\ (op'[p].at = "turn" => InBounds(p)' /\ Backed(p)' /\ Fits(p)')
    BY <1>3, <1>5, <1>12, IdleIs
  <2> HIDE DEF Moved
  <2> QED BY <1>1, <1>4, <1>10, <1>11, <2>1, <2>2, QuietStep
<1> QED BY <1>7, <1>8, <1>9, <1>13 DEF FilesInv

(* A call of filewrite, and its next piece.                                *)
LEMMA FileWriteStep ==
  ASSUME FilesInv, NEW p \in FsProcs, B!Write(p) \/ B!WriteOn(p)
  PROVE  FilesInv'
<1>1. CASE B!Write(p)
  <2>1. PICK f \in Opens, n \in Sizes :
          /\ fip[f] # 0 /\ B!Piecewise(p, [B!Idle EXCEPT !.f = f, !.ip = fip[f], !.n = n])
    BY <1>1 DEF B!Write, B!IsOpen, B!Nil
  <2> DEFINE o == [B!Idle EXCEPT !.f = f, !.ip = fip[f], !.n = n]
  <2>2. fip[f] \in Files /\ n \in Nat /\ 0 < n
    <3>1. fip \in [Opens -> Files \cup {0}]
      BY DEF FilesInv, FileTypes
    <3>2. n \in 1..4
      BY FileNumbers
    <3> QED BY <2>1, <3>1, <3>2
  <2>3. /\ o.f = f /\ o.ip = fip[f] /\ o.n = n /\ o.i = 0 /\ o.tot = 0 /\ o.logged = {}
        /\ o \in FileCalls
    BY <2>2, IdleIs DEF FileCalls
  <2>4. op[p].at = "user" /\ B!Piecewise(p, o)
    BY <1>1, <2>1 DEF B!Write
  <2> HIDE DEF o
  <2> QED BY <2>1, <2>2, <2>3, <2>4, PiecewiseStep
<1>2. CASE B!WriteOn(p)
  <2>1. op[p].at = "piece" /\ B!Piecewise(p, op[p]) /\ op[p] \in FileCalls
    BY <1>2 DEF B!WriteOn, FilesInv, FileTypes
  <2> QED BY <2>1, PiecewiseStep DEF FilesInv, Calling
<1> QED BY <1>1, <1>2
-----------------------------------------------------------------------------
(* A set of numbers has a least one.                                       *)
LEMMA LeastNumber ==
  ASSUME NEW S \in SUBSET Nat, S # {}
  PROVE  \E x \in S : \A y \in S : x <= y
<1>1. \E x \in S : \A y \in S : ~(<<y, x>> \in OpToRel(<, Nat))
  BY NatLessThanWellFounded, WFMin
<1>2. \E x \in S : \A y \in S : ~(y < x)
  BY <1>1 DEF OpToRel
<1> QED BY <1>2

(* Two or three things.                                                    *)
LEMMA FewFinite ==
  ASSUME NEW x, NEW y, NEW z
  PROVE  IsFiniteSet({x, y}) /\ IsFiniteSet({x, y, z})
<1>1. IsFiniteSet({x}) /\ {x, y} = {x} \cup {y}
  BY FS_Singleton
<1>2. IsFiniteSet({x} \cup {y})
  BY <1>1, FS_AddElement
<1>3. IsFiniteSet({x, y}) /\ {x, y, z} = {x, y} \cup {z}
  BY <1>1, <1>2
<1>4. IsFiniteSet({x, y} \cup {z})
  BY <1>3, FS_AddElement
<1> QED BY <1>3, <1>4

(* The block that balloc takes.                                            *)
NextBlock == CHOOSE x \in B!DataBlocks \ marked : \A y \in B!DataBlocks \ marked : x <= y

(* It is a free block, and its number says so.                             *)
LEMMA NextBlockIs ==
  ASSUME marked \subseteq B!DataBlocks, marked # B!DataBlocks
  PROVE  NextBlock \in B!DataBlocks /\ NextBlock \notin marked /\ NextBlock # 0 /\ NextBlock \in Nat
<1>0. B!DataBlocks \subseteq Nat
  BY FileNumbers DEF B!DataBlocks
<1>1. B!DataBlocks \ marked \in SUBSET Nat /\ B!DataBlocks \ marked # {}
  BY <1>0
<1>2. \E x \in B!DataBlocks \ marked : \A y \in B!DataBlocks \ marked : x <= y
  BY <1>1, LeastNumber
<1>3. NextBlock \in B!DataBlocks \ marked
  BY <1>2 DEF NextBlock
<1> QED BY <1>3, FileNumbers DEF B!DataBlocks

(* Where bmap enters it: as a block of the file, among the indirect        *)
(* numbers, or as the block with these.                                    *)
Entered(p) ==
  IF B!Bn(p) < NDIRECT \/ Ind(op[p].ip) # 0 THEN B!Bn(p) ELSE B!MAXFILE

(* Indirect blocks are marked, and each is one file's.                     *)
LEMMA IndirectOwned ==
  ASSUME FilesInv, NEW i \in Files, Ind(i) # 0
  PROVE  /\ Ind(i) \in marked /\ Ind(i) \in B!DataBlocks
         /\ \A j \in Files : Ind(j) = Ind(i) => j = i
<1>1. B!MAXFILE \in Numbers
  BY FileNumbers DEF Numbers
<1>2. \A j \in Files : B!ToFree(j, B!MAXFILE) = Ind(j)
  BY <1>1, NumbersType DEF FilesInv
<1>3. \A j \in Files : Ind(j) # 0 => Good(j, B!MAXFILE)
  BY IndirectGood DEF FilesInv
<1>4. Ind(i) \in marked
  BY <1>1, <1>2, <1>3 DEF FilesInv, Owned
<1>5. marked \subseteq B!DataBlocks
  BY DEF FilesInv, FileTypes
<1>6. \A j \in Files : Ind(j) = Ind(i) => j = i
  <2> SUFFICES ASSUME NEW j \in Files, Ind(j) = Ind(i)
               PROVE  j = i
    OBVIOUS
  <2> QED BY <1>1, <1>2, <1>3 DEF FilesInv, Owned
<1> QED BY <1>4, <1>5, <1>6

(* What balloc and bmap do.                                                *)
LEMMA AllocIs ==
  ASSUME FilesInv, NEW p \in FsProcs, B!Missing(p), marked # B!DataBlocks, B!Alloc(p, B!Zeroes)
  PROVE  LET i == op[p].ip
             n == B!Bn(p)
             b == NextBlock
         IN
         /\ UNCHANGED <<fip, foff, size, torn, halted>> /\ marked' = marked \cup {b}
         /\ addrs' \in [Files -> [0..NDIRECT -> B!DataBlocks \cup {0}]]
         /\ cached' \in [B!DataBlocks -> [0..(BSIZE - 1) -> Nat]]
         /\ stored' \in [B!DataBlocks -> [0..(BSIZE - 1) -> Nat]]
         /\ \A j \in Files : j # i => addrs'[j] = addrs[j]
         /\ \A c \in B!DataBlocks : c # b /\ c # Ind(i) => cached'[c] = cached[c] /\ stored'[c] = stored[c]
         /\ \E L \in SUBSET LogEntries :
              /\ L \subseteq {B!BitmapBlock(b), B!Data(b)} \cup DataOf(Ind(i), 0)
              /\ IsFiniteSet(L)
              /\ op' = [op EXCEPT ![p].logged = @ \cup L]
<1> DEFINE i == op[p].ip
           n == B!Bn(p)
           b == NextBlock
<1>1. op[p].at = "turn" /\ B!Slot(i, n) = 0
  BY DEF B!Missing, B!Nil
<1>2. i \in Files /\ n \in Nat /\ n < B!MAXFILE /\ op[p] \in FileCalls
  BY <1>1, TurnIs DEF FilesInv
<1>3. b \in B!DataBlocks /\ b \notin marked /\ b # 0 /\ b \in Nat
  BY NextBlockIs DEF FilesInv, FileTypes
<1>4. /\ addrs \in [Files -> [0..NDIRECT -> B!DataBlocks \cup {0}]]
      /\ cached \in [B!DataBlocks -> [0..(BSIZE - 1) -> Nat]]
      /\ stored \in [B!DataBlocks -> [0..(BSIZE - 1) -> Nat]]
      /\ op \in [FsProcs -> FileCalls]
  BY DEF FilesInv, FileTypes
<1>5. Ind(i) # 0 => Ind(i) \in B!DataBlocks /\ Ind(i) # b
  BY <1>2, <1>3, IndirectOwned
<1>6. UNCHANGED <<fip, foff, size, torn, halted>> /\ marked' = marked \cup {b}
  BY DEF B!Alloc, NextBlock
<1> DEFINE taken == [cached EXCEPT ![b] = B!Zeroes]
<1>7. taken \in [B!DataBlocks -> [0..(BSIZE - 1) -> Nat]]
  BY <1>3, <1>4, FileNumbers
<1>8. CASE n >= NDIRECT /\ Ind(i) # 0
  <2> DEFINE L == {B!BitmapBlock(b), B!Data(b), B!Data(Ind(i))}
  <2>1. /\ cached' = [taken EXCEPT ![Ind(i)][n - NDIRECT] = b]
        /\ stored' = [stored EXCEPT ![b] = B!Zeroes, ![Ind(i)] = cached'[Ind(i)]]
        /\ op' = [op EXCEPT ![p].logged = @ \cup L]
        /\ addrs' = addrs
    BY <1>8 DEF B!Alloc, B!Nil, Ind, NextBlock
  <2>2. n - NDIRECT \in 0..(BSIZE - 1)
    BY <1>2, <1>8, FileNumbers
  <2> HIDE DEF taken
  <2>3. cached' \in [B!DataBlocks -> [0..(BSIZE - 1) -> Nat]]
    BY <1>3, <1>5, <1>7, <1>8, <2>1, <2>2
  <2>4. stored' \in [B!DataBlocks -> [0..(BSIZE - 1) -> Nat]]
    BY <1>3, <1>4, <1>5, <1>8, <2>1, <2>3, FileNumbers
  <2>5. \A c \in B!DataBlocks : c # b /\ c # Ind(i) => cached'[c] = cached[c] /\ stored'[c] = stored[c]
    <3>1. \A c \in B!DataBlocks : c # b => taken[c] = cached[c]
      BY <1>4 DEF taken
    <3> QED BY <1>4, <1>7, <2>1, <3>1
  <2>6. L \in SUBSET LogEntries /\ L \subseteq {B!BitmapBlock(b), B!Data(b)} \cup DataOf(Ind(i), 0)
    BY <1>3, <1>5, <1>8 DEF LogEntries, DataOf
  <2>7. IsFiniteSet(L)
    BY FewFinite
  <2> HIDE DEF L
  <2> QED BY <1>4, <1>6, <2>1, <2>3, <2>4, <2>5, <2>6, <2>7
<1>9. CASE ~(n >= NDIRECT /\ Ind(i) # 0)
  <2> DEFINE L == {B!BitmapBlock(b), B!Data(b)}
             k == IF n < NDIRECT THEN n ELSE NDIRECT
  <2>1. /\ cached' = taken
        /\ stored' = [stored EXCEPT ![b] = B!Zeroes]
        /\ op' = [op EXCEPT ![p].logged = @ \cup L]
        /\ addrs' = [addrs EXCEPT ![i][k] = b]
    BY <1>9 DEF B!Alloc, B!Nil, Ind, NextBlock
  <2>2. k \in 0..NDIRECT
    BY <1>2, FileNumbers
  <2>3. stored' \in [B!DataBlocks -> [0..(BSIZE - 1) -> Nat]]
    BY <1>3, <1>4, <2>1, FileNumbers
  <2>4. \A c \in B!DataBlocks : c # b => cached'[c] = cached[c] /\ stored'[c] = stored[c]
    BY <1>4, <2>1
  <2> HIDE DEF k, taken
  <2>5. addrs' \in [Files -> [0..NDIRECT -> B!DataBlocks \cup {0}]] /\ \A j \in Files : j # i => addrs'[j] = addrs[j]
    BY <1>2, <1>3, <1>4, <2>1, <2>2
  <2>6. L \in SUBSET LogEntries /\ L \subseteq {B!BitmapBlock(b), B!Data(b)} \cup DataOf(Ind(i), 0)
    BY <1>3 DEF LogEntries
  <2>7. IsFiniteSet(L)
    BY FewFinite
  <2> HIDE DEF L
  <2> QED BY <1>6, <1>7, <2>1, <2>3, <2>4, <2>5, <2>6, <2>7
<1> QED BY <1>8, <1>9

(* The new number is the only one that changes.                            *)
LEMMA AllocNumbers ==
  ASSUME FilesInv, NEW p \in FsProcs, B!Missing(p), marked # B!DataBlocks, B!Alloc(p, B!Zeroes)
  PROVE  /\ Entered(p) \in Numbers /\ B!ToFree(op[p].ip, Entered(p)) = 0
         /\ \A j \in Files, k \in Numbers :
              /\ k < B!MAXFILE =>
                   B!Slot(j, k)' = IF j = op[p].ip /\ k = Entered(p) THEN NextBlock ELSE B!Slot(j, k)
              /\ Ind(j)' = IF j = op[p].ip /\ B!MAXFILE = Entered(p) THEN NextBlock ELSE Ind(j)
         /\ Kept'
<1>1. op[p].at = "turn" /\ B!Slot(op[p].ip, B!Bn(p)) = 0
  BY DEF B!Missing, B!Nil
<1>0. op[p].ip \in Files
  BY <1>1, TurnIs DEF FilesInv
<1>20. PICK i \in Files : i = op[p].ip
  BY <1>0
<1> DEFINE n == B!Bn(p)
           b == NextBlock
<1>2. i \in Files /\ n \in Nat /\ n < B!MAXFILE /\ n \in Numbers
  BY <1>1, TurnIs DEF FilesInv
<1>3. b \in B!DataBlocks /\ b \notin marked /\ b # 0 /\ b \in Nat
  BY NextBlockIs DEF FilesInv, FileTypes
<1>4. /\ addrs \in [Files -> [0..NDIRECT -> B!DataBlocks \cup {0}]]
      /\ cached \in [B!DataBlocks -> [0..(BSIZE - 1) -> Nat]]
      /\ stored \in [B!DataBlocks -> [0..(BSIZE - 1) -> Nat]]
  BY DEF FilesInv, FileTypes
<1>5. \A j \in Files : Ind(j) # 0 => Ind(j) \in B!DataBlocks /\ Ind(j) # b /\ (j # i => Ind(j) # Ind(i))
  BY <1>2, <1>3, IndirectOwned
<1>6. \A j \in Files : Ind(j) # 0 =>
        /\ cached[Ind(j)] = stored[Ind(j)]
        /\ \A c \in 0..(BSIZE - 1) : cached[Ind(j)][c] \in B!DataBlocks \cup {0}
  BY DEF FilesInv, Kept
<1>7. /\ \A j \in Files : j # i => addrs'[j] = addrs[j]
      /\ \A c \in B!DataBlocks : c # b /\ c # Ind(i) => cached'[c] = cached[c] /\ stored'[c] = stored[c]
  BY <1>20, AllocIs
<1>8. NDIRECT \in Nat /\ NDIRECT > 0 /\ BSIZE \in Nat /\ BSIZE > 0 /\ B!MAXFILE = NDIRECT + BSIZE
  BY FileNumbers
<1>9. B!MAXFILE \in Numbers /\ B!ToFree(i, n) = 0 /\ B!ToFree(i, B!MAXFILE) = Ind(i)
  BY <1>1, <1>2, <1>8, <1>20, NumbersType DEF FilesInv, Numbers
<1>10. Entered(p) = IF n < NDIRECT \/ Ind(i) # 0 THEN n ELSE B!MAXFILE
  BY <1>20 DEF Entered
<1>11. ASSUME NEW j \in Files, j # i
       PROVE  /\ Ind(j)' = Ind(j) /\ \A k \in Numbers : B!Slot(j, k)' = B!Slot(j, k)
              /\ Ind(j) # 0 => cached'[Ind(j)] = cached[Ind(j)] /\ stored'[Ind(j)] = stored[Ind(j)]
  <2>1. addrs'[j] = addrs[j]
    BY <1>7, <1>11
  <2>2. Ind(j) # 0 => cached'[Ind(j)] = cached[Ind(j)] /\ stored'[Ind(j)] = stored[Ind(j)]
    BY <1>5, <1>7, <1>11
  <2> QED BY <2>1, <2>2 DEF Ind, B!Slot, B!Nil
<1> DEFINE taken == [cached EXCEPT ![b] = B!Zeroes]
<1>12. taken[b] = B!Zeroes /\ taken \in [B!DataBlocks -> [0..(BSIZE - 1) -> Nat]]
       /\ \A c \in B!DataBlocks : c # b => taken[c] = cached[c]
  BY <1>3, <1>4, FileNumbers
<1>13. ASSUME n >= NDIRECT, Ind(i) # 0
       PROVE  /\ Ind(i)' = Ind(i)
              /\ \A k \in Numbers : k < B!MAXFILE => B!Slot(i, k)' = IF k = n THEN b ELSE B!Slot(i, k)
              /\ cached'[Ind(i)] = stored'[Ind(i)]
              /\ \A c \in 0..(BSIZE - 1) : cached'[Ind(i)][c] \in B!DataBlocks \cup {0}
  <2>1. /\ cached' = [taken EXCEPT ![Ind(i)][n - NDIRECT] = b]
        /\ stored' = [stored EXCEPT ![b] = B!Zeroes, ![Ind(i)] = cached'[Ind(i)]]
        /\ addrs' = addrs
    BY <1>13, <1>20 DEF B!Alloc, B!Nil, Ind, NextBlock
  <2>2. n - NDIRECT \in 0..(BSIZE - 1)
    BY <1>2, <1>8, <1>13
  <2>3. Ind(i) \in B!DataBlocks /\ Ind(i) # b
    BY <1>2, <1>5, <1>13
  <2> HIDE DEF taken
  <2>4. cached'[Ind(i)] = [cached[Ind(i)] EXCEPT ![n - NDIRECT] = b]
    BY <1>12, <2>1, <2>3
  <2>5. stored'[Ind(i)] = cached'[Ind(i)]
    BY <1>4, <2>1, <2>3
  <2>6. Ind(i)' = Ind(i)
    BY <2>1 DEF Ind
  <2>7. cached[Ind(i)] \in [0..(BSIZE - 1) -> Nat]
    BY <1>4, <2>3
  <2>8. \A c \in 0..(BSIZE - 1) : cached'[Ind(i)][c] = IF c = n - NDIRECT THEN b ELSE cached[Ind(i)][c]
    BY <2>2, <2>4, <2>7
  <2>9. ASSUME NEW k \in Numbers, k < B!MAXFILE
        PROVE  B!Slot(i, k)' = IF k = n THEN b ELSE B!Slot(i, k)
    <3>1. CASE k < NDIRECT
      <4>1. k # n
        BY <1>2, <1>8, <1>13, <3>1 DEF Numbers
      <4> QED BY <2>1, <3>1, <4>1 DEF B!Slot
    <3>2. CASE ~(k < NDIRECT)
      <4>1. k - NDIRECT \in 0..(BSIZE - 1) /\ (k - NDIRECT = n - NDIRECT <=> k = n)
        BY <1>2, <1>8, <2>9, <3>2 DEF Numbers
      <4>2. B!Slot(i, k)' = cached'[Ind(i)][k - NDIRECT] /\ B!Slot(i, k) = cached[Ind(i)][k - NDIRECT]
        BY <1>13, <2>6, <3>2 DEF B!Slot, Ind, B!Nil
      <4> QED BY <2>8, <4>1, <4>2
    <3> QED BY <3>1, <3>2
  <2>10. \A c \in 0..(BSIZE - 1) : cached'[Ind(i)][c] \in B!DataBlocks \cup {0}
    BY <1>2, <1>3, <1>6, <1>13, <2>8
  <2> QED BY <2>5, <2>6, <2>9, <2>10
<1>14. ASSUME ~(n >= NDIRECT /\ Ind(i) # 0)
       PROVE  /\ cached' = taken /\ stored'[b] = B!Zeroes
              /\ \A c \in B!DataBlocks : c # b => stored'[c] = stored[c]
              /\ addrs' = [addrs EXCEPT ![i][IF n < NDIRECT THEN n ELSE NDIRECT] = b]
  <2>1. /\ cached' = taken
        /\ stored' = [stored EXCEPT ![b] = B!Zeroes]
        /\ addrs' = [addrs EXCEPT ![i][IF n < NDIRECT THEN n ELSE NDIRECT] = b]
    BY <1>14, <1>20 DEF B!Alloc, B!Nil, Ind, NextBlock
  <2> HIDE DEF b, n, taken
  <2> QED BY <1>3, <1>4, <2>1
<1>15. ASSUME n < NDIRECT
       PROVE  /\ Ind(i)' = Ind(i)
              /\ \A k \in Numbers : k < B!MAXFILE => B!Slot(i, k)' = IF k = n THEN b ELSE B!Slot(i, k)
              /\ Ind(i) # 0 => cached'[Ind(i)] = cached[Ind(i)] /\ stored'[Ind(i)] = stored[Ind(i)]
  <2>1. n \in 0..NDIRECT /\ n # NDIRECT /\ ~(n >= NDIRECT /\ Ind(i) # 0)
    BY <1>2, <1>8, <1>15
  <2>2. addrs' = [addrs EXCEPT ![i][n] = b] /\ cached' = taken
        /\ \A c \in B!DataBlocks : c # b => stored'[c] = stored[c]
    BY <1>14, <1>15, <2>1
  <2>3. /\ addrs'[i][n] = b /\ \A k \in 0..NDIRECT : k # n => addrs'[i][k] = addrs[i][k]
    BY <1>2, <1>4, <2>1, <2>2
  <2>4. Ind(i)' = Ind(i)
    BY <1>8, <2>1, <2>3 DEF Ind
  <2>5. Ind(i) # 0 => cached'[Ind(i)] = cached[Ind(i)] /\ stored'[Ind(i)] = stored[Ind(i)]
    BY <1>2, <1>5, <1>12, <2>2
  <2>6. ASSUME NEW k \in Numbers, k < B!MAXFILE
        PROVE  B!Slot(i, k)' = IF k = n THEN b ELSE B!Slot(i, k)
    <3>1. CASE k < NDIRECT
      <4>1. k \in 0..NDIRECT
        BY <1>8, <3>1 DEF Numbers
      <4> QED BY <2>3, <3>1, <4>1 DEF B!Slot
    <3>2. CASE ~(k < NDIRECT)
      <4>1. k # n
        BY <1>15, <3>2
      <4> QED BY <2>4, <2>5, <3>2, <4>1 DEF B!Slot, Ind, B!Nil
    <3> QED BY <3>1, <3>2
  <2> QED BY <2>4, <2>5, <2>6
<1>16. ASSUME n >= NDIRECT, Ind(i) = 0
       PROVE  /\ Ind(i)' = b /\ cached'[b] = B!Zeroes /\ stored'[b] = B!Zeroes
              /\ \A k \in Numbers : k < B!MAXFILE => B!Slot(i, k)' = B!Slot(i, k)
  <2>1. /\ addrs' = [addrs EXCEPT ![i][NDIRECT] = b] /\ cached' = taken /\ stored'[b] = B!Zeroes
    BY <1>2, <1>8, <1>14, <1>16
  <2>2. /\ addrs'[i][NDIRECT] = b /\ \A k \in 0..NDIRECT : k # NDIRECT => addrs'[i][k] = addrs[i][k]
    BY <1>2, <1>4, <1>8, <2>1
  <2>3. Ind(i)' = b /\ cached'[b] = B!Zeroes
    BY <1>12, <2>1, <2>2 DEF Ind
  <2>4. ASSUME NEW k \in Numbers, k < B!MAXFILE
        PROVE  B!Slot(i, k)' = B!Slot(i, k)
    <3>1. CASE k < NDIRECT
      <4>1. k \in 0..NDIRECT /\ k # NDIRECT
        BY <1>8, <3>1 DEF Numbers
      <4> QED BY <2>2, <3>1, <4>1 DEF B!Slot
    <3>2. CASE ~(k < NDIRECT)
      <4>1. k - NDIRECT \in 0..(BSIZE - 1)
        BY <1>8, <2>4, <3>2 DEF Numbers
      <4>2. B!Slot(i, k)' = 0
        BY <1>3, <2>3, <3>2, <4>1 DEF B!Slot, Ind, B!Nil, B!Zeroes
      <4>3. B!Slot(i, k) = 0
        BY <1>16, <3>2 DEF B!Slot, Ind, B!Nil
      <4> QED BY <4>2, <4>3
    <3> QED BY <3>1, <3>2
  <2> QED BY <2>1, <2>3, <2>4
<1>17. Entered(p) \in Numbers /\ B!ToFree(i, Entered(p)) = 0
  BY <1>2, <1>9, <1>10
<1>18. ASSUME NEW j \in Files, NEW k \in Numbers
       PROVE  /\ k < B!MAXFILE => B!Slot(j, k)' = IF j = i /\ k = Entered(p) THEN b ELSE B!Slot(j, k)
              /\ Ind(j)' = IF j = i /\ B!MAXFILE = Entered(p) THEN b ELSE Ind(j)
  <2>1. CASE j # i
    BY <1>11, <2>1
  <2>2. CASE j = i /\ n < NDIRECT
    BY <1>2, <1>8, <1>10, <1>15, <2>2
  <2>3. CASE j = i /\ n >= NDIRECT /\ Ind(i) # 0
    BY <1>2, <1>8, <1>10, <1>13, <2>3
  <2>4. CASE j = i /\ n >= NDIRECT /\ Ind(i) = 0
    BY <1>2, <1>8, <1>10, <1>16, <2>4
  <2> QED BY <1>2, <1>8, <2>1, <2>2, <2>3, <2>4
<1>19. Kept'
  <2> SUFFICES ASSUME NEW j \in Files, Ind(j)' # 0
               PROVE  /\ cached'[Ind(j)'] = stored'[Ind(j)']
                      /\ \A c \in 0..(BSIZE - 1) : cached'[Ind(j)'][c] \in B!DataBlocks \cup {0}
    BY DEF Kept, B!DataBlocks
  <2>1. CASE j # i
    BY <1>6, <1>11, <2>1
  <2>2. CASE j = i /\ n < NDIRECT
    BY <1>6, <1>15, <2>2
  <2>3. CASE j = i /\ n >= NDIRECT /\ Ind(i) # 0
    BY <1>13, <2>3
  <2>4. CASE j = i /\ n >= NDIRECT /\ Ind(i) = 0
    <3>1. \A c \in 0..(BSIZE - 1) : B!Zeroes[c] = 0
      BY DEF B!Zeroes
    <3> QED BY <1>16, <2>4, <3>1
  <2> QED BY <1>2, <1>8, <2>1, <2>2, <2>3, <2>4
<1> QED BY <1>17, <1>18, <1>19, <1>20

(* The two numbers that are compared.                                      *)
LEMMA FitsNumbers ==
  ASSUME FilesInv, NEW p \in FsProcs, op[p].at = "turn"
  PROVE  /\ IsFiniteSet(Touched(p)) /\ Cardinality(Touched(p)) \in Nat
         /\ foff[op[p].f] \div BSIZE \in Nat /\ B!Bn(p) \in Nat
         /\ Allowance(p) \in Int
<1> DEFINE d == B!Bn(p) - (foff[op[p].f] \div BSIZE)
           u == foff[op[p].f] % BSIZE
           S == op[p].logged \cup {B!InodeBlock}
<1>1. IsFiniteSet(S)
  BY FS_AddElement DEF FilesInv, Turns, Fits
<1>2. Touched(p) = S \cup DataOf(Ind(op[p].ip), ItsSlot(p))
  BY DEF Touched
<1> HIDE DEF S
<1>3. IsFiniteSet(Touched(p)) /\ Cardinality(Touched(p)) \in Nat
  BY <1>1, <1>2, InHandSize
<1>4. Allowance(p) = 1 + 2 * d + 2 * Has(ItsSlot(p)) + 2 * Has(Ind(op[p].ip)) - Has(u)
  BY DEF Allowance
<1>5. foff[op[p].f] \div BSIZE \in Nat /\ B!Bn(p) \in Nat /\ d \in Int
  <2> DEFINE f == foff[op[p].f]
  <2>1. f \in Nat /\ B!Bn(p) \in Nat
    BY TurnIs DEF FilesInv
  <2> HIDE DEF f
  <2>2. f \div BSIZE \in Nat
    BY <2>1, FileNumbers, Division
  <2> QED BY <2>1, <2>2 DEF f
<1>6. Has(u) \in {0, 1} /\ Has(ItsSlot(p)) \in {0, 1} /\ Has(Ind(op[p].ip)) \in {0, 1}
  BY DEF Has
<1> HIDE DEF d, u
<1>7. Allowance(p) \in Int
  BY <1>4, <1>5, <1>6
<1> QED BY <1>3, <1>5, <1>7

(* Taking a block fits in what is reserved for it.                         *)
LEMMA AllocFits ==
  ASSUME FilesInv, NEW p \in FsProcs, B!Missing(p), marked # B!DataBlocks, B!Alloc(p, B!Zeroes)
  PROVE  InBounds(p)' /\ Backed(p)' /\ Fits(p)'
<1>1. op[p].at = "turn" /\ ItsSlot(p) = 0
  BY DEF B!Missing, B!Nil, ItsSlot
<1>2. /\ op[p].ip \in Files /\ B!Bn(p) \in 0..(B!MAXFILE - 1) /\ B!Bn(p) \in Numbers /\ B!Bn(p) < B!MAXFILE
      /\ op[p] \in FileCalls
  BY <1>1, TurnIs DEF FilesInv
<1>3. InBounds(p) /\ Backed(p) /\ Fits(p)
  BY <1>1 DEF FilesInv, Turns
<1>4. NextBlock \in B!DataBlocks /\ NextBlock # 0
  BY NextBlockIs DEF FilesInv, FileTypes
<1>5. PICK L \in SUBSET LogEntries :
        /\ L \subseteq {B!BitmapBlock(NextBlock), B!Data(NextBlock)} \cup DataOf(Ind(op[p].ip), 0)
        /\ IsFiniteSet(L)
        /\ op' = [op EXCEPT ![p].logged = @ \cup L]
  BY AllocIs
<1>6. UNCHANGED <<fip, foff, size>>
  BY AllocIs
<1>7. /\ op'[p].at = op[p].at /\ op'[p].f = op[p].f /\ op'[p].ip = op[p].ip /\ op'[p].n = op[p].n
      /\ op'[p].i = op[p].i /\ op'[p].tot = op[p].tot /\ op'[p].logged = op[p].logged \cup L
  <2>1. op \in [FsProcs -> FileCalls]
    BY DEF FilesInv, FileTypes
  <2> QED BY <1>5, <2>1 DEF FileCalls
<1>8. B!At(p)' = B!At(p) /\ B!Bn(p)' = B!Bn(p) /\ B!Piece(op[p])' = B!Piece(op[p])
  BY <1>6, <1>7 DEF B!At, B!Bn, B!Piece
<1>9. InBounds(p)'
  BY <1>3, <1>6, <1>7, <1>8 DEF InBounds
<1>10. PICK i \in Files : i = op[p].ip
  BY <1>2
<1>11. PICK e \in Numbers : e = Entered(p)
  BY AllocNumbers
<1>12. /\ \A k \in Numbers : k < B!MAXFILE => B!Slot(i, k)' = IF k = e THEN NextBlock ELSE B!Slot(i, k)
       /\ Ind(i)' = IF B!MAXFILE = e THEN NextBlock ELSE Ind(i)
  BY <1>10, <1>11, AllocNumbers
<1>13. Backed(p)'
  <2> SUFFICES ASSUME NEW k \in 0..(B!MAXFILE - 1), k * BSIZE < size'[op'[p].ip] \/ k * BSIZE < B!At(p)'
               PROVE  B!Slot(i, k)' # 0
    BY <1>7, <1>10 DEF Backed, B!Slot
  <2>1. B!Slot(i, k) # 0
    BY <1>3, <1>6, <1>7, <1>8, <1>10 DEF Backed
  <2>2. k \in Numbers /\ k < B!MAXFILE
    BY FileNumbers DEF Numbers
  <2> QED BY <1>4, <1>12, <2>1, <2>2
<1>14. PICK m \in Numbers : m = B!Bn(p)
  BY <1>2
<1>15. /\ ItsSlot(p)' = B!Slot(i, m)' /\ ItsSlot(p) = B!Slot(i, m) /\ B!Slot(i, m) = 0 /\ m < B!MAXFILE
       /\ Ind(op[p].ip)' = Ind(i)'
  BY <1>1, <1>2, <1>7, <1>8, <1>10, <1>14 DEF ItsSlot, B!Slot, Ind
<1>16. \/ e = m /\ ItsSlot(p)' = NextBlock /\ Ind(i)' = Ind(i)
       \/ e = B!MAXFILE /\ Ind(i) = 0 /\ ItsSlot(p)' = 0 /\ Ind(i)' = NextBlock
  <2>1. e = IF m < NDIRECT \/ Ind(i) # 0 THEN m ELSE B!MAXFILE
    BY <1>10, <1>11, <1>14 DEF Entered
  <2>2. m \in Nat /\ m < B!MAXFILE /\ B!MAXFILE \in Nat
    BY <1>2, <1>14, FileNumbers
  <2>3. CASE m < NDIRECT \/ Ind(i) # 0
    <3>1. e = m /\ B!MAXFILE # e
      BY <2>1, <2>2, <2>3
    <3> QED BY <1>12, <1>15, <3>1
  <2>4. CASE ~(m < NDIRECT \/ Ind(i) # 0)
    <3>1. e = B!MAXFILE /\ m # e
      BY <2>1, <2>2, <2>4
    <3>2. ItsSlot(p)' = 0 /\ Ind(i)' = NextBlock
      BY <1>12, <1>15, <3>1
    <3> QED BY <2>4, <3>1, <3>2
  <2> QED BY <2>3, <2>4
<1>17. Allowance(p)' = Allowance(p) + 2
  <2> DEFINE x == ItsSlot(p)
             y == Ind(i)
             d == B!Bn(p) - (foff[op[p].f] \div BSIZE)
             u == foff[op[p].f] % BSIZE
  <2>1. Allowance(p) = 1 + 2 * d + 2 * Has(x) + 2 * Has(y) - Has(u)
    BY <1>10 DEF Allowance
  <2>2. Allowance(p)' = 1 + 2 * d + 2 * Has(ItsSlot(p)') + 2 * Has(Ind(i)') - Has(u)
    BY <1>6, <1>7, <1>8, <1>15 DEF Allowance, Has
  <2>3. d \in Int
    BY <1>1, FitsNumbers
  <2>4. x = 0
    BY <1>1
  <2>5. Has(0) = 0 /\ Has(NextBlock) = 1 /\ Has(u) \in {0, 1} /\ Has(y) \in {0, 1}
    BY <1>4 DEF Has
  <2> HIDE DEF x, y, d, u
  <2>6. CASE ItsSlot(p)' = NextBlock /\ Ind(i)' = y
    BY <2>1, <2>2, <2>3, <2>4, <2>5, <2>6
  <2>7. CASE y = 0 /\ ItsSlot(p)' = 0 /\ Ind(i)' = NextBlock
    BY <2>1, <2>2, <2>3, <2>4, <2>5, <2>7
  <2> QED BY <1>16, <2>6, <2>7 DEF y
<1>18. IsFiniteSet(Touched(p)) /\ Cardinality(Touched(p)) \in Nat
  BY <1>1, FitsNumbers
<1> DEFINE T == (Touched(p) \cup {B!BitmapBlock(NextBlock)}) \cup {B!Data(NextBlock)}
<1>19. IsFiniteSet(T) /\ Cardinality(T) \in Nat /\ Cardinality(T) <= Cardinality(Touched(p)) + 2
  <2> DEFINE U == Touched(p) \cup {B!BitmapBlock(NextBlock)}
  <2>1. IsFiniteSet(U) /\ Cardinality(U) \in {Cardinality(Touched(p)), Cardinality(Touched(p)) + 1}
    BY <1>18, FS_AddElement
  <2> HIDE DEF U
  <2>2. /\ IsFiniteSet(U \cup {B!Data(NextBlock)})
        /\ Cardinality(U \cup {B!Data(NextBlock)}) \in {Cardinality(U), Cardinality(U) + 1}
    BY <2>1, FS_AddElement
  <2>3. T = U \cup {B!Data(NextBlock)}
    BY DEF U
  <2> HIDE DEF T
  <2> QED BY <1>18, <2>1, <2>2, <2>3
<1>20. Touched(p)' \subseteq T
  <2>1. Touched(p)' = ((op[p].logged \cup L) \cup {B!InodeBlock}) \cup DataOf(Ind(i)', ItsSlot(p)')
    BY <1>7, <1>15 DEF Touched, DataOf, B!InodeBlock, B!Data
  <2>2. Touched(p) = (op[p].logged \cup {B!InodeBlock}) \cup DataOf(Ind(i), 0)
    BY <1>1, <1>10 DEF Touched
  <2>3. L \subseteq {B!BitmapBlock(NextBlock), B!Data(NextBlock)} \cup DataOf(Ind(i), 0)
    BY <1>5, <1>10
  <2>4. DataOf(Ind(i)', ItsSlot(p)') \subseteq DataOf(Ind(i), 0) \cup {B!Data(NextBlock)}
    BY <1>16 DEF DataOf
  <2> QED BY <2>1, <2>2, <2>3, <2>4
<1> HIDE DEF T
<1>21. Cardinality(Touched(p)') \in Nat /\ Cardinality(Touched(p)') <= Cardinality(T)
  <2>1. IsFiniteSet(Touched(p)') /\ Cardinality(Touched(p)') <= Cardinality(T)
    BY <1>19, <1>20, FS_Subset
  <2> QED BY <2>1, FS_CardinalityType
<1>22. Allowance(p) \in Int
  BY <1>1, FitsNumbers
<1>23. Cardinality(Touched(p)') <= Allowance(p)'
  BY <1>3, <1>17, <1>18, <1>19, <1>21, <1>22 DEF Fits
<1>24. IsFiniteSet(op'[p].logged)
  <2>1. IsFiniteSet(op[p].logged) /\ IsFiniteSet(L)
    BY <1>3, <1>5 DEF Fits
  <2>2. IsFiniteSet(op[p].logged \cup L)
    BY <2>1, FS_Union
  <2> QED BY <1>7, <2>2
<1>25. Cardinality(Touched(p))' = Cardinality(Touched(p)')
  BY DEF Cardinality
<1>26. Fits(p)'
  BY <1>23, <1>24, <1>25 DEF Fits, IsFiniteSet
<1> QED BY <1>9, <1>13, <1>26

(* Taking a block.                                                         *)
LEMMA AllocStep ==
  ASSUME FilesInv, NEW p \in FsProcs, B!Missing(p), marked # B!DataBlocks, B!Alloc(p, B!Zeroes)
  PROVE  FilesInv'
<1>1. op[p].at = "turn"
  BY DEF B!Missing
<1>2. op[p].ip \in Files /\ op[p] \in FileCalls
  BY <1>1, TurnIs DEF FilesInv
<1>3. NextBlock \in B!DataBlocks /\ NextBlock # 0 /\ NextBlock \notin marked
  BY NextBlockIs DEF FilesInv, FileTypes
<1>4. /\ UNCHANGED <<fip, foff, size, torn, halted>> /\ marked' = marked \cup {NextBlock}
      /\ addrs' \in [Files -> [0..NDIRECT -> B!DataBlocks \cup {0}]]
      /\ cached' \in [B!DataBlocks -> [0..(BSIZE - 1) -> Nat]]
      /\ stored' \in [B!DataBlocks -> [0..(BSIZE - 1) -> Nat]]
      /\ \A j \in Files : j # op[p].ip => addrs'[j] = addrs[j]
  BY AllocIs
<1>5. PICK L \in SUBSET LogEntries : op' = [op EXCEPT ![p].logged = @ \cup L]
  BY AllocIs
<1>6. op \in [FsProcs -> FileCalls]
  BY DEF FilesInv, FileTypes
<1>7. /\ op'[p] \in FileCalls /\ op'[p].at = op[p].at /\ op'[p].f = op[p].f /\ op'[p].ip = op[p].ip
      /\ op'[p].n = op[p].n /\ op'[p].i = op[p].i /\ op'[p].tot = op[p].tot /\ op'[p].k = op[p].k
  BY <1>5, <1>6 DEF FileCalls
<1>8. op' \in [FsProcs -> FileCalls] /\ \A q \in FsProcs : q # p => op'[q] = op[q]
  BY <1>5, <1>6, <1>7
<1>9. FileTypes'
  <2>1. marked' \subseteq B!DataBlocks
    BY <1>3, <1>4 DEF FilesInv, FileTypes
  <2> QED BY <1>4, <1>8, <2>1 DEF FilesInv, FileTypes, FileCalls, LogEntries, B!Data, B!BitmapBlock, B!DataBlocks
<1>10. \A q \in FsProcs : op'[q].at = op[q].at /\ op'[q].ip = op[q].ip /\ op'[q].k = op[q].k
  BY <1>7, <1>8
<1>11. Calling'
  <2> SUFFICES ASSUME NEW q \in FsProcs
               PROVE  /\ op'[q].at # "user" => op'[q].ip \in Files
                      /\ op'[q].at \in {"piece", "turn"} =>
                           /\ op'[q].f \in Opens /\ fip'[op'[q].f] = op'[q].ip /\ op'[q].ip # 0
                           /\ op'[q].n \in Sizes /\ op'[q].i < op'[q].n
                      /\ op'[q].at = "piece" => op'[q].tot = 0 /\ op'[q].logged = {}
    BY DEF Calling
  <2>1. CASE q # p
    BY <1>4, <1>8, <2>1 DEF FilesInv, Calling
  <2>2. CASE q = p
    BY <1>1, <1>4, <1>7, <2>2 DEF FilesInv, Calling
  <2> QED BY <2>1, <2>2
<1>12. Alone'
  BY <1>10 DEF FilesInv, Alone, B!InInode
<1>13. \A q \in FsProcs : q # p /\ B!InInode(q) => op[q].ip # op[p].ip
  BY <1>1 DEF FilesInv, Alone, B!InInode
<1>14. Freed'
  <2> SUFFICES ASSUME NEW q \in FsProcs, op'[q].at = "trunc"
               PROVE  /\ \A j \in 0..(NDIRECT - 1) : j < op'[q].k => addrs'[op'[q].ip][j] = 0
                      /\ op'[q].k > B!MAXFILE => addrs'[op'[q].ip][NDIRECT] = 0
    BY DEF Freed, Ind
  <2>1. q # p /\ op'[q] = op[q]
    BY <1>1, <1>7, <1>8
  <2>2. op[q].ip \in Files /\ op[q].ip # op[p].ip
    BY <1>13, <2>1 DEF FilesInv, Calling, B!InInode
  <2>3. addrs'[op[q].ip] = addrs[op[q].ip]
    BY <1>4, <2>2
  <2> QED BY <2>1, <2>3 DEF FilesInv, Freed, Ind
<1>15. PICK i \in Files : i = op[p].ip
  BY <1>2
<1>16. PICK e \in Numbers : e = Entered(p)
  BY AllocNumbers
<1>17. \A j \in Files, k \in Numbers :
         /\ k < B!MAXFILE => B!Slot(j, k)' = IF j = i /\ k = e THEN NextBlock ELSE B!Slot(j, k)
         /\ Ind(j)' = IF j = i /\ B!MAXFILE = e THEN NextBlock ELSE Ind(j)
  BY <1>15, <1>16, AllocNumbers
<1>18. Kept'
  BY AllocNumbers
<1>19. \A k \in Numbers : k # B!MAXFILE => k < B!MAXFILE
  BY FileNumbers DEF Numbers
<1>20. \A j \in Files, k \in Numbers :
         B!ToFree(j, k)' = IF j = i /\ k = e THEN NextBlock ELSE B!ToFree(j, k)
  <2> SUFFICES ASSUME NEW j \in Files, NEW k \in Numbers
               PROVE  B!ToFree(j, k)' = IF j = i /\ k = e THEN NextBlock ELSE B!ToFree(j, k)
    OBVIOUS
  <2>1. CASE k = B!MAXFILE
    BY <1>17, <2>1 DEF B!ToFree, Ind
  <2>2. CASE k # B!MAXFILE
    BY <1>17, <1>19, <2>2 DEF B!ToFree
  <2> QED BY <2>1, <2>2
<1>21. Owned'
  <2>1. Good(i, e) /\ B!ToFree(i, e) = 0
    BY <1>1, <1>15, <1>16, AllGood, AllocNumbers DEF FilesInv
  <2>2. \A j \in Files, k \in Numbers : Good(j, k)' <=> Good(j, k)
    BY <1>10 DEF Good
  <2>3. marked \subseteq B!DataBlocks /\ Owned
    BY DEF FilesInv, FileTypes
  <2> QED BY <1>3, <1>4, <1>20, <2>1, <2>2, <2>3, TakenOwned
<1>22. 0..(B!MAXFILE - 1) \subseteq Numbers /\ \A k \in 0..(B!MAXFILE - 1) : k < B!MAXFILE
  BY FileNumbers DEF Numbers
<1>23. Turns'
  <2> SUFFICES ASSUME NEW q \in FsProcs, op'[q].at = "turn"
               PROVE  InBounds(q)' /\ Backed(q)' /\ Fits(q)'
    BY DEF Turns
  <2>1. CASE q = p
    BY <2>1, AllocFits
  <2>2. CASE q # p
    <3>1. op'[q] = op[q] /\ op[q].at = "turn" /\ op[q].ip # op[p].ip
      BY <1>8, <1>13, <2>2 DEF B!InInode
    <3>2. op[q].ip \in Files /\ B!Bn(q) \in 0..(B!MAXFILE - 1)
      BY <3>1, TurnIs DEF FilesInv
    <3>3. InBounds(q) /\ Backed(q) /\ Fits(q)
      BY <3>1 DEF FilesInv, Turns
    <3>4. PICK j \in Files : j = op[q].ip
      BY <3>2
    <3>5. /\ Ind(j)' = Ind(j)
          /\ \A k \in 0..(B!MAXFILE - 1) : B!Slot(j, k)' = B!Slot(j, k)
      BY <1>15, <1>17, <1>22, <3>1, <3>4, FileNumbers
    <3>6. /\ Ind(op[q].ip)' = Ind(op[q].ip)
          /\ \A k \in 0..(B!MAXFILE - 1) : B!Slot(op[q].ip, k)' = B!Slot(op[q].ip, k)
      BY <3>1, <3>4, <3>5 DEF Ind, B!Slot
    <3> QED BY <1>4, <3>1, <3>2, <3>3, <3>6, Undisturbed
  <2> QED BY <2>1, <2>2
<1>24. B!NoHoles'
  <2> SUFFICES ASSUME NEW j \in Files, ~B!Locked(j)', NEW k \in 0..(B!MAXFILE - 1), k * BSIZE < size'[j]
               PROVE  B!Slot(j, k)' # 0
    BY DEF B!NoHoles, B!Nil
  <2>1. ~B!Locked(j)
    BY <1>10 DEF B!Locked, B!InInode
  <2>2. B!Slot(j, k) # 0
    BY <1>4, <2>1 DEF FilesInv, B!NoHoles, B!Nil
  <2> QED BY <1>3, <1>17, <1>22, <2>2
<1> QED BY <1>9, <1>11, <1>12, <1>14, <1>18, <1>21, <1>23, <1>24 DEF FilesInv

(* Bmap, which may find that there are no blocks left.                     *)
LEMMA BmapStep ==
  ASSUME FilesInv, NEW p \in FsProcs, B!Bmap(p)
  PROVE  FilesInv'
<1>1. CASE marked # B!DataBlocks
  BY <1>1, AllocStep DEF B!Bmap
<1>2. CASE marked = B!DataBlocks
  <2>1. halted' = "out of blocks" /\ UNCHANGED <<fip, foff, addrs, size, marked, cached, stored, op, torn>>
    BY <1>2 DEF B!Bmap
  <2>2. FileTypes'
    BY <2>1 DEF FilesInv, FileTypes, FileCalls, LogEntries, B!Data, B!BitmapBlock, B!DataBlocks
  <2>3. Calling' /\ Alone' /\ Steady /\ \A i \in Files : B!Locked(i) => B!Locked(i)'
    BY <2>1 DEF FilesInv, Calling, Alone, B!InInode, Steady, B!Locked
  <2>4. Turns' /\ Freed' /\ Owned' /\ Kept' /\ B!NoHoles'
    <3> DEFINE Moved == {}
    <3>1. Moved \in SUBSET FsProcs /\ \A q \in Moved : FALSE
      OBVIOUS
    <3> HIDE DEF Moved
    <3> QED BY <2>1, <2>3, <3>1, QuietStep
  <2> QED BY <2>2, <2>3, <2>4 DEF FilesInv
<1> QED BY <1>1, <1>2
-----------------------------------------------------------------------------
(* The block that writei copies into, and what it then holds.              *)
LEMMA CopyIs ==
  ASSUME FilesInv, NEW p \in FsProcs, op[p].at = "turn", B!Slot(op[p].ip, B!Bn(p)) # 0
  PROVE  /\ ItsSlot(p) \in B!DataBlocks /\ ItsSlot(p) = B!Slot(op[p].ip, B!Bn(p))
         /\ \A i \in Files : ItsSlot(p) # Ind(i)
         /\ \A m \in Nat : m <= B!M(p) => B!Filled(p, m) \in [0..(BSIZE - 1) -> Nat]
<1>1. /\ op[p].ip \in Files /\ B!Bn(p) \in Numbers /\ B!Bn(p) < B!MAXFILE
      /\ op[p].tot \in Nat /\ op[p].i \in Nat /\ op[p].n <= 4 /\ op[p].n \in Nat
      /\ B!Piece(op[p]) \in Nat /\ op[p].i + B!Piece(op[p]) <= op[p].n
      /\ B!M(p) \in Nat /\ op[p].tot + B!M(p) <= B!Piece(op[p]) /\ B!At(p) \in Nat
  BY TurnIs DEF FilesInv
<1>2. Good(op[p].ip, B!Bn(p))
  BY <1>1, AllGood DEF FilesInv
<1>3. ItsSlot(p) \in B!DataBlocks /\ ItsSlot(p) = B!Slot(op[p].ip, B!Bn(p))
  BY <1>1, NumbersType DEF FilesInv, ItsSlot
<1>4. \A i \in Files : ItsSlot(p) # Ind(i)
  BY <1>1, <1>2, <1>3, NotIndirect
<1>5. ASSUME NEW m \in Nat, m <= B!M(p)
      PROVE  B!Filled(p, m) \in [0..(BSIZE - 1) -> Nat]
  <2> DEFINE x == B!At(p) % BSIZE
             d == op[p].i + op[p].tot
             T == <<1, 1, 1, 2>>
  <2>1. cached[ItsSlot(p)] \in [0..(BSIZE - 1) -> Nat]
    BY <1>3 DEF FilesInv, FileTypes
  <2>2. \A j \in 1..4 : T[j] \in Nat
    OBVIOUS
  <2>3. x \in Nat /\ BSIZE \in Nat
    BY <1>1, FileNumbers, Division
  <2>4. d \in Nat /\ d + m <= 4
    BY <1>1, <1>5
  <2>5. B!Filled(p, m) = [c \in 0..(BSIZE - 1) |-> IF c \in x..(x + m - 1) THEN T[d + (c - x) + 1]
                                                   ELSE cached[ItsSlot(p)][c]]
    BY <1>3 DEF B!Filled
  <2> HIDE DEF x, d, T
  <2>6. \A c \in 0..(BSIZE - 1) : c \in x..(x + m - 1) => d + (c - x) + 1 \in 1..4
    BY <1>5, <2>3, <2>4
  <2> QED BY <2>1, <2>2, <2>5, <2>6
<1> QED BY <1>3, <1>4, <1>5

(* A piece ends, whole or not, or the call with it.                        *)
LEMMA WrittenStep ==
  ASSUME FilesInv, NEW p \in FsProcs, op[p].at = "turn", NEW r \in Nat, r <= B!Piece(op[p]),
         B!Written(p, r), Steady, UNCHANGED <<fip, halted>>,
         cached' \in [B!DataBlocks -> [0..(BSIZE - 1) -> Nat]],
         stored' \in [B!DataBlocks -> [0..(BSIZE - 1) -> Nat]],
         torn' \subseteq Files \X Nat,
         \A k \in 0..(B!MAXFILE - 1) : k * BSIZE < foff[op[p].f] + r => B!Slot(op[p].ip, k) # 0
  PROVE  FilesInv'
<1>0. /\ op[p] \in FileCalls /\ op[p].ip \in Files /\ op[p].f \in Opens /\ op[p].i \in Nat /\ op[p].n \in Nat
      /\ foff[op[p].f] \in Nat /\ B!Piece(op[p]) \in Nat
  BY TurnIs DEF FilesInv
<1>1. /\ InBounds(p) /\ Backed(p)
      /\ fip[op[p].f] = op[p].ip /\ op[p].ip # 0 /\ op[p].n \in Sizes /\ op[p].i < op[p].n
  BY DEF FilesInv, Turns, Calling
<1>2. B!MAXFILE * BSIZE \in Int /\ size \in [Files -> 0..(B!MAXFILE * BSIZE)]
  <2>1. B!MAXFILE * BSIZE \in Int
    BY FileNumbers, MultiplesOrdered
  <2>2. size \in [Files -> 0..(B!MAXFILE * BSIZE)]
    BY DEF FilesInv, FileTypes
  <2> QED BY <2>1, <2>2
<1>3. PICK i \in Files : i = op[p].ip
  BY <1>0
<1>4. PICK f \in Opens : f = op[p].f
  BY <1>0
<1> DEFINE e == foff[f] + r
           s == IF e > size[i] THEN e ELSE size[i]
           t == [op[p] EXCEPT !.at = "piece", !.i = @ + r, !.tot = 0, !.logged = {}]
<1>5. /\ size' = [size EXCEPT ![i] = s] /\ foff' = [foff EXCEPT ![f] = @ + r]
      /\ op' = [op EXCEPT ![p] = IF r = B!Piece(op[p]) /\ op[p].i + r < op[p].n THEN t ELSE B!Idle]
  BY <1>3, <1>4 DEF B!Written
<1>6. e \in Nat /\ e <= B!MAXFILE * BSIZE
  BY <1>0, <1>1, <1>2, <1>4 DEF InBounds
<1>7. s \in 0..(B!MAXFILE * BSIZE)
  <2> HIDE DEF e
  <2> QED BY <1>2, <1>6
<1>8. size' \in [Files -> 0..(B!MAXFILE * BSIZE)] /\ size'[i] = s /\ \A j \in Files : j # i => size'[j] = size[j]
  <2> HIDE DEF s
  <2> QED BY <1>2, <1>5, <1>7
<1>9. foff' \in [Opens -> Nat] /\ \A g \in Opens : g # f => foff'[g] = foff[g]
  <2>1. foff \in [Opens -> Nat]
    BY DEF FilesInv, FileTypes
  <2> QED BY <1>5, <2>1
<1>10. /\ t \in FileCalls /\ t.at = "piece" /\ t.f = f /\ t.ip = i /\ t.n = op[p].n /\ t.i = op[p].i + r
       /\ t.tot = 0 /\ t.logged = {}
  <2>1. /\ t.at = "piece" /\ t.f = op[p].f /\ t.ip = op[p].ip /\ t.n = op[p].n /\ t.i = op[p].i + r
        /\ t.tot = 0 /\ t.logged = {}
    BY <1>0 DEF FileCalls
  <2>2. op[p].i + r \in Nat
    BY <1>0
  <2>3. t \in FileCalls
    BY <1>0, <2>2 DEF FileCalls
  <2> QED BY <1>3, <1>4, <2>1, <2>3
<1>11. op \in [FsProcs -> FileCalls]
  BY DEF FilesInv, FileTypes
<1> HIDE DEF e, s, t
<1>12. /\ \A q \in FsProcs : q # p => op'[q] = op[q]
       /\ op'[p] = B!Idle \/ (op'[p] = t /\ op[p].i + r < op[p].n)
       /\ op' \in [FsProcs -> FileCalls]
  BY <1>5, <1>10, <1>11, IdleIs
<1>13. addrs' = addrs /\ marked' = marked
  BY DEF Steady
<1>14. FileTypes'
  BY <1>8, <1>9, <1>12, <1>13 DEF FilesInv, FileTypes, FileCalls, LogEntries, B!Data, B!BitmapBlock, B!DataBlocks
<1>15. op'[p].at \in {"user", "piece"}
  BY <1>10, <1>12, IdleIs
<1>16. Calling'
  <2> SUFFICES ASSUME NEW q \in FsProcs
               PROVE  /\ op'[q].at # "user" => op'[q].ip \in Files
                      /\ op'[q].at \in {"piece", "turn"} =>
                           /\ op'[q].f \in Opens /\ fip'[op'[q].f] = op'[q].ip /\ op'[q].ip # 0
                           /\ op'[q].n \in Sizes /\ op'[q].i < op'[q].n
                      /\ op'[q].at = "piece" => op'[q].tot = 0 /\ op'[q].logged = {}
    BY DEF Calling
  <2>1. CASE q # p
    BY <1>12, <2>1 DEF FilesInv, Calling
  <2>2. CASE q = p
    BY <1>1, <1>3, <1>4, <1>10, <1>12, <2>2, IdleIs
  <2> QED BY <2>1, <2>2
<1>17. Alone'
  BY <1>12, <1>15 DEF FilesInv, Alone, B!InInode
<1>18. Owned' /\ Kept'
  <2> SUFFICES ASSUME NEW j \in Files, NEW k \in Numbers
               PROVE  Good(j, k)' <=> Good(j, k)
    BY SteadyOwned
  <2> QED BY <1>12, <1>15 DEF Good
<1>19. Freed'
  BY <1>12, <1>13, <1>15 DEF FilesInv, Freed, Ind
<1>20. 0..(B!MAXFILE - 1) \subseteq Numbers /\ 0 \in Numbers
  BY FileNumbers DEF Numbers
<1>21. \A j \in Files, k \in Numbers : Ind(j)' = Ind(j) /\ B!Slot(j, k)' = B!Slot(j, k)
  BY SameNumbers DEF Steady
<1>22. Turns'
  <2> SUFFICES ASSUME NEW q \in FsProcs, op'[q].at = "turn"
               PROVE  InBounds(q)' /\ Backed(q)' /\ Fits(q)'
    BY DEF Turns
  <2>1. q # p /\ op'[q] = op[q] /\ op[q].at = "turn"
    BY <1>12, <1>15
  <2>2. /\ op[q].ip \in Files /\ op[q].f \in Opens /\ fip[op[q].f] = op[q].ip /\ op[q].ip # op[p].ip
        /\ B!Bn(q) \in 0..(B!MAXFILE - 1)
    BY <2>1, TurnIs DEF FilesInv, Calling, Alone, B!InInode
  <2>3. foff'[op[q].f] = foff[op[q].f] /\ size'[op[q].ip] = size[op[q].ip]
    BY <1>1, <1>3, <1>4, <1>8, <1>9, <2>2
  <2>4. InBounds(q) /\ Backed(q) /\ Fits(q)
    BY <2>1 DEF FilesInv, Turns
  <2>5. PICK j \in Files : j = op[q].ip
    BY <2>2
  <2>6. /\ Ind(op[q].ip)' = Ind(op[q].ip)
        /\ \A k \in 0..(B!MAXFILE - 1) : B!Slot(op[q].ip, k)' = B!Slot(op[q].ip, k)
    <3>1. Ind(j)' = Ind(j) /\ \A k \in 0..(B!MAXFILE - 1) : B!Slot(j, k)' = B!Slot(j, k)
      BY <1>20, <1>21
    <3> QED BY <2>1, <2>5, <3>1 DEF Ind, B!Slot
  <2> QED BY <2>1, <2>2, <2>3, <2>4, <2>6, Undisturbed
<1>23. B!NoHoles'
  <2> SUFFICES ASSUME NEW j \in Files, ~B!Locked(j)', NEW k \in 0..(B!MAXFILE - 1), k * BSIZE < size'[j]
               PROVE  B!Slot(j, k)' # 0
    BY DEF B!NoHoles, B!Nil
  <2>1. B!Slot(j, k)' = B!Slot(j, k)
    BY <1>20, <1>21
  <2>2. CASE j = i
    <3>1. k * BSIZE < e \/ k * BSIZE < size[i]
      BY <1>8, <2>2 DEF s
    <3>2. CASE k * BSIZE < e
      BY <1>3, <1>4, <2>1, <2>2, <3>2 DEF e
    <3>3. CASE k * BSIZE < size[i]
      BY <1>1, <1>3, <2>1, <2>2, <3>3 DEF Backed
    <3> QED BY <3>1, <3>2, <3>3
  <2>3. CASE j # i
    <3>1. ~B!Locked(j)
      <4> SUFFICES ASSUME NEW q \in FsProcs, B!InInode(q), op[q].ip = j
                   PROVE  FALSE
        BY DEF B!Locked
      <4>1. q # p
        BY <1>3, <2>3
      <4>2. op'[q] = op[q]
        BY <1>12, <4>1
      <4> QED BY <4>2 DEF B!Locked, B!InInode
    <3>2. k * BSIZE < size[j]
      BY <1>8, <2>3
    <3> QED BY <2>1, <3>1, <3>2 DEF FilesInv, B!NoHoles, B!Nil
  <2> QED BY <2>2, <2>3
<1> QED BY <1>14, <1>16, <1>17, <1>18, <1>19, <1>22, <1>23 DEF FilesInv

(* Within a block only that block begins.                                  *)
LEMMA UpTo ==
  ASSUME NEW n \in Nat, n > 0, NEW x \in Nat, NEW m \in Nat, m <= n - (x % n), NEW k \in Int, k * n < x + m
  PROVE  k * n < x \/ k = x \div n
<1> DEFINE q == x \div n
           r == x % n
<1>1. q \in Nat /\ r \in 0..(n - 1) /\ x = q * n + r
  BY Division
<1>2. m <= n - r
  OBVIOUS
<1> HIDE DEF q, r
<1>3. q < k => q * n + n <= k * n
  BY <1>1, MultiplesOrdered
<1>4. k < q => k * n + n <= q * n
  BY <1>1, MultiplesOrdered
<1>5. q * n \in Int /\ k * n \in Int
  BY <1>1, MultiplesOrdered
<1> QED BY <1>1, <1>2, <1>3, <1>4, <1>5 DEF q

(* There is a block for all that has been copied.                          *)
LEMMA Enough ==
  ASSUME FilesInv, NEW p \in FsProcs, op[p].at = "turn", B!Slot(op[p].ip, B!Bn(p)) # 0,
         NEW m \in Nat, m <= B!M(p), NEW k \in 0..(B!MAXFILE - 1), k * BSIZE < B!At(p) + m
  PROVE  B!Slot(op[p].ip, k) # 0
<1>1. B!At(p) \in Nat /\ B!Bn(p) = B!At(p) \div BSIZE /\ B!M(p) \in Nat /\ B!M(p) <= BSIZE - (B!At(p) % BSIZE)
  BY TurnIs DEF FilesInv
<1> DEFINE x == B!At(p)
           u == x % BSIZE
<1>2. x \in Nat /\ BSIZE \in Nat /\ BSIZE > 0 /\ m <= BSIZE - u
  <2>1. u \in Int /\ x \in Nat /\ BSIZE \in Nat /\ BSIZE > 0
    BY <1>1, FileNumbers, Division
  <2>2. B!M(p) <= BSIZE - u
    BY <1>1
  <2> HIDE DEF u, x
  <2> QED BY <1>1, <2>1, <2>2
<1> HIDE DEF x
<1>3. k * BSIZE < x \/ k = x \div BSIZE
  <2>1. k \in Int /\ k * BSIZE < x + m
    BY FileNumbers DEF x
  <2>2. m <= BSIZE - (x % BSIZE)
    BY <1>2
  <2> HIDE DEF u
  <2> QED BY <1>2, <2>1, <2>2, UpTo
<1>4. CASE k * BSIZE < B!At(p)
  BY <1>4 DEF FilesInv, Turns, Backed
<1>5. CASE k = B!Bn(p)
  BY <1>5
<1> QED BY <1>1, <1>3, <1>4, <1>5 DEF x

(* No block changes hands when the contents of a file's block change.      *)
LEMMA ContentsSteady ==
  ASSUME FilesInv, NEW b \in B!DataBlocks, \A i \in Files : b # Ind(i), NEW x,
         cached' = [cached EXCEPT ![b] = x], stored' = stored \/ stored' = [stored EXCEPT ![b] = x],
         UNCHANGED <<addrs, marked>>
  PROVE  Steady
<1>1. \A i \in Files : Ind(i) # 0 => Ind(i) \in B!DataBlocks
  <2>1. 0 \in Numbers
    BY FileNumbers DEF Numbers
  <2> QED BY <2>1, NumbersType DEF FilesInv
<1>2. /\ cached \in [B!DataBlocks -> [0..(BSIZE - 1) -> Nat]]
      /\ stored \in [B!DataBlocks -> [0..(BSIZE - 1) -> Nat]]
  BY DEF FilesInv, FileTypes
<1> QED BY <1>1, <1>2 DEF Steady

(* Either_copyin fails.                                                    *)
LEMMA CopyFailsStep ==
  ASSUME FilesInv, NEW p \in FsProcs, B!CopyFails(p)
  PROVE  FilesInv'
<1>1. /\ op[p].at = "turn" /\ B!Slot(op[p].ip, B!Bn(p)) # 0
      /\ B!Written(p, op[p].tot) /\ UNCHANGED <<fip, addrs, marked, stored, halted>>
  BY DEF B!CopyFails, B!Nil
<1>2. /\ op[p].ip \in Files /\ op[p].f \in Opens /\ op[p].tot \in Nat /\ B!At(p) = foff[op[p].f] + op[p].tot
      /\ B!At(p) \in Nat /\ B!M(p) \in Nat /\ foff[op[p].f] \in Nat
  BY <1>1, TurnIs DEF FilesInv
<1>3. ItsSlot(p) \in B!DataBlocks /\ \A i \in Files : ItsSlot(p) # Ind(i)
  BY <1>1, CopyIs
<1>4. PICK m \in 0..(B!M(p) - 1) :
        /\ cached' = [cached EXCEPT ![ItsSlot(p)] = B!Filled(p, m)]
        /\ torn' = torn \cup {<<op[p].ip, x>> : x \in {y \in B!At(p)..(B!At(p) + m - 1) : y < size[op[p].ip]}}
  BY DEF B!CopyFails, ItsSlot
<1>5. m \in Nat /\ m <= B!M(p)
  BY <1>2
<1>6. B!Filled(p, m) \in [0..(BSIZE - 1) -> Nat]
  BY <1>1, <1>5, CopyIs
<1>7. /\ cached' \in [B!DataBlocks -> [0..(BSIZE - 1) -> Nat]]
      /\ stored' \in [B!DataBlocks -> [0..(BSIZE - 1) -> Nat]]
  BY <1>1, <1>4, <1>6 DEF FilesInv, FileTypes
<1>8. torn' \subseteq Files \X Nat
  <2>1. B!At(p)..(B!At(p) + m - 1) \subseteq Nat
    BY <1>2, <1>5
  <2>2. torn \subseteq Files \X Nat
    BY DEF FilesInv, FileTypes
  <2>3. \A x \in Nat : <<op[p].ip, x>> \in Files \X Nat
    BY <1>2
  <2>4. {<<op[p].ip, x>> : x \in {y \in B!At(p)..(B!At(p) + m - 1) : y < size[op[p].ip]}} \subseteq Files \X Nat
    BY <2>1, <2>3, Zenon
  <2> QED BY <1>4, <2>2, <2>4, Zenon
<1>9. Steady
  <2> DEFINE y == B!Filled(p, m)
  <2>1. cached' = [cached EXCEPT ![ItsSlot(p)] = y] /\ stored' = stored /\ UNCHANGED <<addrs, marked>>
    BY <1>1, <1>4
  <2> HIDE DEF y
  <2> QED BY <1>3, <2>1, ContentsSteady
<1>10. \A k \in 0..(B!MAXFILE - 1) : k * BSIZE < foff[op[p].f] + op[p].tot => B!Slot(op[p].ip, k) # 0
  BY <1>1, <1>2 DEF FilesInv, Turns, Backed
<1>11. op[p].tot <= B!Piece(op[p])
  <2>1. op[p].tot < B!Piece(op[p]) /\ B!Piece(op[p]) \in Nat
    BY <1>1, TurnIs DEF FilesInv, Turns, InBounds
  <2> QED BY <1>2, <2>1
<1> QED BY <1>1, <1>2, <1>7, <1>8, <1>9, <1>10, <1>11, WrittenStep

(* The next block of a piece fits in what is reserved for it.              *)
LEMMA GoesOn ==
  ASSUME FilesInv, NEW p \in FsProcs, op[p].at = "turn", B!Slot(op[p].ip, B!Bn(p)) # 0, Steady,
         op[p].tot + B!M(p) # B!Piece(op[p]),
         op' = [op EXCEPT ![p].tot = @ + B!M(p), ![p].logged = @ \cup {B!Data(ItsSlot(p))}],
         UNCHANGED <<fip, foff, size>>
  PROVE  /\ op'[p] \in FileCalls
         /\ op'[p].at = op[p].at /\ op'[p].f = op[p].f /\ op'[p].ip = op[p].ip /\ op'[p].n = op[p].n
         /\ op'[p].i = op[p].i
         /\ InBounds(p)' /\ Backed(p)' /\ Fits(p)'
<1>0. /\ op[p] \in FileCalls /\ op[p].ip \in Files /\ op[p].f \in Opens /\ op[p].tot \in Nat
      /\ foff[op[p].f] \in Nat /\ B!At(p) = foff[op[p].f] + op[p].tot /\ B!At(p) \in Nat
      /\ B!Bn(p) = B!At(p) \div BSIZE /\ B!Bn(p) \in 0..(B!MAXFILE - 1) /\ B!Bn(p) \in Numbers
      /\ B!Piece(op[p]) \in Nat
      /\ B!M(p) \in Nat /\ B!M(p) >= 1 /\ op[p].tot + B!M(p) <= B!Piece(op[p])
      /\ B!M(p) <= BSIZE - (B!At(p) % BSIZE)
      /\ B!M(p) = BSIZE - (B!At(p) % BSIZE)
  BY TurnIs DEF FilesInv
<1>1. InBounds(p) /\ Backed(p) /\ Fits(p)
  BY DEF FilesInv, Turns
<1>2. ItsSlot(p) \in B!DataBlocks /\ ItsSlot(p) # 0
  BY CopyIs, FileNumbers DEF B!DataBlocks
<1>3. B!Data(ItsSlot(p)) \in LogEntries
  BY <1>2 DEF LogEntries
<1>4. /\ op'[p] \in FileCalls /\ op'[p].at = op[p].at /\ op'[p].f = op[p].f /\ op'[p].ip = op[p].ip
      /\ op'[p].n = op[p].n /\ op'[p].i = op[p].i /\ op'[p].tot = op[p].tot + B!M(p)
      /\ op'[p].logged = op[p].logged \cup {B!Data(ItsSlot(p))}
  <2> DEFINE m == B!M(p)
             d == B!Data(ItsSlot(p))
  <2>0. op \in [FsProcs -> FileCalls]
    BY DEF FilesInv, FileTypes
  <2>1. op \in [FsProcs -> FileCalls] /\ m \in Nat /\ d \in LogEntries
    BY <1>0, <1>3, <2>0
  <2>2. op' = [op EXCEPT ![p].tot = @ + m, ![p].logged = @ \cup {d}]
    OBVIOUS
  <2> HIDE DEF m, d
  <2>3. op'[p] = [op[p] EXCEPT !.tot = @ + m, !.logged = @ \cup {d}]
    BY <2>1, <2>2
  <2>4. /\ op'[p] \in FileCalls /\ op'[p].at = op[p].at /\ op'[p].f = op[p].f /\ op'[p].ip = op[p].ip
        /\ op'[p].n = op[p].n /\ op'[p].i = op[p].i /\ op'[p].tot = op[p].tot + m
        /\ op'[p].logged = op[p].logged \cup {d}
    <3>1. PICK o \in FileCalls : o = op[p]
      BY <1>0
    <3>2. PICK t : t = op'[p]
      OBVIOUS
    <3>3. t = [o EXCEPT !.tot = @ + m, !.logged = @ \cup {d}]
      BY <2>3, <3>1, <3>2
    <3>4. /\ t \in FileCalls /\ t.at = o.at /\ t.f = o.f /\ t.ip = o.ip /\ t.n = o.n /\ t.i = o.i
          /\ t.tot = o.tot + m /\ t.logged = o.logged \cup {d}
      <4>1. o.tot + m \in Nat /\ o.logged \cup {d} \in SUBSET LogEntries
        BY <2>1, <3>1 DEF FileCalls
      <4>2. /\ t.at = o.at /\ t.f = o.f /\ t.ip = o.ip /\ t.n = o.n /\ t.i = o.i
            /\ t.tot = o.tot + m /\ t.logged = o.logged \cup {d}
        BY <3>1, <3>3 DEF FileCalls
      <4>3. t \in FileCalls
        BY <3>1, <3>3, <4>1 DEF FileCalls
      <4> QED BY <4>2, <4>3
    <3> QED BY <3>1, <3>2, <3>4
  <2> QED BY <2>4 DEF m, d
<1>5. B!At(p)' = B!At(p) + B!M(p) /\ B!Piece(op[p])' = B!Piece(op[p])
  <2>1. B!At(p)' = foff[op[p].f] + (op[p].tot + B!M(p))
    BY <1>4 DEF B!At
  <2>2. B!At(p)' = B!At(p) + B!M(p)
    <3>1. /\ foff[op[p].f] \in Nat /\ op[p].tot \in Nat /\ B!M(p) \in Nat
          /\ B!At(p) = foff[op[p].f] + op[p].tot
      BY <1>0
    <3> QED BY <2>1, <3>1
  <2>3. B!Piece(op[p])' = B!Piece(op[p])
    BY <1>4 DEF B!Piece
  <2> QED BY <2>2, <2>3
<1> DEFINE x == B!At(p)
           m == B!M(p)
<1>6. (x + m) \div BSIZE = (x \div BSIZE) + 1 /\ (x + m) % BSIZE = 0
  <2>1. x \in Nat /\ m \in Nat /\ m > 0 /\ BSIZE \in Nat /\ BSIZE > 0 /\ m <= BSIZE - (x % BSIZE)
        /\ m = BSIZE - (x % BSIZE)
    BY <1>0, FileNumbers
  <2> HIDE DEF x, m
  <2> QED BY <2>1, WithinBlock
<1>7. InBounds(p)'
  <2>1. op'[p].tot < B!Piece(op[p])'
    <3>1. op[p].tot + m \in Nat /\ B!Piece(op[p]) \in Nat
          /\ op[p].tot + m <= B!Piece(op[p]) /\ op[p].tot + m # B!Piece(op[p])
      BY <1>0
    <3>2. op'[p].tot = op[p].tot + m /\ B!Piece(op[p])' = B!Piece(op[p])
      BY <1>4, <1>5
    <3> HIDE DEF m
    <3> QED BY <3>1, <3>2
  <2>2. B!At(p)' % BSIZE = 0
    BY <1>5, <1>6
  <2>3. /\ foff[op[p].f] <= size[op[p].ip]
        /\ foff[op[p].f] + B!Piece(op[p]) <= B!MAXFILE * BSIZE
    BY <1>1 DEF InBounds
  <2>4. foff'[op'[p].f] = foff[op[p].f] /\ size'[op'[p].ip] = size[op[p].ip]
    BY <1>4
  <2> QED BY <1>5, <2>1, <2>2, <2>3, <2>4 DEF InBounds, B!MAXFILE, B!NINDIRECT
<1>8. PICK i \in Files : i = op[p].ip
  BY <1>0
<1>9. /\ Ind(i)' = Ind(i) /\ \A k \in Numbers : B!Slot(i, k)' = B!Slot(i, k)
  BY SameNumbers, FileNumbers DEF Steady, Numbers
<1>10. Backed(p)'
  <2> SUFFICES ASSUME NEW k \in 0..(B!MAXFILE - 1), k * BSIZE < size'[op'[p].ip] \/ k * BSIZE < B!At(p)'
               PROVE  B!Slot(i, k)' # 0
    BY <1>4, <1>8 DEF Backed, B!Slot, B!MAXFILE, B!NINDIRECT
  <2>1. CASE k * BSIZE < size[op[p].ip]
    BY <1>1, <1>8, <1>9, <2>1, FileNumbers DEF Backed, Numbers
  <2>2. CASE k * BSIZE < B!At(p) + B!M(p)
    <3>1. B!M(p) <= B!M(p)
      BY <1>0
    <3>2. B!Slot(op[p].ip, k) # 0
      BY <1>0, <2>2, <3>1, Enough
    <3> QED BY <1>8, <1>9, <3>2, FileNumbers DEF Numbers
  <2> QED BY <1>4, <1>5, <2>1, <2>2
<1>11. B!Bn(p)' = B!Bn(p) + 1
  BY <1>0, <1>5, <1>6 DEF B!Bn
<1> HIDE DEF x, m
<1>12. Ind(op[p].ip)' = Ind(i)
  BY <1>4, <1>8, <1>9 DEF Ind
<1>13. Allowance(p)' = Allowance(p) + 2 * Has(ItsSlot(p)')
  <2> DEFINE y == Ind(i)
             g == foff[op[p].f] \div BSIZE
             h == B!Bn(p)
             u == foff[op[p].f] % BSIZE
             z == ItsSlot(p)'
  <2>1. Allowance(p) = 1 + 2 * (h - g) + 2 * Has(ItsSlot(p)) + 2 * Has(y) - Has(u)
    BY <1>8 DEF Allowance
  <2>3. g \in Nat /\ h \in Nat
    BY FitsNumbers
  <2>4. Has(ItsSlot(p)) = 1 /\ Has(u) \in {0, 1} /\ Has(y) \in {0, 1} /\ Has(z) \in {0, 1}
    BY <1>2 DEF Has
  <2>2. Allowance(p)' = 1 + 2 * (h + 1 - g) + 2 * Has(z) + 2 * Has(y) - Has(u)
    <3>1. Allowance(p)' = 1 + 2 * (B!Bn(p)' - (foff'[op'[p].f] \div BSIZE)) + 2 * Has(z)
                            + 2 * Has(Ind(op[p].ip)') - Has(foff'[op'[p].f] % BSIZE)
      BY DEF Allowance, Has
    <3>2. foff'[op'[p].f] = foff[op[p].f] /\ Ind(op[p].ip)' = y
      BY <1>4, <1>12
    <3>3. foff'[op'[p].f] \div BSIZE = g /\ foff'[op'[p].f] % BSIZE = u
      BY <3>2
    <3>4. B!Bn(p)' = h + 1
      BY <1>11
    <3> HIDE DEF y, g, h, u, z
    <3> QED BY <2>3, <2>4, <3>1, <3>2, <3>3, <3>4
  <2> HIDE DEF y, g, h, u, z
  <2>5. Allowance(p)' = Allowance(p) + 2 * Has(z)
    BY <2>1, <2>2, <2>3, <2>4
  <2> QED BY <2>5 DEF z
<1>14. IsFiniteSet(Touched(p)) /\ Cardinality(Touched(p)) \in Nat /\ Allowance(p) \in Int
  BY FitsNumbers
<1> DEFINE T == Touched(p) \cup DataOf(0, ItsSlot(p)')
<1>15. /\ IsFiniteSet(T) /\ Cardinality(T) \in Nat
       /\ Cardinality(T) <= Cardinality(Touched(p)) + Has(ItsSlot(p)')
  <2> DEFINE z == ItsSlot(p)'
             S == Touched(p)
  <2>1. T = S \cup DataOf(0, z) /\ IsFiniteSet(S) /\ Cardinality(S) \in Nat
    BY <1>14
  <2>2. Has(0) = 0 /\ Has(z) \in Int
    BY DEF Has
  <2> HIDE DEF z, S, T
  <2>3. /\ IsFiniteSet(T) /\ Cardinality(T) \in Nat
        /\ Cardinality(T) <= Cardinality(S) + Has(0) + Has(z)
    BY <2>1, InHandSize
  <2> QED BY <2>1, <2>2, <2>3 DEF z, S
<1>16. Touched(p)' \subseteq T
  <2>1. Touched(p)' = ((op[p].logged \cup {B!Data(ItsSlot(p))}) \cup {B!InodeBlock}) \cup DataOf(Ind(i), ItsSlot(p)')
    BY <1>4, <1>12 DEF Touched, DataOf, B!InodeBlock, B!Data
  <2>2. Touched(p) = (op[p].logged \cup {B!InodeBlock}) \cup DataOf(Ind(i), ItsSlot(p))
    BY <1>8 DEF Touched
  <2>3. B!Data(ItsSlot(p)) \in DataOf(Ind(i), ItsSlot(p))
    BY <1>2 DEF DataOf
  <2>4. DataOf(Ind(i), ItsSlot(p)') \subseteq DataOf(Ind(i), ItsSlot(p)) \cup DataOf(0, ItsSlot(p)')
    BY DEF DataOf
  <2> QED BY <2>1, <2>2, <2>3, <2>4
<1> HIDE DEF T
<1>17. Cardinality(Touched(p)') \in Nat /\ Cardinality(Touched(p)') <= Cardinality(T)
  <2>1. IsFiniteSet(Touched(p)') /\ Cardinality(Touched(p)') <= Cardinality(T)
    BY <1>15, <1>16, FS_Subset
  <2> QED BY <2>1, FS_CardinalityType
<1>18. Cardinality(Touched(p)') <= Allowance(p)'
  <2>1. Has(ItsSlot(p)') \in {0, 1}
    BY DEF Has
  <2>2. Cardinality(Touched(p)) <= Allowance(p)
    BY <1>1 DEF Fits
  <2> QED BY <1>13, <1>14, <1>15, <1>17, <2>1, <2>2
<1>19. IsFiniteSet(op'[p].logged)
  <2>1. IsFiniteSet(op[p].logged)
    BY <1>1 DEF Fits
  <2>2. op'[p].logged = op[p].logged \cup {B!Data(ItsSlot(p))}
    BY <1>4
  <2>3. \A e : IsFiniteSet(op[p].logged \cup {e})
    BY <2>1, FS_AddElement
  <2> QED BY <2>2, <2>3
<1>20. Cardinality(Touched(p))' = Cardinality(Touched(p)')
  BY DEF Cardinality
<1>21. Fits(p)'
  BY <1>18, <1>19, <1>20 DEF Fits, IsFiniteSet
<1> QED BY <1>4, <1>7, <1>10, <1>21

(* Writei copies into a block, and goes on or ends.                        *)
LEMMA CopyStep ==
  ASSUME FilesInv, NEW p \in FsProcs, B!Copy(p)
  PROVE  FilesInv'
<1>1. /\ op[p].at = "turn" /\ B!Slot(op[p].ip, B!Bn(p)) # 0 /\ UNCHANGED <<fip, addrs, marked, halted>>
      /\ cached' = [cached EXCEPT ![ItsSlot(p)] = B!Filled(p, B!M(p))]
      /\ stored' = [stored EXCEPT ![ItsSlot(p)] = B!Filled(p, B!M(p))]
      /\ torn' \subseteq torn
  BY DEF B!Copy, B!LogWrite, B!Nil, ItsSlot
<1>2. /\ B!At(p) = foff[op[p].f] + op[p].tot /\ foff[op[p].f] \in Nat /\ op[p].tot \in Nat
      /\ B!M(p) \in Nat /\ B!Piece(op[p]) \in Nat
  BY <1>1, TurnIs DEF FilesInv
<1>3. ItsSlot(p) \in B!DataBlocks /\ \A i \in Files : ItsSlot(p) # Ind(i)
  BY <1>1, CopyIs
<1>4. B!Filled(p, B!M(p)) \in [0..(BSIZE - 1) -> Nat]
  <2>1. B!M(p) <= B!M(p)
    BY <1>2
  <2> QED BY <1>1, <1>2, <2>1, CopyIs
<1>5. /\ cached' \in [B!DataBlocks -> [0..(BSIZE - 1) -> Nat]]
      /\ stored' \in [B!DataBlocks -> [0..(BSIZE - 1) -> Nat]]
      /\ torn' \subseteq Files \X Nat
  BY <1>1, <1>4 DEF FilesInv, FileTypes
<1>6. Steady
  <2> DEFINE y == B!Filled(p, B!M(p))
  <2>1. /\ cached' = [cached EXCEPT ![ItsSlot(p)] = y] /\ stored' = [stored EXCEPT ![ItsSlot(p)] = y]
        /\ UNCHANGED <<addrs, marked>>
    BY <1>1
  <2> HIDE DEF y
  <2> QED BY <1>3, <2>1, ContentsSteady
<1>7. CASE op[p].tot + B!M(p) = B!Piece(op[p])
  <2>1. B!Written(p, B!Piece(op[p]))
    BY <1>7 DEF B!Copy
  <2>2. foff[op[p].f] + B!Piece(op[p]) = B!At(p) + B!M(p) /\ B!M(p) <= B!M(p)
        /\ B!Piece(op[p]) <= B!Piece(op[p])
    BY <1>2, <1>7
  <2>3. \A k \in 0..(B!MAXFILE - 1) : k * BSIZE < foff[op[p].f] + B!Piece(op[p]) => B!Slot(op[p].ip, k) # 0
    BY <1>1, <1>2, <2>2, Enough
  <2> QED BY <1>1, <1>2, <1>5, <1>6, <2>1, <2>2, <2>3, WrittenStep
<1>8. CASE op[p].tot + B!M(p) # B!Piece(op[p])
  <2>1. /\ op' = [op EXCEPT ![p].tot = @ + B!M(p), ![p].logged = @ \cup {B!Data(ItsSlot(p))}]
        /\ UNCHANGED <<foff, size>>
    BY <1>8 DEF B!Copy, ItsSlot
  <2>2. /\ op'[p] \in FileCalls
        /\ op'[p].at = op[p].at /\ op'[p].f = op[p].f /\ op'[p].ip = op[p].ip /\ op'[p].n = op[p].n
        /\ op'[p].i = op[p].i
        /\ InBounds(p)' /\ Backed(p)' /\ Fits(p)'
    BY <1>1, <1>6, <1>8, <2>1, GoesOn
  <2>3. op \in [FsProcs -> FileCalls]
    BY DEF FilesInv, FileTypes
  <2>4. (\A q \in FsProcs : q # p => op'[q] = op[q]) /\ op' \in [FsProcs -> FileCalls]
    BY <2>1, <2>2, <2>3
  <2>5. FileTypes'
    BY <1>1, <1>5, <2>1, <2>4 DEF FilesInv, FileTypes, FileCalls, LogEntries, B!Data, B!BitmapBlock, B!DataBlocks
  <2>6. Calling'
    <3> SUFFICES ASSUME NEW q \in FsProcs
                 PROVE  /\ op'[q].at # "user" => op'[q].ip \in Files
                        /\ op'[q].at \in {"piece", "turn"} =>
                             /\ op'[q].f \in Opens /\ fip'[op'[q].f] = op'[q].ip /\ op'[q].ip # 0
                             /\ op'[q].n \in Sizes /\ op'[q].i < op'[q].n
                        /\ op'[q].at = "piece" => op'[q].tot = 0 /\ op'[q].logged = {}
      BY DEF Calling
    <3>1. CASE q # p
      BY <1>1, <2>4, <3>1 DEF FilesInv, Calling
    <3>2. CASE q = p
      BY <1>1, <2>2, <3>2 DEF FilesInv, Calling
    <3> QED BY <3>1, <3>2
  <2>7. Alone' /\ \A i \in Files : B!Locked(i) => B!Locked(i)'
    <3>1. \A q \in FsProcs : op'[q].at = op[q].at /\ op'[q].ip = op[q].ip
      BY <2>2, <2>4
    <3> QED BY <3>1 DEF FilesInv, Alone, B!InInode, B!Locked
  <2>8. Turns' /\ Freed' /\ Owned' /\ Kept' /\ B!NoHoles'
    <3> DEFINE Moved == {p}
    <3>1. Moved \in SUBSET FsProcs /\ \A q \in FsProcs : q \in Moved <=> q = p
      OBVIOUS
    <3>2. op[p].at # "trunc" /\ op'[p].at # "trunc"
      BY <1>1, <2>2
    <3> HIDE DEF Moved
    <3> QED BY <1>6, <2>1, <2>2, <2>4, <2>7, <3>1, <3>2, QuietStep
  <2> QED BY <2>5, <2>6, <2>7, <2>8 DEF FilesInv
<1> QED BY <1>7, <1>8
-----------------------------------------------------------------------------
(* What bfree gives back, and what stays.                                  *)
LEMMA FreeIs ==
  ASSUME FilesInv, NEW p \in FsProcs, B!Free(p), NEW i \in Files, i = op[p].ip
  PROVE  \E k0 \in Numbers :
           /\ op[p].k <= k0 /\ Good(i, k0) /\ B!ToFree(i, k0) # 0 /\ B!ToFree(i, k0) \in marked
           /\ \A k \in Numbers : op[p].k <= k /\ k < k0 => B!ToFree(i, k) = 0
           /\ \A k \in Numbers : Good(i, k) <=> op[p].k <= k
           /\ marked' = marked \ {B!ToFree(i, k0)}
           /\ addrs' \in [Files -> [0..NDIRECT -> B!DataBlocks \cup {0}]]
           /\ \A j \in Files : j # i => addrs'[j] = addrs[j]
           /\ \A j \in 0..NDIRECT :
                addrs'[i][j] = IF (k0 < NDIRECT /\ j = k0) \/ (k0 = B!MAXFILE /\ j = NDIRECT) THEN 0 ELSE addrs[i][j]
           /\ cached' = [cached EXCEPT ![B!ToFree(i, k0)] = B!Stale]
           /\ stored' = [stored EXCEPT ![B!ToFree(i, k0)] = B!Stale]
           /\ op' = [op EXCEPT ![p].k = k0 + 1]
           /\ UNCHANGED <<fip, foff, size, torn, halted>>
<1>1. op[p].at = "trunc" /\ op[p] \in FileCalls /\ op[p].k \in Nat
  <2>1. op[p] \in FileCalls
    BY DEF FilesInv, FileTypes
  <2>2. op[p].k \in Nat
    BY <2>1, FileNumbers DEF FileCalls
  <2> QED BY <2>1, <2>2 DEF B!Free
<1>2. PICK k0 \in op[p].k..B!MAXFILE :
        /\ B!ToFree(i, k0) # 0 /\ \A j \in op[p].k..(k0 - 1) : B!ToFree(i, j) = 0
        /\ IF B!ToFree(i, k0) \notin marked
           THEN halted' = "freeing free block" /\ UNCHANGED <<addrs, marked, cached, stored, op>>
           ELSE /\ marked' = marked \ {B!ToFree(i, k0)}
                /\ addrs' = [addrs EXCEPT ![i] =
                               [j \in DOMAIN @ |->
                                  IF (k0 < NDIRECT /\ j = k0) \/ (k0 = B!MAXFILE /\ j = NDIRECT) THEN 0
                                  ELSE @[j]]]
                /\ cached' = [cached EXCEPT ![B!ToFree(i, k0)] = B!Stale]
                /\ stored' = [stored EXCEPT ![B!ToFree(i, k0)] = B!Stale]
                /\ op' = [op EXCEPT ![p].k = k0 + 1]
                /\ UNCHANGED halted
  BY DEF B!Free, B!Nil
<1>3. k0 \in Numbers /\ op[p].k <= k0
  BY <1>1, FileNumbers DEF Numbers
<1>4. \A k \in Numbers : Good(i, k) <=> op[p].k <= k
  <2>1. \A q \in FsProcs : op[q].at = "trunc" /\ op[q].ip = i => q = p
    BY <1>1 DEF FilesInv, Alone, B!InInode
  <2>2. \A k \in Numbers : k \in Int
    BY FileNumbers DEF Numbers
  <2> QED BY <1>1, <2>1, <2>2 DEF Good
<1>5. Good(i, k0) /\ B!ToFree(i, k0) \in marked
  BY <1>2, <1>3, <1>4 DEF FilesInv, Owned
<1>6. ASSUME NEW k \in Numbers, op[p].k <= k, k < k0
      PROVE  B!ToFree(i, k) = 0
  <2>1. k \in Nat /\ k0 \in Nat
    BY <1>3, FileNumbers DEF Numbers
  <2>2. k \in op[p].k..(k0 - 1)
    BY <1>1, <1>6, <2>1
  <2> QED BY <1>2, <2>2
<1>7. addrs \in [Files -> [0..NDIRECT -> B!DataBlocks \cup {0}]]
  BY DEF FilesInv, FileTypes
<1> DEFINE a == [j \in 0..NDIRECT |-> IF (k0 < NDIRECT /\ j = k0) \/ (k0 = B!MAXFILE /\ j = NDIRECT) THEN 0
                                      ELSE addrs[i][j]]
<1>8. addrs' = [addrs EXCEPT ![i] = a]
  BY <1>2, <1>5, <1>7
<1>9. a \in [0..NDIRECT -> B!DataBlocks \cup {0}]
  BY <1>7
<1>10. \A j \in 0..NDIRECT : a[j] = IF (k0 < NDIRECT /\ j = k0) \/ (k0 = B!MAXFILE /\ j = NDIRECT) THEN 0
                                    ELSE addrs[i][j]
  OBVIOUS
<1> HIDE DEF a
<1>11. /\ addrs' \in [Files -> [0..NDIRECT -> B!DataBlocks \cup {0}]] /\ addrs'[i] = a
       /\ \A j \in Files : j # i => addrs'[j] = addrs[j]
  BY <1>7, <1>8, <1>9
<1>12. \A j \in 0..NDIRECT :
          addrs'[i][j] = IF (k0 < NDIRECT /\ j = k0) \/ (k0 = B!MAXFILE /\ j = NDIRECT) THEN 0 ELSE addrs[i][j]
  BY <1>10, <1>11
<1>13. UNCHANGED <<fip, foff, size, torn, halted>>
  BY <1>2, <1>5 DEF B!Free
<1>14. /\ marked' = marked \ {B!ToFree(i, k0)}
       /\ cached' = [cached EXCEPT ![B!ToFree(i, k0)] = B!Stale]
       /\ stored' = [stored EXCEPT ![B!ToFree(i, k0)] = B!Stale]
       /\ op' = [op EXCEPT ![p].k = k0 + 1]
  BY <1>2, <1>5
<1> QED BY <1>2, <1>3, <1>4, <1>5, <1>6, <1>11, <1>12, <1>13, <1>14

(* Itrunc frees a block.                                                   *)
LEMMA FreeStep ==
  ASSUME FilesInv, NEW p \in FsProcs, B!Free(p)
  PROVE  FilesInv'
<1>0. op[p].at = "trunc" /\ op[p].ip \in Files
  BY DEF B!Free, FilesInv, Calling
<1>1. PICK i \in Files : i = op[p].ip
  BY <1>0
<1>2. PICK k0 \in Numbers :
           /\ op[p].k <= k0 /\ Good(i, k0) /\ B!ToFree(i, k0) # 0 /\ B!ToFree(i, k0) \in marked
           /\ \A k \in Numbers : op[p].k <= k /\ k < k0 => B!ToFree(i, k) = 0
           /\ \A k \in Numbers : Good(i, k) <=> op[p].k <= k
           /\ marked' = marked \ {B!ToFree(i, k0)}
           /\ addrs' \in [Files -> [0..NDIRECT -> B!DataBlocks \cup {0}]]
           /\ \A j \in Files : j # i => addrs'[j] = addrs[j]
           /\ \A j \in 0..NDIRECT :
                addrs'[i][j] = IF (k0 < NDIRECT /\ j = k0) \/ (k0 = B!MAXFILE /\ j = NDIRECT) THEN 0 ELSE addrs[i][j]
           /\ cached' = [cached EXCEPT ![B!ToFree(i, k0)] = B!Stale]
           /\ stored' = [stored EXCEPT ![B!ToFree(i, k0)] = B!Stale]
           /\ op' = [op EXCEPT ![p].k = k0 + 1]
           /\ UNCHANGED <<fip, foff, size, torn, halted>>
  BY <1>1, FreeIs
<1> DEFINE b == B!ToFree(i, k0)
<1>3. /\ B!MAXFILE = NDIRECT + BSIZE /\ NDIRECT \in Nat /\ NDIRECT > 0 /\ BSIZE \in Nat /\ BSIZE > 0
      /\ \A k \in Numbers : k \in Nat /\ k <= B!MAXFILE
      /\ B!MAXFILE \in Numbers /\ 0..(B!MAXFILE - 1) \subseteq Numbers /\ 0..NDIRECT \subseteq Numbers
      /\ \A k \in 0..(B!MAXFILE - 1) : k < B!MAXFILE
  BY FileNumbers DEF Numbers
<1>4. /\ op \in [FsProcs -> FileCalls] /\ marked \subseteq B!DataBlocks
      /\ cached \in [B!DataBlocks -> [0..(BSIZE - 1) -> Nat]]
      /\ stored \in [B!DataBlocks -> [0..(BSIZE - 1) -> Nat]]
  BY DEF FilesInv, FileTypes
<1>5. b \in B!DataBlocks /\ b # 0 /\ b \in marked
  BY <1>2, <1>4
<1>6. \A j \in Files : Ind(j) # 0 =>
        Ind(j) \in B!DataBlocks /\ (Ind(j) = b => j = i /\ k0 = B!MAXFILE)
  <2>1. \A j \in Files : Ind(j) # 0 => Good(j, B!MAXFILE) /\ B!ToFree(j, B!MAXFILE) = Ind(j)
                                       /\ Ind(j) \in B!DataBlocks
    BY <1>3, IndirectGood, NumbersType DEF FilesInv
  <2> QED BY <1>2, <1>3, <2>1 DEF FilesInv, Owned
<1>7. /\ cached' \in [B!DataBlocks -> [0..(BSIZE - 1) -> Nat]]
      /\ stored' \in [B!DataBlocks -> [0..(BSIZE - 1) -> Nat]]
      /\ \A c \in B!DataBlocks : c # b => cached'[c] = cached[c] /\ stored'[c] = stored[c]
  BY <1>2, <1>4, FileNumbers
<1>8. /\ op'[p] \in FileCalls /\ op'[p].at = "trunc" /\ op'[p].ip = i /\ op'[p].k = k0 + 1
      /\ \A q \in FsProcs : q # p => op'[q] = op[q]
  <2>1. k0 + 1 \in 0..(B!MAXFILE + 1)
    BY <1>2, FileNumbers DEF Numbers
  <2>2. PICK o \in FileCalls : o = op[p]
    BY <1>4
  <2>3. PICK t : t = op'[p]
    OBVIOUS
  <2>4. t = [o EXCEPT !.k = k0 + 1]
    BY <1>2, <1>4, <2>2, <2>3
  <2>5. t \in FileCalls /\ t.at = o.at /\ t.ip = o.ip /\ t.k = k0 + 1
    BY <2>1, <2>4 DEF FileCalls
  <2>6. \A q \in FsProcs : q # p => op'[q] = op[q]
    BY <1>2, <1>4
  <2> QED BY <1>0, <1>1, <2>2, <2>3, <2>5, <2>6
<1>9. op' \in [FsProcs -> FileCalls]
  BY <1>2, <1>4, <1>8
<1> HIDE DEF b
<1>10. FileTypes'
  <2>1. marked' \subseteq B!DataBlocks
    BY <1>2, <1>4
  <2> QED BY <1>2, <1>7, <1>9, <2>1 DEF FilesInv, FileTypes, FileCalls, LogEntries, B!Data, B!BitmapBlock, B!DataBlocks
<1>11. Calling'
  <2> SUFFICES ASSUME NEW q \in FsProcs
               PROVE  /\ op'[q].at # "user" => op'[q].ip \in Files
                      /\ op'[q].at \in {"piece", "turn"} =>
                           /\ op'[q].f \in Opens /\ fip'[op'[q].f] = op'[q].ip /\ op'[q].ip # 0
                           /\ op'[q].n \in Sizes /\ op'[q].i < op'[q].n
                      /\ op'[q].at = "piece" => op'[q].tot = 0 /\ op'[q].logged = {}
    BY DEF Calling
  <2>1. CASE q # p
    BY <1>2, <1>8, <2>1 DEF FilesInv, Calling
  <2>2. CASE q = p
    BY <1>8, <2>2
  <2> QED BY <2>1, <2>2
<1>12. \A q \in FsProcs : op'[q].at = op[q].at /\ op'[q].ip = op[q].ip
  BY <1>0, <1>1, <1>8
<1>13. Alone' /\ \A j \in Files : B!Locked(j) <=> B!Locked(j)'
  BY <1>12 DEF FilesInv, Alone, B!InInode, B!Locked
<1>14. \A q \in FsProcs : q # p /\ B!InInode(q) => op[q].ip # i
  BY <1>0, <1>1 DEF FilesInv, Alone, B!InInode
<1>15. ASSUME NEW j \in Files, j # i
       PROVE  /\ Ind(j)' = Ind(j) /\ \A k \in Numbers : B!Slot(j, k)' = B!Slot(j, k)
              /\ Ind(j) # 0 => cached'[Ind(j)] = cached[Ind(j)] /\ stored'[Ind(j)] = stored[Ind(j)]
  <2>1. addrs'[j] = addrs[j]
    BY <1>2, <1>15
  <2>2. Ind(j) # 0 => cached'[Ind(j)] = cached[Ind(j)] /\ stored'[Ind(j)] = stored[Ind(j)]
    BY <1>6, <1>7, <1>15
  <2> QED BY <2>1, <2>2 DEF Ind, B!Slot, B!Nil
<1>16. k0 = B!MAXFILE => Ind(i)' = 0
  BY <1>2, <1>3 DEF Ind
<1>17. ASSUME k0 # B!MAXFILE
       PROVE  /\ Ind(i)' = Ind(i)
              /\ Ind(i) # 0 => cached'[Ind(i)] = cached[Ind(i)] /\ stored'[Ind(i)] = stored[Ind(i)]
  <2>1. addrs'[i][NDIRECT] = addrs[i][NDIRECT]
    BY <1>2, <1>3, <1>17
  <2> QED BY <1>6, <1>7, <1>17, <2>1 DEF Ind
<1>18. Kept'
  <2> SUFFICES ASSUME NEW j \in Files, Ind(j)' # 0
               PROVE  /\ cached'[Ind(j)'] = stored'[Ind(j)']
                      /\ \A c \in 0..(BSIZE - 1) : cached'[Ind(j)'][c] \in B!DataBlocks \cup {0}
    BY DEF Kept, B!DataBlocks
  <2>1. Ind(j)' = Ind(j) /\ cached'[Ind(j)] = cached[Ind(j)] /\ stored'[Ind(j)] = stored[Ind(j)]
    BY <1>15, <1>16, <1>17
  <2>2. cached[Ind(j)] = stored[Ind(j)] /\ \A c \in 0..(BSIZE - 1) : cached[Ind(j)][c] \in B!DataBlocks \cup {0}
    BY <2>1 DEF FilesInv, Kept
  <2> QED BY <2>1, <2>2
<1>19. \A j \in Files, k \in Numbers : Good(j, k)' <=> Good(j, k) /\ ~(j = i /\ k <= k0)
  <2> SUFFICES ASSUME NEW j \in Files, NEW k \in Numbers
               PROVE  Good(j, k)' <=> Good(j, k) /\ ~(j = i /\ k <= k0)
    OBVIOUS
  <2>1. k \in Nat /\ k0 \in Nat /\ op[p].k \in Int
    <3>1. op[p].k \in Int
      BY <1>4, FileNumbers DEF FileCalls
    <3> QED BY <1>3, <3>1
  <2>2. CASE j # i
    <3>1. \A q \in FsProcs : op[q].at = "trunc" /\ op[q].ip = j => q # p
      BY <1>1, <2>2
    <3> QED BY <1>8, <1>12, <2>2, <3>1 DEF Good
  <2>3. CASE j = i
    <3>1. \A q \in FsProcs : op[q].at = "trunc" /\ op[q].ip = i => q = p
      BY <1>14 DEF B!InInode
    <3>2. Good(i, k)' <=> k >= k0 + 1
      BY <1>8, <1>12, <3>1 DEF Good
    <3>3. Good(i, k) <=> op[p].k <= k
      BY <1>2
    <3>4. op[p].k <= k0
      BY <1>2
    <3> QED BY <2>1, <2>3, <3>2, <3>3, <3>4
  <2> QED BY <2>2, <2>3
<1>20. ASSUME NEW j \in Files, NEW k \in Numbers, Good(j, k)'
       PROVE  B!ToFree(j, k)' = B!ToFree(j, k)
  <2>1. CASE j # i
    BY <1>15, <2>1 DEF B!ToFree, Ind
  <2>2. CASE j = i
    <3>1. k0 < k
      BY <1>3, <1>19, <1>20, <2>2
    <3>2. k0 # B!MAXFILE
      BY <1>3, <3>1
    <3>3. CASE k = B!MAXFILE
      BY <1>17, <2>2, <3>2, <3>3 DEF B!ToFree, Ind
    <3>4. CASE k < NDIRECT
      <4>1. addrs'[i][k] = addrs[i][k]
        BY <1>2, <1>3, <3>1, <3>2, <3>4
      <4>2. k # B!MAXFILE
        BY <1>3, <3>4
      <4> QED BY <2>2, <3>4, <4>1, <4>2 DEF B!ToFree, B!Slot
    <3>5. CASE k # B!MAXFILE /\ ~(k < NDIRECT)
      BY <1>17, <2>2, <3>2, <3>5 DEF B!ToFree, B!Slot, Ind, B!Nil
    <3> QED BY <3>3, <3>4, <3>5
  <2> QED BY <2>1, <2>2
<1>21. Owned'
  <2>1. \A k \in Numbers : k < k0 /\ Good(i, k) => B!ToFree(i, k) = 0
    BY <1>2
  <2>2. Owned
    BY DEF FilesInv
  <2> QED BY <1>2, <1>4, <1>19, <1>20, <2>1, <2>2, GivenOwned
<1>22. Freed'
  <2> SUFFICES ASSUME NEW q \in FsProcs, op'[q].at = "trunc"
               PROVE  /\ \A j \in 0..(NDIRECT - 1) : j < op'[q].k => addrs'[op'[q].ip][j] = 0
                      /\ op'[q].k > B!MAXFILE => addrs'[op'[q].ip][NDIRECT] = 0
    BY DEF Freed, Ind
  <2>1. CASE q # p
    <3>1. op'[q] = op[q] /\ op[q].ip \in Files /\ op[q].ip # i
      BY <1>8, <1>14, <2>1 DEF FilesInv, Calling, B!InInode
    <3>2. addrs'[op[q].ip] = addrs[op[q].ip]
      BY <1>2, <3>1
    <3> QED BY <3>1, <3>2 DEF FilesInv, Freed, Ind
  <2>2. CASE q = p
    <3>1. op'[q].k = k0 + 1 /\ op'[q].ip = i
      BY <1>8, <2>2
    <3>2. k0 + 1 > B!MAXFILE => addrs'[i][NDIRECT] = 0
      BY <1>3, <1>16 DEF Ind
    <3>3. ASSUME NEW j \in 0..(NDIRECT - 1), j < k0 + 1
          PROVE  addrs'[i][j] = 0
      <4>1. j \in 0..NDIRECT /\ j \in Numbers /\ j < NDIRECT /\ j # B!MAXFILE /\ j \in Int /\ k0 \in Int
        BY <1>3
      <4>2. CASE j = k0
        BY <1>2, <4>1, <4>2
      <4>3. CASE j # k0
        <5>1. addrs[i][j] = 0
          <6>1. CASE j < op[p].k
            BY <1>0, <1>1, <6>1 DEF FilesInv, Freed
          <6>2. CASE op[p].k <= j
            <7>1. j < k0
              BY <3>3, <4>1, <4>3
            <7>2. B!ToFree(i, j) = 0
              BY <1>2, <4>1, <6>2, <7>1
            <7> QED BY <4>1, <7>2 DEF B!ToFree, B!Slot
          <6>3. op[p].k \in Int
            BY <1>4, FileNumbers DEF FileCalls
          <6> QED BY <4>1, <6>1, <6>2, <6>3
        <5> QED BY <1>2, <4>1, <4>3, <5>1
      <4> QED BY <4>2, <4>3
    <3> QED BY <3>1, <3>2, <3>3
  <2> QED BY <2>1, <2>2
<1>23. Turns'
  <2> SUFFICES ASSUME NEW q \in FsProcs, op'[q].at = "turn"
               PROVE  InBounds(q)' /\ Backed(q)' /\ Fits(q)'
    BY DEF Turns
  <2>1. q # p /\ op'[q] = op[q] /\ op[q].at = "turn" /\ op[q].ip # i
    BY <1>0, <1>8, <1>12, <1>14 DEF B!InInode
  <2>2. op[q].ip \in Files /\ B!Bn(q) \in 0..(B!MAXFILE - 1)
    BY <2>1, TurnIs DEF FilesInv
  <2>3. InBounds(q) /\ Backed(q) /\ Fits(q)
    BY <2>1 DEF FilesInv, Turns
  <2>4. PICK j \in Files : j = op[q].ip
    BY <2>2
  <2>5. Ind(j)' = Ind(j) /\ \A k \in 0..(B!MAXFILE - 1) : B!Slot(j, k)' = B!Slot(j, k)
    BY <1>3, <1>15, <2>1, <2>4
  <2>6. /\ Ind(op[q].ip)' = Ind(op[q].ip)
        /\ \A k \in 0..(B!MAXFILE - 1) : B!Slot(op[q].ip, k)' = B!Slot(op[q].ip, k)
    BY <2>1, <2>4, <2>5 DEF Ind, B!Slot
  <2> QED BY <1>2, <2>1, <2>2, <2>3, <2>6, Undisturbed
<1>24. B!NoHoles'
  <2> SUFFICES ASSUME NEW j \in Files, ~B!Locked(j)', NEW k \in 0..(B!MAXFILE - 1), k * BSIZE < size'[j]
               PROVE  B!Slot(j, k)' # 0
    BY DEF B!NoHoles, B!Nil
  <2>1. ~B!Locked(j) /\ j # i
    BY <1>0, <1>1, <1>13 DEF B!Locked, B!InInode
  <2>2. B!Slot(j, k) # 0
    BY <1>2, <2>1 DEF FilesInv, B!NoHoles, B!Nil
  <2> QED BY <1>3, <1>15, <2>1, <2>2
<1> QED BY <1>10, <1>11, <1>13, <1>18, <1>21, <1>22, <1>23, <1>24 DEF FilesInv

(* Itrunc has nothing more to free.                                        *)
LEMMA TruncatedStep ==
  ASSUME FilesInv, NEW p \in FsProcs, B!Truncated(p)
  PROVE  FilesInv'
<1>0. /\ op[p].at = "trunc" /\ op[p].ip \in Files
      /\ \A k \in op[p].k..B!MAXFILE : B!ToFree(op[p].ip, k) = 0
      /\ size' = [size EXCEPT ![op[p].ip] = 0] /\ op' = [op EXCEPT ![p] = B!Idle]
      /\ UNCHANGED <<fip, foff, addrs, marked, cached, stored, torn, halted>>
  BY DEF B!Truncated, FilesInv, Calling, B!Nil
<1>1. PICK i \in Files : i = op[p].ip
  BY <1>0
<1>2. op \in [FsProcs -> FileCalls]
  BY DEF FilesInv, FileTypes
<1>3. size \in [Files -> 0..(B!MAXFILE * BSIZE)] /\ B!MAXFILE * BSIZE \in Int /\ 0 <= B!MAXFILE * BSIZE
  <2>1. size \in [Files -> 0..(B!MAXFILE * BSIZE)]
    BY DEF FilesInv, FileTypes
  <2>2. B!MAXFILE * BSIZE \in Int /\ 0 * BSIZE <= B!MAXFILE * BSIZE
    BY FileNumbers, MultiplesOrdered
  <2> QED BY <2>1, <2>2, FileNumbers
<1>4. /\ \A q \in FsProcs : q # p => op'[q] = op[q]
      /\ op'[p].at = "user" /\ op' \in [FsProcs -> FileCalls]
  BY <1>0, <1>2, IdleIs
<1>5. /\ size' \in [Files -> 0..(B!MAXFILE * BSIZE)]
      /\ size'[i] = 0 /\ \A j \in Files : j # i => size'[j] = size[j]
  BY <1>0, <1>1, <1>3
<1>6. FileTypes'
  BY <1>0, <1>4, <1>5 DEF FilesInv, FileTypes, FileCalls, LogEntries, B!Data, B!BitmapBlock, B!DataBlocks
<1>7. Calling'
  BY <1>0, <1>4 DEF FilesInv, Calling
<1>8. Alone'
  BY <1>4 DEF FilesInv, Alone, B!InInode
<1>9. Freed'
  BY <1>0, <1>4 DEF FilesInv, Freed, Ind
<1>10. Steady
  BY <1>0 DEF Steady
<1>11. \A j \in Files, k \in Numbers :
         Ind(j)' = Ind(j) /\ B!Slot(j, k)' = B!Slot(j, k) /\ B!ToFree(j, k)' = B!ToFree(j, k)
  BY <1>0 DEF Ind, B!Slot, B!ToFree
<1>12. Kept'
  BY <1>0 DEF FilesInv, Kept, Ind, B!DataBlocks
<1>13. \A k \in Numbers : B!ToFree(i, k) = 0
  <2> SUFFICES ASSUME NEW k \in Numbers
               PROVE  B!ToFree(i, k) = 0
    OBVIOUS
  <2>1. /\ op[p].k \in Nat /\ k \in Nat /\ k <= B!MAXFILE /\ B!MAXFILE \in Numbers /\ B!MAXFILE \in Nat
        /\ NDIRECT \in Nat /\ NDIRECT < B!MAXFILE
    BY <1>2, FileNumbers DEF FileCalls, Numbers
  <2>2. Ind(i) = 0
    <3>1. CASE op[p].k <= B!MAXFILE
      <4>1. B!ToFree(i, B!MAXFILE) = 0
        BY <1>0, <1>1, <2>1, <3>1
      <4> QED BY <4>1 DEF B!ToFree, Ind
    <3>2. CASE op[p].k > B!MAXFILE
      BY <1>0, <1>1, <3>2 DEF FilesInv, Freed
    <3> QED BY <2>1, <3>1, <3>2
  <2>3. CASE op[p].k <= k
    BY <1>0, <1>1, <2>1, <2>3
  <2>4. CASE k < op[p].k /\ k < NDIRECT
    <3>1. addrs[i][k] = 0
      BY <1>0, <1>1, <2>1, <2>4 DEF FilesInv, Freed
    <3>2. k # B!MAXFILE
      BY <2>1, <2>4
    <3> QED BY <2>4, <3>1, <3>2 DEF B!ToFree, B!Slot
  <2>5. CASE ~(k < NDIRECT)
    BY <2>2, <2>5 DEF B!ToFree, B!Slot, Ind, B!Nil
  <2> QED BY <2>1, <2>3, <2>4, <2>5
<1>14. \A j \in Files, k \in Numbers : B!ToFree(j, k) # 0 => (Good(j, k)' <=> Good(j, k))
  <2> SUFFICES ASSUME NEW j \in Files, NEW k \in Numbers, B!ToFree(j, k) # 0
               PROVE  Good(j, k)' <=> Good(j, k)
    OBVIOUS
  <2>1. j # i
    BY <1>13
  <2>2. \A q \in FsProcs : op[q].at = "trunc" /\ op[q].ip = j => q # p
    BY <1>1, <2>1
  <2>3. op'[p].at # "trunc"
    BY <1>4
  <2> QED BY <1>4, <2>2, <2>3 DEF Good
<1>15. Owned'
  <2>0. marked' = marked /\ Numbers' = Numbers
    BY <1>0 DEF Numbers
  <2>1. \A j \in Files, k \in Numbers : Good(j, k)' /\ B!ToFree(j, k)' # 0 => B!ToFree(j, k)' \in marked'
    BY <1>11, <1>14, <2>0 DEF FilesInv, Owned
  <2>2. ASSUME NEW j \in Files, NEW h \in Files, NEW k \in Numbers, NEW l \in Numbers,
               Good(j, k)', Good(h, l)', B!ToFree(j, k)' # 0, B!ToFree(j, k)' = B!ToFree(h, l)'
        PROVE  j = h /\ k = l
    <3>1. B!ToFree(j, k) # 0 /\ B!ToFree(j, k) = B!ToFree(h, l) /\ B!ToFree(h, l) # 0
      BY <1>11, <2>2
    <3>2. Good(j, k) /\ Good(h, l)
      BY <1>14, <2>2, <3>1
    <3> QED BY <3>1, <3>2 DEF FilesInv, Owned
  <2>3. ASSUME NEW c \in marked'
        PROVE  \E j \in Files, k \in Numbers : Good(j, k)' /\ B!ToFree(j, k)' = c
    <3>1. c \in marked
      BY <2>0, <2>3
    <3>2. PICK j \in Files, k \in Numbers : Good(j, k) /\ B!ToFree(j, k) = c
      BY <3>1 DEF FilesInv, Owned
    <3>3. c # 0
      <4>1. c \in B!DataBlocks
        BY <3>1 DEF FilesInv, FileTypes
      <4> QED BY <4>1, FileNumbers DEF B!DataBlocks
    <3> QED BY <1>11, <1>14, <3>2, <3>3
  <2> QED BY <2>0, <2>1, <2>2, <2>3 DEF Owned
<1>16. 0..(B!MAXFILE - 1) \subseteq Numbers /\ 0 \in Numbers
  BY FileNumbers DEF Numbers
<1>17. \A q \in FsProcs : q # p /\ B!InInode(q) => op[q].ip # i
  BY <1>0, <1>1 DEF FilesInv, Alone, B!InInode
<1>18. Turns'
  <2> SUFFICES ASSUME NEW q \in FsProcs, op'[q].at = "turn"
               PROVE  InBounds(q)' /\ Backed(q)' /\ Fits(q)'
    BY DEF Turns
  <2>1. q # p /\ op'[q] = op[q] /\ op[q].at = "turn"
    BY <1>4
  <2>2. op[q].ip \in Files /\ op[q].ip # i /\ B!Bn(q) \in 0..(B!MAXFILE - 1)
    BY <1>17, <2>1, TurnIs DEF FilesInv, B!InInode
  <2>3. InBounds(q) /\ Backed(q) /\ Fits(q)
    BY <2>1 DEF FilesInv, Turns
  <2>4. foff'[op[q].f] = foff[op[q].f] /\ size'[op[q].ip] = size[op[q].ip]
    BY <1>0, <1>5, <2>2
  <2>5. PICK j \in Files : j = op[q].ip
    BY <2>2
  <2>6. /\ Ind(op[q].ip)' = Ind(op[q].ip)
        /\ \A k \in 0..(B!MAXFILE - 1) : B!Slot(op[q].ip, k)' = B!Slot(op[q].ip, k)
    <3>1. Ind(j)' = Ind(j) /\ \A k \in 0..(B!MAXFILE - 1) : B!Slot(j, k)' = B!Slot(j, k)
      BY <1>11, <1>16
    <3> QED BY <2>1, <2>5, <3>1 DEF Ind, B!Slot
  <2> QED BY <2>1, <2>2, <2>3, <2>4, <2>6, Undisturbed
<1>19. B!NoHoles'
  <2> SUFFICES ASSUME NEW j \in Files, ~B!Locked(j)', NEW k \in 0..(B!MAXFILE - 1), k * BSIZE < size'[j]
               PROVE  B!Slot(j, k)' # 0
    BY DEF B!NoHoles, B!Nil
  <2>0. 0 * BSIZE <= k * BSIZE /\ 0 * BSIZE = 0 /\ k * BSIZE \in Int
    BY FileNumbers, MultiplesOrdered
  <2>1. j # i
    BY <1>5, <2>0
  <2>2. ~B!Locked(j)
    <3> SUFFICES ASSUME NEW q \in FsProcs, B!InInode(q), op[q].ip = j
                 PROVE  FALSE
      BY DEF B!Locked
    <3>1. op'[q] = op[q]
      BY <1>1, <1>4, <2>1
    <3> QED BY <3>1 DEF B!Locked, B!InInode
  <2>3. B!Slot(j, k) # 0
    BY <1>5, <2>1, <2>2 DEF FilesInv, B!NoHoles, B!Nil
  <2> QED BY <1>11, <1>16, <2>3
<1> QED BY <1>6, <1>7, <1>8, <1>9, <1>12, <1>15, <1>18, <1>19 DEF FilesInv
-----------------------------------------------------------------------------
(* The first state of the files.                                           *)
LEMMA FilesInvInit ==
  ASSUME B!Init
  PROVE  FilesInv
<1>1. /\ fip = [f \in Opens |-> 0] /\ foff = [f \in Opens |-> 0]
      /\ addrs = [i \in Files |-> [k \in 0..NDIRECT |-> 0]] /\ size = [i \in Files |-> 0]
      /\ marked = {} /\ cached = [b \in B!DataBlocks |-> B!Stale] /\ stored = cached
      /\ op = [p \in FsProcs |-> B!Idle] /\ torn = {} /\ halted = "no"
  BY DEF B!Init, B!Nil
<1>2. \A p \in FsProcs : op[p].at = "user" /\ op[p] \in FileCalls
  BY <1>1, IdleIs
<1>3. size \in [Files -> 0..(B!MAXFILE * BSIZE)]
  <2>1. 0 \in 0..(B!MAXFILE * BSIZE)
    <3>1. B!MAXFILE * BSIZE \in Int /\ 0 * BSIZE <= B!MAXFILE * BSIZE
      BY FileNumbers, MultiplesOrdered
    <3> QED BY <3>1, FileNumbers
  <2> HIDE <1>2
  <2> QED BY <1>1, <2>1, Zenon
<1>4. cached \in [B!DataBlocks -> [0..(BSIZE - 1) -> Nat]]
  BY <1>1, FileNumbers
<1>5. op \in [FsProcs -> FileCalls]
  BY <1>1, IdleIs
<1>6. FileTypes
  BY <1>1, <1>3, <1>4, <1>5 DEF FileTypes
<1>7. Calling /\ Turns /\ Alone /\ Freed
  BY <1>2 DEF Calling, Turns, Alone, Freed, B!InInode
<1>8. \A i \in Files, k \in 0..NDIRECT : addrs[i][k] = 0
  BY <1>1
<1>9. \A i \in Files : Ind(i) = 0
  BY <1>8, FileNumbers DEF Ind
<1>10. \A i \in Files, k \in Numbers : B!ToFree(i, k) = 0
  BY <1>8, <1>9, FileNumbers DEF B!ToFree, B!Slot, B!Nil, Numbers, Ind
<1>11. Owned
  BY <1>1, <1>10 DEF Owned
<1>12. Kept
  BY <1>9 DEF Kept
<1>13. B!NoHoles
  <2> SUFFICES ASSUME NEW i \in Files, NEW k \in 0..(B!MAXFILE - 1), k * BSIZE < size[i]
               PROVE  FALSE
    BY DEF B!NoHoles
  <2>1. 0 * BSIZE <= k * BSIZE /\ 0 * BSIZE = 0 /\ k * BSIZE \in Int
    BY FileNumbers, MultiplesOrdered
  <2>2. size[i] = 0
    BY <1>1
  <2> QED BY <2>1, <2>2
<1> QED BY <1>6, <1>7, <1>11, <1>12, <1>13 DEF FilesInv

(* Every step of the files.                                                *)
LEMMA FilesInvStep ==
  ASSUME FilesInv, B!Next
  PROVE  FilesInv'
<1>1. CASE B!Open
  BY <1>1, OpenStep
<1>2. CASE B!Recycle \/ B!Absorb
  BY <1>2, BufferStep
<1>3. CASE B!Crash
  BY <1>3, FilesCrashStep
<1>4. ASSUME NEW p \in FsProcs, B!Write(p) \/ B!WriteOn(p)
      PROVE  FilesInv'
  BY <1>4, FileWriteStep
<1>5. ASSUME NEW p \in FsProcs, B!Bmap(p)
      PROVE  FilesInv'
  BY <1>5, BmapStep
<1>6. ASSUME NEW p \in FsProcs, B!Copy(p)
      PROVE  FilesInv'
  BY <1>6, CopyStep
<1>7. ASSUME NEW p \in FsProcs, B!CopyFails(p)
      PROVE  FilesInv'
  BY <1>7, CopyFailsStep
<1>8. ASSUME NEW p \in FsProcs, B!Read(p)
      PROVE  FilesInv'
  BY <1>8, FileReadStep
<1>9. ASSUME NEW p \in FsProcs, B!Truncate(p)
      PROVE  FilesInv'
  BY <1>9, TruncateStep
<1>10. ASSUME NEW p \in FsProcs, B!Free(p)
       PROVE  FilesInv'
  BY <1>10, FreeStep
<1>11. ASSUME NEW p \in FsProcs, B!Truncated(p)
       PROVE  FilesInv'
  BY <1>11, TruncatedStep
<1> QED BY <1>1, <1>2, <1>3, <1>4, <1>5, <1>6, <1>7, <1>8, <1>9, <1>10, <1>11 DEF B!Next

(* What the other parts do does not concern the files.                     *)
LEMMA FilesInvStutter ==
  ASSUME FilesInv, UNCHANGED B!fileVars
  PROVE  FilesInv'
<1>1. UNCHANGED <<fip, foff, addrs, size, marked, cached, stored, op, torn, halted>>
  BY DEF B!fileVars
<1>2. FileTypes'
  BY <1>1 DEF FilesInv, FileTypes, FileCalls, LogEntries, B!Data, B!BitmapBlock, B!DataBlocks
<1>3. Calling' /\ Alone' /\ Steady /\ \A i \in Files : B!Locked(i) => B!Locked(i)'
  BY <1>1 DEF FilesInv, Calling, Alone, B!InInode, Steady, B!Locked
<1>4. Turns' /\ Freed' /\ Owned' /\ Kept' /\ B!NoHoles'
  <2> DEFINE Moved == {}
  <2>1. Moved \in SUBSET FsProcs /\ \A q \in Moved : FALSE
    OBVIOUS
  <2> HIDE DEF Moved
  <2> QED BY <1>1, <1>3, <2>1, QuietStep
<1> QED BY <1>2, <1>3, <1>4 DEF FilesInv

(* A block is in one place if it is marked, and in none if it is not.      *)
LEMMA OwnedOnce ==
  ASSUME FilesInv
  PROVE  B!BlocksOwned
<1> SUFFICES ASSUME NEW b \in B!DataBlocks
             PROVE  B!Cardinality(B!Holders(b)) = (IF b \in marked THEN 1 ELSE 0)
  BY DEF B!BlocksOwned
<1>0. Owned /\ b # 0
  BY FileNumbers DEF FilesInv, B!DataBlocks
<1>1. \A h : h \in B!Holders(b) <=> h \in Files \X Numbers /\ B!ToFree(h[1], h[2]) = b /\ Good(h[1], h[2])
  BY DEF B!Holders, Numbers, Good
<1>2. CASE b \in marked
  <2>1. PICK i \in Files, k \in Numbers : Good(i, k) /\ B!ToFree(i, k) = b
    BY <1>0, <1>2 DEF Owned
  <2>2. ASSUME NEW h \in Files \X Numbers, B!ToFree(h[1], h[2]) = b, Good(h[1], h[2])
        PROVE  h = <<i, k>>
    <3>1. h[1] \in Files /\ h[2] \in Numbers /\ h = <<h[1], h[2]>>
      OBVIOUS
    <3>2. h[1] = i /\ h[2] = k
      BY <1>0, <2>1, <2>2, <3>1 DEF Owned
    <3> QED BY <3>1, <3>2
  <2>3. <<i, k>> \in B!Holders(b)
    BY <1>1, <2>1
  <2>4. B!Holders(b) = {<<i, k>>}
    BY <1>1, <2>2, <2>3
  <2>5. Cardinality({<<i, k>>}) = 1
    BY FS_Singleton
  <2> QED BY <1>2, <2>4, <2>5, SameSize
<1>3. CASE b \notin marked
  <2>1. B!Holders(b) = {}
    BY <1>0, <1>1, <1>3 DEF Owned
  <2>2. Cardinality({}) = 0
    BY FS_EmptySet
  <2> QED BY <1>3, <2>1, <2>2, SameSize
<1> QED BY <1>2, <1>3

(* A piece reaches no more blocks than it is long, and one more if it      *)
(* starts in the middle of one.                                            *)
LEMMA BlocksReached ==
  ASSUME NEW n \in Nat, n > 0, NEW x \in Nat, NEW y \in Nat, NEW h \in Nat, y < x + h * n
  PROVE  /\ y \div n <= (x \div n) + h
         /\ x % n = 0 => y \div n < (x \div n) + h
<1> DEFINE g == x \div n
           u == x % n
           b == y \div n
           r == y % n
<1>1. g \in Nat /\ u \in 0..(n - 1) /\ x = g * n + u
  BY Division
<1>2. b \in Nat /\ r \in 0..(n - 1) /\ y = b * n + r
  BY Division
<1> HIDE DEF g, u, b, r
<1>3. (g + h) * n = g * n + h * n /\ g * n \in Int /\ h * n \in Int /\ b * n \in Int
  BY <1>1, <1>2, MultiplesOrdered
<1>4. g + h < b => (g + h) * n + n <= b * n
  BY <1>1, <1>2, MultiplesOrdered
<1>5. g + h <= b => (g + h) * n <= b * n
  BY <1>1, <1>2, MultiplesOrdered
<1>6. b <= g + h
  BY <1>1, <1>2, <1>3, <1>4
<1>7. u = 0 => b < g + h
  BY <1>1, <1>2, <1>3, <1>5
<1> QED BY <1>6, <1>7 DEF g, u, b

(* What is reserved is enough for a piece.                                 *)
LEMMA ReservedIsEnough ==
  ASSUME FilesInv
  PROVE  B!PieceFits
<1> SUFFICES ASSUME NEW p \in FsProcs, op[p].at = "turn"
             PROVE  B!Cardinality(op[p].logged \cup {B!InodeBlock, B!Data(B!Slot(op[p].ip, B!Bn(p)))}) <= MAXOPBLOCKS
  BY DEF B!PieceFits
<1> DEFINE s == ItsSlot(p)
           y == Ind(op[p].ip)
           S == op[p].logged \cup {B!InodeBlock, B!Data(s)}
           g == foff[op[p].f] \div BSIZE
           u == foff[op[p].f] % BSIZE
           D == B!Bn(p) - g
           T == Touched(p)
           A == Allowance(p)
<1>1. /\ foff[op[p].f] \in Nat /\ B!At(p) \in Nat /\ B!Bn(p) = B!At(p) \div BSIZE
      /\ B!At(p) < foff[op[p].f] + B!Piece(op[p]) /\ B!Piece(op[p]) \in Nat /\ B!Piece(op[p]) <= B!MaxPiece
  BY TurnIs DEF FilesInv
<1>2. /\ PieceBlocks \in Nat /\ 2 * PieceBlocks <= MAXOPBLOCKS - 4 /\ B!MaxPiece = PieceBlocks * BSIZE
      /\ B!MaxPiece \in Nat /\ MAXOPBLOCKS \in Nat
  BY PieceNumbers, FileNumbers
<1>3. /\ D \in Int /\ D <= PieceBlocks
      /\ u = 0 => D < PieceBlocks
  <2> DEFINE x == foff[op[p].f]
             z == B!At(p)
             h == PieceBlocks
  <2>1. x \in Nat /\ z \in Nat /\ h \in Nat /\ BSIZE \in Nat /\ BSIZE > 0 /\ z < x + h * BSIZE
    BY <1>1, <1>2, FileNumbers
  <2> HIDE DEF x, z, h
  <2>2. /\ z \div BSIZE <= (x \div BSIZE) + h
        /\ x % BSIZE = 0 => z \div BSIZE < (x \div BSIZE) + h
    BY <2>1, BlocksReached
  <2>3. z \div BSIZE \in Nat /\ x \div BSIZE \in Nat
    BY <2>1, Division
  <2>4. D = (z \div BSIZE) - (x \div BSIZE)
    BY <1>1 DEF x, z
  <2>5. u = x % BSIZE
    BY DEF x
  <2> DEFINE b == z \div BSIZE
             c == x \div BSIZE
             v == x % BSIZE
  <2> HIDE DEF b, c, v, D, u
  <2>6. D \in Int /\ D <= h /\ (u = 0 => D < h)
    BY <2>1, <2>2, <2>3, <2>4, <2>5 DEF b, c, v
  <2> QED BY <2>6 DEF h
<1>4. IsFiniteSet(T) /\ Cardinality(T) \in Nat /\ Cardinality(T) <= A
  BY FitsNumbers DEF FilesInv, Turns, Fits
<1>5. A = 1 + 2 * D + 2 * Has(s) + 2 * Has(y) - Has(u)
  BY DEF Allowance
<1>6. s # 0 => S \subseteq T
  BY DEF Touched, DataOf
<1>7. s = 0 => S \subseteq T \cup {B!Data(0)}
  BY DEF Touched
<1>8. IsFiniteSet(T \cup {B!Data(0)}) /\ Cardinality(T \cup {B!Data(0)}) \in {Cardinality(T), Cardinality(T) + 1}
  <2> HIDE DEF T
  <2> QED BY <1>4, FS_AddElement
<1>9. /\ Has(u) \in {0, 1} /\ Has(y) \in {0, 1} /\ (u # 0 => Has(u) = 1)
      /\ (s = 0 => Has(s) = 0) /\ (s # 0 => Has(s) = 1)
  BY DEF Has
<1>10. B!Cardinality(S) = Cardinality(S)
  BY SameSize
<1> HIDE DEF s, y, S, g, u, D, T, A
<1>11. CASE s # 0
  <2>1. IsFiniteSet(S) /\ Cardinality(S) <= Cardinality(T)
    BY <1>4, <1>6, <1>11, FS_Subset
  <2>2. Cardinality(S) \in Nat
    BY <2>1, FS_CardinalityType
  <2>3. Cardinality(S) <= MAXOPBLOCKS
    BY <1>2, <1>3, <1>4, <1>5, <1>9, <1>11, <2>1, <2>2
  <2> QED BY <1>10, <2>3 DEF S, s, ItsSlot
<1>12. CASE s = 0
  <2>1. IsFiniteSet(S) /\ Cardinality(S) <= Cardinality(T \cup {B!Data(0)})
    BY <1>7, <1>8, <1>12, FS_Subset
  <2>2. Cardinality(S) \in Nat
    BY <2>1, FS_CardinalityType
  <2>3. Cardinality(S) <= MAXOPBLOCKS
    BY <1>2, <1>3, <1>4, <1>5, <1>8, <1>9, <1>12, <2>1, <2>2
  <2> QED BY <1>10, <2>3 DEF S, s, ItsSlot
<1> QED BY <1>11, <1>12

(* The invariant is as strong as what the run checks.                      *)
LEMMA FilesInvSafe ==
  ASSUME FilesInv
  PROVE  B!FilesSafe
<1>1. \A p \in FsProcs : op[p].at \in {"user", "piece", "turn", "trunc"}
  BY DEF FilesInv, FileTypes, FileCalls
<1>2. B!FileTypeOK /\ halted # "freeing free block"
  BY <1>1 DEF FilesInv, FileTypes, B!FileTypeOK, B!Nil
<1>3. B!NoHoles
  BY DEF FilesInv
<1> QED BY <1>2, <1>3, OwnedOnce, ReservedIsEnough DEF B!FilesSafe
-----------------------------------------------------------------------------
(* What a file says.  A byte of its text that is not torn would survive if *)
(* its buffer were recycled.                                               *)
Truncating(i) == \E p \in FsProcs : op[p].at = "trunc" /\ op[p].ip = i
TextKept ==
  \A i \in Files, x \in Nat : ~Truncating(i) /\ x < B!Reached(i) /\ <<i, x>> \notin torn =>
    cached[B!Slot(i, x \div BSIZE)][x % BSIZE] = stored[B!Slot(i, x \div BSIZE)][x % BSIZE]

(* Who writes to no file has nothing left to write.                        *)
Idling ==
  \A p \in FsProcs :
    /\ op[p].at = "user" => op[p] = B!Idle
    /\ op[p].at = "trunc" => op[p].f = 0 /\ op[p].n = 0 /\ op[p].i = 0 /\ op[p].tot = 0

(* What the files know of their bytes.                                     *)
BytesInv == TextKept /\ Idling

(* The files, their offsets, calls and writers as ByteFile knows them.     *)
Texts ==
  [i \in Files |->
     IF \E p \in B!Writer(i) : op[p].at = "trunc" THEN <<>>
     ELSE [j \in 1..B!Reached(i) |-> IF <<i, j - 1>> \in torn THEN Torn ELSE B!ByteAt(i, j - 1)]]
Offsets ==
  [f \in Opens |->
     IF \E p \in FsProcs : op[p].at = "turn" /\ op[p].f = f
     THEN B!At(CHOOSE p \in FsProcs : op[p].at = "turn" /\ op[p].f = f)
     ELSE foff[f]]
Source == <<1, 1, 1, 2>>
Calls ==
  [p \in FsProcs |-> [f |-> op[p].f,
                      bytes |-> [j \in 1..(op[p].n - op[p].i - op[p].tot) |-> Source[op[p].i + op[p].tot + j]]]]
Holding == [i \in Files |-> IF B!Writer(i) = {} THEN Nobody ELSE CHOOSE p \in B!Writer(i) : TRUE]

T == INSTANCE ByteFile WITH
  Procs <- FsProcs, Inodes <- Files, Buffer <- Source,
  ip <- fip, text <- Texts, off <- Offsets, call <- Calls, holder <- Holding
-----------------------------------------------------------------------------
(* They are the variables of the file that is refined.                     *)
LEMMA SameFile ==
  /\ T!Init => B!Bytes!Init
  /\ T!byteVars = B!Bytes!byteVars /\ (UNCHANGED T!byteVars => UNCHANGED B!Bytes!byteVars)
  /\ T!Next => B!Bytes!Next
<1>1. T!Init => B!Bytes!Init
  BY DEF T!Init, B!Bytes!Init, Texts, Offsets, Calls, Holding, Source, T!NoCall, B!Bytes!NoCall
<1>2. T!byteVars = B!Bytes!byteVars
  BY DEF T!byteVars, B!Bytes!byteVars, Texts, Offsets, Calls, Holding, Source
<1>3. UNCHANGED T!byteVars => UNCHANGED B!Bytes!byteVars
  BY DEF T!byteVars, B!Bytes!byteVars, Texts, Offsets, Calls, Holding, Source
<1>4. T!Next => B!Bytes!Next
  BY DEF T!Next, B!Bytes!Next, Texts, Offsets, Calls, Holding, Source, T!NoCall, B!Bytes!NoCall,
         T!Write, B!Bytes!Write, T!WriteOn, B!Bytes!WriteOn, T!Put, B!Bytes!Put, T!Fail, B!Bytes!Fail,
         T!Truncate, B!Bytes!Truncate, T!Truncated, B!Bytes!Truncated, T!Open, B!Bytes!Open,
         T!Read, B!Bytes!Read, T!Crash, B!Bytes!Crash, T!IsOpen, B!Bytes!IsOpen, T!Idle, B!Bytes!Idle,
         T!Overwritten, B!Bytes!Overwritten, T!Longer, B!Bytes!Longer
<1> QED BY <1>1, <1>2, <1>3, <1>4

-----------------------------------------------------------------------------
(* Who has a file, and how far its text goes.                              *)
Writes(p, i) == op[p].at = "turn" /\ op[p].ip = i
Larger(x, y) == IF x < y THEN y ELSE x

(* A file is held by the process that is inside its inode.                 *)
LEMMA HoldersAre ==
  Alone =>
    /\ \A i \in Files : Holding[i] = Nobody <=> ~B!Locked(i)
    /\ \A i \in Files, p \in FsProcs : Holding[i] = p <=> B!InInode(p) /\ op[p].ip = i
<1> SUFFICES ASSUME Alone, NEW i \in Files
             PROVE  /\ Holding[i] = Nobody <=> ~B!Locked(i)
                    /\ \A p \in FsProcs : Holding[i] = p <=> B!InInode(p) /\ op[p].ip = i
  OBVIOUS
<1>1. Nobody \notin FsProcs
  BY KernelConstants DEF B!FileConstants
<1>2. B!Writer(i) = {p \in FsProcs : B!InInode(p) /\ op[p].ip = i}
  BY DEF B!Writer
<1>3. Holding[i] = IF B!Writer(i) = {} THEN Nobody ELSE CHOOSE p \in B!Writer(i) : TRUE
  BY DEF Holding
<1>4. CASE B!Writer(i) = {}
  BY <1>1, <1>2, <1>3, <1>4 DEF B!Locked
<1>5. CASE B!Writer(i) # {}
  <2>1. Holding[i] \in B!Writer(i)
    BY <1>3, <1>5
  <2>2. \A p \in B!Writer(i) : p = Holding[i]
    BY <1>2, <2>1 DEF Alone
  <2> QED BY <1>1, <1>2, <2>1, <2>2 DEF B!Locked
<1> QED BY <1>4, <1>5

(* The same after a step.                                                  *)
LEMMA HoldersAreNext ==
  Alone' =>
    /\ \A i \in Files : Holding'[i] = Nobody <=> ~B!Locked(i)'
    /\ \A i \in Files, p \in FsProcs : Holding'[i] = p <=> B!InInode(p)' /\ op'[p].ip = i
<1>1. (Alone =>
        /\ \A i \in Files : Holding[i] = Nobody <=> ~B!Locked(i)
        /\ \A i \in Files, p \in FsProcs : Holding[i] = p <=> B!InInode(p) /\ op[p].ip = i)'
  BY HoldersAre, PTL
<1> QED BY <1>1

(* How far a text goes: to the size, or to where its writer is.            *)
LEMMA ReachedIs ==
  FilesInv =>
    /\ \A i \in Files : B!Reached(i) \in Nat /\ size[i] \in Nat /\ B!Reached(i) >= size[i]
    /\ \A i \in Files : (\A p \in FsProcs : ~Writes(p, i)) => B!Reached(i) = size[i]
    /\ \A i \in Files, p \in FsProcs : Writes(p, i) => B!Reached(i) = Larger(size[i], B!At(p))
<1> SUFFICES ASSUME FilesInv, NEW i \in Files
             PROVE  /\ B!Reached(i) \in Nat /\ size[i] \in Nat /\ B!Reached(i) >= size[i]
                    /\ (\A p \in FsProcs : ~Writes(p, i)) => B!Reached(i) = size[i]
                    /\ \A p \in FsProcs : Writes(p, i) => B!Reached(i) = Larger(size[i], B!At(p))
  OBVIOUS
<1> DEFINE end == {B!At(p) : p \in {q \in B!Writer(i) : op[q].at = "turn"}} \cup {size[i]}
<1>1. B!Reached(i) = CHOOSE x \in end : \A y \in end : y <= x
  BY DEF B!Reached
<1>2. size[i] \in Nat
  <2>1. size[i] \in 0..(B!MAXFILE * BSIZE)
    BY DEF FilesInv, FileTypes
  <2> QED BY <2>1
<1>3. \A p \in FsProcs : p \in B!Writer(i) /\ op[p].at = "turn" <=> Writes(p, i)
  BY DEF B!Writer, B!InInode, Writes
<1>4. CASE \A p \in FsProcs : ~Writes(p, i)
  <2>1. end = {size[i]}
    BY <1>3, <1>4 DEF B!Writer
  <2> HIDE DEF end
  <2> QED BY <1>1, <1>2, <1>4, <2>1
<1>5. ASSUME NEW p \in FsProcs, Writes(p, i)
      PROVE  /\ B!Reached(i) = Larger(size[i], B!At(p)) /\ B!Reached(i) \in Nat /\ B!Reached(i) >= size[i]
             /\ \A q \in FsProcs : Writes(q, i) => q = p
  <2>1. \A q \in FsProcs : Writes(q, i) => q = p
    BY <1>5 DEF FilesInv, Alone, Writes, B!InInode
  <2>2. end = {B!At(p), size[i]}
    BY <1>3, <1>5, <2>1 DEF B!Writer
  <2>3. B!At(p) \in Nat
    BY <1>5, TurnIs DEF FilesInv, Writes
  <2> HIDE DEF end
  <2>4. Larger(size[i], B!At(p)) \in end /\ \A y \in end : y <= Larger(size[i], B!At(p))
    BY <1>2, <2>2, <2>3 DEF Larger
  <2>5. \A x \in end : (\A y \in end : y <= x) => x = Larger(size[i], B!At(p))
    BY <1>2, <2>2, <2>3, <2>4 DEF Larger
  <2>6. B!Reached(i) = Larger(size[i], B!At(p))
    BY <1>1, <2>4, <2>5
  <2> QED BY <1>2, <2>1, <2>3, <2>6 DEF Larger
<1> QED BY <1>2, <1>4, <1>5

(* The same after a step.                                                  *)
LEMMA ReachedIsNext ==
  FilesInv' =>
    /\ \A i \in Files : B!Reached(i)' \in Nat /\ size'[i] \in Nat /\ B!Reached(i)' >= size'[i]
    /\ \A i \in Files : (\A p \in FsProcs : ~Writes(p, i)') => B!Reached(i)' = size'[i]
    /\ \A i \in Files, p \in FsProcs : Writes(p, i)' => B!Reached(i)' = Larger(size'[i], B!At(p)')
<1>1. (FilesInv =>
        /\ \A i \in Files : B!Reached(i) \in Nat /\ size[i] \in Nat /\ B!Reached(i) >= size[i]
        /\ \A i \in Files : (\A p \in FsProcs : ~Writes(p, i)) => B!Reached(i) = size[i]
        /\ \A i \in Files, p \in FsProcs : Writes(p, i) => B!Reached(i) = Larger(size[i], B!At(p)))'
  BY ReachedIs, PTL
<1> QED BY <1>1 DEF Larger

(* An offset is that of the writer, who moves it when he is done.          *)
LEMMA OffsetsAre ==
  FilesInv =>
    /\ \A f \in Opens, p \in FsProcs : op[p].at = "turn" /\ op[p].f = f => Offsets[f] = B!At(p)
    /\ \A f \in Opens : (\A p \in FsProcs : ~(op[p].at = "turn" /\ op[p].f = f)) => Offsets[f] = foff[f]
<1> SUFFICES ASSUME FilesInv, NEW f \in Opens
             PROVE  /\ \A p \in FsProcs : op[p].at = "turn" /\ op[p].f = f => Offsets[f] = B!At(p)
                    /\ (\A p \in FsProcs : ~(op[p].at = "turn" /\ op[p].f = f)) => Offsets[f] = foff[f]
  OBVIOUS
<1>1. ASSUME NEW p \in FsProcs, op[p].at = "turn", op[p].f = f, NEW q \in FsProcs, op[q].at = "turn", op[q].f = f
      PROVE  p = q
  <2>1. fip[f] = op[p].ip /\ fip[f] = op[q].ip
    BY <1>1 DEF FilesInv, Calling
  <2> QED BY <1>1, <2>1 DEF FilesInv, Alone, B!InInode
<1> DEFINE w == CHOOSE p \in FsProcs : op[p].at = "turn" /\ op[p].f = f
<1>2. Offsets[f] = IF \E p \in FsProcs : op[p].at = "turn" /\ op[p].f = f THEN B!At(w) ELSE foff[f]
  BY DEF Offsets
<1>3. ASSUME NEW p \in FsProcs, op[p].at = "turn", op[p].f = f
      PROVE  w = p
  <2>1. w \in FsProcs /\ op[w].at = "turn" /\ op[w].f = f
    BY <1>3
  <2> QED BY <1>1, <1>3, <2>1
<1> HIDE DEF w
<1> QED BY <1>2, <1>3

(* The same after a step.                                                  *)
LEMMA OffsetsAreNext ==
  FilesInv' =>
    /\ \A f \in Opens, p \in FsProcs : op'[p].at = "turn" /\ op'[p].f = f => Offsets'[f] = B!At(p)'
    /\ \A f \in Opens : (\A p \in FsProcs : ~(op'[p].at = "turn" /\ op'[p].f = f)) => Offsets'[f] = foff'[f]
<1>1. (FilesInv =>
        /\ \A f \in Opens, p \in FsProcs : op[p].at = "turn" /\ op[p].f = f => Offsets[f] = B!At(p)
        /\ \A f \in Opens : (\A p \in FsProcs : ~(op[p].at = "turn" /\ op[p].f = f)) => Offsets[f] = foff[f])'
  BY OffsetsAre, PTL
<1> QED BY <1>1

(* What is left to write, by a state of a call.                            *)
Left(o) == [j \in 1..(o.n - o.i - o.tot) |-> Source[o.i + o.tot + j]]

(* A call as ByteFile knows it, before and after a step.                   *)
LEMMA CallsAre ==
  /\ \A p \in FsProcs : Calls[p] = [f |-> op[p].f, bytes |-> Left(op[p])]
  /\ \A p \in FsProcs : Calls'[p] = [f |-> op'[p].f, bytes |-> Left(op'[p])]
  /\ DOMAIN Calls = FsProcs /\ DOMAIN Calls' = FsProcs
BY DEF Calls, Left

(* No process out of a call has bytes left to write.                       *)
LEMMA IdleLeft ==
  /\ [f |-> B!Idle.f, bytes |-> Left(B!Idle)] = T!NoCall
  /\ \A o \in FileCalls : o.f = 0 /\ o.n = 0 /\ o.i = 0 /\ o.tot = 0 => [f |-> o.f, bytes |-> Left(o)] = T!NoCall
<1>1. ASSUME NEW o, o.f = 0, o.n = 0, o.i = 0, o.tot = 0
      PROVE  [f |-> o.f, bytes |-> Left(o)] = T!NoCall
  <2>1. 1..(o.n - o.i - o.tot) = {}
    BY <1>1
  <2>2. Left(o) = <<>>
    BY <2>1 DEF Left
  <2> QED BY <1>1, <2>2 DEF T!NoCall
<1>2. B!Idle.f = 0 /\ B!Idle.n = 0 /\ B!Idle.i = 0 /\ B!Idle.tot = 0
  BY DEF B!Idle, B!Nil
<1> QED BY <1>1, <1>2

(* A call that is not done has.                                            *)
LEMMA SomeLeft ==
  ASSUME NEW o \in FileCalls, o.n \in Sizes, o.i + o.tot < o.n
  PROVE  /\ Left(o) \in Seq({1, 2}) /\ Len(Left(o)) = o.n - o.i - o.tot /\ Len(Left(o)) \in Nat /\ Len(Left(o)) > 0
         /\ [f |-> o.f, bytes |-> Left(o)] # T!NoCall
         /\ \A j \in 1..Len(Left(o)) : Left(o)[j] = Source[o.i + o.tot + j]
<1> DEFINE l == o.n - o.i - o.tot
<1>1. l \in Nat /\ l > 0 /\ o.n \in 1..4 /\ o.i \in Nat /\ o.tot \in Nat
  <2>1. o.n \in 1..4
    BY FileNumbers
  <2>2. o.i \in Nat /\ o.tot \in Nat
    BY DEF FileCalls
  <2> QED BY <2>1, <2>2
<1>2. \A j \in 1..l : o.i + o.tot + j \in 1..4
  <2> SUFFICES ASSUME NEW j \in 1..l
               PROVE  o.i + o.tot + j \in 1..4
    OBVIOUS
  <2>1. j \in Int /\ j >= 1 /\ j <= o.n - o.i - o.tot
    BY <1>1
  <2>2. \A n \in 1..4, i \in Nat, t \in Nat, m \in Int : m >= 1 /\ m <= n - i - t => i + t + m \in 1..4
    OBVIOUS
  <2> HIDE DEF l
  <2> QED BY <1>1, <2>1, <2>2
<1>3. \A j \in 1..4 : Source[j] \in {1, 2}
  BY DEF Source
<1>4. Left(o) = [j \in 1..l |-> Source[o.i + o.tot + j]]
  BY DEF Left
<1> HIDE DEF l
<1>5. Left(o) \in [1..l -> {1, 2}]
  BY <1>2, <1>3, <1>4
<1>6. Left(o) \in Seq({1, 2}) /\ Len(Left(o)) = l
  BY <1>1, <1>5
<1>7. Left(o) # <<>>
  BY <1>1, <1>6
<1>8. [f |-> o.f, bytes |-> Left(o)].bytes = Left(o) /\ T!NoCall.bytes = <<>>
  BY DEF T!NoCall
<1> QED BY <1>1, <1>4, <1>6, <1>7, <1>8 DEF l

(* The text of a file, byte by byte.                                       *)
ByteOf(i, x) == IF <<i, x>> \in torn THEN Torn ELSE B!ByteAt(i, x)

(* The text of a file is that of its bytes, or empty while it is           *)
(* truncated.                                                              *)
LEMMA TextsAre ==
  /\ DOMAIN Texts = Files
  /\ \A i \in Files : Truncating(i) => Texts[i] = <<>>
  /\ \A i \in Files : ~Truncating(i) => Texts[i] = [j \in 1..B!Reached(i) |-> ByteOf(i, j - 1)]
<1>1. \A i \in Files : (\E p \in B!Writer(i) : op[p].at = "trunc") <=> Truncating(i)
  BY DEF B!Writer, B!InInode, Truncating
<1> QED BY <1>1 DEF Texts, ByteOf

(* The same after a step.                                                  *)
LEMMA TextsAreNext ==
  /\ DOMAIN Texts' = Files
  /\ \A i \in Files : Truncating(i)' => Texts'[i] = <<>>
  /\ \A i \in Files : ~Truncating(i)' => Texts'[i] = [j \in 1..(B!Reached(i)') |-> ByteOf(i, j - 1)']
<1>1. (/\ DOMAIN Texts = Files
       /\ \A i \in Files : Truncating(i) => Texts[i] = <<>>
       /\ \A i \in Files : ~Truncating(i) => Texts[i] = [j \in 1..B!Reached(i) |-> ByteOf(i, j - 1)])'
  BY TextsAre, PTL
<1> QED BY <1>1

(* Its length.                                                             *)
LEMMA TextLength ==
  ASSUME FilesInv, NEW i \in Files
  PROVE  /\ Len(Texts[i]) = IF Truncating(i) THEN 0 ELSE B!Reached(i)
         /\ DOMAIN Texts[i] = 1..Len(Texts[i])
<1>1. B!Reached(i) \in Nat
  BY ReachedIs
<1>2. CASE Truncating(i)
  <2>1. Texts[i] = <<>>
    BY <1>2, TextsAre
  <2> QED BY <1>2, <2>1
<1>3. CASE ~Truncating(i)
  <2>1. Texts[i] = [j \in 1..B!Reached(i) |-> ByteOf(i, j - 1)]
    BY <1>3, TextsAre
  <2> QED BY <1>1, <1>3, <2>1
<1> QED BY <1>2, <1>3

(* A text stays the same if its bytes do.                                  *)
LEMMA SameText ==
  ASSUME NEW i \in Files, Truncating(i)' <=> Truncating(i),
         ~Truncating(i) => B!Reached(i)' = B!Reached(i) /\ B!Reached(i) \in Nat,
         \A x \in Nat : ~Truncating(i) /\ x < B!Reached(i) => ByteOf(i, x)' = ByteOf(i, x)
  PROVE  Texts'[i] = Texts[i]
<1>1. CASE Truncating(i)
  BY <1>1, TextsAre, TextsAreNext
<1>2. CASE ~Truncating(i)
  <2>1. Texts[i] = [j \in 1..B!Reached(i) |-> ByteOf(i, j - 1)]
    BY <1>2, TextsAre
  <2>2. Texts'[i] = [j \in 1..B!Reached(i) |-> ByteOf(i, j - 1)']
    BY <1>2, TextsAreNext
  <2>3. \A j \in 1..B!Reached(i) : ByteOf(i, j - 1)' = ByteOf(i, j - 1)
    <3> SUFFICES ASSUME NEW j \in 1..B!Reached(i)
                 PROVE  ByteOf(i, j - 1)' = ByteOf(i, j - 1)
      OBVIOUS
    <3>1. j - 1 \in Nat /\ j - 1 < B!Reached(i)
      BY <1>2
    <3> QED BY <1>2, <3>1
  <2> QED BY <2>1, <2>2, <2>3
<1> QED BY <1>1, <1>2

(* A byte of a text has a block, of this file alone and for these bytes.   *)
LEMMA ByteBacked ==
  ASSUME FilesInv, NEW i \in Files, ~Truncating(i), NEW x \in Nat, x < B!Reached(i)
  PROVE  /\ x \div BSIZE \in 0..(B!MAXFILE - 1) /\ x \div BSIZE \in Numbers /\ x \div BSIZE < B!MAXFILE
         /\ x % BSIZE \in 0..(BSIZE - 1) /\ x = (x \div BSIZE) * BSIZE + (x % BSIZE)
         /\ B!Slot(i, x \div BSIZE) # 0 /\ B!Slot(i, x \div BSIZE) \in B!DataBlocks
         /\ Good(i, x \div BSIZE)
         /\ \A j \in Files : B!Slot(i, x \div BSIZE) # Ind(j)
         /\ B!Slot(i, x \div BSIZE) \in marked
<1> DEFINE k == x \div BSIZE
           c == x % BSIZE
<1>1. BSIZE \in Nat /\ BSIZE > 0 /\ B!MAXFILE \in Nat
  BY FileNumbers
<1>2. k \in Nat /\ c \in 0..(BSIZE - 1) /\ x = k * BSIZE + c
  BY <1>1, Division
<1> HIDE DEF k, c
<1>3. k * BSIZE \in Nat /\ k * BSIZE <= x
  BY <1>1, <1>2
<1>4. \/ B!Reached(i) = size[i] /\ ~B!Locked(i)
      \/ \E p \in FsProcs : Writes(p, i) /\ B!Reached(i) = Larger(size[i], B!At(p))
  <2>1. CASE \E p \in FsProcs : Writes(p, i)
    BY <2>1, ReachedIs
  <2>2. CASE \A p \in FsProcs : ~Writes(p, i)
    <3>1. ~B!Locked(i)
      BY <2>2 DEF B!Locked, B!InInode, Writes, Truncating
    <3> QED BY <2>2, <3>1, ReachedIs
  <2> QED BY <2>1, <2>2
<1>5. size[i] \in Nat /\ size[i] <= B!MAXFILE * BSIZE /\ B!MAXFILE * BSIZE \in Int
  <2>1. size[i] \in 0..(B!MAXFILE * BSIZE)
    BY DEF FilesInv, FileTypes
  <2> QED BY <1>1, <2>1, MultiplesOrdered
<1>6. ASSUME NEW p \in FsProcs, Writes(p, i)
      PROVE  B!At(p) \in Nat /\ B!At(p) < B!MAXFILE * BSIZE /\ op[p].at = "turn" /\ op[p].ip = i
  BY <1>6, TurnIs DEF FilesInv, Writes
<1> DEFINE b == k * BSIZE
           e == B!MAXFILE * BSIZE
<1>7. b < e /\ (b < size[i] \/ \E p \in FsProcs : Writes(p, i) /\ b < B!At(p))
  <2> HIDE DEF b, e
  <2>1. CASE B!Reached(i) = size[i]
    BY <1>3, <1>5, <2>1 DEF b, e
  <2>2. ASSUME NEW p \in FsProcs, Writes(p, i), B!Reached(i) = Larger(size[i], B!At(p))
        PROVE  b < e /\ (b < size[i] \/ b < B!At(p))
    <3>1. b \in Nat /\ b < Larger(size[i], B!At(p)) /\ e \in Int /\ size[i] <= e /\ B!At(p) < e
      <4>1. b \in Nat /\ b <= x
        BY <1>3 DEF b
      <4>2. e \in Int /\ size[i] <= e /\ B!At(p) < e
        BY <1>5, <1>6, <2>2 DEF e
      <4>3. Larger(size[i], B!At(p)) \in Nat
        BY <1>5, <1>6, <2>2 DEF Larger
      <4> QED BY <2>2, <4>1, <4>2, <4>3
    <3> QED BY <1>5, <1>6, <2>2, <3>1 DEF Larger
  <2> QED BY <1>4, <2>1, <2>2
<1>8. k < B!MAXFILE
  BY <1>1, <1>2, <1>7, MultiplesOrdered
<1>9. k \in 0..(B!MAXFILE - 1) /\ k \in Numbers
  BY <1>1, <1>2, <1>8 DEF Numbers
<1>10. B!Slot(i, k) # 0
  <2>1. ASSUME NEW p \in FsProcs, Writes(p, i)
        PROVE  B!Slot(i, k) # 0
    <3>1. Backed(p)
      BY <1>6, <2>1 DEF FilesInv, Turns
    <3>2. k * BSIZE < size[i] \/ k * BSIZE < B!At(p)
      BY <1>7, <2>1 DEF FilesInv, Alone, B!InInode, Writes
    <3> QED BY <1>6, <1>9, <2>1, <3>1, <3>2 DEF Backed
  <2>2. CASE ~B!Locked(i) /\ \A p \in FsProcs : ~Writes(p, i)
    BY <1>7, <1>9, <2>2 DEF FilesInv, B!NoHoles, B!Nil
  <2> QED BY <1>4, <2>1, <2>2
<1>11. Good(i, k)
  BY DEF Good, Truncating
<1>12. B!Slot(i, k) \in B!DataBlocks /\ B!ToFree(i, k) = B!Slot(i, k)
  BY <1>8, <1>9, <1>10, NumbersType DEF FilesInv
<1>13. \A j \in Files : B!Slot(i, k) # Ind(j)
  BY <1>8, <1>9, <1>10, <1>11, NotIndirect
<1>14. B!Slot(i, k) \in marked
  BY <1>9, <1>10, <1>11, <1>12 DEF FilesInv, Owned
<1> QED BY <1>2, <1>8, <1>9, <1>10, <1>11, <1>12, <1>13, <1>14 DEF k, c

(* Blocks have one place.                                                  *)
LEMMA SameBlock ==
  ASSUME FilesInv, NEW i \in Files, NEW j \in Files, NEW k \in Numbers, NEW l \in Numbers,
         k < B!MAXFILE, l < B!MAXFILE, Good(i, k), Good(j, l), B!Slot(i, k) # 0, B!Slot(i, k) = B!Slot(j, l)
  PROVE  i = j /\ k = l
<1>1. B!ToFree(i, k) = B!Slot(i, k) /\ B!ToFree(j, l) = B!Slot(j, l)
  BY NumbersType DEF FilesInv
<1> QED BY <1>1 DEF FilesInv, Owned

-----------------------------------------------------------------------------
(* A step that moves nobody in his call, at least not as ByteFile sees it. *)
SameCall(o, q) == o.at = q.at /\ o.f = q.f /\ o.ip = q.ip /\ o.n = q.n /\ o.i = q.i /\ o.tot = q.tot
Still == foff' = foff /\ size' = size /\ \A p \in FsProcs : SameCall(op'[p], op[p])

(* Then ByteFile sees the same calls, offsets and holders.                 *)
LEMMA StillSame ==
  ASSUME FilesInv, FilesInv', Still
  PROVE  /\ Offsets' = Offsets /\ Calls' = Calls /\ Holding' = Holding
         /\ \A i \in Files : /\ Truncating(i)' <=> Truncating(i)
                             /\ B!Reached(i)' = B!Reached(i) /\ B!Reached(i) \in Nat
<1>1. \A p \in FsProcs : /\ op'[p].at = op[p].at /\ op'[p].f = op[p].f /\ op'[p].ip = op[p].ip
                         /\ op'[p].n = op[p].n /\ op'[p].i = op[p].i /\ op'[p].tot = op[p].tot
  BY DEF Still, SameCall
<1>2. foff' = foff /\ size' = size
  BY DEF Still
<1>3. \A p \in FsProcs : B!At(p)' = B!At(p)
  BY <1>1, <1>2 DEF B!At
<1>4. Calls' = Calls
  BY <1>1 DEF Calls
<1>5. Offsets' = Offsets
  <2>1. ASSUME NEW f \in Opens
        PROVE  Offsets'[f] = Offsets[f]
    <3>1. CASE \E p \in FsProcs : op[p].at = "turn" /\ op[p].f = f
      BY <1>1, <1>3, <3>1, OffsetsAre, OffsetsAreNext
    <3>2. CASE \A p \in FsProcs : ~(op[p].at = "turn" /\ op[p].f = f)
      BY <1>1, <1>2, <3>2, OffsetsAre, OffsetsAreNext
    <3> QED BY <3>1, <3>2
  <2> DEFINE v(f) == Offsets[f]
  <2>2. Offsets = [f \in Opens |-> Offsets[f]] /\ Offsets' = [f \in Opens |-> Offsets'[f]]
    BY DEF Offsets
  <2> QED BY <2>1, <2>2
<1>6. \A i \in Files : /\ Truncating(i)' <=> Truncating(i)
                       /\ B!Locked(i)' <=> B!Locked(i)
                       /\ \A p \in FsProcs : Writes(p, i)' <=> Writes(p, i)
  BY <1>1 DEF Truncating, B!Locked, B!InInode, Writes
<1>7. Holding' = Holding
  <2>1. ASSUME NEW i \in Files
        PROVE  Holding'[i] = Holding[i]
    <3>1. Alone /\ Alone'
      BY DEF FilesInv
    <3>2. CASE ~B!Locked(i)
      BY <1>6, <3>1, <3>2, HoldersAre, HoldersAreNext
    <3>3. CASE B!Locked(i)
      <4>1. PICK p \in FsProcs : B!InInode(p) /\ op[p].ip = i
        BY <3>3 DEF B!Locked
      <4>2. B!InInode(p)' /\ op'[p].ip = i
        BY <1>1, <4>1 DEF B!InInode
      <4> QED BY <3>1, <4>1, <4>2, HoldersAre, HoldersAreNext
    <3> QED BY <3>2, <3>3
  <2>2. Holding = [i \in Files |-> Holding[i]] /\ Holding' = [i \in Files |-> Holding'[i]]
    BY DEF Holding
  <2> QED BY <2>1, <2>2
<1>8. ASSUME NEW i \in Files
      PROVE  B!Reached(i)' = B!Reached(i) /\ B!Reached(i) \in Nat
  <2>1. CASE \A p \in FsProcs : ~Writes(p, i)
    BY <1>2, <1>6, <2>1, ReachedIs, ReachedIsNext
  <2>2. ASSUME NEW p \in FsProcs, Writes(p, i)
        PROVE  B!Reached(i)' = B!Reached(i) /\ B!Reached(i) \in Nat
    <3>1. B!Reached(i) = Larger(size[i], B!At(p)) /\ B!Reached(i) \in Nat
      BY <2>2, ReachedIs
    <3>2. B!Reached(i)' = Larger(size'[i], B!At(p)')
      BY <1>6, <2>2, ReachedIsNext
    <3> QED BY <1>2, <1>3, <3>1, <3>2
  <2> QED BY <2>1, <2>2
<1> QED BY <1>2, <1>4, <1>5, <1>6, <1>7, <1>8

(* If the bytes of the texts stay too, ByteFile sees nothing of it.        *)
LEMMA StillStutters ==
  ASSUME FilesInv, FilesInv', Still,
         \A i \in Files, x \in Nat : ~Truncating(i) /\ x < B!Reached(i) => ByteOf(i, x)' = ByteOf(i, x)
  PROVE  /\ Texts' = Texts /\ Offsets' = Offsets /\ Calls' = Calls /\ Holding' = Holding
         /\ fip' = fip => UNCHANGED T!byteVars
<1>1. \A i \in Files : Texts'[i] = Texts[i]
  <2> SUFFICES ASSUME NEW i \in Files
               PROVE  Texts'[i] = Texts[i]
    OBVIOUS
  <2>1. (Truncating(i)' <=> Truncating(i)) /\ B!Reached(i)' = B!Reached(i) /\ B!Reached(i) \in Nat
    BY StillSame
  <2> QED BY <2>1, SameText
<1>2. Texts' = Texts
  <2>1. Texts = [i \in Files |-> Texts[i]] /\ Texts' = [i \in Files |-> Texts'[i]]
    BY DEF Texts
  <2> QED BY <1>1, <2>1
<1> QED BY <1>2, StillSame DEF T!byteVars

(* The buffers come and go.                                                *)
LEMMA BufferBytes ==
  ASSUME FilesInv, FilesInv', BytesInv, B!Recycle \/ B!Absorb
  PROVE  BytesInv' /\ UNCHANGED T!byteVars
<1>1. op' = op /\ fip' = fip /\ foff' = foff /\ size' = size /\ addrs' = addrs /\ torn' = torn
  BY DEF B!Recycle, B!Absorb
<1>2. Still
  BY <1>1 DEF Still, SameCall
<1>3. /\ cached \in [B!DataBlocks -> [0..(BSIZE - 1) -> Nat]]
      /\ stored \in [B!DataBlocks -> [0..(BSIZE - 1) -> Nat]]
  BY DEF FilesInv, FileTypes
<1>4. PICK b \in B!DataBlocks :
        \/ cached' = [cached EXCEPT ![b] = stored[b]] /\ stored' = stored
        \/ stored' = [stored EXCEPT ![b] = cached[b]] /\ cached' = cached
  BY DEF B!Recycle, B!Absorb
<1>5. \A i \in Files, k \in Numbers : B!Slot(i, k)' = B!Slot(i, k)
  <2>1. \A i \in Files : Ind(i) # 0 => cached[Ind(i)] = stored[Ind(i)] /\ Ind(i) \in B!DataBlocks
    BY IndirectOwned DEF FilesInv, Kept
  <2>2. \A i \in Files : Ind(i) # 0 => cached'[Ind(i)] = cached[Ind(i)]
    BY <1>3, <1>4, <2>1
  <2> QED BY <1>1, <2>2, SameNumbers
<1>6. ASSUME NEW i \in Files, NEW x \in Nat, ~Truncating(i), x < B!Reached(i)
      PROVE  /\ B!Slot(i, x \div BSIZE)' = B!Slot(i, x \div BSIZE)
             /\ ByteOf(i, x)' = ByteOf(i, x)
             /\ <<i, x>> \notin torn => LET s == B!Slot(i, x \div BSIZE) c == x % BSIZE IN
                                        cached'[s][c] = stored'[s][c]
  <2> DEFINE s == B!Slot(i, x \div BSIZE)
             c == x % BSIZE
  <2>1. s \in B!DataBlocks /\ c \in 0..(BSIZE - 1) /\ B!Slot(i, x \div BSIZE)' = s
    BY <1>5, <1>6, ByteBacked
  <2>2. <<i, x>> \notin torn => cached[s][c] = stored[s][c]
    BY <1>6 DEF BytesInv, TextKept
  <2>3. B!ByteAt(i, x) = cached[s][c] /\ B!ByteAt(i, x)' = cached'[s][c]
    BY <2>1 DEF B!ByteAt
  <2> HIDE DEF s, c
  <2>4. <<i, x>> \notin torn => cached'[s][c] = cached[s][c] /\ cached'[s][c] = stored'[s][c]
    BY <1>3, <1>4, <2>1, <2>2
  <2>5. ByteOf(i, x)' = ByteOf(i, x)
    BY <1>1, <2>3, <2>4 DEF ByteOf
  <2> QED BY <2>1, <2>4, <2>5 DEF s, c
<1>7. UNCHANGED T!byteVars
  BY <1>1, <1>2, <1>6, StillStutters
<1>8. TextKept'
  <2>1. \A i \in Files : (Truncating(i)' <=> Truncating(i)) /\ B!Reached(i)' = B!Reached(i)
    BY <1>2, StillSame
  <2> QED BY <1>1, <1>6, <2>1 DEF TextKept
<1>9. Idling'
  BY <1>1 DEF BytesInv, Idling
<1> QED BY <1>7, <1>8, <1>9 DEF BytesInv

(* What a process does in a call leaves the other files alone.             *)
Elsewhere(p, i) == ~(B!InInode(p) /\ op[p].ip = i) /\ ~(B!InInode(p)' /\ op'[p].ip = i)

(* Who holds them, and how far their texts go, stays.                      *)
LEMMA OthersSame ==
  ASSUME FilesInv, FilesInv', NEW p \in FsProcs, \A q \in FsProcs : q # p => op'[q] = op[q],
         NEW i \in Files, Elsewhere(p, i), size'[i] = size[i], fip' = fip,
         \A f \in Opens : fip[f] = i => foff'[f] = foff[f]
  PROVE  /\ Truncating(i)' <=> Truncating(i)
         /\ B!Reached(i)' = B!Reached(i) /\ B!Reached(i) \in Nat
         /\ Holding'[i] = Holding[i]
<1>1. \A q \in FsProcs : B!InInode(q)' /\ op'[q].ip = i <=> B!InInode(q) /\ op[q].ip = i
  BY DEF Elsewhere, B!InInode
<1>2. \A q \in FsProcs : B!InInode(q) /\ op[q].ip = i => op'[q] = op[q]
  BY DEF Elsewhere
<1>3. \A q \in FsProcs : Writes(q, i)' <=> Writes(q, i)
  BY <1>1, <1>2 DEF Writes, B!InInode
<1>4. Truncating(i)' <=> Truncating(i)
  BY <1>1, <1>2 DEF Truncating, B!InInode
<1>5. ASSUME NEW q \in FsProcs, Writes(q, i)
      PROVE  B!At(q)' = B!At(q)
  <2>1. op'[q] = op[q] /\ op[q].f \in Opens /\ fip[op[q].f] = i
    BY <1>2, <1>5 DEF Writes, B!InInode, FilesInv, Calling
  <2> QED BY <2>1 DEF B!At
<1>6. B!Reached(i)' = B!Reached(i) /\ B!Reached(i) \in Nat
  <2>1. CASE \A q \in FsProcs : ~Writes(q, i)
    BY <1>3, <2>1, ReachedIs, ReachedIsNext
  <2>2. ASSUME NEW q \in FsProcs, Writes(q, i)
        PROVE  B!Reached(i)' = B!Reached(i) /\ B!Reached(i) \in Nat
    <3>1. B!Reached(i) = Larger(size[i], B!At(q)) /\ B!Reached(i) \in Nat
      BY <2>2, ReachedIs
    <3>2. B!Reached(i)' = Larger(size'[i], B!At(q)')
      BY <1>3, <2>2, ReachedIsNext
    <3> QED BY <1>5, <2>2, <3>1, <3>2
  <2> QED BY <2>1, <2>2
<1>7. Holding'[i] = Holding[i]
  <2>1. Alone /\ Alone'
    BY DEF FilesInv
  <2>2. B!Locked(i)' <=> B!Locked(i)
    BY <1>1 DEF B!Locked
  <2>3. CASE ~B!Locked(i)
    BY <2>1, <2>2, <2>3, HoldersAre, HoldersAreNext
  <2>4. CASE B!Locked(i)
    <3>1. PICK q \in FsProcs : B!InInode(q) /\ op[q].ip = i
      BY <2>4 DEF B!Locked
    <3>2. Holding[i] = q
      BY <2>1, <3>1, HoldersAre
    <3>3. Holding'[i] = q
      BY <1>1, <2>1, <3>1, HoldersAreNext
    <3> QED BY <3>2, <3>3
  <2> QED BY <2>3, <2>4
<1> QED BY <1>4, <1>6, <1>7

(* Nor does it move the offsets nobody writes through.                     *)
LEMMA OffsetSame ==
  ASSUME FilesInv, FilesInv', NEW f \in Opens, foff'[f] = foff[f],
         \A q \in FsProcs : op[q].at = "turn" /\ op[q].f = f => op'[q] = op[q],
         \A q \in FsProcs : op'[q].at = "turn" /\ op'[q].f = f => op'[q] = op[q]
  PROVE  Offsets'[f] = Offsets[f]
<1>1. CASE \A q \in FsProcs : ~(op[q].at = "turn" /\ op[q].f = f)
  <2>1. \A q \in FsProcs : ~(op'[q].at = "turn" /\ op'[q].f = f)
    BY <1>1
  <2> QED BY <1>1, <2>1, OffsetsAre, OffsetsAreNext
<1>2. ASSUME NEW q \in FsProcs, op[q].at = "turn", op[q].f = f
      PROVE  Offsets'[f] = Offsets[f]
  <2>1. op'[q] = op[q]
    BY <1>2
  <2>2. B!At(q)' = B!At(q)
    BY <1>2, <2>1 DEF B!At
  <2> QED BY <1>2, <2>1, <2>2, OffsetsAre, OffsetsAreNext
<1> QED BY <1>1, <1>2

(* The variables of ByteFile as functions.                                 *)
LEMMA AsFunctions ==
  /\ Texts = [i \in Files |-> Texts[i]] /\ Texts' = [i \in Files |-> Texts'[i]]
  /\ Offsets = [f \in Opens |-> Offsets[f]] /\ Offsets' = [f \in Opens |-> Offsets'[f]]
  /\ Calls = [p \in FsProcs |-> Calls[p]] /\ Calls' = [p \in FsProcs |-> Calls'[p]]
  /\ Holding = [i \in Files |-> Holding[i]] /\ Holding' = [i \in Files |-> Holding'[i]]
BY DEF Texts, Offsets, Calls, Holding

(* A file is opened.                                                       *)
LEMMA OpenBytes ==
  ASSUME FilesInv, FilesInv', BytesInv, B!Open
  PROVE  BytesInv' /\ T!Next
<1>1. /\ UNCHANGED <<foff, addrs, size, marked, cached, stored, op, torn, halted>>
      /\ \E f \in Opens, i \in Files : fip[f] = 0 /\ fip' = [fip EXCEPT ![f] = i]
  BY DEF B!Open, B!Nil
<1>2. Still
  BY <1>1 DEF Still, SameCall
<1>3. \A i \in Files, x \in Nat : ByteOf(i, x)' = ByteOf(i, x) /\ B!Slot(i, x \div BSIZE)' = B!Slot(i, x \div BSIZE)
  BY <1>1 DEF ByteOf, B!ByteAt, B!Slot
<1>4. UNCHANGED <<Texts, Offsets, Calls, Holding>>
  BY <1>2, <1>3, StillStutters
<1>5. T!Open
  BY <1>1, <1>4 DEF T!Open
<1>6. TextKept'
  <2>1. \A i \in Files : (Truncating(i)' <=> Truncating(i)) /\ B!Reached(i)' = B!Reached(i)
    BY <1>2, StillSame
  <2> QED BY <1>1, <1>3, <2>1 DEF BytesInv, TextKept
<1>7. Idling'
  BY <1>1 DEF BytesInv, Idling
<1> QED BY <1>5, <1>6, <1>7 DEF BytesInv, T!Next

(* An inode nobody has is as long as its text.                             *)
LEMMA FreeFile ==
  ASSUME FilesInv, NEW i \in Files, ~B!Locked(i)
  PROVE  /\ ~Truncating(i) /\ Len(Texts[i]) = size[i] /\ B!Reached(i) = size[i] /\ size[i] \in Nat
         /\ Holding[i] = Nobody
         /\ \A f \in Opens : fip[f] = i => Offsets[f] = foff[f]
<1>1. \A p \in FsProcs : ~(B!InInode(p) /\ op[p].ip = i)
  BY DEF B!Locked
<1>2. ~Truncating(i) /\ \A p \in FsProcs : ~Writes(p, i)
  BY <1>1 DEF Truncating, Writes, B!InInode
<1>3. B!Reached(i) = size[i] /\ size[i] \in Nat
  BY <1>2, ReachedIs
<1>4. Len(Texts[i]) = size[i]
  BY <1>2, <1>3, TextLength
<1>5. Holding[i] = Nobody
  BY HoldersAre DEF FilesInv
<1>6. ASSUME NEW f \in Opens, fip[f] = i
      PROVE  Offsets[f] = foff[f]
  <2>1. \A p \in FsProcs : ~(op[p].at = "turn" /\ op[p].f = f)
    BY <1>2, <1>6 DEF Writes, FilesInv, Calling
  <2> QED BY <2>1, OffsetsAre
<1> QED BY <1>2, <1>3, <1>4, <1>5, <1>6

(* A read moves the offset up to the end of the text.                      *)
LEMMA ReadBytes ==
  ASSUME FilesInv, FilesInv', BytesInv, NEW p \in FsProcs, B!Read(p)
  PROVE  BytesInv' /\ T!Next
<1>1. UNCHANGED <<fip, addrs, size, marked, cached, stored, op, torn, halted>>
  BY DEF B!Read
<1>2. PICK f \in Opens, n \in Sizes :
        /\ ~B!Locked(fip[f]) /\ foff[f] < size[fip[f]]
        /\ foff' = [foff EXCEPT ![f] = IF @ + n > size[fip[f]] THEN size[fip[f]] ELSE @ + n]
        /\ fip[f] # 0
  BY DEF B!Read, B!IsOpen, B!Nil
<1>3. fip[f] \in Files /\ foff \in [Opens -> Nat] /\ n \in Nat
  <2>1. fip \in [Opens -> Files \cup {0}] /\ foff \in [Opens -> Nat]
    BY DEF FilesInv, FileTypes
  <2>2. n \in 1..4
    BY FileNumbers
  <2> QED BY <1>2, <2>1, <2>2
<1>4. PICK i \in Files : i = fip[f]
  BY <1>3
<1>5. /\ Len(Texts[i]) = size[i] /\ size[i] \in Nat /\ Holding[i] = Nobody /\ Offsets[f] = foff[f]
  BY <1>2, <1>4, FreeFile
<1>6. \A j \in Files : /\ Truncating(j)' <=> Truncating(j)
                       /\ B!Locked(j)' <=> B!Locked(j)
                       /\ \A q \in FsProcs : Writes(q, j)' <=> Writes(q, j)
  BY <1>1 DEF Truncating, B!Locked, B!InInode, Writes
<1>7. \A q \in FsProcs : op[q].at = "turn" => op[q].f # f /\ op[q].f \in Opens
  BY <1>2 DEF FilesInv, Calling, B!Locked, B!InInode
<1>8. \A g \in Opens : g # f => foff'[g] = foff[g]
  BY <1>2, <1>3
<1>9. \A q \in FsProcs : op[q].at = "turn" => B!At(q)' = B!At(q)
  BY <1>1, <1>7, <1>8 DEF B!At
<1>10. ASSUME NEW j \in Files
       PROVE  B!Reached(j)' = B!Reached(j) /\ B!Reached(j) \in Nat
  <2>1. CASE \A q \in FsProcs : ~Writes(q, j)
    BY <1>1, <1>6, <2>1, ReachedIs, ReachedIsNext
  <2>2. ASSUME NEW q \in FsProcs, Writes(q, j)
        PROVE  B!Reached(j)' = B!Reached(j) /\ B!Reached(j) \in Nat
    <3>1. B!Reached(j) = Larger(size[j], B!At(q)) /\ B!Reached(j) \in Nat
      BY <2>2, ReachedIs
    <3>2. B!Reached(j)' = Larger(size'[j], B!At(q)')
      BY <1>6, <2>2, ReachedIsNext
    <3>3. B!At(q)' = B!At(q)
      BY <1>9, <2>2 DEF Writes
    <3> QED BY <1>1, <3>1, <3>2, <3>3
  <2> QED BY <2>1, <2>2
<1>11. \A j \in Files, x \in Nat : ByteOf(j, x)' = ByteOf(j, x) /\ B!Slot(j, x \div BSIZE)' = B!Slot(j, x \div BSIZE)
  BY <1>1 DEF ByteOf, B!ByteAt, B!Slot
<1>12. Texts' = Texts
  <2>1. ASSUME NEW j \in Files PROVE Texts'[j] = Texts[j]
    BY <1>6, <1>10, <1>11, SameText
  <2> QED BY <2>1, AsFunctions
<1>13. Calls' = Calls /\ Holding' = Holding
  <2>1. Calls' = Calls
    BY <1>1 DEF Calls
  <2>2. Holding' = Holding
    BY <1>1 DEF Holding, B!Writer, B!InInode
  <2> QED BY <2>1, <2>2
<1>14. /\ \A g \in Opens : g # f => Offsets'[g] = Offsets[g]
       /\ Offsets'[f] = foff'[f]
  <2>1. ASSUME NEW g \in Opens, g # f
        PROVE  Offsets'[g] = Offsets[g]
    BY <1>1, <1>8, <2>1, OffsetSame
  <2>2. Offsets'[f] = foff'[f]
    BY <1>1, <1>7, OffsetsAreNext
  <2> QED BY <2>1, <2>2
<1>15. foff'[f] = IF Offsets[f] + n < Len(Texts[i]) THEN Offsets[f] + n ELSE Len(Texts[i])
  <2>1. foff'[f] = IF foff[f] + n > size[i] THEN size[i] ELSE foff[f] + n
    BY <1>2, <1>3, <1>4
  <2>2. foff[f] \in Nat
    BY <1>3
  <2> QED BY <1>3, <1>5, <2>1, <2>2
<1>16. Offsets' = [Offsets EXCEPT ![f] = IF @ + n < Len(Texts[i]) THEN @ + n ELSE Len(Texts[i])]
  <2> DEFINE v == IF Offsets[f] + n < Len(Texts[i]) THEN Offsets[f] + n ELSE Len(Texts[i])
  <2>1. Offsets'[f] = v
    BY <1>14, <1>15
  <2>2. Offsets' = [Offsets EXCEPT ![f] = v]
    <3> HIDE DEF v
    <3> QED BY <1>14, <2>1, AsFunctions
  <2> QED BY <2>2
<1>17. T!Read
  <2>1. f \in T!IsOpen
    BY <1>2 DEF T!IsOpen
  <2>2. Holding[fip[f]] = Nobody /\ Offsets[f] < Len(Texts[fip[f]])
    BY <1>2, <1>4, <1>5
  <2>3. Offsets' = [Offsets EXCEPT ![f] = IF @ + n < Len(Texts[fip[f]]) THEN @ + n ELSE Len(Texts[fip[f]])]
    BY <1>4, <1>16
  <2> QED BY <1>1, <1>12, <1>13, <2>1, <2>2, <2>3 DEF T!Read
<1>18. TextKept'
  BY <1>1, <1>6, <1>10, <1>11 DEF BytesInv, TextKept
<1>19. Idling'
  BY <1>1 DEF BytesInv, Idling
<1> QED BY <1>17, <1>18, <1>19 DEF BytesInv, T!Next

(* A crash loses no byte of a text, and ends the calls.                    *)
LEMMA CrashBytes ==
  ASSUME FilesInv, FilesInv', BytesInv, B!Crash
  PROVE  BytesInv' /\ T!Next
<1>1. /\ UNCHANGED <<fip, addrs, size, marked, stored, torn>>
      /\ cached' = stored /\ foff' = [f \in Opens |-> 0] /\ op' = [p \in FsProcs |-> B!Idle]
      /\ \A p \in FsProcs : ~B!InInode(p)
  BY DEF B!Crash
<1>2. \A p \in FsProcs : op'[p] = B!Idle /\ op'[p].at = "user"
  BY <1>1, IdleIs
<1>3. \A i \in Files : ~B!Locked(i) /\ ~B!Locked(i)'
  BY <1>1, <1>2 DEF B!Locked, B!InInode
<1>4. \A i \in Files : /\ ~Truncating(i) /\ ~Truncating(i)'
                       /\ B!Reached(i)' = B!Reached(i) /\ B!Reached(i) \in Nat
                       /\ Holding[i] = Nobody
  <2> SUFFICES ASSUME NEW i \in Files
               PROVE  /\ ~Truncating(i) /\ ~Truncating(i)'
                      /\ B!Reached(i)' = B!Reached(i) /\ B!Reached(i) \in Nat
                      /\ Holding[i] = Nobody
    OBVIOUS
  <2>1. ~Truncating(i) /\ B!Reached(i) = size[i] /\ size[i] \in Nat /\ Holding[i] = Nobody
    BY <1>3, FreeFile
  <2>2. ~Truncating(i)' /\ \A p \in FsProcs : ~Writes(p, i)'
    BY <1>2 DEF Truncating, Writes
  <2>3. B!Reached(i)' = size'[i]
    BY <2>2, ReachedIsNext
  <2> QED BY <1>1, <2>1, <2>2, <2>3
<1>5. \A i \in Files, k \in Numbers : B!Slot(i, k)' = B!Slot(i, k)
  <2>1. \A i \in Files : Ind(i) # 0 => cached'[Ind(i)] = cached[Ind(i)]
    BY <1>1 DEF FilesInv, Kept
  <2> QED BY <1>1, <2>1, SameNumbers
<1>6. ASSUME NEW i \in Files, NEW x \in Nat, x < B!Reached(i)
      PROVE  /\ B!Slot(i, x \div BSIZE)' = B!Slot(i, x \div BSIZE)
             /\ ByteOf(i, x)' = ByteOf(i, x)
  <2>1. B!Slot(i, x \div BSIZE)' = B!Slot(i, x \div BSIZE)
    BY <1>4, <1>5, <1>6, ByteBacked
  <2>2. <<i, x>> \notin torn =>
          cached[B!Slot(i, x \div BSIZE)][x % BSIZE] = stored[B!Slot(i, x \div BSIZE)][x % BSIZE]
    BY <1>4, <1>6 DEF BytesInv, TextKept
  <2>3. B!ByteAt(i, x) = cached[B!Slot(i, x \div BSIZE)][x % BSIZE]
    BY DEF B!ByteAt
  <2>4. B!ByteAt(i, x)' = cached'[B!Slot(i, x \div BSIZE)][x % BSIZE]
    BY <2>1 DEF B!ByteAt
  <2> QED BY <1>1, <2>1, <2>2, <2>3, <2>4 DEF ByteOf
<1>7. Texts' = Texts
  <2>1. ASSUME NEW i \in Files PROVE Texts'[i] = Texts[i]
    BY <1>4, <1>6, SameText
  <2> QED BY <2>1, AsFunctions
<1>8. Holding' = Holding
  <2>1. \A i \in Files : Holding'[i] = Nobody
    BY <1>3, HoldersAreNext DEF FilesInv
  <2> QED BY <1>4, <2>1, AsFunctions
<1>9. Offsets' = [o \in Opens |-> 0]
  <2>1. \A o \in Opens : Offsets'[o] = 0
    BY <1>1, <1>2, OffsetsAreNext
  <2> QED BY <2>1, AsFunctions
<1>10. Calls' = [p \in FsProcs |-> T!NoCall]
  <2>1. \A p \in FsProcs : Calls'[p] = T!NoCall
    BY <1>2, CallsAre, IdleLeft
  <2> QED BY <2>1, AsFunctions
<1>11. T!Crash
  BY <1>1, <1>4, <1>7, <1>8, <1>9, <1>10 DEF T!Crash
<1>12. TextKept'
  BY <1>1 DEF TextKept
<1>13. Idling'
  BY <1>2 DEF Idling
<1> QED BY <1>11, <1>12, <1>13 DEF BytesInv, T!Next

(* A process that is not in a call.                                        *)
LEMMA Resting ==
  ASSUME FilesInv, BytesInv, NEW p \in FsProcs, op[p].at = "user"
  PROVE  op[p] = B!Idle /\ Calls[p] = T!NoCall /\ T!Idle(p)
<1>1. op[p] = B!Idle
  BY DEF BytesInv, Idling
<1>2. Calls[p] = T!NoCall
  BY <1>1, CallsAre, IdleLeft
<1>3. \A i \in Files : Holding[i] # p
  BY HoldersAre DEF FilesInv, B!InInode
<1> QED BY <1>1, <1>2, <1>3 DEF T!Idle

(* The text of a file that is truncated is gone at once.                   *)
LEMMA TruncateBytes ==
  ASSUME FilesInv, FilesInv', BytesInv, NEW p \in FsProcs, B!Truncate(p)
  PROVE  BytesInv' /\ T!Next
<1>1. op[p].at = "user" /\ UNCHANGED <<fip, foff, addrs, size, marked, cached, stored, halted>>
  BY DEF B!Truncate
<1>2. PICK i \in Files :
        /\ ~B!Locked(i) /\ op' = [op EXCEPT ![p] = [B!Idle EXCEPT !.at = "trunc", !.ip = i]]
        /\ torn' = {t \in torn : t[1] # i}
  BY DEF B!Truncate
<1>3. op[p] = B!Idle /\ Calls[p] = T!NoCall /\ T!Idle(p)
  BY <1>1, Resting
<1>4. /\ \A q \in FsProcs : q # p => op'[q] = op[q]
      /\ op'[p].at = "trunc" /\ op'[p].ip = i /\ op'[p].f = 0 /\ op'[p].n = 0 /\ op'[p].i = 0 /\ op'[p].tot = 0
  <2>1. op \in [FsProcs -> FileCalls]
    BY DEF FilesInv, FileTypes
  <2>2. op'[p] = [B!Idle EXCEPT !.at = "trunc", !.ip = i] /\ \A q \in FsProcs : q # p => op'[q] = op[q]
    BY <1>2, <2>1
  <2>3. /\ [B!Idle EXCEPT !.at = "trunc", !.ip = i].at = "trunc"
        /\ [B!Idle EXCEPT !.at = "trunc", !.ip = i].ip = i
        /\ [B!Idle EXCEPT !.at = "trunc", !.ip = i].f = 0
        /\ [B!Idle EXCEPT !.at = "trunc", !.ip = i].n = 0
        /\ [B!Idle EXCEPT !.at = "trunc", !.ip = i].i = 0
        /\ [B!Idle EXCEPT !.at = "trunc", !.ip = i].tot = 0
    BY DEF B!Idle, B!Nil
  <2> QED BY <2>2, <2>3
<1>5. Truncating(i)' /\ Holding'[i] = p /\ Holding[i] = Nobody /\ Texts'[i] = <<>>
  <2>1. Truncating(i)' /\ B!InInode(p)' /\ op'[p].ip = i
    BY <1>4 DEF Truncating, B!InInode
  <2> QED BY <1>2, <2>1, HoldersAreNext, FreeFile, TextsAreNext DEF FilesInv
<1>6. ASSUME NEW j \in Files, j # i
      PROVE  /\ Truncating(j)' <=> Truncating(j)
             /\ B!Reached(j)' = B!Reached(j) /\ B!Reached(j) \in Nat
             /\ Holding'[j] = Holding[j]
             /\ \A x \in Nat : (<<j, x>> \in torn' <=> <<j, x>> \in torn) /\ ByteOf(j, x)' = ByteOf(j, x)
  <2>1. Elsewhere(p, j)
    BY <1>1, <1>4, <1>6 DEF Elsewhere, B!InInode
  <2>2. /\ Truncating(j)' <=> Truncating(j)
        /\ B!Reached(j)' = B!Reached(j) /\ B!Reached(j) \in Nat
        /\ Holding'[j] = Holding[j]
    BY <1>1, <1>4, <2>1, OthersSame
  <2>3. \A x \in Nat : <<j, x>> \in torn' <=> <<j, x>> \in torn
    BY <1>2, <1>6
  <2>4. \A x \in Nat : B!ByteAt(j, x)' = B!ByteAt(j, x)
    BY <1>1 DEF B!ByteAt, B!Slot
  <2> QED BY <2>2, <2>3, <2>4 DEF ByteOf
<1>7. Texts' = [Texts EXCEPT ![i] = <<>>]
  <2>1. \A j \in Files : j # i => Texts'[j] = Texts[j]
    BY <1>6, SameText
  <2> QED BY <1>5, <2>1, AsFunctions
<1>8. Holding' = [Holding EXCEPT ![i] = p]
  BY <1>5, <1>6, AsFunctions
<1>9. Offsets' = Offsets
  <2>1. \A f \in Opens : Offsets'[f] = Offsets[f]
    BY <1>1, <1>4, OffsetSame
  <2> QED BY <2>1, AsFunctions
<1>10. Calls' = Calls
  <2>1. Calls'[p] = T!NoCall
    <3>1. op'[p] \in FileCalls
      BY DEF FilesInv, FileTypes, FileCalls, LogEntries, B!DataBlocks, B!BitmapBlock, B!Data, B!MAXFILE, B!NINDIRECT
    <3> QED BY <1>4, <3>1, CallsAre, IdleLeft
  <2>2. \A q \in FsProcs : q # p => Calls'[q] = Calls[q]
    BY <1>4, CallsAre
  <2> QED BY <1>3, <2>1, <2>2, AsFunctions
<1>11. T!Truncate(p)
  BY <1>1, <1>3, <1>5, <1>7, <1>8, <1>9, <1>10 DEF T!Truncate
<1>12. TextKept'
  <2> SUFFICES ASSUME NEW j \in Files, NEW x \in Nat, ~Truncating(j)', x < B!Reached(j)', <<j, x>> \notin torn'
               PROVE  (cached[B!Slot(j, x \div BSIZE)][x % BSIZE] = stored[B!Slot(j, x \div BSIZE)][x % BSIZE])'
    BY DEF TextKept
  <2>1. j # i
    BY <1>5
  <2>2. cached[B!Slot(j, x \div BSIZE)][x % BSIZE] = stored[B!Slot(j, x \div BSIZE)][x % BSIZE]
    BY <1>6, <2>1 DEF BytesInv, TextKept
  <2> QED BY <1>1, <2>2 DEF B!Slot
<1>13. Idling'
  <2> SUFFICES ASSUME NEW q \in FsProcs
               PROVE  /\ op'[q].at = "user" => op'[q] = B!Idle
                      /\ op'[q].at = "trunc" => op'[q].f = 0 /\ op'[q].n = 0 /\ op'[q].i = 0 /\ op'[q].tot = 0
    BY DEF Idling, B!Idle, B!Nil
  <2>1. CASE q = p
    BY <1>4, <2>1
  <2>2. CASE q # p
    BY <1>4, <2>2 DEF BytesInv, Idling
  <2> QED BY <2>1, <2>2
<1> QED BY <1>11, <1>12, <1>13 DEF BytesInv, T!Next

(* The inode is unlocked, and as short as the text.                        *)
LEMMA TruncatedBytes ==
  ASSUME FilesInv, FilesInv', BytesInv, NEW p \in FsProcs, B!Truncated(p)
  PROVE  BytesInv' /\ T!Next
<1>1. /\ op[p].at = "trunc" /\ op[p].ip \in Files
      /\ size' = [size EXCEPT ![op[p].ip] = 0] /\ op' = [op EXCEPT ![p] = B!Idle]
      /\ UNCHANGED <<fip, foff, addrs, marked, cached, stored, torn, halted>>
  BY DEF B!Truncated, FilesInv, Calling
<1>2. PICK i \in Files : i = op[p].ip
  BY <1>1
<1>3. op'[p] = B!Idle /\ op'[p].at = "user" /\ \A q \in FsProcs : q # p => op'[q] = op[q]
  <2>1. op \in [FsProcs -> FileCalls]
    BY DEF FilesInv, FileTypes
  <2> QED BY <1>1, <2>1, IdleIs
<1>4. size'[i] = 0 /\ \A j \in Files : j # i => size'[j] = size[j]
  <2>1. DOMAIN size = Files
    <3>1. size \in [Files -> 0..(B!MAXFILE * BSIZE)]
      BY DEF FilesInv, FileTypes
    <3> QED BY <3>1
  <2>2. size' = [size EXCEPT ![i] = 0]
    BY <1>1, <1>2
  <2> HIDE <1>1, <1>2
  <2> QED BY <2>1, <2>2
<1>5. Calls[p] = T!NoCall /\ Calls' = Calls
  <2>1. op[p] \in FileCalls /\ op[p].f = 0 /\ op[p].n = 0 /\ op[p].i = 0 /\ op[p].tot = 0
    BY <1>1 DEF BytesInv, Idling, FilesInv, FileTypes
  <2>2. Calls[p] = T!NoCall
    BY <2>1, CallsAre, IdleLeft
  <2>3. Calls'[p] = T!NoCall
    BY <1>3, CallsAre, IdleLeft
  <2>4. \A q \in FsProcs : q # p => Calls'[q] = Calls[q]
    BY <1>3, CallsAre
  <2> QED BY <2>2, <2>3, <2>4, AsFunctions
<1>6. Truncating(i) /\ Texts[i] = <<>> /\ Holding[i] = p
  <2>1. Truncating(i) /\ B!InInode(p)
    BY <1>1, <1>2 DEF Truncating, B!InInode
  <2> QED BY <1>2, <2>1, TextsAre, HoldersAre DEF FilesInv
<1>7. ~B!Locked(i)'
  <2> SUFFICES ASSUME NEW q \in FsProcs, B!InInode(q)', op'[q].ip = i
               PROVE  FALSE
    BY DEF B!Locked, B!InInode
  <2>1. q # p
    BY <1>3 DEF B!InInode
  <2>2. B!InInode(q) /\ op[q].ip = i
    BY <1>3, <2>1 DEF B!InInode
  <2> QED BY <1>1, <1>2, <2>1, <2>2 DEF FilesInv, Alone, B!InInode
<1>8. Holding'[i] = Nobody /\ ~Truncating(i)' /\ B!Reached(i)' = 0 /\ Texts'[i] = <<>>
  <2>1. Holding'[i] = Nobody
    BY <1>7, HoldersAreNext DEF FilesInv
  <2>2. ~Truncating(i)' /\ \A q \in FsProcs : ~Writes(q, i)'
    BY <1>7 DEF B!Locked, B!InInode, Truncating, Writes
  <2>3. B!Reached(i)' = 0
    BY <1>4, <2>2, ReachedIsNext
  <2>4. Texts'[i] = [j \in 1..0 |-> ByteOf(i, j - 1)']
    BY <2>2, <2>3, TextsAreNext
  <2> QED BY <2>1, <2>2, <2>3, <2>4
<1>9. ASSUME NEW j \in Files, j # i
      PROVE  /\ Truncating(j)' <=> Truncating(j)
             /\ B!Reached(j)' = B!Reached(j) /\ B!Reached(j) \in Nat
             /\ Holding'[j] = Holding[j]
  <2>1. Elsewhere(p, j)
    BY <1>1, <1>2, <1>3, <1>9 DEF Elsewhere, B!InInode
  <2> QED BY <1>1, <1>3, <1>4, <1>9, <2>1, OthersSame
<1>10. \A j \in Files, x \in Nat : ByteOf(j, x)' = ByteOf(j, x)
  BY <1>1 DEF ByteOf, B!ByteAt, B!Slot
<1>11. Texts' = Texts
  <2>1. \A j \in Files : j # i => Texts'[j] = Texts[j]
    BY <1>9, <1>10, SameText
  <2> QED BY <1>6, <1>8, <2>1, AsFunctions
<1>12. Holding' = [Holding EXCEPT ![i] = Nobody]
  BY <1>8, <1>9, AsFunctions
<1>13. Offsets' = Offsets
  <2>1. \A f \in Opens : Offsets'[f] = Offsets[f]
    BY <1>1, <1>3, OffsetSame
  <2> QED BY <2>1, AsFunctions
<1>14. T!Truncated(p)
  BY <1>1, <1>5, <1>6, <1>11, <1>12, <1>13 DEF T!Truncated
<1>15. TextKept'
  <2> SUFFICES ASSUME NEW j \in Files, NEW x \in Nat, ~Truncating(j)', x < B!Reached(j)', <<j, x>> \notin torn'
               PROVE  (cached[B!Slot(j, x \div BSIZE)][x % BSIZE] = stored[B!Slot(j, x \div BSIZE)][x % BSIZE])'
    BY DEF TextKept
  <2>1. j # i
    BY <1>8
  <2>2. cached[B!Slot(j, x \div BSIZE)][x % BSIZE] = stored[B!Slot(j, x \div BSIZE)][x % BSIZE]
    BY <1>1, <1>9, <2>1 DEF BytesInv, TextKept
  <2> QED BY <1>1, <2>2 DEF B!Slot
<1>16. Idling'
  <2>1. \A q \in FsProcs : op'[q].at = "user" => op'[q] = B!Idle
    BY <1>3 DEF BytesInv, Idling
  <2>2. \A q \in FsProcs : op'[q].at = "trunc" =>
          op'[q].f = 0 /\ op'[q].n = 0 /\ op'[q].i = 0 /\ op'[q].tot = 0
    BY <1>3 DEF BytesInv, Idling
  <2> QED BY <2>1, <2>2 DEF Idling, B!Idle, B!Nil
<1> QED BY <1>14, <1>15, <1>16 DEF BytesInv, T!Next

(* A piece begins, or is refused and the call with it.                     *)
Refused(p) == Holding' = Holding /\ Calls' = [Calls EXCEPT ![p] = T!NoCall]
Begun(p, o) ==
  /\ Offsets[o.f] <= Len(Texts[o.ip])
  /\ Holding' = [Holding EXCEPT ![o.ip] = p]
  /\ Calls' = [Calls EXCEPT ![p] = [f |-> o.f, bytes |-> Left(o)]]

(* The first step of a piece takes the inode or ends the call.             *)
LEMMA PieceBytes ==
  ASSUME FilesInv, FilesInv', BytesInv, NEW p \in FsProcs, NEW o \in FileCalls, op[p].at \in {"user", "piece"},
         o.f \in Opens, o.ip \in Files, fip[o.f] = o.ip, o.tot = 0, B!Piecewise(p, o)
  PROVE  /\ BytesInv' /\ UNCHANGED <<fip, Texts, Offsets>> /\ Holding[o.ip] = Nobody
         /\ Refused(p) \/ Begun(p, o)
<1>1. /\ ~B!Locked(o.ip)
      /\ op' = [op EXCEPT ![p] =
              IF foff[o.f] > size[o.ip] \/ foff[o.f] + B!Piece(o) > B!MAXFILE * BSIZE THEN B!Idle
              ELSE [o EXCEPT !.at = "turn"]]
      /\ UNCHANGED <<fip, foff, addrs, size, marked, cached, stored, torn, halted>>
  BY DEF B!Piecewise
<1>2. op \in [FsProcs -> FileCalls] /\ foff \in [Opens -> Nat]
  BY DEF FilesInv, FileTypes
<1> DEFINE t == [o EXCEPT !.at = "turn"]
<1>3. /\ t.at = "turn" /\ t.f = o.f /\ t.ip = o.ip /\ t.n = o.n /\ t.i = o.i /\ t.tot = 0
  BY DEF FileCalls
<1>4. \A q \in FsProcs : q # p => op'[q] = op[q]
  BY <1>1, <1>2
<1> HIDE DEF t
<1>5. op'[p] = B!Idle \/ (op'[p] = t /\ ~(foff[o.f] > size[o.ip]))
  BY <1>1, <1>2 DEF t
<1>6. PICK i \in Files : i = o.ip
  OBVIOUS
<1>7. PICK f \in Opens : f = o.f
  OBVIOUS
<1>8. /\ ~Truncating(i) /\ Len(Texts[i]) = size[i] /\ B!Reached(i) = size[i] /\ size[i] \in Nat
      /\ Holding[i] = Nobody /\ Offsets[f] = foff[f] /\ foff[f] \in Nat
  BY <1>1, <1>2, <1>6, <1>7, FreeFile
<1>9. \A x \in Nat, j \in Files : ByteOf(j, x)' = ByteOf(j, x)
  BY <1>1 DEF ByteOf, B!ByteAt, B!Slot
<1>10. ~B!InInode(p)
  BY DEF B!InInode
<1>11. ASSUME NEW j \in Files, j # i \/ op'[p] = B!Idle
       PROVE  /\ Truncating(j)' <=> Truncating(j)
              /\ B!Reached(j)' = B!Reached(j) /\ B!Reached(j) \in Nat
              /\ Holding'[j] = Holding[j]
  <2>1. Elsewhere(p, j)
    BY <1>3, <1>5, <1>6, <1>10, <1>11, IdleIs DEF Elsewhere, B!InInode
  <2> QED BY <1>1, <1>4, <2>1, OthersSame
<1>12. ASSUME op'[p] = t
       PROVE  /\ ~Truncating(i)' /\ B!Reached(i)' = B!Reached(i) /\ B!Reached(i) \in Nat
              /\ Holding'[i] = p /\ Offsets'[f] = foff[f]
  <2>1. Writes(p, i)' /\ B!InInode(p)' /\ op'[p].ip = i /\ op'[p].at = "turn" /\ op'[p].f = f
    BY <1>3, <1>6, <1>7, <1>12 DEF Writes, B!InInode
  <2>2. B!At(p)' = foff[f]
    <3>1. B!At(p)' = foff'[op'[p].f] + op'[p].tot
      BY DEF B!At
    <3>2. foff'[op'[p].f] = foff[f] /\ op'[p].tot = 0
      BY <1>1, <1>3, <1>7, <1>12
    <3> QED BY <1>8, <3>1, <3>2
  <2>3. B!Reached(i)' = Larger(size'[i], B!At(p)')
    BY <2>1, ReachedIsNext
  <2>4. ~(foff[f] > size[i])
    BY <1>3, <1>5, <1>6, <1>7, <1>12, IdleIs
  <2>5. B!Reached(i)' = size[i]
    BY <1>1, <1>8, <2>2, <2>3, <2>4 DEF Larger
  <2>6. ~Truncating(i)'
    <3> SUFFICES ASSUME NEW q \in FsProcs, op'[q].at = "trunc", op'[q].ip = i
                 PROVE  FALSE
      BY DEF Truncating
    <3>1. q # p
      BY <2>1
    <3> QED BY <1>4, <1>8, <3>1 DEF Truncating
  <2>7. Holding'[i] = p
    BY <2>1, HoldersAreNext DEF FilesInv
  <2>8. Offsets'[f] = foff[f]
    BY <2>1, <2>2, OffsetsAreNext
  <2> QED BY <1>8, <2>5, <2>6, <2>7, <2>8
<1>13. \A j \in Files : /\ Truncating(j)' <=> Truncating(j)
                        /\ B!Reached(j)' = B!Reached(j) /\ B!Reached(j) \in Nat
  BY <1>5, <1>8, <1>11, <1>12
<1>14. Texts' = Texts
  <2>1. ASSUME NEW j \in Files PROVE Texts'[j] = Texts[j]
    BY <1>9, <1>13, SameText
  <2> QED BY <2>1, AsFunctions
<1>15. Offsets' = Offsets
  <2>1. ASSUME NEW g \in Opens, g # f \/ op'[p] = B!Idle
        PROVE  Offsets'[g] = Offsets[g]
    <3>1. op[p].at # "turn" /\ (op'[p].at = "turn" => op'[p].f # g)
      BY <1>3, <1>5, <1>7, <2>1, IdleIs
    <3>2. foff'[g] = foff[g]
      BY <1>1
    <3> QED BY <1>4, <3>1, <3>2, OffsetSame
  <2> QED BY <1>5, <1>8, <1>12, <2>1, AsFunctions
<1>16. ASSUME op'[p] = B!Idle
       PROVE  Refused(p)
  <2>1. Holding' = Holding
    BY <1>11, <1>16, AsFunctions
  <2>2. Calls'[p] = T!NoCall /\ \A q \in FsProcs : q # p => Calls'[q] = Calls[q]
    BY <1>4, <1>16, CallsAre, IdleLeft
  <2>3. Calls' = [Calls EXCEPT ![p] = T!NoCall]
    BY <2>2, AsFunctions
  <2> QED BY <2>1, <2>3 DEF Refused
<1>17. ASSUME op'[p] = t, op'[p] # B!Idle
       PROVE  Begun(p, o)
  <2>1. Holding' = [Holding EXCEPT ![o.ip] = p]
    BY <1>6, <1>11, <1>12, <1>17, AsFunctions
  <2>2. Left(t) = Left(o)
    BY <1>3 DEF Left
  <2>3. Calls'[p] = [f |-> o.f, bytes |-> Left(o)] /\ \A q \in FsProcs : q # p => Calls'[q] = Calls[q]
    BY <1>3, <1>4, <1>17, <2>2, CallsAre
  <2>4. Calls' = [Calls EXCEPT ![p] = [f |-> o.f, bytes |-> Left(o)]]
    BY <2>3, AsFunctions
  <2>5. Offsets[o.f] <= Len(Texts[o.ip])
    BY <1>5, <1>6, <1>7, <1>8, <1>17
  <2> QED BY <2>1, <2>4, <2>5 DEF Begun
<1>18. TextKept'
  <2>1. \A j \in Files, x \in Nat : B!Slot(j, x \div BSIZE)' = B!Slot(j, x \div BSIZE)
    BY <1>1 DEF B!Slot
  <2> QED BY <1>1, <1>13, <2>1 DEF BytesInv, TextKept
<1>19. Idling'
  <2>1. \A q \in FsProcs : op'[q].at = "user" => op'[q] = B!Idle
    BY <1>3, <1>4, <1>5 DEF BytesInv, Idling
  <2>2. \A q \in FsProcs : op'[q].at = "trunc" =>
          op'[q].f = 0 /\ op'[q].n = 0 /\ op'[q].i = 0 /\ op'[q].tot = 0
    BY <1>3, <1>4, <1>5, IdleIs DEF BytesInv, Idling
  <2> QED BY <2>1, <2>2 DEF Idling, B!Idle, B!Nil
<1> QED BY <1>1, <1>5, <1>6, <1>8, <1>14, <1>15, <1>16, <1>17, <1>18, <1>19 DEF BytesInv

(* What a call begins with.                                                *)
LEMMA WholeCall ==
  ASSUME NEW o, o.i = 0, o.tot = 0, o.n \in 1..4
  PROVE  Left(o) = SubSeq(Source, 1, o.n)
<1> DEFINE n == o.n
<1>1. Left(o) = [j \in 1..n |-> Source[j]]
  <2>1. n - o.i - o.tot = n
    OBVIOUS
  <2>2. \A j \in 1..n : o.i + o.tot + j = j
    OBVIOUS
  <2> QED BY <2>1, <2>2 DEF Left
<1>2. n \in 1..4
  OBVIOUS
<1> HIDE DEF n
<1>3. SubSeq(Source, 1, n) = [j \in 1..n |-> Source[j]]
  <2>1. n = 1 \/ n = 2 \/ n = 3 \/ n = 4
    BY <1>2
  <2> QED BY <2>1 DEF Source
<1> QED BY <1>1, <1>3 DEF n

(* So a write begins, or goes on, as ByteFile says.                        *)
LEMMA WriteBytes ==
  ASSUME FilesInv, FilesInv', BytesInv, NEW p \in FsProcs, B!Write(p) \/ B!WriteOn(p)
  PROVE  BytesInv' /\ (T!Next \/ UNCHANGED T!byteVars)
<1>1. CASE B!Write(p)
  <2>1. PICK f \in Opens, n \in Sizes :
          /\ fip[f] # 0 /\ B!Piecewise(p, [B!Idle EXCEPT !.f = f, !.ip = fip[f], !.n = n])
    BY <1>1 DEF B!Write, B!IsOpen, B!Nil
  <2> DEFINE o == [B!Idle EXCEPT !.f = f, !.ip = fip[f], !.n = n]
  <2>2. fip[f] \in Files /\ n \in 1..4
    <3>1. fip \in [Opens -> Files \cup {0}]
      BY DEF FilesInv, FileTypes
    <3>2. n \in 1..4
      BY FileNumbers
    <3> QED BY <2>1, <3>1, <3>2
  <2>3. /\ o.f = f /\ o.ip = fip[f] /\ o.n = n /\ o.i = 0 /\ o.tot = 0
        /\ o \in FileCalls
    <3>1. o.f = f /\ o.ip = fip[f] /\ o.n = n /\ o.i = 0 /\ o.tot = 0
      BY DEF B!Idle, B!Nil
    <3>2. n \in Nat /\ f \in Opens \cup {0} /\ fip[f] \in Files \cup {0}
      BY <2>2
    <3>3. o \in FileCalls
      BY <3>2, IdleIs DEF FileCalls
    <3> QED BY <3>1, <3>3
  <2>4. op[p].at = "user" /\ B!Piecewise(p, o)
    BY <1>1, <2>1 DEF B!Write
  <2>5. Calls[p] = T!NoCall /\ T!Idle(p)
    BY <2>4, Resting
  <2> HIDE DEF o
  <2>6. /\ BytesInv' /\ UNCHANGED <<fip, Texts, Offsets>> /\ Holding[fip[f]] = Nobody
        /\ Refused(p) \/ Begun(p, o)
    BY <2>2, <2>3, <2>4, PieceBytes
  <2>7. CASE Refused(p)
    <3>1. Calls' = Calls
      BY <2>5, <2>7, AsFunctions DEF Refused
    <3> QED BY <2>6, <2>7, <3>1 DEF Refused, T!byteVars
  <2>8. CASE Begun(p, o)
    <3>1. Left(o) = SubSeq(Source, 1, n)
      BY <2>2, <2>3, WholeCall
    <3>2. f \in T!IsOpen
      BY <2>1 DEF T!IsOpen
    <3>3. /\ Offsets[f] <= Len(Texts[fip[f]])
          /\ Holding' = [Holding EXCEPT ![fip[f]] = p]
          /\ Calls' = [Calls EXCEPT ![p] = [f |-> f, bytes |-> SubSeq(Source, 1, n)]]
      BY <2>3, <2>8, <3>1 DEF Begun
    <3>4. T!Write(p)
      BY <2>5, <2>6, <3>2, <3>3 DEF T!Write
    <3> QED BY <2>6, <3>4 DEF T!Next
  <2> QED BY <2>6, <2>7, <2>8
<1>2. CASE B!WriteOn(p)
  <2>1. op[p].at = "piece" /\ B!Piecewise(p, op[p]) /\ op[p] \in FileCalls
    BY <1>2 DEF B!WriteOn, FilesInv, FileTypes
  <2>2. /\ op[p].f \in Opens /\ op[p].ip \in Files /\ fip[op[p].f] = op[p].ip /\ op[p].tot = 0
        /\ op[p].n \in Sizes /\ op[p].i < op[p].n
    BY <2>1 DEF FilesInv, Calling
  <2>3. /\ BytesInv' /\ UNCHANGED <<fip, Texts, Offsets>> /\ Holding[op[p].ip] = Nobody
        /\ Refused(p) \/ Begun(p, op[p])
    BY <2>1, <2>2, PieceBytes
  <2>4. Calls[p] = [f |-> op[p].f, bytes |-> Left(op[p])] /\ Calls[p] # T!NoCall
    <3>1. op[p].i + op[p].tot < op[p].n
      <4>1. op[p].i \in Nat
        BY <2>1 DEF FileCalls
      <4> QED BY <2>2, <4>1
    <3> QED BY <2>1, <2>2, <3>1, CallsAre, SomeLeft
  <2>5. Calls[p].f = op[p].f /\ fip[Calls[p].f] = op[p].ip
    BY <2>2, <2>4
  <2>6. T!WriteOn(p)
    <3>1. CASE Refused(p)
      BY <2>3, <2>4, <2>5, <3>1 DEF Refused, T!WriteOn
    <3>2. CASE Begun(p, op[p])
      <4>1. Calls' = Calls
        BY <2>4, <3>2, AsFunctions DEF Begun
      <4> QED BY <2>3, <2>4, <2>5, <3>2, <4>1 DEF Begun, T!WriteOn
    <3> QED BY <2>3, <3>1, <3>2
  <2> QED BY <2>3, <2>6 DEF T!Next
<1> QED BY <1>1, <1>2

(* Who is idle, or truncates, stays so.                                    *)
LEMMA StillIdling ==
  ASSUME Idling, Still, NEW p \in FsProcs, op[p].at # "user", \A q \in FsProcs : q # p => op'[q] = op[q]
  PROVE  Idling'
<1>1. \A q \in FsProcs : SameCall(op'[q], op[q])
  BY DEF Still
<1>2. \A q \in FsProcs : op'[q].at = "user" => op'[q] = B!Idle
  BY <1>1 DEF Idling, SameCall
<1>3. \A q \in FsProcs : op'[q].at = "trunc" =>
        op'[q].f = 0 /\ op'[q].n = 0 /\ op'[q].i = 0 /\ op'[q].tot = 0
  BY <1>1 DEF Idling, SameCall
<1> QED BY <1>2, <1>3 DEF Idling, B!Idle, B!Nil

(* If the bytes of the texts stay in the blocks they are in, no text       *)
(* changes.                                                                *)
InPlace ==
  \A i \in Files, x \in Nat : ~Truncating(i) /\ x < B!Reached(i) =>
    LET s == B!Slot(i, x \div BSIZE) IN
    B!Slot(i, x \div BSIZE)' = s /\ cached'[s] = cached[s] /\ stored'[s] = stored[s]

(* A step like that changes nothing in ByteFile.                           *)
LEMMA InPlaceSame ==
  ASSUME FilesInv, FilesInv', TextKept, Still, InPlace, torn' = torn, fip' = fip
  PROVE  TextKept' /\ UNCHANGED T!byteVars
<1>1. ASSUME NEW i \in Files, NEW x \in Nat, ~Truncating(i), x < B!Reached(i)
      PROVE  /\ ByteOf(i, x)' = ByteOf(i, x)
             /\ <<i, x>> \notin torn =>
                  (cached[B!Slot(i, x \div BSIZE)][x % BSIZE] = stored[B!Slot(i, x \div BSIZE)][x % BSIZE])'
  <2> DEFINE s == B!Slot(i, x \div BSIZE)
  <2>1. B!Slot(i, x \div BSIZE)' = s /\ cached'[s] = cached[s] /\ stored'[s] = stored[s]
    BY <1>1 DEF InPlace
  <2>2. B!ByteAt(i, x) = cached[s][x % BSIZE]
    BY DEF B!ByteAt
  <2>3. B!ByteAt(i, x)' = cached'[s][x % BSIZE]
    BY <2>1 DEF B!ByteAt
  <2>4. <<i, x>> \notin torn => cached[s][x % BSIZE] = stored[s][x % BSIZE]
    BY <1>1 DEF TextKept
  <2> QED BY <2>1, <2>2, <2>3, <2>4 DEF ByteOf
<1>2. UNCHANGED T!byteVars
  BY <1>1, StillStutters
<1>3. \A i \in Files : (Truncating(i)' <=> Truncating(i)) /\ B!Reached(i)' = B!Reached(i)
  BY StillSame
<1>4. TextKept'
  BY <1>1, <1>3 DEF TextKept
<1> QED BY <1>2, <1>4

(* A new block is in no text.                                              *)
LEMMA BmapBytes ==
  ASSUME FilesInv, FilesInv', BytesInv, NEW p \in FsProcs, B!Bmap(p)
  PROVE  BytesInv' /\ UNCHANGED T!byteVars
<1>1. CASE marked = B!DataBlocks
  <2>1. UNCHANGED <<fip, foff, addrs, size, marked, cached, stored, op, torn>>
    BY <1>1 DEF B!Bmap
  <2>2. Still
    BY <2>1 DEF Still, SameCall
  <2>3. InPlace
    BY <2>1 DEF InPlace, B!Slot
  <2>4. TextKept' /\ UNCHANGED T!byteVars
    BY <2>1, <2>2, <2>3, InPlaceSame DEF BytesInv
  <2>5. Idling'
    BY <2>1 DEF BytesInv, Idling
  <2> QED BY <2>4, <2>5 DEF BytesInv
<1>2. CASE marked # B!DataBlocks
  <2>1. B!Missing(p) /\ B!Alloc(p, B!Zeroes) /\ op[p].at = "turn"
    BY <1>2 DEF B!Bmap, B!Missing
  <2>2. PICK h \in Files : h = op[p].ip
    BY <2>1, TurnIs DEF FilesInv
  <2>3. /\ UNCHANGED <<fip, foff, size, torn, halted>>
        /\ \A c \in B!DataBlocks : c # NextBlock /\ c # Ind(h) => cached'[c] = cached[c] /\ stored'[c] = stored[c]
        /\ \E L \in SUBSET LogEntries : op' = [op EXCEPT ![p].logged = @ \cup L]
    BY <1>2, <2>1, <2>2, AllocIs
  <2>4. (\A q \in FsProcs : q # p => op'[q] = op[q]) /\ \A q \in FsProcs : SameCall(op'[q], op[q])
    <3>1. op \in [FsProcs -> FileCalls] /\ op[p] \in FileCalls
      BY DEF FilesInv, FileTypes
    <3>2. PICK L \in SUBSET LogEntries : op' = [op EXCEPT ![p].logged = @ \cup L]
      BY <2>3
    <3>3. op'[p] = [op[p] EXCEPT !.logged = @ \cup L] /\ \A q \in FsProcs : q # p => op'[q] = op[q]
      BY <3>1, <3>2
    <3>4. SameCall(op'[p], op[p])
      BY <3>1, <3>3 DEF SameCall, FileCalls
    <3>5. \A q \in FsProcs : q # p => SameCall(op'[q], op[q])
      BY <3>3 DEF SameCall
    <3> QED BY <3>3, <3>4, <3>5
  <2>5. Still
    BY <2>3, <2>4 DEF Still
  <2>6. /\ Entered(p) \in Numbers /\ B!ToFree(h, Entered(p)) = 0
        /\ \A j \in Files, k \in Numbers : k < B!MAXFILE =>
             B!Slot(j, k)' = IF j = h /\ k = Entered(p) THEN NextBlock ELSE B!Slot(j, k)
    BY <1>2, <2>1, <2>2, AllocNumbers
  <2>7. NextBlock \notin marked
    BY <1>2, NextBlockIs DEF FilesInv, FileTypes
  <2>8. InPlace
    <3> SUFFICES ASSUME NEW i \in Files, NEW x \in Nat, ~Truncating(i), x < B!Reached(i)
                 PROVE  LET s == B!Slot(i, x \div BSIZE) IN
                        B!Slot(i, x \div BSIZE)' = s /\ cached'[s] = cached[s] /\ stored'[s] = stored[s]
      BY DEF InPlace
    <3> DEFINE k == x \div BSIZE
               s == B!Slot(i, k)
    <3>1. k \in Numbers /\ k < B!MAXFILE /\ s # 0 /\ s \in B!DataBlocks /\ s # Ind(h) /\ s \in marked
      BY ByteBacked
    <3>2. B!ToFree(i, k) = s
      BY <3>1, NumbersType DEF FilesInv
    <3>3. ~(i = h /\ k = Entered(p))
      BY <2>6, <3>1, <3>2
    <3>4. B!Slot(i, k)' = s
      BY <2>6, <3>1, <3>3
    <3> HIDE DEF k, s
    <3>5. cached'[s] = cached[s] /\ stored'[s] = stored[s]
      BY <2>3, <2>7, <3>1
    <3> QED BY <3>4, <3>5 DEF k, s
  <2>9. TextKept' /\ UNCHANGED T!byteVars
    BY <2>3, <2>5, <2>8, InPlaceSame DEF BytesInv
  <2>10. Idling'
    BY <2>1, <2>4, <2>5, StillIdling DEF BytesInv
  <2> QED BY <2>9, <2>10 DEF BytesInv
<1> QED BY <1>1, <1>2

(* Nor is one that itrunc gives back.                                      *)
LEMMA FreeBytes ==
  ASSUME FilesInv, FilesInv', BytesInv, NEW p \in FsProcs, B!Free(p)
  PROVE  BytesInv' /\ UNCHANGED T!byteVars
<1>1. op[p].at = "trunc" /\ op[p].ip \in Files
  BY DEF B!Free, FilesInv, Calling
<1>2. PICK h \in Files : h = op[p].ip
  BY <1>1
<1>3. PICK k0 \in Numbers :
        /\ Good(h, k0) /\ B!ToFree(h, k0) # 0
        /\ \A j \in Files : j # h => addrs'[j] = addrs[j]
        /\ cached' = [cached EXCEPT ![B!ToFree(h, k0)] = B!Stale]
        /\ stored' = [stored EXCEPT ![B!ToFree(h, k0)] = B!Stale]
        /\ op' = [op EXCEPT ![p].k = k0 + 1]
        /\ UNCHANGED <<fip, foff, size, torn, halted>>
  BY <1>2, FreeIs
<1>4. (\A q \in FsProcs : q # p => op'[q] = op[q]) /\ \A q \in FsProcs : SameCall(op'[q], op[q])
  <2>1. op \in [FsProcs -> FileCalls] /\ op[p] \in FileCalls
    BY DEF FilesInv, FileTypes
  <2>2. op'[p] = [op[p] EXCEPT !.k = k0 + 1] /\ \A q \in FsProcs : q # p => op'[q] = op[q]
    BY <1>3, <2>1
  <2>3. SameCall(op'[p], op[p])
    BY <2>1, <2>2 DEF SameCall, FileCalls
  <2>4. \A q \in FsProcs : q # p => SameCall(op'[q], op[q])
    BY <2>2 DEF SameCall
  <2> QED BY <2>2, <2>3, <2>4
<1>5. Still
  BY <1>3, <1>4 DEF Still
<1>6. Truncating(h)
  BY <1>1, <1>2 DEF Truncating
<1>7. InPlace
  <2> SUFFICES ASSUME NEW i \in Files, NEW x \in Nat, ~Truncating(i), x < B!Reached(i)
               PROVE  LET s == B!Slot(i, x \div BSIZE) IN
                      B!Slot(i, x \div BSIZE)' = s /\ cached'[s] = cached[s] /\ stored'[s] = stored[s]
    BY DEF InPlace
  <2> DEFINE k == x \div BSIZE
             s == B!Slot(i, k)
             b == B!ToFree(h, k0)
  <2>1. k \in Numbers /\ k < B!MAXFILE /\ s # 0 /\ s \in B!DataBlocks /\ Good(i, k)
    BY ByteBacked
  <2>2. B!ToFree(i, k) = s
    BY <2>1, NumbersType DEF FilesInv
  <2>3. i # h
    BY <1>6
  <2>4. s # b
    BY <1>3, <2>1, <2>2, <2>3 DEF FilesInv, Owned
  <2>5. Ind(i) # 0 => Ind(i) # b
    <3>1. B!MAXFILE \in Numbers
      BY FileNumbers DEF Numbers
    <3>2. B!ToFree(i, B!MAXFILE) = Ind(i)
      BY <3>1, NumbersType DEF FilesInv
    <3>3. Ind(i) # 0 => Good(i, B!MAXFILE)
      BY IndirectGood DEF FilesInv
    <3> QED BY <1>3, <2>3, <3>1, <3>2, <3>3 DEF FilesInv, Owned
  <2> HIDE DEF b
  <2>6. \A c \in B!DataBlocks : c # b => cached'[c] = cached[c] /\ stored'[c] = stored[c]
    <3>1. /\ cached \in [B!DataBlocks -> [0..(BSIZE - 1) -> Nat]]
          /\ stored \in [B!DataBlocks -> [0..(BSIZE - 1) -> Nat]]
      BY DEF FilesInv, FileTypes
    <3> QED BY <1>3, <3>1 DEF b
  <2>7. addrs'[i] = addrs[i]
    BY <1>3, <2>3
  <2>8. Ind(i) # 0 => cached'[Ind(i)] = cached[Ind(i)]
    BY <2>5, <2>6, IndirectOwned
  <2>9. B!Slot(i, k)' = s
    BY <2>7, <2>8 DEF B!Slot, Ind, B!Nil
  <2> HIDE DEF k, s
  <2>10. cached'[s] = cached[s] /\ stored'[s] = stored[s]
    BY <2>1, <2>4, <2>6 DEF s
  <2> QED BY <2>9, <2>10 DEF k, s
<1>8. TextKept' /\ UNCHANGED T!byteVars
  BY <1>3, <1>5, <1>7, InPlaceSame DEF BytesInv
<1>9. Idling'
  BY <1>1, <1>4, <1>5, StillIdling DEF BytesInv
<1> QED BY <1>8, <1>9 DEF BytesInv

(* Positions that are in one block.                                        *)
LEMMA OneBlock ==
  ASSUME NEW n \in Nat, n > 0, NEW x \in Nat, NEW y \in Nat
  PROVE  /\ x <= y /\ y - x < n - (x % n) => y \div n = x \div n
         /\ y \div n = x \div n => y % n = (x % n) + (y - x)
<1> DEFINE q == x \div n
           r == x % n
           s == y \div n
           u == y % n
<1>1. q \in Nat /\ r \in 0..(n - 1) /\ x = q * n + r
  BY Division
<1>2. s \in Nat /\ u \in 0..(n - 1) /\ y = s * n + u
  BY Division
<1>3. x < y /\ y - x < n - r => s = q
  <2> SUFFICES ASSUME x < y, y - x < n - r
               PROVE  s = q
    OBVIOUS
  <2> DEFINE m == y - x
  <2>1. m \in Nat /\ m > 0 /\ m < n - (x % n) /\ x + m = y
    OBVIOUS
  <2> HIDE DEF m
  <2>2. m <= n - (x % n)
    BY <1>1, <2>1
  <2>3. (x + m) \div n = x \div n
    BY <2>1, <2>2, WithinBlock
  <2> QED BY <2>1, <2>3
<1>4. x = y => s = q
  OBVIOUS
<1> HIDE DEF q, r, s, u
<1>5. s = q => u = r + (y - x)
  <2>1. q * n \in Int
    BY <1>1, MultiplesOrdered
  <2>2. s = q => s * n = q * n
    OBVIOUS
  <2> QED BY <1>1, <1>2, <2>1, <2>2
<1> QED BY <1>3, <1>4, <1>5 DEF q, r, s, u

(* The bytes writei has copied into a block, and the others.               *)
Copied(p, m, i, x) == i = op[p].ip /\ x \in B!At(p)..(B!At(p) + m - 1)

(* A byte the copy reaches is what the buffer says.                        *)
LEMMA CopiedByte ==
  ASSUME FilesInv, NEW p \in FsProcs, op[p].at = "turn", B!Slot(op[p].ip, B!Bn(p)) # 0, Steady,
         NEW m \in Nat, m <= B!M(p), cached' = [cached EXCEPT ![ItsSlot(p)] = B!Filled(p, m)],
         NEW i \in Files, NEW x \in Nat, Copied(p, m, i, x)
  PROVE  /\ B!Slot(i, x \div BSIZE)' = ItsSlot(p) /\ B!Slot(i, x \div BSIZE) = ItsSlot(p)
         /\ B!ByteAt(i, x)' = Source[op[p].i + op[p].tot + (x - B!At(p)) + 1]
<1>1. /\ B!At(p) \in Nat /\ B!M(p) \in Nat /\ B!M(p) <= BSIZE - (B!At(p) % BSIZE)
      /\ B!Bn(p) = B!At(p) \div BSIZE /\ B!Bn(p) \in Numbers /\ op[p].ip \in Files
      /\ op[p].i \in Nat /\ op[p].tot \in Nat
  BY TurnIs DEF FilesInv
<1>2. BSIZE \in Nat /\ BSIZE > 0
  BY FileNumbers
<1> DEFINE a == B!At(p)
           r == a % BSIZE
           d == op[p].i + op[p].tot
<1>3. r \in 0..(BSIZE - 1)
  BY <1>1, <1>2, Division
<1>4. a <= x /\ x - a < m /\ i = op[p].ip /\ a \in Nat
  BY <1>1 DEF Copied
<1>5. x - a < BSIZE - r
  <2> HIDE DEF a
  <2>1. BSIZE - r \in Int /\ m <= BSIZE - r
    <3>1. B!M(p) <= BSIZE - r
      BY <1>1 DEF a
    <3> QED BY <1>1, <1>2, <1>3, <3>1
  <2> QED BY <1>4, <2>1
<1>6. x \div BSIZE = B!Bn(p) /\ x % BSIZE = r + (x - a)
  BY <1>1, <1>2, <1>4, <1>5, OneBlock
<1>7. ItsSlot(p) \in B!DataBlocks /\ B!Slot(i, x \div BSIZE) = ItsSlot(p)
  <2>1. ItsSlot(p) \in B!DataBlocks /\ ItsSlot(p) = B!Slot(op[p].ip, B!Bn(p))
    BY CopyIs
  <2> QED BY <1>4, <1>6, <2>1
<1>8. \A k \in Numbers : B!Slot(i, k)' = B!Slot(i, k)
  BY SameNumbers DEF Steady
<1>9. B!Slot(i, x \div BSIZE)' = ItsSlot(p)
  BY <1>1, <1>6, <1>7, <1>8
<1>10. cached'[ItsSlot(p)] = B!Filled(p, m)
  <2>1. cached \in [B!DataBlocks -> [0..(BSIZE - 1) -> Nat]]
    BY DEF FilesInv, FileTypes
  <2> QED BY <1>7, <2>1
<1>11. B!ByteAt(i, x)' = B!Filled(p, m)[x % BSIZE]
  BY <1>9, <1>10 DEF B!ByteAt
<1>12. B!Filled(p, m)[x % BSIZE] = Source[d + (x - a) + 1]
  <2> DEFINE y == x % BSIZE
             z == B!Slot(op[p].ip, B!Bn(p))
  <2>1. B!Filled(p, m) = [c \in 0..(BSIZE - 1) |-> IF c \in r..(r + m - 1) THEN Source[d + (c - r) + 1]
                                                   ELSE cached[z][c]]
    BY DEF B!Filled, Source
  <2>2. y \in 0..(BSIZE - 1) /\ y = r + (x - a)
    BY <1>2, <1>6, Division
  <2> HIDE DEF a, r, d, y, z
  <2>3. y \in r..(r + m - 1) /\ d + (y - r) + 1 = d + (x - a) + 1
    <3>1. d \in Nat
      BY <1>1 DEF d
    <3> QED BY <1>2, <1>3, <1>4, <2>2, <3>1
  <2>4. B!Filled(p, m)[y] = Source[d + (y - r) + 1]
    BY <2>1, <2>2, <2>3
  <2> QED BY <2>3, <2>4 DEF y
<1> QED BY <1>7, <1>9, <1>11, <1>12

(* Any other byte of a text is what it was.                                *)
LEMMA KeptByte ==
  ASSUME FilesInv, NEW p \in FsProcs, op[p].at = "turn", B!Slot(op[p].ip, B!Bn(p)) # 0, Steady,
         NEW m \in Nat, m <= B!M(p), cached' = [cached EXCEPT ![ItsSlot(p)] = B!Filled(p, m)],
         NEW i \in Files, ~Truncating(i), NEW x \in Nat, x < B!Reached(i), ~Copied(p, m, i, x)
  PROVE  /\ B!Slot(i, x \div BSIZE)' = B!Slot(i, x \div BSIZE) /\ B!Slot(i, x \div BSIZE) \in B!DataBlocks
         /\ B!ByteAt(i, x)' = B!ByteAt(i, x)
<1>1. /\ B!At(p) \in Nat /\ B!Bn(p) = B!At(p) \div BSIZE /\ B!Bn(p) \in Numbers /\ B!Bn(p) < B!MAXFILE
      /\ op[p].ip \in Files
  BY TurnIs DEF FilesInv
<1>2. BSIZE \in Nat /\ BSIZE > 0
  BY FileNumbers
<1> DEFINE k == x \div BSIZE
           c == x % BSIZE
           s == B!Slot(i, k)
<1>3. k \in Numbers /\ k < B!MAXFILE /\ s # 0 /\ s \in B!DataBlocks /\ Good(i, k) /\ c \in 0..(BSIZE - 1)
  BY ByteBacked
<1>4. B!Slot(i, k)' = s
  BY <1>3, SameNumbers DEF Steady
<1>5. B!ByteAt(i, x) = cached[s][c] /\ B!ByteAt(i, x)' = cached'[s][c]
  BY <1>4 DEF B!ByteAt
<1>6. cached \in [B!DataBlocks -> [0..(BSIZE - 1) -> Nat]]
  BY DEF FilesInv, FileTypes
<1>7. CASE s # ItsSlot(p)
  BY <1>3, <1>4, <1>5, <1>6, <1>7
<1>8. CASE s = ItsSlot(p)
  <2>1. ItsSlot(p) = B!Slot(op[p].ip, B!Bn(p))
    BY CopyIs
  <2>2. Good(op[p].ip, B!Bn(p))
    BY <1>1, AllGood DEF FilesInv
  <2>3. i = op[p].ip /\ k = B!Bn(p)
    BY <1>1, <1>3, <1>8, <2>1, <2>2, SameBlock
  <2> DEFINE a == B!At(p)
             r == a % BSIZE
             z == B!Slot(op[p].ip, B!Bn(p))
  <2>4. c = r + (x - a)
    <3>1. x \div BSIZE = B!At(p) \div BSIZE
      BY <1>1, <2>3
    <3> QED BY <1>1, <1>2, <3>1, OneBlock
  <2>5. r \in 0..(BSIZE - 1)
    BY <1>1, <1>2, Division
  <2>6. ~(x \in a..(a + m - 1))
    BY <2>3 DEF Copied
  <2>7. B!Filled(p, m) = [e \in 0..(BSIZE - 1) |->
                            IF e \in r..(r + m - 1) THEN Source[op[p].i + op[p].tot + (e - r) + 1] ELSE cached[z][e]]
    BY DEF B!Filled, Source
  <2>8. a \in Nat /\ z = s
    BY <1>1, <1>8, <2>1
  <2> HIDE DEF a, r, z, c, s, k
  <2>9. ~(c \in r..(r + m - 1))
    BY <1>2, <1>3, <2>4, <2>5, <2>6, <2>8
  <2>10. B!Filled(p, m)[c] = cached[s][c]
    BY <1>3, <2>7, <2>8, <2>9
  <2>11. cached'[s] = B!Filled(p, m)
    BY <1>3, <1>6, <1>8
  <2> QED BY <1>3, <1>4, <1>5, <2>10, <2>11 DEF k, c, s
<1> QED BY <1>7, <1>8

(* What a step in a piece does to the file i: its text ends at e at least, *)
(* and the other files stay as they are.                                   *)
EndsAt(i, e) == ~Truncating(i)' /\ B!Reached(i)' = Larger(size[i], e)
OthersKept(i) ==
  \A j \in Files : j # i => /\ Truncating(j)' <=> Truncating(j)
                            /\ B!Reached(j)' = B!Reached(j) /\ B!Reached(j) \in Nat
                            /\ Holding'[j] = Holding[j]

(* A process in the middle of a piece has its inode.                       *)
LEMMA InPiece ==
  ASSUME FilesInv, NEW p \in FsProcs, op[p].at = "turn", NEW i \in Files, i = op[p].ip, NEW f \in Opens, f = op[p].f
  PROVE  /\ Holding[i] = p /\ Offsets[f] = B!At(p) /\ fip[f] = i /\ ~Truncating(i)
         /\ \A q \in FsProcs : B!InInode(q) /\ op[q].ip = i => q = p
         /\ \A q \in FsProcs : op[q].at = "turn" /\ op[q].f = f => q = p
         /\ \A g \in Opens, j \in Files : fip[g] = j /\ j # i => g # f
         /\ B!Reached(i) = Larger(size[i], B!At(p)) /\ size[i] \in Nat
<1>1. B!InInode(p) /\ Writes(p, i)
  BY DEF B!InInode, Writes
<1>2. \A q \in FsProcs : B!InInode(q) /\ op[q].ip = i => q = p
  BY <1>1 DEF FilesInv, Alone
<1>3. fip[f] = i
  BY DEF FilesInv, Calling
<1>4. ASSUME NEW q \in FsProcs, op[q].at = "turn", op[q].f = f
      PROVE  q = p
  <2>1. op[q].ip = i
    BY <1>3, <1>4 DEF FilesInv, Calling
  <2> QED BY <1>2, <1>4, <2>1 DEF B!InInode
<1>5. Holding[i] = p
  BY <1>1, HoldersAre DEF FilesInv
<1>6. Offsets[f] = B!At(p)
  BY OffsetsAre
<1>7. ~Truncating(i)
  BY <1>2 DEF Truncating, B!InInode
<1>8. B!Reached(i) = Larger(size[i], B!At(p)) /\ size[i] \in Nat
  BY <1>1, ReachedIs
<1> QED BY <1>2, <1>3, <1>4, <1>5, <1>6, <1>7, <1>8

(* The end of a piece, in the variables of the files.                      *)
LEMMA WrittenIs ==
  ASSUME FilesInv, NEW p \in FsProcs, op[p].at = "turn", NEW r \in Nat, B!Written(p, r),
         NEW i \in Files, i = op[p].ip, NEW f \in Opens, f = op[p].f
  PROVE  /\ foff'[f] = foff[f] + r /\ foff[f] \in Nat /\ \A g \in Opens : g # f => foff'[g] = foff[g]
         /\ size'[i] = Larger(size[i], foff[f] + r) /\ \A j \in Files : j # i => size'[j] = size[j]
         /\ \A q \in FsProcs : q # p => op'[q] = op[q]
         /\ r = B!Piece(op[p]) /\ op[p].i + r < op[p].n =>
              /\ op'[p].at = "piece" /\ op'[p].f = f /\ op'[p].ip = i /\ op'[p].n = op[p].n
              /\ op'[p].i = op[p].i + r /\ op'[p].tot = 0
         /\ ~(r = B!Piece(op[p]) /\ op[p].i + r < op[p].n) => op'[p] = B!Idle
<1>0. op[p] \in FileCalls
  BY TurnIs DEF FilesInv
<1>1. foff \in [Opens -> Nat] /\ op \in [FsProcs -> FileCalls] /\ DOMAIN size = Files
  <2>1. size \in [Files -> 0..(B!MAXFILE * BSIZE)]
    BY DEF FilesInv, FileTypes
  <2>2. DOMAIN size = Files
    BY <2>1
  <2> QED BY <2>2 DEF FilesInv, FileTypes
<1> DEFINE t == [op[p] EXCEPT !.at = "piece", !.i = @ + r, !.tot = 0, !.logged = {}]
           e == foff[f] + r
<1>2. /\ size' = [size EXCEPT ![i] = IF e > @ THEN e ELSE @] /\ foff' = [foff EXCEPT ![f] = @ + r]
      /\ op' = [op EXCEPT ![p] = IF r = B!Piece(op[p]) /\ op[p].i + r < op[p].n THEN t ELSE B!Idle]
  BY DEF B!Written
<1>3. t.at = "piece" /\ t.f = op[p].f /\ t.ip = op[p].ip /\ t.n = op[p].n /\ t.i = op[p].i + r /\ t.tot = 0
  BY <1>0 DEF FileCalls
<1>4. foff'[f] = foff[f] + r /\ foff[f] \in Nat /\ \A g \in Opens : g # f => foff'[g] = foff[g]
  BY <1>1, <1>2
<1>5. size'[i] = Larger(size[i], e) /\ \A j \in Files : j # i => size'[j] = size[j]
  <2>1. size[i] \in Nat
    BY InPiece
  <2>2. e \in Nat
    BY <1>4
  <2> HIDE DEF e
  <2>3. size'[i] = IF e > size[i] THEN e ELSE size[i]
    BY <1>1, <1>2
  <2>4. \A j \in Files : j # i => size'[j] = size[j]
    BY <1>1, <1>2
  <2> QED BY <2>1, <2>2, <2>3, <2>4 DEF Larger
<1> HIDE DEF t
<1>6. op'[p] = IF r = B!Piece(op[p]) /\ op[p].i + r < op[p].n THEN t ELSE B!Idle
  BY <1>1, <1>2
<1>7. \A q \in FsProcs : q # p => op'[q] = op[q]
  BY <1>1, <1>2
<1> QED BY <1>3, <1>4, <1>5, <1>6, <1>7

(* ... and as ByteFile sees it.                                            *)
LEMMA WrittenBytes ==
  ASSUME FilesInv, FilesInv', Idling, NEW p \in FsProcs, op[p].at = "turn", NEW r \in Nat, B!Written(p, r),
         fip' = fip, NEW i \in Files, i = op[p].ip, NEW f \in Opens, f = op[p].f
  PROVE  /\ Idling' /\ EndsAt(i, foff[f] + r) /\ OthersKept(i)
         /\ Holding' = [Holding EXCEPT ![i] = Nobody]
         /\ Offsets' = [Offsets EXCEPT ![f] = foff[f] + r]
<1>1. /\ foff'[f] = foff[f] + r /\ foff[f] \in Nat /\ \A g \in Opens : g # f => foff'[g] = foff[g]
      /\ size'[i] = Larger(size[i], foff[f] + r) /\ \A j \in Files : j # i => size'[j] = size[j]
      /\ \A q \in FsProcs : q # p => op'[q] = op[q]
  BY WrittenIs
<1>2. op'[p] = B!Idle \/ op'[p].at = "piece"
  BY WrittenIs
<1>3. op'[p].at \in {"user", "piece"}
  BY <1>2, IdleIs
<1>4. /\ \A q \in FsProcs : B!InInode(q) /\ op[q].ip = i => q = p
      /\ \A q \in FsProcs : op[q].at = "turn" /\ op[q].f = f => q = p
      /\ \A g \in Opens, j \in Files : fip[g] = j /\ j # i => g # f
  BY InPiece
<1>5. \A q \in FsProcs : ~(B!InInode(q)' /\ op'[q].ip = i)
  BY <1>1, <1>3, <1>4 DEF B!InInode
<1>6. EndsAt(i, foff[f] + r)
  <2>1. ~Truncating(i)' /\ \A q \in FsProcs : ~Writes(q, i)'
    BY <1>5 DEF Truncating, Writes, B!InInode
  <2>2. B!Reached(i)' = size'[i]
    BY <2>1, ReachedIsNext
  <2> QED BY <1>1, <2>1, <2>2 DEF EndsAt
<1>7. OthersKept(i)
  <2> SUFFICES ASSUME NEW j \in Files, j # i
               PROVE  /\ Truncating(j)' <=> Truncating(j)
                      /\ B!Reached(j)' = B!Reached(j) /\ B!Reached(j) \in Nat
                      /\ Holding'[j] = Holding[j]
    BY DEF OthersKept
  <2>1. Elsewhere(p, j)
    BY <1>3 DEF Elsewhere, B!InInode
  <2>2. \A g \in Opens : fip[g] = j => foff'[g] = foff[g]
    BY <1>1, <1>4
  <2> QED BY <1>1, <2>1, <2>2, OthersSame
<1>8. Holding' = [Holding EXCEPT ![i] = Nobody]
  <2>1. Holding'[i] = Nobody
    BY <1>5, HoldersAreNext DEF B!Locked, B!InInode, FilesInv
  <2>2. \A j \in Files : j # i => Holding'[j] = Holding[j]
    BY <1>7 DEF OthersKept
  <2> QED BY <2>1, <2>2, AsFunctions
<1>9. Offsets' = [Offsets EXCEPT ![f] = foff[f] + r]
  <2>1. \A q \in FsProcs : ~(op'[q].at = "turn" /\ op'[q].f = f)
    BY <1>1, <1>3, <1>4
  <2>2. Offsets'[f] = foff[f] + r
    BY <1>1, <2>1, OffsetsAreNext
  <2>3. ASSUME NEW g \in Opens, g # f
        PROVE  Offsets'[g] = Offsets[g]
    BY <1>1, <1>3, <2>3, OffsetSame
  <2> DEFINE e == foff[f] + r
  <2>4. Offsets'[f] = e
    BY <2>2
  <2> HIDE DEF e
  <2>5. Offsets' = [Offsets EXCEPT ![f] = e]
    BY <2>3, <2>4, AsFunctions
  <2> QED BY <2>5 DEF e
<1>10. Idling'
  <2>1. \A q \in FsProcs : op'[q].at = "user" => op'[q] = B!Idle
    BY <1>1, <1>2 DEF Idling
  <2>2. \A q \in FsProcs : op'[q].at = "trunc" =>
          op'[q].f = 0 /\ op'[q].n = 0 /\ op'[q].i = 0 /\ op'[q].tot = 0
    BY <1>1, <1>3 DEF Idling
  <2> QED BY <2>1, <2>2 DEF Idling, B!Idle, B!Nil
<1> QED BY <1>6, <1>7, <1>8, <1>9, <1>10

(* A piece that goes on in the next block.                                 *)
LEMMA GoesOnBytes ==
  ASSUME FilesInv, FilesInv', Idling, NEW p \in FsProcs, op[p].at = "turn",
         UNCHANGED <<fip, foff, size>>, \A q \in FsProcs : q # p => op'[q] = op[q],
         NEW i \in Files, i = op[p].ip, NEW f \in Opens, f = op[p].f, NEW m \in Nat,
         op'[p].at = "turn", op'[p].ip = i, op'[p].f = f, op'[p].tot = op[p].tot + m
  PROVE  /\ Idling' /\ EndsAt(i, B!At(p) + m) /\ OthersKept(i)
         /\ Holding' = Holding
         /\ Offsets' = [Offsets EXCEPT ![f] = B!At(p) + m]
<1>1. /\ \A q \in FsProcs : B!InInode(q) /\ op[q].ip = i => q = p
      /\ \A q \in FsProcs : op[q].at = "turn" /\ op[q].f = f => q = p
      /\ Holding[i] = p
  BY InPiece
<1>2. B!At(p)' = B!At(p) + m
  <2>1. B!At(p)' = foff'[op'[p].f] + op'[p].tot
    BY DEF B!At
  <2>2. B!At(p)' = foff[f] + (op[p].tot + m)
    BY <2>1
  <2>3. B!At(p) = foff[f] + op[p].tot /\ foff[f] \in Nat /\ op[p].tot \in Nat
    BY TurnIs DEF FilesInv
  <2> HIDE DEF B!At
  <2> QED BY <2>2, <2>3
<1>3. Writes(p, i)' /\ B!InInode(p)'
  BY DEF Writes, B!InInode
<1>4. EndsAt(i, B!At(p) + m)
  <2>1. ~Truncating(i)'
    <3> SUFFICES ASSUME NEW q \in FsProcs, op'[q].at = "trunc", op'[q].ip = i
                 PROVE  FALSE
      BY DEF Truncating
    <3>1. q # p
      OBVIOUS
    <3> QED BY <1>1, <3>1 DEF B!InInode
  <2>2. B!Reached(i)' = Larger(size'[i], B!At(p)')
    BY <1>3, ReachedIsNext
  <2> QED BY <1>2, <2>1, <2>2 DEF EndsAt
<1>5. OthersKept(i)
  <2> SUFFICES ASSUME NEW j \in Files, j # i
               PROVE  /\ Truncating(j)' <=> Truncating(j)
                      /\ B!Reached(j)' = B!Reached(j) /\ B!Reached(j) \in Nat
                      /\ Holding'[j] = Holding[j]
    BY DEF OthersKept
  <2>1. Elsewhere(p, j)
    BY DEF Elsewhere
  <2> QED BY <2>1, OthersSame
<1>6. Holding' = Holding
  <2>1. Holding'[i] = p
    BY <1>3, HoldersAreNext DEF FilesInv
  <2>2. \A j \in Files : j # i => Holding'[j] = Holding[j]
    BY <1>5 DEF OthersKept
  <2> QED BY <1>1, <2>1, <2>2, AsFunctions
<1>7. Offsets' = [Offsets EXCEPT ![f] = B!At(p) + m]
  <2> DEFINE e == B!At(p) + m
  <2>1. Offsets'[f] = e
    BY <1>2, OffsetsAreNext
  <2>2. ASSUME NEW g \in Opens, g # f
        PROVE  Offsets'[g] = Offsets[g]
    BY <2>2, OffsetSame
  <2> HIDE DEF e
  <2>3. Offsets' = [Offsets EXCEPT ![f] = e]
    BY <2>1, <2>2, AsFunctions
  <2> QED BY <2>3 DEF e
<1>8. Idling'
  <2>1. \A q \in FsProcs : op'[q].at = "user" => op'[q] = B!Idle
    BY DEF Idling
  <2>2. \A q \in FsProcs : op'[q].at = "trunc" =>
          op'[q].f = 0 /\ op'[q].n = 0 /\ op'[q].i = 0 /\ op'[q].tot = 0
    BY DEF Idling
  <2> QED BY <2>1, <2>2 DEF Idling, B!Idle, B!Nil
<1> QED BY <1>4, <1>5, <1>6, <1>7, <1>8

(* The text after a copy of m bytes into a block.                          *)
LEMMA CopiedText ==
  ASSUME FilesInv, NEW p \in FsProcs, op[p].at = "turn", B!Slot(op[p].ip, B!Bn(p)) # 0, Steady,
         cached' = [cached EXCEPT ![ItsSlot(p)] = B!Filled(p, B!M(p))],
         torn' = torn \ {<<op[p].ip, x>> : x \in B!At(p)..(B!At(p) + B!M(p) - 1)},
         NEW i \in Files, i = op[p].ip, EndsAt(i, B!At(p) + B!M(p)), OthersKept(i)
  PROVE  Texts' = [Texts EXCEPT ![i] = T!Overwritten(@, B!At(p), SubSeq(Left(op[p]), 1, B!M(p)))]
<1> DEFINE a == B!At(p)
           m == B!M(p)
           l == SubSeq(Left(op[p]), 1, m)
           new == Larger(size[i], a + m)
<1>1. /\ a \in Nat /\ m \in Nat /\ m >= 1 /\ m <= B!M(p) /\ op[p] \in FileCalls /\ op[p].n \in Sizes
      /\ op[p].i \in Nat /\ op[p].tot \in Nat /\ op[p].n \in Nat /\ m <= op[p].n - op[p].i - op[p].tot
  <2>1. /\ a \in Nat /\ m \in Nat /\ m >= 1 /\ op[p] \in FileCalls
        /\ op[p].i \in Nat /\ op[p].tot \in Nat /\ op[p].n \in Nat
        /\ op[p].tot + m <= B!Piece(op[p]) /\ op[p].i + B!Piece(op[p]) <= op[p].n /\ B!Piece(op[p]) \in Nat
    BY TurnIs DEF FilesInv
  <2>2. op[p].n \in Sizes
    BY DEF FilesInv, Calling
  <2> HIDE DEF a, m
  <2>3. m <= op[p].n - op[p].i - op[p].tot
    BY <2>1
  <2> QED BY <2>1, <2>2, <2>3 DEF m
<1>2. /\ ~Truncating(i) /\ B!Reached(i) = Larger(size[i], a) /\ size[i] \in Nat
  <2>1. PICK f \in Opens : f = op[p].f
    BY TurnIs DEF FilesInv
  <2> QED BY <2>1, InPiece
<1>k. ASSUME NEW j \in Files, NEW x \in Nat, ~Truncating(j), x < B!Reached(j), ~Copied(p, m, j, x)
      PROVE  B!ByteAt(j, x)' = B!ByteAt(j, x)
  <2>1. m \in Nat /\ m <= B!M(p)
    BY <1>1
  <2> QED BY <1>k, <2>1, KeptByte
<1>3. ~Truncating(i)' /\ B!Reached(i)' = new
  BY DEF EndsAt
<1>4. Len(l) = m /\ \A j \in 1..m : l[j] = Source[op[p].i + op[p].tot + j]
  <2>1. op[p].i + op[p].tot < op[p].n
    BY <1>1
  <2>2. /\ Left(op[p]) \in Seq({1, 2}) /\ Len(Left(op[p])) = op[p].n - op[p].i - op[p].tot
        /\ \A j \in 1..Len(Left(op[p])) : Left(op[p])[j] = Source[op[p].i + op[p].tot + j]
    BY <1>1, <2>1, SomeLeft
  <2> DEFINE s == Left(op[p])
  <2>3. m <= Len(s) /\ s \in Seq({1, 2})
    BY <1>1, <2>2
  <2> HIDE DEF m, s
  <2>4. Len(SubSeq(s, 1, m)) = m /\ \A j \in 1..m : SubSeq(s, 1, m)[j] = s[j]
    BY <1>1, <2>3
  <2>5. \A j \in 1..m : j \in 1..Len(s)
    BY <1>1, <2>2, <2>3
  <2> QED BY <2>2, <2>4, <2>5 DEF s
<1>5. Texts[i] = [j \in 1..B!Reached(i) |-> ByteOf(i, j - 1)] /\ Len(Texts[i]) = B!Reached(i)
  <2>1. Texts[i] = [j \in 1..B!Reached(i) |-> ByteOf(i, j - 1)]
    BY <1>2, TextsAre
  <2>2. Len(Texts[i]) = B!Reached(i)
    BY <1>2, TextLength
  <2> QED BY <2>1, <2>2
<1>6. Texts'[i] = [j \in 1..new |-> ByteOf(i, j - 1)']
  BY <1>3, TextsAreNext
<1>7. T!Longer(Len(Texts[i]), a + Len(l)) = new /\ new \in Nat
  <2> HIDE DEF a, m, l
  <2>1. T!Longer(Len(Texts[i]), a + Len(l)) = new
    BY <1>1, <1>2, <1>4, <1>5 DEF T!Longer, Larger
  <2>2. new \in Nat
    BY <1>1, <1>2 DEF Larger
  <2> QED BY <2>1, <2>2
<1> DEFINE over == T!Overwritten(Texts[i], a, l)
<1>8. over = [j \in 1..new |-> IF j \in (a + 1)..(a + m) THEN l[j - a] ELSE Texts[i][j]]
  <2>1. a + Len(l) = a + m
    BY <1>4
  <2> HIDE DEF a, m, l, new
  <2> QED BY <1>7, <2>1 DEF T!Overwritten
<1>9. ASSUME NEW j \in 1..new
      PROVE  ByteOf(i, j - 1)' = IF j \in (a + 1)..(a + m) THEN l[j - a] ELSE Texts[i][j]
  <2>1. PICK x \in Nat : x = j - 1 /\ j \in Nat /\ j <= new /\ j = x + 1
    <3> HIDE DEF new
    <3>1. j \in Nat /\ j >= 1 /\ j <= new /\ j - 1 \in Nat
      BY <1>7
    <3> QED BY <3>1
  <2>2. CASE j \in (a + 1)..(a + m)
    <3>1. x \in a..(a + m - 1) /\ x - a \in Nat /\ j - a = (x - a) + 1 /\ j - a \in 1..m
      <4> HIDE DEF a, m, new
      <4> QED BY <1>1, <2>1, <2>2
    <3>2. Copied(p, m, i, x)
      BY <3>1 DEF Copied
    <3>3. B!ByteAt(i, x)' = Source[op[p].i + op[p].tot + (x - a) + 1]
      BY <1>1, <3>2, CopiedByte
    <3>4. <<i, x>> \notin torn'
      BY <3>1
    <3>5. l[j - a] = Source[op[p].i + op[p].tot + (j - a)]
      BY <1>4, <3>1
    <3>6. op[p].i + op[p].tot + (x - a) + 1 = op[p].i + op[p].tot + (j - a)
      <4> HIDE DEF a, m, new
      <4> QED BY <1>1, <3>1
    <3>7. ByteOf(i, x)' = l[j - a]
      BY <3>3, <3>4, <3>5, <3>6 DEF ByteOf
    <3> QED BY <2>1, <2>2, <3>7
  <2>3. CASE ~(j \in (a + 1)..(a + m))
    <3>1. x < B!Reached(i) /\ j \in 1..B!Reached(i) /\ ~(x \in a..(a + m - 1))
      <4> HIDE DEF a, m
      <4> QED BY <1>1, <1>2, <2>1, <2>3 DEF Larger
    <3>2. ~Copied(p, m, i, x)
      BY <3>1 DEF Copied
    <3>3. B!ByteAt(i, x)' = B!ByteAt(i, x)
      BY <1>2, <1>k, <3>1, <3>2
    <3>4. <<i, x>> \in torn' <=> <<i, x>> \in torn
      BY <3>1
    <3>5. ByteOf(i, x)' = ByteOf(i, x)
      BY <3>3, <3>4 DEF ByteOf
    <3>6. Texts[i][j] = ByteOf(i, x)
      BY <1>5, <2>1, <3>1
    <3> QED BY <2>1, <2>3, <3>5, <3>6
  <2> QED BY <2>2, <2>3
<1>10. Texts'[i] = over
  <2> HIDE DEF a, m, l, new, over
  <2> QED BY <1>6, <1>8, <1>9
<1>11. ASSUME NEW j \in Files, j # i
       PROVE  Texts'[j] = Texts[j]
  <2>1. /\ Truncating(j)' <=> Truncating(j)
        /\ B!Reached(j)' = B!Reached(j) /\ B!Reached(j) \in Nat
    BY <1>11 DEF OthersKept
  <2>2. ASSUME NEW x \in Nat, ~Truncating(j), x < B!Reached(j)
        PROVE  ByteOf(j, x)' = ByteOf(j, x)
    <3>1. ~Copied(p, m, j, x)
      BY <1>11 DEF Copied
    <3>2. B!ByteAt(j, x)' = B!ByteAt(j, x)
      BY <1>k, <2>2, <3>1
    <3>3. <<j, x>> \in torn' <=> <<j, x>> \in torn
      BY <1>11
    <3> QED BY <3>2, <3>3 DEF ByteOf
  <2> QED BY <2>1, <2>2, SameText
<1>12. Texts' = [Texts EXCEPT ![i] = over]
  <2> HIDE DEF over
  <2> QED BY <1>10, <1>11, AsFunctions
<1> QED BY <1>12

(* It is in the log as well.                                               *)
LEMMA CopiedKept ==
  ASSUME FilesInv, TextKept, NEW p \in FsProcs, op[p].at = "turn", B!Slot(op[p].ip, B!Bn(p)) # 0, Steady,
         cached' = [cached EXCEPT ![ItsSlot(p)] = B!Filled(p, B!M(p))],
         stored' = [stored EXCEPT ![ItsSlot(p)] = B!Filled(p, B!M(p))],
         torn' = torn \ {<<op[p].ip, x>> : x \in B!At(p)..(B!At(p) + B!M(p) - 1)},
         NEW i \in Files, i = op[p].ip, EndsAt(i, B!At(p) + B!M(p)), OthersKept(i)
  PROVE  TextKept'
<1> SUFFICES ASSUME NEW j \in Files, NEW x \in Nat, ~Truncating(j)', x < B!Reached(j)', <<j, x>> \notin torn'
             PROVE  (cached[B!Slot(j, x \div BSIZE)][x % BSIZE] = stored[B!Slot(j, x \div BSIZE)][x % BSIZE])'
  BY DEF TextKept
<1> DEFINE a == B!At(p)
           m == B!M(p)
           s == B!Slot(j, x \div BSIZE)
<1>1. a \in Nat /\ m \in Nat /\ m <= B!M(p) /\ ItsSlot(p) \in B!DataBlocks
  BY TurnIs, CopyIs DEF FilesInv
<1>2. /\ cached \in [B!DataBlocks -> [0..(BSIZE - 1) -> Nat]]
      /\ stored \in [B!DataBlocks -> [0..(BSIZE - 1) -> Nat]]
  BY DEF FilesInv, FileTypes
<1>3. cached'[ItsSlot(p)] = stored'[ItsSlot(p)]
  BY <1>1, <1>2
<1>4. CASE Copied(p, m, j, x)
  <2>1. B!Slot(j, x \div BSIZE)' = ItsSlot(p)
    BY <1>1, <1>4, CopiedByte
  <2> QED BY <1>3, <2>1
<1>5. CASE ~Copied(p, m, j, x)
  <2>1. ~Truncating(j) /\ x < B!Reached(j)
    <3>1. CASE j = i
      <4>1. ~Truncating(i) /\ B!Reached(i) = Larger(size[i], a) /\ size[i] \in Nat
        <5>1. PICK f \in Opens : f = op[p].f
          BY TurnIs DEF FilesInv
        <5> QED BY <5>1, InPiece
      <4>2. ~(x \in a..(a + m - 1))
        BY <1>5, <3>1 DEF Copied
      <4>3. x < Larger(size[i], a + m)
        BY <3>1 DEF EndsAt
      <4> HIDE DEF a, m
      <4>4. x < Larger(size[i], a)
        BY <1>1, <4>1, <4>2, <4>3 DEF Larger
      <4> QED BY <3>1, <4>1, <4>4
    <3>2. CASE j # i
      BY <3>2 DEF OthersKept
    <3> QED BY <3>1, <3>2
  <2>2. B!Slot(j, x \div BSIZE)' = s /\ s \in B!DataBlocks
    BY <1>1, <1>5, <2>1, KeptByte
  <2>3. <<j, x>> \notin torn
    BY <1>5 DEF Copied
  <2>4. cached[s][x % BSIZE] = stored[s][x % BSIZE]
    BY <2>1, <2>3 DEF TextKept
  <2> HIDE DEF s
  <2>5. cached'[s][x % BSIZE] = stored'[s][x % BSIZE]
    BY <1>1, <1>2, <1>3, <2>2, <2>4
  <2> QED BY <2>2, <2>5
<1> QED BY <1>4, <1>5

(* What is left of a call when m bytes are copied.                         *)
LEMMA LeftOver ==
  ASSUME NEW o \in FileCalls, o.n \in Sizes, o.i + o.tot < o.n, NEW m \in Nat, m <= o.n - o.i - o.tot,
         NEW q, q.n = o.n, q.i + q.tot = o.i + o.tot + m, q.n - q.i - q.tot = o.n - o.i - o.tot - m
  PROVE  Left(q) = SubSeq(Left(o), m + 1, Len(Left(o)))
<1> DEFINE d == o.i + o.tot
           n == o.n - o.i - o.tot
           s == Left(o)
<1>1. d \in Nat /\ n \in Nat /\ m <= n /\ o.n \in Nat /\ o.i \in Nat /\ o.tot \in Nat
  <2>1. o.i \in Nat /\ o.tot \in Nat /\ o.n \in Nat
    BY DEF FileCalls
  <2> QED BY <2>1
<1>2. s \in Seq({1, 2}) /\ Len(s) = n /\ \A j \in 1..n : s[j] = Source[d + j]
  BY SomeLeft
<1>3. Left(q) = [j \in 1..(n - m) |-> Source[d + m + j]]
  BY DEF Left
<1> HIDE DEF d, n, s
<1>4. SubSeq(s, m + 1, n) = [j \in 1..(n - m) |-> s[j + m]]
  <2>1. SubSeq(s, m + 1, n) \in Seq({1, 2}) /\ Len(SubSeq(s, m + 1, n)) = n - m
    BY <1>1, <1>2
  <2>2. \A j \in 1..(n - m) : SubSeq(s, m + 1, n)[j] = s[j + m]
    BY <1>1, <1>2
  <2>3. SubSeq(s, m + 1, n) = [j \in 1..(n - m) |-> SubSeq(s, m + 1, n)[j]]
    BY <2>1
  <2> QED BY <2>2, <2>3
<1>5. ASSUME NEW j \in 1..(n - m)
      PROVE  s[j + m] = Source[d + m + j]
  <2>1. j + m \in 1..n /\ d + (j + m) = d + m + j
    BY <1>1
  <2> QED BY <1>2, <2>1
<1>6. Left(q) = SubSeq(s, m + 1, n)
  BY <1>3, <1>4, <1>5
<1> QED BY <1>2, <1>6 DEF s

(* Bytes are put where the offset is.                                      *)
LEMMA CopyBytes ==
  ASSUME FilesInv, FilesInv', BytesInv, NEW p \in FsProcs, B!Copy(p)
  PROVE  BytesInv' /\ T!Next
<1>1. /\ op[p].at = "turn" /\ B!Slot(op[p].ip, B!Bn(p)) # 0 /\ UNCHANGED <<fip, addrs, marked, halted>>
      /\ cached' = [cached EXCEPT ![ItsSlot(p)] = B!Filled(p, B!M(p))]
      /\ stored' = [stored EXCEPT ![ItsSlot(p)] = B!Filled(p, B!M(p))]
      /\ torn' = torn \ {<<op[p].ip, x>> : x \in B!At(p)..(B!At(p) + B!M(p) - 1)}
  BY DEF B!Copy, B!LogWrite, B!Nil, ItsSlot
<1> DEFINE a == B!At(p)
           m == B!M(p)
           w == B!Piece(op[p])
<1>2. /\ a = foff[op[p].f] + op[p].tot /\ foff[op[p].f] \in Nat /\ op[p].tot \in Nat /\ a \in Nat
      /\ m \in Nat /\ m >= 1 /\ w \in Nat /\ op[p].tot + m <= w /\ op[p].i + w <= op[p].n
      /\ op[p].i \in Nat /\ op[p].n \in Nat /\ op[p] \in FileCalls
  BY <1>1, TurnIs DEF FilesInv
<1>3. PICK i \in Files : i = op[p].ip
  BY <1>1, TurnIs DEF FilesInv
<1>4. PICK f \in Opens : f = op[p].f
  BY <1>1, TurnIs DEF FilesInv
<1>5. ItsSlot(p) \in B!DataBlocks /\ \A j \in Files : ItsSlot(p) # Ind(j)
  BY <1>1, CopyIs
<1>6. Steady
  <2> DEFINE y == B!Filled(p, B!M(p))
  <2>1. /\ cached' = [cached EXCEPT ![ItsSlot(p)] = y] /\ stored' = [stored EXCEPT ![ItsSlot(p)] = y]
        /\ UNCHANGED <<addrs, marked>>
    BY <1>1
  <2> HIDE DEF y
  <2> QED BY <1>5, <2>1, ContentsSteady
<1>7. /\ Holding[i] = p /\ Offsets[f] = a /\ fip[f] = i
  BY <1>1, <1>3, <1>4, InPiece
<1> DEFINE s == Left(op[p])
<1>8. op[p].n \in Sizes /\ op[p].i + op[p].tot < op[p].n /\ m <= op[p].n - op[p].i - op[p].tot
  <2>1. op[p].n \in Sizes
    BY <1>1 DEF FilesInv, Calling
  <2> HIDE DEF m, w, a
  <2> QED BY <1>2, <2>1
<1>9. /\ Calls[p] = [f |-> f, bytes |-> s] /\ Calls[p] # T!NoCall /\ Len(s) = op[p].n - op[p].i - op[p].tot
      /\ Len(s) \in Nat /\ m \in 1..Len(s)
  <2>1. /\ [f |-> op[p].f, bytes |-> s] # T!NoCall /\ Len(s) = op[p].n - op[p].i - op[p].tot /\ Len(s) \in Nat
    BY <1>2, <1>8, SomeLeft
  <2>2. Calls[p] = [f |-> f, bytes |-> s]
    BY <1>4, CallsAre
  <2> HIDE DEF m, s
  <2>3. m \in 1..Len(s)
    BY <1>2, <1>8, <2>1
  <2> QED BY <1>4, <2>1, <2>2, <2>3
<1>10. Idling /\ TextKept
  BY DEF BytesInv
(* What happens to the call, the offset and the inode.                     *)
<1> DEFINE Ended == m = Len(s) /\ Calls' = [Calls EXCEPT ![p] = T!NoCall] /\ Holding' = [Holding EXCEPT ![i] = Nobody]
           More ==
             /\ m # Len(s)
             /\ Calls' = [Calls EXCEPT ![p].bytes = SubSeq(s, m + 1, Len(s))]
             /\ Holding' = Holding \/ Holding' = [Holding EXCEPT ![i] = Nobody]
<1>11. /\ Idling' /\ EndsAt(i, a + m) /\ OthersKept(i)
       /\ Offsets' = [Offsets EXCEPT ![f] = a + m]
       /\ Ended \/ More
  <2>1. ASSUME NEW q, q = op'[p], \A r \in FsProcs : r # p => op'[r] = op[r], q.f = f, m # Len(s),
               Left(q) = SubSeq(s, m + 1, Len(s))
        PROVE  Calls' = [Calls EXCEPT ![p].bytes = SubSeq(s, m + 1, Len(s))]
    <3>1. Calls'[p] = [f |-> f, bytes |-> SubSeq(s, m + 1, Len(s))]
      BY <2>1, CallsAre
    <3>2. \A r \in FsProcs : r # p => Calls'[r] = Calls[r]
      BY <2>1, CallsAre
    <3> DEFINE t == SubSeq(s, m + 1, Len(s))
    <3> HIDE DEF t, m, s
    <3>3. [Calls[p] EXCEPT !.bytes = t] = [f |-> f, bytes |-> t]
      BY <1>9
    <3>4. Calls' = [Calls EXCEPT ![p] = [f |-> f, bytes |-> t]]
      BY <3>1, <3>2, AsFunctions DEF t
    <3>5. [Calls EXCEPT ![p].bytes = t] = [Calls EXCEPT ![p] = [f |-> f, bytes |-> t]]
      BY <3>3, AsFunctions
    <3> QED BY <3>4, <3>5 DEF t
  <2>2. CASE op[p].tot + m = w
    <3>1. B!Written(p, w)
      BY <2>2 DEF B!Copy
    <3>2. foff[f] + w = a + m
      <4> HIDE DEF a, m, w
      <4> QED BY <1>2, <1>4, <2>2
    <3>3. /\ Idling' /\ EndsAt(i, foff[f] + w) /\ OthersKept(i)
          /\ Holding' = [Holding EXCEPT ![i] = Nobody]
          /\ Offsets' = [Offsets EXCEPT ![f] = foff[f] + w]
      BY <1>1, <1>2, <1>3, <1>4, <1>10, <3>1, WrittenBytes
    <3>4. /\ \A q \in FsProcs : q # p => op'[q] = op[q]
          /\ op[p].i + w < op[p].n =>
              /\ op'[p].f = f /\ op'[p].n = op[p].n /\ op'[p].i = op[p].i + w /\ op'[p].tot = 0
          /\ ~(op[p].i + w < op[p].n) => op'[p] = B!Idle
      BY <1>1, <1>2, <1>3, <1>4, <3>1, WrittenIs
    <3>5. m = Len(s) <=> ~(op[p].i + w < op[p].n)
      <4> DEFINE n == op[p].n
                 j == op[p].i
                 t == op[p].tot
                 l == Len(s)
      <4>1. n \in Nat /\ j \in Nat /\ t \in Nat /\ m \in Nat /\ w \in Nat /\ l \in Nat
        BY <1>2, <1>9
      <4>2. l = n - j - t /\ t + m = w /\ j + w <= n
        BY <1>2, <1>9, <2>2
      <4> HIDE DEF m, w, n, j, t, l
      <4>3. m = l <=> ~(j + w < n)
        BY <4>1, <4>2
      <4> QED BY <4>3 DEF n, j, l
    <3>6. CASE m = Len(s)
      <4>1. Calls'[p] = T!NoCall /\ \A q \in FsProcs : q # p => Calls'[q] = Calls[q]
        BY <3>4, <3>5, <3>6, CallsAre, IdleLeft
      <4>2. Calls' = [Calls EXCEPT ![p] = T!NoCall]
        BY <4>1, AsFunctions
      <4> HIDE DEF a, m, w, s
      <4> QED BY <3>2, <3>3, <3>6, <4>2
    <3>7. CASE m # Len(s)
      <4>1. op'[p].f = f /\ op'[p].n = op[p].n /\ op'[p].i = op[p].i + w /\ op'[p].tot = 0
        BY <3>4, <3>5, <3>7
      <4>2. /\ op'[p].i + op'[p].tot = op[p].i + op[p].tot + m
            /\ op'[p].n - op'[p].i - op'[p].tot = op[p].n - op[p].i - op[p].tot - m
        <5> HIDE DEF a, m, w, s
        <5> QED BY <1>2, <2>2, <4>1
      <4>3. Left(op'[p]) = SubSeq(s, m + 1, Len(s))
        BY <1>2, <1>8, <4>1, <4>2, LeftOver
      <4>4. Calls' = [Calls EXCEPT ![p].bytes = SubSeq(s, m + 1, Len(s))]
        BY <2>1, <3>4, <3>7, <4>1, <4>3
      <4> HIDE DEF a, m, w, s
      <4> QED BY <3>2, <3>3, <3>7, <4>4
    <3> QED BY <3>6, <3>7
  <2>3. CASE op[p].tot + m # w
    <3>1. /\ op' = [op EXCEPT ![p].tot = @ + B!M(p), ![p].logged = @ \cup {B!Data(ItsSlot(p))}]
          /\ UNCHANGED <<foff, size>>
      BY <2>3 DEF B!Copy, ItsSlot
    <3>2. /\ op'[p].at = op[p].at /\ op'[p].f = op[p].f /\ op'[p].ip = op[p].ip /\ op'[p].n = op[p].n
          /\ op'[p].i = op[p].i
      BY <1>1, <1>6, <2>3, <3>1, GoesOn
    <3>3. op \in [FsProcs -> FileCalls]
      BY DEF FilesInv, FileTypes
    <3>4. op'[p].tot = op[p].tot + m /\ \A q \in FsProcs : q # p => op'[q] = op[q]
      <4> DEFINE d == {B!Data(ItsSlot(p))}
      <4>1. op' = [op EXCEPT ![p].tot = @ + m, ![p].logged = @ \cup d]
        BY <3>1
      <4> HIDE DEF m, d
      <4>2. op'[p] = [op[p] EXCEPT !.tot = @ + m, !.logged = @ \cup d] /\ \A q \in FsProcs : q # p => op'[q] = op[q]
        BY <3>3, <4>1
      <4>3. PICK o \in FileCalls : o = op[p]
        BY <1>2
      <4>4. [o EXCEPT !.tot = @ + m, !.logged = @ \cup d].tot = o.tot + m
        BY DEF FileCalls
      <4> QED BY <4>2, <4>3, <4>4
    <3>5. /\ Idling' /\ EndsAt(i, a + m) /\ OthersKept(i)
          /\ Holding' = Holding
          /\ Offsets' = [Offsets EXCEPT ![f] = a + m]
      <4>1. UNCHANGED <<fip, foff, size>> /\ op'[p].at = "turn" /\ op'[p].ip = i /\ op'[p].f = f
        BY <1>1, <1>3, <1>4, <3>1, <3>2
      <4>2. m \in Nat /\ op'[p].tot = op[p].tot + m /\ \A q \in FsProcs : q # p => op'[q] = op[q]
        BY <1>2, <3>4
      <4> HIDE DEF m
      <4> QED BY <1>1, <1>3, <1>4, <1>10, <4>1, <4>2, GoesOnBytes
    <3>6. m # Len(s)
      <4> DEFINE n == op[p].n
                 j == op[p].i
                 t == op[p].tot
                 l == Len(s)
      <4>1. n \in Nat /\ j \in Nat /\ t \in Nat /\ m \in Nat /\ w \in Nat /\ l \in Nat
        BY <1>2, <1>9
      <4>2. l = n - j - t /\ t + m <= w /\ t + m # w /\ j + w <= n
        BY <1>2, <1>9, <2>3
      <4> HIDE DEF m, w, n, j, t, l
      <4>3. m # l
        BY <4>1, <4>2
      <4> QED BY <4>3 DEF l
    <3>7. /\ op'[p].i + op'[p].tot = op[p].i + op[p].tot + m
          /\ op'[p].n - op'[p].i - op'[p].tot = op[p].n - op[p].i - op[p].tot - m
      <4> HIDE DEF a, m, w, s
      <4> QED BY <1>2, <3>2, <3>4
    <3>8. Left(op'[p]) = SubSeq(s, m + 1, Len(s))
      BY <1>2, <1>8, <3>2, <3>7, LeftOver
    <3>9. Calls' = [Calls EXCEPT ![p].bytes = SubSeq(s, m + 1, Len(s))]
      BY <1>4, <2>1, <3>2, <3>4, <3>6, <3>8
    <3> HIDE DEF a, m, w, s
    <3> QED BY <3>5, <3>6, <3>9
  <2> QED BY <2>2, <2>3
<1>12. Texts' = [Texts EXCEPT ![i] = T!Overwritten(@, a, SubSeq(s, 1, m))]
  BY <1>1, <1>3, <1>6, <1>11, CopiedText
<1>13. TextKept'
  BY <1>1, <1>3, <1>6, <1>10, <1>11, CopiedKept
<1>14. T!Put(p)
  <2>1. Calls[p].f = f /\ Calls[p].bytes = s /\ fip[Calls[p].f] = i
    BY <1>7, <1>9
  <2>2. Offsets' = [Offsets EXCEPT ![f] = @ + m]
    BY <1>7, <1>11
  <2>3. Texts' = [Texts EXCEPT ![i] = T!Overwritten(@, Offsets[f], SubSeq(s, 1, m))]
    BY <1>7, <1>12
  <2>4. IF m = Len(s)
        THEN Calls' = [Calls EXCEPT ![p] = T!NoCall] /\ Holding' = [Holding EXCEPT ![i] = Nobody]
        ELSE /\ Calls' = [Calls EXCEPT ![p].bytes = SubSeq(s, m + 1, Len(s))]
             /\ Holding' \in {Holding, [Holding EXCEPT ![i] = Nobody]}
    BY <1>11
  <2> HIDE DEF a, m, s
  <2> QED BY <1>1, <1>7, <1>9, <2>1, <2>2, <2>3, <2>4 DEF T!Put
<1> QED BY <1>11, <1>13, <1>14 DEF BytesInv, T!Next

(* A copy that fails ends the call, and leaves bytes undefined.            *)
LEMMA CopyFailsBytes ==
  ASSUME FilesInv, FilesInv', BytesInv, NEW p \in FsProcs, B!CopyFails(p)
  PROVE  BytesInv' /\ T!Next
<1>1. /\ op[p].at = "turn" /\ B!Slot(op[p].ip, B!Bn(p)) # 0
      /\ B!Written(p, op[p].tot) /\ UNCHANGED <<fip, addrs, marked, stored, halted>>
  BY DEF B!CopyFails, B!Nil
<1>2. PICK m \in 0..(B!M(p) - 1) :
        /\ cached' = [cached EXCEPT ![ItsSlot(p)] = B!Filled(p, m)]
        /\ torn' = torn \cup {<<op[p].ip, x>> : x \in {y \in B!At(p)..(B!At(p) + m - 1) : y < size[op[p].ip]}}
  BY DEF B!CopyFails, ItsSlot
<1> DEFINE a == B!At(p)
           r == op[p].tot
           w == B!Piece(op[p])
<1>3. /\ a = foff[op[p].f] + r /\ foff[op[p].f] \in Nat /\ r \in Nat /\ a \in Nat
      /\ B!M(p) \in Nat /\ B!M(p) >= 1 /\ w \in Nat /\ r + B!M(p) <= w /\ op[p].i + w <= op[p].n
      /\ op[p].i \in Nat /\ op[p].n \in Nat /\ op[p] \in FileCalls
      /\ B!M(p) <= BSIZE - (a % BSIZE)
  BY <1>1, TurnIs DEF FilesInv
<1>4. m \in Nat /\ m < B!M(p) /\ m <= B!M(p)
  BY <1>3
<1>5. PICK i \in Files : i = op[p].ip
  BY <1>1, TurnIs DEF FilesInv
<1>6. PICK f \in Opens : f = op[p].f
  BY <1>1, TurnIs DEF FilesInv
<1>7. ItsSlot(p) \in B!DataBlocks /\ \A j \in Files : ItsSlot(p) # Ind(j)
  BY <1>1, CopyIs
<1>8. Steady
  <2> DEFINE y == B!Filled(p, m)
  <2>1. cached' = [cached EXCEPT ![ItsSlot(p)] = y] /\ stored' = stored /\ UNCHANGED <<addrs, marked>>
    BY <1>1, <1>2
  <2> HIDE DEF y
  <2> QED BY <1>7, <2>1, ContentsSteady
<1>9. /\ Holding[i] = p /\ Offsets[f] = a /\ fip[f] = i /\ ~Truncating(i)
      /\ B!Reached(i) = Larger(size[i], a) /\ size[i] \in Nat
  BY <1>1, <1>5, <1>6, InPiece
<1>10. Idling /\ TextKept
  BY DEF BytesInv
<1>11. foff[f] + r = a
  BY <1>3, <1>6
<1>12. /\ Idling' /\ EndsAt(i, a) /\ OthersKept(i)
       /\ Holding' = [Holding EXCEPT ![i] = Nobody]
       /\ Offsets' = Offsets
  <2>1. /\ Idling' /\ EndsAt(i, foff[f] + r) /\ OthersKept(i)
        /\ Holding' = [Holding EXCEPT ![i] = Nobody]
        /\ Offsets' = [Offsets EXCEPT ![f] = foff[f] + r]
    BY <1>1, <1>3, <1>5, <1>6, <1>10, WrittenBytes
  <2>2. [Offsets EXCEPT ![f] = a] = Offsets
    BY <1>9, AsFunctions
  <2> HIDE DEF a, r
  <2> QED BY <1>11, <2>1, <2>2
<1>13. Calls' = [Calls EXCEPT ![p] = T!NoCall]
  <2>1. (\A q \in FsProcs : q # p => op'[q] = op[q]) /\ op'[p] = B!Idle
    <3>1. r # w
      <4> HIDE DEF r, w
      <4> QED BY <1>3
    <3> QED BY <1>1, <1>3, <1>5, <1>6, <3>1, WrittenIs
  <2>2. Calls'[p] = T!NoCall /\ \A q \in FsProcs : q # p => Calls'[q] = Calls[q]
    BY <2>1, CallsAre, IdleLeft
  <2> QED BY <2>2, AsFunctions
<1>14. Calls[p].f = f /\ Calls[p] # T!NoCall
  <2>1. op[p].n \in Sizes
    BY <1>1 DEF FilesInv, Calling
  <2>2. op[p].i + op[p].tot < op[p].n
    <3> DEFINE n == op[p].n
               j == op[p].i
    <3>1. n \in Nat /\ j \in Nat /\ r \in Nat /\ w \in Nat /\ r + B!M(p) <= w /\ B!M(p) >= 1 /\ B!M(p) \in Nat
          /\ j + w <= n
      BY <1>3
    <3> HIDE DEF n, j, r, w
    <3>2. j + r < n
      BY <3>1
    <3> QED BY <3>2 DEF j, r, n
  <2>3. [f |-> op[p].f, bytes |-> Left(op[p])] # T!NoCall
    BY <1>3, <2>1, <2>2, SomeLeft
  <2>4. Calls[p] = [f |-> f, bytes |-> Left(op[p])]
    BY <1>6, CallsAre
  <2> QED BY <1>6, <2>3, <2>4
(* The bytes of the texts.                                                 *)
<1>15. ~Truncating(i)' /\ B!Reached(i)' = B!Reached(i) /\ B!Reached(i) \in Nat
  <2>1. B!Reached(i) \in Nat
    BY <1>3, <1>9 DEF Larger
  <2> QED BY <1>9, <1>12, <2>1 DEF EndsAt
<1>16. ASSUME NEW j \in Files, NEW x \in Nat, ~Truncating(j), x < B!Reached(j), ~Copied(p, m, j, x)
       PROVE  /\ B!Slot(j, x \div BSIZE)' = B!Slot(j, x \div BSIZE) /\ B!Slot(j, x \div BSIZE) \in B!DataBlocks
              /\ B!ByteAt(j, x)' = B!ByteAt(j, x)
              /\ <<j, x>> \in torn' <=> <<j, x>> \in torn
              /\ ByteOf(j, x)' = ByteOf(j, x)
  <2>1. /\ B!Slot(j, x \div BSIZE)' = B!Slot(j, x \div BSIZE) /\ B!Slot(j, x \div BSIZE) \in B!DataBlocks
        /\ B!ByteAt(j, x)' = B!ByteAt(j, x)
    BY <1>1, <1>2, <1>4, <1>8, <1>16, KeptByte
  <2>2. <<j, x>> \in torn' <=> <<j, x>> \in torn
    BY <1>2, <1>16 DEF Copied
  <2> QED BY <2>1, <2>2 DEF ByteOf
<1>17. ASSUME NEW x \in Nat, x < B!Reached(i), Copied(p, m, i, x)
       PROVE  <<i, x>> \in torn'
  <2>1. x \in a..(a + m - 1)
    BY <1>17 DEF Copied
  <2>2. x < size[i]
    <3> HIDE DEF a
    <3> QED BY <1>3, <1>4, <1>9, <1>17, <2>1 DEF Larger
  <2> QED BY <1>2, <1>5, <2>1, <2>2
<1>18. Texts' = [Texts EXCEPT ![i] = [j \in DOMAIN @ |-> IF j \in (a + 1)..(a + m) THEN Torn ELSE @[j]]]
  <2>1. Texts[i] = [j \in 1..B!Reached(i) |-> ByteOf(i, j - 1)]
    BY <1>9, TextsAre
  <2>2. Texts'[i] = [j \in 1..B!Reached(i) |-> ByteOf(i, j - 1)']
    BY <1>15, TextsAreNext
  <2>3. ASSUME NEW j \in 1..B!Reached(i)
        PROVE  ByteOf(i, j - 1)' = IF j \in (a + 1)..(a + m) THEN Torn ELSE Texts[i][j]
    <3>1. PICK x \in Nat : x = j - 1 /\ x < B!Reached(i)
      <4>1. j - 1 \in Nat /\ j - 1 < B!Reached(i)
        BY <1>15
      <4> QED BY <4>1
    <3>2. Copied(p, m, i, x) <=> j \in (a + 1)..(a + m)
      <4>1. x \in a..(a + m - 1) <=> j \in (a + 1)..(a + m)
        <5>1. x = j - 1 /\ j \in Int
          BY <1>15, <3>1
        <5> HIDE DEF a
        <5> QED BY <1>3, <1>4, <5>1
      <4> QED BY <1>5, <4>1 DEF Copied
    <3>3. CASE Copied(p, m, i, x)
      <4>1. <<i, x>> \in torn'
        BY <1>17, <3>1, <3>3
      <4>2. ByteOf(i, x)' = Torn
        BY <4>1 DEF ByteOf
      <4> QED BY <3>1, <3>2, <3>3, <4>2
    <3>4. CASE ~Copied(p, m, i, x)
      <4>1. ByteOf(i, x)' = ByteOf(i, x)
        BY <1>9, <1>16, <3>1, <3>4
      <4>2. Texts[i][j] = ByteOf(i, x)
        BY <2>1, <3>1
      <4> QED BY <3>1, <3>2, <3>4, <4>1, <4>2
    <3> QED BY <3>3, <3>4
  <2> DEFINE v == [j \in DOMAIN Texts[i] |-> IF j \in (a + 1)..(a + m) THEN Torn ELSE Texts[i][j]]
  <2>4. Texts'[i] = v
    <3>1. DOMAIN Texts[i] = 1..B!Reached(i)
      BY <2>1
    <3> HIDE DEF a
    <3> QED BY <2>2, <2>3, <3>1
  <2>5. ASSUME NEW j \in Files, j # i
        PROVE  Texts'[j] = Texts[j]
    <3>1. /\ Truncating(j)' <=> Truncating(j)
          /\ B!Reached(j)' = B!Reached(j) /\ B!Reached(j) \in Nat
      BY <1>12, <2>5 DEF OthersKept
    <3>2. ASSUME NEW x \in Nat, ~Truncating(j), x < B!Reached(j)
          PROVE  ByteOf(j, x)' = ByteOf(j, x)
      <4>1. ~Copied(p, m, j, x)
        BY <1>5, <2>5 DEF Copied
      <4> QED BY <1>16, <3>2, <4>1
    <3> QED BY <3>1, <3>2, SameText
  <2>6. Texts' = [Texts EXCEPT ![i] = v]
    <3> HIDE DEF v
    <3> QED BY <2>4, <2>5, AsFunctions
  <2> QED BY <2>6
<1>19. a + m \in a..(a + BSIZE - 1) /\ (a \div BSIZE) = (a + m) \div BSIZE
  <2>1. BSIZE \in Nat /\ BSIZE > 0 /\ a % BSIZE \in 0..(BSIZE - 1)
    BY <1>3, FileNumbers, Division
  <2>2. m < BSIZE - (a % BSIZE) /\ m < BSIZE
    <3> DEFINE u == a % BSIZE
    <3>1. u \in 0..(BSIZE - 1) /\ B!M(p) <= BSIZE - u
      BY <1>3, <2>1
    <3> HIDE DEF u, a
    <3>2. m < BSIZE - u /\ m < BSIZE
      BY <1>3, <1>4, <2>1, <3>1
    <3> QED BY <3>2 DEF u, a
  <2> DEFINE y == a + m
  <2>3. y \in Nat /\ a <= y /\ y - a = m
    <3> HIDE DEF a
    <3> QED BY <1>3, <1>4
  <2>4. y \in a..(a + BSIZE - 1)
    <3> HIDE DEF a
    <3> QED BY <1>3, <1>4, <2>1, <2>2
  <2>5. y \div BSIZE = a \div BSIZE
    <3>1. y - a < BSIZE - (a % BSIZE)
      BY <2>2, <2>3
    <3> HIDE DEF a, y
    <3> QED BY <1>3, <2>1, <2>3, <3>1, OneBlock
  <2> QED BY <2>4, <2>5
<1>20. T!Fail(p)
  <2> DEFINE k == a + m
             v(x) == [Texts EXCEPT ![i] = [j \in DOMAIN @ |-> IF j \in (Offsets[f] + 1)..x THEN Torn ELSE @[j]]]
  <2>1. k \in Offsets[f]..(Offsets[f] + BSIZE - 1) /\ (Offsets[f] \div BSIZE) = k \div BSIZE
    BY <1>9, <1>19
  <2>2. Texts' = v(k)
    BY <1>9, <1>18
  <2>3. \E x \in Offsets[f]..(Offsets[f] + BSIZE - 1) : Offsets[f] \div BSIZE = x \div BSIZE /\ Texts' = v(x)
    <3> HIDE DEF k, v
    <3> QED BY <2>1, <2>2
  <2>4. /\ Calls[p] # T!NoCall /\ Calls[p].f = f /\ fip[f] = i /\ Holding[i] = p
        /\ Calls' = [Calls EXCEPT ![p] = T!NoCall] /\ Holding' = [Holding EXCEPT ![i] = Nobody]
        /\ Offsets' = Offsets /\ fip' = fip
    BY <1>1, <1>9, <1>12, <1>13, <1>14
  <2> HIDE DEF k, a
  <2> QED BY <2>3, <2>4 DEF T!Fail
<1>21. TextKept'
  <2> SUFFICES ASSUME NEW j \in Files, NEW x \in Nat, ~Truncating(j)', x < B!Reached(j)', <<j, x>> \notin torn'
               PROVE  (cached[B!Slot(j, x \div BSIZE)][x % BSIZE] = stored[B!Slot(j, x \div BSIZE)][x % BSIZE])'
    BY DEF TextKept
  <2>1. ~Truncating(j) /\ x < B!Reached(j)
    BY <1>9, <1>12, <1>15 DEF OthersKept
  <2>2. ~Copied(p, m, j, x)
    <3>1. CASE j = i
      BY <1>17, <2>1, <3>1
    <3>2. CASE j # i
      BY <1>5, <3>2 DEF Copied
    <3> QED BY <3>1, <3>2
  <2>3. /\ B!Slot(j, x \div BSIZE)' = B!Slot(j, x \div BSIZE)
        /\ B!ByteAt(j, x)' = B!ByteAt(j, x)
        /\ <<j, x>> \notin torn
    BY <1>16, <2>1, <2>2
  <2>4. cached[B!Slot(j, x \div BSIZE)][x % BSIZE] = stored[B!Slot(j, x \div BSIZE)][x % BSIZE]
    BY <1>10, <2>1, <2>3 DEF TextKept
  <2>5. cached'[B!Slot(j, x \div BSIZE)][x % BSIZE] = cached[B!Slot(j, x \div BSIZE)][x % BSIZE]
    BY <2>3 DEF B!ByteAt
  <2> QED BY <1>1, <2>3, <2>4, <2>5
<1> QED BY <1>12, <1>20, <1>21 DEF BytesInv, T!Next

(* All of this at the start, and in every step.                            *)
LEMMA BytesInit ==
  ASSUME B!Init
  PROVE  BytesInv /\ T!Init
<1>0. FilesInv
  BY FilesInvInit
<1>1. /\ fip = [f \in Opens |-> 0] /\ foff = [f \in Opens |-> 0]
      /\ size = [i \in Files |-> 0] /\ op = [p \in FsProcs |-> B!Idle] /\ stored = cached
  BY DEF B!Init, B!Nil
<1>2. \A p \in FsProcs : op[p] = B!Idle /\ op[p].at = "user"
  BY <1>1, IdleIs
<1>3. \A i \in Files : ~B!Locked(i)
  BY <1>2 DEF B!Locked, B!InInode
<1>4. \A i \in Files : Texts[i] = <<>> /\ Holding[i] = Nobody
  <2> SUFFICES ASSUME NEW i \in Files
               PROVE  Texts[i] = <<>> /\ Holding[i] = Nobody
    OBVIOUS
  <2>1. ~Truncating(i) /\ B!Reached(i) = size[i] /\ Holding[i] = Nobody
    BY <1>0, <1>3, FreeFile
  <2>2. size[i] = 0
    BY <1>1
  <2>3. Texts[i] = [j \in 1..0 |-> ByteOf(i, j - 1)]
    BY <2>1, <2>2, TextsAre
  <2> QED BY <2>1, <2>3
<1>5. \A f \in Opens : Offsets[f] = 0
  BY <1>0, <1>1, <1>2, OffsetsAre
<1>6. \A p \in FsProcs : Calls[p] = T!NoCall
  BY <1>2, CallsAre, IdleLeft
<1>7. T!Init
  <2>1. Texts = [i \in Files |-> <<>>] /\ Holding = [i \in Files |-> Nobody]
    BY <1>4, AsFunctions
  <2>2. Offsets = [o \in Opens |-> 0] /\ Calls = [p \in FsProcs |-> T!NoCall]
    BY <1>5, <1>6, AsFunctions
  <2> QED BY <1>1, <2>1, <2>2 DEF T!Init
<1>8. TextKept
  BY <1>1 DEF TextKept
<1>9. Idling
  BY <1>2 DEF Idling
<1> QED BY <1>7, <1>8, <1>9 DEF BytesInv

(* Every step of the files is a step of ByteFile, or none it sees.         *)
LEMMA BytesStep ==
  ASSUME FilesInv, FilesInv', BytesInv, B!Next
  PROVE  BytesInv' /\ (T!Next \/ UNCHANGED T!byteVars)
<1>1. CASE B!Open
  BY <1>1, OpenBytes
<1>2. CASE B!Recycle \/ B!Absorb
  BY <1>2, BufferBytes
<1>3. CASE B!Crash
  BY <1>3, CrashBytes
<1>4. ASSUME NEW p \in FsProcs, B!Write(p) \/ B!WriteOn(p)
      PROVE  BytesInv' /\ (T!Next \/ UNCHANGED T!byteVars)
  BY <1>4, WriteBytes
<1>5. ASSUME NEW p \in FsProcs, B!Bmap(p) \/ B!Free(p)
      PROVE  BytesInv' /\ (T!Next \/ UNCHANGED T!byteVars)
  BY <1>5, BmapBytes, FreeBytes
<1>6. ASSUME NEW p \in FsProcs, B!Copy(p) \/ B!CopyFails(p)
      PROVE  BytesInv' /\ (T!Next \/ UNCHANGED T!byteVars)
  BY <1>6, CopyBytes, CopyFailsBytes
<1>7. ASSUME NEW p \in FsProcs, B!Read(p) \/ B!Truncate(p) \/ B!Truncated(p)
      PROVE  BytesInv' /\ (T!Next \/ UNCHANGED T!byteVars)
  BY <1>7, ReadBytes, TruncateBytes, TruncatedBytes
<1> QED BY <1>1, <1>2, <1>3, <1>4, <1>5, <1>6, <1>7 DEF B!Next

(* A step of another part changes nothing in ByteFile either.              *)
LEMMA BytesStutter ==
  ASSUME BytesInv, UNCHANGED B!fileVars
  PROVE  BytesInv' /\ (fip' = fip => UNCHANGED T!byteVars)
<1>1. UNCHANGED <<fip, foff, addrs, size, marked, cached, stored, op, torn, halted>>
  BY DEF B!fileVars
<1>2. \A i \in Files : B!Reached(i)' = B!Reached(i)
  BY <1>1 DEF B!Reached, B!Writer, B!InInode, B!At
<1>3. \A i \in Files : \A k : B!Slot(i, k)' = B!Slot(i, k)
  BY <1>1 DEF B!Slot
<1>4. TextKept'
  BY <1>1, <1>2, <1>3 DEF BytesInv, TextKept, Truncating
<1>5. Idling'
  BY <1>1 DEF BytesInv, Idling
<1>6. UNCHANGED <<fip, Offsets, Calls, Holding>>
  BY <1>1 DEF Offsets, Calls, Holding, B!Writer, B!InInode, B!At
<1>7. Texts' = Texts
  <2>1. \A i \in Files : \A x : B!ByteAt(i, x)' = B!ByteAt(i, x)
    BY <1>1 DEF B!ByteAt, B!Slot
  <2> QED BY <1>1, <1>2, <2>1 DEF Texts, B!Writer, B!InInode
<1> QED BY <1>4, <1>5, <1>6, <1>7 DEF BytesInv, T!byteVars
-----------------------------------------------------------------------------
(* The files stay right, whichever part of the kernel moves.               *)
LEMMA FilesInvariant == Spec => [](FilesInv /\ BytesInv)
<1>1. Init => FilesInv /\ BytesInv
  BY FilesInvInit, BytesInit DEF Init
<1>2. FilesInv /\ BytesInv /\ [Next]_vars => (FilesInv /\ BytesInv)'
  <2> SUFFICES ASSUME FilesInv, BytesInv, [Next]_vars
               PROVE  FilesInv' /\ BytesInv'
    OBVIOUS
  <2>1. B!Next \/ UNCHANGED B!fileVars
    BY DEF Next, vars, fileVars, B!fileVars
  <2>2. FilesInv'
    BY <2>1, FilesInvStep, FilesInvStutter
  <2>3. CASE B!Next
    BY <2>2, <2>3, BytesStep
  <2>4. CASE UNCHANGED B!fileVars
    BY <2>2, <2>4, BytesStutter
  <2> QED BY <2>1, <2>3, <2>4
<1> QED BY <1>1, <1>2, PTL DEF Spec

(* A block is marked in the bitmap exactly if one file has it, in one      *)
(* place, also while other processes take and give back blocks; bfree      *)
(* never panics; no file has a hole; and a piece of a write logs no more   *)
(* than begin_op reserves for it.                                          *)
THEOREM FilesAreSafe == Spec => []FilesSafe
<1>1. FilesInv => FilesSafe
  BY FilesInvSafe DEF FilesSafe
<1> QED BY <1>1, FilesInvariant, PTL

(* A file is a sequence of bytes with offsets, calls and at most one       *)
(* writer: what bmap, writei and itrunc do block by block, what the cache  *)
(* recycles and what a crash leaves, shows as bytes that one writer puts   *)
(* at the offset, for every size of a block and number of processes.       *)
THEOREM FilesAreByteFiles == Spec => ImplementsByteFile
<1>1. Init => B!Bytes!Init
  BY BytesInit, SameFile DEF Init
<1>2. FilesInv /\ FilesInv' /\ BytesInv /\ [Next]_vars => [part = "files" => B!Bytes!Next]_(B!Bytes!byteVars)
  <2> SUFFICES ASSUME FilesInv, FilesInv', BytesInv, [Next]_vars
               PROVE  [part = "files" => B!Bytes!Next]_(B!Bytes!byteVars)
    OBVIOUS
  <2>1. B!Next \/ UNCHANGED B!fileVars
    BY DEF Next, vars, fileVars, B!fileVars
  <2>2. CASE B!Next
    BY <2>2, BytesStep, SameFile
  <2>3. CASE UNCHANGED B!fileVars
    <3>1. fip' = fip
      BY <2>3 DEF B!fileVars
    <3> QED BY <2>3, <3>1, BytesStutter, SameFile
  <2> QED BY <2>1, <2>2, <2>3
<1> QED BY <1>1, <1>2, FilesInvariant, PTL DEF Spec, ImplementsByteFile
=============================================================================
