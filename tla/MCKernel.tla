------------------------------ MODULE MCKernel ------------------------------
(***************************************************************************)
(* Six parts of the kernel that share no state with each other, checked in *)
(* one run: part says which one moves, and is looked at; the others stay   *)
(* as they are.                                                            *)
(***************************************************************************)
EXTENDS Naturals, FiniteSets, TLC

CONSTANTS Procs, Nobody, UINT, MaxN, PIPESIZE, INPUT_BUF,            \* Pipe, Console
          NPROC, NFRAMES, FAN, MAXPAGE, MaxSize,                     \* Memory
          DiskProcs, Bufs, Blocks, Values, NUM, None, NoIO,          \* Virtio
          FsProcs, Names, NInodes, MaxOpen, MaxLinks,                \* Inodes
          Opens, Files, NBlocks, BSIZE, NDIRECT, BPB, MAXOPBLOCKS, Sizes, Torn  \* FileBlocks

VARIABLES
  part,
  ends, ref, openEnds, pdata, nread, nwrite, plock, at, left, asleep, doomed, kfreed, cut,
  cbuf, consR, consW, consE, consLock, rat, wants, some, rkilled,
  nfree, procs, pipes, panicked,
  io, data, disk, free, next, addr, ops, info, busy, avail, used, irq, handling, st, head,
  fs, cwd, ofile, iat, cur, ip,
  fip, foff, addrs, size, marked, cached, stored, op, torn, halted

pipeVars == <<ends, ref, openEnds, pdata, nread, nwrite, plock, at, left, asleep, doomed,
              kfreed, cut>>
consVars == <<cbuf, consR, consW, consE, consLock, rat, wants, some, rkilled>>
memVars == <<nfree, procs, pipes, panicked>>
diskVars == <<io, data, disk, free, next, addr, ops, info, busy, avail, used, irq, handling,
              st, head>>
inodeVars == <<fs, cwd, ofile, iat, cur, ip>>
fileVars == <<fip, foff, addrs, size, marked, cached, stored, op, torn, halted>>
vars == <<part, pipeVars, consVars, memVars, diskVars, inodeVars, fileVars>>

P == INSTANCE Pipe
C == INSTANCE Console
M == INSTANCE Memory WITH free <- nfree
V == INSTANCE MCVirtio WITH Procs <- DiskProcs
F == INSTANCE Inodes WITH Procs <- FsProcs
B == INSTANCE FileBlocks WITH Procs <- FsProcs, Inodes <- Files, Buffer <- <<1, 1, 1, 2>>

ASSUME KernelConstants ==
  P!PipeConstants /\ C!ConsoleConstants /\ M!MemoryConstants /\ V!VirtioConstants /\ F!InodesConstants
  /\ B!FileConstants /\ IsFiniteSet(DiskProcs) /\ IsFiniteSet(Bufs)

(* Nothing distinguishes one user of the file system from another, or one  *)
(* name; files and open files, which only their part has, are called by    *)
(* the same names.                                                         *)
Symmetry == Permutations(FsProcs) \cup Permutations(Names)

Init ==
  /\ part \in {"pipe", "console", "memory", "disk", "inodes", "files"}
  /\ P!Init /\ C!Init /\ M!Init /\ V!Init /\ F!Init /\ B!Init

Next ==
  /\ UNCHANGED part
  /\ \/ part = "pipe" /\ P!Next /\ UNCHANGED <<consVars, memVars, diskVars, inodeVars, fileVars>>
     \/ part = "console" /\ C!Next /\ UNCHANGED <<pipeVars, memVars, diskVars, inodeVars, fileVars>>
     \/ part = "memory" /\ M!Next /\ UNCHANGED <<pipeVars, consVars, diskVars, inodeVars, fileVars>>
     \/ part = "disk" /\ V!Next /\ UNCHANGED <<pipeVars, consVars, memVars, inodeVars, fileVars>>
     \/ part = "inodes" /\ F!Next /\ UNCHANGED <<pipeVars, consVars, memVars, diskVars, fileVars>>
     \/ part = "files" /\ B!Next /\ UNCHANGED <<pipeVars, consVars, memVars, diskVars, inodeVars>>

Spec == Init /\ [][Next]_vars
-----------------------------------------------------------------------------
(* No sleeper of a pipe is forgotten, and its page is freed once.          *)
PipeSafe == part = "pipe" => P!PipeSafe

(* Bytes leave a pipe in the order in which they were written.             *)
ImplementsFifo ==
  P!PipeFifo!Init /\ [][part = "pipe" => P!PipeFifo!Next]_(P!PipeFifo!fifoVars)

(* A reader of the console sleeps only while no line is complete.          *)
ReaderSleeps == part = "console" => C!ReaderSleeps

(* The console is a line editor.                                           *)
ImplementsLineEditor ==
  C!Lines!Init /\ [][part = "console" => C!Lines!Next]_(C!Lines!editorVars)

(* No page is lost or freed twice, whichever allocation fails.             *)
FramesConserved == part = "memory" => M!FramesConserved

(* A descriptor of the disk is free or in one request.                     *)
DescriptorsAccounted == part = "disk" => V!DescriptorsAccounted

(* Link counts and reference counts of inodes count what there is, and an  *)
(* inode nobody can get to is free, but for the two leaks of the code.     *)
CountsExact == part = "inodes" => F!CountsExact

(* The kernel stops only above a removed directory, and never in a circle. *)
PanicsOnlyAbove == part = "inodes" => F!PanicsOnlyAbove

(* A block belongs to one file or is free, and every piece of a write fits *)
(* in what begin_op reserves.                                              *)
FilesSafe == part = "files" => B!FilesSafe

(* A file is a sequence of bytes, also for writers who share an offset.    *)
ImplementsByteFile ==
  B!Bytes!Init /\ [][part = "files" => B!Bytes!Next]_(B!Bytes!byteVars)
=============================================================================
