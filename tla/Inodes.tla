------------------------------- MODULE Inodes -------------------------------
(***************************************************************************)
(* Inodes, directories and the system calls on them (kernel/fs.c and       *)
(* kernel/sysfile.c): link counts on the disk, reference counts in the     *)
(* inode table, look-ups that hold one lock at a time, calls that race     *)
(* with the removal of what they have found, and crashes.                  *)
(*                                                                         *)
(* What a process does while it holds one inode's lock is one step, with   *)
(* the iput that follows; unlink, which waits for a second lock, is two.   *)
(* A path is chosen element by element, and the call when its path is      *)
(* found: until then all calls do the same.  Between nameiparent's look at *)
(* the type and the caller's ilock nothing changes that it has seen, so    *)
(* the two are one step.  Begin_op and end_op make a call durable as a     *)
(* whole (module Log): a crash finds the disk as it is when no call is     *)
(* under way.  The contents of files, the block bitmap and devices are     *)
(* left out; a process has one descriptor.                                 *)
(***************************************************************************)
EXTENDS Naturals, FiniteSets

CONSTANTS Procs,
          Names,    (* names of entries, other than "." and ".."              *)
          NInodes,  (* sb.ninodes - 1; there is always one to allocate,       *)
                    (* and an entry of the inode table for it                 *)
          MaxOpen,  (* bound: descriptors, of all processes                   *)
          MaxLinks  (* bound: links of a file (a link made in a directory     *)
                    (* that has been removed is counted for ever)             *)

Inums == 1..NInodes
ROOTINO == 1
Nil == 0

(* ".." is kept in up, apart from the other entries.                       *)
InodesConstants ==
  /\ NInodes \in Nat \ {0}
  /\ IsFiniteSet(Procs) /\ IsFiniteSet(Names) /\ ".." \notin Names

VARIABLES
  fs,    \* the inodes: on the disk type, nlink, the entries of a directory
         \* and its ".."; in the table ref and valid; and as history the
         \* directories that have been removed, the inodes that got a name in
         \* one of them or had none at a crash, and those that were free when
         \* the ".." of a removed directory led to them
  cwd, ofile,
  iat,   \* where a process is in its call
  cur,   \* the inode it has got, by a reference: ip in namex, then dp
  ip     \* a second one

inodeVars == <<fs, cwd, ofile, iat, cur, ip>>

NoEntries == [n \in Names |-> Nil]

InodesTypeOK ==
  /\ fs.type \in [Inums -> {"none", "file", "dir"}]
  /\ fs.nlink \in [Inums -> Nat] /\ fs.ref \in [Inums -> Nat]
  /\ fs.ent \in [Inums -> [Names -> Inums \cup {Nil}]]
  /\ fs.up \in [Inums -> Inums \cup {Nil}] /\ fs.valid \in [Inums -> BOOLEAN]
  /\ fs.removed \subseteq Inums /\ fs.lost \subseteq Inums /\ fs.stray \subseteq Inums
  /\ cwd \in [Procs -> Inums] /\ ofile \in [Procs -> Inums \cup {Nil}]
  /\ iat \in [Procs -> {"user", "walk", "gotFile", "gotDir", "unlinkIp", "linkBad", "panic"}]
  /\ cur \in [Procs -> Inums \cup {Nil}] /\ ip \in [Procs -> Inums \cup {Nil}]

(* After the first boot: an empty root, every process in it. *)
Init ==
  /\ fs = [type |-> [i \in Inums |-> IF i = ROOTINO THEN "dir" ELSE "none"],
           nlink |-> [i \in Inums |-> IF i = ROOTINO THEN 1 ELSE 0],
           ent |-> [i \in Inums |-> NoEntries],
           up |-> [i \in Inums |-> IF i = ROOTINO THEN ROOTINO ELSE Nil],
           ref |-> [i \in Inums |-> IF i = ROOTINO THEN Cardinality(Procs) ELSE 0],
           valid |-> [i \in Inums |-> FALSE],
           removed |-> {}, lost |-> {}, stray |-> {}]
  /\ cwd = [p \in Procs |-> ROOTINO] /\ ofile = [p \in Procs |-> Nil]
  /\ iat = [p \in Procs |-> "user"]
  /\ cur = [p \in Procs |-> Nil] /\ ip = [p \in Procs |-> Nil]
-----------------------------------------------------------------------------
(* iget, also as idup: an entry that is new in the table is not valid.     *)
Iget(s, i) == [s EXCEPT !.ref[i] = @ + 1, !.valid[i] = @ /\ s.ref[i] > 0]

(* ilock, on the disk's copy. *)
Ilock(s, i) == [s EXCEPT !.valid[i] = TRUE]

(* The last part of iput: itrunc, and the inode is free. *)
Free(s, i) ==
  [s EXCEPT !.type[i] = "none", !.ent[i] = NoEntries, !.up[i] = Nil,
            !.ref[i] = 0, !.valid[i] = FALSE, !.removed = @ \ {i},
            !.lost = @ \ {i}]

\* Variant: what has not been read is taken for unlinked.
IputUnread(s, i) ==
  IF s.ref[i] = 1 /\ (s.valid[i] => s.nlink[i] = 0) THEN Free(s, i)
  ELSE [s EXCEPT !.ref[i] = @ - 1]

Iput(s, i) ==
  IF s.ref[i] = 1 /\ s.valid[i] /\ s.nlink[i] = 0 THEN Free(s, i)
  ELSE [s EXCEPT !.ref[i] = @ - 1]

(* dirlookup, and what it means to find a free inode. *)
Strays(s, i) == IF s.type[i] = "none" THEN [s EXCEPT !.stray = @ \cup {i}] ELSE s
Lookup(s, d, n) == IF n = ".." THEN s.up[d] ELSE s.ent[d][n]

Locked(i) == \E p \in Procs : iat[p] = "unlinkIp" /\ cur[p] = i

(* ilock meets a free inode: "ilock: no type". *)
NoType(i) == fs.type[i] = "none"
Panic(p) == iat' = [iat EXCEPT ![p] = "panic"] /\ UNCHANGED <<fs, cwd, ofile, cur, ip>>

Running == \A p \in Procs : iat[p] # "panic"

(* The call of p goes on with the inode i, or ends. *)
Next1(p, s, at, i) ==
  /\ fs' = s /\ iat' = [iat EXCEPT ![p] = at] /\ cur' = [cur EXCEPT ![p] = i]
End(p, s) == Next1(p, s, "user", Nil) /\ ip' = [ip EXCEPT ![p] = Nil]

(* A call that fails while it works on i; link takes back its count.       *)
Fails(p, s) ==
  IF ip[p] = Nil THEN End(p, s) ELSE Next1(p, s, "linkBad", Nil) /\ UNCHANGED ip
-----------------------------------------------------------------------------
Call(p) ==
  /\ iat[p] = "user"
  /\ \E i \in {ROOTINO, cwd[p]} : Next1(p, Iget(fs, i), "walk", i)
  /\ UNCHANGED <<cwd, ofile, ip>>

(* One turn of namex: it goes down one element, or up. *)
Walk(p) ==
  LET i == cur[p] s == Ilock(fs, i) IN
  /\ iat[p] = "walk" /\ ~Locked(i)
  /\ IF NoType(i) THEN Panic(p)
     ELSE /\ UNCHANGED <<cwd, ofile>>
          /\ \E n \in Names \cup {".."} :
               LET next == IF s.type[i] = "dir" THEN Lookup(s, i, n) ELSE Nil IN
               IF next = Nil THEN Fails(p, Iput(s, i))
               ELSE Next1(p, Iput(Iget(Strays(s, next), next), i), "walk", next) /\ UNCHANGED ip

(* The rest of sys_open: no file structure or descriptor, or a mode that   *)
(* a directory refuses.                                                    *)
Opened(p, s, i) ==
  \/ End(p, Iput(s, i)) /\ UNCHANGED ofile
  \/ /\ ofile[p] = Nil /\ Cardinality({q \in Procs : ofile[q] # Nil}) < MaxOpen
     /\ End(p, s) /\ ofile' = [ofile EXCEPT ![p] = i]

Open(p) ==
  LET i == cur[p] IN
  /\ iat[p] = "walk" /\ ip[p] = Nil /\ ~Locked(i)
  /\ IF NoType(i) THEN Panic(p) ELSE Opened(p, Ilock(fs, i), i) /\ UNCHANGED cwd

Chdir(p) ==
  LET i == cur[p] s == Ilock(fs, i) IN
  /\ iat[p] = "walk" /\ ip[p] = Nil /\ ~Locked(i)
  /\ IF NoType(i) THEN Panic(p)
     ELSE /\ UNCHANGED ofile
          /\ IF s.type[i] # "dir" THEN End(p, Iput(s, i)) /\ UNCHANGED cwd
             ELSE End(p, Iput(s, cwd[p])) /\ cwd' = [cwd EXCEPT ![p] = i]

Close(p) ==
  /\ iat[p] = "user" /\ ofile[p] # Nil
  /\ fs' = Iput(fs, ofile[p])
  /\ ofile' = [ofile EXCEPT ![p] = Nil]
  /\ UNCHANGED <<cwd, iat, cur, ip>>
-----------------------------------------------------------------------------
(* An entry is made, perhaps in a directory that has been removed. *)
Enter(s, d, n, i) ==
  [s EXCEPT !.ent[d][n] = i, !.lost = IF d \in s.removed THEN @ \cup {i} ELSE @ ]

(* ialloc and what create does with the new inode. *)
New(s, i, d, t) ==
  [s EXCEPT !.type[i] = t, !.nlink[i] = 1, !.ref[i] = @ + 1, !.valid[i] = TRUE,
            !.stray = @ \ {i},
            !.up[i] = IF t = "dir" THEN d ELSE Nil,
            !.nlink[d] = IF t = "dir" THEN @ + 1 ELSE @]

(* create: dp is unlocked before the inode that is there is locked. *)
Create(p, t, got, rest(_, _, _)) ==
  LET d == cur[p] s == Ilock(fs, d) IN
  /\ iat[p] = "walk" /\ ip[p] = Nil /\ fs.type[d] = "dir" /\ ~Locked(d)
  /\ \E n \in Names \cup {".."} :
       IF Lookup(s, d, n) # Nil
       THEN LET i == Lookup(s, d, n) IN
            Next1(p, Iput(Iget(Strays(s, i), i), d), got, i) /\ UNCHANGED ofile /\ UNCHANGED ip
       ELSE \E i \in Inums :
              /\ NoType(i) /\ \A j \in Inums : j < i => ~NoType(j)
              /\ rest(p, Iput(Enter(New(s, i, d, t), d, n, i), d), i)
  /\ UNCHANGED cwd

MkdirEnd(p, s, i) == End(p, Iput(s, i)) /\ UNCHANGED ofile

Creat(p) == Create(p, "file", "gotFile", Opened)
Mkdir(p) == Create(p, "dir", "gotDir", MkdirEnd)

(* What was there may have been removed meanwhile. *)
CreateGot(p) ==
  LET i == cur[p] s == Ilock(fs, i) IN
  /\ iat[p] \in {"gotFile", "gotDir"} /\ ~Locked(i)
  /\ IF NoType(i) THEN Panic(p)
     ELSE /\ UNCHANGED cwd
          /\ IF iat[p] = "gotFile" /\ s.type[i] = "file" THEN Opened(p, s, i)
             ELSE End(p, Iput(s, i)) /\ UNCHANGED ofile
-----------------------------------------------------------------------------
(* unlink up to the lock of the inode: dp stays locked. *)
UnlinkDir(p) ==
  LET d == cur[p] s == Ilock(fs, d) IN
  /\ iat[p] = "walk" /\ ip[p] = Nil /\ fs.type[d] = "dir" /\ ~Locked(d)
  /\ UNCHANGED <<cwd, ofile>>
  /\ \/ End(p, Iput(s, d))
     \/ \E n \in Names :
          /\ s.ent[d][n] # Nil
          /\ Next1(p, Iget(s, s.ent[d][n]), "unlinkIp", d)
          /\ ip' = [ip EXCEPT ![p] = s.ent[d][n]]

(* The entry, with the directory still locked, is taken out. *)
Remove(s, d, n, i) ==
  LET dir == s.type[i] = "dir" IN
  [s EXCEPT !.ent[d][n] = Nil, !.nlink[i] = @ - 1,
            !.nlink[d] = IF dir THEN @ - 1 ELSE @,
            !.removed = IF dir THEN @ \cup {i} ELSE @]

(* The rest: only an empty directory is removed, and its ".." counts no    *)
(* more.                                                                   *)
UnlinkIp(p) ==
  LET d == cur[p] i == ip[p] s == Ilock(fs, i) IN
  /\ iat[p] = "unlinkIp" /\ ~Locked(i)
  /\ UNCHANGED <<cwd, ofile>>
  /\ IF NoType(i) \/ s.nlink[i] < 1 THEN Panic(p)
     ELSE IF s.type[i] = "dir" /\ s.ent[i] # NoEntries THEN End(p, Iput(Iput(s, i), d))
     ELSE \E n \in Names : s.ent[d][n] = i /\ End(p, Iput(Iput(Remove(s, d, n, i), d), i))
-----------------------------------------------------------------------------
(* link counts the new name before it looks for its directory. *)
Link(p) ==
  LET i == cur[p] s == Ilock(fs, i) IN
  /\ iat[p] = "walk" /\ ip[p] = Nil /\ ~Locked(i) /\ fs.nlink[i] < MaxLinks
  /\ UNCHANGED <<cwd, ofile>>
  /\ IF NoType(i) THEN Panic(p)
     ELSE IF s.type[i] = "dir" THEN End(p, Iput(s, i))
     ELSE /\ ip' = [ip EXCEPT ![p] = i]
          /\ \E j \in {ROOTINO, cwd[p]} :
               Next1(p, Iget([s EXCEPT !.nlink[i] = @ + 1], j), "walk", j)

LinkNew(p) ==
  LET d == cur[p] i == ip[p] s == Ilock(fs, d) IN
  /\ iat[p] = "walk" /\ ip[p] # Nil /\ ~Locked(d) /\ ~NoType(d)
  /\ UNCHANGED <<cwd, ofile>>
  /\ \E n \in Names :
       LET there == s.ent[d][n] IN
       IF s.type[d] # "dir" THEN Fails(p, Iput(s, d))
       ELSE IF there # Nil THEN Fails(p, Iput(Iput(Iget(s, there), there), d))
       ELSE End(p, Iput(Iput(Enter(s, d, n, i), d), i))

\* Variant: the count is not taken back.
LinkBadKeeps(p) ==
  /\ iat[p] = "linkBad" /\ ~Locked(ip[p])
  /\ UNCHANGED <<cwd, ofile>>
  /\ End(p, Iput(fs, ip[p]))

LinkBad(p) ==
  LET i == ip[p] s == Ilock(fs, i) IN
  /\ iat[p] = "linkBad" /\ ~Locked(i)
  /\ UNCHANGED <<cwd, ofile>>
  /\ End(p, Iput([s EXCEPT !.nlink[i] = @ - 1], i))
-----------------------------------------------------------------------------
(* The table is gone; what had no name is never freed. *)
Crash ==
  /\ \A p \in Procs : iat[p] = "user"
  /\ fs' = [fs EXCEPT !.ref = [i \in Inums |-> IF i = ROOTINO THEN Cardinality(Procs) ELSE 0],
                      !.valid = [i \in Inums |-> FALSE],
                      !.lost = @ \cup {i \in Inums : fs.type[i] # "none" /\ fs.nlink[i] = 0}]
  /\ cwd' = [p \in Procs |-> ROOTINO] /\ ofile' = [p \in Procs |-> Nil]
  /\ UNCHANGED <<iat, cur, ip>>

Next ==
  /\ Running
  /\ \/ \E p \in Procs :
          \/ Call(p) \/ Walk(p) \/ Open(p) \/ Chdir(p) \/ Close(p) \/ Creat(p) \/ Mkdir(p) \/ CreateGot(p)
          \/ UnlinkDir(p) \/ UnlinkIp(p) \/ Link(p) \/ LinkNew(p) \/ LinkBad(p)
     \/ Crash

Spec == Init /\ [][Next]_inodeVars
-----------------------------------------------------------------------------
Named(i) == {e \in Inums \X Names : fs.ent[e[1]][e[2]] = i}
Children(i) == {c \in Inums \ {i} : fs.up[c] = i /\ c \notin fs.removed}

(* A reference count is the number of pointers there are.                  *)
RefsExact ==
  \A i \in Inums : fs.ref[i] =
    Cardinality({p \in Procs : cwd[p] = i}) + Cardinality({p \in Procs : ofile[p] = i})
    + Cardinality({p \in Procs : cur[p] = i}) + Cardinality({p \in Procs : ip[p] = i})

(* A link count is the number of entries, and for a directory of the ".."  *)
(* of its children, and of a link that is being made.                      *)
LinksExact ==
  \A i \in Inums \ fs.lost : fs.type[i] # "none" =>
    fs.nlink[i] = Cardinality(Named(i)) + Cardinality(Children(i))
      + (IF i = ROOTINO THEN 1 ELSE 0)
      + Cardinality({p \in Procs : ip[p] = i /\ iat[p] # "unlinkIp"})

(* A name leads to an inode that is allocated, and the ".." of a directory *)
(* to one that has it.                                                     *)
NamesAlive ==
  /\ \A d \in Inums, n \in Names : fs.ent[d][n] # Nil => fs.type[d] = "dir" /\ ~NoType(fs.ent[d][n])
  /\ \A d \in Inums : fs.type[d] = "dir" /\ d \notin fs.removed \cup fs.lost /\ d # ROOTINO =>
       \E n \in Names : fs.ent[fs.up[d]][n] = d

(* An inode that nobody can get to any more is free, but for two ways to   *)
(* lose one: it had no name when the system crashed, or it was made in a   *)
(* directory that had been removed.                                        *)
NothingLost ==
  \A i \in Inums : fs.type[i] # "none" /\ fs.ref[i] = 0 =>
    i = ROOTINO \/ i \in fs.lost \/ Named(i) # {} \/ (i \in fs.removed /\ fs.nlink[i] > 0)

(* All counts count what there is, nothing is lost, and the types.         *)
CountsExact == InodesTypeOK /\ RefsExact /\ LinksExact /\ NamesAlive /\ NothingLost

(* The kernel stops at a free inode only on the way up from a directory    *)
(* that has been removed, and never waits in a circle for two locks.       *)
PanicsOnlyAbove ==
  /\ \A p \in Procs : iat[p] = "panic" => NoType(cur[p]) /\ cur[p] \in fs.stray
  /\ \A p, q \in Procs : iat[p] = "unlinkIp" /\ iat[q] = "unlinkIp" => ~(ip[p] = cur[q] /\ ip[q] = cur[p])
=============================================================================
