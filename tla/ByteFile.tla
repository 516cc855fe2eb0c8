------------------------------ MODULE ByteFile ------------------------------
(***************************************************************************)
(* What read and write promise: a file is a sequence of bytes, an open     *)
(* file an offset into it, shared by all who have it.  A write puts its    *)
(* bytes in order, where the offset is, and nobody else uses the file in   *)
(* the middle of a piece.  A write that fails stops between two pieces of  *)
(* its bytes, and leaves those of the bytes it was to overwrite next that  *)
(* are in one block undefined.                                             *)
(***************************************************************************)
EXTENDS Naturals, Sequences

CONSTANTS Procs, Opens, Inodes, BSIZE, Sizes, Buffer, Torn, Nobody

VARIABLES ip,      \* the file of each open file, 0 if it is not open
          text,    \* the bytes of each file, Torn if undefined
          off,     \* the offset of each open file
          call,    \* the open file a process writes to, and what is still to be written
          holder   \* who writes a piece to a file, or truncates it

byteVars == <<ip, text, off, call, holder>>

NoCall == [f |-> 0, bytes |-> <<>>]

Init ==
  /\ ip = [o \in Opens |-> 0]
  /\ text = [i \in Inodes |-> <<>>]
  /\ off = [o \in Opens |-> 0]
  /\ call = [p \in Procs |-> NoCall]
  /\ holder = [i \in Inodes |-> Nobody]

Longer(m, n) == IF m < n THEN n ELSE m

(* The bytes t with s in them from the offset k on. *)
Overwritten(t, k, s) ==
  [j \in 1..Longer(Len(t), k + Len(s)) |-> IF j \in (k + 1)..(k + Len(s)) THEN s[j - k] ELSE t[j]]

Idle(p) == call[p] = NoCall /\ \A i \in Inodes : holder[i] # p

Open ==
  /\ \E o \in Opens, i \in Inodes : ip[o] = 0 /\ ip' = [ip EXCEPT ![o] = i]
  /\ UNCHANGED <<text, off, call, holder>>

IsOpen == {o \in Opens : ip[o] # 0}

(* The first piece of a write begins; another begins, or is refused, as    *)
(* when the file has become shorter than the offset.                       *)
Write(p) ==
  /\ Idle(p)
  /\ \E o \in IsOpen, n \in Sizes :
       /\ holder[ip[o]] = Nobody
       /\ holder' = [holder EXCEPT ![ip[o]] = p]
       /\ call' = [call EXCEPT ![p] = [f |-> o, bytes |-> SubSeq(Buffer, 1, n)]]
       /\ off[o] <= Len(text[ip[o]])
  /\ UNCHANGED <<ip, text, off>>

WriteOn(p) ==
  LET i == ip[call[p].f] IN
  /\ call[p] # NoCall /\ holder[i] = Nobody
  /\ \/ holder' = [holder EXCEPT ![i] = p] /\ off[call[p].f] <= Len(text[i]) /\ UNCHANGED call
     \/ call' = [call EXCEPT ![p] = NoCall] /\ UNCHANGED holder
  /\ UNCHANGED <<ip, text, off>>

Put(p) ==
  LET f == call[p].f bytes == call[p].bytes i == ip[call[p].f] IN
  /\ call[p] # NoCall /\ holder[i] = p
  /\ \E m \in 1..Len(bytes) :
       /\ off' = [off EXCEPT ![f] = @ + m]
       /\ text' = [text EXCEPT ![i] = Overwritten(@, off[f], SubSeq(bytes, 1, m))]
       /\ IF m = Len(bytes)
          THEN call' = [call EXCEPT ![p] = NoCall] /\ holder' = [holder EXCEPT ![i] = Nobody]
          ELSE /\ call' = [call EXCEPT ![p].bytes = SubSeq(bytes, m + 1, Len(bytes))]
               /\ holder' \in {holder, [holder EXCEPT ![i] = Nobody]}
  /\ UNCHANGED ip

(* A write fails, with bytes of the next block undefined from now on.      *)
Fail(p) ==
  LET f == call[p].f i == ip[call[p].f] IN
  /\ call[p] # NoCall /\ holder[i] = p
  /\ call' = [call EXCEPT ![p] = NoCall]
  /\ holder' = [holder EXCEPT ![i] = Nobody]
  /\ \E k \in off[f]..(off[f] + BSIZE - 1) :
       /\ (off[f] \div BSIZE) = k \div BSIZE
       /\ text' = [text EXCEPT ![i] = [j \in DOMAIN @ |-> IF j \in (off[f] + 1)..k THEN Torn ELSE @[j]]]
  /\ UNCHANGED <<ip, off>>

Read ==
  \E o \in IsOpen, n \in Sizes :
    /\ holder[ip[o]] = Nobody /\ off[o] < Len(text[ip[o]])
    /\ off' = [off EXCEPT ![o] = IF @ + n < Len(text[ip[o]]) THEN @ + n ELSE Len(text[ip[o]])]
    /\ UNCHANGED <<ip, text, call, holder>>

Truncate(p) ==
  /\ Idle(p)
  /\ \E i \in Inodes :
       /\ holder[i] = Nobody
       /\ holder' = [holder EXCEPT ![i] = p]
       /\ text' = [text EXCEPT ![i] = <<>>]
  /\ UNCHANGED <<ip, off, call>>

Truncated(p) ==
  /\ call[p] = NoCall
  /\ \E i \in Inodes : holder[i] = p /\ holder' = [holder EXCEPT ![i] = Nobody]
  /\ UNCHANGED <<ip, text, off, call>>

Crash ==
  /\ \A i \in Inodes : holder[i] = Nobody
  /\ off' = [o \in Opens |-> 0]
  /\ call' = [p \in Procs |-> NoCall]
  /\ UNCHANGED <<ip, text, holder>>

Next ==
  \/ \E p \in Procs : Write(p) \/ WriteOn(p) \/ Put(p) \/ Fail(p) \/ Truncate(p) \/ Truncated(p)
  \/ Open \/ Read \/ Crash

Spec == Init /\ [][Next]_byteVars
=============================================================================
