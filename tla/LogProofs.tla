----------------------------- MODULE LogProofs ------------------------------
(***************************************************************************)
(* Proofs about Log, for every number of processes, blocks and values,     *)
(* and every size of an operation and of the log.  The inductive invariant *)
(* is a conjunction of parts, with one lemma for each that goes through    *)
(* the actions.                                                            *)
(***************************************************************************)
EXTENDS Log, FiniteSetTheorems, FunctionTheorems, TLAPS

(* Who is where: nothing runs during recovery, nobody is in an operation   *)
(* during a commit, outstanding counts operations, and the buffer of a     *)
(* block is locked by one process that changes it, for one block.          *)
Committing == {"writeLog", "writeHead", "install", "erase", "finish"}
Places ==
  /\ phase \in Recovering =>
       /\ \A t \in Procs : pc[t] = "idle"
       /\ cache = disk
  /\ committing <=> phase \in Committing
  /\ committing => Active = {}
  /\ outstanding = Cardinality(Active)
  /\ \A t \in Procs \ Active : wrote[t] = {}
  /\ \A b \in Blocks : locked[b] # Nobody => pc[locked[b]] = "modified"
  /\ \A a, b \in Blocks : locked[a] # Nobody /\ locked[a] = locked[b] => a = b

(* The header on the disk and the one in memory, and the loop variable.    *)
Distinct(s) == \A i, j \in 1..Len(s) : s[i] = s[j] => i = j
Looping == {"writeLog", "install", "reinstall"}
Headers ==
  /\ Len(lh) <= LOGSIZE /\ Len(head) <= LOGSIZE
  /\ Distinct(lh) /\ Distinct(head)
  /\ phase \in {"run", "writeLog", "writeHead", "finish"} => head = <<>>
  /\ phase \in {"install", "erase", "reinstall", "clear"} => head = lh
  /\ phase \in {"readHead", "finish"} => lh = <<>>
  /\ phase = "run" /\ outstanding = 0 => lh = <<>>
  /\ phase \in Looping \cup {"writeHead"} => tail \in 1..Len(lh)
  /\ phase \notin Looping => tail = 1

(* How far write_log and install_trans have come.                          *)
Copies ==
  /\ phase = "writeLog" => \A i \in 1..(tail - 1) : logBlocks[i] = cache[lh[i]]
  /\ phase \in {"writeHead", "install"} => \A i \in 1..Len(lh) : logBlocks[i] = cache[lh[i]]
  /\ phase \in {"install", "reinstall"} => \A i \in 1..(tail - 1) : disk[lh[i]] = logBlocks[i]
  /\ phase \in {"erase", "clear"} => \A i \in 1..Len(lh) : disk[lh[i]] = logBlocks[i]

(* The blocks of the header are pinned, once each, until they are at home. *)
Awaited ==
  IF phase \in {"run", "writeLog", "writeHead", "panic"} THEN 1..Len(lh)
  ELSE IF phase = "install" THEN tail..Len(lh)
  ELSE {}
Pinned == \A b \in Blocks : pins[b] = IF \E i \in Awaited : lh[i] = b THEN 1 ELSE 0

(* The room begin_op leaves: what the operations under way may still log   *)
(* fits, block by block and all together.                                  *)
Logged == {x \in Procs \X Blocks : x[2] \in wrote[x[1]]}
Reserved ==
  /\ \A t \in Procs : IsFiniteSet(wrote[t]) /\ Cardinality(wrote[t]) <= MAXOPBLOCKS
  /\ phase \in {"run", "panic"} => \A t \in Procs : wrote[t] \subseteq Entries(lh)
  /\ \A t \in Procs, b \in Blocks :
       locked[b] = t => b \in wrote[t] \/ Cardinality(wrote[t]) < MAXOPBLOCKS
  /\ phase \in {"run", "panic"} =>
       Len(lh) + outstanding * MAXOPBLOCKS <= LOGSIZE + Cardinality(Logged)

LogInv ==
  /\ TypeOK /\ Places /\ Headers /\ Copies /\ Pinned /\ UnpinnedIsOnDisk
  /\ Reserved /\ SleepersHaveWakers
-----------------------------------------------------------------------------
(* A block appended to a header that does not have it yet.                 *)
LEMMA Appended ==
  ASSUME NEW s \in Seq(Blocks), NEW b \in Blocks
  PROVE  /\ Append(s, b) \in Seq(Blocks)
         /\ Len(Append(s, b)) = Len(s) + 1
         /\ \A i \in 1..Len(s) : Append(s, b)[i] = s[i]
         /\ Append(s, b)[Len(s) + 1] = b
         /\ Entries(Append(s, b)) = Entries(s) \cup {b}
         /\ Distinct(s) /\ b \notin Entries(s) => Distinct(Append(s, b))
<1>1. /\ Append(s, b) \in Seq(Blocks)
      /\ Len(Append(s, b)) = Len(s) + 1
      /\ \A i \in 1..Len(s) : Append(s, b)[i] = s[i]
      /\ Append(s, b)[Len(s) + 1] = b
  OBVIOUS
<1>2. Len(s) \in Nat
  OBVIOUS
<1>3. Entries(Append(s, b)) = Entries(s) \cup {b}
  BY <1>1, <1>2 DEF Entries
<1>4. ASSUME Distinct(s), b \notin Entries(s)
      PROVE  Distinct(Append(s, b))
  BY <1>1, <1>2, <1>4 DEF Distinct, Entries
<1> QED BY <1>1, <1>3, <1>4

(* Every variable keeps its type.                                          *)
LEMMA TypeStep ==
  ASSUME LogInv, [Next]_vars
  PROVE  TypeOK'
<1> USE LogConstants
<1> USE DEF diskVars, bufVars, opVars, logVars
<1>t. TypeOK
  BY DEF LogInv
<1>e. <<>> \in Seq(Blocks) /\ 1 \in 1..LOGSIZE
  OBVIOUS
<1>p. Recovering \subseteq Phases
      /\ {"run", "writeLog", "writeHead", "install", "erase", "finish", "panic"} \subseteq Phases
  BY DEF Recovering, Phases
<1>1. CASE UNCHANGED vars
  BY <1>1, <1>t DEF vars, TypeOK
<1>2. ASSUME NEW t \in Procs, Op(t) \/ CallBegin(t)
      PROVE  TypeOK'
  <2>1. CASE CallBegin(t) \/ BeginSleep(t)
    BY <2>1, <1>t DEF CallBegin, BeginSleep, TypeOK, PCs
  <2>2. CASE BeginOp(t)
    <3>1. outstanding' \in Nat /\ pc' \in [Procs -> PCs]
      BY <2>2, <1>t DEF BeginOp, TypeOK, PCs
    <3> QED BY <2>2, <3>1, <1>t DEF BeginOp, TypeOK
  <2>3. ASSUME NEW b \in Blocks, LogWrite(t, b)
        PROVE  TypeOK'
    <3>1. lh' \in Seq(Blocks)
      <4>1. lh \in Seq(Blocks) /\ lh' \in {lh, Append(lh, b)}
        BY <2>3, <1>t DEF LogWrite, TypeOK
      <4> QED BY <4>1, Appended
    <3>4. pins' \in [Blocks -> Nat]
      BY <2>3, <1>t DEF LogWrite, TypeOK
    <3>2. wrote' \in [Procs -> SUBSET Blocks] /\ pc' \in [Procs -> PCs]
      BY <2>3, <1>t DEF LogWrite, TypeOK, PCs
    <3>3. locked' \in [Blocks -> Procs \cup {Nobody}]
      BY <2>3, <1>t DEF LogWrite, TypeOK
    <3> QED BY <2>3, <3>1, <3>2, <3>3, <3>4, <1>t DEF LogWrite, TypeOK
  <2>4. CASE LogPanic(t)
    BY <2>4, <1>t, <1>p DEF LogPanic, TypeOK
  <2>5. CASE EndOp(t)
    <3>1. outstanding' \in Nat /\ wrote' \in [Procs -> SUBSET Blocks]
      BY <2>5, <1>t DEF EndOp, TypeOK
    <3>2. pc' \in [Procs -> PCs]
      BY <2>5, <1>t DEF EndOp, TypeOK, Woken, PCs
    <3> QED BY <2>5, <3>1, <3>2, <1>t DEF EndOp, TypeOK
  <2>6. CASE EndLastOp(t)
    <3>1. outstanding' \in Nat /\ wrote' \in [Procs -> SUBSET Blocks] /\ committing' \in BOOLEAN
      BY <2>6, <1>t DEF EndLastOp, TypeOK
    <3>2. pc' \in [Procs -> PCs] /\ phase' \in Phases
      BY <2>6, <1>t, <1>p DEF EndLastOp, TypeOK, PCs
    <3> QED BY <2>6, <3>1, <3>2, <1>t DEF EndLastOp, TypeOK
  <2> QED BY <1>2, <2>1, <2>2, <2>3, <2>4, <2>5, <2>6 DEF Op
<1>3. ASSUME NEW t \in Procs, NEW b \in Blocks, NEW v \in Values, Modify(t, b, v)
      PROVE  TypeOK'
  BY <1>3, <1>t DEF Modify, TypeOK, PCs
<1>4. ASSUME NEW b \in Blocks, Recycle(b)
      PROVE  TypeOK'
  BY <1>4, <1>t DEF Recycle, TypeOK
<1>5. CASE WriteLog \/ Install \/ Reinstall
  <2>0. PICK from \in {"writeLog", "install", "reinstall"}, to \in {"writeHead", "erase", "clear"} :
          Advance(from, to)
    BY <1>5 DEF WriteLog, Install, Reinstall
  <2>1. /\ lh[tail] \in Blocks /\ tail \in 1..LOGSIZE /\ tail' \in 1..LOGSIZE
        /\ phase' \in Phases
    BY <2>0, <1>t DEF Advance, TypeOK, LogInv, Headers, Phases, Recovering
  <2>2. logBlocks[tail] \in Values /\ cache[lh[tail]] \in Values
    BY <2>1, <1>t DEF TypeOK
  <2>3. CASE WriteLog
    BY <2>1, <2>2, <2>3, <1>t DEF WriteLog, TypeOK
  <2>4. CASE Install
    <3>1. pins[lh[tail]] = 1
      BY <2>4, <1>t, <2>1 DEF Install, Advance, LogInv, Pinned, Awaited, TypeOK
    <3> QED BY <2>1, <2>2, <2>4, <3>1, <1>t DEF Install, TypeOK
  <2>5. CASE Reinstall
    BY <2>1, <2>2, <2>5, <1>t DEF Reinstall, TypeOK
  <2> QED BY <1>5, <2>3, <2>4, <2>5
<1>6. CASE WriteHead \/ Erase \/ ReadHead \/ Clear
  BY <1>6, <1>t, <1>e, <1>p DEF WriteHead, Erase, ReadHead, Clear, Recovering, TypeOK
<1>7. CASE FinishCommit
  <2>1. pc' \in [Procs -> PCs]
    BY <1>7, <1>t DEF FinishCommit, TypeOK, Woken, PCs
  <2> QED BY <1>7, <2>1, <1>t, <1>p DEF FinishCommit, TypeOK
<1>8. CASE Crash
  <2>1. phase' \in Phases /\ pc' \in [Procs -> PCs] /\ wrote' \in [Procs -> SUBSET Blocks]
    BY <1>8, <1>p DEF Crash, Recovering, PCs
  <2> QED BY <1>8, <2>1, <1>t, <1>e DEF Crash, TypeOK
<1> QED BY <1>1, <1>2, <1>3, <1>4, <1>5, <1>6, <1>7, <1>8 DEF Next, Committer, Recovery

(* The operations under way are counted.                                   *)
LEMMA ActiveStep ==
  ASSUME LogInv, [Next]_vars
  PROVE  /\ (outstanding = Cardinality(Active))'
         /\ \A t \in Procs : BeginOp(t) => t \notin Active /\ Active' = Active \cup {t}
         /\ \A t \in Procs : EndOp(t) => t \in Active /\ Active' = Active \ {t}
         /\ \A t \in Procs : EndLastOp(t) => Active = {t} /\ Active' = {}
         /\ (\A t \in Procs : ~(BeginOp(t) \/ EndOp(t) \/ EndLastOp(t))) => Active' \in {Active, {}}
<1> USE LogConstants
<1>t. TypeOK /\ outstanding = Cardinality(Active)
  BY DEF LogInv, Places
<1>f. IsFiniteSet(Active)
  BY FS_Subset DEF Active
<1>1. ASSUME NEW t \in Procs, BeginOp(t)
      PROVE  t \notin Active /\ Active' = Active \cup {t} /\ outstanding' = Cardinality(Active')
  <2>1. t \notin Active /\ Active' = Active \cup {t}
    BY <1>1, <1>t DEF BeginOp, Active, TypeOK
  <2>2. Cardinality(Active') = Cardinality(Active) + 1
    BY <2>1, <1>f, FS_AddElement
  <2> QED BY <1>1, <1>t, <2>1, <2>2 DEF BeginOp
<1>2. ASSUME NEW t \in Procs, EndOp(t)
      PROVE  t \in Active /\ Active' = Active \ {t} /\ outstanding' = Cardinality(Active')
  <2>1. t \in Active /\ Active' = Active \ {t}
    BY <1>2, <1>t DEF EndOp, Active, TypeOK, Woken
  <2>2. Cardinality(Active') = Cardinality(Active) - 1
    BY <2>1, <1>f, FS_RemoveElement
  <2> QED BY <1>2, <1>t, <2>1, <2>2 DEF EndOp
<1>3. ASSUME NEW t \in Procs, EndLastOp(t)
      PROVE  Active = {t} /\ Active' = {} /\ outstanding' = Cardinality(Active')
  <2>1. t \in Active /\ Active' = Active \ {t}
    BY <1>3, <1>t DEF EndLastOp, Active, TypeOK
  <2>2. Cardinality(Active) = 1
    BY <1>3, <1>t DEF EndLastOp
  <2>3. Active = {t} /\ Active' = {}
    BY <2>1, <2>2, <1>f, FS_Singleton
  <2> QED BY <1>3, <2>3, FS_EmptySet DEF EndLastOp
<1>4. ASSUME \A t \in Procs : ~(BeginOp(t) \/ EndOp(t) \/ EndLastOp(t))
      PROVE  Active' \in {Active, {}} /\ outstanding' = Cardinality(Active')
  <2>1. CASE UNCHANGED vars
    BY <2>1, <1>t DEF vars, Active
  <2>2. ASSUME NEW t \in Procs,
               \/ CallBegin(t) \/ BeginSleep(t) \/ LogPanic(t)
               \/ \E b \in Blocks : LogWrite(t, b) \/ \E v \in Values : Modify(t, b, v)
        PROVE  Active' = Active /\ outstanding' = outstanding
    BY <2>2, <1>t DEF CallBegin, BeginSleep, LogPanic, LogWrite, Modify, Active, TypeOK, opVars, logVars
  <2>3. CASE FinishCommit
    BY <2>3, <1>t DEF FinishCommit, Active, TypeOK, Woken
  <2>4. CASE (\E b \in Blocks : Recycle(b)) \/ WriteLog \/ WriteHead \/ Install \/ Erase \/ Recovery
    BY <2>4, <1>t DEF Recycle, WriteLog, WriteHead, Install, Erase, Recovery, ReadHead, Reinstall,
                      Clear, Active, opVars, logVars
  <2>5. CASE Crash
    BY <2>5, FS_EmptySet DEF Crash, Active
  <2> QED BY <1>4, <1>t, <2>1, <2>2, <2>3, <2>4, <2>5 DEF Next, Op, Committer
<1>5. (outstanding = Cardinality(Active))'
  BY <1>1, <1>2, <1>3, <1>4
<1> QED BY <1>1, <1>2, <1>3, <1>4, <1>5

(* Recovery and commit are alone, and a buffer has one user.               *)
LEMMA PlacesStep ==
  ASSUME LogInv, [Next]_vars
  PROVE  Places'
<1> USE LogConstants
<1> USE DEF diskVars, bufVars, opVars, logVars
<1>t. TypeOK /\ Places
  BY DEF LogInv
<1>o. (outstanding = Cardinality(Active))'
  BY ActiveStep
<1>1. CASE UNCHANGED vars
  BY <1>1, <1>t DEF vars, Places, Active
<1>2. ASSUME NEW t \in Procs, CallBegin(t) \/ BeginSleep(t) \/ BeginOp(t)
      PROVE  Places'
  <2>1. /\ UNCHANGED <<phase, committing, cache, disk, locked, wrote>>
        /\ Active' \subseteq Active \cup {t} /\ Active \subseteq Active'
        /\ phase \notin Recovering
        /\ BeginOp(t) => ~committing
    BY <1>2, <1>t DEF CallBegin, BeginSleep, BeginOp, Running, Active, TypeOK
  <2>2. ~BeginOp(t) => Active' = Active
    BY <1>2, <1>t DEF CallBegin, BeginSleep, Active, TypeOK
  <2>3. \A b \in Blocks : locked[b] # Nobody => pc'[locked[b]] = "modified"
    BY <1>2, <1>t DEF CallBegin, BeginSleep, BeginOp, TypeOK, Places
  <2> QED BY <1>o, <1>t, <2>1, <2>2, <2>3 DEF Places
<1>3. ASSUME NEW t \in Procs, NEW b \in Blocks, NEW v \in Values, Modify(t, b, v)
      PROVE  Places'
  <2>1. /\ UNCHANGED <<phase, committing, wrote>> /\ phase \notin Recovering
        /\ Active' = Active
    BY <1>3, <1>t DEF Modify, Running, Active, TypeOK
  <2>2. \A c \in Blocks : locked'[c] = IF c = b THEN t ELSE locked[c]
    BY <1>3, <1>t DEF Modify, TypeOK
  <2>3. \A u \in Procs : pc'[u] = IF u = t THEN "modified" ELSE pc[u]
    BY <1>3, <1>t DEF Modify, TypeOK
  <2>4. \A c \in Blocks : locked[c] # t
    BY <1>3, <1>t DEF Modify, TypeOK, Places
  <2>5. ASSUME NEW c \in Blocks, locked'[c] # Nobody
        PROVE  pc'[locked'[c]] = "modified"
    <3>1. CASE c = b
      BY <2>2, <2>3, <3>1
    <3>2. CASE c # b
      <4>1. locked[c] \in Procs /\ pc[locked[c]] = "modified" /\ locked'[c] = locked[c]
        BY <2>2, <2>5, <3>2, <1>t DEF Places, TypeOK
      <4> QED BY <2>3, <4>1
    <3> QED BY <3>1, <3>2
  <2> QED BY <1>o, <1>t, <2>1, <2>2, <2>4, <2>5 DEF Places
<1>4. ASSUME NEW t \in Procs, NEW b \in Blocks, LogWrite(t, b)
      PROVE  Places'
  <2>1. /\ UNCHANGED <<phase, committing>> /\ phase \notin Recovering
        /\ Active' = Active /\ t \in Active
    BY <1>4, <1>t DEF LogWrite, Running, Active, TypeOK
  <2>2. \A c \in Blocks : locked'[c] = IF c = b THEN Nobody ELSE locked[c]
    BY <1>4, <1>t DEF LogWrite, TypeOK
  <2>3. \A u \in Procs \ {t} : pc'[u] = pc[u] /\ wrote'[u] = wrote[u]
    BY <1>4, <1>t DEF LogWrite, TypeOK
  <2>4. \A c \in Blocks : c # b => locked[c] # t
    BY <1>4, <1>t DEF LogWrite, TypeOK, Places
  <2>5. \A c \in Blocks : locked'[c] # Nobody => pc'[locked'[c]] = "modified"
    BY <2>2, <2>3, <2>4, <1>t DEF Places, TypeOK
  <2> QED BY <1>o, <1>t, <2>1, <2>2, <2>3, <2>5 DEF Places
<1>5. ASSUME NEW t \in Procs, LogPanic(t)
      PROVE  Places'
  <2>1. /\ UNCHANGED <<cache, disk, locked, wrote, committing, pc>> /\ phase' = "panic"
        /\ t \in Active /\ Active' = Active
    BY <1>5 DEF LogPanic, Active
  <2> QED BY <1>o, <1>t, <2>1 DEF Places, Recovering, Committing
<1>6. ASSUME NEW t \in Procs, EndOp(t) \/ EndLastOp(t)
      PROVE  Places'
  <2>0. t \in Active /\ Active' = Active \ {t} /\ (EndLastOp(t) => Active' = {})
    <3>1. /\ EndOp(t) => t \in Active /\ Active' = Active \ {t}
          /\ EndLastOp(t) => Active = {t} /\ Active' = {}
      BY ActiveStep
    <3> QED BY <1>6, <3>1
  <2>1. /\ UNCHANGED <<cache, disk, locked>> /\ phase \notin Recovering
        /\ t \in Active /\ Active' = Active \ {t}
        /\ committing' => Active' = {}
    BY <1>6, <1>t, <2>0 DEF EndOp, EndLastOp, Running, Places
  <2>2. /\ phase' \notin Recovering
        /\ committing' <=> phase' \in Committing
    BY <1>6, <1>t DEF EndOp, EndLastOp, Running, Places, Recovering, Committing
  <2>3. \A u \in Procs : wrote'[u] = IF u = t THEN {} ELSE wrote[u]
    BY <1>6, <1>t DEF EndOp, EndLastOp, TypeOK
  <2>4. \A c \in Blocks : locked[c] # Nobody => pc'[locked[c]] = "modified"
    BY <1>6, <1>t DEF EndOp, EndLastOp, Woken, TypeOK, Places
  <2> QED BY <1>o, <1>t, <2>1, <2>2, <2>3, <2>4 DEF Places
<1>7. ASSUME NEW b \in Blocks, Recycle(b)
      PROVE  Places'
  BY <1>7, <1>o, <1>t DEF Recycle, Running, Places, Active
<1>8. CASE WriteLog \/ WriteHead \/ Install \/ Erase
  <2>1. /\ UNCHANGED <<locked, wrote, pc, committing>>
        /\ phase \in Committing /\ phase' \in Committing
        /\ Active' = Active
    BY <1>8, <1>t DEF WriteLog, WriteHead, Install, Erase, Advance, Committing, Active
  <2>2. phase' \notin Recovering
    BY <2>1 DEF Committing, Recovering
  <2> QED BY <1>o, <1>t, <2>1, <2>2 DEF Places
<1>9. CASE FinishCommit
  <2>1. /\ UNCHANGED <<cache, disk, locked, wrote>>
        /\ phase = "finish" /\ phase' = "run" /\ ~committing'
    BY <1>9 DEF FinishCommit
  <2>2. Active = {} /\ Active' = {}
    BY <1>9, <1>t, <2>1 DEF FinishCommit, Places, Active, TypeOK, Woken, Committing
  <2>3. \A c \in Blocks : locked[c] = Nobody
    BY <1>t, <2>2 DEF Places, Active, TypeOK
  <2> QED BY <1>o, <1>t, <2>1, <2>2, <2>3 DEF Places, Recovering, Committing
<1>10. CASE Recovery
  <2>1. /\ UNCHANGED <<locked, wrote, pc, committing>>
        /\ phase \in Recovering /\ phase' \in Recovering \cup {"run"}
        /\ Active' = Active
    BY <1>10, <1>t DEF Recovery, ReadHead, Reinstall, Clear, Advance, Recovering, Active
  <2>2. cache' = disk'
    BY <1>10, <1>t, <2>1 DEF Recovery, ReadHead, Reinstall, Clear, Places
  <2>3. ~committing /\ phase' \notin Committing
    BY <1>t, <2>1 DEF Places, Recovering, Committing
  <2> QED BY <1>o, <1>t, <2>1, <2>2, <2>3 DEF Places
<1>11. CASE Crash
  <2>1. Active' = {}
    BY <1>11 DEF Crash, Active
  <2> QED BY <1>11, <1>o, <2>1 DEF Crash, Places, Recovering, Committing
<1> QED BY <1>1, <1>2, <1>3, <1>4, <1>5, <1>6, <1>7, <1>8, <1>9, <1>10, <1>11 DEF Next, Op, Committer

(* Operations are under way only while the log is open.                    *)
LEMMA OpenLog ==
  ASSUME TypeOK, Places, Running, ~committing
  PROVE  phase = "run" /\ tail \in Nat
BY DEF TypeOK, Places, Running, Phases, Recovering, Committing

(* The steps of a loop: tail is the index of an entry, and grows by one or *)
(* is reset with the phase.                                                *)
LEMMA LoopStep ==
  ASSUME TypeOK, Headers, NEW from, NEW to, Advance(from, to)
  PROVE  /\ Len(lh) \in Nat /\ tail \in 1..Len(lh) /\ lh[tail] \in Blocks
         /\ \/ tail < Len(lh) /\ phase' = from /\ tail' = tail + 1
            \/ tail = Len(lh) /\ phase' = to /\ tail' = 1
BY DEF TypeOK, Advance

(* The header on the disk names what the transaction has, from its commit  *)
(* to its end, and nothing at other times.                                 *)
LEMMA HeadersStep ==
  ASSUME LogInv, [Next]_vars
  PROVE  Headers'
<1> USE LogConstants
<1> USE DEF diskVars, bufVars, opVars, logVars
<1>t. TypeOK /\ Places /\ Headers
  BY DEF LogInv
<1>0. Len(lh) \in Nat /\ Len(head) \in Nat /\ Len(<<>>) = 0 /\ Distinct(<<>>)
      /\ (lh # <<>> => Len(lh) >= 1) /\ (head # <<>> => Len(head) >= 1)
  BY <1>t DEF TypeOK, Distinct
<1>1. CASE UNCHANGED vars
  BY <1>1, <1>t DEF vars, Headers, Distinct
<1>2. ASSUME NEW t \in Procs,
             CallBegin(t) \/ BeginSleep(t) \/ \E b \in Blocks, v \in Values : Modify(t, b, v)
      PROVE  Headers'
  BY <1>2, <1>t DEF CallBegin, BeginSleep, Modify, Headers, Distinct
<1>3. ASSUME NEW t \in Procs, BeginOp(t)
      PROVE  Headers'
  BY <1>3, <1>t DEF BeginOp, Headers, Distinct, TypeOK
<1>4. ASSUME NEW t \in Procs, NEW b \in Blocks, LogWrite(t, b)
      PROVE  Headers'
  <2>1. phase = "run" /\ outstanding # 0
    <3>1. t \in Active
      BY <1>4 DEF LogWrite, Active
    <3>2. phase = "run"
      BY <3>1, <1>4, <1>t, OpenLog DEF LogWrite, Places
    <3> QED BY <3>1, <3>2, <1>t, FS_EmptySet, FS_Subset DEF Places, Active
  <2>2. Len(lh') <= LOGSIZE /\ Distinct(lh')
    <3>1. CASE b \in Entries(lh)
      BY <1>4, <1>t, <3>1 DEF LogWrite, Headers
    <3>2. CASE b \notin Entries(lh)
      <4>1. lh' = Append(lh, b) /\ Len(lh) + 1 <= LOGSIZE
        BY <1>4, <1>0, <3>2 DEF LogWrite, TooBig
      <4>2. lh \in Seq(Blocks) /\ Distinct(lh)
        BY <1>t DEF TypeOK, Headers
      <4>3. Len(lh') = Len(lh) + 1 /\ Distinct(lh')
        BY <3>2, <4>1, <4>2, Appended
      <4> QED BY <4>1, <4>3
    <3> QED BY <3>1, <3>2
  <2> QED BY <1>4, <1>t, <2>1, <2>2 DEF LogWrite, Headers, Looping, Distinct
<1>5. ASSUME NEW t \in Procs, LogPanic(t)
      PROVE  Headers'
  <2>1. phase = "run"
    BY <1>5, <1>t, OpenLog DEF LogPanic, Places, Active
  <2> QED BY <1>5, <1>t, <2>1 DEF LogPanic, Headers, Looping, Distinct
<1>6. ASSUME NEW t \in Procs, EndOp(t) \/ EndLastOp(t)
      PROVE  Headers'
  <2>1. phase = "run"
    BY <1>6, <1>t, OpenLog DEF EndOp, EndLastOp, Places, Active
  <2>2. CASE EndOp(t)
    BY <2>1, <2>2, <1>t DEF EndOp, Headers, Distinct, TypeOK
  <2>3. CASE EndLastOp(t)
    BY <2>1, <2>3, <1>t, <1>0 DEF EndLastOp, Headers, Looping, Distinct
  <2> QED BY <1>6, <2>2, <2>3
<1>7. ASSUME NEW b \in Blocks, Recycle(b)
      PROVE  Headers'
  BY <1>7, <1>t DEF Recycle, Headers, Distinct
<1>8. CASE WriteLog
  BY <1>8, <1>t, LoopStep DEF WriteLog, Advance, Headers, Looping, Distinct
<1>9. CASE Install
  BY <1>9, <1>t, LoopStep DEF Install, Advance, Headers, Looping, Distinct
<1>10. CASE Reinstall
  BY <1>10, <1>t, LoopStep DEF Reinstall, Advance, Headers, Looping, Distinct
<1>11. CASE WriteHead
  BY <1>11, <1>t DEF WriteHead, Headers, Looping, Distinct
<1>12. CASE Erase \/ Clear
  BY <1>12, <1>t, <1>0 DEF Erase, Clear, Headers, Looping, Distinct
<1>13. CASE FinishCommit
  BY <1>13, <1>t DEF FinishCommit, Headers, Looping, Distinct
<1>14. CASE ReadHead
  BY <1>14, <1>t, <1>0 DEF ReadHead, Headers, Looping, Distinct
<1>15. CASE Crash
  BY <1>15, <1>t, <1>0 DEF Crash, Headers, Looping, Distinct
<1> QED BY <1>1, <1>2, <1>3, <1>4, <1>5, <1>6, <1>7, <1>8, <1>9, <1>10, <1>11, <1>12, <1>13, <1>14,
           <1>15 DEF Next, Op, Committer, Recovery

(* The log has what the cache has, and the disk what the log has, as far   *)
(* as write_log and install_trans have come.                               *)
LEMMA CopiesStep ==
  ASSUME LogInv, [Next]_vars
  PROVE  Copies'
<1> USE LogConstants
<1> USE DEF diskVars, bufVars, opVars, logVars
<1>t. TypeOK /\ Places /\ Headers /\ Copies
  BY DEF LogInv
<1>0. Len(lh) \in Nat /\ (\A i \in 1..Len(lh) : lh[i] \in Blocks) /\ Len(lh) <= LOGSIZE
  BY <1>t DEF TypeOK, Headers
<1>1. CASE UNCHANGED vars
  BY <1>1, <1>t DEF vars, Copies
<1>2. ASSUME NEW t \in Procs, Op(t) \/ CallBegin(t) \/ \E b \in Blocks, v \in Values : Modify(t, b, v)
      PROVE  Copies'
  <2>1. CASE CallBegin(t) \/ BeginSleep(t) \/ BeginOp(t)
    BY <2>1, <1>t DEF CallBegin, BeginSleep, BeginOp, Copies
  <2>2. CASE ~(CallBegin(t) \/ BeginSleep(t) \/ BeginOp(t))
    <3>1. t \in Active /\ Running
      BY <1>2, <2>2 DEF Op, LogWrite, LogPanic, EndOp, EndLastOp, Modify, Active
    <3>2. phase = "run" /\ tail = 1
      BY <3>1, <1>t, OpenLog DEF Places, Headers, Looping
    <3>3. phase' \in {"run", "panic", "finish", "writeLog"} /\ tail' = 1
      BY <1>2, <2>2, <3>2 DEF Op, LogWrite, LogPanic, EndOp, EndLastOp, Modify
    <3> QED BY <3>3 DEF Copies
  <2> QED BY <2>1, <2>2
<1>3. ASSUME NEW b \in Blocks, Recycle(b)
      PROVE  Copies'
  <2>1. cache'[b] = disk[b] /\ disk[b] = cache[b]
    BY <1>3, <1>t DEF Recycle, LogInv, UnpinnedIsOnDisk, TypeOK
  <2>2. cache' = cache
    BY <1>3, <2>1, <1>t DEF Recycle, TypeOK
  <2> QED BY <1>3, <1>t, <2>2 DEF Recycle, Copies
<1>4. CASE WriteLog
  <2>1. /\ phase = "writeLog" /\ tail \in 1..Len(lh)
        /\ \/ tail < Len(lh) /\ phase' = "writeLog" /\ tail' = tail + 1
           \/ tail = Len(lh) /\ phase' = "writeHead" /\ tail' = 1
    BY <1>4, <1>t, LoopStep DEF WriteLog, Advance
  <2>2. \A i \in 1..tail : logBlocks'[i] = cache[lh[i]]
    BY <1>4, <1>0, <1>t, <2>1 DEF WriteLog, Copies, TypeOK
  <2> QED BY <1>4, <1>0, <2>1, <2>2 DEF WriteLog, Copies
<1>5. CASE WriteHead
  BY <1>5, <1>t DEF WriteHead, Copies, Headers, Looping
<1>6. CASE Install \/ Reinstall
  <2>0. Advance("install", "erase") \/ Advance("reinstall", "clear")
    BY <1>6 DEF Install, Reinstall
  <2>1. /\ tail \in 1..Len(lh) /\ phase \in {"install", "reinstall"}
        /\ \/ tail < Len(lh) /\ phase' = phase /\ tail' = tail + 1
           \/ tail = Len(lh) /\ phase' \in {"erase", "clear"} /\ tail' = 1
    BY <2>0, <1>t, LoopStep DEF Advance
  <2>2. \A i \in 1..tail : disk'[lh[i]] = logBlocks[i]
    <3>1. disk' = [disk EXCEPT ![lh[tail]] = logBlocks[tail]]
      BY <1>6 DEF Install, Reinstall
    <3>2. disk'[lh[tail]] = logBlocks[tail]
      BY <1>0, <1>t, <2>1, <3>1 DEF TypeOK
    <3>3. ASSUME NEW i \in 1..(tail - 1)
          PROVE  disk'[lh[i]] = logBlocks[i]
      <4>1. i \in 1..Len(lh) /\ i # tail
        BY <1>0, <2>1
      <4>2. lh[i] # lh[tail]
        BY <1>t, <2>1, <4>1 DEF Headers, Distinct
      <4>3. disk'[lh[i]] = disk[lh[i]]
        BY <1>0, <1>t, <3>1, <4>1, <4>2 DEF TypeOK
      <4> QED BY <1>t, <2>1, <4>3 DEF Copies
    <3> QED BY <1>0, <2>1, <3>2, <3>3
  <2>3. phase = "install" => \A i \in 1..Len(lh) : cache'[lh[i]] = logBlocks[i]
    BY <1>6, <1>0, <1>t, <2>1 DEF Install, Reinstall, Advance, Copies, Headers, Distinct, TypeOK
  <2>4. lh' = lh /\ logBlocks' = logBlocks
    BY <1>6 DEF Install, Reinstall
  <2> QED BY <1>0, <2>1, <2>2, <2>3, <2>4 DEF Copies
<1>7. CASE ReadHead
  <2>1. head' = head /\ disk' = disk /\ tail' = 1 /\ phase' \in {"reinstall", "clear"}
        /\ (phase' = "clear" => Len(lh') = 0)
    BY <1>7, <1>t DEF ReadHead, Headers, Looping
  <2> QED BY <2>1 DEF Copies
<1>8. CASE Erase \/ Clear \/ FinishCommit \/ Crash
  BY <1>8 DEF Erase, Clear, FinishCommit, Crash, Copies
<1> QED BY <1>1, <1>2, <1>3, <1>4, <1>5, <1>6, <1>7, <1>8 DEF Next, Committer, Recovery

(* A block has a pin from log_write until it is at home.                   *)
LEMMA PinnedStep ==
  ASSUME LogInv, [Next]_vars
  PROVE  Pinned'
<1> USE LogConstants
<1> USE DEF diskVars, bufVars, opVars, logVars
<1>t. TypeOK /\ Places /\ Headers /\ Pinned
  BY DEF LogInv
<1>0. Len(lh) \in Nat /\ (\A i \in 1..Len(lh) : lh[i] \in Blocks) /\ Len(<<>>) = 0
  BY <1>t DEF TypeOK
<1>1. CASE UNCHANGED vars
  BY <1>1, <1>t DEF vars, Pinned, Awaited
<1>2. ASSUME NEW t \in Procs,
             \/ CallBegin(t) \/ BeginSleep(t) \/ BeginOp(t) \/ EndOp(t)
             \/ \E b \in Blocks, v \in Values : Modify(t, b, v)
      PROVE  Pinned'
  BY <1>2, <1>t DEF CallBegin, BeginSleep, BeginOp, EndOp, Modify, Pinned, Awaited
<1>3. ASSUME NEW t \in Procs, NEW b \in Blocks, LogWrite(t, b)
      PROVE  Pinned'
  <2>1. phase = "run" /\ phase' = "run"
    BY <1>3, <1>t, OpenLog DEF LogWrite, Places, Active
  <2>2. CASE b \in Entries(lh)
    BY <1>3, <1>t, <2>1, <2>2 DEF LogWrite, Pinned, Awaited
  <2>3. CASE b \notin Entries(lh)
    <3>1. lh' = Append(lh, b) /\ pins' = [pins EXCEPT ![b] = @ + 1]
      BY <1>3, <2>3 DEF LogWrite
    <3>2. Entries(lh') = Entries(lh) \cup {b}
      BY <1>t, <3>1, Appended DEF TypeOK
    <3>3. \A c \in Blocks : pins[c] = IF c \in Entries(lh) THEN 1 ELSE 0
      BY <1>t, <2>1 DEF Pinned, Awaited, Entries
    <3>4. \A c \in Blocks : pins'[c] = IF c \in Entries(lh') THEN 1 ELSE 0
      BY <1>t, <2>3, <3>1, <3>2, <3>3 DEF TypeOK
    <3> QED BY <2>1, <3>4 DEF Pinned, Awaited, Entries
  <2> QED BY <2>2, <2>3
<1>4. ASSUME NEW t \in Procs, LogPanic(t) \/ EndLastOp(t)
      PROVE  Pinned'
  <2>1. phase = "run"
    BY <1>4, <1>t, OpenLog DEF LogPanic, EndLastOp, Places, Active
  <2> QED BY <1>4, <1>t, <1>0, <2>1 DEF LogPanic, EndLastOp, Pinned, Awaited
<1>5. ASSUME NEW b \in Blocks, Recycle(b)
      PROVE  Pinned'
  BY <1>5, <1>t DEF Recycle, Pinned, Awaited
<1>6. CASE WriteLog \/ WriteHead
  BY <1>6, <1>t DEF WriteLog, WriteHead, Advance, Pinned, Awaited, Headers, Looping
<1>7. CASE Install
  <2>1. /\ phase = "install" /\ tail \in 1..Len(lh)
        /\ \/ tail < Len(lh) /\ phase' = "install" /\ tail' = tail + 1
           \/ tail = Len(lh) /\ phase' = "erase"
    BY <1>7, <1>t, LoopStep DEF Install, Advance
  <2>2. Awaited = tail..Len(lh) /\ Awaited' = (tail + 1)..Len(lh)
    BY <1>0, <1>7, <2>1 DEF Awaited, Install
  <2>3. \A c \in Blocks : pins'[c] = IF c = lh[tail] THEN pins[c] - 1 ELSE pins[c]
    BY <1>0, <1>7, <1>t, <2>1 DEF Install, TypeOK
  <2>4. ASSUME NEW c \in Blocks
        PROVE  pins'[c] = IF \E i \in (tail + 1)..Len(lh) : lh[i] = c THEN 1 ELSE 0
    <3>1. pins[c] = IF \E i \in tail..Len(lh) : lh[i] = c THEN 1 ELSE 0
      BY <1>t, <2>2 DEF Pinned
    <3>2. CASE c = lh[tail]
      <4>1. ~\E i \in (tail + 1)..Len(lh) : lh[i] = c
        BY <1>0, <1>t, <2>1, <3>2 DEF Headers, Distinct
      <4>2. pins[c] = 1
        BY <1>0, <2>1, <3>1, <3>2
      <4> QED BY <2>3, <3>2, <4>1, <4>2
    <3>3. CASE c # lh[tail]
      <4>1. (\E i \in (tail + 1)..Len(lh) : lh[i] = c) <=> \E i \in tail..Len(lh) : lh[i] = c
        BY <1>0, <2>1, <3>3
      <4> QED BY <2>3, <3>1, <3>3, <4>1
    <3> QED BY <3>2, <3>3
  <2> QED BY <1>7, <2>2, <2>4 DEF Pinned, Install
<1>8. CASE Erase \/ FinishCommit \/ Recovery
  <2>1. phase \notin {"run", "writeLog", "writeHead", "panic", "install"}
    BY <1>8 DEF Erase, FinishCommit, Recovery, ReadHead, Reinstall, Clear, Advance
  <2>2. \A c \in Blocks : pins[c] = 0
    BY <1>t, <2>1 DEF Pinned, Awaited
  <2>3. pins' = pins
    BY <1>8 DEF Erase, FinishCommit, Recovery, ReadHead, Reinstall, Clear
  <2>4. Awaited' = {}
    BY <1>8, <1>0, <1>t DEF Erase, FinishCommit, Recovery, ReadHead, Reinstall, Clear, Advance,
                       Awaited, Headers
  <2> QED BY <2>2, <2>3, <2>4 DEF Pinned
<1>9. CASE Crash
  BY <1>9 DEF Crash, Pinned, Awaited
<1> QED BY <1>1, <1>2, <1>3, <1>4, <1>5, <1>6, <1>7, <1>8, <1>9 DEF Next, Op, Committer

(* What is in memory only is pinned or in use.                             *)
LEMMA UnpinnedStep ==
  ASSUME LogInv, [Next]_vars
  PROVE  UnpinnedIsOnDisk'
<1> USE LogConstants
<1> USE DEF diskVars, bufVars, opVars, logVars
<1>t. TypeOK /\ Places /\ Headers /\ Pinned /\ UnpinnedIsOnDisk
  BY DEF LogInv
<1>0. Len(lh) \in Nat /\ (\A i \in 1..Len(lh) : lh[i] \in Blocks)
  BY <1>t DEF TypeOK
<1>1. CASE UNCHANGED vars
  BY <1>1, <1>t DEF vars, UnpinnedIsOnDisk, Running
<1>2. ASSUME NEW t \in Procs, CallBegin(t) \/ BeginSleep(t) \/ BeginOp(t) \/ EndOp(t) \/ EndLastOp(t)
      PROVE  UnpinnedIsOnDisk'
  BY <1>2, <1>t DEF CallBegin, BeginSleep, BeginOp, EndOp, EndLastOp, UnpinnedIsOnDisk, Running
<1>3. ASSUME NEW t \in Procs, LogPanic(t)
      PROVE  UnpinnedIsOnDisk'
  BY <1>3 DEF LogPanic, UnpinnedIsOnDisk, Running
<1>4. ASSUME NEW t \in Procs, NEW b \in Blocks, NEW v \in Values, Modify(t, b, v)
      PROVE  UnpinnedIsOnDisk'
  <2>1. /\ \A c \in Blocks : locked'[c] = (IF c = b THEN t ELSE locked[c])
        /\ \A c \in Blocks : cache'[c] = (IF c = b THEN v ELSE cache[c])
    BY <1>4, <1>t DEF Modify, TypeOK
  <2> QED BY <1>4, <1>t, <2>1 DEF Modify, UnpinnedIsOnDisk, Running
<1>5. ASSUME NEW t \in Procs, NEW b \in Blocks, LogWrite(t, b)
      PROVE  UnpinnedIsOnDisk'
  <2>1. phase = "run"
    BY <1>5, <1>t, OpenLog DEF LogWrite, Places, Active
  <2>2. pins'[b] # 0
    <3>1. Awaited = 1..Len(lh)
      BY <2>1 DEF Awaited
    <3>2. CASE b \in Entries(lh)
      <4>1. \E i \in Awaited : lh[i] = b
        BY <3>1, <3>2 DEF Entries
      <4>2. pins[b] = 1
        BY <1>t, <4>1 DEF Pinned
      <4> QED BY <1>5, <3>2, <4>2 DEF LogWrite
    <3>3. CASE b \notin Entries(lh)
      <4>1. pins[b] \in {0, 1} /\ pins \in [Blocks -> Nat]
        BY <1>t DEF Pinned, TypeOK
      <4>2. pins'[b] = pins[b] + 1
        BY <1>5, <3>3, <4>1 DEF LogWrite
      <4> QED BY <4>1, <4>2
    <3> QED BY <3>2, <3>3
  <2>3. \A c \in Blocks \ {b} : pins'[c] = pins[c] /\ locked'[c] = locked[c]
    BY <1>5, <1>t DEF LogWrite, TypeOK
  <2> QED BY <1>5, <1>t, <2>2, <2>3 DEF LogWrite, UnpinnedIsOnDisk, Running
<1>6. ASSUME NEW b \in Blocks, Recycle(b)
      PROVE  UnpinnedIsOnDisk'
  BY <1>6, <1>t DEF Recycle, UnpinnedIsOnDisk, Running, TypeOK
<1>7. CASE WriteLog \/ WriteHead \/ Erase \/ FinishCommit
  <2>1. Running
    BY <1>7 DEF WriteLog, WriteHead, Erase, FinishCommit, Advance, Running, Recovering
  <2> QED BY <1>7, <1>t, <2>1 DEF WriteLog, WriteHead, Erase, FinishCommit, UnpinnedIsOnDisk
<1>8. CASE Install
  <2>1. Running /\ lh[tail] \in Blocks
    BY <1>8, <1>t, LoopStep DEF Install, Advance, Running, Recovering
  <2>2. \A c \in Blocks \ {lh[tail]} : pins'[c] = pins[c] /\ cache'[c] = cache[c] /\ disk'[c] = disk[c]
    BY <1>8, <1>t, <2>1 DEF Install, TypeOK
  <2>3. cache'[lh[tail]] = disk'[lh[tail]]
    BY <1>8, <1>t, <2>1 DEF Install, TypeOK
  <2> QED BY <1>8, <1>t, <2>1, <2>2, <2>3 DEF Install, UnpinnedIsOnDisk
<1>9. CASE Recovery
  <2>1. cache' = disk'
    <3>1. phase \in Recovering
      BY <1>9 DEF Recovery, ReadHead, Reinstall, Clear, Advance, Recovering
    <3> QED BY <1>9, <1>t, <3>1 DEF Recovery, ReadHead, Reinstall, Clear, Places
  <2> QED BY <2>1 DEF UnpinnedIsOnDisk
<1>10. CASE Crash
  BY <1>10 DEF Crash, UnpinnedIsOnDisk
<1> QED BY <1>1, <1>2, <1>3, <1>4, <1>5, <1>6, <1>7, <1>8, <1>9, <1>10 DEF Next, Op, Committer

(* Whoever goes to sleep in begin_op finds a commit or an operation under  *)
(* way, since an open log without operations is empty; and the end of      *)
(* either wakes everybody.                                                 *)
LEMMA SleepersStep ==
  ASSUME LogInv, [Next]_vars
  PROVE  SleepersHaveWakers'
<1> USE LogConstants
<1> USE DEF diskVars, bufVars, opVars, logVars
<1>t. TypeOK /\ Places /\ Headers /\ SleepersHaveWakers
  BY DEF LogInv
<1>1. CASE UNCHANGED vars
  BY <1>1, <1>t DEF vars, SleepersHaveWakers
<1>2. ASSUME NEW t \in Procs, BeginSleep(t)
      PROVE  SleepersHaveWakers'
  <2>1. committing' = committing /\ \A u \in Procs : pc'[u] = IF u = t THEN "asleep" ELSE pc[u]
    BY <1>2, <1>t DEF BeginSleep, TypeOK
  <2>2. CASE committing
    BY <2>1, <2>2 DEF SleepersHaveWakers
  <2>3. CASE ~committing
    <3>1. phase = "run" /\ Full
      BY <1>2, <1>t, <2>3, OpenLog DEF BeginSleep
    <3>2. outstanding # 0
      <4>1. SUFFICES ASSUME outstanding = 0
                     PROVE  FALSE
        OBVIOUS
      <4>2. Len(lh) = 0
        BY <1>t, <3>1, <4>1 DEF Headers
      <4> QED BY <3>1, <4>1, <4>2 DEF Full
    <3>3. PICK u \in Procs : pc[u] \in {"op", "modified"}
      BY <1>t, <3>2, FS_EmptySet DEF Places, Active
    <3>4. \A x \in Procs : pc'[x] = "asleep" => x # u
      BY <1>2, <2>1, <3>3 DEF BeginSleep
    <3>5. pc'[u] \in {"op", "modified"}
      BY <1>2, <2>1, <3>3 DEF BeginSleep
    <3> QED BY <3>4, <3>5 DEF SleepersHaveWakers
  <2> QED BY <2>2, <2>3
<1>3. ASSUME NEW t \in Procs,
             \/ CallBegin(t) \/ BeginOp(t) \/ LogPanic(t)
             \/ \E b \in Blocks : LogWrite(t, b) \/ \E v \in Values : Modify(t, b, v)
      PROVE  SleepersHaveWakers'
  <2>1. /\ committing' = committing
        /\ \A u \in Procs : pc'[u] = "asleep" => pc[u] = "asleep"
        /\ \A u \in Procs : pc[u] \in {"op", "modified"} => pc'[u] \in {"op", "modified"}
    BY <1>3, <1>t DEF CallBegin, BeginOp, LogPanic, LogWrite, Modify, TypeOK
  <2> QED BY <1>t, <2>1 DEF SleepersHaveWakers
<1>4. ASSUME NEW t \in Procs, EndOp(t) \/ EndLastOp(t)
      PROVE  SleepersHaveWakers'
  BY <1>4, <1>t DEF EndOp, EndLastOp, Woken, TypeOK, SleepersHaveWakers
<1>5. CASE (\E b \in Blocks : Recycle(b)) \/ WriteLog \/ WriteHead \/ Install \/ Erase \/ Recovery
  BY <1>5, <1>t DEF Recycle, WriteLog, WriteHead, Install, Erase, Recovery, ReadHead, Reinstall, Clear,
                    SleepersHaveWakers
<1>6. CASE FinishCommit \/ Crash
  BY <1>6, <1>t DEF FinishCommit, Crash, Woken, TypeOK, SleepersHaveWakers
<1> QED BY <1>1, <1>2, <1>3, <1>4, <1>5, <1>6 DEF Next, Op, Committer
-----------------------------------------------------------------------------
(* Finitely many blocks are logged.                                        *)
LEMMA LoggedFinite ==
  ASSUME TypeOK, Reserved, Places
  PROVE  IsFiniteSet(Logged) /\ Cardinality(Logged) \in Nat
<1> DEFINE W == {wrote[t] : t \in Procs}
<1>2. IsFiniteSet(W)
  <2> DEFINE f == [t \in Procs |-> wrote[t]]
  <2>1. f \in Surjection(Procs, W)
    BY DEF Surjection
  <2> QED BY <2>1, LogConstants, FS_Surjection
<1>3. IsFiniteSet(UNION W)
  <2>1. \A x \in W : IsFiniteSet(x)
    BY DEF Reserved
  <2> HIDE DEF W
  <2> QED BY <1>2, <2>1, FS_UNION
<1>4. IsFiniteSet(Procs \X UNION W)
  BY <1>3, LogConstants, FS_Product
<1>5. Logged \in SUBSET (Procs \X UNION W)
  BY DEF Logged, TypeOK
<1> QED BY <1>4, <1>5, FS_Subset, FS_CardinalityType

(* n operations have logged n * MAXOPBLOCKS blocks at most, and one fewer  *)
(* when one of them has a block to go.                                     *)
LEMMA RoomLeft ==
  ASSUME TypeOK, Reserved, Places,
         NEW t \in Active, Cardinality(wrote[t]) < MAXOPBLOCKS
  PROVE  Cardinality(Logged) < outstanding * MAXOPBLOCKS
<1> USE LogConstants
<1> DEFINE Slots == Active \X (1..MAXOPBLOCKS)
           Left == Slots \ {<<t, MAXOPBLOCKS>>}
           number == [u \in Procs |-> CHOOSE h \in [wrote[u] -> 1..Cardinality(wrote[u])] :
                                        \A b, c \in wrote[u] : h[b] = h[c] => b = c]
           f == [x \in Logged |-> <<x[1], number[x[1]][x[2]]>>]
<1>1. IsFiniteSet(Active) /\ outstanding = Cardinality(Active)
  BY FS_Subset DEF Active, Places
<1>2. IsFiniteSet(Slots) /\ Cardinality(Slots) = outstanding * MAXOPBLOCKS
  <2>1. IsFiniteSet(1..MAXOPBLOCKS) /\ Cardinality(1..MAXOPBLOCKS) = MAXOPBLOCKS
    BY FS_Interval
  <2> QED BY <1>1, <2>1, FS_Product
<1>3. IsFiniteSet(Left) /\ Cardinality(Left) = outstanding * MAXOPBLOCKS - 1
  <2>1. <<t, MAXOPBLOCKS>> \in Slots
    OBVIOUS
  <2> HIDE DEF Slots
  <2> QED BY <1>2, <2>1, FS_RemoveElement
<1>4. ASSUME NEW u \in Procs
      PROVE  /\ Cardinality(wrote[u]) \in Nat /\ Cardinality(wrote[u]) <= MAXOPBLOCKS
             /\ number[u] \in [wrote[u] -> 1..Cardinality(wrote[u])]
             /\ \A b, c \in wrote[u] : number[u][b] = number[u][c] => b = c
  <2>1. IsFiniteSet(wrote[u]) /\ Cardinality(wrote[u]) <= MAXOPBLOCKS
    BY DEF Reserved
  <2>2. Cardinality(wrote[u]) \in Nat /\ ExistsBijection(1..Cardinality(wrote[u]), wrote[u])
    BY <2>1, FS_CardinalityType
  <2>3. ExistsBijection(wrote[u], 1..Cardinality(wrote[u]))
    BY <2>2, Fun_ExistsBijSymmetric
  <2>4. \E h \in [wrote[u] -> 1..Cardinality(wrote[u])] : \A b, c \in wrote[u] : h[b] = h[c] => b = c
    BY <2>3 DEF ExistsBijection, Bijection, Injection, IsInjective
  <2>5. number[u] = CHOOSE h \in [wrote[u] -> 1..Cardinality(wrote[u])] :
                      \A b, c \in wrote[u] : h[b] = h[c] => b = c
    OBVIOUS
  <2>6. /\ number[u] \in [wrote[u] -> 1..Cardinality(wrote[u])]
        /\ \A b, c \in wrote[u] : number[u][b] = number[u][c] => b = c
    <3> HIDE DEF number
    <3> QED BY <2>4, <2>5
  <2> QED BY <2>1, <2>2, <2>6
<1>5. \A x \in Logged : x = <<x[1], x[2]>> /\ x[1] \in Active /\ x[2] \in wrote[x[1]]
  BY DEF Logged, Places
<1>6. f \in Injection(Logged, Left)
  <2>1. ASSUME NEW x \in Logged
        PROVE  f[x] \in Left
    <3>1. x[1] \in Procs /\ x[1] \in Active /\ x[2] \in wrote[x[1]]
      BY <1>5 DEF Active
    <3> HIDE DEF number
    <3>2. number[x[1]][x[2]] \in 1..Cardinality(wrote[x[1]])
      BY <1>4, <3>1
    <3>3. number[x[1]][x[2]] \in 1..MAXOPBLOCKS
      BY <1>4, <3>1, <3>2
    <3>4. x[1] = t => number[x[1]][x[2]] # MAXOPBLOCKS
      BY <1>4, <3>1, <3>2
    <3> QED BY <3>1, <3>3, <3>4
  <2>2. ASSUME NEW x \in Logged, NEW y \in Logged, f[x] = f[y]
        PROVE  x = y
    <3>0. x = <<x[1], x[2]>> /\ y = <<y[1], y[2]>>
      BY <1>5
    <3>1. x[1] \in Procs /\ x[2] \in wrote[x[1]] /\ y[2] \in wrote[y[1]]
      BY <1>5 DEF Active
    <3>2. x[1] = y[1] /\ number[x[1]][x[2]] = number[x[1]][y[2]]
      <4> HIDE DEF number
      <4> QED BY <2>2
    <3>3. x[2] = y[2]
      <4>1. x[2] \in wrote[x[1]] /\ y[2] \in wrote[x[1]]
        BY <3>1, <3>2
      <4>2. \A b, c \in wrote[x[1]] : number[x[1]][b] = number[x[1]][c] => b = c
        BY <1>4, <3>1
      <4> HIDE DEF number
      <4> QED BY <3>2, <4>1, <4>2
    <3> HIDE DEF number, f, Left, Slots
    <3> QED BY <3>0, <3>2, <3>3
  <2>3. f \in [Logged -> Left]
    <3> HIDE DEF Left, number
    <3> QED BY <2>1
  <2> HIDE DEF Left, f
  <2> QED BY <2>2, <2>3 DEF Injection, IsInjective
<1>7. Cardinality(Logged) <= Cardinality(Left)
  <2> HIDE DEF Left, f
  <2> QED BY <1>3, <1>6, FS_Injection
<1>8. outstanding * MAXOPBLOCKS \in Int /\ Cardinality(Logged) \in Nat
  BY LoggedFinite DEF TypeOK
<1> QED BY <1>3, <1>7, <1>8

(* What is reserved and not used yet fits into the log.                    *)
LEMMA ReservedStep ==
  ASSUME LogInv, [Next]_vars
  PROVE  Reserved'
<1> USE LogConstants
<1> USE DEF diskVars, bufVars, opVars, logVars
<1>t. TypeOK /\ Places /\ Headers /\ Reserved
  BY DEF LogInv
<1>0. /\ Len(lh) \in Nat /\ Len(<<>>) = 0 /\ outstanding * MAXOPBLOCKS \in Nat
      /\ IsFiniteSet(Logged) /\ Cardinality(Logged) \in Nat
  BY <1>t, LoggedFinite DEF TypeOK
<1>1. CASE UNCHANGED vars
  BY <1>1, <1>t DEF vars, Reserved, Logged
<1>2. ASSUME NEW t \in Procs, CallBegin(t) \/ BeginSleep(t)
      PROVE  Reserved'
  BY <1>2, <1>t DEF CallBegin, BeginSleep, Reserved, Logged
<1>3. ASSUME NEW t \in Procs, BeginOp(t)
      PROVE  Reserved'
  <2>1. Len(lh') + outstanding' * MAXOPBLOCKS <= LOGSIZE
    BY <1>0, <1>3, <1>t DEF BeginOp, Full, TypeOK
  <2>2. Logged' = Logged /\ Len(lh') + outstanding' * MAXOPBLOCKS <= LOGSIZE + Cardinality(Logged)
    <3>1. Logged' = Logged
      BY <1>3 DEF BeginOp, Logged
    <3>2. outstanding' * MAXOPBLOCKS \in Nat /\ Len(lh') \in Nat
      BY <1>0, <1>3, <1>t DEF BeginOp, TypeOK
    <3> QED BY <1>0, <2>1, <3>1, <3>2
  <2> QED BY <1>3, <1>t, <2>2 DEF BeginOp, Reserved
<1>4. ASSUME NEW t \in Procs, NEW b \in Blocks, NEW v \in Values, Modify(t, b, v)
      PROVE  Reserved'
  <2>1. \A c \in Blocks : locked'[c] = IF c = b THEN t ELSE locked[c]
    BY <1>4, <1>t DEF Modify, TypeOK
  <2> QED BY <1>4, <1>t, <2>1 DEF Modify, Reserved, Logged
<1>5. ASSUME NEW t \in Procs, NEW b \in Blocks, LogWrite(t, b)
      PROVE  Reserved'
  <2>1. phase = "run" /\ phase' = "run" /\ outstanding' = outstanding
    BY <1>5, <1>t, OpenLog DEF LogWrite, Places, Active
  <2>2. \A u \in Procs : wrote'[u] = IF u = t THEN wrote[t] \cup {b} ELSE wrote[u]
    BY <1>5, <1>t DEF LogWrite, TypeOK
  <2>3. IsFiniteSet(wrote'[t]) /\ Cardinality(wrote'[t]) <= MAXOPBLOCKS
    <3>1. IsFiniteSet(wrote[t]) /\ Cardinality(wrote[t]) <= MAXOPBLOCKS
          /\ Cardinality(wrote[t]) \in Nat
      BY <1>t, FS_CardinalityType DEF Reserved
    <3>2. b \in wrote[t] \/ Cardinality(wrote[t]) < MAXOPBLOCKS
      BY <1>5, <1>t DEF LogWrite, Reserved
    <3>3. /\ IsFiniteSet(wrote[t] \cup {b})
          /\ Cardinality(wrote[t] \cup {b}) =
               IF b \in wrote[t] THEN Cardinality(wrote[t]) ELSE Cardinality(wrote[t]) + 1
      BY <3>1, FS_AddElement
    <3>4. wrote'[t] = wrote[t] \cup {b}
      BY <2>2
    <3> QED BY <3>1, <3>2, <3>3, <3>4
  <2>4. Entries(lh') = Entries(lh) \cup {b}
    BY <1>5, <1>t, Appended DEF LogWrite, TypeOK
  <2>5. \A u \in Procs : wrote'[u] \subseteq Entries(lh')
    BY <1>t, <2>1, <2>2, <2>4 DEF Reserved
  <2>6. ASSUME NEW u \in Procs, NEW c \in Blocks, locked'[c] = u
        PROVE  c \in wrote'[u] \/ Cardinality(wrote'[u]) < MAXOPBLOCKS
    <3>1. locked[c] = u /\ c # b
      BY <1>5, <1>t, <2>6 DEF LogWrite, TypeOK
    <3>2. u # t
      BY <1>5, <1>t, <3>1 DEF LogWrite, Places
    <3> QED BY <1>t, <2>2, <3>1, <3>2 DEF Reserved
  <2>7. Logged' = Logged \cup {<<t, b>>}
    BY <1>5, <1>t, <2>2 DEF Logged
  <2>8. Cardinality(Logged') = IF <<t, b>> \in Logged THEN Cardinality(Logged) ELSE Cardinality(Logged) + 1
    BY <1>0, <2>7, FS_AddElement
  <2>9. Len(lh') + outstanding' * MAXOPBLOCKS <= LOGSIZE + Cardinality(Logged')
    <3>1. Len(lh) + outstanding * MAXOPBLOCKS <= LOGSIZE + Cardinality(Logged)
      BY <1>t, <2>1 DEF Reserved
    <3>2. CASE b \in Entries(lh)
      <4>1. lh' = lh
        BY <1>5, <3>2 DEF LogWrite
      <4> QED BY <1>0, <2>1, <2>8, <3>1, <4>1
    <3>3. CASE b \notin Entries(lh)
      <4>1. Len(lh') = Len(lh) + 1
        BY <1>5, <1>t, <3>3, Appended DEF LogWrite, TypeOK
      <4>2. <<t, b>> \notin Logged
        BY <1>t, <2>1, <3>3 DEF Logged, Reserved
      <4> QED BY <1>0, <2>1, <2>8, <3>1, <4>1, <4>2
    <3> QED BY <3>2, <3>3
  <2> QED BY <1>t, <2>2, <2>3, <2>5, <2>6, <2>9 DEF Reserved
<1>6. ASSUME NEW t \in Procs, LogPanic(t)
      PROVE  Reserved'
  <2>1. phase = "run"
    BY <1>6, <1>t, OpenLog DEF LogPanic, Places, Active
  <2> QED BY <1>6, <1>t, <2>1 DEF LogPanic, Reserved, Logged
<1>7. ASSUME NEW t \in Procs, EndOp(t) \/ EndLastOp(t)
      PROVE  Reserved'
  <2>1. \A u \in Procs : wrote'[u] = IF u = t THEN {} ELSE wrote[u]
    BY <1>7, <1>t DEF EndOp, EndLastOp, TypeOK
  <2>2. lh' = lh /\ locked' = locked /\ pc[t] = "op" /\ phase = "run"
    BY <1>7, <1>t, OpenLog DEF EndOp, EndLastOp, Places, Active
  <2>3. \A b \in Blocks : locked[b] # t
    BY <1>t, <2>2 DEF Places
  <2>4. \A u \in Procs : IsFiniteSet(wrote'[u]) /\ Cardinality(wrote'[u]) <= MAXOPBLOCKS
    BY <1>t, <2>1, FS_EmptySet DEF Reserved
  <2>5. \A u \in Procs : wrote'[u] \subseteq Entries(lh')
    BY <1>t, <2>1, <2>2 DEF Reserved
  <2>6. \A u \in Procs, b \in Blocks :
          locked'[b] = u => b \in wrote'[u] \/ Cardinality(wrote'[u]) < MAXOPBLOCKS
    BY <1>t, <2>1, <2>2, <2>3 DEF Reserved
  <2>7. phase' \in {"run", "panic"} =>
          Len(lh') + outstanding' * MAXOPBLOCKS <= LOGSIZE + Cardinality(Logged')
    <3>1. SUFFICES ASSUME phase' \in {"run", "panic"}
                   PROVE  Len(lh') + outstanding' * MAXOPBLOCKS <= LOGSIZE + Cardinality(Logged')
      OBVIOUS
    <3>2. outstanding' = outstanding - 1
      BY <1>7, <3>1 DEF EndOp, EndLastOp
    <3>3. IsFiniteSet({t} \X wrote[t]) /\ Cardinality({t} \X wrote[t]) <= MAXOPBLOCKS
          /\ Cardinality({t} \X wrote[t]) \in Nat
      <4>1. IsFiniteSet(wrote[t]) /\ Cardinality(wrote[t]) <= MAXOPBLOCKS
            /\ Cardinality(wrote[t]) \in Nat
        BY <1>t, FS_CardinalityType DEF Reserved
      <4>2. IsFiniteSet({t}) /\ Cardinality({t}) = 1
        BY FS_Singleton
      <4>3. IsFiniteSet({t} \X wrote[t]) /\ Cardinality({t} \X wrote[t]) = Cardinality({t}) * Cardinality(wrote[t])
        BY <4>1, <4>2, FS_Product
      <4> QED BY <4>1, <4>2, <4>3
    <3>4. Logged' = Logged \ ({t} \X wrote[t]) /\ Logged \cap ({t} \X wrote[t]) = {t} \X wrote[t]
      BY <1>t, <2>1 DEF Logged, TypeOK
    <3>5. Cardinality(Logged') = Cardinality(Logged) - Cardinality({t} \X wrote[t])
      <4> DEFINE L == Logged
                 S == {t} \X wrote[t]
      <4> HIDE DEF L, S
      <4>1. IsFiniteSet(L) => Cardinality(L \ S) = Cardinality(L) - Cardinality(L \cap S)
        BY FS_Difference
      <4> QED BY <1>0, <3>4, <4>1 DEF L, S
    <3>6. Len(lh) + outstanding * MAXOPBLOCKS <= LOGSIZE + Cardinality(Logged)
      BY <1>t, <2>2 DEF Reserved
    <3>7. outstanding' * MAXOPBLOCKS = outstanding * MAXOPBLOCKS - MAXOPBLOCKS
      BY <1>t, <3>2 DEF TypeOK
    <3> QED BY <1>0, <2>2, <3>3, <3>5, <3>6, <3>7
  <2> QED BY <2>4, <2>5, <2>6, <2>7 DEF Reserved
<1>8. ASSUME NEW b \in Blocks, Recycle(b)
      PROVE  Reserved'
  BY <1>8, <1>t DEF Recycle, Reserved, Logged
<1>9. CASE WriteLog \/ WriteHead \/ Install \/ Erase \/ ReadHead \/ Reinstall
  BY <1>9, <1>t DEF WriteLog, WriteHead, Install, Erase, ReadHead, Reinstall, Advance, Reserved
<1>10. CASE FinishCommit \/ Clear
  <2>1. UNCHANGED <<wrote, locked, outstanding>> /\ lh' = <<>>
    BY <1>10, <1>t DEF FinishCommit, Clear, Headers
  <2>2. Active = {}
    BY <1>10, <1>t DEF FinishCommit, Clear, Places, Committing, Recovering, Active
  <2>3. outstanding = 0 /\ \A u \in Procs : wrote[u] = {}
    BY <1>t, <2>2, FS_EmptySet DEF Places
  <2>4. Logged' = Logged
    BY <2>1 DEF Logged
  <2>5. Len(lh') + outstanding' * MAXOPBLOCKS <= LOGSIZE + Cardinality(Logged')
    BY <1>0, <2>1, <2>3, <2>4
  <2> QED BY <1>t, <2>1, <2>3, <2>5 DEF Reserved
<1>11. CASE Crash
  BY <1>11, FS_EmptySet DEF Crash, Reserved
<1> QED BY <1>1, <1>2, <1>3, <1>4, <1>5, <1>6, <1>7, <1>8, <1>9, <1>10, <1>11
        DEF Next, Op, Committer, Recovery
-----------------------------------------------------------------------------
(* The invariant holds at boot, and every step keeps it.                   *)
LEMMA LogInvInit == Init => LogInv
<1> SUFFICES ASSUME Init
             PROVE  LogInv
  OBVIOUS
<1> USE LogConstants
<1>1. TypeOK
  <2>1. <<>> \in Seq(Blocks) /\ 1 \in 1..LOGSIZE
    OBVIOUS
  <2> QED BY <2>1 DEF Init, TypeOK, Phases, Recovering, PCs
<1>2. Active = {}
  BY DEF Init, Active
<1>3. Places
  BY <1>2, FS_EmptySet DEF Init, Places, Recovering, Committing
<1>4. Headers /\ Copies /\ Pinned /\ UnpinnedIsOnDisk /\ SleepersHaveWakers
  BY DEF Init, Headers, Distinct, Looping, Copies, Pinned, Awaited, UnpinnedIsOnDisk, SleepersHaveWakers
<1>5. Reserved
  BY FS_EmptySet DEF Init, Reserved
<1> QED BY <1>1, <1>3, <1>4, <1>5 DEF LogInv

(* Every step keeps the invariant: its parts, each from those before it.   *)
LEMMA LogInvStep == LogInv /\ [Next]_vars => LogInv'
BY TypeStep, PlacesStep, HeadersStep, CopiesStep, PinnedStep, UnpinnedStep, ReservedStep, SleepersStep
   DEF LogInv

(* So it holds of every state, crashes and recoveries included.            *)
LEMMA LogInvariant == Spec => []LogInv
BY LogInvInit, LogInvStep, PTL DEF Spec

(* A block that is being changed fits.                                     *)
LEMMA Fits ==
  ASSUME LogInv
  PROVE  NewBlocksFit
<1> SUFFICES ASSUME NEW t \in Procs, NEW b \in Blocks, pc[t] = "modified", locked[b] = t
             PROVE  /\ ~committing
                    /\ outstanding >= 1
                    /\ b \in Entries(lh) \/ ~TooBig
  BY DEF NewBlocksFit
<1> USE LogConstants
<1>1. TypeOK /\ Places /\ Headers /\ Reserved
  BY DEF LogInv
<1>2. t \in Active
  BY DEF Active
<1>3. ~committing /\ outstanding >= 1
  <2>1. IsFiniteSet(Active)
    BY FS_Subset DEF Active
  <2> QED BY <1>1, <1>2, <2>1, FS_EmptySet DEF Places, TypeOK
<1>4. ASSUME b \notin Entries(lh)
      PROVE  ~TooBig
  <2>1. phase \in {"run", "panic"}
    BY <1>1, <1>2, <1>3 DEF Places, TypeOK, Phases, Recovering, Committing, Active
  <2>2. wrote[t] \subseteq Entries(lh)
        /\ Len(lh) + outstanding * MAXOPBLOCKS <= LOGSIZE + Cardinality(Logged)
    BY <1>1, <2>1 DEF Reserved
  <2>3. Cardinality(wrote[t]) < MAXOPBLOCKS
    BY <1>1, <1>4, <2>2 DEF Reserved
  <2>4. Cardinality(Logged) < outstanding * MAXOPBLOCKS
    BY <1>1, <1>2, <2>3, RoomLeft
  <2>5. Cardinality(Logged) \in Nat /\ outstanding * MAXOPBLOCKS \in Nat /\ Len(lh) \in Nat
    BY <1>1, LoggedFinite DEF TypeOK
  <2> QED BY <2>2, <2>4, <2>5 DEF TooBig
<1> QED BY <1>3, <1>4

(* The log never overflows by a new block, whatever runs at once; what is  *)
(* only in memory is pinned; nobody sleeps in begin_op without a waker.    *)
THEOREM LogSafety == Spec => []LogSafe
<1>1. LogInv => LogSafe
  BY Fits DEF LogInv, LogSafe
<1> QED BY <1>1, LogInvariant, PTL
-----------------------------------------------------------------------------
(* What a crash would leave.                                               *)
LEMMA DurableValues ==
  ASSUME TypeOK, Headers
  PROVE  /\ Durable \in [Blocks -> Values]
         /\ head = <<>> => Durable = disk
         /\ \A i \in 1..Len(head) : Durable[head[i]] = logBlocks[i]
         /\ \A b \in Blocks : b \notin Entries(head) => Durable[b] = disk[b]
<1> USE LogConstants
<1>0. Len(head) \in Nat /\ Len(head) <= LOGSIZE /\ \A i \in 1..Len(head) : head[i] \in Blocks
  BY DEF TypeOK, Headers
<1>1. ASSUME NEW i \in 1..Len(head)
      PROVE  Durable[head[i]] = logBlocks[i] /\ logBlocks[i] \in Values
  <2>1. (CHOOSE j \in 1..Len(head) : head[j] = head[i]) = i
    BY DEF Headers, Distinct
  <2>2. head[i] \in Blocks /\ logBlocks[i] \in Values
    BY <1>0 DEF TypeOK
  <2>3. Durable[head[i]] = logBlocks[CHOOSE j \in 1..Len(head) : head[j] = head[i]]
    BY <2>2 DEF Durable
  <2> QED BY <2>1, <2>2, <2>3
<1>2. ASSUME NEW b \in Blocks, b \notin Entries(head)
      PROVE  Durable[b] = disk[b] /\ disk[b] \in Values
  BY <1>2 DEF Durable, Entries, TypeOK
<1>3. \A b \in Blocks : Durable[b] \in Values
  BY <1>1, <1>2 DEF Entries
<1>4. Durable \in [Blocks -> Values]
  BY <1>3 DEF Durable
<1>5. head = <<>> => Durable = disk
  <2>1. SUFFICES ASSUME head = <<>>
                 PROVE  Durable = disk
    OBVIOUS
  <2>2. Entries(head) = {}
    BY <2>1 DEF Entries
  <2>3. \A b \in Blocks : Durable[b] = disk[b]
    BY <1>2, <2>2
  <2> QED BY <1>4, <2>3 DEF TypeOK
<1> QED BY <1>1, <1>2, <1>4, <1>5

Current == IF phase \in Recovering THEN Durable ELSE cache

(* When every block is at home, the disk is what a crash would leave.      *)
LEMMA AllAtHome ==
  ASSUME TypeOK, Headers, \A i \in 1..Len(head) : disk[head[i]] = logBlocks[i]
  PROVE  Durable = disk
<1>1. Durable \in [Blocks -> Values] /\ disk \in [Blocks -> Values]
  BY DurableValues DEF TypeOK
<1>2. ASSUME NEW b \in Blocks
      PROVE  Durable[b] = disk[b]
  <2>1. CASE b \in Entries(head)
    BY <2>1, DurableValues DEF Entries
  <2>2. CASE b \notin Entries(head)
    BY <2>2, DurableValues
  <2> QED BY <2>1, <2>2
<1> QED BY <1>1, <1>2

(* A step that leaves the disk alone leaves what a crash would leave.      *)
LEMMA SameDisk ==
  ASSUME UNCHANGED diskVars
  PROVE  Durable' = Durable
BY DEF diskVars, Durable

(* Steps of operations, which work in memory.                              *)
LEMMA OpRefines ==
  ASSUME LogInv, NEW t \in Procs,
         Op(t) \/ CallBegin(t) \/ \E b \in Blocks, v \in Values : Modify(t, b, v)
  PROVE  \/ \E u \in Procs : \/ Abstract!Begin(u) \/ Abstract!End(u)
                             \/ \E b \in Blocks, v \in Values : Abstract!Write(u, b, v)
         \/ UNCHANGED Abstract!avars
<1> USE LogConstants
<1>t. TypeOK /\ Places
  BY DEF LogInv
<1>d. Durable' = Durable
  <2>1. UNCHANGED diskVars
    BY DEF Op, CallBegin, BeginSleep, BeginOp, LogWrite, LogPanic, EndOp, EndLastOp, Modify
  <2> QED BY <2>1, SameDisk
<1>p. phase \notin Recovering /\ phase' \notin Recovering
  BY DEF Op, CallBegin, BeginSleep, BeginOp, LogWrite, LogPanic, EndOp, EndLastOp, Modify, Running,
         Recovering
<1>1. CASE BeginOp(t)
  <2>1. t \notin Active /\ Active' = Active \cup {t} /\ cache' = cache
    BY <1>1, <1>t DEF BeginOp, Active, TypeOK, bufVars
  <2> QED BY <1>d, <1>p, <2>1 DEF Abstract!Begin
<1>2. CASE EndOp(t) \/ EndLastOp(t)
  <2>1. t \in Active /\ Active' = Active \ {t} /\ cache' = cache
    BY <1>2, <1>t DEF EndOp, EndLastOp, Active, TypeOK, bufVars, Woken
  <2> QED BY <1>d, <1>p, <2>1 DEF Abstract!End
<1>3. ASSUME NEW b \in Blocks, NEW v \in Values, Modify(t, b, v)
      PROVE  Abstract!Write(t, b, v)
  <2>1. t \in Active /\ Active' = Active /\ cache' = [cache EXCEPT ![b] = v]
    BY <1>3, <1>t DEF Modify, Active, TypeOK
  <2> QED BY <1>d, <1>p, <2>1 DEF Abstract!Write
<1>4. CASE CallBegin(t) \/ BeginSleep(t) \/ LogPanic(t) \/ \E b \in Blocks : LogWrite(t, b)
  <2>1. Active' = Active /\ cache' = cache
    BY <1>4, <1>t DEF CallBegin, BeginSleep, LogPanic, LogWrite, Active, TypeOK, bufVars, opVars
  <2> QED BY <1>d, <1>p, <2>1 DEF Abstract!avars
<1> QED BY <1>1, <1>2, <1>3, <1>4 DEF Op

(* The commit: the header makes everything in memory durable at once, and  *)
(* what follows changes nothing that can be seen.                          *)
LEMMA CommitRefines ==
  ASSUME LogInv, Committer
  PROVE  Abstract!Commit \/ UNCHANGED Abstract!avars
<1> USE LogConstants
<1>t. TypeOK /\ Places /\ Headers /\ Copies /\ Pinned /\ UnpinnedIsOnDisk
  BY DEF LogInv
<1>0. Len(lh) \in Nat /\ Len(<<>>) = 0 /\ \A i \in 1..Len(lh) : lh[i] \in Blocks
  BY <1>t DEF TypeOK
<1>p. /\ phase \in Committing /\ phase' \in Committing \cup {"run"}
      /\ phase \notin Recovering /\ phase' \notin Recovering
  BY DEF Committer, WriteLog, WriteHead, Install, Erase, FinishCommit, Advance, Committing, Recovering
<1>a. Active = {} /\ Active' = {}
  <2>1. Active = {}
    BY <1>t, <1>p DEF Places
  <2>2. pc' = pc \/ FinishCommit
    BY DEF Committer, WriteLog, WriteHead, Install, Erase, opVars
  <2>3. FinishCommit => Active' = Active
    BY <1>t DEF FinishCommit, Woken, Active, TypeOK
  <2> QED BY <2>1, <2>2, <2>3 DEF Active
<1>1. CASE WriteLog
  <2>1. head = <<>> /\ head' = <<>> /\ disk' = disk /\ cache' = cache
    BY <1>1, <1>t DEF WriteLog, Advance, Headers, bufVars
  <2>2. Durable = [b \in Blocks |-> disk[b]] /\ Durable' = [b \in Blocks |-> disk[b]]
    BY <1>0, <2>1 DEF Durable
  <2> QED BY <1>a, <1>p, <2>1, <2>2 DEF Abstract!avars
<1>2. CASE WriteHead
  <2>1. /\ head' = lh /\ disk' = disk /\ logBlocks' = logBlocks /\ cache' = cache
        /\ phase = "writeHead"
    BY <1>2 DEF WriteHead, bufVars
  <2>2. \A i \in 1..Len(lh) : logBlocks[i] = cache[lh[i]]
    BY <1>t, <2>1 DEF Copies
  <2>3. ASSUME NEW b \in Blocks
        PROVE  Durable'[b] = cache[b]
    <3>1. CASE \E i \in 1..Len(lh) : lh[i] = b
      <4>1. PICK i \in 1..Len(lh) : lh[i] = b /\ i = CHOOSE j \in 1..Len(lh) : lh[j] = b
        BY <3>1
      <4>2. Durable'[b] = logBlocks[i]
        BY <2>1, <4>1 DEF Durable
      <4> QED BY <2>2, <4>1, <4>2
    <3>2. CASE ~\E i \in 1..Len(lh) : lh[i] = b
      <4>1. Durable'[b] = disk[b]
        BY <2>1, <3>2 DEF Durable
      <4>2. pins[b] = 0
        BY <1>t, <2>1, <3>2 DEF Pinned, Awaited
      <4>3. locked[b] = Nobody
        BY <1>a, <1>t DEF Places, TypeOK, Active
      <4> QED BY <1>t, <2>1, <4>1, <4>2, <4>3 DEF UnpinnedIsOnDisk, Running, Recovering
    <3> QED BY <3>1, <3>2
  <2>4. Durable' = cache
    BY <1>t, <2>3 DEF Durable, TypeOK
  <2> QED BY <1>a, <1>p, <2>1, <2>4 DEF Abstract!Commit
<1>3. CASE Install
  <2>1. /\ phase = "install" /\ head' = head /\ head = lh /\ logBlocks' = logBlocks
        /\ tail \in 1..Len(head)
        /\ disk' = [disk EXCEPT ![head[tail]] = logBlocks[tail]]
        /\ cache' = [cache EXCEPT ![head[tail]] = logBlocks[tail]]
    BY <1>3, <1>t, LoopStep DEF Install, Advance, Headers
  <2>2. cache' = cache
    BY <1>0, <1>t, <2>1 DEF Copies, TypeOK
  <2>3. Durable' = Durable
    BY <1>0, <1>t, <2>1 DEF Durable, TypeOK
  <2> QED BY <1>a, <1>p, <2>2, <2>3 DEF Abstract!avars
<1>4. CASE Erase
  <2>1. phase = "erase" /\ head = lh /\ head' = <<>> /\ disk' = disk /\ cache' = cache
    BY <1>4, <1>t DEF Erase, Headers, bufVars
  <2>2. \A i \in 1..Len(head) : disk[head[i]] = logBlocks[i]
    BY <1>t, <2>1 DEF Copies
  <2>3. Durable' = [b \in Blocks |-> disk[b]]
    BY <1>0, <2>1 DEF Durable
  <2>4. Durable = disk
    BY <1>t, <2>2, AllAtHome
  <2> QED BY <1>a, <1>p, <1>t, <2>1, <2>3, <2>4 DEF Abstract!avars, TypeOK
<1>5. CASE FinishCommit
  <2>1. Durable' = Durable /\ cache' = cache
    BY <1>5, SameDisk DEF FinishCommit, bufVars
  <2> QED BY <1>a, <1>p, <2>1 DEF Abstract!avars
<1> QED BY <1>1, <1>2, <1>3, <1>4, <1>5 DEF Committer

(* Recovery brings the home locations up to what the header says.          *)
LEMMA RecoveryRefines ==
  ASSUME LogInv, Recovery
  PROVE  UNCHANGED Abstract!avars
<1> USE LogConstants
<1>t. TypeOK /\ Places /\ Headers /\ Copies
  BY DEF LogInv
<1>0. Len(lh) \in Nat /\ Len(<<>>) = 0 /\ \A i \in 1..Len(lh) : lh[i] \in Blocks
  BY <1>t DEF TypeOK
<1>a. phase \in Recovering /\ Active' = Active
  BY DEF Recovery, ReadHead, Reinstall, Clear, Advance, Recovering, Active, opVars
<1>1. CASE ReadHead
  <2>1. phase' \in Recovering /\ Durable' = Durable
    BY <1>1, SameDisk DEF ReadHead, Recovering
  <2> QED BY <1>a, <2>1 DEF Abstract!avars
<1>2. CASE Reinstall
  <2>1. /\ phase' \in Recovering /\ head' = head /\ head = lh /\ logBlocks' = logBlocks
        /\ tail \in 1..Len(head)
        /\ disk' = [disk EXCEPT ![head[tail]] = logBlocks[tail]]
    BY <1>2, <1>t, LoopStep DEF Reinstall, Advance, Headers, Recovering
  <2>2. Durable' = Durable
    BY <1>0, <1>t, <2>1 DEF Durable, TypeOK
  <2> QED BY <1>a, <2>1, <2>2 DEF Abstract!avars
<1>3. CASE Clear
  <2>1. /\ phase = "clear" /\ head = lh /\ head' = <<>> /\ disk' = disk /\ cache' = disk
        /\ phase' \notin Recovering
    BY <1>3, <1>a, <1>t DEF Clear, Headers, Places, Recovering, bufVars
  <2>2. \A i \in 1..Len(head) : disk[head[i]] = logBlocks[i]
    BY <1>t, <2>1 DEF Copies
  <2>3. Durable' = [b \in Blocks |-> disk[b]]
    BY <1>0, <2>1 DEF Durable
  <2>4. Durable = disk
    BY <1>t, <2>2, AllAtHome
  <2> QED BY <1>a, <1>t, <2>1, <2>3, <2>4 DEF Abstract!avars, TypeOK
<1> QED BY <1>1, <1>2, <1>3 DEF Recovery

(* Every step of the log is a step of the atomic disk, or shows nothing.   *)
LEMMA StepRefines == LogInv /\ [Next]_vars => [Abstract!Next]_(Abstract!avars)
<1> SUFFICES ASSUME LogInv, [Next]_vars
             PROVE  [Abstract!Next]_(Abstract!avars)
  OBVIOUS
<1>1. CASE UNCHANGED vars
  BY <1>1 DEF vars, Abstract!avars, Durable, Active
<1>2. ASSUME NEW t \in Procs, Op(t) \/ CallBegin(t) \/ \E b \in Blocks, v \in Values : Modify(t, b, v)
      PROVE  [Abstract!Next]_(Abstract!avars)
  BY <1>2, OpRefines DEF Abstract!Next
<1>3. ASSUME NEW b \in Blocks, Recycle(b)
      PROVE  UNCHANGED Abstract!avars
  <2>1. cache' = cache
    BY <1>3 DEF Recycle, LogInv, UnpinnedIsOnDisk, TypeOK
  <2>2. Durable' = Durable
    BY <1>3, SameDisk DEF Recycle
  <2> QED BY <1>3, <2>1, <2>2 DEF Recycle, Abstract!avars, Active, opVars
<1>4. CASE Committer
  BY <1>4, CommitRefines DEF Abstract!Next
<1>5. CASE Recovery
  BY <1>5, RecoveryRefines
<1>6. CASE Crash
  <2>1. Durable' = Durable /\ phase' \in Recovering
    BY <1>6, SameDisk DEF Crash, Recovering
  <2>2. Active' = {}
    BY <1>6 DEF Crash, Active
  <2> QED BY <2>1, <2>2 DEF Abstract!Next, Abstract!Crash
<1> QED BY <1>1, <1>2, <1>3, <1>4, <1>5, <1>6 DEF Next

(* The log is an atomic disk: an operation survives a crash, at any write  *)
(* of a commit or of a recovery, with all of its writes or with none.      *)
THEOREM Atomicity == Spec => ImplementsAtomicDisk
<1>1. Init => Abstract!Init
  <2>1. SUFFICES ASSUME Init
                 PROVE  Abstract!Init
    OBVIOUS
  <2>2. TypeOK /\ Headers /\ head = <<>> /\ phase \in Recovering /\ Active = {}
    BY <2>1, LogInvInit DEF LogInv, Init, Recovering, Active
  <2>3. Durable = disk
    BY <2>2, DurableValues
  <2> QED BY <2>2, <2>3 DEF Abstract!Init, TypeOK
<1>2. LogInv /\ [Next]_vars => [Abstract!Next]_(Abstract!avars)
  BY StepRefines
<1> QED BY <1>1, <1>2, LogInvariant, PTL DEF Spec, ImplementsAtomicDisk, Abstract!Spec
=============================================================================
