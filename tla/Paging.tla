-------------------------------- MODULE Paging --------------------------------
(***************************************************************************)
(* Paging to a swap file in ass3 (kernel/vm.c, proc.c, trap.c, exec.c) and *)
(* its three replacement policies, for one process with a pid above 2.     *)
(*                                                                         *)
(* The table of pages, the page table and the swap file belong to the      *)
(* process, so its system calls and faults are single steps; only aging,   *)
(* by the scheduler, comes in between where a call writes to the swap file *)
(* more than once, which is when memory grows.  A fork that is followed    *)
(* into the child changes the state, one that is followed into the parent  *)
(* does not.  The process has a page at address 0 and a stack.             *)
(*                                                                         *)
(* What is in a page is what its contents are the contents of: swap says   *)
(* whose present contents are at a place of the swap file, and intact is   *)
(* the set of pages in RAM with the contents they should have.             *)
(***************************************************************************)
EXTENDS Integers, FiniteSets, SequencesExt

CONSTANTS MAX_PSYC_PAGES,   (* pages in RAM, places in the swap file   *)
          MAX_TOTAL_PAGES,  (* pages                                   *)
          Policies,         (* values of SELECTION                     *)
          AGE_BITS,         (* width of age, 32 in the code            *)
          MaxPage,          (* bound on addresses, in pages            *)
          MaxCalls          (* bound on system calls                   *)

ASSUME PagingConstants ==
  /\ MAX_PSYC_PAGES \in Nat \ {0}
  /\ MAX_TOTAL_PAGES = 2 * MAX_PSYC_PAGES
  /\ Policies \subseteq {"NFUA", "LAPA", "SCFIFO"} /\ Policies # {}
  /\ AGE_BITS \in Nat \ {0}
  /\ MaxPage \in Nat /\ MaxCalls \in Nat

Addrs == 0..MaxPage                 \* page addresses
Places == 0..(MAX_PSYC_PAGES - 1)   \* of the swap file, of ram_queue
Index == 0..(MAX_TOTAL_PAGES - 1)   \* of all_pages
None == -1
MaxAge == 2^AGE_BITS - 1

VARIABLES
  selection,  \* SELECTION, a macro
  p,          \* the process, see Proc
  growing,    \* the size uvmalloc is to reach, 0 outside it
  calls       \* system calls made, bounded by MaxCalls

vars == <<selection, p, growing, calls>>

PageData == [is_allocated : BOOLEAN, in_RAM : BOOLEAN, offset : Places \cup {None},
             v_addr : Addrs \cup {None}, age : 0..MaxAge]

Proc == [all_pages : [Index -> PageData],
         aloc_pages : Int, ram_pages : Int,
         occupied : SUBSET Places,
         ram_queue : [Places -> Index \cup {None}], first : Places \cup {None}, last : Places \cup {None},
         sz : Nat,
         valid : SUBSET Addrs,               \* PTE_V
         paged : SUBSET Addrs,               \* PTE_PG
         accessed : SUBSET Addrs,            \* PTE_A
         swap : [Places -> Addrs \cup {None}],
         intact : SUBSET Addrs,
         forgotten : SUBSET Addrs,  \* the table has lost track of what is in the file
         panic : BOOLEAN,           \* an assertion of the code has failed
         broken : BOOLEAN]          \* the code leaves the program undefined

TypeOK == selection \in Policies /\ p \in Proc /\ growing \in 0..(MaxPage + 1) /\ calls \in 0..MaxCalls

Allocated(q) == {i \in Index : q.all_pages[i].is_allocated}
InRam(q) == {i \in Allocated(q) : q.all_pages[i].in_RAM}
InFile(q) == Allocated(q) \ InRam(q)

Lowest(S) == CHOOSE i \in S : \A j \in S : i <= j
InitialAge == IF selection = "LAPA" THEN MaxAge ELSE 0
-----------------------------------------------------------------------------
(* The queue of SCFIFO: first = None when it is empty, first = last when   *)
(* it is full.                                                             *)
enqueue(q, i) ==
  LET last == IF q.last = None THEN 0 ELSE q.last IN
  IF last = q.first THEN q
  ELSE [q EXCEPT !.first = IF @ = None THEN 0 ELSE @,
                 !.ram_queue[last] = i,
                 !.last = (last + 1) % MAX_PSYC_PAGES]

dequeue(q) ==
  LET first == (q.first + 1) % MAX_PSYC_PAGES IN
  IF first = q.last THEN [q EXCEPT !.first = None, !.last = None]
                    ELSE [q EXCEPT !.first = first]

Queued(q) ==
  IF q.first = None THEN {}
  ELSE LET n == (q.last - q.first) % MAX_PSYC_PAGES
       IN {q.ram_queue[(q.first + d) % MAX_PSYC_PAGES]
             : d \in 0..((IF n = 0 THEN MAX_PSYC_PAGES ELSE n) - 1)}

(* The entries from the one that is removed up to last move down by one.   *)
(* The search starts at entry 0, not at first; the move does nothing when  *)
(* the queue is full and the value is at first.                            *)
Shifted(q, v) ==
  LET i == Lowest({k \in Places : q.ram_queue[k] = v})
      moved == {(i + d) % MAX_PSYC_PAGES : d \in 0..(((q.last - i) % MAX_PSYC_PAGES) - 1)}
      last == (q.last - 1) % MAX_PSYC_PAGES
  IN [q EXCEPT !.ram_queue = [k \in Places |-> IF k \in moved THEN @[(k + 1) % MAX_PSYC_PAGES] ELSE @[k]],
               !.first = IF last = q.first THEN None ELSE @,
               !.last = IF last = q.first THEN None ELSE last]

(* Where it goes wrong the queue has no longer what it should have; the    *)
(* model stops there.                                                      *)
remove_value(q, v) ==
  IF \A k \in Places : q.ram_queue[k] # v THEN q
  ELSE LET r == Shifted(q, v)
       IN IF q.last # None /\ Queued(r) = Queued(q) \ {v} THEN r ELSE [q EXCEPT !.broken = TRUE]
-----------------------------------------------------------------------------
(* The replacement policies.                                               *)
Ones(n) == Cardinality({b \in 0..(AGE_BITS - 1) : (n \div 2^b) % 2 = 1})

LeastBy(q, Measure(_)) ==
  Lowest({i \in InRam(q) : \A j \in InRam(q) :
             Measure(q.all_pages[i].age) <= Measure(q.all_pages[j].age)})

NFUA_page(q) == LeastBy(q, LAMBDA a : a)
LAPA_page(q) == LeastBy(q, Ones)

\* Variant: takes the first in the queue.
FirstTurn(s, n) ==
  LET i == s.q.ram_queue[s.q.first]
      d == dequeue(s.q)
  IN IF s.index = None THEN [q |-> d, index |-> i]
     ELSE [s EXCEPT !.q = enqueue(d, i)]

(* One turn of the loop in SCFIFO_page. *)
SecondChance(s, n) ==
  LET i == s.q.ram_queue[s.q.first]
      a == s.q.all_pages[i].v_addr
      d == dequeue(s.q)
  IN IF s.index = None /\ a \notin s.q.accessed THEN [q |-> d, index |-> i]
     ELSE IF s.index = None THEN [s EXCEPT !.q = enqueue([d EXCEPT !.accessed = @ \ {a}], i)]
     ELSE [s EXCEPT !.q = enqueue(d, i)]

SCFIFO_page(q) ==
  LET s == FoldLeft(SecondChance, [q |-> q, index |-> None], [n \in 1..MAX_PSYC_PAGES |-> n])
  IN IF s.index # None THEN s
     ELSE [q |-> dequeue(s.q), index |-> s.q.ram_queue[s.q.first]]

select_page(q) ==
  CASE selection = "NFUA" -> [q |-> q, index |-> NFUA_page(q)]
    [] selection = "LAPA" -> [q |-> q, index |-> LAPA_page(q)]
    [] selection = "SCFIFO" -> SCFIFO_page(q)
-----------------------------------------------------------------------------
\* Variant: does not look at occupied.
FirstPlace(q) == Lowest(Places)

find_free_place(q) == Lowest(Places \ q.occupied)

(* Out to the swap file.  The page must be there: if the table has it      *)
(* twice, a frame is freed twice.                                          *)
page_to_file(q) ==
  LET s == select_page(q)
      i == s.index
      a == q.all_pages[i].v_addr
      place == find_free_place(q)
  IN IF q.occupied = Places THEN [q EXCEPT !.panic = TRUE]
     ELSE IF a \notin q.valid THEN [q EXCEPT !.broken = TRUE]
     ELSE [s.q EXCEPT !.all_pages[i].offset = place,
                      !.all_pages[i].in_RAM = FALSE,
                      !.ram_pages = @ - 1,
                      !.occupied = @ \cup {place},
                      !.swap[place] = IF a \in q.intact THEN a ELSE None,
                      !.valid = @ \ {a},
                      !.paged = @ \cup {a},
                      !.intact = @ \ {a}]

MakeRoom(q) == IF q.ram_pages >= MAX_PSYC_PAGES THEN page_to_file(q) ELSE q

\* Variant: the place in the swap file stays taken.
PageToRamKeepsPlace(q, i) ==
  LET r == MakeRoom(q)
      a == q.all_pages[i].v_addr
      place == q.all_pages[i].offset
      s == [r EXCEPT !.all_pages[i].in_RAM = TRUE,
                     !.all_pages[i].age = IF selection = "SCFIFO" THEN @ ELSE InitialAge,
                     !.ram_pages = @ + 1,
                     !.valid = @ \cup {a},
                     !.paged = @ \ {a},
                     !.accessed = @ \ {a},
                     !.intact = IF r.swap[place] = a THEN @ \cup {a} ELSE @]
  IN IF r.panic \/ r.broken THEN r
     ELSE IF selection = "SCFIFO" THEN enqueue(s, i) ELSE s

page_to_RAM(q, i) ==
  LET r == MakeRoom(q)
      a == q.all_pages[i].v_addr
      place == q.all_pages[i].offset
      s == [r EXCEPT !.all_pages[i].in_RAM = TRUE,
                     !.all_pages[i].age = IF selection = "SCFIFO" THEN @ ELSE InitialAge,
                     !.ram_pages = @ + 1,
                     !.occupied = @ \ {place},
                     !.swap[place] = None,
                     !.valid = @ \cup {a},
                     !.paged = @ \ {a},
                     !.accessed = @ \ {a},
                     !.intact = IF r.swap[place] = a THEN @ \cup {a} ELSE @]
  IN IF r.panic \/ r.broken THEN r
     ELSE IF selection = "SCFIFO" THEN enqueue(s, i) ELSE s

\* Variant: aloc_pages still counts the page.
RemovePageKeepsCount(q, a) ==
  LET found == {i \in Allocated(q) : q.all_pages[i].v_addr = a}
      i == Lowest(found)
      r == IF selection = "SCFIFO" THEN remove_value(q, i) ELSE q
  IN IF found = {} THEN q
     ELSE IF i \in InFile(q) THEN q
     ELSE [r EXCEPT !.all_pages[i] = [is_allocated |-> FALSE, in_RAM |-> FALSE, offset |-> None,
                                      v_addr |-> 0, age |-> InitialAge],
                    !.ram_pages = @ - 1]

(* A page that is in the swap file stays in the table. *)
remove_page(q, a) ==
  LET found == {i \in Allocated(q) : q.all_pages[i].v_addr = a}
      i == Lowest(found)
      r == IF selection = "SCFIFO" THEN remove_value(q, i) ELSE q
  IN IF found = {} THEN q
     ELSE IF i \in InFile(q) THEN q
     ELSE [r EXCEPT !.all_pages[i] = [is_allocated |-> FALSE, in_RAM |-> FALSE, offset |-> None,
                                      v_addr |-> 0, age |-> InitialAge],
                    !.ram_pages = @ - 1,
                    !.aloc_pages = @ - 1]

remove_pages(q, from, n) == FoldLeft(remove_page, q, [k \in 1..n |-> from + k - 1])

alloc_page(q, a) ==
  LET i == Lowest(Index \ Allocated(q))
      r == [q EXCEPT !.all_pages[i].is_allocated = TRUE,
                     !.all_pages[i].v_addr = a,
                     !.all_pages[i].in_RAM = TRUE,
                     !.ram_pages = @ + 1,
                     !.aloc_pages = @ + 1]
  IN IF Allocated(q) = Index THEN q
     ELSE IF selection = "SCFIFO" THEN enqueue(r, i) ELSE r

alloc_pages(q, from, n) == FoldLeft(alloc_page, q, [k \in 1..n |-> from + k - 1])

(* mappages of a new page of zeroes. *)
Map(q, S) ==
  [q EXCEPT !.valid = @ \cup S,
            !.accessed = @ \ S,
            !.intact = @ \cup S]

(* alloc_page_data *)
EmptyTable ==
  [i \in Index |-> [is_allocated |-> FALSE, in_RAM |-> FALSE, offset |-> None,
                    v_addr |-> None, age |-> InitialAge]]

alloc_page_data(q) ==
  [q EXCEPT !.all_pages = EmptyTable, !.aloc_pages = 0, !.ram_pages = 0,
            !.first = None, !.last = None,
            !.ram_queue = [k \in Places |-> None], !.occupied = {}]

(* exec: an image of n pages of which all but the first are in the table,  *)
(* and then the old image is freed, which looks for its pages in the same  *)
(* table.  Images that do not fit into RAM are left out: they would swap   *)
(* out pages of the old page table.                                        *)
Image(q, n, oldsz) ==
  LET r == Map(alloc_pages([alloc_page_data(q) EXCEPT !.valid = {}, !.intact = {}], 1, n - 1), 0..(n - 1))
  IN [remove_pages(r, 0, oldsz)
        EXCEPT !.sz = n, !.paged = {}, !.accessed = {}, !.forgotten = {},
               !.swap = [x \in Places |-> None]]

Blank ==
  [all_pages |-> EmptyTable, aloc_pages |-> 0, ram_pages |-> 0, occupied |-> {},
   ram_queue |-> [k \in Places |-> None], first |-> None, last |-> None,
   sz |-> 0, valid |-> {}, paged |-> {}, accessed |-> {},
   swap |-> [x \in Places |-> None], intact |-> {}, forgotten |-> {},
   panic |-> FALSE, broken |-> FALSE]

Images == 1..(MAX_PSYC_PAGES + 1)

Init == /\ selection \in Policies
        /\ growing = 0 /\ calls = 0
        /\ \E n \in Images : p = Image(Blank, n, 0)
-----------------------------------------------------------------------------
Goes == ~p.panic /\ ~p.broken
InUser == Goes /\ growing = 0
Call == InUser /\ calls < MaxCalls /\ calls' = calls + 1

(* A load or store.  PTE_A of pages that are not in the table is nobody's  *)
(* business.                                                               *)
Access(a) ==
  /\ InUser /\ a \in p.valid
  /\ \E i \in InRam(p) : p.all_pages[i].v_addr = a
  /\ p' = [p EXCEPT !.accessed = @ \cup {a}]
  /\ UNCHANGED <<selection, growing, calls>>

(* usertrap, scause 13 or 15: the first entry with the address.            *)
PageFault(a) ==
  LET i == Lowest({j \in Index : p.all_pages[j].v_addr = a}) IN
  /\ InUser /\ a \in p.paged
  /\ \E j \in Index : p.all_pages[j].v_addr = a
  /\ p' = IF p.all_pages[i].offset = None THEN [p EXCEPT !.broken = TRUE] ELSE page_to_RAM(p, i)
  /\ UNCHANGED <<selection, growing, calls>>

(* scheduler: the process has given up the CPU. *)
Aging ==
  /\ Goes /\ selection \in {"NFUA", "LAPA"}
  /\ p' = [p EXCEPT !.all_pages = [i \in Index |->
             IF i \in InRam(p)
             THEN [@[i] EXCEPT !.age = (@ \div 2) + (IF p.all_pages[i].v_addr \in p.accessed
                                                     THEN 2^(AGE_BITS - 1) ELSE 0)]
             ELSE @[i]]]
  /\ UNCHANGED <<selection, growing, calls>>

(* growproc and uvmalloc: the first page of a call is not put into the     *)
(* table. *)
Grow(n) ==
  /\ Call /\ p.sz + n <= MaxPage + 1
  /\ p' = [Map(p, {p.sz}) EXCEPT !.sz = @ + 1]
  /\ growing' = IF n = 1 THEN 0 ELSE p.sz + n
  /\ UNCHANGED selection

GrowMore ==
  LET r == MakeRoom(p) IN
  /\ Goes /\ growing # 0
  /\ p' = IF p.aloc_pages >= MAX_TOTAL_PAGES THEN [p EXCEPT !.panic = TRUE]
          ELSE IF r.panic \/ r.broken THEN r
          ELSE [alloc_page(Map(r, {p.sz}), p.sz) EXCEPT !.sz = @ + 1]
  /\ growing' = IF p.sz + 1 = growing THEN 0 ELSE growing
  /\ UNCHANGED <<selection, calls>>

(* uvmdealloc *)
Shrink(n) ==
  LET gone == (p.sz - n)..(p.sz - 1)
      r == remove_pages(p, p.sz - n, n)
  IN /\ Call /\ n < p.sz
     /\ p' = [r EXCEPT !.sz = @ - n,
                       !.valid = @ \ gone, !.paged = @ \ gone, !.accessed = @ \ gone,
                       !.intact = @ \ gone,
                       !.forgotten = @ \cup {a \in gone : \E i \in Allocated(r) : r.all_pages[i].v_addr = a}]
     /\ UNCHANGED <<selection, growing>>

(* fork, followed into the child: the pages in the file get new places, in *)
(* the order of the table.                                                 *)
Fork ==
  LET place(i) == Cardinality({j \in InFile(p) : j < i}) IN
  /\ Call
  /\ p' = [p EXCEPT
       !.all_pages = [i \in Index |-> [@[i] EXCEPT !.offset = IF i \in InFile(p) THEN place(i) ELSE None]],
       !.occupied = {place(i) : i \in InFile(p)},
       !.swap = [x \in Places |->
          IF \E i \in InFile(p) : place(i) = x
          THEN LET i == CHOOSE i \in InFile(p) : place(i) = x
               IN IF p.all_pages[i].offset = None THEN None ELSE @[p.all_pages[i].offset]
          ELSE None]]
  /\ UNCHANGED <<selection, growing>>

(* wait frees a child of n pages, with the table of the process itself.    *)
Wait(n) ==
  /\ Call
  /\ p' = remove_pages(p, 0, n)
  /\ UNCHANGED <<selection, growing>>

Exec(n) ==
  /\ Call
  /\ p' = Image(p, n, p.sz)
  /\ UNCHANGED <<selection, growing>>

(* There is no such file: the table is empty and stays so. *)
ExecNoFile ==
  /\ Call
  /\ p' = [alloc_page_data(p) EXCEPT !.forgotten = @ \cup p.paged]
  /\ UNCHANGED <<selection, growing>>

(* The file is no program, or fails after n pages: the table is restored   *)
(* without ages and places, and the n pages are freed.                     *)
ExecBad(n) ==
  LET restored == [p EXCEPT
        !.all_pages = [i \in Index |-> [@[i] EXCEPT !.offset = None, !.age = InitialAge]],
        !.forgotten = @ \cup p.paged]
  IN /\ Call
     /\ p' = remove_pages(restored, 0, n)
     /\ UNCHANGED <<selection, growing>>

Sizes == 1..(MaxPage + 1)

Next ==
  \/ \E a \in Addrs : PageFault(a) \/ Access(a)
  \/ Aging \/ GrowMore \/ Fork \/ ExecNoFile
  \/ \E n \in Sizes : Grow(n) \/ Shrink(n) \/ Wait(n)
  \/ \E n \in Images : Exec(n) \/ ExecBad(n - 1)

Spec == Init /\ [][Next]_vars
-----------------------------------------------------------------------------
(* The counters count the entries, no more than MAX_PSYC_PAGES of them say *)
(* that they are in RAM, each one in the file has a place of its own, and  *)
(* what SCFIFO chooses from are the pages in RAM.                          *)
TableConsistent ==
  /\ TypeOK
  /\ ~p.broken =>
      /\ p.ram_pages = Cardinality(InRam(p)) /\ p.ram_pages <= MAX_PSYC_PAGES
      /\ p.aloc_pages = Cardinality(Allocated(p))
      /\ Cardinality(p.occupied) = Cardinality(InFile(p))
      /\ \A i, j \in InFile(p) : LET x == p.all_pages[i].offset IN
            x # None => x \in p.occupied /\ (x = p.all_pages[j].offset => i = j)
      /\ selection = "SCFIFO" => Queued(p) = InRam(p)

(* Every page has the contents that it should have, in RAM or where a page *)
(* fault will look for it: unless the table has lost track of the page,    *)
(* because it was freed while it was in the file or because exec failed.   *)
ContentsSurvive ==
  ~p.broken =>
    \A a \in (0..(p.sz - 1)) \ p.forgotten :
      \/ a \in p.valid /\ a \in p.intact
      \/ /\ a \in p.paged
         /\ \E i \in InFile(p) :
              /\ \A j \in Index : p.all_pages[j].v_addr = a => i <= j
              /\ p.all_pages[i].v_addr = a
              /\ p.swap[p.all_pages[i].offset] = a

(* The kernel panics only when all entries are in use: one page more, or a *)
(* page fault, which needs a place for the page that has to make room.     *)
PanicsOnlyWhenFull == p.panic => Allocated(p) = Index

(* A page that is swapped out is the one that the policy says, judged by   *)
(* what is known before the step: least age, least ones, or not accessed   *)
(* if there is such a page.                                                *)
Victims == {i \in InRam(p) : i \in InFile(p)'}
VictimIsRight ==
  [][\A i \in Victims : \A j \in InRam(p) :
       LET x == p.all_pages[i]
           y == p.all_pages[j]
       IN CASE selection = "NFUA" -> x.age <= y.age
            [] selection = "LAPA" -> Ones(x.age) <= Ones(y.age)
            [] selection = "SCFIFO" -> x.v_addr \in p.accessed => y.v_addr \in p.accessed]_vars
=============================================================================
