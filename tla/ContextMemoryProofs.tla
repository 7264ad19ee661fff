------------------------ MODULE ContextMemoryProofs -------------------------
(***************************************************************************)
(* Theorems about ContextMemory, for every set of addresses, every width   *)
(* of size_t and every size of the header, with no bound on the calls.     *)
(***************************************************************************)
EXTENDS ContextMemory, FiniteSetTheorems, TLAPS

-----------------------------------------------------------------------------
(* Sums over finite sets: what MapThenSumSet returns, whichever element it *)
(* chooses first.                                                          *)

Sum(g, S) == MapThenSumSet(LAMBDA b : g[b], S)

(* total is the sum of g over every subset of S.                           *)
Totals(g, S, total) ==
    /\ total \in [SUBSET S -> Nat]
    /\ total[{}] = 0
    /\ \A T \in SUBSET S : \A b \in S \ T : total[T \cup {b}] = total[T] + g[b]

LEMMA FiniteSubsetMinimal ==
  ASSUME NEW S, IsFiniteSet(S), NEW W \in SUBSET (SUBSET S), W # {}
  PROVE  \E T \in W : \A U \in W : ~ (U \subseteq T /\ U # T)
<1> DEFINE R == StrictSubsetOrdering(S)
<1>1. IsWellFoundedOn(R, FiniteSubsetsOf(S))
  BY FS_StrictSubsetOrderingWellFounded
<1>2. W \subseteq FiniteSubsetsOf(S)
  BY FS_Subset DEF FiniteSubsetsOf
<1> HIDE DEF R
<1>3. PICK T \in W : \A U \in W : <<U, T>> \notin R
  BY <1>1, <1>2, WFMin
<1>4. \A U \in W : U \subseteq T /\ U # T => <<U, T>> \in R
  BY DEF R, StrictSubsetOrdering
<1>5. \A U \in W : ~ (U \subseteq T /\ U # T)
  BY <1>3, <1>4, Zenon
<1> QED
  BY <1>5

(* A total leaves one value for the sum: the recursive function that       *)
(* MapThenSumSet chooses agrees with it, for a least subset on which the   *)
(* two differ would not be least.                                          *)
LEMMA SumIsTotal ==
  ASSUME NEW S, IsFiniteSet(S), NEW g, NEW total, Totals(g, S, total), \A b \in S : g[b] \in Nat
  PROVE  Sum(g, S) = total[S]
<1> DEFINE pick(s) == CHOOSE x \in s : TRUE
           Step(f) == [s \in SUBSET S |-> IF s = {} THEN 0 ELSE g[pick(s)] + f[s \ {pick(s)}]]
           iter == CHOOSE f : f = Step(f)
<1>1. Sum(g, S) = iter[S]
  BY DEF Sum, MapThenSumSet, MapThenFoldSet
<1>2. ASSUME NEW s \in SUBSET S, s # {}
      PROVE  /\ pick(s) \in s /\ s \ {pick(s)} \in SUBSET S
             /\ total[s] = g[pick(s)] + total[s \ {pick(s)}]
  <2>1. pick(s) \in s
    BY <1>2
  <2> HIDE DEF pick
  <2>2. s = (s \ {pick(s)}) \cup {pick(s)} /\ pick(s) \in S \ (s \ {pick(s)})
        /\ s \ {pick(s)} \in SUBSET S
    BY <2>1
  <2>3. total[(s \ {pick(s)}) \cup {pick(s)}] = total[s \ {pick(s)}] + g[pick(s)]
    BY <2>2 DEF Totals
  <2>4. total[s \ {pick(s)}] \in Nat /\ g[pick(s)] \in Nat
    BY <2>1 DEF Totals
  <2>5. total[s] = total[s \ {pick(s)}] + g[pick(s)]
    BY <2>2, <2>3
  <2> QED
    BY <2>1, <2>2, <2>4, <2>5
<1>3. total = Step(total)
  <2>1. \A s \in SUBSET S :
          total[s] = IF s = {} THEN 0 ELSE g[pick(s)] + total[s \ {pick(s)}]
    BY <1>2 DEF Totals
  <2> HIDE DEF pick
  <2> QED
    BY <2>1 DEF Totals
<1>4. iter = Step(iter)
  <2> HIDE DEF Step
  <2> QED
    BY <1>3
<1> DEFINE W == {s \in SUBSET S : iter[s] # total[s]}
<1>5. W = {}
  <2> SUFFICES ASSUME W # {} PROVE FALSE
    OBVIOUS
  <2>1. PICK s \in W : \A U \in W : ~ (U \subseteq s /\ U # s)
    <3>1. W \in SUBSET (SUBSET S)
      OBVIOUS
    <3> HIDE DEF W
    <3> QED
      BY <3>1, FiniteSubsetMinimal
  <2> HIDE DEF iter, pick
  <2>2. iter[s] = IF s = {} THEN 0 ELSE g[pick(s)] + iter[s \ {pick(s)}]
    BY <1>4
  <2>3. s # {} /\ s \in SUBSET S
    BY <2>1, <2>2 DEF Totals
  <2>4. s \ {pick(s)} \in SUBSET S /\ s \ {pick(s)} \subseteq s /\ s \ {pick(s)} # s
    BY <1>2, <2>3
  <2>5. iter[s \ {pick(s)}] = total[s \ {pick(s)}]
    BY <2>1, <2>4
  <2>6. iter[s] = total[s]
    BY <1>2, <2>2, <2>3, <2>5
  <2> QED
    BY <2>1, <2>6
<1> QED
  BY <1>1, <1>5

(* Every finite set has a total: the least subset without one would get it *)
(* from what is left when an element is taken away.                        *)
LEMMA TotalExists ==
  ASSUME NEW S, IsFiniteSet(S), NEW g, \A b \in S : g[b] \in Nat
  PROVE  \E total : Totals(g, S, total)
<1> DEFINE W == {T \in SUBSET S : ~ \E total : Totals(g, T, total)}
<1> SUFFICES W = {}
  OBVIOUS
<1> SUFFICES ASSUME W # {} PROVE FALSE
  OBVIOUS
<1>1. PICK T \in W : \A U \in W : ~ (U \subseteq T /\ U # T)
  <2>1. W \in SUBSET (SUBSET S)
    OBVIOUS
  <2> HIDE DEF W
  <2> QED
    BY <2>1, FiniteSubsetMinimal
<1>2. CASE T = {}
  <2>1. Totals(g, T, [X \in SUBSET T |-> 0])
    BY <1>2 DEF Totals
  <2> QED
    BY <1>1, <2>1
<1>3. CASE T # {}
  <2>1. PICK b \in T : TRUE
    BY <1>3
  <2>2. T \ {b} \in SUBSET S /\ T \ {b} \notin W
    BY <1>1, <2>1
  <2>3. PICK t : Totals(g, T \ {b}, t)
    BY <2>2
  <2> DEFINE U == [X \in SUBSET T |-> IF b \in X THEN t[X \ {b}] + g[b] ELSE t[X]]
  <2>4. g[b] \in Nat
    BY <2>1
  <2>5. U \in [SUBSET T -> Nat]
    BY <2>3, <2>4 DEF Totals
  <2>6. U[{}] = 0
    BY <2>3 DEF Totals
  <2>7. ASSUME NEW X \in SUBSET T, NEW c \in T \ X
        PROVE  U[X \cup {c}] = U[X] + g[c]
    <3>1. CASE c = b
      <4>1. (X \cup {c}) \ {b} = X /\ b \notin X
        BY <3>1
      <4> QED
        BY <3>1, <4>1
    <3>2. CASE c # b /\ b \in X
      <4>1. (X \cup {c}) \ {b} = (X \ {b}) \cup {c} /\ X \ {b} \in SUBSET (T \ {b})
            /\ c \in (T \ {b}) \ (X \ {b}) /\ X \cup {c} \in SUBSET T
        BY <3>2
      <4>2. t[(X \ {b}) \cup {c}] = t[X \ {b}] + g[c] /\ t[X \ {b}] \in Nat
        BY <2>3, <4>1 DEF Totals
      <4>3. U[X \cup {c}] = t[(X \ {b}) \cup {c}] + g[b] /\ U[X] = t[X \ {b}] + g[b]
        BY <3>2, <4>1
      <4> QED
        BY <2>4, <4>2, <4>3
    <3>3. CASE c # b /\ b \notin X
      <4>1. X \in SUBSET (T \ {b}) /\ c \in (T \ {b}) \ X /\ X \cup {c} \in SUBSET T
            /\ b \notin X \cup {c}
        BY <3>3
      <4>2. t[X \cup {c}] = t[X] + g[c]
        BY <2>3, <4>1 DEF Totals
      <4> QED
        BY <3>3, <4>1, <4>2
    <3> QED
      BY <3>1, <3>2, <3>3
  <2>8. Totals(g, T, U)
    <3> HIDE DEF U
    <3> QED
      BY <2>5, <2>6, <2>7 DEF Totals
  <2> QED
    BY <1>1, <2>8
<1> QED
  BY <1>2, <1>3

LEMMA SumEmpty ==
  ASSUME NEW g
  PROVE  Sum(g, {}) = 0
<1>1. PICK total : Totals(g, {}, total)
  BY TotalExists, FS_EmptySet
<1>2. Sum(g, {}) = total[{}]
  BY <1>1, SumIsTotal, FS_EmptySet
<1> QED
  BY <1>1, <1>2 DEF Totals

LEMMA SumNat ==
  ASSUME NEW S, IsFiniteSet(S), NEW g, \A b \in S : g[b] \in Nat
  PROVE  Sum(g, S) \in Nat
<1>1. PICK total : Totals(g, S, total)
  BY TotalExists
<1>2. Sum(g, S) = total[S]
  BY <1>1, SumIsTotal
<1>3. total[S] \in Nat
  BY <1>1 DEF Totals
<1> QED
  BY <1>2, <1>3

(* The sum asks for the values on its set only.                            *)
LEMMA SumSame ==
  ASSUME NEW S, IsFiniteSet(S), NEW g, NEW h, \A b \in S : g[b] \in Nat /\ h[b] = g[b]
  PROVE  Sum(h, S) = Sum(g, S)
<1>1. PICK total : Totals(g, S, total)
  BY TotalExists
<1>2. Totals(h, S, total)
  BY <1>1 DEF Totals
<1>3. Sum(g, S) = total[S]
  BY <1>1, SumIsTotal
<1>4. Sum(h, S) = total[S]
  BY <1>2, SumIsTotal
<1> QED
  BY <1>3, <1>4

(* One element more adds its value.                                        *)
LEMMA SumAdd ==
  ASSUME NEW S, IsFiniteSet(S), NEW x, x \notin S, NEW g, \A b \in S \cup {x} : g[b] \in Nat
  PROVE  Sum(g, S \cup {x}) = Sum(g, S) + g[x]
<1>1. IsFiniteSet(S \cup {x})
  BY FS_AddElement
<1>2. PICK total : Totals(g, S \cup {x}, total)
  BY <1>1, TotalExists
<1> DEFINE part == [T \in SUBSET S |-> total[T]]
<1>3. Totals(g, S, part)
  <2>1. part \in [SUBSET S -> Nat] /\ part[{}] = 0
    BY <1>2 DEF Totals
  <2>2. ASSUME NEW T \in SUBSET S, NEW b \in S \ T PROVE part[T \cup {b}] = part[T] + g[b]
    <3>1. T \in SUBSET (S \cup {x}) /\ b \in (S \cup {x}) \ T /\ T \cup {b} \in SUBSET S
      OBVIOUS
    <3>2. total[T \cup {b}] = total[T] + g[b]
      BY <1>2, <3>1 DEF Totals
    <3> QED
      BY <3>1, <3>2
  <2> HIDE DEF part
  <2> QED
    BY <2>1, <2>2 DEF Totals
<1>4. Sum(g, S) = part[S]
  <2> HIDE DEF part
  <2> QED
    BY <1>3, SumIsTotal
<1>5. Sum(g, S \cup {x}) = total[S \cup {x}]
  BY <1>1, <1>2, SumIsTotal
<1>6. total[S \cup {x}] = total[S] + g[x]
  BY <1>2 DEF Totals
<1> QED
  BY <1>4, <1>5, <1>6

(* The bytes of the blocks of f, and what the allocator's two updates of   *)
(* size do to them.                                                        *)
Bytes(f) == Sum(f, DOMAIN f)

LEMMA BytesPut ==
  ASSUME NEW f, IsFiniteSet(DOMAIN f), \A x \in DOMAIN f : f[x] \in Nat,
         NEW b, b \notin DOMAIN f, NEW n \in Nat
  PROVE  Bytes(Put(f, b, n)) = Bytes(f) + n
<1> DEFINE h == Put(f, b, n)
<1>1. DOMAIN h = DOMAIN f \cup {b} /\ h[b] = n /\ \A x \in DOMAIN f : h[x] = f[x]
  BY DEF Put
<1> HIDE DEF h
<1>2. Sum(h, DOMAIN f \cup {b})
        = Sum(h, DOMAIN f) + h[b]
  BY <1>1, SumAdd
<1>3. Sum(h, DOMAIN f) = Sum(f, DOMAIN f)
  BY <1>1, SumSame
<1>4. Bytes(h) = Bytes(f) + n
  BY <1>1, <1>2, <1>3 DEF Bytes
<1> QED
  BY <1>4 DEF h

LEMMA BytesDrop ==
  ASSUME NEW f, IsFiniteSet(DOMAIN f), \A x \in DOMAIN f : f[x] \in Nat, NEW b \in DOMAIN f
  PROVE  Bytes(f) = Bytes(Drop(f, b)) + f[b]
<1> DEFINE h == Drop(f, b)
<1>1. DOMAIN h = DOMAIN f \ {b} /\ \A x \in DOMAIN h : h[x] = f[x]
  BY DEF Drop
<1> HIDE DEF h
<1>2. IsFiniteSet(DOMAIN h)
  BY <1>1, FS_RemoveElement
<1>3. DOMAIN f = DOMAIN h \cup {b} /\ b \notin DOMAIN h
  BY <1>1
<1>4. Sum(f, DOMAIN h \cup {b})
        = Sum(f, DOMAIN h) + f[b]
  BY <1>2, <1>3, SumAdd
<1>5. Sum(h, DOMAIN h) = Sum(f, DOMAIN h)
  BY <1>1, <1>2, <1>3, SumSame
<1>6. Bytes(f) = Bytes(h) + f[b]
  BY <1>3, <1>4, <1>5 DEF Bytes
<1> QED
  BY <1>6 DEF h
-----------------------------------------------------------------------------
(* The inductive invariant *)

(* What is under construction, complete, released or collected owns, and   *)
(* what may run.                                                           *)
OwnedInv ==
    /\ nif = "destructor" <=> step = "collecting"
    /\ nif \in {"js", "gc", "destroy"} => step = "done"
    /\ Live # {} => step \in {"heap", "pending_env", "done", "collecting"}
    /\ step \in {"event_env", "lock", "heap", "pending_env", "released"}
         => owned["pending_env"] = "null" /\ owned["resume_code"] = "null"
    /\ step \in {"event_env", "lock", "heap"} => owned["ctx"] = "null"
    /\ step \in {"event_env", "lock"} => owned["lock"] = "null"
    /\ step \in {"event_env", "lock", "heap", "pending_env", "done"}
         => \A x \in Pointers : owned[x] # "freed"
    /\ step \in {"released", "collected"} => \A x \in Pointers : owned[x] # "live"

(* The members that were freed and kept are those of a failure that is not *)
(* pending_env's, and the destructor passes those by.                      *)
MisuseInv ==
    /\ ~misused
    /\ step = "released" => owned["lock"] = "null"
    /\ step = "collecting" => \A x \in Pointers : owned[x] # "freed"

IInv == TypeOK /\ OwnedInv /\ BlocksHold /\ MetricsAreExact

LEMMA InitInv == Init => IInv /\ MisuseInv
<1> SUFFICES ASSUME Init PROVE IInv /\ MisuseInv
  OBVIOUS
<1>1. DOMAIN size = {} /\ DOMAIN room = {}
  BY DEF Init, Empty
<1>2. TypeOK
  BY <1>1 DEF Init, TypeOK
<1>3. OwnedInv
  BY <1>1 DEF Init, OwnedInv, Live, Pointers
<1>4. MetricsAreExact
  <2>1. Sum(size, Live) = 0 /\ Cardinality(Live) = 0
    BY <1>1, SumEmpty, FS_EmptySet DEF Live
  <2> QED
    BY <2>1 DEF Init, MetricsAreExact, Sum
<1>5. MisuseInv
  BY DEF Init, MisuseInv
<1> QED
  BY <1>1, <1>2, <1>3, <1>4, <1>5 DEF IInv, BlocksHold, Live

LEMMA OwnedStep ==
  ASSUME IInv, Next
  PROVE  OwnedInv'
<1> USE DEF IInv, OwnedInv, heapVars, metrics, Live, Pointers
<1>1. CASE Construct
  <2>1. CASE NewEventEnv
    BY <2>1 DEF NewEventEnv, TypeOK
  <2>2. CASE NewLock
    BY <2>2 DEF NewLock, NewMember, TypeOK
  <2>3. CASE NewHeap
    BY <2>3 DEF NewHeap, NewMember, TypeOK
  <2>4. CASE NewPendingEnv
    BY <2>4 DEF NewPendingEnv, NewMember, TypeOK
  <2>5. CASE NewFails
    BY <2>5, MemoryAssumption DEF NewFails, FailureFrees, Released, TypeOK
  <2> QED
    BY <1>1, <2>1, <2>2, <2>3, <2>4, <2>5 DEF Construct
<1>2. CASE Allocator
  <2>1. step \in {"heap", "pending_env", "done", "collecting"}
    BY <1>2 DEF Allocator, Alloc, Realloc, Free, HeapInUse, Building
  <2>2. UNCHANGED <<step, owned, nif>>
    BY <1>2 DEF Allocator, Alloc, Realloc, Free
  <2> QED
    BY <2>1, <2>2
<1>3. CASE Api
  <2>1. CASE EnterHeap \/ DestroyAgain \/ EnterDestroy
    BY <2>1 DEF EnterHeap, EnterNif, DestroyAgain, EnterDestroy
  <2>2. CASE LeaveGc
    BY <2>2 DEF LeaveGc
  <2>3. CASE LeaveJs
    BY <2>3 DEF LeaveJs, TypeOK
  <2>4. CASE LeaveDestroy
    BY <2>4 DEF LeaveDestroy, Released, TypeOK
  <2> QED
    BY <1>3, <2>1, <2>2, <2>3, <2>4 DEF Api
<1>4. CASE Destruct
  <2>1. CASE CollectNothing
    BY <2>1 DEF CollectNothing
  <2>2. CASE EnterDestructor
    BY <2>2 DEF EnterDestructor
  <2>3. CASE LeaveDestructor
    BY <2>3 DEF LeaveDestructor, Released, MembersFreed
  <2> QED
    BY <1>4, <2>1, <2>2, <2>3 DEF Destruct
<1>5. CASE Collected
  BY <1>5 DEF Collected, vars
<1> QED
  BY <1>1, <1>2, <1>3, <1>4, <1>5 DEF Next

LEMMA MisuseStep ==
  ASSUME "pending_env" \notin Failing, IInv, MisuseInv, Next
  PROVE  MisuseInv'
<1> USE DEF IInv, OwnedInv, MisuseInv
<1>1. CASE Construct
  <2>1. CASE NewFails
    BY <2>1, MemoryAssumption DEF NewFails, FailureFrees, Released, Pointers
  <2>2. CASE ~NewFails
    BY <1>1, <2>2 DEF Construct, NewEventEnv, NewLock, NewHeap, NewPendingEnv, NewMember
  <2> QED
    BY <2>1, <2>2
<1>2. CASE Allocator
  BY <1>2 DEF Allocator, Alloc, Realloc, Free
<1>3. CASE Api
  BY <1>3 DEF Api, EnterHeap, EnterNif, LeaveGc, LeaveJs, DestroyAgain, EnterDestroy, LeaveDestroy
<1>4. CASE Destruct
  <2>1. CASE CollectNothing
    BY <2>1 DEF CollectNothing
  <2>2. CASE EnterDestructor
    BY <2>2 DEF EnterDestructor, Pointers
  <2>3. CASE LeaveDestructor
    BY <2>3 DEF LeaveDestructor, MembersFreed
  <2> QED
    BY <1>4, <2>1, <2>2, <2>3 DEF Destruct
<1>5. CASE Collected
  BY <1>5 DEF Collected, vars
<1> QED
  BY <1>1, <1>2, <1>3, <1>4, <1>5 DEF Next

-----------------------------------------------------------------------------
(* The allocator *)

(* A block that passes the test gets the room that was asked for.          *)
LEMMA RequestedFits ==
  ASSUME NEW n \in 0..SizeMax, Fits(n)
  PROVE  n \in 1..SizeMax /\ Requested(n) = Header + n /\ Requested(n) \in Nat
<1>1. SizeMax \in Nat /\ Header \in Nat /\ n \in Nat /\ n # 0 /\ Header + n <= SizeMax
  BY MemoryAssumption DEF Fits
<1>2. (Header + n) % (SizeMax + 1) = Header + n
  BY <1>1
<1> QED
  BY <1>1, <1>2 DEF Requested

(* The two maps of the blocks are of one kind, and every block has room.   *)
BlocksOk(s, r) ==
    /\ DOMAIN s \subseteq Blocks /\ DOMAIN r = DOMAIN s
    /\ \A b \in DOMAIN s : s[b] \in 1..SizeMax /\ r[b] \in Nat /\ r[b] >= Header + s[b]

LEMMA BlocksOkPut ==
  ASSUME NEW s, NEW r, BlocksOk(s, r), NEW b \in Blocks, NEW n \in 0..SizeMax, Fits(n)
  PROVE  BlocksOk(Put(s, b, n), Put(r, b, Requested(n)))
<1>1. n \in 1..SizeMax /\ Requested(n) = Header + n /\ Requested(n) \in Nat
  BY RequestedFits
<1>2. Requested(n) >= Header + n
  BY <1>1
<1> QED
  BY <1>1, <1>2 DEF BlocksOk, Put

LEMMA BlocksOkDrop ==
  ASSUME NEW s, NEW r, BlocksOk(s, r), NEW b
  PROVE  BlocksOk(Drop(s, b), Drop(r, b))
  BY DEF BlocksOk, Drop

LEMMA BlocksFinite ==
  ASSUME NEW s, NEW r, BlocksOk(s, r)
  PROVE  /\ IsFiniteSet(DOMAIN s)
         /\ \A b \in DOMAIN s : s[b] \in Nat
         /\ Bytes(s) \in Nat /\ Cardinality(DOMAIN s) \in Nat
<1>1. IsFiniteSet(DOMAIN s)
  BY MemoryAssumption, FS_Subset DEF BlocksOk
<1>2. \A b \in DOMAIN s : s[b] \in Nat
  BY MemoryAssumption DEF BlocksOk
<1> QED
  BY <1>1, <1>2, SumNat, FS_CardinalityType DEF Bytes

(* The part of the invariant that the allocator works on.                  *)
HeapOk ==
    /\ BlocksOk(size, room)
    /\ heapBytes = Bytes(size)
    /\ heapPeak \in Nat /\ highest = heapPeak
    /\ allocCount \in Nat /\ reallocCount \in Nat /\ freeCount \in Nat
    /\ allocCount - freeCount = Cardinality(Live)

LEMMA HeapOkSame == IInv => HeapOk
  BY DEF IInv, TypeOK, BlocksHold, MetricsAreExact, HeapOk, BlocksOk, Bytes, Sum, Live

(* A peak that is counted is a natural number and the highest.             *)
LEMMA PeakCounted ==
  ASSUME HeapOk, NEW bytes \in Nat, Counted(bytes),
         highest' = IF bytes > highest THEN bytes ELSE highest
  PROVE  heapBytes' = bytes /\ heapPeak' \in Nat /\ highest' = heapPeak'
  BY DEF HeapOk, Counted

LEMMA AllocStep ==
  ASSUME HeapOk, Alloc
  PROVE  HeapOk'
<1>1. PICK n \in 0..SizeMax, b \in Blocks \ Live :
        /\ Fits(n)
        /\ size' = Put(size, b, n)
        /\ room' = Put(room, b, Requested(n))
        /\ Counted(heapBytes + n)
        /\ highest' = IF heapBytes + n > highest THEN heapBytes + n ELSE highest
  BY DEF Alloc
<1>2. IsFiniteSet(Live) /\ (\A x \in Live : size[x] \in Nat) /\ Bytes(size) \in Nat
      /\ Cardinality(Live) \in Nat /\ n \in Nat
  BY BlocksFinite, MemoryAssumption DEF HeapOk, Live
<1>3. BlocksOk(size, room)'
  BY <1>1, BlocksOkPut DEF HeapOk
<1>4. Bytes(size)' = heapBytes + n
  BY <1>1, <1>2, BytesPut DEF HeapOk, Live
<1>5. heapBytes' = heapBytes + n /\ heapPeak' \in Nat /\ highest' = heapPeak'
  <2>1. heapBytes + n \in Nat
    BY <1>2 DEF HeapOk
  <2> QED
    BY <1>1, <2>1, PeakCounted
<1>6. Cardinality(Live)' = Cardinality(Live) + 1
  <2>1. Live' = Live \cup {b}
    BY <1>1 DEF Put, Live
  <2> QED
    BY <1>2, <2>1, FS_AddElement
<1>7. allocCount' = allocCount + 1 /\ UNCHANGED <<reallocCount, freeCount>>
  BY DEF Alloc
<1> QED
  BY <1>2, <1>3, <1>4, <1>5, <1>6, <1>7 DEF HeapOk

LEMMA ReallocStep ==
  ASSUME HeapOk, Realloc
  PROVE  HeapOk'
<1>1. PICK n \in 0..SizeMax, b \in Live, to \in Blocks :
        /\ to = b \/ to \notin Live
        /\ Fits(n)
        /\ size' = Put(Drop(size, b), to, n)
        /\ room' = Put(Drop(room, b), to, Requested(n))
        /\ Counted(heapBytes - size[b] + n)
        /\ highest' = IF heapBytes - size[b] + n > highest
                      THEN heapBytes - size[b] + n ELSE highest
  BY DEF Realloc
<1> DEFINE rest == Drop(size, b)
<1>2. BlocksOk(rest, Drop(room, b)) /\ DOMAIN rest = Live \ {b} /\ to \notin DOMAIN rest
  BY <1>1, BlocksOkDrop DEF HeapOk, Drop, Live
<1>3. IsFiniteSet(Live) /\ (\A x \in Live : size[x] \in Nat) /\ n \in Nat
  BY BlocksFinite, MemoryAssumption DEF HeapOk, Live
<1>4. heapBytes = Bytes(rest) + size[b]
  BY <1>3, BytesDrop DEF HeapOk, Live
<1> HIDE DEF rest
<1>5. IsFiniteSet(DOMAIN rest) /\ (\A x \in DOMAIN rest : rest[x] \in Nat) /\ Bytes(rest) \in Nat
  BY <1>2, BlocksFinite
<1>6. size' = Put(rest, to, n)
  BY <1>1 DEF rest
<1>7. BlocksOk(size, room)'
  BY <1>1, <1>2, <1>6, BlocksOkPut
<1>8. heapBytes - size[b] + n = Bytes(rest) + n
  BY <1>3, <1>4, <1>5
<1>9. Bytes(size)' = Bytes(rest) + n
  BY <1>2, <1>3, <1>5, <1>6, BytesPut
<1>10. heapBytes' = Bytes(rest) + n /\ heapPeak' \in Nat /\ highest' = heapPeak'
  <2>1. Bytes(rest) + n \in Nat
    BY <1>3, <1>5
  <2> QED
    BY <1>1, <1>8, <2>1, PeakCounted
<1>11. Cardinality(Live)' = Cardinality(Live)
  <2>1. Live' = (Live \ {b}) \cup {to} /\ to \notin Live \ {b}
    BY <1>1, <1>2, <1>6 DEF Put, Live
  <2>2. Cardinality(Live \ {b}) = Cardinality(Live) - 1 /\ IsFiniteSet(Live \ {b})
    BY <1>1, <1>3, FS_RemoveElement
  <2>3. Cardinality((Live \ {b}) \cup {to}) = Cardinality(Live \ {b}) + 1
    BY <2>1, <2>2, FS_AddElement
  <2>4. Cardinality(Live) \in Nat
    BY <1>3, FS_CardinalityType
  <2> QED
    BY <2>1, <2>2, <2>3, <2>4
<1>12. reallocCount' = reallocCount + 1 /\ UNCHANGED <<allocCount, freeCount>>
  BY DEF Realloc
<1> QED
  BY <1>7, <1>9, <1>10, <1>11, <1>12 DEF HeapOk

LEMMA FreeStep ==
  ASSUME HeapOk, Free
  PROVE  HeapOk'
<1>1. PICK b \in Live : Freed(b)
  BY DEF Free
<1>2. BlocksOk(size, room)'
  BY <1>1, BlocksOkDrop DEF HeapOk, Freed
<1>3. IsFiniteSet(Live) /\ (\A x \in Live : size[x] \in Nat) /\ Cardinality(Live) \in Nat
  BY BlocksFinite DEF HeapOk, Live
<1>4. heapBytes = Bytes(size)' + size[b]
  BY <1>1, <1>3, BytesDrop DEF HeapOk, Freed, Live
<1>5. Bytes(size)' \in Nat
  BY <1>2, BlocksFinite
<1>6. heapBytes' = Bytes(size)'
  BY <1>1, <1>3, <1>4, <1>5 DEF Freed
<1>7. Cardinality(Live)' = Cardinality(Live) - 1
  <2>1. Live' = Live \ {b}
    BY <1>1 DEF Freed, Drop, Live
  <2> QED
    BY <1>1, <1>3, <2>1, FS_RemoveElement
<1>8. freeCount' = freeCount + 1 /\ UNCHANGED <<allocCount, reallocCount, heapPeak, highest>>
  BY <1>1 DEF Free, Freed
<1> QED
  BY <1>2, <1>3, <1>6, <1>7, <1>8 DEF HeapOk

LEMMA HeapStep ==
  ASSUME IInv, Next
  PROVE  HeapOk'
<1>1. CASE Allocator
  BY <1>1, HeapOkSame, AllocStep, ReallocStep, FreeStep DEF Allocator
<1>2. CASE ~Allocator
  <2>1. UNCHANGED heapVars
    BY <1>2 DEF Next, Construct, NewEventEnv, NewLock, NewHeap, NewPendingEnv, NewMember, NewFails,
    Api, EnterHeap, EnterNif, LeaveGc, LeaveJs, DestroyAgain, EnterDestroy, LeaveDestroy,
    Destruct, CollectNothing, EnterDestructor, LeaveDestructor, Collected, vars
  <2> QED
    BY <2>1, HeapOkSame DEF HeapOk, heapVars, metrics, Live
<1> QED
  BY <1>1, <1>2

LEMMA TypeStep ==
  ASSUME IInv, Next
  PROVE  /\ step' \in {"event_env", "lock", "heap", "pending_env", "done", "released",
                       "collecting", "collected"}
         /\ owned' \in [Pointers -> {"null", "live", "freed"}]
         /\ misused' \in BOOLEAN /\ destroyed' \in BOOLEAN
         /\ nif' \in {"none", "js", "gc", "destroy", "destructor"}
         /\ calls' \in Nat /\ gcRuns' \in Nat
<1> USE DEF IInv, TypeOK
<1>1. CASE Construct
  <2>1. CASE NewFails
    BY <2>1, MemoryAssumption DEF NewFails, FailureFrees, Released
  <2>2. CASE ~NewFails
    BY <1>1, <2>2 DEF Construct, NewEventEnv, NewLock, NewHeap, NewPendingEnv, NewMember
  <2> QED
    BY <2>1, <2>2
<1>2. CASE Allocator
  BY <1>2 DEF Allocator, Alloc, Realloc, Free
<1>3. CASE Api
  <2>1. CASE LeaveJs
    BY <2>1 DEF LeaveJs
  <2>2. CASE LeaveDestroy
    BY <2>2 DEF LeaveDestroy, Released
  <2>3. CASE ~LeaveJs /\ ~LeaveDestroy
    BY <1>3, <2>3 DEF Api, EnterHeap, EnterNif, LeaveGc, DestroyAgain, EnterDestroy
  <2> QED
    BY <2>1, <2>2, <2>3
<1>4. CASE Destruct
  BY <1>4 DEF Destruct, CollectNothing, EnterDestructor, LeaveDestructor, Released, MembersFreed
<1>5. CASE Collected
  BY <1>5 DEF Collected, vars
<1> QED
  BY <1>1, <1>2, <1>3, <1>4, <1>5 DEF Next

LEMMA InvStep ==
  ASSUME IInv, [Next]_vars
  PROVE  IInv'
<1>1. CASE Next
  <2>1. HeapOk' /\ OwnedInv'
    BY <1>1, HeapStep, OwnedStep
  <2>2. heapBytes' \in Nat
    BY <2>1, BlocksFinite DEF HeapOk
  <2>3. TypeOK'
    BY <1>1, <2>1, <2>2, TypeStep DEF TypeOK, HeapOk, BlocksOk
  <2>4. BlocksHold' /\ MetricsAreExact'
    BY <2>1 DEF HeapOk, BlocksOk, BlocksHold, MetricsAreExact, Bytes, Sum, Live
  <2> QED
    BY <2>1, <2>3, <2>4 DEF IInv
<1>2. CASE UNCHANGED vars
  <2>1. TypeOK'
    BY <1>2 DEF IInv, vars, heapVars, metrics, TypeOK
  <2>2. OwnedInv'
    BY <1>2 DEF IInv, vars, heapVars, metrics, OwnedInv, Live
  <2>3. BlocksHold' /\ MetricsAreExact'
    <3>1. HeapOk'
      BY <1>2, HeapOkSame DEF HeapOk, vars, heapVars, metrics, Live
    <3> QED
      BY <3>1 DEF HeapOk, BlocksOk, BlocksHold, MetricsAreExact, Bytes, Sum, Live
  <2> QED
    BY <2>1, <2>2, <2>3 DEF IInv
<1> QED
  BY <1>1, <1>2

THEOREM Inductive == Spec => []IInv
  BY InitInv, InvStep, PTL DEF Spec
-----------------------------------------------------------------------------
(* No counter wraps, whatever the heap does: heap_bytes is never taken     *)
(* below zero.                                                             *)
THEOREM TypeCorrect == Spec => []TypeOK
<1>1. IInv => TypeOK
  BY DEF IInv
<1> QED
  BY Inductive, <1>1, PTL

(* get_memory_stats is exact for every number of blocks and every sequence *)
(* of metrics_alloc, metrics_realloc and metrics_free.                     *)
THEOREM MetricsExact == Spec => []MetricsAreExact
<1>1. IInv => MetricsAreExact
  BY DEF IInv
<1> QED
  BY Inductive, <1>1, PTL

(* Every live block has room for its header and its bytes, for every width *)
(* of size_t: the tests of metrics_alloc and metrics_realloc are enough.   *)
THEOREM BlocksAreLarge == Spec => []BlocksHold
<1>1. IInv => BlocksHold
  BY DEF IInv
<1> QED
  BY Inductive, <1>1, PTL

(* A context that is collected has given back all it owned, whatever step  *)
(* of its construction failed.                                             *)
THEOREM CollectedOwnsNothing == Spec => []NothingLeaks
<1>1. IInv => NothingLeaks
  BY DEF IInv, OwnedInv, NothingLeaks
<1> QED
  BY Inductive, <1>1, PTL

(* No pointer of duktape_ctx_t is used or freed twice, as long as          *)
(* enif_alloc_env succeeds in the constructors.                            *)
THEOREM MembersUsedOnce ==
  ASSUME "pending_env" \notin Failing
  PROVE  Spec => []NoMisuse
<1>1. Init => MisuseInv
  BY InitInv
<1>2. IInv /\ MisuseInv /\ [Next]_vars => MisuseInv'
  <2>1. ASSUME IInv, MisuseInv, Next PROVE MisuseInv'
    BY <2>1, MisuseStep
  <2>2. ASSUME MisuseInv, UNCHANGED vars PROVE MisuseInv'
    BY <2>2 DEF MisuseInv, vars
  <2> QED
    BY <2>1, <2>2
<1>3. MisuseInv => NoMisuse
  BY DEF MisuseInv, NoMisuse
<1> QED
  BY <1>1, <1>2, <1>3, Inductive, PTL DEF Spec
=============================================================================
