---------------------------- MODULE EventsProofs ----------------------------
(***************************************************************************)
(* Theorems about Events, for every set of statements and programs,        *)
(* callback names and log levels.                                          *)
(***************************************************************************)
EXTENDS Events, SequenceTheorems, WellFoundedInduction, TLAPS

FrameType == [todo : Seq(Statements), native : Natives, alive : BOOLEAN]

(* A run has frames while it is under way, the program below the native    *)
(* functions, each entered by the first statement of the frame below.      *)
FramesInv ==
    /\ frames = <<>> <=> ~Running
    /\ \A i \in DOMAIN frames : frames[i].native = "program" <=> i = 1
    /\ \A i \in DOMAIN frames : i > 1 => /\ frames[i - 1].todo # <<>>
                                        /\ frames[i].native = Head(frames[i - 1].todo).op

(* The frames from the m-th on have gone, and of the new top one a         *)
(* statement or all of them.                                               *)
Shrunk(m) ==
    /\ m \in 1..Len(frames)
    /\ frames' \in Seq(FrameType) /\ Len(frames') = m
    /\ \A i \in 1..m : /\ frames'[i].native = frames[i].native
                       /\ i # m => frames'[i].todo = frames[i].todo
    /\ \/ frames'[m].todo = <<>>
       \/ frames[m].todo # <<>> /\ frames'[m].todo = Tail(frames[m].todo)

SameAlive == \A i \in 1..Len(frames') : frames'[i].alive = frames[i].alive

(* The first statement of the top frame has entered a native function.     *)
Grown ==
    /\ frames' \in Seq(FrameType) /\ Len(frames') = Len(frames) + 1
    /\ \A i \in 1..Len(frames) : /\ frames'[i].native = frames[i].native
                                  /\ frames'[i].todo = frames[i].todo
    /\ frames'[Len(frames) + 1] = Frame(Stmt.runs, Stmt.op)

IInv == TypeOK /\ FramesInv

-----------------------------------------------------------------------------
(* Operators on frames *)

(* The largest of some numbers up to a bound.                              *)
LEMMA Greatest ==
  ASSUME NEW n \in Nat, NEW S \in SUBSET (1..n), S # {}
  PROVE  \E m \in S : \A k \in S : k <= m
<1> DEFINE R == OpToRel(<, Nat)
           T == {n - m : m \in S}
<1>1. IsWellFoundedOn(R, Nat)
  BY NatLessThanWellFounded
<1>2. T \subseteq Nat /\ T # {}
  <2>1. \A m \in S : m \in 1..n /\ n - m \in Nat
    OBVIOUS
  <2>2. \A x \in T : x \in Nat
    BY <2>1, Zenon
  <2>3. PICK m \in S : TRUE
    OBVIOUS
  <2>4. n - m \in T
    OBVIOUS
  <2> QED
    BY <2>2, <2>4
<1>3. \A x, y \in Nat : x < y => <<x, y>> \in R
  BY DEF OpToRel
<1> HIDE DEF R
<1>4. PICK x \in T : \A y \in T : <<y, x>> \notin R
  <2> HIDE DEF T
  <2> QED
    BY <1>1, <1>2, WFMin
<1>5. \A y \in T : ~(y < x)
  BY <1>2, <1>3, <1>4
<1>6. PICK m \in S : x = n - m
  OBVIOUS
<1>7. ASSUME NEW k \in S PROVE k <= m
  <2>1. k \in 1..n /\ m \in 1..n
    OBVIOUS
  <2>2. n - k \in T
    OBVIOUS
  <2>3. ~(n - k < n - m)
    BY <1>5, <1>6, <2>2, Zenon
  <2> QED
    BY <2>1, <2>3
<1> QED
  BY <1>7

LEMMA FrameIs ==
  ASSUME NEW stmts \in Seq(Statements), NEW native \in Natives
  PROVE  /\ Frame(stmts, native) \in FrameType
         /\ Frame(stmts, native).todo = stmts
         /\ Frame(stmts, native).native = native
         /\ Frame(stmts, native).alive = TRUE
  BY DEF Frame, FrameType

(* Clearing an env changes nothing of a frame but its terms.               *)
LEMMA ClearedIs ==
  ASSUME NEW fs \in Seq(FrameType), NEW natives
  PROVE  /\ Cleared(fs, natives) \in Seq(FrameType)
         /\ Len(Cleared(fs, natives)) = Len(fs)
         /\ \A i \in DOMAIN fs : /\ Cleared(fs, natives)[i].todo = fs[i].todo
                                 /\ Cleared(fs, natives)[i].native = fs[i].native
                                 /\ Cleared(fs, natives)[i].alive =
                                      (fs[i].alive /\ fs[i].native \notin natives)
<1> DEFINE cs == Cleared(fs, natives)
<1>1. DOMAIN cs = 1..Len(fs) /\ DOMAIN fs = 1..Len(fs) /\ Len(fs) \in Nat
  BY DEF Cleared
<1>2. ASSUME NEW i \in DOMAIN fs
      PROVE  /\ cs[i] \in FrameType
             /\ cs[i].todo = fs[i].todo /\ cs[i].native = fs[i].native
             /\ cs[i].alive = (fs[i].alive /\ fs[i].native \notin natives)
  <2>1. fs[i] \in FrameType
    BY <1>1
  <2>2. cs[i] = IF fs[i].native \in natives THEN [fs[i] EXCEPT !.alive = FALSE] ELSE fs[i]
    BY DEF Cleared
  <2> QED
    BY <2>1, <2>2 DEF FrameType
<1>3. cs \in Seq(FrameType)
  <2>1. cs = [i \in DOMAIN fs |-> cs[i]]
    BY DEF Cleared
  <2> HIDE DEF cs
  <2>2. cs \in [1..Len(fs) -> FrameType]
    BY <1>1, <1>2, <2>1
  <2> QED
    BY <1>1, <2>2, SeqDef
<1> HIDE DEF cs
<1> QED
  BY <1>1, <1>2, <1>3 DEF cs

(* The first statement of the top frame is over.                           *)
LEMMA OverIs ==
  ASSUME NEW fs \in Seq(FrameType), fs # <<>>, fs[Len(fs)].todo # <<>>
  PROVE  /\ Over(fs) \in Seq(FrameType)
         /\ Len(Over(fs)) = Len(fs)
         /\ \A i \in DOMAIN fs : /\ Over(fs)[i].native = fs[i].native
                                 /\ Over(fs)[i].alive = fs[i].alive
                                 /\ i # Len(fs) => Over(fs)[i].todo = fs[i].todo
         /\ Over(fs)[Len(fs)].todo = Tail(fs[Len(fs)].todo)
<1> DEFINE n == Len(fs)
<1>1. n \in DOMAIN fs /\ n \in Nat
  BY EmptySeq
<1>2. fs[n] \in FrameType /\ Tail(fs[n].todo) \in Seq(Statements)
  <2>1. fs[n] \in FrameType
    BY <1>1
  <2> QED
    BY <2>1 DEF FrameType
<1>3. Over(fs) = [fs EXCEPT ![n] = [fs[n] EXCEPT !.todo = Tail(@)]]
  BY <1>1, <1>2 DEF Over, FrameType
<1>4. [fs[n] EXCEPT !.todo = Tail(@)] \in FrameType
  BY <1>2 DEF FrameType
<1>5. Over(fs) \in Seq(FrameType) /\ Len(Over(fs)) = n
  BY <1>1, <1>3, <1>4
<1>6. ASSUME NEW i \in DOMAIN fs
      PROVE  /\ Over(fs)[i].native = fs[i].native
             /\ Over(fs)[i].alive = fs[i].alive
             /\ i # n => Over(fs)[i].todo = fs[i].todo
             /\ i = n => Over(fs)[i].todo = Tail(fs[n].todo)
  <2>1. i # n => Over(fs)[i] = fs[i]
    BY <1>3
  <2>2. i = n => Over(fs)[i] = [fs[n] EXCEPT !.todo = Tail(@)]
    BY <1>1, <1>3
  <2> QED
    BY <1>2, <2>1, <2>2 DEF FrameType
<1> QED
  BY <1>1, <1>5, <1>6

LEMMA FrontIs ==
  ASSUME NEW fs \in Seq(FrameType), Len(fs) > 1
  PROVE  /\ Front(fs) \in Seq(FrameType)
         /\ Len(Front(fs)) = Len(fs) - 1
         /\ \A i \in 1..(Len(fs) - 1) : Front(fs)[i] = fs[i]
  BY DEF Front

(* The run under way has a frame on top.                                   *)
LEMMA TopIs ==
  ASSUME IInv, Running
  PROVE  /\ Len(frames) \in Nat \ {0}
         /\ frames # <<>>
         /\ \A i \in 1..Len(frames) : frames[i] \in FrameType
         /\ This = frames[Len(frames)]
         /\ This.todo \in Seq(Statements) /\ This.native \in Natives /\ This.alive \in BOOLEAN
<1>1. frames # <<>> /\ frames \in Seq(FrameType)
  BY DEF IInv, FramesInv, TypeOK, FrameType
<1>2. Len(frames) \in Nat \ {0}
  BY <1>1, EmptySeq
<1>3. \A i \in 1..Len(frames) : frames[i] \in FrameType
  BY <1>1
<1>4. This = frames[Len(frames)]
  BY DEF This, Last
<1>5. This \in FrameType
  BY <1>2, <1>3, <1>4
<1> QED
  BY <1>1, <1>2, <1>3, <1>4, <1>5 DEF FrameType

(* The statement it is at.                                                 *)
LEMMA StmtIs ==
  ASSUME IInv, NEW op, At(op)
  PROVE  /\ Running /\ This.todo # <<>>
         /\ Stmt \in Statements /\ Stmt.op = op
         /\ Stmt.runs \in Seq(Statements)
         /\ op \in {"emit", "log", "on", "off", "call", "throw"}
<1>1. Running /\ This.todo # <<>> /\ Stmt.op = op
  BY DEF At
<1>2. This.todo \in Seq(Statements)
  BY <1>1, TopIs
<1>3. Stmt \in Statements
  BY <1>1, <1>2 DEF Stmt
<1> QED
  BY <1>1, <1>3, EventsAssumption

(* The statement that has entered the native function on top.              *)
LEMMA HostIs ==
  ASSUME IInv, NEW natives, Ended(natives), "program" \notin natives
  PROVE  /\ Running /\ This.native \in natives
         /\ Len(frames) - 1 \in 1..Len(frames)
         /\ frames[Len(frames) - 1].todo # <<>>
         /\ Host = Head(frames[Len(frames) - 1].todo)
         /\ Host.op = This.native
<1>1. Running /\ This.native \in natives
  BY DEF Ended
<1>2. Len(frames) \in Nat \ {0} /\ This = frames[Len(frames)]
  BY <1>1, TopIs
<1>3. Len(frames) \in DOMAIN frames /\ Len(frames) # 1
  BY <1>1, <1>2, TopIs DEF IInv, FramesInv, TypeOK
<1>4. Len(frames) > 1 /\ Len(frames) - 1 \in 1..Len(frames)
  BY <1>2, <1>3
<1>5. /\ frames[Len(frames) - 1].todo # <<>>
      /\ frames[Len(frames)].native = Head(frames[Len(frames) - 1].todo).op
  BY <1>3, <1>4 DEF IInv, FramesInv
<1>6. frames[Len(frames) - 1].todo \in Seq(Statements)
  <2>1. frames[Len(frames) - 1] \in FrameType
    BY <1>1, <1>4, TopIs
  <2> QED
    BY <2>1 DEF FrameType
<1>7. Host = Head(frames[Len(frames) - 1].todo)
  BY <1>5, <1>6 DEF Host
<1> QED
  BY <1>1, <1>2, <1>4, <1>5, <1>7

-----------------------------------------------------------------------------
(* What a step does to the frames *)

LEMMA OverShrinks ==
  ASSUME IInv, Running, This.todo # <<>>, frames' = Over(frames)
  PROVE  Shrunk(Len(frames)) /\ SameAlive /\ frames'[Len(frames)].todo = Tail(This.todo)
<1>1. frames \in Seq(FrameType)
  BY DEF IInv, TypeOK, FrameType
<1>2. This = frames[Len(frames)] /\ Len(frames) \in Nat \ {0} /\ frames # <<>>
  BY TopIs
<1> QED
  BY <1>1, <1>2, OverIs DEF Shrunk, SameAlive

LEMMA EmitShrinks ==
  ASSUME IInv, EmitEvent
  PROVE  /\ Shrunk(Len(frames) - 1)
         /\ \A i \in 1..(Len(frames) - 1) :
               frames'[i].alive = (frames[i].alive /\ frames[i].native \notin {"emit", "log"})
<1>1. frames \in Seq(FrameType)
  BY DEF IInv, TypeOK, FrameType
<1>2. /\ Len(frames) - 1 \in 1..Len(frames)
      /\ frames[Len(frames) - 1].todo # <<>>
  BY HostIs DEF EmitEvent
<1> DEFINE fs == Front(frames)
           cs == Cleared(fs, {"emit", "log"})
<1>3. fs \in Seq(FrameType) /\ Len(fs) = Len(frames) - 1 /\ \A i \in 1..Len(fs) : fs[i] = frames[i]
  BY <1>1, <1>2, FrontIs
<1> HIDE DEF fs
<1>4. /\ cs \in Seq(FrameType) /\ Len(cs) = Len(fs)
      /\ \A i \in 1..Len(fs) : /\ cs[i].todo = fs[i].todo /\ cs[i].native = fs[i].native
                               /\ cs[i].alive = (fs[i].alive /\ fs[i].native \notin {"emit", "log"})
  BY <1>3, ClearedIs
<1> HIDE DEF cs
<1>5. cs # <<>> /\ cs[Len(cs)].todo # <<>>
  BY <1>2, <1>3, <1>4
<1>6. frames' = Over(cs)
  BY DEF EmitEvent, fs, cs
<1>7. /\ Over(cs) \in Seq(FrameType) /\ Len(Over(cs)) = Len(cs)
      /\ \A i \in 1..Len(cs) : /\ Over(cs)[i].native = cs[i].native
                               /\ Over(cs)[i].alive = cs[i].alive
                               /\ i # Len(cs) => Over(cs)[i].todo = cs[i].todo
      /\ Over(cs)[Len(cs)].todo = Tail(cs[Len(cs)].todo)
  BY <1>4, <1>5, OverIs
<1> QED
  BY <1>2, <1>3, <1>4, <1>6, <1>7 DEF Shrunk

LEMMA ThrowShrinks ==
  ASSUME IInv, Running, NEW what, Throw(what)
  PROVE  \/ /\ \A i \in 1..Len(frames) : frames[i].native # "log"
            /\ outcome' = what /\ frames' = <<>>
         \/ \E at \in 1..Len(frames) :
              /\ frames[at].native = "log"
              /\ \A i \in (at + 1)..Len(frames) : frames[i].native # "log"
              /\ Shrunk(at) /\ SameAlive
              /\ frames'[at].todo = <<>>
              /\ UNCHANGED outcome
<1>1. frames \in Seq(FrameType) /\ Len(frames) \in Nat /\ DOMAIN frames = 1..Len(frames)
  BY DEF IInv, TypeOK, FrameType
<1>2. CASE Catchers = {}
  BY <1>1, <1>2 DEF Throw, Catchers
<1>3. CASE Catchers # {}
  <2> DEFINE at == CHOOSE i \in Catchers : \A j \in Catchers : j <= i
             fs == SubSeq(frames, 1, at)
  <2>1. at \in Catchers /\ \A j \in Catchers : j <= at
    <3>1. Catchers \in SUBSET (1..Len(frames))
      BY <1>1 DEF Catchers
    <3>2. \E i \in Catchers : \A j \in Catchers : j <= i
      BY <1>1, <1>3, <3>1, Greatest
    <3> QED
      BY <3>2
  <2>2. frames' = [fs EXCEPT ![at].todo = <<>>] /\ UNCHANGED outcome
    BY <1>3 DEF Throw
  <2> HIDE DEF at
  <2>3. at \in 1..Len(frames) /\ frames[at].native = "log"
    BY <1>1, <2>1 DEF Catchers
  <2>4. fs \in Seq(FrameType) /\ Len(fs) = at /\ \A i \in 1..at : fs[i] = frames[i] /\ fs[i] \in FrameType
    BY <1>1, <2>3
  <2> HIDE DEF fs
  <2>5. [fs[at] EXCEPT !.todo = <<>>] \in FrameType
    <3>1. fs[at] \in FrameType /\ <<>> \in Seq(Statements)
      BY <2>3, <2>4, EmptySeq
    <3> QED
      BY <3>1 DEF FrameType
  <2>6. frames' = [fs EXCEPT ![at] = [fs[at] EXCEPT !.todo = <<>>]]
    BY <2>2, <2>3, <2>4
  <2>7. frames' \in Seq(FrameType) /\ Len(frames') = at
    BY <2>3, <2>4, <2>5, <2>6
  <2>8. ASSUME NEW i \in 1..at
        PROVE  /\ frames'[i].native = frames[i].native /\ frames'[i].alive = frames[i].alive
               /\ i # at => frames'[i].todo = frames[i].todo
               /\ i = at => frames'[i].todo = <<>>
    <3>1. i # at => frames'[i] = fs[i]
      BY <2>4, <2>6
    <3>2. i = at => frames'[i] = [fs[at] EXCEPT !.todo = <<>>]
      BY <2>3, <2>4, <2>6
    <3>3. fs[i] = frames[i] /\ fs[i] \in FrameType
      BY <2>4
    <3> QED
      BY <3>1, <3>2, <3>3 DEF FrameType
  <2>9. \A i \in (at + 1)..Len(frames) : frames[i].native # "log"
    BY <1>1, <2>1, <2>3 DEF Catchers
  <2>10. Shrunk(at) /\ SameAlive /\ frames'[at].todo = <<>>
    BY <2>3, <2>7, <2>8 DEF Shrunk, SameAlive
  <2> QED
    BY <2>2, <2>3, <2>9, <2>10
<1> QED
  BY <1>2, <1>3

LEMMA EventGrows ==
  ASSUME IInv, EnterEvent
  PROVE  Grown /\ \A i \in 1..Len(frames) : frames'[i].alive = frames[i].alive
<1>1. frames \in Seq(FrameType) /\ Len(frames) \in Nat
  BY DEF IInv, TypeOK, FrameType
<1>2. Stmt.runs \in Seq(Statements) /\ Stmt.op \in Natives
  BY StmtIs DEF EnterEvent, Natives
<1>3. Frame(Stmt.runs, Stmt.op) \in FrameType
  BY <1>2, FrameIs
<1>4. frames' = Append(frames, Frame(Stmt.runs, Stmt.op))
  BY DEF EnterEvent
<1>5. /\ frames' \in Seq(FrameType) /\ Len(frames') = Len(frames) + 1
      /\ frames'[Len(frames) + 1] = Frame(Stmt.runs, Stmt.op)
      /\ \A i \in 1..Len(frames) : frames'[i] = frames[i]
  BY <1>1, <1>3, <1>4
<1> QED
  BY <1>5 DEF Grown

LEMMA CallGrows ==
  ASSUME IInv, EnterCall
  PROVE  Grown /\ \A i \in 1..Len(frames) :
                    frames'[i].alive = (frames[i].alive /\ frames[i].native # "call")
<1> DEFINE cs == Cleared(frames, {"call"})
<1>1. frames \in Seq(FrameType) /\ Len(frames) \in Nat
  BY DEF IInv, TypeOK, FrameType
<1>2. /\ cs \in Seq(FrameType) /\ Len(cs) = Len(frames)
      /\ \A i \in 1..Len(frames) : /\ cs[i].todo = frames[i].todo /\ cs[i].native = frames[i].native
                                   /\ cs[i].alive = (frames[i].alive /\ frames[i].native \notin {"call"})
  BY <1>1, ClearedIs
<1> HIDE DEF cs
<1>3. Stmt.runs \in Seq(Statements) /\ Stmt.op = "call"
  BY StmtIs DEF EnterCall
<1>4. Frame(Stmt.runs, Stmt.op) \in FrameType
  BY <1>3, FrameIs DEF Natives
<1>5. frames' = Append(cs, Frame(Stmt.runs, Stmt.op))
  BY <1>3 DEF EnterCall, cs
<1>6. /\ frames' \in Seq(FrameType) /\ Len(frames') = Len(frames) + 1
      /\ frames'[Len(frames) + 1] = Frame(Stmt.runs, Stmt.op)
      /\ \A i \in 1..Len(frames) : frames'[i] = cs[i]
  BY <1>1, <1>2, <1>4, <1>5
<1> QED
  BY <1>2, <1>6 DEF Grown

-----------------------------------------------------------------------------
(* Types, and the order of the frames *)

LEMMA ShrunkFrames ==
  ASSUME IInv, Running, NEW m, Shrunk(m), UNCHANGED <<nif, outcome>>
  PROVE  FramesInv'
<1>1. Len(frames) \in Nat /\ m \in 1..Len(frames) /\ DOMAIN frames = 1..Len(frames)
  BY DEF Shrunk, IInv, TypeOK
<1>2. frames' # <<>> /\ Running' /\ DOMAIN frames' = 1..m
  BY <1>1 DEF Shrunk, Running
<1>3. ASSUME NEW i \in 1..m PROVE frames'[i].native = "program" <=> i = 1
  BY <1>1, <1>3 DEF Shrunk, IInv, FramesInv
<1>4. ASSUME NEW i \in 1..m, i > 1
      PROVE  frames'[i - 1].todo # <<>> /\ frames'[i].native = Head(frames'[i - 1].todo).op
  <2>1. i - 1 \in 1..m /\ i - 1 # m /\ i \in DOMAIN frames
    BY <1>1, <1>4
  <2>2. frames[i - 1].todo # <<>> /\ frames[i].native = Head(frames[i - 1].todo).op
    BY <1>4, <2>1 DEF IInv, FramesInv
  <2> QED
    BY <2>1, <2>2 DEF Shrunk
<1> QED
  BY <1>2, <1>3, <1>4 DEF FramesInv

LEMMA GrownFrames ==
  ASSUME IInv, At(Stmt.op), Stmt.op \in {"emit", "log", "call"}, Grown, UNCHANGED <<nif, outcome>>
  PROVE  FramesInv'
<1> DEFINE n == Len(frames)
<1>1. Running /\ This.todo # <<>> /\ Stmt = Head(This.todo)
  BY DEF At, Stmt
<1>2. n \in Nat \ {0} /\ This = frames[n] /\ DOMAIN frames = 1..n
  BY <1>1, TopIs DEF IInv, TypeOK
<1>3. frames' # <<>> /\ Running' /\ DOMAIN frames' = 1..(n + 1)
  BY <1>1, <1>2 DEF Grown, Running
<1>4. frames'[n + 1].native = Stmt.op
  BY DEF Grown, Frame
<1>5. \A i \in 1..n : frames'[i].native = frames[i].native /\ frames'[i].todo = frames[i].todo
  BY DEF Grown
<1> HIDE DEF n
<1>6. ASSUME NEW i \in 1..(n + 1) PROVE frames'[i].native = "program" <=> i = 1
  <2>1. CASE i = n + 1
    BY <1>2, <1>4, <2>1
  <2>2. CASE i \in 1..n
    BY <1>2, <1>5, <2>2 DEF IInv, FramesInv
  <2> QED
    BY <1>2, <2>1, <2>2
<1>7. ASSUME NEW i \in 1..(n + 1), i > 1
      PROVE  frames'[i - 1].todo # <<>> /\ frames'[i].native = Head(frames'[i - 1].todo).op
  <2>1. CASE i = n + 1
    <3>1. i - 1 = n /\ n \in 1..n
      BY <1>2, <2>1
    <3>2. frames'[n].todo = This.todo
      BY <1>2, <1>5, <3>1
    <3> QED
      BY <1>1, <1>4, <2>1, <3>1, <3>2
  <2>2. CASE i \in 1..n
    <3>1. i - 1 \in 1..n
      BY <1>2, <1>7, <2>2
    <3>2. frames[i - 1].todo # <<>> /\ frames[i].native = Head(frames[i - 1].todo).op
      BY <1>2, <1>7, <2>2 DEF IInv, FramesInv
    <3> QED
      BY <1>5, <2>2, <3>1, <3>2
  <2> QED
    BY <1>2, <2>1, <2>2
<1> QED
  BY <1>3, <1>6, <1>7 DEF FramesInv

LEMMA NoFrames ==
  ASSUME frames' = <<>>, nif' = "none" \/ outcome' # "none"
  PROVE  FramesInv' /\ frames' \in Seq(FrameType)
         /\ \A i \in DOMAIN frames' : frames'[i].native = "call" => pendingIndex' < callIndex'
  BY EmptySeq DEF FramesInv, Running

(* A call under way keeps an index below the next one.                     *)
LEMMA ShrunkIndex ==
  ASSUME IInv, NEW m, Shrunk(m), pendingIndex' = pendingIndex,
         callIndex' \in Nat, callIndex' >= callIndex
  PROVE  /\ frames' \in Seq(FrameType)
         /\ \A i \in DOMAIN frames' : frames'[i].native = "call" => pendingIndex' < callIndex'
<1>1. Len(frames) \in Nat /\ m \in 1..Len(frames) /\ DOMAIN frames' = 1..m
  BY DEF Shrunk, IInv, TypeOK
<1>2. callIndex \in Nat /\ pendingIndex \in Nat /\ DOMAIN frames = 1..Len(frames)
  BY DEF IInv, TypeOK
<1>3. ASSUME NEW i \in 1..m, frames'[i].native = "call" PROVE pendingIndex' < callIndex'
  <2>1. i \in DOMAIN frames /\ frames[i].native = "call"
    BY <1>1, <1>2, <1>3 DEF Shrunk
  <2>2. pendingIndex < callIndex
    BY <2>1 DEF IInv, TypeOK
  <2> QED
    BY <1>2, <2>2
<1> QED
  BY <1>1, <1>3 DEF Shrunk

LEMMA InitIInv == Init => IInv
<1> SUFFICES ASSUME Init PROVE IInv
  OBVIOUS
<1> USE EmptySeq DEF Init
<1>1. callbacks \in [Names -> Seq(Statements)]
  BY DEF None
<1>2. /\ frames \in Seq([todo : Seq(Statements), native : Natives, alive : BOOLEAN])
      /\ \A i \in DOMAIN frames : frames[i].native = "call" => pendingIndex < callIndex
  OBVIOUS
<1>3. /\ handler \in BOOLEAN /\ eventTerms \in BOOLEAN /\ pendingCall \in BOOLEAN
      /\ callIndex \in Nat /\ pendingIndex \in Nat /\ results \subseteq Nat
  OBVIOUS
<1>4. TypeOK
  BY <1>1, <1>2, <1>3 DEF TypeOK
<1>5. FramesInv
  BY DEF FramesInv, Running
<1> QED
  BY <1>4, <1>5 DEF IInv

(* A sequence of one.                                                      *)
LEMMA OneIs ==
  ASSUME NEW S, NEW x \in S
  PROVE  /\ <<x>> \in Seq(S) /\ Len(<<x>>) = 1 /\ DOMAIN <<x>> = {1}
         /\ <<x>> # <<>> /\ <<x>>[1] = x
OBVIOUS

LEMMA BeginIInv ==
  ASSUME IInv, NEW n \in {"eval", "resume", "send"}, NEW stmts \in Seq(Statements), Begin(n, stmts)
  PROVE  /\ nif' = n /\ outcome' = "none"
         /\ frames' \in Seq(FrameType) /\ FramesInv'
         /\ \A i \in DOMAIN frames' : frames'[i].native # "call"
         /\ Len(frames') = 1 /\ frames'[1] = Frame(stmts, "program")
<1>1. Frame(stmts, "program") \in FrameType /\ Frame(stmts, "program").native = "program"
  <2>1. "program" \in Natives
    BY DEF Natives
  <2> QED
    BY <2>1, FrameIs
<1>2. nif' = n /\ outcome' = "none" /\ frames' = <<Frame(stmts, "program")>>
  BY DEF Begin
<1>3. /\ frames' \in Seq(FrameType) /\ Len(frames') = 1 /\ DOMAIN frames' = {1}
      /\ frames' # <<>> /\ frames'[1] = Frame(stmts, "program")
  <2> DEFINE f == Frame(stmts, "program")
             T == FrameType
  <2>1. f \in T /\ frames' = <<f>>
    BY <1>1, <1>2
  <2> HIDE DEF f, T
  <2>2. /\ <<f>> \in Seq(T) /\ Len(<<f>>) = 1 /\ DOMAIN <<f>> = {1}
        /\ <<f>> # <<>> /\ <<f>>[1] = f
    BY <2>1, OneIs
  <2>3. /\ frames' \in Seq(T) /\ Len(frames') = 1 /\ DOMAIN frames' = {1}
        /\ frames' # <<>> /\ frames'[1] = f
    BY <2>1, <2>2, Zenon
  <2> QED
    BY <2>3, Zenon DEF f, T
<1>4. FramesInv'
  BY <1>1, <1>2, <1>3 DEF FramesInv, Running
<1> QED
  BY <1>1, <1>2, <1>3, <1>4

(* A run begins.                                                           *)
LEMMA RunsBegin ==
  ASSUME IInv, (\E prog \in Programs : Eval(prog)) \/ Resume \/ (\E n \in Names : Send(n))
  PROVE  IInv'
<1>1. ASSUME NEW prog \in Programs, Eval(prog) PROVE IInv'
  <2>1. prog \in Seq(Statements) /\ Begin("eval", prog)
    BY <1>1, EventsAssumption DEF Eval
  <2>2. /\ nif' = "eval" /\ outcome' = "none" /\ frames' \in Seq(FrameType) /\ FramesInv'
        /\ \A i \in DOMAIN frames' : frames'[i].native # "call"
    BY <2>1, BeginIInv
  <2> QED
    BY <1>1, <2>2 DEF Eval, IInv, TypeOK, FrameType
<1>2. ASSUME Resume PROVE IInv'
  <2>1. code \in Seq(Statements) /\ Begin("resume", code)
    BY <1>2, EventsAssumption, EmptySeq DEF Resume, IInv, TypeOK
  <2>2. /\ nif' = "resume" /\ outcome' = "none" /\ frames' \in Seq(FrameType) /\ FramesInv'
        /\ \A i \in DOMAIN frames' : frames'[i].native # "call"
    BY <2>1, BeginIInv
  <2> QED
    BY <1>2, <2>2 DEF Resume, IInv, TypeOK, FrameType
<1>3. ASSUME NEW n \in Names, Send(n) PROVE IInv'
  <2>1. callbacks[n] \in Seq(Statements) /\ Begin("send", callbacks[n])
    BY <1>3 DEF Send, IInv, TypeOK
  <2>2. /\ nif' = "send" /\ outcome' = "none" /\ frames' \in Seq(FrameType) /\ FramesInv'
        /\ \A i \in DOMAIN frames' : frames'[i].native # "call"
    BY <2>1, BeginIInv
  <2> QED
    BY <1>3, <2>2 DEF Send, call, IInv, TypeOK, FrameType
<1> QED
  BY <1>1, <1>2, <1>3

(* Statements that enter nothing, and the end of a native function that    *)
(* sends.                                                                  *)
LEMMA StatementsPass == IInv /\ (On \/ Off \/ Ignore \/ CallCached \/ EmitEvent) => IInv'
<1> SUFFICES ASSUME IInv, On \/ Off \/ Ignore \/ CallCached \/ EmitEvent PROVE IInv'
  OBVIOUS
<1>1. Running /\ UNCHANGED <<nif, outcome, handler, code, pendingCall, results, pendingIndex, pendingArgs>>
  BY DEF On, Off, Ignore, CallCached, EmitEvent, At, Ended, Same, call
<1>2. PICK m : Shrunk(m)
  <2>1. CASE On \/ Off \/ Ignore \/ CallCached
    <3>1. This.todo # <<>> /\ frames' = Over(frames)
      BY <2>1 DEF On, Off, Ignore, CallCached, At
    <3> QED
      BY <1>1, <3>1, OverShrinks
  <2>2. CASE EmitEvent
    BY <2>2, EmitShrinks
  <2> QED
    BY <2>1, <2>2
<1>3. callIndex' \in Nat /\ callIndex' >= callIndex
  BY DEF On, Off, Ignore, CallCached, EmitEvent, call, IInv, TypeOK
<1>4. callbacks' \in [Names -> Seq(Statements)]
  <2>1. CASE On
    <3>1. Stmt.runs \in Seq(Statements)
      BY <2>1, StmtIs DEF On
    <3> QED
      BY <2>1, <3>1 DEF On, Registered, IInv, TypeOK
  <2>2. CASE Off
    BY <2>2, EmptySeq DEF Off, None, IInv, TypeOK
  <2>3. CASE Ignore \/ CallCached \/ EmitEvent
    BY <2>3 DEF Ignore, CallCached, EmitEvent, IInv, TypeOK
  <2> QED
    BY <2>1, <2>2, <2>3
<1>5. eventTerms' \in BOOLEAN
  <2>1. CASE EmitEvent
    <3>1. This.alive \in BOOLEAN
      BY <1>1, TopIs
    <3> QED
      BY <2>1, <3>1 DEF EmitEvent, TermsAlive
  <2>2. CASE ~EmitEvent
    BY <2>2 DEF On, Off, Ignore, CallCached, IInv, TypeOK
  <2> QED
    BY <2>1, <2>2
<1>6. FramesInv'
  BY <1>1, <1>2, ShrunkFrames
<1>7. /\ frames' \in Seq(FrameType)
      /\ \A i \in DOMAIN frames' : frames'[i].native = "call" => pendingIndex' < callIndex'
  BY <1>1, <1>2, <1>3, ShrunkIndex
<1>8. TypeOK'
  BY <1>1, <1>3, <1>4, <1>5, <1>7 DEF IInv, TypeOK, FrameType
<1> QED
  BY <1>6, <1>8 DEF IInv

(* A throw unwinds to the text of a log, or ends the run.                  *)
LEMMA ThrowsUnwind == IInv /\ (ThrowError \/ ThrowCall) => IInv'
<1> SUFFICES ASSUME IInv, ThrowError \/ ThrowCall PROVE IInv'
  OBVIOUS
<1>1. /\ Running
      /\ UNCHANGED <<nif, handler, code, callbacks, callIndex, results, pendingCall, pendingIndex, eventTerms>>
      /\ pendingArgs' \in {"none", "alive", "cleared"}
  BY DEF ThrowError, ThrowCall, At, Ended, Same, call, IInv, TypeOK
<1>2. PICK what \in {"error", "sentinel"} : Throw(what)
  BY DEF ThrowError, ThrowCall
<1>3. CASE outcome' = what /\ frames' = <<>>
  <2>1. /\ FramesInv' /\ frames' \in Seq(FrameType)
        /\ \A i \in DOMAIN frames' : frames'[i].native = "call" => pendingIndex' < callIndex'
    BY <1>2, <1>3, NoFrames
  <2> QED
    BY <1>1, <1>2, <1>3, <2>1 DEF IInv, TypeOK, FrameType
<1>4. CASE (\E at : Shrunk(at)) /\ UNCHANGED outcome
  <2>1. PICK at : Shrunk(at)
    BY <1>4
  <2>2. FramesInv'
    BY <1>1, <1>4, <2>1, ShrunkFrames
  <2>3. /\ frames' \in Seq(FrameType)
        /\ \A i \in DOMAIN frames' : frames'[i].native = "call" => pendingIndex' < callIndex'
    <3>1. callIndex' \in Nat /\ callIndex' >= callIndex /\ pendingIndex' = pendingIndex
      BY <1>1 DEF IInv, TypeOK
    <3> QED
      BY <2>1, <3>1, ShrunkIndex
  <2> QED
    BY <1>1, <1>4, <2>2, <2>3 DEF IInv, TypeOK, FrameType
<1> QED
  BY <1>1, <1>2, <1>3, <1>4, ThrowShrinks

(* A native function is entered.                                           *)
LEMMA NativesEnter == IInv /\ (EnterEvent \/ EnterCall) => IInv'
<1> SUFFICES ASSUME IInv, EnterEvent \/ EnterCall PROVE IInv'
  OBVIOUS
<1>1. /\ Running /\ At(Stmt.op) /\ Stmt.op \in {"emit", "log", "call"}
      /\ UNCHANGED <<nif, outcome, handler, code, callbacks, results, eventTerms>>
  BY DEF EnterEvent, EnterCall, At, Same, call
<1>2. Grown
  BY EventGrows, CallGrows
<1>3. /\ pendingCall' \in BOOLEAN /\ callIndex' \in Nat /\ pendingIndex' \in Nat
      /\ pendingArgs' \in {"none", "alive", "cleared"}
      /\ pendingIndex' < callIndex' \/ (pendingIndex' = pendingIndex /\ callIndex' = callIndex /\ EnterEvent)
  <2>1. CASE EnterEvent
    BY <2>1 DEF EnterEvent, call, IInv, TypeOK
  <2>2. CASE EnterCall
    <3>1. /\ callIndex' = callIndex + 1 /\ pendingCall' = TRUE /\ pendingIndex' = callIndex
          /\ pendingArgs' \in {"cleared", pendingArgs}
      BY <2>2 DEF EnterCall, IndexNow
    <3> QED
      BY <3>1 DEF IInv, TypeOK
  <2> QED
    BY <2>1, <2>2
<1>4. FramesInv'
  BY <1>1, <1>2, GrownFrames
<1>5. frames' \in Seq(FrameType)
  BY <1>2 DEF Grown
<1>6. ASSUME NEW i \in DOMAIN frames', frames'[i].native = "call" PROVE pendingIndex' < callIndex'
  <2>1. CASE EnterEvent
    <3>1. Len(frames) \in Nat /\ DOMAIN frames = 1..Len(frames) /\ DOMAIN frames' = 1..(Len(frames) + 1)
      BY <1>2 DEF Grown, IInv, TypeOK
    <3>2. frames'[Len(frames) + 1].native # "call"
      BY <1>2, <2>1, StmtIs DEF Grown, Frame, EnterEvent
    <3>3. i \in DOMAIN frames /\ frames[i].native = "call"
      BY <1>2, <1>6, <3>1, <3>2 DEF Grown
    <3> QED
      BY <1>3, <3>3 DEF IInv, TypeOK
  <2>2. CASE ~EnterEvent
    BY <1>3, <2>2
  <2> QED
    BY <2>1, <2>2
<1>7. TypeOK'
  BY <1>1, <1>3, <1>5, <1>6 DEF IInv, TypeOK, FrameType
<1> QED
  BY <1>4, <1>7 DEF IInv

(* A run ends, and its result is taken.                                    *)
LEMMA RunsEnd == IInv /\ (Return \/ ReturnCall \/ ReturnResult \/ ReturnSend) => IInv'
<1>1. ASSUME IInv, Return PROVE IInv'
  <2>1. /\ FramesInv' /\ frames' \in Seq(FrameType)
        /\ \A i \in DOMAIN frames' : frames'[i].native = "call" => pendingIndex' < callIndex'
    BY <1>1, NoFrames DEF Return
  <2> QED
    BY <1>1, <2>1 DEF Return, Same, call, IInv, TypeOK, FrameType
<1>2. ASSUME IInv, ReturnCall \/ ReturnResult \/ ReturnSend PROVE IInv'
  <2>1. /\ nif' = "none" /\ code' \in {code, <<>>} /\ ~Running /\ pendingCall' \in BOOLEAN
        /\ UNCHANGED <<handler, callbacks, frames, outcome, eventTerms, callIndex, results,
                       pendingIndex, pendingArgs>>
    BY <1>2 DEF ReturnCall, ReturnResult, ReturnSend, IsCall, Leave, Running, call, IInv, TypeOK
  <2>2. frames' = <<>>
    BY <1>2, <2>1 DEF IInv, FramesInv
  <2>3. /\ FramesInv' /\ frames' \in Seq(FrameType)
        /\ \A i \in DOMAIN frames' : frames'[i].native = "call" => pendingIndex' < callIndex'
    BY <2>1, <2>2, NoFrames
  <2> QED
    BY <1>2, <2>1, <2>3 DEF IInv, TypeOK, FrameType
<1> QED
  BY <1>1, <1>2

LEMMA IInvAlways == Spec => []IInv
<1>1. IInv /\ [Next]_vars => IInv'
  <2>1. IInv /\ UNCHANGED vars => IInv'
    BY DEF vars, call, IInv, TypeOK, FramesInv, Running
  <2>2. IInv /\ (\E n \in Names : SendNothing(n)) => IInv'
    BY <2>1 DEF SendNothing
  <2> QED
    BY <2>1, <2>2, RunsBegin, StatementsPass, ThrowsUnwind, NativesEnter, RunsEnd DEF Next, Run
<1> QED
  BY <1>1, InitIInv, PTL DEF Spec

(* Every reachable state is well typed, whatever the programs: a native    *)
(* function holds an index that was given out in this run.                 *)
THEOREM TypeCorrect == Spec => []TypeOK
<1>1. IInv => TypeOK
  BY DEF IInv
<1> QED
  BY <1>1, IInvAlways, PTL

-----------------------------------------------------------------------------
(* Terms stay alive *)

(* A native function whose message has terms in event_env while its data   *)
(* is converted.                                                           *)
EventFrame(i) == \/ frames[i].native = "emit"
                 \/ frames[i].native = "log" /\ Head(frames[i - 1].todo).on \notin Known

CallFrame(i) == frames[i].native = "call"

Caught(j, i) == \E k \in j..i : frames[k].native = "log"

(* What is left to run above a message is quiet, above a call smooth, and  *)
(* above a log that stands above a call free of calls.                     *)
TameInv(quiet, smooth, callFree) ==
    \A i, j \in DOMAIN frames : j <= i =>
        /\ EventFrame(j) => frames[i].todo \in Seq(quiet)
        /\ CallFrame(j) /\ ~Caught(j, i) => frames[i].todo \in Seq(smooth)
        /\ CallFrame(j) /\ Caught(j, i) => frames[i].todo \in Seq(callFree)

(* The terms of each message under way are alive and those of the topmost  *)
(* call, and a call that is recorded is under way or has all its terms.    *)
AliveInv ==
    /\ eventTerms
    /\ \A i \in DOMAIN frames : EventFrame(i) => frames[i].alive
    /\ \A i \in DOMAIN frames :
         CallFrame(i) /\ (\A k \in (i + 1)..Len(frames) : ~CallFrame(k)) => frames[i].alive
    /\ pendingCall => pendingArgs = "alive" \/ \E i \in DOMAIN frames : CallFrame(i)

(* What is left of a sequence of some statements are such statements.      *)
LEMMA RestIs ==
  ASSUME NEW S, NEW todo \in Seq(S), NEW rest, rest = <<>> \/ rest = todo \/ (todo # <<>> /\ rest = Tail(todo))
  PROVE  rest \in Seq(S)
<1>1. todo # <<>> => Tail(todo) \in Seq(S)
  OBVIOUS
<1> QED
  BY <1>1, EmptySeq

LEMMA ShrunkTame ==
  ASSUME NEW quiet, NEW smooth, NEW callFree, IInv, TameInv(quiet, smooth, callFree),
         NEW m, Shrunk(m)
  PROVE  /\ TameInv(quiet, smooth, callFree)'
         /\ \A i \in 1..m : /\ EventFrame(i)' <=> EventFrame(i)
                            /\ CallFrame(i)' <=> CallFrame(i)
<1>1. /\ Len(frames) \in Nat /\ m \in 1..Len(frames) /\ DOMAIN frames = 1..Len(frames)
      /\ DOMAIN frames' = 1..m
  BY DEF Shrunk, IInv, TypeOK
<1>2. ASSUME NEW i \in 1..m PROVE EventFrame(i)' <=> EventFrame(i)
  <2>1. CASE i = 1
    <3>1. frames[1].native = "program" /\ frames'[1].native = frames[1].native
      BY <1>1, <2>1 DEF Shrunk, IInv, FramesInv
    <3> QED
      BY <2>1, <3>1 DEF EventFrame
  <2>2. CASE i > 1
    <3>1. i - 1 \in 1..m /\ i - 1 # m
      BY <1>1, <2>2
    <3>2. frames'[i - 1].todo = frames[i - 1].todo /\ frames'[i].native = frames[i].native
      BY <3>1 DEF Shrunk
    <3> QED
      BY <3>2 DEF EventFrame
  <2> QED
    BY <1>1, <2>1, <2>2
<1>3. ASSUME NEW i \in 1..m PROVE CallFrame(i)' <=> CallFrame(i)
  BY DEF Shrunk, CallFrame
<1>4. ASSUME NEW i \in 1..m, NEW j \in 1..m PROVE Caught(j, i)' <=> Caught(j, i)
  <2>1. \A k \in j..i : k \in 1..m
    BY <1>1
  <2> QED
    BY <2>1 DEF Shrunk, Caught
<1>5. ASSUME NEW i \in 1..m
      PROVE  \/ frames'[i].todo = <<>> \/ frames'[i].todo = frames[i].todo
             \/ frames[i].todo # <<>> /\ frames'[i].todo = Tail(frames[i].todo)
  BY DEF Shrunk
<1>6. ASSUME NEW i \in 1..m, NEW S, frames[i].todo \in Seq(S) PROVE frames'[i].todo \in Seq(S)
  BY <1>5, <1>6, RestIs
<1>7. ASSUME NEW i \in 1..m, NEW j \in 1..m, j <= i
      PROVE  /\ EventFrame(j)' => frames'[i].todo \in Seq(quiet)
             /\ CallFrame(j)' /\ ~Caught(j, i)' => frames'[i].todo \in Seq(smooth)
             /\ CallFrame(j)' /\ Caught(j, i)' => frames'[i].todo \in Seq(callFree)
  <2>1. i \in DOMAIN frames /\ j \in DOMAIN frames
    BY <1>1
  <2>2. /\ EventFrame(j) => frames[i].todo \in Seq(quiet)
        /\ CallFrame(j) /\ ~Caught(j, i) => frames[i].todo \in Seq(smooth)
        /\ CallFrame(j) /\ Caught(j, i) => frames[i].todo \in Seq(callFree)
    BY <1>7, <2>1 DEF TameInv
  <2> QED
    BY <1>2, <1>3, <1>4, <1>6, <2>2
<1> QED
  BY <1>1, <1>2, <1>3, <1>7 DEF TameInv

LEMMA GrownTame ==
  ASSUME NEW quiet, NEW smooth, NEW callFree, Tame(quiet, smooth, callFree),
         IInv, TameInv(quiet, smooth, callFree),
         NEW op \in {"emit", "log", "call"}, At(op), Grown
  PROVE  /\ TameInv(quiet, smooth, callFree)'
         /\ \A i \in 1..Len(frames) : /\ EventFrame(i)' <=> EventFrame(i)
                                      /\ CallFrame(i)' <=> CallFrame(i)
<1>0. PICK n \in Nat : n = Len(frames)
  BY DEF IInv, TypeOK
<1>1. Running /\ Stmt \in Statements /\ Stmt.op = op /\ This.todo # <<>> /\ Stmt = Head(This.todo)
  BY StmtIs DEF Stmt
<1>2. n \in Nat \ {0} /\ This = frames[n] /\ DOMAIN frames = 1..n /\ n \in 1..n
  BY <1>0, <1>1, TopIs DEF IInv, TypeOK
<1>3. DOMAIN frames' = 1..(n + 1)
  BY <1>0 DEF Grown
<1>4. frames'[n + 1].native = op /\ frames'[n + 1].todo = Stmt.runs
  BY <1>0, <1>1 DEF Grown, Frame
<1>5. \A i \in 1..n : frames'[i].native = frames[i].native /\ frames'[i].todo = frames[i].todo
  BY <1>0 DEF Grown
<1>6. ASSUME NEW i \in 1..n PROVE EventFrame(i)' <=> EventFrame(i)
  <2>1. CASE i = 1
    <3>1. frames[1].native = "program" /\ frames'[1].native = frames[1].native
      BY <1>2, <1>5, <2>1 DEF IInv, FramesInv
    <3> QED
      BY <2>1, <3>1 DEF EventFrame
  <2>2. CASE i > 1
    <3>1. i - 1 \in 1..n
      BY <1>2, <2>2
    <3> QED
      BY <1>5, <3>1 DEF EventFrame
  <2> QED
    BY <1>2, <2>1, <2>2
<1>7. ASSUME NEW i \in 1..n PROVE CallFrame(i)' <=> CallFrame(i)
  BY <1>5 DEF CallFrame
<1>8. ASSUME NEW i \in 1..n, NEW j \in 1..n PROVE Caught(j, i)' <=> Caught(j, i)
  <2>1. \A k \in j..i : k \in 1..n
    BY <1>2
  <2> QED
    BY <1>5, <2>1 DEF Caught
<1>9. ASSUME NEW i \in 1..n, NEW j \in 1..n, j <= i
      PROVE  /\ EventFrame(j)' => frames'[i].todo \in Seq(quiet)
             /\ CallFrame(j)' /\ ~Caught(j, i)' => frames'[i].todo \in Seq(smooth)
             /\ CallFrame(j)' /\ Caught(j, i)' => frames'[i].todo \in Seq(callFree)
  <2>1. /\ EventFrame(j) => frames[i].todo \in Seq(quiet)
        /\ CallFrame(j) /\ ~Caught(j, i) => frames[i].todo \in Seq(smooth)
        /\ CallFrame(j) /\ Caught(j, i) => frames[i].todo \in Seq(callFree)
    BY <1>2, <1>9 DEF TameInv
  <2> QED
    BY <1>5, <1>6, <1>7, <1>8, <2>1
<1>10. ASSUME NEW j \in 1..n
       PROVE  /\ EventFrame(j) => Stmt \in quiet
              /\ CallFrame(j) /\ ~Caught(j, n) => Stmt \in smooth
              /\ CallFrame(j) /\ Caught(j, n) => Stmt \in callFree
  <2>1. j <= n
    BY <1>2
  <2>2. /\ EventFrame(j) => This.todo \in Seq(quiet)
        /\ CallFrame(j) /\ ~Caught(j, n) => This.todo \in Seq(smooth)
        /\ CallFrame(j) /\ Caught(j, n) => This.todo \in Seq(callFree)
    BY <1>2, <2>1 DEF TameInv
  <2> QED
    BY <1>1, <2>2
<1>11. ASSUME NEW j \in 1..n
       PROVE  /\ EventFrame(j)' => Stmt.runs \in Seq(quiet)
              /\ CallFrame(j)' /\ ~Caught(j, n + 1)' => Stmt.runs \in Seq(smooth)
              /\ CallFrame(j)' /\ Caught(j, n + 1)' => Stmt.runs \in Seq(callFree)
  <2>1. Caught(j, n + 1)' <=> Caught(j, n) \/ op = "log"
    <3>1. n + 1 \in j..(n + 1) /\ \A k : k \in j..(n + 1) <=> k \in j..n \/ k = n + 1
      BY <1>2
    <3>2. Caught(j, n + 1)' <=> (\E k \in j..n : frames'[k].native = "log") \/ frames'[n + 1].native = "log"
      BY <3>1 DEF Caught
    <3>3. \A k \in j..n : frames'[k].native = frames[k].native
      BY <1>2, <1>5
    <3> QED
      BY <1>4, <3>2, <3>3 DEF Caught
  <2>2. EventFrame(j)' => Stmt.runs \in Seq(quiet)
    BY <1>1, <1>6, <1>10 DEF Tame
  <2>3. CallFrame(j)' /\ ~Caught(j, n + 1)' => Stmt.runs \in Seq(smooth)
    BY <1>1, <1>7, <1>10, <2>1 DEF Tame
  <2>4. CallFrame(j)' /\ Caught(j, n + 1)' => Stmt.runs \in Seq(callFree)
    <3>1. CASE Caught(j, n)
      BY <1>1, <1>7, <1>10, <3>1 DEF Tame
    <3>2. CASE ~Caught(j, n)
      BY <1>1, <1>7, <1>10, <2>1, <3>2 DEF Tame
    <3> QED
      BY <3>1, <3>2
  <2> QED
    BY <2>2, <2>3, <2>4
<1>12. /\ EventFrame(n + 1)' => Stmt.runs \in Seq(quiet)
       /\ CallFrame(n + 1)' => Stmt.runs \in Seq(smooth)
       /\ CallFrame(n + 1)' => ~Caught(n + 1, n + 1)'
  <2>1. frames'[n + 1 - 1].todo = This.todo
    BY <1>2, <1>5
  <2>2. EventFrame(n + 1)' => op = "emit" \/ (op = "log" /\ Stmt.on \notin Known)
    BY <1>1, <1>4, <2>1 DEF EventFrame
  <2>3. CallFrame(n + 1)' <=> op = "call"
    BY <1>4 DEF CallFrame
  <2>4. Caught(n + 1, n + 1)' => op = "log"
    BY <1>2, <1>4 DEF Caught
  <2> QED
    BY <1>1, <2>2, <2>3, <2>4 DEF Tame
<1>13. ASSUME NEW i \in 1..(n + 1), NEW j \in 1..(n + 1), j <= i
       PROVE  /\ EventFrame(j)' => frames'[i].todo \in Seq(quiet)
              /\ CallFrame(j)' /\ ~Caught(j, i)' => frames'[i].todo \in Seq(smooth)
              /\ CallFrame(j)' /\ Caught(j, i)' => frames'[i].todo \in Seq(callFree)
  <2>1. CASE i = n + 1 /\ j = n + 1
    BY <1>4, <1>12, <2>1
  <2>2. CASE i = n + 1 /\ j \in 1..n
    BY <1>4, <1>11, <2>2
  <2>3. CASE i \in 1..n
    <3>1. j \in 1..n
      BY <1>2, <1>13, <2>3
    <3> QED
      BY <1>9, <1>13, <2>3, <3>1
  <2> QED
    BY <1>2, <2>1, <2>2, <2>3
<1>14. TameInv(quiet, smooth, callFree)'
  BY <1>3, <1>13 DEF TameInv
<1> QED
  BY <1>0, <1>6, <1>7, <1>14

(* No run is under way.                                                    *)
LEMMA NoneLive ==
  ASSUME NEW quiet, NEW smooth, NEW callFree,
         frames' = <<>>, eventTerms', pendingCall' => pendingArgs' = "alive"
  PROVE  TameInv(quiet, smooth, callFree)' /\ AliveInv'
<1>1. DOMAIN frames' = {}
  OBVIOUS
<1> QED
  BY <1>1 DEF TameInv, AliveInv

(* Frames have gone: those of no call, or of the only one, and that has    *)
(* made its terms.                                                         *)
LEMMA ShrunkLive ==
  ASSUME NEW quiet, NEW smooth, NEW callFree, IInv, TameInv(quiet, smooth, callFree), AliveInv,
         NEW m, Shrunk(m), eventTerms', pendingCall' = pendingCall,
         \A i \in 1..m : EventFrame(i) \/ CallFrame(i) => frames'[i].alive = frames[i].alive,
         \/ (\A k \in (m + 1)..Len(frames) : ~CallFrame(k)) /\ pendingArgs' = pendingArgs
         \/ (\A k \in 1..m : ~CallFrame(k)) /\ pendingArgs' = "alive"
  PROVE  TameInv(quiet, smooth, callFree)' /\ AliveInv'
<1>1. PICK n \in Nat : n = Len(frames)
  BY DEF IInv, TypeOK
<1>2. m \in 1..n /\ DOMAIN frames = 1..n /\ DOMAIN frames' = 1..m /\ Len(frames') = m
  BY <1>1 DEF Shrunk, IInv, TypeOK
<1>3. /\ TameInv(quiet, smooth, callFree)'
      /\ \A i \in 1..m : (EventFrame(i)' <=> EventFrame(i)) /\ (CallFrame(i)' <=> CallFrame(i))
  BY ShrunkTame
<1>4. ASSUME NEW i \in 1..m, EventFrame(i)' PROVE frames'[i].alive
  BY <1>2, <1>3, <1>4 DEF AliveInv
<1>5. ASSUME NEW i \in 1..m, CallFrame(i)', \A k \in (i + 1)..m : ~CallFrame(k)'
      PROVE  frames'[i].alive
  <2>1. CallFrame(i) /\ frames'[i].alive = frames[i].alive
    BY <1>3, <1>5
  <2>2. ASSUME NEW k \in (i + 1)..n PROVE ~CallFrame(k)
    <3>1. k \in (i + 1)..m => k \in 1..m
      BY <1>2
    <3>2. k \in (i + 1)..m \/ k \in (m + 1)..n
      BY <1>2
    <3> QED
      BY <1>1, <1>3, <1>5, <2>1, <3>1, <3>2
  <2>3. frames[i].alive
    BY <1>1, <1>2, <2>1, <2>2 DEF AliveInv
  <2> QED
    BY <2>1, <2>3
<1>6. pendingCall' => pendingArgs' = "alive" \/ \E i \in 1..m : CallFrame(i)'
  <2>1. CASE (\A k \in (m + 1)..n : ~CallFrame(k)) /\ pendingArgs' = pendingArgs
    <3>1. pendingCall => pendingArgs = "alive" \/ \E i \in 1..n : CallFrame(i)
      BY <1>2 DEF AliveInv
    <3>2. \A i \in 1..n : i \in 1..m \/ i \in (m + 1)..n
      BY <1>2
    <3> QED
      BY <1>3, <2>1, <3>1, <3>2
  <2>2. CASE pendingArgs' = "alive"
    BY <2>2
  <2> QED
    BY <1>1, <2>1, <2>2
<1> QED
  BY <1>2, <1>3, <1>4, <1>5, <1>6 DEF AliveInv

(* The statement at the top is one of those that what is under way allows. *)
LEMMA StmtTame ==
  ASSUME NEW quiet, NEW smooth, NEW callFree, IInv, TameInv(quiet, smooth, callFree),
         NEW i \in DOMAIN frames, NEW j \in DOMAIN frames, j <= i, frames[i].todo # <<>>
  PROVE  /\ EventFrame(j) => Head(frames[i].todo) \in quiet
         /\ CallFrame(j) /\ ~Caught(j, i) => Head(frames[i].todo) \in smooth
         /\ CallFrame(j) /\ Caught(j, i) => Head(frames[i].todo) \in callFree
<1>1. /\ EventFrame(j) => frames[i].todo \in Seq(quiet)
      /\ CallFrame(j) /\ ~Caught(j, i) => frames[i].todo \in Seq(smooth)
      /\ CallFrame(j) /\ Caught(j, i) => frames[i].todo \in Seq(callFree)
  BY DEF TameInv
<1> QED
  BY <1>1

(* A message is sent from no other's data.                                 *)
LEMMA EmitLive ==
  ASSUME NEW quiet, NEW smooth, NEW callFree, Tame(quiet, smooth, callFree),
         IInv, TameInv(quiet, smooth, callFree), AliveInv, EmitEvent
  PROVE  TameInv(quiet, smooth, callFree)' /\ AliveInv'
<1>1. PICK n \in Nat : n = Len(frames)
  BY DEF IInv, TypeOK
<1>2. /\ Running /\ This.native \in {"emit", "log"} /\ n - 1 \in 1..n
      /\ frames[n - 1].todo # <<>> /\ Host = Head(frames[n - 1].todo) /\ Host.op = This.native
  BY <1>1, HostIs DEF EmitEvent
<1>3. This = frames[n] /\ n \in 1..n /\ DOMAIN frames = 1..n
  BY <1>1, <1>2, TopIs DEF IInv, TypeOK
<1>4. ASSUME NEW j \in 1..(n - 1) PROVE ~EventFrame(j)
  <2>1. j \in DOMAIN frames /\ n - 1 \in DOMAIN frames /\ j <= n - 1
    BY <1>2, <1>3
  <2>2. EventFrame(j) => Host \in quiet
    BY <1>2, <2>1, StmtTame
  <2> QED
    BY <1>2, <2>2 DEF Tame
<1>5. /\ Shrunk(n - 1)
      /\ \A i \in 1..(n - 1) :
            frames'[i].alive = (frames[i].alive /\ frames[i].native \notin {"emit", "log"})
  BY <1>1, EmitShrinks
<1>6. eventTerms'
  <2>1. EventFrame(n) => This.alive
    BY <1>3 DEF AliveInv
  <2>2. (This.native = "log" /\ Host.on \in Known) \/ EventFrame(n)
    BY <1>2, <1>3 DEF EventFrame
  <2> QED
    BY <2>1, <2>2 DEF EmitEvent, TermsAlive
<1>7. ASSUME NEW i \in 1..(n - 1), EventFrame(i) \/ CallFrame(i)
      PROVE  frames'[i].alive = frames[i].alive
  <2>1. frames[i].native = "call"
    BY <1>4, <1>7 DEF CallFrame
  <2>2. frames[i].alive \in BOOLEAN
    <3>1. frames[i] \in FrameType
      <4>1. i \in 1..n
        BY <1>2
      <4> QED
        BY <1>1, <1>2, <4>1, TopIs
    <3> QED
      BY <3>1 DEF FrameType
  <2> QED
    BY <1>5, <2>1, <2>2
<1>8. \A k \in (n - 1 + 1)..n : ~CallFrame(k)
  BY <1>2, <1>3 DEF CallFrame
<1>9. UNCHANGED <<pendingCall, pendingArgs>>
  BY DEF EmitEvent, call
<1> QED
  BY <1>1, <1>5, <1>6, <1>7, <1>8, <1>9, ShrunkLive

(* A statement that enters nothing.                                        *)
LEMMA OverLive ==
  ASSUME NEW quiet, NEW smooth, NEW callFree, IInv, TameInv(quiet, smooth, callFree), AliveInv,
         On \/ Off \/ Ignore \/ CallCached
  PROVE  TameInv(quiet, smooth, callFree)' /\ AliveInv'
<1>1. Running /\ This.todo # <<>> /\ frames' = Over(frames)
  BY DEF On, Off, Ignore, CallCached, At
<1>2. UNCHANGED <<eventTerms, pendingCall, pendingArgs>>
  BY DEF On, Off, Ignore, CallCached, call
<1>3. Shrunk(Len(frames)) /\ SameAlive
  BY <1>1, OverShrinks
<1>4. \A i \in 1..Len(frames) : frames'[i].alive = frames[i].alive
  BY <1>3 DEF SameAlive, Shrunk
<1>5. \A k \in (Len(frames) + 1)..Len(frames) : ~CallFrame(k)
  BY <1>1, TopIs
<1>6. eventTerms'
  BY <1>2 DEF AliveInv
<1> QED
  BY <1>2, <1>3, <1>4, <1>5, <1>6, ShrunkLive

(* A native function is entered.                                           *)
LEMMA EnterLive ==
  ASSUME NEW quiet, NEW smooth, NEW callFree, Tame(quiet, smooth, callFree),
         IInv, TameInv(quiet, smooth, callFree), AliveInv, EnterEvent \/ EnterCall
  PROVE  TameInv(quiet, smooth, callFree)' /\ AliveInv'
<1>1. PICK n \in Nat : n = Len(frames)
  BY DEF IInv, TypeOK
<1>2. PICK op \in {"emit", "log", "call"} : At(op) /\ (op = "call" => EnterCall) /\ (op # "call" => EnterEvent)
  BY DEF EnterEvent, EnterCall
<1>3. Grown
  BY EventGrows, CallGrows
<1>4. /\ TameInv(quiet, smooth, callFree)'
      /\ \A i \in 1..n : (EventFrame(i)' <=> EventFrame(i)) /\ (CallFrame(i)' <=> CallFrame(i))
  BY <1>1, <1>2, <1>3, GrownTame
<1>5. /\ DOMAIN frames = 1..n /\ DOMAIN frames' = 1..(n + 1) /\ Len(frames') = n + 1
      /\ frames'[n + 1].native = op /\ frames'[n + 1].alive
  BY <1>1, <1>2, <1>3, StmtIs DEF Grown, Frame, IInv, TypeOK
<1>6. eventTerms'
  BY DEF EnterEvent, EnterCall, AliveInv
<1>7. \A i \in 1..n : frames[i] \in FrameType
  BY <1>1, <1>2, TopIs DEF At
<1>8. ASSUME NEW i \in 1..n PROVE frames'[i].alive = (frames[i].alive /\ (op = "call" => ~CallFrame(i)))
  <2>1. CASE op = "call"
    BY <1>1, <1>2, <2>1, CallGrows DEF CallFrame
  <2>2. CASE op # "call"
    BY <1>1, <1>2, <1>7, <2>2, EventGrows DEF FrameType
  <2> QED
    BY <2>1, <2>2
<1>9. ASSUME NEW i \in 1..(n + 1), EventFrame(i)' PROVE frames'[i].alive
  <2>1. CASE i = n + 1
    BY <1>5, <2>1
  <2>2. CASE i \in 1..n
    <3>1. EventFrame(i) /\ ~CallFrame(i)
      BY <1>4, <1>9, <2>2 DEF EventFrame, CallFrame
    <3> QED
      BY <1>5, <1>8, <2>2, <3>1 DEF AliveInv
  <2> QED
    BY <2>1, <2>2
<1>10. ASSUME NEW i \in 1..(n + 1), CallFrame(i)', \A k \in (i + 1)..(n + 1) : ~CallFrame(k)'
       PROVE  frames'[i].alive
  <2>1. CASE i = n + 1
    BY <1>5, <2>1
  <2>2. CASE i \in 1..n
    <3>1. n + 1 \in (i + 1)..(n + 1) /\ \A k \in (i + 1)..n : k \in (i + 1)..(n + 1) /\ k \in 1..n
      BY <2>2
    <3>2. op # "call"
      BY <1>5, <1>10, <3>1 DEF CallFrame
    <3>3. CallFrame(i) /\ \A k \in (i + 1)..n : ~CallFrame(k)
      BY <1>4, <1>10, <2>2, <3>1
    <3>4. frames[i].alive
      BY <1>1, <1>5, <2>2, <3>3 DEF AliveInv
    <3> QED
      BY <1>8, <2>2, <3>2, <3>4
  <2> QED
    BY <2>1, <2>2
<1>11. pendingCall' => pendingArgs' = "alive" \/ \E i \in 1..(n + 1) : CallFrame(i)'
  <2>1. CASE op = "call"
    <3>1. n + 1 \in 1..(n + 1) /\ CallFrame(n + 1)'
      BY <1>5, <2>1 DEF CallFrame
    <3> QED
      BY <3>1
  <2>2. CASE op # "call"
    <3>1. UNCHANGED <<pendingCall, pendingArgs>>
      BY <1>2, <2>2 DEF EnterEvent, call
    <3>2. pendingCall => pendingArgs = "alive" \/ \E i \in 1..n : CallFrame(i)
      BY <1>5 DEF AliveInv
    <3>3. \A i \in 1..n : i \in 1..(n + 1)
      OBVIOUS
    <3> QED
      BY <1>4, <3>1, <3>2, <3>3
  <2> QED
    BY <2>1, <2>2
<1> QED
  BY <1>4, <1>5, <1>6, <1>9, <1>10, <1>11 DEF AliveInv

(* Only the text of a log that stands above a call throws.                 *)
LEMMA ErrorCaught ==
  ASSUME NEW quiet, NEW smooth, NEW callFree, Tame(quiet, smooth, callFree),
         IInv, TameInv(quiet, smooth, callFree), ThrowError,
         NEW j \in DOMAIN frames, CallFrame(j)
  PROVE  Caught(j, Len(frames))
<1>1. PICK n \in Nat : n = Len(frames)
  BY DEF IInv, TypeOK
<1>2. Running /\ This.todo # <<>> /\ Stmt.op = "throw" /\ Stmt = Head(This.todo)
  BY DEF ThrowError, At, Stmt
<1>3. This = frames[n] /\ n \in DOMAIN frames /\ j <= n
  BY <1>1, <1>2, TopIs DEF IInv, TypeOK
<1>4. ~Caught(j, n) => Stmt \in smooth
  BY <1>2, <1>3, StmtTame
<1> QED
  BY <1>1, <1>2, <1>4 DEF Tame

(* An error leaves every call that is under way or none.                   *)
LEMMA ErrorLive ==
  ASSUME NEW quiet, NEW smooth, NEW callFree, Tame(quiet, smooth, callFree),
         IInv, TameInv(quiet, smooth, callFree), AliveInv, ThrowError
  PROVE  TameInv(quiet, smooth, callFree)' /\ AliveInv'
<1>1. PICK n \in Nat : n = Len(frames) /\ DOMAIN frames = 1..n
  BY DEF IInv, TypeOK
<1>2. Running /\ Throw("error") /\ UNCHANGED <<eventTerms, pendingCall, pendingArgs>>
  BY DEF ThrowError, At, call
<1>3. ASSUME NEW j \in 1..n, CallFrame(j) PROVE \E k \in j..n : frames[k].native = "log"
  BY <1>1, <1>3, ErrorCaught DEF Caught
<1>4. CASE (\A i \in 1..n : frames[i].native # "log") /\ frames' = <<>>
  <2>1. \A j \in 1..n : \A k \in j..n : k \in 1..n
    OBVIOUS
  <2>2. \A j \in 1..n : ~CallFrame(j)
    BY <1>3, <1>4, <2>1
  <2>3. eventTerms' /\ (pendingCall' => pendingArgs' = "alive")
    BY <1>1, <1>2, <2>2 DEF AliveInv
  <2> QED
    BY <1>4, <2>3, NoneLive
<1>5. ASSUME NEW at \in 1..n, Shrunk(at), SameAlive, \A i \in (at + 1)..n : frames[i].native # "log"
      PROVE  TameInv(quiet, smooth, callFree)' /\ AliveInv'
  <2>1. ASSUME NEW k \in (at + 1)..n PROVE ~CallFrame(k)
    <3>1. k \in 1..n /\ \A l \in k..n : l \in (at + 1)..n
      OBVIOUS
    <3> QED
      BY <1>3, <1>5, <3>1
  <2>2. \A i \in 1..at : frames'[i].alive = frames[i].alive
    BY <1>5 DEF SameAlive, Shrunk
  <2>3. eventTerms'
    BY <1>2 DEF AliveInv
  <2> QED
    BY <1>1, <1>2, <1>5, <2>1, <2>2, <2>3, ShrunkLive
<1> QED
  BY <1>1, <1>2, <1>4, <1>5, ThrowShrinks

(* The sentinel leaves no call: its own has all its terms, and none stands *)
(* below the text of a log that it is made in.                             *)
LEMMA SentinelLive ==
  ASSUME NEW quiet, NEW smooth, NEW callFree, Tame(quiet, smooth, callFree),
         IInv, TameInv(quiet, smooth, callFree), AliveInv, ThrowCall
  PROVE  TameInv(quiet, smooth, callFree)' /\ AliveInv'
<1>1. PICK n \in Nat : n = Len(frames) /\ DOMAIN frames = 1..n
  BY DEF IInv, TypeOK
<1>2. /\ Running /\ This.native = "call" /\ n - 1 \in 1..n
      /\ frames[n - 1].todo # <<>> /\ Host = Head(frames[n - 1].todo) /\ Host.op = "call"
  BY <1>1, HostIs DEF ThrowCall
<1>3. This = frames[n] /\ n \in 1..n
  BY <1>1, <1>2, TopIs
<1>4. pendingArgs' = "alive"
  <2>1. CallFrame(n) /\ \A k \in (n + 1)..n : ~CallFrame(k)
    BY <1>2, <1>3 DEF CallFrame
  <2>2. This.alive
    BY <1>1, <1>3, <2>1 DEF AliveInv
  <2> QED
    BY <2>2 DEF ThrowCall, ArgsAlive
<1>5. Throw("sentinel") /\ UNCHANGED <<eventTerms, pendingCall>>
  BY DEF ThrowCall
<1>6. eventTerms'
  BY <1>5 DEF AliveInv
<1>7. CASE frames' = <<>>
  BY <1>4, <1>6, <1>7, NoneLive
<1>8. ASSUME NEW at \in 1..n, frames[at].native = "log", Shrunk(at), SameAlive
      PROVE  TameInv(quiet, smooth, callFree)' /\ AliveInv'
  <2>1. at <= n - 1 /\ n - 1 \in DOMAIN frames
    BY <1>1, <1>2, <1>3, <1>8
  <2>2. ASSUME NEW j \in 1..at PROVE ~CallFrame(j)
    <3>1. j \in DOMAIN frames /\ j <= n - 1 /\ at \in j..(n - 1)
      BY <1>1, <2>1
    <3>2. Caught(j, n - 1)
      BY <1>8, <3>1 DEF Caught
    <3>3. CallFrame(j) => Host \in callFree
      BY <1>2, <2>1, <3>1, <3>2, StmtTame
    <3> QED
      BY <1>2, <3>3 DEF Tame
  <2>3. \A i \in 1..at : frames'[i].alive = frames[i].alive
    BY <1>8 DEF SameAlive, Shrunk
  <2> QED
    BY <1>4, <1>5, <1>6, <1>8, <2>2, <2>3, ShrunkLive
<1> QED
  BY <1>1, <1>2, <1>5, <1>7, <1>8, ThrowShrinks

(* Between runs nothing is under way, and a recorded call has its terms.   *)
LEMMA RestLive ==
  ASSUME IInv, AliveInv, ~Running
  PROVE  frames = <<>> /\ eventTerms /\ (pendingCall => pendingArgs = "alive")
<1>1. frames = <<>>
  BY DEF IInv, FramesInv
<1> QED
  BY <1>1 DEF AliveInv

(* A run begins with its program only.                                     *)
LEMMA BeginLive ==
  ASSUME NEW quiet, NEW smooth, NEW callFree, IInv, AliveInv,
         (\E prog \in Programs : Eval(prog)) \/ Resume \/ (\E n \in Names : Send(n))
  PROVE  TameInv(quiet, smooth, callFree)' /\ AliveInv'
<1>1. ~Running /\ UNCHANGED <<eventTerms, pendingCall, pendingArgs>>
  BY DEF Eval, Resume, Send, Begin, Running, call
<1>2. PICK stmts : frames' = <<Frame(stmts, "program")>>
  BY DEF Eval, Resume, Send, Begin
<1>3. DOMAIN frames' = {1} /\ Len(frames') = 1 /\ frames'[1].native = "program"
  BY <1>2 DEF Frame
<1>4. eventTerms' /\ (pendingCall' => pendingArgs' = "alive")
  BY <1>1, RestLive
<1> QED
  BY <1>3, <1>4 DEF TameInv, AliveInv, EventFrame, CallFrame

(* A run ends, and its result is taken.                                    *)
LEMMA EndLive ==
  ASSUME NEW quiet, NEW smooth, NEW callFree, IInv, AliveInv,
         Return \/ ReturnCall \/ ReturnResult \/ ReturnSend
  PROVE  TameInv(quiet, smooth, callFree)' /\ AliveInv'
<1>1. CASE Return
  <2>1. PICK n \in Nat : n = Len(frames) /\ DOMAIN frames = 1..n
    BY DEF IInv, TypeOK
  <2>2. Running /\ This.native = "program"
    BY <1>1 DEF Return, Ended
  <2>3. frames[n].native = "program" /\ n \in 1..n
    BY <2>1, <2>2, TopIs
  <2>4. n = 1
    BY <2>1, <2>3 DEF IInv, FramesInv
  <2>5. \A i \in DOMAIN frames : ~CallFrame(i)
    BY <2>1, <2>3, <2>4 DEF CallFrame
  <2>6. frames' = <<>> /\ UNCHANGED <<eventTerms, pendingCall, pendingArgs>>
    BY <1>1 DEF Return, call
  <2> QED
    BY <2>5, <2>6, NoneLive DEF AliveInv
<1>2. CASE ReturnCall \/ ReturnResult \/ ReturnSend
  <2>1. ~Running /\ UNCHANGED <<frames, eventTerms, pendingArgs>> /\ (pendingCall' => pendingCall)
    BY <1>2 DEF ReturnCall, ReturnResult, ReturnSend, IsCall, Leave, Running, call
  <2>2. frames' = <<>> /\ eventTerms' /\ (pendingCall' => pendingArgs' = "alive")
    BY <2>1, RestLive
  <2> QED
    BY <2>2, NoneLive
<1> QED
  BY <1>1, <1>2

(* With programs that are Tame, whatever they are, every message is sent   *)
(* and every call returned with its terms alive: emit_event and            *)
(* call_erlang clear the one environment of the context under no call that *)
(* still needs it.                                                         *)
THEOREM TermsStayLive ==
  ASSUME NEW quiet, NEW smooth, NEW callFree, Tame(quiet, smooth, callFree)
  PROVE  Spec => []TermsLive
<1> DEFINE Inv == TameInv(quiet, smooth, callFree) /\ AliveInv
<1>1. Init => Inv
  <2> SUFFICES ASSUME Init PROVE Inv
    OBVIOUS
  <2>1. DOMAIN frames = {} /\ eventTerms /\ ~pendingCall
    BY DEF Init
  <2> QED
    BY <2>1 DEF TameInv, AliveInv
<1>2. IInv /\ Inv /\ [Next]_vars => Inv'
  <2> SUFFICES ASSUME IInv, Inv, [Next]_vars PROVE Inv'
    OBVIOUS
  <2>1. CASE UNCHANGED vars
    BY <2>1 DEF vars, call, TameInv, AliveInv, EventFrame, CallFrame, Caught
  <2>2. CASE \E n \in Names : SendNothing(n)
    BY <2>1, <2>2 DEF SendNothing
  <2>3. CASE (\E prog \in Programs : Eval(prog)) \/ Resume \/ (\E n \in Names : Send(n))
    BY <2>3, BeginLive
  <2>4. CASE On \/ Off \/ Ignore \/ CallCached
    BY <2>4, OverLive
  <2>5. CASE ThrowError
    BY <2>5, ErrorLive
  <2>6. CASE EnterEvent \/ EnterCall
    BY <2>6, EnterLive
  <2>7. CASE EmitEvent
    BY <2>7, EmitLive
  <2>8. CASE ThrowCall
    BY <2>8, SentinelLive
  <2>9. CASE Return \/ ReturnCall \/ ReturnResult \/ ReturnSend
    BY <2>9, EndLive
  <2> QED
    BY <2>1, <2>2, <2>3, <2>4, <2>5, <2>6, <2>7, <2>8, <2>9 DEF Next, Run
<1>3. IInv /\ Inv => TermsLive
  <2> SUFFICES ASSUME IInv, Inv PROVE TermsLive
    OBVIOUS
  <2>1. IsCall => ~Running
    BY DEF IsCall, Running
  <2> QED
    BY <2>1, RestLive DEF TermsLive, IsCall, AliveInv
<1> QED
  BY <1>1, <1>2, <1>3, IInvAlways, PTL DEF Spec
=============================================================================
