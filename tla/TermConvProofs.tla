--------------------------- MODULE TermConvProofs ---------------------------
(***************************************************************************)
(* Theorems about TermConv, for every set of terms and values, of whatever *)
(* depth: the conversions leave the value stack as they promise, and drop  *)
(* no part of a term.                                                      *)
(***************************************************************************)
EXTENDS TermConv, SequenceTheorems, TLAPS

IsFrame(f) == f = [keyed |-> f.keyed, slot |-> f.slot, todo |-> f.todo, made |-> f.made]

Elements(s) == {s[i] : i \in DOMAIN s}

(* A call is about to be made, or has returned, or a loop is at its next   *)
(* element.                                                                *)
StepInv ==
    /\ frames \in Seq(Elements(frames))
    /\ \A i \in DOMAIN frames : IsFrame(frames[i])
    /\ Calling => ret = None
    /\ side = "none" => middle = None /\ arg = None /\ ret = None /\ frames = <<>> /\ top = 0
    /\ side # "none" => Calling \/ ret # None \/ frames # <<>>

(* Where an element of the i-th array or object lies while it is converted:*)
(* above the object, in JavaScript's above the key, and above enumerator   *)
(* and key; and what was given to convert, at 0.                           *)
ElementSlot(i) ==
    IF i = 0 THEN 0
    ELSE frames[i].slot + (IF ~frames[i].keyed THEN 1 ELSE IF ToJs THEN 2 ELSE 3)

Here == ElementSlot(Len(frames))

SlotsInv ==
    /\ \A i \in DOMAIN frames : frames[i].slot = ElementSlot(i - 1)
    /\ Calling /\ ToJs => top = Here
    /\ Calling /\ ToErl => top = Here + 1
    /\ ret = Fail => ToJs /\ top = Here
    /\ Is(ret, "ok") => top = Here + 1
    /\ Looping => top = Frame1.slot + (IF ToErl /\ Frame1.keyed THEN 2 ELSE 1)

IInv == TypeOK /\ StepInv /\ SlotsInv

-----------------------------------------------------------------------------
(* The term that the i-th array or object is made of, and above the last   *)
(* the one that is converted.                                              *)
Node(i) == IF i = 1 THEN origin ELSE Head(frames[i - 1].todo)[2]

ItemConverts(keyed, item) == (keyed => IsKey(item[1])) /\ item[2] \in Convertible

Converting == side = "erl" /\ middle = None

Entries == (Parts \cup {None}) \X Parts

(* A term has a value if what is left of it has: what was converted had.   *)
FrameWhole(i) ==
    /\ frames[i].todo \in Seq(Entries)
    /\ Node(i) \in Convertible <=>
         \A j \in DOMAIN frames[i].todo : ItemConverts(frames[i].keyed, frames[i].todo[j])

(* Its next element is being converted, and is under a key that is a text. *)
HeadReady(i) ==
    /\ frames[i].todo # <<>>
    /\ frames[i].keyed => IsKey(Head(frames[i].todo)[1])

WholeInv ==
    Converting =>
        /\ origin \in Parts
        /\ \A i \in DOMAIN frames :
             FrameWhole(i) /\ (i < Len(frames) \/ ~Looping => HeadReady(i))
        /\ Calling => arg.ok = Node(Len(frames) + 1)
        /\ ret # None => (ret = Fail) = (Node(Len(frames) + 1) \notin Convertible)

-----------------------------------------------------------------------------
(* A result is a value, a failure, or none yet.                            *)
LEMMA OkIs ==
  /\ \A x : Is(Ok(x), "ok") /\ Ok(x).ok = x /\ Ok(x) # None /\ Ok(x) # Fail
  /\ ~Is(None, "ok") /\ ~Is(Fail, "ok") /\ None # Fail
<1>1. \A x : DOMAIN Ok(x) = {"ok"} /\ Ok(x).ok = x
  BY DEF Ok
<1>2. DOMAIN None = {"none"} /\ DOMAIN Fail = {"fail"}
  BY DEF None, Fail
<1>3. \A x : Ok(x) # None /\ Ok(x) # Fail
  BY <1>1, <1>2
<1>4. None # Fail
  BY <1>2
<1> QED
  BY <1>1, <1>2, <1>3, <1>4 DEF Is

(* Sequences of whatever elements *)
LEMMA AppendIs ==
  ASSUME NEW s, s \in Seq(Elements(s)), NEW x
  PROVE  /\ Append(s, x) \in Seq(Elements(Append(s, x)))
         /\ Len(s) \in Nat /\ Len(Append(s, x)) = Len(s) + 1 /\ Append(s, x) # <<>>
         /\ \A i \in 1..Len(s) : Append(s, x)[i] = s[i]
         /\ Append(s, x)[Len(s) + 1] = x
         /\ Last(Append(s, x)) = x
<1> DEFINE t == Append(s, x)
           S == Elements(s) \cup {x}
<1>1. s \in Seq(S)
  BY SeqMonotonic
<1>2. x \in S
  OBVIOUS
<1> HIDE DEF S
<1>3. /\ t \in Seq(S) /\ Len(s) \in Nat /\ Len(t) = Len(s) + 1
      /\ \A i \in 1..Len(s) : t[i] = s[i]
      /\ t[Len(s) + 1] = x
  BY <1>1, <1>2
<1> HIDE DEF t
<1>4. t # <<>> /\ t \in [1..Len(t) -> S] /\ DOMAIN t = 1..Len(t)
  BY <1>3, LenProperties, EmptySeq
<1>5. t \in [1..Len(t) -> Elements(t)]
  BY <1>4 DEF Elements
<1>6. t \in Seq(Elements(t))
  BY <1>3, <1>5, SeqDef
<1>7. Last(t) = x
  BY <1>3 DEF Last
<1> QED
  BY <1>3, <1>4, <1>6, <1>7 DEF t

LEMMA FrontIs ==
  ASSUME NEW s, s \in Seq(Elements(s)), s # <<>>
  PROVE  /\ Front(s) \in Seq(Elements(Front(s)))
         /\ Len(s) \in Nat \ {0} /\ DOMAIN s = 1..Len(s) /\ Len(Front(s)) = Len(s) - 1
         /\ \A i \in 1..(Len(s) - 1) : Front(s)[i] = s[i]
         /\ Last(s) = s[Len(s)]
<1> DEFINE t == Front(s)
           S == Elements(s)
<1>1. s \in Seq(S) /\ Len(s) \in Nat \ {0} /\ DOMAIN s = 1..Len(s) /\ s \in [1..Len(s) -> S]
  BY EmptySeq, LenProperties
<1> HIDE DEF S
<1>2. t = [i \in 1..(Len(s) - 1) |-> s[i]]
  BY <1>1 DEF Front
<1> HIDE DEF t
<1>3. Len(s) - 1 \in Nat /\ \A i \in 1..(Len(s) - 1) : t[i] = s[i]
  BY <1>1, <1>2
<1>4. t \in [1..(Len(s) - 1) -> Elements(t)]
  BY <1>2 DEF Elements
<1>5. t \in Seq(Elements(t)) /\ Len(t) = Len(s) - 1
  BY <1>3, <1>4, SeqDef, LenProperties
<1>6. Last(s) = s[Len(s)]
  BY <1>1 DEF Last
<1> QED
  BY <1>1, <1>3, <1>5, <1>6 DEF t

-----------------------------------------------------------------------------
(* What a step does to the frames *)

Typed(fs) ==
    /\ fs \in Seq(Elements(fs))
    /\ \A i \in DOMAIN fs : IsFrame(fs[i]) /\ fs[i].keyed \in BOOLEAN /\ fs[i].slot \in Nat

LEMMA FramesTyped ==
  ASSUME IInv
  PROVE  Typed(frames) /\ Len(frames) \in Nat /\ DOMAIN frames = 1..Len(frames)
<1>1. Typed(frames)
  BY DEF IInv, StepInv, TypeOK, Typed
<1> QED
  BY <1>1, LenProperties DEF Typed

LEMMA FrameIs ==
  ASSUME NEW x, NEW slot \in Nat
  PROVE  /\ IsFrame(FrameOf(x, slot))
         /\ FrameOf(x, slot).keyed = Keyed(x) /\ Keyed(x) \in BOOLEAN
         /\ FrameOf(x, slot).slot = slot
         /\ FrameOf(x, slot).todo = Items(x)
<1>1. Keyed(x) \in BOOLEAN
  BY DEF Keyed
<1> QED
  BY <1>1 DEF IsFrame, FrameOf

LEMMA AdvancedIs ==
  ASSUME NEW f, NEW made
  PROVE  /\ IsFrame(Advanced(f, made))
         /\ Advanced(f, made).keyed = f.keyed /\ Advanced(f, made).slot = f.slot
         /\ Advanced(f, made).todo = Tail(f.todo)
BY DEF IsFrame, Advanced

(* An array or object is begun.                                            *)
LEMMA Grows ==
  ASSUME IInv, NEW x, NEW slot \in Nat, frames' = Append(frames, FrameOf(x, slot))
  PROVE  /\ Typed(frames') /\ frames' # <<>>
         /\ Len(frames') = Len(frames) + 1 /\ DOMAIN frames' = 1..(Len(frames) + 1)
         /\ \A i \in 1..Len(frames) : frames'[i] = frames[i]
         /\ frames'[Len(frames) + 1] = FrameOf(x, slot)
         /\ Last(frames') = FrameOf(x, slot)
<1> DEFINE f == FrameOf(x, slot)
<1>1. Typed(frames) /\ Len(frames) \in Nat /\ DOMAIN frames = 1..Len(frames)
  BY FramesTyped
<1>2. IsFrame(f) /\ f.keyed \in BOOLEAN /\ f.slot \in Nat
  BY FrameIs
<1> HIDE DEF f
<1>3. /\ frames' \in Seq(Elements(frames')) /\ frames' # <<>>
      /\ Len(frames') = Len(frames) + 1
      /\ \A i \in 1..Len(frames) : frames'[i] = frames[i]
      /\ frames'[Len(frames) + 1] = f /\ Last(frames') = f
  BY <1>1, AppendIs DEF Typed, f
<1>4. DOMAIN frames' = 1..(Len(frames) + 1)
  BY <1>3, LenProperties
<1>5. ASSUME NEW i \in DOMAIN frames'
      PROVE  IsFrame(frames'[i]) /\ frames'[i].keyed \in BOOLEAN /\ frames'[i].slot \in Nat
  <2>1. CASE i \in 1..Len(frames)
    BY <1>1, <1>3, <2>1 DEF Typed
  <2>2. CASE i = Len(frames) + 1
    BY <1>2, <1>3, <2>2
  <2> QED
    BY <1>1, <1>4, <2>1, <2>2
<1> QED
  BY <1>3, <1>4, <1>5 DEF Typed, f

(* It is done with, or given up.                                           *)
LEMMA Shrinks ==
  ASSUME IInv, frames # <<>>, frames' = Pop
  PROVE  /\ Typed(frames')
         /\ Len(frames) \in Nat \ {0} /\ DOMAIN frames = 1..Len(frames)
         /\ Len(frames') = Len(frames) - 1 /\ DOMAIN frames' = 1..(Len(frames) - 1)
         /\ \A i \in 1..(Len(frames) - 1) : frames'[i] = frames[i]
         /\ Frame1 = frames[Len(frames)]
<1>1. Typed(frames)
  BY FramesTyped
<1>2. /\ frames' \in Seq(Elements(frames'))
      /\ Len(frames) \in Nat \ {0} /\ DOMAIN frames = 1..Len(frames)
      /\ Len(frames') = Len(frames) - 1
      /\ \A i \in 1..(Len(frames) - 1) : frames'[i] = frames[i]
      /\ Frame1 = frames[Len(frames)]
  BY <1>1, FrontIs DEF Typed, Pop, Frame1
<1>3. DOMAIN frames' = 1..(Len(frames) - 1)
  BY <1>2, LenProperties
<1> QED
  BY <1>1, <1>2, <1>3 DEF Typed

(* One of its elements is.                                                 *)
LEMMA Advances ==
  ASSUME IInv, frames # <<>>, NEW made, frames' = Append(Pop, Advanced(Frame1, made))
  PROVE  /\ Typed(frames') /\ frames' # <<>>
         /\ Len(frames) \in Nat \ {0} /\ DOMAIN frames = 1..Len(frames)
         /\ Len(frames') = Len(frames) /\ DOMAIN frames' = 1..Len(frames)
         /\ \A i \in 1..Len(frames) : frames'[i].keyed = frames[i].keyed /\ frames'[i].slot = frames[i].slot
         /\ \A i \in 1..(Len(frames) - 1) : frames'[i] = frames[i]
         /\ frames'[Len(frames)].todo = Tail(frames[Len(frames)].todo)
         /\ Frame1 = frames[Len(frames)] /\ Last(frames') = frames'[Len(frames)]
<1> DEFINE n == Len(frames)
           f == Advanced(Frame1, made)
<1>1. Typed(frames)
  BY FramesTyped
<1>2. /\ Pop \in Seq(Elements(Pop)) /\ n \in Nat \ {0} /\ DOMAIN frames = 1..n
      /\ Len(Pop) = n - 1 /\ \A i \in 1..(n - 1) : Pop[i] = frames[i]
      /\ Frame1 = frames[n]
  BY <1>1, FrontIs DEF Typed, Pop, Frame1
<1>3. IsFrame(frames[n]) /\ frames[n].keyed \in BOOLEAN /\ frames[n].slot \in Nat
  BY <1>1, <1>2 DEF Typed
<1>4. frames' = Append(Pop, f)
  OBVIOUS
<1>5. /\ IsFrame(f) /\ f.keyed = frames[n].keyed /\ f.slot = frames[n].slot
      /\ f.todo = Tail(frames[n].todo)
  BY <1>2, <1>3, AdvancedIs
<1> HIDE DEF f
<1> DEFINE p == Pop
<1> HIDE DEF n, p
<1>6. /\ frames' \in Seq(Elements(frames')) /\ frames' # <<>>
      /\ Len(frames') = (n - 1) + 1
      /\ \A i \in 1..(n - 1) : frames'[i] = p[i]
      /\ frames'[(n - 1) + 1] = f /\ Last(frames') = f
  <2>1. p \in Seq(Elements(p)) /\ Len(p) = n - 1 /\ frames' = Append(p, f)
    BY <1>2, <1>4 DEF p
  <2> QED
    BY <2>1, AppendIs
<1>7. (n - 1) + 1 = n /\ \A i \in 1..n : i = n \/ i \in 1..(n - 1)
  BY <1>2
<1>8. DOMAIN frames' = 1..n /\ Len(frames') = n /\ frames'[n] = f
  BY <1>6, <1>7, LenProperties
<1>9. \A i \in 1..(n - 1) : frames'[i] = frames[i]
  BY <1>2, <1>6 DEF p
<1>10. \A i \in 1..n : frames'[i].keyed = frames[i].keyed /\ frames'[i].slot = frames[i].slot
  BY <1>5, <1>7, <1>8, <1>9
<1>11. \A i \in 1..n : IsFrame(frames'[i])
  BY <1>1, <1>2, <1>5, <1>7, <1>8, <1>9 DEF Typed
<1>12. Typed(frames')
  BY <1>1, <1>2, <1>6, <1>8, <1>10, <1>11 DEF Typed
<1> QED
  BY <1>2, <1>5, <1>6, <1>8, <1>9, <1>10, <1>12 DEF n

-----------------------------------------------------------------------------
(* What the frames below keep, they keep their slots by.                   *)

Placed == \A i \in DOMAIN frames : frames[i].slot = ElementSlot(i - 1)

LEMMA Directions ==
  ASSUME side \in {"erl", "js"}
  PROVE  ToErl <=> ~ToJs
BY DEF ToJs, ToErl

LEMMA Types ==
  ASSUME IInv
  PROVE  /\ \A i \in DOMAIN frames : frames[i].keyed \in BOOLEAN /\ frames[i].slot \in Nat
         /\ \A i \in 0..Len(frames) : ElementSlot(i) \in Nat
         /\ top \in Nat
         /\ Calling \/ Returning \/ Looping => side \in {"erl", "js"}
<1>1. Typed(frames) /\ DOMAIN frames = 1..Len(frames) /\ Len(frames) \in Nat
  BY FramesTyped
<1>2. \A i \in DOMAIN frames : frames[i].keyed \in BOOLEAN /\ frames[i].slot \in Nat
  BY <1>1 DEF Typed
<1>3. ASSUME NEW i \in 0..Len(frames)
      PROVE  ElementSlot(i) \in Nat
  BY <1>1, <1>2 DEF ElementSlot
<1> QED
  BY <1>2, <1>3 DEF IInv, TypeOK, StepInv, Calling, Returning, Looping

LEMMA SlotsKept ==
  ASSUME IInv, side \in {"erl", "js"}, UNCHANGED <<side, middle>>,
         NEW m \in 0..Len(frames),
         \A i \in 1..m : frames'[i].keyed = frames[i].keyed /\ frames'[i].slot = frames[i].slot
  PROVE  /\ ToJs' = ToJs /\ ToErl' = ToErl
         /\ \A i \in 0..m : ElementSlot(i)' = ElementSlot(i)
         /\ \A i \in 1..m : frames'[i].slot = ElementSlot(i - 1)'
<1>1. DOMAIN frames = 1..Len(frames) /\ Len(frames) \in Nat
  BY FramesTyped
<1>2. ToJs' = ToJs /\ ToErl' = ToErl
  BY DEF ToJs, ToErl
<1>3. ASSUME NEW i \in 0..m
      PROVE  ElementSlot(i)' = ElementSlot(i)
  <2>1. i = 0 \/ i \in 1..m
    BY <1>1
  <2> QED
    BY <1>2, <2>1 DEF ElementSlot
<1>4. ASSUME NEW i \in 1..m
      PROVE  frames'[i].slot = ElementSlot(i - 1)'
  <2>1. i \in DOMAIN frames /\ i - 1 \in 0..m
    BY <1>1
  <2>2. frames[i].slot = ElementSlot(i - 1)
    BY <2>1 DEF IInv, SlotsInv
  <2> QED
    BY <1>3, <2>1, <2>2
<1> QED
  BY <1>2, <1>3, <1>4

LEMMA GrowsInPlace ==
  ASSUME IInv, side \in {"erl", "js"}, UNCHANGED <<side, middle>>,
         NEW x, frames' = Append(frames, FrameOf(x, Here))
  PROVE  /\ Typed(frames') /\ Placed' /\ frames' # <<>>
         /\ Frame1'.slot = Here /\ Frame1'.keyed = Keyed(x) /\ Keyed(x) \in BOOLEAN
         /\ ToJs' = ToJs /\ ToErl' = ToErl
<1>0. PICK n : n = Len(frames)
  OBVIOUS
<1> DEFINE h == Here
<1>1. n \in Nat /\ DOMAIN frames = 1..n
  BY <1>0, FramesTyped
<1>2. h \in Nat
  BY <1>0, <1>1, Types DEF Here
<1>3. frames' = Append(frames, FrameOf(x, h))
  OBVIOUS
<1> HIDE DEF h
<1>4. /\ Typed(frames') /\ frames' # <<>>
      /\ DOMAIN frames' = 1..(n + 1)
      /\ \A i \in 1..n : frames'[i] = frames[i]
      /\ frames'[n + 1] = FrameOf(x, h) /\ Last(frames') = FrameOf(x, h)
  BY <1>0, <1>2, <1>3, Grows
<1>5. FrameOf(x, h).slot = h /\ FrameOf(x, h).keyed = Keyed(x) /\ Keyed(x) \in BOOLEAN
  BY <1>2, FrameIs
<1>6. /\ ToJs' = ToJs /\ ToErl' = ToErl
      /\ \A i \in 0..n : ElementSlot(i)' = ElementSlot(i)
      /\ \A i \in 1..n : frames'[i].slot = ElementSlot(i - 1)'
  <2>1. n \in 0..Len(frames)
    BY <1>0, <1>1
  <2> QED
    BY <1>4, <2>1, SlotsKept
<1>7. frames'[n + 1].slot = ElementSlot((n + 1) - 1)'
  <2>1. (n + 1) - 1 = n /\ n \in 0..n
    BY <1>1
  <2>2. ElementSlot(n)' = h
    BY <1>0, <1>6, <2>1 DEF h, Here
  <2> QED
    BY <1>4, <1>5, <2>1, <2>2
<1>8. Placed'
  <2>1. \A i \in 1..(n + 1) : i \in 1..n \/ i = n + 1
    BY <1>1
  <2> QED
    BY <1>4, <1>6, <1>7, <2>1 DEF Placed
<1> QED
  BY <1>4, <1>5, <1>6, <1>8 DEF Frame1, h

LEMMA ShrinksInPlace ==
  ASSUME IInv, side \in {"erl", "js"}, UNCHANGED <<side, middle>>,
         frames # <<>>, frames' = Pop
  PROVE  /\ Typed(frames') /\ Placed'
         /\ Here' = Frame1.slot
         /\ Frame1.keyed \in BOOLEAN /\ Frame1.slot \in Nat
         /\ Here = Frame1.slot + (IF ~Frame1.keyed THEN 1 ELSE IF ToJs THEN 2 ELSE 3)
         /\ ToJs' = ToJs /\ ToErl' = ToErl
<1>0. PICK n : n = Len(frames)
  OBVIOUS
<1>1. /\ Typed(frames')
      /\ n \in Nat \ {0} /\ DOMAIN frames = 1..n
      /\ Len(frames') = n - 1 /\ DOMAIN frames' = 1..(n - 1)
      /\ \A i \in 1..(n - 1) : frames'[i] = frames[i]
      /\ Frame1 = frames[n]
  BY <1>0, Shrinks
<1>2. /\ ToJs' = ToJs /\ ToErl' = ToErl
      /\ \A i \in 0..(n - 1) : ElementSlot(i)' = ElementSlot(i)
      /\ \A i \in 1..(n - 1) : frames'[i].slot = ElementSlot(i - 1)'
  <2>1. n - 1 \in 0..Len(frames)
    BY <1>0, <1>1
  <2> QED
    BY <1>1, <2>1, SlotsKept
<1>3. Here' = frames[n].slot
  <2>1. n \in DOMAIN frames /\ n - 1 \in 0..(n - 1)
    BY <1>1
  <2>2. frames[n].slot = ElementSlot(n - 1)
    BY <2>1 DEF IInv, SlotsInv
  <2>3. Here' = ElementSlot(n - 1)'
    BY <1>1 DEF Here
  <2> QED
    BY <1>2, <2>1, <2>2, <2>3
<1>4. frames[n].keyed \in BOOLEAN /\ frames[n].slot \in Nat
  BY <1>1, Types
<1>5. Here = Frame1.slot + (IF ~Frame1.keyed THEN 1 ELSE IF ToJs THEN 2 ELSE 3)
  BY <1>0, <1>1 DEF Here, ElementSlot
<1> QED
  BY <1>1, <1>2, <1>3, <1>4, <1>5 DEF Placed

LEMMA AdvancesInPlace ==
  ASSUME IInv, side \in {"erl", "js"}, UNCHANGED <<side, middle>>,
         frames # <<>>, NEW made, frames' = Append(Pop, Advanced(Frame1, made))
  PROVE  /\ Typed(frames') /\ Placed' /\ frames' # <<>>
         /\ Frame1'.slot = Frame1.slot /\ Frame1'.keyed = Frame1.keyed
         /\ Frame1.keyed \in BOOLEAN /\ Frame1.slot \in Nat
         /\ Here = Frame1.slot + (IF ~Frame1.keyed THEN 1 ELSE IF ToJs THEN 2 ELSE 3)
         /\ ToJs' = ToJs /\ ToErl' = ToErl
<1>0. PICK n : n = Len(frames)
  OBVIOUS
<1>1. /\ Typed(frames') /\ frames' # <<>>
      /\ n \in Nat \ {0} /\ DOMAIN frames = 1..n /\ DOMAIN frames' = 1..n
      /\ \A i \in 1..n : frames'[i].keyed = frames[i].keyed /\ frames'[i].slot = frames[i].slot
      /\ Frame1 = frames[n] /\ Last(frames') = frames'[n]
  BY <1>0, Advances
<1>2. /\ ToJs' = ToJs /\ ToErl' = ToErl
      /\ \A i \in 1..n : frames'[i].slot = ElementSlot(i - 1)'
  <2>1. n \in 0..Len(frames)
    BY <1>0, <1>1
  <2> QED
    BY <1>1, <2>1, SlotsKept
<1>3. frames[n].keyed \in BOOLEAN /\ frames[n].slot \in Nat
  BY <1>1, Types
<1>4. Frame1'.slot = Frame1.slot /\ Frame1'.keyed = Frame1.keyed
  <2>1. n \in 1..n
    BY <1>1
  <2> QED
    BY <1>1, <2>1 DEF Frame1
<1>5. Here = Frame1.slot + (IF ~Frame1.keyed THEN 1 ELSE IF ToJs THEN 2 ELSE 3)
  BY <1>0, <1>1 DEF Here, ElementSlot
<1> QED
  BY <1>1, <1>2, <1>3, <1>4, <1>5 DEF Placed

-----------------------------------------------------------------------------
(* The three states a conversion is in, and that every step leaves it in   *)
(* one of them.                                                            *)

Called ==
    /\ arg = Ok(arg.ok) /\ ret = None
    /\ top = IF ToJs THEN Here ELSE Here + 1

Looped ==
    /\ arg = None /\ ret = None /\ frames # <<>>
    /\ top = Frame1.slot + (IF ToErl /\ Frame1.keyed THEN 2 ELSE 1)

Returned ==
    /\ arg = None
    /\ \/ ret = Fail /\ ToJs /\ top = Here
       \/ /\ ret = Ok(ret.ok) /\ top = Here + 1
          /\ ToErl /\ Is(ret.ok, "int") => ret.ok.int \in MinInt..MaxInt

LEMMA Settles ==
  ASSUME Typed(frames'), Placed', side' \in {"erl", "js"},
         middle' = None \/ middle' = Ok(middle'.ok),
         Called' \/ Looped' \/ Returned'
  PROVE  IInv'
<1>1. Len(frames') \in Nat /\ DOMAIN frames' = 1..Len(frames')
  BY LenProperties DEF Typed
<1>2. \A i \in DOMAIN frames' : frames'[i].keyed \in BOOLEAN /\ frames'[i].slot \in Nat
  BY DEF Typed
<1>3. Here' \in Nat
  BY <1>1, <1>2 DEF Here, ElementSlot
<1>4. frames' # <<>> => Frame1'.slot \in Nat /\ Frame1'.keyed \in BOOLEAN
  <2>1. CASE frames' # <<>>
    <3>1. Len(frames') # 0
      BY <2>1, EmptySeq DEF Typed
    <3>2. Len(frames') \in DOMAIN frames'
      BY <1>1, <3>1
    <3>3. Frame1' = frames'[Len(frames')]
      BY DEF Frame1, Last
    <3> QED
      BY <1>2, <3>2, <3>3
  <2> QED
    BY <2>1
<1>5. ToErl' <=> ~ToJs'
  BY DEF ToErl, ToJs
<1>6. StepInv'
  BY <1>5, OkIs DEF StepInv, Typed, Called, Looped, Returned, Calling
<1>7. top' \in Nat
  BY <1>3, <1>4, <1>5 DEF Called, Looped, Returned
<1>8. TypeOK'
  BY <1>2, <1>7, OkIs DEF TypeOK, Called, Looped, Returned
<1>9. SlotsInv'
  <2>1. CASE Called'
    BY <1>5, <2>1, OkIs DEF SlotsInv, Placed, Called, Calling, Looping
  <2>2. CASE Looped'
    BY <2>2, OkIs DEF SlotsInv, Placed, Looped, Calling, Looping
  <2>3. CASE Returned'
    BY <2>3, OkIs DEF SlotsInv, Placed, Returned, Calling, Looping
  <2> QED
    BY <2>1, <2>2, <2>3
<1> QED
  BY <1>6, <1>8, <1>9 DEF IInv

(* What is known in each of the three.                                     *)
LEMMA Before ==
  ASSUME IInv
  PROVE  /\ Typed(frames) /\ Placed /\ Here \in Nat /\ top \in Nat
         /\ middle = None \/ middle = Ok(middle.ok)
         /\ Calling => arg = Ok(arg.ok) /\ ret = None /\ Called
         /\ Looping => Looped
         /\ Returning => /\ arg = None
                         /\ \/ ret = Fail /\ ToJs /\ top = Here
                            \/ ret = Ok(ret.ok) /\ Is(ret, "ok") /\ top = Here + 1
<1>1. Typed(frames) /\ Placed /\ Here \in Nat /\ top \in Nat
  <2>1. Len(frames) \in 0..Len(frames)
    BY FramesTyped
  <2> QED
    BY <2>1, FramesTyped, Types DEF IInv, SlotsInv, Placed, Here
<1>2. Calling \/ Returning \/ Looping => (ToErl <=> ~ToJs)
  BY Types, Directions
<1>3. Calling => Called
  BY <1>2 DEF IInv, TypeOK, StepInv, SlotsInv, Calling, Called
<1>4. Looping => Looped
  BY DEF IInv, SlotsInv, Looping, Looped
<1>5. Returning => /\ arg = None
                   /\ \/ ret = Fail /\ ToJs /\ top = Here
                      \/ ret = Ok(ret.ok) /\ Is(ret, "ok") /\ top = Here + 1
  BY OkIs DEF IInv, TypeOK, StepInv, SlotsInv, Calling, Returning
<1> QED
  BY <1>1, <1>3, <1>4, <1>5 DEF IInv, TypeOK, Called

-----------------------------------------------------------------------------
(* Every action *)

(* A number becomes an integer that fits, or a float.                      *)
LEMMA LeafFits ==
  ASSUME NEW v, NEW t \in LeafToErl(v), Is(t, "int")
  PROVE  t.int \in MinInt..MaxInt
<1>1. CASE Is(v, "num")
  <2>1. CASE t = [float |-> v.num]
    BY <2>1 DEF Is
  <2>2. CASE \E n \in MinInt..MaxInt : t = [int |-> n]
    BY <2>2
  <2> QED
    BY <1>1, <2>1, <2>2 DEF LeafToErl, IntOrFloat
<1>2. CASE ~Is(v, "num")
  <2>1. t = [atom |-> v.prim] \/ t = [bin |-> v.str] \/ t = [bin |-> <<v.fun>>]
    BY <1>2 DEF LeafToErl
  <2> QED
    BY <2>1 DEF Is
<1> QED
  BY <1>1, <1>2

LEMMA LeafResult ==
  ASSUME NEW t
  PROVE  LeafToJs(t) = Fail \/ LeafToJs(t) = Ok(LeafToJs(t).ok)
BY OkIs DEF LeafToJs

LEMMA SameFrames ==
  ASSUME IInv, UNCHANGED <<side, middle, frames>>
  PROVE  Typed(frames') /\ Placed' /\ Here' = Here /\ ToJs' = ToJs /\ ToErl' = ToErl
BY Before DEF Placed, Here, ElementSlot, ToJs, ToErl

LEMMA TopFrame ==
  ASSUME IInv, frames # <<>>
  PROVE  /\ Here = Frame1.slot + (IF ~Frame1.keyed THEN 1 ELSE IF ToJs THEN 2 ELSE 3)
         /\ Frame1.slot \in Nat /\ Frame1.keyed \in BOOLEAN
         /\ Frame1 = frames[Len(frames)] /\ Len(frames) \in DOMAIN frames
<1>1. Typed(frames) /\ Len(frames) \in Nat /\ DOMAIN frames = 1..Len(frames)
  BY FramesTyped
<1>2. Len(frames) # 0
  BY <1>1, EmptySeq DEF Typed
<1>3. Frame1 = frames[Len(frames)]
  BY DEF Frame1, Last
<1> QED
  BY <1>1, <1>2, <1>3 DEF Here, ElementSlot, Typed

LEMMA BeginInv ==
  ASSUME IInv, NEW s \in {"erl", "js"}, NEW x, Begin(s, x)
  PROVE  IInv'
<1>1. frames = <<>> /\ ret = None /\ middle = None
  BY DEF Begin, IInv, StepInv
<1>2. Typed(frames') /\ Placed' /\ Here' = 0
  BY <1>1, Before DEF Begin, Placed, Here, ElementSlot, Typed
<1>3. Called'
  BY <1>1, <1>2, OkIs DEF Begin, Called, ToJs
<1> QED
  BY <1>1, <1>2, <1>3, Settles DEF Begin

LEMMA CallToJsInv ==
  ASSUME IInv, CallToJs
  PROVE  IInv'
<1>1. /\ side \in {"erl", "js"} /\ UNCHANGED <<side, middle>> /\ arg' = None
      /\ middle = None \/ middle = Ok(middle.ok)
      /\ Here \in Nat /\ top = Here /\ ret = None /\ ToJs
  BY Before, Types DEF CallToJs, Called
<1>2. CASE IsCompound(arg.ok)
  <2>1. frames' = Append(frames, FrameOf(arg.ok, Here)) /\ ret' = None /\ top' = Here + 1
    BY <1>1, <1>2 DEF CallToJs, Descend
  <2>2. /\ Typed(frames') /\ Placed' /\ frames' # <<>>
        /\ Frame1'.slot = Here /\ ToErl' = ToErl
    BY <1>1, <2>1, GrowsInPlace
  <2>3. Looped'
    BY <1>1, <2>1, <2>2, Directions DEF Looped
  <2> QED
    BY <1>1, <2>2, <2>3, Settles
<1>3. CASE ~IsCompound(arg.ok)
  <2>1. /\ UNCHANGED frames
        /\ ret' = LeafToJs(arg.ok)
        /\ top' = IF LeafToJs(arg.ok) = Fail THEN top ELSE top + 1
    BY <1>3 DEF CallToJs
  <2>2. Typed(frames') /\ Placed' /\ Here' = Here /\ ToJs' = ToJs /\ ToErl' = ToErl
    BY <1>1, <2>1, SameFrames
  <2>3. Returned'
    BY <1>1, <2>1, <2>2, LeafResult, Directions, OkIs DEF Returned
  <2> QED
    BY <1>1, <2>2, <2>3, Settles
<1> QED
  BY <1>2, <1>3

LEMMA NextToJsInv ==
  ASSUME IInv, NextToJs
  PROVE  IInv'
<1>1. /\ side \in {"erl", "js"} /\ UNCHANGED <<side, middle, frames>>
      /\ middle = None \/ middle = Ok(middle.ok)
      /\ ToJs /\ ~ToErl /\ frames # <<>>
      /\ ret' = None /\ arg' = Ok(Todo[2])
      /\ top = Frame1.slot + 1
      /\ top' = IF Frame1.keyed THEN top + 1 ELSE top
  BY Before, Types, Directions DEF NextToJs, Looped, Looping
<1>2. /\ Typed(frames') /\ Placed' /\ Here' = Here /\ ToJs' = ToJs
  BY <1>1, SameFrames
<1>3. Here = Frame1.slot + (IF ~Frame1.keyed THEN 1 ELSE 2) /\ Frame1.slot \in Nat
  BY <1>1, TopFrame
<1>4. Called'
  BY <1>1, <1>2, <1>3, OkIs DEF Called
<1> QED
  BY <1>1, <1>2, <1>4, Settles

LEMMA BadKeyInv ==
  ASSUME IInv, BadKey
  PROVE  IInv'
<1>1. /\ side \in {"erl", "js"} /\ UNCHANGED <<side, middle>>
      /\ middle = None \/ middle = Ok(middle.ok)
      /\ ToJs /\ ~ToErl /\ frames # <<>> /\ frames' = Pop
      /\ ret' = Fail /\ arg' = None
      /\ top = Frame1.slot + 1 /\ top' = top - 1
  BY Before, Types, Directions DEF BadKey, Looped, Looping
<1>2. /\ Typed(frames') /\ Placed' /\ Here' = Frame1.slot /\ ToJs' = ToJs
      /\ Frame1.slot \in Nat
  BY <1>1, ShrinksInPlace
<1>3. Returned'
  BY <1>1, <1>2 DEF Returned
<1> QED
  BY <1>1, <1>2, <1>3, Settles

LEMMA StoreJsInv ==
  ASSUME IInv, StoreJs
  PROVE  IInv'
<1>1. /\ side \in {"erl", "js"} /\ UNCHANGED <<side, middle>>
      /\ middle = None \/ middle = Ok(middle.ok)
      /\ ToJs /\ ~ToErl /\ frames # <<>>
      /\ ret' = None /\ arg' = None
      /\ top = Here + 1
      /\ top' = IF Frame1.keyed THEN top - 2 ELSE top - 1
  BY Before, Types, Directions, OkIs DEF StoreJs, Returning
<1>2. PICK made : frames' = Append(Pop, Advanced(Frame1, made))
  BY DEF StoreJs
<1>3. /\ Typed(frames') /\ Placed' /\ frames' # <<>>
      /\ Frame1'.slot = Frame1.slot /\ Frame1.slot \in Nat
      /\ Here = Frame1.slot + (IF ~Frame1.keyed THEN 1 ELSE IF ToJs THEN 2 ELSE 3)
      /\ ToErl' = ToErl
  BY <1>1, <1>2, AdvancesInPlace
<1>4. Looped'
  BY <1>1, <1>3 DEF Looped
<1> QED
  BY <1>1, <1>3, <1>4, Settles

LEMMA FailedJsInv ==
  ASSUME IInv, FailedJs
  PROVE  IInv'
<1>1. /\ side \in {"erl", "js"} /\ UNCHANGED <<side, middle>>
      /\ middle = None \/ middle = Ok(middle.ok)
      /\ ToJs /\ frames # <<>> /\ frames' = Pop
      /\ ret' = Fail /\ arg' = None
      /\ top = Here
      /\ top' = IF Frame1.keyed THEN top - 2 ELSE top - 1
  BY Before, Types, OkIs DEF FailedJs, Returning, PopPartial
<1>2. /\ Typed(frames') /\ Placed' /\ Here' = Frame1.slot /\ ToJs' = ToJs
      /\ Frame1.slot \in Nat
      /\ Here = Frame1.slot + (IF ~Frame1.keyed THEN 1 ELSE IF ToJs THEN 2 ELSE 3)
  BY <1>1, ShrinksInPlace
<1>3. Returned'
  BY <1>1, <1>2 DEF Returned
<1> QED
  BY <1>1, <1>2, <1>3, Settles

LEMMA LeaveJsInv ==
  ASSUME IInv, LeaveJs
  PROVE  IInv'
<1>1. /\ side \in {"erl", "js"} /\ UNCHANGED <<side, middle>>
      /\ middle = None \/ middle = Ok(middle.ok)
      /\ ToJs /\ ~ToErl /\ frames # <<>> /\ frames' = Pop
      /\ arg' = None
      /\ top = Frame1.slot + 1 /\ top' = top
  BY Before, Types, Directions DEF LeaveJs, Looped, Looping
<1>2. PICK x : ret' = Ok(x)
  BY DEF LeaveJs
<1>3. /\ Typed(frames') /\ Placed' /\ Here' = Frame1.slot /\ ToErl' = ToErl
  BY <1>1, ShrinksInPlace
<1>4. Returned'
  BY <1>1, <1>2, <1>3, OkIs DEF Returned
<1> QED
  BY <1>1, <1>3, <1>4, Settles

LEMMA CallToErlInv ==
  ASSUME IInv, CallToErl
  PROVE  IInv'
<1>1. /\ side \in {"erl", "js"} /\ UNCHANGED <<side, middle>> /\ arg' = None
      /\ middle = None \/ middle = Ok(middle.ok)
      /\ Here \in Nat /\ top = Here + 1 /\ ret = None /\ ToErl /\ ~ToJs
  BY Before, Types, Directions DEF CallToErl, Called
<1>2. CASE ~TooDeep /\ IsObject(arg.ok)
  <2>1. top - 1 = Here
    BY <1>1
  <2>2. /\ frames' = Append(frames, FrameOf(arg.ok, Here)) /\ ret' = None
        /\ top' = IF Keyed(arg.ok) THEN top + 1 ELSE top
    BY <1>1, <1>2, <2>1 DEF CallToErl, Descend
  <2>3. /\ Typed(frames') /\ Placed' /\ frames' # <<>>
        /\ Frame1'.slot = Here /\ Frame1'.keyed = Keyed(arg.ok)
        /\ ToErl' = ToErl
    BY <1>1, <2>2, GrowsInPlace
  <2>4. Looped'
    BY <1>1, <2>2, <2>3 DEF Looped
  <2> QED
    BY <1>1, <2>3, <2>4, Settles
<1>3. CASE TooDeep \/ ~IsObject(arg.ok)
  <2>1. /\ UNCHANGED <<frames, top>>
        /\ \E t : ret' = Ok(t) /\ (t = Cut \/ t \in LeafToErl(arg.ok))
    BY <1>3 DEF CallToErl
  <2>2. Typed(frames') /\ Placed' /\ Here' = Here
    BY <1>1, <2>1, SameFrames
  <2>3. PICK t : ret' = Ok(t) /\ (Is(t, "int") => t.int \in MinInt..MaxInt)
    <3>1. ~Is(Cut, "int")
      BY DEF Is, Cut
    <3> QED
      BY <2>1, <3>1, LeafFits
  <2>4. Returned'
    BY <1>1, <2>1, <2>2, <2>3, OkIs DEF Returned
  <2> QED
    BY <1>1, <2>2, <2>4, Settles
<1> QED
  BY <1>2, <1>3

LEMMA NextToErlInv ==
  ASSUME IInv, NextToErl
  PROVE  IInv'
<1>1. /\ side \in {"erl", "js"} /\ UNCHANGED <<side, middle, frames>>
      /\ middle = None \/ middle = Ok(middle.ok)
      /\ ToErl /\ ~ToJs /\ frames # <<>>
      /\ ret' = None /\ arg' = Ok(Todo[2])
      /\ top = Frame1.slot + (IF Frame1.keyed THEN 2 ELSE 1)
      /\ top' = IF Frame1.keyed THEN top + 2 ELSE top + 1
  BY Before, Types, Directions DEF NextToErl, Looped, Looping
<1>2. Typed(frames') /\ Placed' /\ Here' = Here /\ ToJs' = ToJs
  BY <1>1, SameFrames
<1>3. Here = Frame1.slot + (IF ~Frame1.keyed THEN 1 ELSE 3) /\ Frame1.slot \in Nat
  BY <1>1, TopFrame
<1>4. Called'
  BY <1>1, <1>2, <1>3, OkIs DEF Called
<1> QED
  BY <1>1, <1>2, <1>4, Settles

LEMMA StoreErlInv ==
  ASSUME IInv, StoreErl
  PROVE  IInv'
<1>1. /\ side \in {"erl", "js"} /\ UNCHANGED <<side, middle>>
      /\ middle = None \/ middle = Ok(middle.ok)
      /\ ToErl /\ ~ToJs /\ frames # <<>>
      /\ ret' = None /\ arg' = None
      /\ top = Here + 1
      /\ top' = IF Frame1.keyed THEN top - 2 ELSE top - 1
  BY Before, Types, Directions DEF StoreErl, Returning
<1>2. PICK made : frames' = Append(Pop, Advanced(Frame1, made))
  BY DEF StoreErl
<1>3. /\ Typed(frames') /\ Placed' /\ frames' # <<>>
      /\ Frame1'.slot = Frame1.slot /\ Frame1'.keyed = Frame1.keyed /\ Frame1.slot \in Nat
      /\ Here = Frame1.slot + (IF ~Frame1.keyed THEN 1 ELSE IF ToJs THEN 2 ELSE 3)
      /\ ToErl' = ToErl
  BY <1>1, <1>2, AdvancesInPlace
<1>4. Looped'
  BY <1>1, <1>3 DEF Looped
<1> QED
  BY <1>1, <1>3, <1>4, Settles

LEMMA LeaveErlInv ==
  ASSUME IInv, LeaveErl
  PROVE  IInv'
<1>1. /\ side \in {"erl", "js"} /\ UNCHANGED <<side, middle>>
      /\ middle = None \/ middle = Ok(middle.ok)
      /\ ToErl /\ frames # <<>> /\ frames' = Pop
      /\ arg' = None
      /\ top = Frame1.slot + (IF Frame1.keyed THEN 2 ELSE 1)
      /\ top' = IF Frame1.keyed THEN top - 1 ELSE top
  BY Before, Types DEF LeaveErl, Looped, Looping
<1>2. PICK x : ret' = Ok(x) /\ ~Is(x, "int")
  <2>1. ~Is([map |-> Frame1.made], "int") /\ ~Is([list |-> Frame1.made], "int")
    BY DEF Is
  <2> QED
    BY <2>1 DEF LeaveErl
<1>3. Typed(frames') /\ Placed' /\ Here' = Frame1.slot /\ Frame1.slot \in Nat
  BY <1>1, ShrinksInPlace
<1>4. Returned'
  BY <1>1, <1>2, <1>3, OkIs DEF Returned
<1> QED
  BY <1>1, <1>3, <1>4, Settles

LEMMA EndsWith ==
  ASSUME IInv, Ended
  PROVE  /\ side \in {"erl", "js"} /\ arg = None
         /\ \/ ret = Fail /\ top = 0
            \/ ret = Ok(ret.ok) /\ Is(ret, "ok") /\ top = 1
<1>1. Here = 0
  BY DEF Ended, Here, ElementSlot
<1> QED
  BY <1>1, OkIs DEF IInv, TypeOK, StepInv, SlotsInv, Ended, Calling

LEMMA TurnBackInv ==
  ASSUME IInv, TurnBack
  PROVE  IInv'
<1>1. /\ side \in {"erl", "js"} /\ UNCHANGED <<side, frames>>
      /\ frames = <<>> /\ middle = None
      /\ ret = Ok(ret.ok) /\ middle' = ret /\ arg' = ret /\ ret' = None
      /\ top' = IF side = "erl" THEN 1 ELSE 0
  BY EndsWith, OkIs DEF TurnBack, Ended
<1>2. Typed(frames') /\ Placed' /\ Here' = 0
  BY <1>1, Before DEF Placed, Here, ElementSlot, Typed
<1>3. middle' = Ok(middle'.ok) /\ Called'
  BY <1>1, <1>2, OkIs DEF Called, ToJs
<1> QED
  BY <1>1, <1>2, <1>3, Settles

THEOREM IInvInit == Init => IInv
<1> SUFFICES ASSUME Init
             PROVE  IInv
  OBVIOUS
<1>1. DOMAIN frames = {} /\ frames \in Seq(Elements(frames))
  BY EmptySeq DEF Init
<1> QED
  BY <1>1, OkIs DEF Init, IInv, TypeOK, StepInv, SlotsInv, ToErl, Calling, Looping

THEOREM IInvNext == IInv /\ [Next]_vars => IInv'
<1> SUFFICES ASSUME IInv, [Next]_vars
             PROVE  IInv'
  OBVIOUS
<1>1. CASE GiveTerm \/ TakeValue
  BY <1>1, BeginInv DEF GiveTerm, TakeValue
<1>2. CASE Step
  BY <1>2, CallToJsInv, NextToJsInv, BadKeyInv, StoreJsInv, FailedJsInv, LeaveJsInv,
     CallToErlInv, NextToErlInv, StoreErlInv, LeaveErlInv, TurnBackInv DEF Step
<1>3. CASE UNCHANGED vars
  BY <1>3 DEF vars, IInv, TypeOK, StepInv, SlotsInv, ElementSlot, Here, ToJs, ToErl, Calling,
     Looping, Frame1
<1> QED
  BY <1>1, <1>2, <1>3 DEF Next, Finished

(* A number that becomes an integer fits into 64 bits, and every frame of  *)
(* the conversions has the slots it should.                                *)
THEOREM TypeCorrect == Spec => []TypeOK
<1>1. IInv => TypeOK
  BY DEF IInv
<1> QED
  BY <1>1, IInvInit, IInvNext, PTL DEF Spec

-----------------------------------------------------------------------------
(* What a part of a term is worth *)

LEMMA KindsApart ==
  ASSUME NEW t \in Parts, NEW kind, NEW other, Is(t, kind), Is(t, other)
  PROVE  kind = other
<1>1. PICK k : DOMAIN t = {k}
  BY ConversionAssumption
<1> QED
  BY <1>1 DEF Is

LEMMA LeafWhole ==
  ASSUME NEW t \in Parts, ~IsCompound(t)
  PROVE  (LeafToJs(t) = Fail) = (t \notin Convertible)
<1>1. /\ t \in Convertible <=>
           \/ \E kind \in {"atom", "int", "float", "bin"} : Is(t, kind)
           \/ IsIolist(t)
  BY ConversionAssumption DEF IsCompound
<1>2. IsIolist(t) => Is(t, "list")
  BY ConversionAssumption
<1>3. CASE Is(t, "atom")
  <2>1. ~Is(t, "int") /\ ~Is(t, "float") /\ ~Is(t, "bin") /\ ~Is(t, "list")
    BY <1>3, KindsApart
  <2>2. LeafToJs(t) = Ok([prim |-> t.atom]) \/ LeafToJs(t) = Ok([str |-> <<t.atom>>])
    BY <1>2, <1>3, <2>1 DEF LeafToJs
  <2> QED
    BY <1>1, <1>3, <2>2, OkIs
<1>4. CASE Is(t, "int")
  <2>1. ~Is(t, "atom") /\ ~Is(t, "float") /\ ~Is(t, "bin") /\ ~Is(t, "list")
    BY <1>4, KindsApart
  <2>2. LeafToJs(t) = Ok([num |-> 2 * Double(t.int)])
    BY <1>2, <1>4, <2>1 DEF LeafToJs
  <2> QED
    BY <1>1, <1>4, <2>2, OkIs
<1>5. CASE Is(t, "float")
  <2>1. ~Is(t, "atom") /\ ~Is(t, "int") /\ ~Is(t, "bin") /\ ~Is(t, "list")
    BY <1>5, KindsApart
  <2>2. LeafToJs(t) = Ok([num |-> t.float])
    BY <1>2, <1>5, <2>1 DEF LeafToJs
  <2> QED
    BY <1>1, <1>5, <2>2, OkIs
<1>6. CASE Is(t, "bin") \/ IsIolist(t)
  <2>1. ~Is(t, "atom") /\ ~Is(t, "int") /\ ~Is(t, "float")
    BY <1>2, <1>6, KindsApart
  <2>2. LeafToJs(t) = Ok([str |-> Flat(t)])
    BY <1>6, <2>1 DEF LeafToJs
  <2> QED
    BY <1>1, <1>6, <2>2, OkIs
<1>7. CASE ~Is(t, "atom") /\ ~Is(t, "int") /\ ~Is(t, "float") /\ ~Is(t, "bin") /\ ~IsIolist(t)
  BY <1>1, <1>7 DEF LeafToJs
<1> QED
  BY <1>3, <1>4, <1>5, <1>6, <1>7

LEMMA CompoundWhole ==
  ASSUME NEW t \in Parts, IsCompound(t)
  PROVE  /\ Items(t) \in Seq(Entries)
         /\ t \in Convertible <=>
              \A j \in DOMAIN Items(t) : ItemConverts(Keyed(t), Items(t)[j])
<1>1. /\ \E kind \in {"list", "tuple", "map"} : Is(t, kind)
      /\ \A kind \in {"atom", "int", "float", "bin"} : ~Is(t, kind)
      /\ ~IsIolist(t)
  <2>1. Is(t, "list") \/ Is(t, "tuple") \/ Is(t, "map")
    BY DEF IsCompound
  <2>2. \A kind \in {"atom", "int", "float", "bin"} : ~Is(t, kind)
    BY <2>1, KindsApart
  <2>3. IsIolist(t) => Is(t, "list")
    BY ConversionAssumption
  <2>4. ~IsIolist(t)
    BY <2>3, KindsApart DEF IsCompound
  <2> QED
    BY <2>1, <2>2, <2>4
<1>2. Keyed(t) = Is(t, "map")
  <2>1. ~Is(t, "obj") /\ ~Is(t, "loop")
    BY KindsApart DEF IsCompound
  <2> QED
    BY <2>1 DEF Keyed, Is
<1>3. t \in Convertible <=>
        \A j \in DOMAIN Items(t) :
          /\ Is(t, "map") => IsKey(Items(t)[j][1])
          /\ Items(t)[j][2] \in Convertible
  BY <1>1, ConversionAssumption DEF IsKey
<1>4. Items(t) \in Seq(Entries)
  BY ConversionAssumption DEF Entries
<1> QED
  BY <1>2, <1>3, <1>4 DEF ItemConverts

(* All of a sequence is its head and all of its tail.                      *)
LEMMA HeadAndTail ==
  ASSUME NEW s \in Seq(Entries), s # <<>>, NEW keyed
  PROVE  /\ Head(s) \in Entries /\ Tail(s) \in Seq(Entries)
         /\ (\A j \in DOMAIN s : ItemConverts(keyed, s[j])) <=>
              /\ ItemConverts(keyed, Head(s))
              /\ \A j \in DOMAIN Tail(s) : ItemConverts(keyed, Tail(s)[j])
<1>1. /\ Len(s) \in Nat \ {0} /\ DOMAIN s = 1..Len(s)
      /\ Head(s) = s[1] /\ Head(s) \in Entries
      /\ Tail(s) \in Seq(Entries) /\ Len(Tail(s)) = Len(s) - 1
      /\ \A j \in 1..(Len(s) - 1) : Tail(s)[j] = s[j + 1]
  BY HeadTailProperties, EmptySeq, LenProperties, ElementOfSeq
<1>2. DOMAIN Tail(s) = 1..(Len(s) - 1)
  BY <1>1, LenProperties
<1>3. ASSUME \A j \in DOMAIN s : ItemConverts(keyed, s[j])
      PROVE  /\ ItemConverts(keyed, Head(s))
             /\ \A j \in DOMAIN Tail(s) : ItemConverts(keyed, Tail(s)[j])
  <2>1. 1 \in DOMAIN s /\ \A j \in 1..(Len(s) - 1) : j + 1 \in DOMAIN s
    BY <1>1
  <2> QED
    BY <1>1, <1>2, <1>3, <2>1
<1>4. ASSUME ItemConverts(keyed, Head(s)),
             \A j \in DOMAIN Tail(s) : ItemConverts(keyed, Tail(s)[j]),
             NEW j \in DOMAIN s
      PROVE  ItemConverts(keyed, s[j])
  <2>1. CASE j = 1
    BY <1>1, <1>4, <2>1
  <2>2. CASE j # 1
    <3>1. j - 1 \in 1..(Len(s) - 1) /\ (j - 1) + 1 = j
      BY <1>1, <2>2
    <3>2. Tail(s)[j - 1] = s[j]
      BY <1>1, <3>1
    <3> QED
      BY <1>2, <1>4, <3>1, <3>2
  <2> QED
    BY <2>1, <2>2
<1> QED
  BY <1>1, <1>3, <1>4

-----------------------------------------------------------------------------
(* What the frames below keep, their terms are worth what they were.       *)
LEMMA WholeKept ==
  ASSUME IInv, WholeInv, Converting, UNCHANGED origin,
         NEW m \in 0..Len(frames),
         \A i \in 1..m : frames'[i] = frames[i]
  PROVE  /\ \A i \in 1..(m + 1) : Node(i)' = Node(i)
         /\ \A i \in 1..m : FrameWhole(i)' /\ HeadReady(i)' = HeadReady(i)
<1>1. DOMAIN frames = 1..Len(frames) /\ Len(frames) \in Nat
  BY FramesTyped
<1>2. ASSUME NEW i \in 1..(m + 1)
      PROVE  Node(i)' = Node(i)
  <2>1. i = 1 \/ i - 1 \in 1..m
    BY <1>1
  <2> QED
    BY <2>1 DEF Node
<1>3. ASSUME NEW i \in 1..m
      PROVE  FrameWhole(i)' /\ HeadReady(i)' = HeadReady(i)
  <2>1. i \in DOMAIN frames /\ i \in 1..(m + 1)
    BY <1>1
  <2>2. FrameWhole(i)
    BY <2>1 DEF WholeInv
  <2>3. frames'[i] = frames[i] /\ Node(i)' = Node(i)
    BY <1>2, <2>1
  <2>4. FrameWhole(i)'
    BY <2>2, <2>3 DEF FrameWhole
  <2>5. HeadReady(i)' = HeadReady(i)
    BY <2>3 DEF HeadReady
  <2> QED
    BY <2>4, <2>5
<1> QED
  BY <1>2, <1>3

(* The term at the top is a part of the one that is converted.             *)
LEMMA TopWhole ==
  ASSUME IInv, WholeInv, Converting, NEW n, n = Len(frames)
  PROVE  /\ n \in Nat /\ DOMAIN frames = 1..n
         /\ frames # <<>> => n \in 1..n /\ FrameWhole(n) /\ Frame1 = frames[n]
         /\ frames = <<>> => n = 0
         /\ ~Looping => (n \in 1..n => HeadReady(n)) /\ Node(n + 1) \in Parts
         /\ \A i \in 1..(n - 1) : HeadReady(i)
<1>1. DOMAIN frames = 1..n /\ n \in Nat
  BY FramesTyped
<1>2. frames # <<>> => n \in 1..n /\ Frame1 = frames[n]
  BY <1>1, TopFrame
<1>3. frames # <<>> => FrameWhole(n)
  BY <1>1, <1>2 DEF WholeInv
<1>4. ~Looping /\ n \in 1..n => HeadReady(n)
  BY <1>1 DEF WholeInv
<1>5. \A i \in 1..(n - 1) : HeadReady(i)
  BY <1>1 DEF WholeInv
<1>6. ~Looping => Node(n + 1) \in Parts
  <2>1. CASE n = 0
    BY <2>1 DEF Node, WholeInv
  <2>2. CASE n # 0 /\ ~Looping
    <3>1. n \in 1..n /\ (n + 1) - 1 = n /\ n + 1 # 1 /\ frames # <<>>
      BY <1>1, <2>2
    <3>2. frames[n].todo \in Seq(Entries) /\ frames[n].todo # <<>>
      BY <1>3, <1>4, <2>2, <3>1 DEF FrameWhole, HeadReady
    <3>3. Head(frames[n].todo)[2] \in Parts
      BY <3>2, HeadAndTail DEF Entries
    <3> QED
      BY <3>1, <3>3 DEF Node
  <2> QED
    BY <2>1, <2>2
<1> QED
  BY <1>1, <1>2, <1>3, <1>4, <1>5, <1>6

(* n arrays and objects are under way after the step.                      *)
LEMMA WholeSettles ==
  ASSUME WholeInv, Converting, UNCHANGED <<side, middle, origin>>,
         NEW n \in Nat, n = Len(frames'), DOMAIN frames' = 1..n,
         \A i \in 1..n : FrameWhole(i)',
         \A i \in 1..(n - 1) : HeadReady(i)',
         Looping' \/ (n \in 1..n => HeadReady(n)'),
         Calling' => arg'.ok = Node(n + 1)',
         ret' # None => (ret' = Fail) = (Node(n + 1)' \notin Convertible)
  PROVE  WholeInv'
<1>1. origin' \in Parts
  BY DEF WholeInv
<1>2. ASSUME NEW i \in 1..n
      PROVE  (i < n \/ ~Looping') => HeadReady(i)'
  <2>1. i \in 1..(n - 1) \/ (i = n /\ n \in 1..n)
    OBVIOUS
  <2> QED
    BY <2>1
<1> QED
  BY <1>1, <1>2 DEF WholeInv

-----------------------------------------------------------------------------
(* Every action of erlang_to_duk *)

LEMMA CallToJsWhole ==
  ASSUME IInv, WholeInv, Converting, CallToJs
  PROVE  WholeInv'
<1>0. PICK n : n = Len(frames)
  OBVIOUS
<1>1. /\ UNCHANGED <<side, middle, origin>> /\ arg' = None /\ ret = None /\ ~Looping
      /\ ~Calling'
  BY Before DEF CallToJs, Calling, Looping
<1>2. /\ n \in Nat /\ DOMAIN frames = 1..n
      /\ n \in 1..n => HeadReady(n)
      /\ Node(n + 1) \in Parts /\ arg.ok = Node(n + 1)
      /\ \A i \in 1..(n - 1) : HeadReady(i)
  BY <1>0, <1>1, TopWhole DEF WholeInv, CallToJs
<1>3. \A i \in 1..n : HeadReady(i)
  <2>1. \A i \in 1..n : i \in 1..(n - 1) \/ (i = n /\ n \in 1..n)
    BY <1>2
  <2> QED
    BY <1>2, <2>1
<1>4. CASE IsCompound(arg.ok)
  <2> DEFINE f == FrameOf(arg.ok, top)
  <2>1. /\ frames' = Append(frames, f) /\ ret' = None /\ top \in Nat
    BY <1>1, <1>4, Before DEF CallToJs, Descend
  <2>2. /\ frames' # <<>> /\ Len(frames') = n + 1 /\ DOMAIN frames' = 1..(n + 1)
        /\ \A i \in 1..n : frames'[i] = frames[i]
        /\ frames'[n + 1] = f
    BY <1>0, <2>1, Grows
  <2>3. f.todo = Items(arg.ok) /\ f.keyed = Keyed(arg.ok)
    BY <2>1, FrameIs
  <2> HIDE DEF f
  <2>4. /\ \A i \in 1..(n + 1) : Node(i)' = Node(i)
        /\ \A i \in 1..n : FrameWhole(i)' /\ HeadReady(i)' = HeadReady(i)
    <3>1. n \in 0..Len(frames)
      BY <1>0, <1>2
    <3> QED
      BY <1>1, <2>2, <3>1, WholeKept
  <2>5. FrameWhole(n + 1)'
    <3>1. Node(n + 1)' = arg.ok
      BY <1>2, <2>4
    <3>2. /\ Items(arg.ok) \in Seq(Entries)
          /\ arg.ok \in Convertible <=>
               \A j \in DOMAIN Items(arg.ok) : ItemConverts(Keyed(arg.ok), Items(arg.ok)[j])
      BY <1>2, <1>4, CompoundWhole
    <3> QED
      BY <2>2, <2>3, <3>1, <3>2 DEF FrameWhole
  <2>6. \A i \in 1..(n + 1) : FrameWhole(i)'
    <3>1. \A i \in 1..(n + 1) : i \in 1..n \/ i = n + 1
      BY <1>2
    <3> QED
      BY <2>4, <2>5, <3>1
  <2>7. n + 1 \in Nat /\ \A i \in 1..((n + 1) - 1) : HeadReady(i)'
    BY <1>2, <1>3, <2>4
  <2>8. Looping'
    BY <1>1, <2>1, <2>2 DEF Looping
  <2> QED
    BY <1>1, <2>1, <2>2, <2>6, <2>7, <2>8, WholeSettles
<1>5. CASE ~IsCompound(arg.ok)
  <2>1. UNCHANGED frames /\ ret' = LeafToJs(arg.ok)
    BY <1>5 DEF CallToJs
  <2>2. (ret' = Fail) = (Node(n + 1) \notin Convertible)
    BY <1>2, <1>5, <2>1, LeafWhole
  <2>3. /\ Node(n + 1)' = Node(n + 1)
        /\ \A i \in 1..n : FrameWhole(i)' /\ HeadReady(i)' = HeadReady(i)
    <3>1. n \in 0..Len(frames) /\ n + 1 \in 1..(n + 1)
      BY <1>0, <1>2
    <3> QED
      BY <1>1, <2>1, <3>1, WholeKept
  <2> QED
    BY <1>0, <1>1, <1>2, <1>3, <2>1, <2>2, <2>3, WholeSettles
<1> QED
  BY <1>4, <1>5

LEMMA NextToJsWhole ==
  ASSUME IInv, WholeInv, Converting, NextToJs
  PROVE  WholeInv'
<1>0. PICK n : n = Len(frames)
  OBVIOUS
<1>1. /\ UNCHANGED <<side, middle, origin, frames>> /\ ret' = None
      /\ frames # <<>> /\ Frame1.todo # <<>>
      /\ Frame1.keyed => IsKey(Todo[1])
      /\ arg' = Ok(Todo[2])
  BY DEF NextToJs, Looping
<1>2. /\ n \in Nat /\ DOMAIN frames = 1..n /\ n \in 1..n /\ Frame1 = frames[n]
      /\ \A i \in 1..(n - 1) : HeadReady(i)
  BY <1>0, <1>1, TopWhole
<1>3. /\ Node(n + 1)' = Node(n + 1)
      /\ \A i \in 1..n : FrameWhole(i)' /\ HeadReady(i)' = HeadReady(i)
  <2>1. n \in 0..Len(frames) /\ n + 1 \in 1..(n + 1)
    BY <1>0, <1>2
  <2> QED
    BY <1>1, <2>1, WholeKept
<1>4. HeadReady(n)'
  <2>1. HeadReady(n)
    BY <1>1, <1>2 DEF HeadReady, Todo
  <2> QED
    BY <1>2, <1>3, <2>1
<1>5. arg'.ok = Node(n + 1)'
  <2>1. (n + 1) - 1 = n /\ n + 1 # 1
    BY <1>2
  <2>2. Node(n + 1) = Todo[2]
    BY <1>2, <2>1 DEF Node, Todo
  <2> QED
    BY <1>1, <1>3, <2>2, OkIs
<1>6. \A i \in 1..(n - 1) : HeadReady(i)'
  <2>1. \A i \in 1..(n - 1) : i \in 1..n
    BY <1>2
  <2> QED
    BY <1>2, <1>3, <2>1
<1> QED
  BY <1>0, <1>1, <1>2, <1>3, <1>4, <1>5, <1>6, WholeSettles

(* An array or object is given up or done with.                            *)
LEMMA PopWhole ==
  ASSUME IInv, WholeInv, Converting, UNCHANGED <<side, middle, origin>>,
         frames # <<>>, frames' = Pop, arg' = None, ret' # None,
         (ret' = Fail) = (Node(Len(frames)) \notin Convertible)
  PROVE  WholeInv'
<1>0. PICK n : n = Len(frames)
  OBVIOUS
<1>1. n \in Nat /\ DOMAIN frames = 1..n /\ n \in 1..n /\ \A i \in 1..(n - 1) : HeadReady(i)
  BY <1>0, TopWhole
<1>2. /\ Len(frames') = n - 1 /\ DOMAIN frames' = 1..(n - 1)
      /\ \A i \in 1..(n - 1) : frames'[i] = frames[i]
  BY <1>0, Shrinks
<1>3. n - 1 \in Nat /\ (n - 1) + 1 = n /\ n - 1 \in 0..Len(frames)
  BY <1>0, <1>1
<1>4. /\ Node(n)' = Node(n)
      /\ \A i \in 1..(n - 1) : FrameWhole(i)' /\ HeadReady(i)' = HeadReady(i)
  BY <1>1, <1>2, <1>3, WholeKept
<1>5. /\ n - 1 \in 1..(n - 1) => HeadReady(n - 1)'
      /\ \A i \in 1..((n - 1) - 1) : HeadReady(i)'
  <2>1. \A i \in 1..((n - 1) - 1) : i \in 1..(n - 1)
    BY <1>1
  <2> QED
    BY <1>1, <1>4, <2>1
<1>6. ~Calling'
  BY DEF Calling
<1>7. (ret' = Fail) = (Node((n - 1) + 1)' \notin Convertible)
  BY <1>0, <1>3, <1>4
<1> QED
  BY <1>2, <1>3, <1>4, <1>5, <1>6, <1>7, WholeSettles

LEMMA BadKeyWhole ==
  ASSUME IInv, WholeInv, Converting, BadKey
  PROVE  WholeInv'
<1>0. PICK n : n = Len(frames)
  OBVIOUS
<1>1. /\ UNCHANGED <<side, middle, origin>> /\ frames # <<>> /\ frames' = Pop
      /\ arg' = None /\ ret' = Fail /\ ret' # None
      /\ Frame1.todo # <<>> /\ Frame1.keyed /\ ~IsKey(Todo[1])
  BY OkIs DEF BadKey, Looping
<1>2. FrameWhole(n) /\ Frame1 = frames[n]
  BY <1>0, <1>1, TopWhole
<1>3. Node(n) \notin Convertible
  <2>1. frames[n].todo \in Seq(Entries) /\ frames[n].todo # <<>>
    BY <1>1, <1>2 DEF FrameWhole
  <2>2. ~ItemConverts(frames[n].keyed, Head(frames[n].todo))
    BY <1>1, <1>2 DEF ItemConverts, Todo
  <2>3. ~ \A j \in DOMAIN frames[n].todo : ItemConverts(frames[n].keyed, frames[n].todo[j])
    BY <2>1, <2>2, HeadAndTail
  <2> QED
    BY <1>2, <2>3 DEF FrameWhole
<1> QED
  BY <1>0, <1>1, <1>3, PopWhole

LEMMA LeaveJsWhole ==
  ASSUME IInv, WholeInv, Converting, LeaveJs
  PROVE  WholeInv'
<1>0. PICK n : n = Len(frames)
  OBVIOUS
<1>1. /\ UNCHANGED <<side, middle, origin>> /\ frames # <<>> /\ frames' = Pop
      /\ arg' = None /\ ret' # Fail /\ ret' # None /\ Frame1.todo = <<>>
  BY OkIs DEF LeaveJs, Looping
<1>2. FrameWhole(n) /\ Frame1 = frames[n]
  BY <1>0, <1>1, TopWhole
<1>3. Node(n) \in Convertible
  <2>1. DOMAIN frames[n].todo = {}
    BY <1>1, <1>2
  <2> QED
    BY <1>2, <2>1 DEF FrameWhole
<1> QED
  BY <1>0, <1>1, <1>3, PopWhole

LEMMA FailedJsWhole ==
  ASSUME IInv, WholeInv, Converting, FailedJs
  PROVE  WholeInv'
<1>0. PICK n : n = Len(frames)
  OBVIOUS
<1>1. /\ UNCHANGED <<side, middle, origin>> /\ frames # <<>> /\ frames' = Pop
      /\ arg' = None /\ ret = Fail /\ ret' = Fail /\ ret' # None /\ ret # None /\ ~Looping
  BY Before, OkIs DEF FailedJs, Returning, Looping
<1>2. n \in 1..n /\ FrameWhole(n) /\ HeadReady(n)
  BY <1>0, <1>1, TopWhole
<1>3. Node(n) \notin Convertible
  <2>1. frames[n].todo \in Seq(Entries) /\ frames[n].todo # <<>>
    BY <1>2 DEF FrameWhole, HeadReady
  <2>2. Node(n + 1) \notin Convertible
    BY <1>0, <1>1 DEF WholeInv
  <2>3. Node(n + 1) = Head(frames[n].todo)[2]
    BY <1>2 DEF Node
  <2>4. ~ItemConverts(frames[n].keyed, Head(frames[n].todo))
    BY <2>2, <2>3 DEF ItemConverts
  <2>5. ~ \A j \in DOMAIN frames[n].todo : ItemConverts(frames[n].keyed, frames[n].todo[j])
    BY <2>1, <2>4, HeadAndTail
  <2> QED
    BY <1>2, <2>5 DEF FrameWhole
<1> QED
  BY <1>0, <1>1, <1>3, PopWhole

LEMMA StoreJsWhole ==
  ASSUME IInv, WholeInv, Converting, StoreJs
  PROVE  WholeInv'
<1>0. PICK n : n = Len(frames)
  OBVIOUS
<1>1. /\ UNCHANGED <<side, middle, origin>> /\ frames # <<>>
      /\ arg' = None /\ ret' = None /\ ret # None /\ ret # Fail /\ ~Looping
  BY Before, OkIs DEF StoreJs, Returning, Looping
<1>2. PICK made : frames' = Append(Pop, Advanced(Frame1, made))
  BY DEF StoreJs
<1>3. /\ n \in Nat /\ n \in 1..n /\ FrameWhole(n) /\ HeadReady(n)
      /\ \A i \in 1..(n - 1) : HeadReady(i)
  BY <1>0, <1>1, TopWhole
<1>4. /\ frames' # <<>> /\ Len(frames') = n /\ DOMAIN frames' = 1..n
      /\ frames'[n].keyed = frames[n].keyed
      /\ frames'[n].todo = Tail(frames[n].todo)
      /\ \A i \in 1..(n - 1) : frames'[i] = frames[i]
  BY <1>0, <1>1, <1>2, <1>3, Advances
<1>5. /\ Node(n)' = Node(n)
      /\ \A i \in 1..(n - 1) : FrameWhole(i)' /\ HeadReady(i)' = HeadReady(i)
  <2>1. n - 1 \in 0..Len(frames) /\ n \in 1..((n - 1) + 1)
    BY <1>0, <1>3
  <2> QED
    BY <1>1, <1>4, <2>1, WholeKept
<1>6. FrameWhole(n)'
  <2>1. frames[n].todo \in Seq(Entries) /\ frames[n].todo # <<>>
    BY <1>3 DEF FrameWhole, HeadReady
  <2>2. Node(n + 1) \in Convertible
    BY <1>0, <1>1 DEF WholeInv
  <2>3. Node(n + 1) = Head(frames[n].todo)[2]
    BY <1>3 DEF Node
  <2>4. ItemConverts(frames[n].keyed, Head(frames[n].todo))
    BY <1>3, <2>2, <2>3 DEF ItemConverts, HeadReady
  <2>5. /\ Tail(frames[n].todo) \in Seq(Entries)
        /\ (\A j \in DOMAIN frames[n].todo : ItemConverts(frames[n].keyed, frames[n].todo[j])) <=>
             \A j \in DOMAIN Tail(frames[n].todo) :
               ItemConverts(frames[n].keyed, Tail(frames[n].todo)[j])
    BY <2>1, <2>4, HeadAndTail
  <2> QED
    BY <1>3, <1>4, <1>5, <2>5 DEF FrameWhole
<1>7. \A i \in 1..n : FrameWhole(i)'
  <2>1. \A i \in 1..n : i \in 1..(n - 1) \/ i = n
    BY <1>3
  <2> QED
    BY <1>5, <1>6, <2>1
<1>8. Looping' /\ ~Calling'
  BY <1>1, <1>4 DEF Looping, Calling
<1> QED
  BY <1>1, <1>3, <1>4, <1>5, <1>7, <1>8, WholeSettles

LEMMA WholeInvNext ==
  ASSUME IInv, WholeInv, [Next]_vars
  PROVE  WholeInv'
<1>1. CASE GiveTerm \/ TakeValue
  <2>1. PICK s, x : Begin(s, x) /\ (s = "erl" => x \in Terms)
    BY <1>1 DEF GiveTerm, TakeValue
  <2>2. frames' = <<>> /\ ret' = None /\ side' = s /\ origin' = x /\ arg' = Ok(x)
    BY <2>1 DEF Begin, IInv, StepInv
  <2>3. DOMAIN frames' = {} /\ Len(frames') = 0
    BY <2>2
  <2>4. s = "erl" => x \in Parts
    BY <2>1, ConversionAssumption
  <2>5. Node(1)' = x /\ Len(frames') + 1 = 1
    BY <2>2, <2>3 DEF Node
  <2> QED
    BY <2>2, <2>3, <2>4, <2>5, OkIs DEF WholeInv, Converting
<1>2. CASE /\ UNCHANGED <<side, middle>>
           /\ CallToJs \/ NextToJs \/ BadKey \/ StoreJs \/ FailedJs \/ LeaveJs
  <2>1. CASE Converting
    BY <1>2, <2>1, CallToJsWhole, NextToJsWhole, BadKeyWhole, StoreJsWhole, FailedJsWhole,
       LeaveJsWhole
  <2>2. CASE ~Converting
    BY <1>2, <2>2 DEF WholeInv, Converting
  <2> QED
    BY <2>1, <2>2
<1>3. CASE CallToErl \/ NextToErl \/ StoreErl \/ LeaveErl
  <2>1. ToErl /\ UNCHANGED <<side, middle>>
    BY <1>3 DEF CallToErl, NextToErl, StoreErl, LeaveErl
  <2> QED
    BY <2>1 DEF ToErl, WholeInv, Converting
<1>4. CASE TurnBack
  <2>1. middle' # None
    BY <1>4 DEF TurnBack, Ended
  <2> QED
    BY <2>1 DEF WholeInv, Converting
<1>5. CASE UNCHANGED vars
  BY <1>5 DEF vars, WholeInv, Converting, FrameWhole, HeadReady, Node, Calling, Looping
<1>6. CallToJs \/ NextToJs \/ BadKey \/ StoreJs \/ FailedJs \/ LeaveJs => UNCHANGED <<side, middle>>
  BY DEF CallToJs, NextToJs, BadKey, StoreJs, FailedJs, LeaveJs
<1> QED
  BY <1>1, <1>2, <1>3, <1>4, <1>5, <1>6 DEF Next, Step, Finished

-----------------------------------------------------------------------------
(* erlang_to_duk fails for a term if and only if something in it, at       *)
(* whatever depth, has no JavaScript value, and both functions leave one   *)
(* slot for a value and none for a failure and use the slots they mean,    *)
(* whatever came before and however deep they are.                         *)
THEOREM ConvertsWholeOrFails == Spec => []WholeOrNothing
<1>1. Init => IInv /\ WholeInv
  BY IInvInit DEF Init, WholeInv, Converting
<1>2. IInv /\ WholeInv /\ [Next]_vars => (IInv /\ WholeInv)'
  BY IInvNext, WholeInvNext
<1>3. IInv /\ WholeInv => WholeOrNothing
  <2> SUFFICES ASSUME IInv, WholeInv
               PROVE  WholeOrNothing
    OBVIOUS
  <2>1. NothingDropped
    <3>1. frames = <<>> => Node(Len(frames) + 1) = origin
      BY DEF Node
    <3> QED
      BY <3>1 DEF NothingDropped, Ended, WholeInv, Converting
  <2>2. Balanced
    BY EndsWith, OkIs DEF Balanced
  <2>3. InPlace
    <3>1. CASE ToJs /\ Returning /\ Is(ret, "ok")
      BY <3>1, Before, TopFrame, Types, Directions, OkIs DEF InPlace, Returning, Looping
    <3>2. CASE ToErl /\ Looping
      BY <3>2, Before, Types, Directions DEF InPlace, Looped
    <3> QED
      BY <3>1, <3>2 DEF InPlace
  <2> QED
    BY <2>1, <2>2, <2>3 DEF WholeOrNothing
<1> QED
  BY <1>1, <1>2, <1>3, PTL DEF Spec
=============================================================================
