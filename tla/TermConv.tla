------------------------------ MODULE TermConv ------------------------------
(***************************************************************************)
(* What crosses between Erlang and JavaScript: erlang_to_duk and           *)
(* duk_to_erlang, as the recursions over the engine's value stack that     *)
(* they are.  A term goes to JavaScript and back, or a value to Erlang and *)
(* back; every call of the two functions, every element and every return   *)
(* is a step, with the slots of the value stack it takes and gives back.   *)
(*                                                                         *)
(* Integers have IntBits bits and doubles a significand of Significand     *)
(* bits, in units of one half.  Texts are sequences of symbols.            *)
(***************************************************************************)
EXTENDS Integers, Sequences, SequencesExt

CONSTANTS
    Terms, Values,  \* the Erlang terms and JavaScript values that start
    Parts,          \* the terms, their keys and their elements, at any depth
    Convertible,    \* those of them that JavaScript has a value for
    IsIolist(_),    \* enif_inspect_iolist_as_binary: whether a list is one,
    Flat(_),        \* and the bytes of it or of a binary
    IntBits,        \* of ErlNifSInt64
    Significand,    \* of a double
    MaxDepth,       \* MAX_CONVERSION_DEPTH
    Reserve         \* slots of the value stack that are there without
                    \* duk_require_stack

(* A term or a value is a record with one field, named for its kind:       *)
(*   Erlang  atom, int, float, bin, list, tuple, map, other                *)
(*   JS      prim, num, str, fun, arr, obj, loop                           *)
(* float and num are in halves; map and obj are sequences of <<key, value>>*)
(* pairs; loop is an array or an object that holds itself; other is a term *)
(* JavaScript has nothing for: a pid, an integer too large, an atom too    *)
(* long, an improper list.                                                 *)
Is(x, kind) == kind \in DOMAIN x

None == [none |-> TRUE]
Fail == [fail |-> TRUE]
Ok(x) == [ok |-> x]

VARIABLES
    side,       \* "erl" or "js": where the conversion started, "none" before
    origin,     \* the term or value it started with
    middle,     \* what it became on the other side, None until then
    arg,        \* the argument of a call about to be made, None if none is
    frames,     \* the calls that wait for one of an element
    ret,        \* what the last call returned, None while one is under way
    top         \* duk_get_top

vars == <<side, origin, middle, arg, frames, ret, top>>

-----------------------------------------------------------------------------
(* Numbers *)

Exp[n \in Nat] == IF n = 0 THEN 1 ELSE 2 * Exp[n - 1]

MinInt == -Exp[IntBits - 1]
MaxInt == Exp[IntBits - 1] - 1

(* n to the nearest multiple of u, the even one of two.                    *)
Nearest(n, u) ==
    LET low == n \div u  rest == n % u IN
      IF 2 * rest < u \/ (2 * rest = u /\ low % 2 = 0) THEN low * u ELSE (low + 1) * u

(* The spacing of the doubles near n.                                      *)
Spacing(n) ==
    LET size == IF n < 0 THEN -n ELSE n
        larger == {k \in 0..IntBits : size <= Exp[Significand + k]}
    IN Exp[CHOOSE k \in larger : \A j \in larger : k <= j]

Double(n) == Nearest(n, Spacing(n))

(* Mutants: a bound or the floor dropped.                                  *)
IntUnbounded(h) == IF h % 2 = 0 THEN {[int |-> h \div 2]} ELSE {[float |-> h]}
IntTruncated(h) == IF h \div 2 \in MinInt..MaxInt THEN {[int |-> h \div 2]}
                                                  ELSE {[float |-> h]}

(* floor(num) == num within the range of int64 makes an integer.  INT64_MAX*)
(* itself is compared as a double, one more than it is, and the cast of    *)
(* that one is undefined.                                                  *)
IntOrFloat(h) ==
    IF h % 2 = 0 /\ h \div 2 \in MinInt..Double(MaxInt)
    THEN IF h \div 2 \in MinInt..MaxInt
         THEN {[int |-> h \div 2]}
         ELSE {[int |-> n] : n \in MinInt..MaxInt}
    ELSE {[float |-> h]}

-----------------------------------------------------------------------------
(* Leaves *)

(* Mutant: undefined forgotten.                                            *)
PrimitivesButOne == {"true", "false", "null"}

Primitives == {"true", "false", "null", "undefined"}

(* A key is an atom, a binary or an iolist.                                *)
IsKey(t) == Is(t, "atom") \/ Is(t, "bin") \/ IsIolist(t)
KeyText(t) == IF Is(t, "atom") THEN <<t.atom>> ELSE Flat(t)

IsCompound(t) == (Is(t, "list") /\ ~IsIolist(t)) \/ Is(t, "tuple") \/ Is(t, "map")

LeafToJs(t) ==
    CASE Is(t, "atom") -> IF t.atom \in Primitives THEN Ok([prim |-> t.atom])
                          ELSE Ok([str |-> <<t.atom>>])
      [] Is(t, "int") -> Ok([num |-> 2 * Double(t.int)])
      [] Is(t, "float") -> Ok([num |-> t.float])
      [] Is(t, "bin") \/ IsIolist(t) -> Ok([str |-> Flat(t)])
      [] OTHER -> Fail

(* NaN and the infinities become atoms, a function or another value its    *)
(* text.                                                                   *)
LeafToErl(v) ==
    IF Is(v, "num") THEN IntOrFloat(v.num)
    ELSE IF Is(v, "prim") THEN {[atom |-> v.prim]}
    ELSE {[bin |-> IF Is(v, "str") THEN v.str ELSE <<v.fun>>]}

Cut == [bin |-> <<"max depth exceeded">>]

(* A property of that name is there already: its value is replaced.        *)
Put(pairs, key, value) ==
    IF \E i \in DOMAIN pairs : pairs[i][1] = key
    THEN [i \in DOMAIN pairs |-> IF pairs[i][1] = key THEN <<key, value>> ELSE pairs[i]]
    ELSE Append(pairs, <<key, value>>)

(* What a compound is made of, in order, each element with its key.        *)
Items(x) ==
    CASE Is(x, "list")  -> [i \in DOMAIN x.list |-> <<None, x.list[i]>>]
      [] Is(x, "tuple") -> [i \in DOMAIN x.tuple |-> <<None, x.tuple[i]>>]
      [] Is(x, "map")   -> x.map
      [] Is(x, "arr")   -> [i \in DOMAIN x.arr |-> <<None, x.arr[i]>>]
      [] Is(x, "obj")   -> x.obj
      [] Is(x, "loop")  -> <<<<IF x.loop = "arr" THEN None ELSE <<"self">>, x>>>>

Keyed(x) == Is(x, "map") \/ Is(x, "obj") \/ (Is(x, "loop") /\ x.loop = "obj")

(* slot: where the array or object lies that is made or read.              *)
FrameOf(x, slot) == [keyed |-> Keyed(x), slot |-> slot, todo |-> Items(x), made |-> <<>>]

TermKinds == {"atom", "int", "float", "bin", "list", "tuple", "map", "other"}

(* Terms are what they are made of; and a part of a term has a value in    *)
(* JavaScript if it is an atom, a number or a text, or if its elements have*)
(* and its keys are texts.                                                 *)
ASSUME ConversionAssumption ==
    /\ IntBits \in Nat \ {0} /\ Significand \in Nat \ {0}
    /\ MaxDepth \in Nat
    /\ Reserve \in Nat
    /\ Terms \subseteq Parts
    /\ \A t \in Parts :
         /\ \E kind \in TermKinds : DOMAIN t = {kind}
         /\ IsIolist(t) => Is(t, "list")
         /\ IsCompound(t) => Items(t) \in Seq((Parts \cup {None}) \X Parts)
         /\ t \in Convertible <=>
              \/ \E kind \in {"atom", "int", "float", "bin"} : Is(t, kind)
              \/ IsIolist(t)
              \/ /\ \E kind \in {"list", "tuple", "map"} : Is(t, kind)
                 /\ \A i \in DOMAIN Items(t) :
                      LET key == Items(t)[i][1] IN
                        /\ Is(t, "map") => Is(key, "atom") \/ Is(key, "bin") \/ IsIolist(key)
                        /\ Items(t)[i][2] \in Convertible

-----------------------------------------------------------------------------
Init ==
    /\ side = "none"
    /\ origin = None /\ middle = None
    /\ arg = None
    /\ frames = <<>>
    /\ ret = None
    /\ top = 0

Begin(s, x) ==
    /\ side = "none"
    /\ side' = s
    /\ origin' = x
    /\ arg' = Ok(x)
    /\ top' = IF s = "erl" THEN 0 ELSE 1
    /\ UNCHANGED <<middle, frames, ret>>

(* A term is given to JavaScript; a value lies on the stack.               *)
GiveTerm  == \E t \in Terms : Begin("erl", t)
TakeValue == \E v \in Values : Begin("js", v)

ToJs  == (side = "erl" /\ middle = None) \/ (side = "js" /\ middle # None)
ToErl == (side = "js" /\ middle = None) \/ (side = "erl" /\ middle # None)

Calling   == arg # None
Returning == ret # None /\ frames # <<>>
Looping   == arg = None /\ ret = None /\ frames # <<>>
Frame1    == Last(frames)
Pop       == Front(frames)
Todo      == Head(Frame1.todo)

Descend(slot) == /\ frames' = Append(frames, FrameOf(arg.ok, slot))
                 /\ UNCHANGED ret

Advanced(frame, made) ==
    [keyed |-> frame.keyed, slot |-> frame.slot, todo |-> Tail(frame.todo), made |-> made]

-----------------------------------------------------------------------------
(* erlang_to_duk *)

(* A leaf is pushed, or nothing is; an array or an object is pushed empty. *)
CallToJs ==
    /\ ToJs /\ Calling
    /\ arg' = None
    /\ IF IsCompound(arg.ok)
       THEN Descend(top) /\ top' = top + 1
       ELSE /\ ret' = LeafToJs(arg.ok)
            /\ top' = IF LeafToJs(arg.ok) = Fail THEN top ELSE top + 1
            /\ UNCHANGED frames
    /\ UNCHANGED <<side, origin, middle>>

(* The next element; in a map its key is pushed first.                     *)
NextToJs ==
    /\ ToJs /\ Looping
    /\ Frame1.todo # <<>>
    /\ Frame1.keyed => IsKey(Todo[1])
    /\ arg' = Ok(Todo[2])
    /\ top' = IF Frame1.keyed THEN top + 1 ELSE top
    /\ UNCHANGED <<side, origin, middle, frames, ret>>

(* A key of another kind: the object is popped.                            *)
BadKey ==
    /\ ToJs /\ Looping
    /\ Frame1.todo # <<>>
    /\ Frame1.keyed
    /\ ~IsKey(Todo[1])
    /\ frames' = Pop
    /\ ret' = Fail
    /\ top' = top - 1
    /\ UNCHANGED <<side, origin, middle, arg>>

(* duk_put_prop takes the key and the value, duk_put_prop_index the value. *)
StoreJs ==
    /\ ToJs /\ Returning
    /\ Is(ret, "ok")
    /\ frames' = Append(Pop, Advanced(Frame1,
                    IF Frame1.keyed THEN Put(Frame1.made, KeyText(Todo[1]), ret.ok)
                                    ELSE Append(Frame1.made, ret.ok)))
    /\ ret' = None
    /\ top' = IF Frame1.keyed THEN top - 2 ELSE top - 1
    /\ UNCHANGED <<side, origin, middle, arg>>

(* Mutant: the key is left.                                                *)
PopObject(keyed) == top - 1

(* An element did not convert: the array is popped, or key and object.     *)
PopPartial(keyed) == IF keyed THEN top - 2 ELSE top - 1

FailedJs ==
    /\ ToJs /\ Returning
    /\ ret = Fail
    /\ frames' = Pop
    /\ top' = PopPartial(Frame1.keyed)
    /\ UNCHANGED <<side, origin, middle, arg, ret>>

LeaveJs ==
    /\ ToJs /\ Looping
    /\ Frame1.todo = <<>>
    /\ frames' = Pop
    /\ ret' = Ok(IF Frame1.keyed THEN [obj |-> Frame1.made] ELSE [arr |-> Frame1.made])
    /\ UNCHANGED <<side, origin, middle, arg, top>>

-----------------------------------------------------------------------------
(* duk_to_erlang *)

TooDeep == Len(frames) > MaxDepth

IsObject(v) == Is(v, "arr") \/ Is(v, "obj") \/ Is(v, "loop")

(* A leaf needs no slot that it does not give back; an object needs one    *)
(* for the enumerator.                                                     *)
CallToErl ==
    /\ ToErl /\ Calling
    /\ arg' = None
    /\ IF TooDeep
       THEN ret' = Ok(Cut) /\ UNCHANGED <<frames, top>>
       ELSE IF IsObject(arg.ok)
       THEN /\ Descend(top - 1)
            /\ top' = IF Keyed(arg.ok) THEN top + 1 ELSE top
       ELSE /\ \E t \in LeafToErl(arg.ok) : ret' = Ok(t)
            /\ UNCHANGED <<frames, top>>
    /\ UNCHANGED <<side, origin, middle>>

(* duk_next pushes key and value, duk_get_prop_index the value.            *)
NextToErl ==
    /\ ToErl /\ Looping
    /\ Frame1.todo # <<>>
    /\ arg' = Ok(Todo[2])
    /\ top' = IF Frame1.keyed THEN top + 2 ELSE top + 1
    /\ UNCHANGED <<side, origin, middle, frames, ret>>

StoreErl ==
    /\ ToErl /\ Returning
    /\ frames' = Append(Pop, Advanced(Frame1,
                    IF Frame1.keyed
                    THEN Append(Frame1.made, <<[bin |-> Todo[1]], ret.ok>>)
                    ELSE Append(Frame1.made, ret.ok)))
    /\ ret' = None
    /\ top' = IF Frame1.keyed THEN top - 2 ELSE top - 1
    /\ UNCHANGED <<side, origin, middle, arg>>

LeaveErl ==
    /\ ToErl /\ Looping
    /\ Frame1.todo = <<>>
    /\ frames' = Pop
    /\ ret' = Ok(IF Frame1.keyed THEN [map |-> Frame1.made] ELSE [list |-> Frame1.made])
    /\ top' = IF Frame1.keyed THEN top - 1 ELSE top
    /\ UNCHANGED <<side, origin, middle, arg>>

-----------------------------------------------------------------------------
(* The way back: the value pushed is the value taken, and popped after it. *)

Ended == frames = <<>> /\ ret # None

TurnBack ==
    /\ Ended
    /\ middle = None
    /\ Is(ret, "ok")
    /\ middle' = ret
    /\ arg' = ret
    /\ ret' = None
    /\ top' = IF side = "erl" THEN top ELSE top - 1
    /\ UNCHANGED <<side, origin, frames>>

Finished ==
    /\ Ended
    /\ middle # None \/ ret = Fail
    /\ UNCHANGED vars

Step == \/ CallToJs
        \/ NextToJs
        \/ BadKey
        \/ StoreJs
        \/ FailedJs
        \/ LeaveJs
        \/ CallToErl
        \/ NextToErl
        \/ StoreErl
        \/ LeaveErl
        \/ TurnBack

Next == GiveTerm \/ TakeValue \/ Step \/ Finished

Spec == Init /\ [][Next]_vars

-----------------------------------------------------------------------------
(* A number that becomes an integer fits into 64 bits.                     *)
TypeOK ==
    /\ side \in {"none", "erl", "js"}
    /\ middle = None \/ middle = Ok(middle.ok)
    /\ arg = None \/ arg = Ok(arg.ok)
    /\ ret \in {None, Fail} \/ ret = Ok(ret.ok)
    /\ top \in Nat
    /\ \A i \in DOMAIN frames : frames[i].keyed \in BOOLEAN /\ frames[i].slot \in Nat
    /\ ToErl /\ Is(ret, "ok") /\ Is(ret.ok, "int") => ret.ok.int \in MinInt..MaxInt

(* erlang_to_duk fails for a term if and only if a part of it, at whatever *)
(* depth, has no JavaScript value: it never drops the part.                *)
NothingDropped == Ended /\ side = "erl" /\ middle = None => (ret = Fail) = (origin \notin Convertible)

(* However a conversion ends, half way through a map in a list or complete,*)
(* it leaves one slot for a value and none for a failure; duk_to_erlang    *)
(* leaves the value it was given and nothing above it.                     *)
Balanced == Ended => top = IF ret = Fail THEN 0 ELSE 1

(* The slots at -1, -2 and -3 and the index of the array are those that a  *)
(* put, a get or a step of the enumeration means, whatever the conversion  *)
(* of the elements before did to the stack.                                *)
InPlace ==
    /\ ToJs /\ Returning /\ Is(ret, "ok") => top = Frame1.slot + (IF Frame1.keyed THEN 3 ELSE 2)
    /\ ToErl /\ Looping => top = Frame1.slot + (IF Frame1.keyed THEN 2 ELSE 1)

(* A conversion converts a term or a value and leaves the rest of the value*)
(* stack as it was, or fails and leaves all of it.                         *)
WholeOrNothing == NothingDropped /\ Balanced /\ InPlace
=============================================================================
