----------------------------- MODULE MCTermConv -----------------------------
(***************************************************************************)
(* Instances of TermConv for TLC, and what the conversions promise, said   *)
(* without a stack.                                                        *)
(***************************************************************************)
EXTENDS TermConv, FiniteSets

Atom(a) == [atom |-> a]
Whole(n)  == [int |-> n]
Bin(s)  == [bin |-> s]
Pair(k, x) == <<k, x>>

(* Two bytes, so that lists of integers are texts as well as lists.        *)
Bytes == [n \in {0, 1} |-> IF n = 0 THEN "a" ELSE "b"]

(* An iolist is a list of bytes, binaries and iolists.                     *)
RECURSIVE Iolist(_)
Iolist(t) ==
    Is(t, "list") /\ \A i \in DOMAIN t.list :
        LET e == t.list[i] IN
          \/ Is(e, "int") /\ e.int \in DOMAIN Bytes
          \/ Is(e, "bin")
          \/ Iolist(e)

RECURSIVE Flattened(_)
Flattened(t) ==
    CASE Is(t, "int") -> <<Bytes[t.int]>>
      [] Is(t, "bin") -> t.bin
      [] t.list = <<>> -> <<>>
      [] OTHER -> Flattened(Head(t.list)) \o Flattened([list |-> Tail(t.list)])

LeafTerms ==
       {Atom(a) : a \in Primitives \cup {"a"}}
  \cup {Whole(n) : n \in {-32, -9, 0, 1, 9, 11, 30, 31}}
  \cup {[float |-> h] : h \in {3, 10, -64, 64, 80}}
  \cup {Bin(<<>>), Bin(<<"a">>), [other |-> "pid"]}

Elements == {Atom("undefined"), Whole(1), Whole(9), [float |-> 3], Bin(<<"b">>), [other |-> "pid"]}

UpTo(S, n) == UNION {[1..k -> S] : k \in 0..n}

FlatTerms ==
       {[list |-> s]  : s \in UpTo(Elements, 2)}
  \cup {[tuple |-> s] : s \in UpTo(Elements, 2)}

Keys == {Atom("a"), Bin(<<"a">>), [list |-> <<Whole(0)>>], Atom("true"), Whole(1)}

MapsOf(S) == {[map |-> <<>>]}
        \cup {[map |-> <<Pair(k, x)>>] : k \in Keys, x \in S}
        \cup {[map |-> <<Pair(pair[1], x), Pair(pair[2], y)>>] :
                pair \in {q \in Keys \X Keys : q[1] # q[2]}, x \in S, y \in S}

Inner == {[list |-> <<Whole(0), Whole(1)>>], [list |-> <<Whole(9)>>], [tuple |-> <<Whole(1)>>],
          [list |-> <<>>], [list |-> <<[other |-> "pid"]>>],
          [map |-> <<Pair(Atom("a"), [other |-> "pid"])>>],
          [map |-> <<Pair(Whole(1), Whole(1))>>],
          [map |-> <<Pair(Atom("a"), Whole(9))>>], Whole(1)}

AllTerms == LeafTerms \cup FlatTerms \cup MapsOf({Whole(1), [float |-> 3], [other |-> "pid"]})
       \cup {[list |-> s] : s \in UpTo(Inner, 2)}
       \cup {[tuple |-> s] : s \in UpTo(Inner, 2)}
       \cup MapsOf(Inner)

Loops == {[loop |-> kind] : kind \in {"arr", "obj"}}

LeafValues ==
       {[prim |-> p] : p \in Primitives \cup {"nan", "infinity"}}
  \cup {[num |-> h] : h \in {-80, -64, -3, 0, 2, 3, 32, 56, 64, 80}}
  \cup {[str |-> s] : s \in {<<>>, <<"a">>}}
  \cup {[fun |-> "function"]}

ValueElements == {[prim |-> "null"], [num |-> 3], [num |-> 2], [num |-> 10], [str |-> <<"b">>],
                  [fun |-> "function"], [arr |-> <<>>], [obj |-> <<>>], [arr |-> <<[num |-> 10]>>],
                  [obj |-> <<Pair(<<"a">>, [num |-> 10])>>]}

AllValues == LeafValues \cup Loops
       \cup {[arr |-> s] : s \in UpTo(ValueElements, 2)}
       \cup {[obj |-> [i \in DOMAIN s |-> Pair(IF i = 1 THEN <<"a">> ELSE <<"b">>, s[i])]] :
               s \in UpTo(ValueElements, 2)}

NoTerms == {}
OneLoop == {[loop |-> "obj"]}

-----------------------------------------------------------------------------
AllParts == AllTerms \cup Elements \cup Keys \cup Inner

(* Nothing in the term is beyond JavaScript.                               *)
Converts[t \in AllParts] ==
    \/ \E kind \in {"atom", "int", "float", "bin"} : Is(t, kind)
    \/ \E kind \in {"list", "tuple"} :
         Is(t, kind) /\ \A i \in DOMAIN t[kind] : Converts[t[kind][i]]
    \/ /\ Is(t, "map")
       /\ \A i \in DOMAIN t.map : ~Is(t.map[i][1], "int") /\ Converts[t.map[i][2]]

AllConvertible == {t \in AllParts : Converts[t]}

(* TLC evaluates the definition a constant is given each time it meets the *)
(* constant, and those above once.                                         *)
SomeParts == AllParts
SomeConvertible == AllConvertible

-----------------------------------------------------------------------------
(* The bytes of a text or of nested lists of bytes and texts.              *)
RECURSIVE Spells(_, _)
Spells(t, s) ==
    \/ Is(t, "bin") /\ s = t.bin
    \/ Is(t, "int") /\ t.int \in DOMAIN Bytes /\ s = <<Bytes[t.int]>>
    \/ Is(t, "list") /\ t.list = <<>> /\ s = <<>>
    \/ /\ Is(t, "list") /\ t.list # <<>>
       /\ \E k \in 0..Len(s) : /\ Spells(Head(t.list), SubSeq(s, 1, k))
                               /\ Spells([list |-> Tail(t.list)], SubSeq(s, k + 1, Len(s)))

Texts == UpTo({"a", "b"}, 4)
IsText(t) == ~Is(t, "int") /\ \E s \in Texts : Spells(t, s)

IsName(k, s) == \/ Is(k, "atom") /\ s = <<k.atom>>
                \/ ~Is(k, "int") /\ Spells(k, s)

(* A conversion of an integer takes the nearest double.                    *)
Doubles == {m * Exp[e] : m \in -Exp[Significand]..Exp[Significand], e \in 0..IntBits}
Size(n) == IF n < 0 THEN -n ELSE n

ASSUME RoundsToNearest ==
    \A n \in MinInt..MaxInt :
        LET far(d) == Size(2 * n - d)
            x == 2 * Double(n)
        IN x \in Doubles /\ \A d \in Doubles : far(d) >= far(x)

(* As near as any double is; a value equal to 2^63 is not one of them (the *)
(* cast to int64 is undefined).                                            *)
Halves(t) == IF Is(t, "int") THEN 2 * t.int ELSE t.float
AsNear(t, u) ==
    \/ \A d \in Doubles : Size(Halves(t) - d) >= Size(Halves(t) - Halves(u))
    \/ \A d \in Doubles : Size(Halves(t) - d) >= Size(Halves(t) - 2 * (MaxInt + 1))

(* u is what comes back of t.                                              *)
RECURSIVE Came(_, _)
Came(t, u) ==
    \/ Is(t, "atom") /\ t.atom \in {"true", "false", "null", "undefined"} /\ u = t
    \/ /\ Is(t, "atom") /\ t.atom \notin {"true", "false", "null", "undefined"}
       /\ u = Bin(<<t.atom>>)
    \/ /\ Is(t, "int") \/ Is(t, "float")
       /\ Is(u, "int") \/ Is(u, "float")
       /\ AsNear(t, u)
    \/ IsText(t) /\ Is(u, "bin") /\ Spells(t, u.bin)
    \/ \E kind \in {"list", "tuple"} :
         /\ Is(t, kind) /\ ~IsText(t)
         /\ Is(u, "list")
         /\ DOMAIN u.list = DOMAIN t[kind]
         /\ \A i \in DOMAIN u.list : Came(t[kind][i], u.list[i])
    \/ /\ Is(t, "map") /\ Is(u, "map")
       /\ \A i, j \in DOMAIN u.map : u.map[i][1] = u.map[j][1] => i = j
       /\ \A i \in DOMAIN t.map : \E j \in DOMAIN u.map : IsName(t.map[i][1], u.map[j][1].bin)
       /\ \A j \in DOMAIN u.map : \E i \in DOMAIN t.map :
            IsName(t.map[i][1], u.map[j][1].bin) /\ Came(t.map[i][2], u.map[j][2])

(* A term that goes to JavaScript and back is the same, but that atoms,    *)
(* other than four, and lists of bytes are binaries, tuples are lists,     *)
(* keys are binaries and numbers are the nearest double.                   *)
ComesBack == side = "erl" /\ middle # None /\ Ended => Came(origin, ret.ok)

(* A value Erlang has a term for that JavaScript would read the same.      *)
RECURSIVE Plain(_)
Plain(v) ==
    \/ Is(v, "prim") /\ v.prim \in {"true", "false", "null", "undefined"}
    \/ Is(v, "num") /\ v.num # 2 * (MaxInt + 1)
    \/ Is(v, "str")
    \/ /\ Is(v, "arr")
       /\ \E i \in DOMAIN v.arr : Is(v.arr[i], "num") /\ (v.arr[i].num % 2 = 1 \/ v.arr[i].num > 2)
       /\ \A i \in DOMAIN v.arr : Plain(v.arr[i])
    \/ Is(v, "obj") /\ \A i \in DOMAIN v.obj : Plain(v.obj[i][2])

(* A value that goes to Erlang and back is the same, if no array in it can *)
(* be read as a text; cbor_encode after cbor_decode and a value returned   *)
(* by eval and passed on to call rely on it.                               *)
KeepsPlain == side = "js" /\ middle # None /\ Ended /\ Plain(origin) => ret = Ok(origin)

(* The comment on MAX_CONVERSION_DEPTH: the depth is bounded so that the   *)
(* stack does not overflow on circular references.                         *)
NestingIsSafe == top <= Reserve
=============================================================================
