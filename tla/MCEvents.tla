------------------------------ MODULE MCEvents ------------------------------
(***************************************************************************)
(* Programs for Events, and what they mean when they run once.             *)
(***************************************************************************)
EXTENDS Events

S(op, on, runs) == [op |-> op, on |-> on, runs |-> runs]
Do(op, on) == S(op, on, <<>>)
Raise == Do("throw", "none")

TwoNames == {"e1", "e2"}
KnownLevels == {"info"}

Callback == <<Do("emit", "called")>>
Failing  == <<Do("log", "info"), Raise>>

(* Events around, inside and after calls of Erlang functions.              *)
Around    == <<Do("emit", "a"), Do("call", "f"), Do("log", "odd"), Do("call", "g"), Do("emit", "b")>>
InData    == <<Do("emit", "a"), S("emit", "b", <<Do("call", "f")>>), Do("call", "g"), Do("emit", "c")>>
InArgs    == <<S("call", "f", <<Do("emit", "a"), Do("log", "info")>>), Do("emit", "b"), Do("call", "g")>>

(* The text of a log emits, throws.                                        *)
InText    == <<S("log", "info", <<Do("emit", "a")>>), S("log", "odd", <<Raise>>), Do("call", "f"),
               S("log", "info", <<Do("emit", "b"), Raise, Do("emit", "c")>>)>>

(* Callbacks registered and registered again before, between and after     *)
(* calls, and when data is converted.                                      *)
Registers == <<S("on", "e1", Callback), Do("call", "f"), S("on", "e1", Failing), Do("off", "e2"),
               Do("call", "g"), S("on", "e2", Callback)>>
Replaces  == <<Do("off", "e1"), S("emit", "a", <<S("on", "e1", Callback), Do("call", "f")>>),
               Do("call", "g"), Do("off", "e1"), S("on", "e2", Failing)>>

(* Errors after a call, and in data.                                       *)
Throws    == <<S("on", "e2", Callback), Do("call", "f"), S("emit", "a", <<Do("call", "g"), Raise>>),
               Do("emit", "b")>>

Named == {Around, InData, InArgs, InText, Registers, Replaces, Throws}

(* And every program of three of these statements.                         *)
Steps == {Do("emit", "a"), S("emit", "b", <<Do("call", "f")>>), S("emit", "c", <<Raise>>),
          S("log", "info", <<Do("emit", "a"), Raise>>), S("call", "g", <<Do("emit", "a")>>),
          S("on", "e1", Callback), S("emit", "d", <<Do("off", "e1")>>), Raise}

SomePrograms == Named \cup [1..3 -> Steps]

(* The statements of the programs, and those they run.                     *)
Outer == Steps \cup UNION {ToSet(prog) : prog \in Named}
SomeStatements == Outer \cup UNION {ToSet(s.runs) : s \in Outer}

(* "on" does not run its callback.                                         *)
Ran(s) == {s} \cup (IF s.op = "on" THEN {} ELSE ToSet(s.runs))
Without(ops) == {s \in SomeStatements : \A t \in Ran(s) : t.op \notin ops}

ASSUME SomeAreTame ==
    Tame(Without({"emit", "log"}), Without({"throw", "call"}), Without({"call"}))

-----------------------------------------------------------------------------
(* The meaning of statements: w is what was emitted, called and registered *)
(* so far and whether an error was thrown.  The arguments of a call that   *)
(* was answered are not converted again.                                   *)
RECURSIVE Meaning(_, _)
Meaning(stmts, w) ==
    IF stmts = <<>> \/ w.threw THEN w
    ELSE LET s == Head(stmts)
             d == Meaning(s.runs, w)
         IN Meaning(Tail(stmts),
              CASE s.op = "throw" -> [w EXCEPT !.threw = TRUE]
                [] s.op = "on"    -> [w EXCEPT !.callbacks[s.on] = s.runs]
                [] s.op = "off"   -> [w EXCEPT !.callbacks[s.on] = None]
                [] s.op = "call" /\ Len(w.calls) \in results ->
                     [w EXCEPT !.calls = Append(@, s.on)]
                [] s.op = "call" /\ Len(w.calls) \notin results ->
                     IF d.threw THEN d ELSE [d EXCEPT !.calls = Append(@, s.on)]
                [] s.op = "emit" /\ handler /\ d.threw -> d
                [] s.op \in {"emit", "log"} /\ handler ->
                     [d EXCEPT !.events = Append(@, <<s.op, s.on>>), !.threw = FALSE]
                [] OTHER -> w)

Written == Meaning(code, [events |-> <<>>, calls |-> <<>>, callbacks |-> before, threw |-> FALSE])

Complete   == Evaluating /\ outcome # "none" /\ ~IsCall

-----------------------------------------------------------------------------
(* However often an eval is run again for its calls, and whatever native   *)
(* function a call unwinds, no run of it sends the handler an event the    *)
(* program does not emit, out of order or twice, and the last one sends    *)
(* them all.  The callbacks an eval leaves are those it registered last, as*)
(* if it had run once: the runs before do not show.                        *)
EffectsAsWritten ==
    /\ Evaluating => IsPrefix(sent, Written.events)
    /\ Complete => sent = Written.events /\ callbacks = Written.callbacks

(* Each call is returned to Erlang once, in order, also one that the data  *)
(* of an event makes, and an eval that ends has returned them all.         *)
CallsOnce ==
    /\ Evaluating => IsPrefix(called, Written.calls)
    /\ Complete => called = Written.calls
=============================================================================
