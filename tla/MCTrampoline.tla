---------------------------- MODULE MCTrampoline ----------------------------
(***************************************************************************)
(* Small instances of Trampoline for TLC.                                  *)
(***************************************************************************)
EXTENDS Trampoline, TLC

Plain(op)   == [op |-> op, catch |-> FALSE]
Guarded(op) == [op |-> op, catch |-> TRUE]

TwoCalls    == <<Plain("call"), Plain("call")>>
CallThrow   == <<Plain("call"), Plain("throw")>>
CallEndless == <<Plain("call"), Plain("spin")>>
OneCall     == <<Plain("call")>>
BoundCalls  == <<Plain("call"), Plain("read"), Plain("call")>>
ThrowOnly   == <<Plain("throw")>>
Endless     == <<Plain("spin")>>
CaughtCall  == <<Guarded("call")>>
CaughtThrow == <<Guarded("throw")>>

SerialPrograms == {TwoCalls, CallThrow, ThrowOnly}
SharedPrograms == {TwoCalls, CaughtCall}
OnlyOneCall    == {OneCall}
OnlyCaught     == {CaughtCall}
OnlyEndless    == {CallEndless}
CallFreeSends  == {CaughtThrow, ThrowOnly}
OnlyBoundCalls == {BoundCalls}
BoundOrEndless == {BoundCalls, Endless}
NoPrograms     == {}

Symmetry == Permutations(Procs)
=============================================================================
