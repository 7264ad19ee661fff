--------------------------- MODULE MCModuleLoader ---------------------------
(***************************************************************************)
(* Small instances of ModuleLoader for TLC: modules that require each      *)
(* other, throw, catch and call Erlang functions.                          *)
(***************************************************************************)
EXTENDS ModuleLoader

Guarded(id) == [op |-> "require", id |-> id, catch |-> TRUE]
Call        == [op |-> "call", id |-> NoId, catch |-> FALSE]
Throw       == [op |-> "throw", id |-> NoId, catch |-> FALSE]

(* A leaf, and bodies that require any of the others before they return or *)
(* throw, caring or not about a failure.                                   *)
CallFreeBodies == {<<>>}
    \cup {<<Require(id)>> : id \in Ids}
    \cup {<<Guarded(id), Throw>> : id \in Ids}

CallingEvals == {<<Require(id), Call>> : id \in Ids}
                  \cup {<<Guarded(id), Call, Require(id)>> : id \in Ids}

CallingBodies == {<<Call>>}
RequireThenCall == {<<Require(id), Call>> : id \in Ids}
=============================================================================
