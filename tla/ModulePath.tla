----------------------------- MODULE ModulePath -----------------------------
(***************************************************************************)
(* What resolving a module id promises, a term at a time and without a     *)
(* buffer: the id is a walk over the directories of modules.  It begins in *)
(* the directory of the requiring module if the id is relative, and at the *)
(* root if not; "." stays, ".." goes up, a name goes down, and the last    *)
(* name is the module.                                                     *)
(***************************************************************************)
EXTENDS ModuleTerms

CONSTANTS Limit, ReqIds, MaxRequires

VARIABLES
    req, mod,       \* the id, and that of the requiring module
    rest,           \* the terms to go
    dir,            \* the directory reached
    status,         \* "idle", "walking", "done", "error"
    id, last,       \* the absolute id and its last name, when done
    requires

vars == <<req, mod, rest, dir, status, id, last, requires>>

Init ==
    /\ req = <<>> /\ mod = <<>> /\ rest = <<>> /\ dir = <<>>
    /\ status = "idle"
    /\ id = <<>> /\ last = <<>>
    /\ requires = 0

(* The two ids and "/../" between them, if the first counts.               *)
TooLong(m, r) == Len(r) + (IF IsRelative(m, r) THEN Len(m) + 4 ELSE 0) >= Limit

Stop(s) == status' = s /\ rest' = <<>> /\ dir' = <<>>

Require ==
    /\ status # "walking"
    /\ requires < MaxRequires
    /\ requires' = requires + 1
    /\ req' \in ReqIds
    /\ mod' \in {<<>>, id}
    /\ \/ /\ TooLong(mod', req')
          /\ Stop("error")
       \/ /\ ~TooLong(mod', req')
          /\ status' = "walking"
          /\ rest' = req'
          /\ dir' = IF IsRelative(mod', req') THEN Dir(mod') ELSE <<>>
    /\ UNCHANGED <<id, last>>

-----------------------------------------------------------------------------
CanStay    == TermBegins(rest, <<Dot>>)
CanGoUp    == TermBegins(rest, <<Dot, Dot>>) /\ dir # <<>>
CanEnter(n) == NameBegins(rest, n) /\ n < Len(rest) /\ rest[n + 1] = Slash
CanArrive  == NameBegins(rest, Len(rest))

Walk == status = "walking" /\ UNCHANGED <<req, mod, requires>>

Stay ==
    /\ Walk /\ CanStay
    /\ rest' = Behind(rest, 1)
    /\ UNCHANGED <<dir, status, id, last>>

GoUp ==
    /\ Walk /\ CanGoUp
    /\ rest' = Behind(rest, 2)
    /\ dir' = Parent(dir)
    /\ UNCHANGED <<status, id, last>>

Enter(n) ==
    /\ Walk /\ CanEnter(n)
    /\ rest' = Behind(rest, n)
    /\ dir' = dir \o SubSeq(rest, 1, n + 1)
    /\ UNCHANGED <<status, id, last>>

Arrive ==
    /\ Walk /\ CanArrive
    /\ id' = dir \o rest
    /\ last' = rest
    /\ Stop("done")

(* No term, or one that is neither a name nor, with a slash behind it, "." *)
(* or, below the root, "..".                                               *)
Fail ==
    /\ Walk
    /\ ~CanStay /\ ~CanGoUp /\ ~CanArrive
    /\ \A n \in 1..Len(rest) : ~CanEnter(n)
    /\ Stop("error")
    /\ UNCHANGED <<id, last>>

Next == \/ Require
        \/ Stay
        \/ GoUp
        \/ \E n \in 1..Len(rest) : Enter(n)
        \/ Arrive
        \/ Fail

Spec == Init /\ [][Next]_vars
=============================================================================
