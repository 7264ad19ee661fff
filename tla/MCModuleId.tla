----------------------------- MODULE MCModuleId -----------------------------
(***************************************************************************)
(* All short ids for ModuleId.                                             *)
(***************************************************************************)
EXTENDS ModuleId

CONSTANT MaxLength  \* bound: bytes of a requested id

ShortIds == UNION {[1..n -> Char] : n \in 0..MaxLength}

-----------------------------------------------------------------------------
(* Every resolution ends, the backtracking included.                       *)
Ends == Running ~> at \in {"done", "error"}
=============================================================================
