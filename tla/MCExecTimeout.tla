---------------------------- MODULE MCExecTimeout ----------------------------
(***************************************************************************)
(* Instances of ExecTimeout for TLC.                                       *)
(***************************************************************************)
EXTENDS ExecTimeout

AllApis == {"eval", "bindings", "call", "send", "require", "resume", "decode"}
EvalOnly == {"eval"}

Never == 99                     \* stands for UINT64_MAX
SomeTimeouts == {0, 1, Never}
OneTimeout == {1}

PlainOrGetter == {"plain", "getter"}
PlainOnly == {"plain"}

AllThrows == {"error", "sentinel", "imitation"}
OnlyErrors == {"error"}
=============================================================================
