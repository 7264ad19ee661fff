------------------------------ MODULE SyncEval ------------------------------
(***************************************************************************)
(* What duktape:eval and duktape:call promise a process that calls them    *)
(* while no other process is inside an eval or a call: the JavaScript      *)
(* runs once, from its first statement to its last, and every call of a    *)
(* registered Erlang function is made once, in program order, and returns  *)
(* its result to the statement that made it.  There is no trampoline here, *)
(* no cache of results, no replay and no lock.                             *)
(***************************************************************************)
EXTENDS Integers, Sequences

CONSTANTS Procs, Outcomes

VARIABLES
    phase,      \* "idle", "running" or "dead", for each process
    req,        \* the request each process is making, or has made
    done,       \* the Erlang calls it has made, each with its outcome
    reply,      \* what its last request returned
    destroyed   \* the context has been destroyed

vars == <<phase, req, done, reply, destroyed>>

LastCall(p) == done[p][Len(done[p])]

(* The next statement that calls, throws or loops.                         *)
NextAt(p) ==
    LET prog == req[p].prog
        from == IF done[p] = <<>> THEN 1 ELSE LastCall(p).site[3] + 1
        rest == {i \in from..Len(prog) : prog[i].op # "read"}
    IN IF rest = {} THEN Len(prog) + 1
       ELSE CHOOSE i \in rest : \A j \in rest : i <= j

NextIs(p, op) == NextAt(p) <= Len(req[p].prog) /\ req[p].prog[NextAt(p)].op = op

(* The last Erlang function called raised an error.                        *)
Raised(p) == done[p] # <<>> /\ LastCall(p).kind = "error"

(* The values of a program that ran to its end: each of its statements was *)
(* a call or a bound variable, and gave its own.                           *)
Values(p) == [i \in DOMAIN req[p].prog |->
                [kind |-> "value", site |-> <<p, req[p].serial, i>>, at |-> i]]

Init ==
    /\ phase = [p \in Procs |-> "idle"]
    /\ done = [p \in Procs |-> <<>>]
    /\ destroyed = FALSE
    /\ \A p \in Procs : reply[p].status = "none" /\ req[p].serial = 0

NewRequest(p) ==
    /\ phase[p] = "idle"
    /\ req'[p].owner = p
    /\ req'[p].serial > req[p].serial
    /\ \A q \in Procs \ {p} : req'[q] = req[q]
    /\ done' = [done EXCEPT ![p] = <<>>]
    /\ UNCHANGED destroyed

Begin(p) ==
    /\ NewRequest(p)
    /\ ~destroyed
    /\ phase' = [phase EXCEPT ![p] = "running"]
    /\ reply' = [reply EXCEPT ![p] = [status |-> "none", got |-> <<>>]]

Refuse(p) ==
    /\ NewRequest(p)
    /\ destroyed
    /\ reply' = [reply EXCEPT ![p] = [status |-> "invalid_context", got |-> <<>>]]
    /\ UNCHANGED phase

CallErlang(p) ==
    /\ phase[p] = "running"
    /\ ~Raised(p)
    /\ NextIs(p, "call")
    /\ \E o \in Outcomes :
         done' = [done EXCEPT ![p] =
                    Append(@, [kind |-> o,
                               site |-> <<p, req[p].serial, NextAt(p)>>])]
    /\ UNCHANGED <<phase, req, reply, destroyed>>

Return(p, status, got) ==
    /\ phase[p] = "running"
    /\ phase' = [phase EXCEPT ![p] = "idle"]
    /\ reply' = [reply EXCEPT ![p] = [status |-> status, got |-> got]]
    /\ UNCHANGED <<req, done, destroyed>>

ReturnOk(p) ==
    /\ req[p].api # "send"
    /\ ~destroyed
    /\ ~Raised(p)
    /\ NextAt(p) = Len(req[p].prog) + 1
    /\ Return(p, "ok", Values(p))

ReturnJsError(p) ==
    /\ req[p].api # "send"
    /\ Raised(p) \/ NextIs(p, "throw") \/ (req[p].api = "call" /\ done[p] = <<>>)
    /\ Return(p, "js_error", <<>>)

ReturnBadArg(p) ==
    /\ req[p].api \in {"call", "bind"}
    /\ done[p] = <<>>
    /\ Return(p, "badarg", <<>>)

(* What a callback does with the event is its own affair.                  *)
ReturnSent(p) ==
    /\ req[p].api = "send"
    /\ \E status \in {"ok", "js_error", "badarg"} :
         Return(p, status, reply'[p].got)

ReturnTimeout(p) ==
    /\ req[p].timed
    /\ Return(p, "timeout", <<>>)

ReturnInvalid(p) ==
    /\ destroyed
    /\ Return(p, "invalid_context", <<>>)

(* A request may end with its process: killed, or after destroy_context.   *)
Die(p) ==
    /\ phase[p] = "running"
    /\ phase' = [phase EXCEPT ![p] = "dead"]
    /\ \E s \in {"killed"} \cup (IF destroyed THEN {"badmatch"} ELSE {}) :
         reply' = [reply EXCEPT ![p] = [status |-> s, got |-> <<>>]]
    /\ UNCHANGED <<req, done, destroyed>>

Destroy == /\ destroyed' = TRUE
           /\ UNCHANGED <<phase, req, done, reply>>

Next == \/ \E p \in Procs : \/ Begin(p)
                            \/ Refuse(p)
                            \/ CallErlang(p)
                            \/ ReturnOk(p)
                            \/ ReturnJsError(p)
                            \/ ReturnBadArg(p)
                            \/ ReturnSent(p)
                            \/ ReturnTimeout(p)
                            \/ ReturnInvalid(p)
                            \/ Die(p)
        \/ Destroy

Spec == Init /\ [][Next]_vars
=============================================================================
