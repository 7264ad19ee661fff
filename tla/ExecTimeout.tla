----------------------------- MODULE ExecTimeout -----------------------------
(***************************************************************************)
(* One NIF call after another on one context, each a critical section of   *)
(* res->lock: what it pushes on the engine's value stack and pops, when    *)
(* the deadline is armed, and what the JavaScript of the section can do    *)
(* about it.                                                               *)
(*                                                                         *)
(* The engine counts instructions down; at zero it asks                    *)
(* duktape_check_timeout, which compares the clock with the deadline, and  *)
(* throws from then on at every instruction.  The count starts at zero     *)
(* whenever a NIF calls the engine, so that the first instruction is       *)
(* preceded by a check.  JavaScript is any sequence of instructions: it    *)
(* enters and leaves try statements, throws, returns.                      *)
(*                                                                         *)
(* Which calls of Erlang functions an eval makes is Trampoline; here a call*)
(* is the sentinel that is thrown.                                         *)
(***************************************************************************)
EXTENDS Naturals

CONSTANTS
    Apis,           \* eval, bindings, call, send, require, resume, decode
    Timeouts,       \* the timeout_ms of a caller, 0 for infinity
    Unlimited,      \* UINT64_MAX, a timeout_ms that is none
    Returns,        \* what a run returns: "plain", or "getter", an object
                    \* with a property that is computed when it is read
    Throws,         \* what a run throws: "error", "sentinel" for a call of an
                    \* Erlang function, "imitation" for an error of its own
                    \* that says "execution timeout"
    InterruptEvery, \* DUK_HTHREAD_INTCTR_DEFAULT, instructions
    TicksPerMs,     \* steps of the clock in a millisecond
    MaxAge,         \* bound: the clock, beyond every deadline
    MaxTries,       \* bound: try statements inside each other
    MaxArgs         \* bound: arguments and bindings

ASSUME TimeoutAssumption ==
    /\ Apis \subseteq {"eval", "bindings", "call", "send", "require", "resume", "decode"}
    /\ Timeouts \subseteq Nat
    /\ Returns \subseteq {"plain", "getter"}
    /\ Throws \subseteq {"error", "sentinel", "imitation"}
    /\ InterruptEvery \in Nat \ {0} /\ TicksPerMs \in Nat \ {0}
    /\ \A ms \in Timeouts \ {Unlimited} : (ms + 1) * TicksPerMs <= MaxAge
    /\ MaxAge \in Nat /\ MaxTries \in Nat /\ MaxArgs \in Nat

VARIABLES
    at,         \* where the holder of the lock is; "free": nobody holds it
    api,        \* the NIF of the section
    asked,      \* the timeout_ms of its caller
    enabled,    \* res->timeout_enabled
    limit,      \* res->timeout_ms
    age,        \* the clock less res->exec_start_ns, in ticks
    counter,    \* thr->interrupt_counter
    tries,      \* the catchpoints of the run
    outcome,    \* what the run threw or returned, "none"
    pushed,     \* arguments pushed for the function
    top,        \* duk_get_top
    reply,      \* the reply of the last section, "none"
    own,        \* history: ticks since this section took the lock
    late,       \* history: instructions run after its deadline
    noticed,    \* history: the interrupt has thrown in this section
    imitated    \* history: its code threw the text "execution timeout"

deadline == <<enabled, limit>>
history  == <<own, late, noticed, imitated>>
vars == <<at, api, asked, deadline, age, counter, tries, outcome, pushed, top, reply, history>>

Timed == {"eval", "bindings", "call"}

Init ==
    /\ at = "free" /\ api = "none" /\ asked = 0
    /\ enabled = FALSE /\ limit = 0 /\ age = 0
    /\ counter = 0
    /\ tries = 0 /\ outcome = "none" /\ pushed = 0 /\ top = 0
    /\ reply = "none"
    /\ own = 0 /\ late = 0 /\ noticed = FALSE /\ imitated = FALSE

-----------------------------------------------------------------------------
(* The clock and the deadline *)

Passed(ticks) == IF ticks < MaxAge THEN ticks + 1 ELSE ticks

Tick ==
    /\ at # "aborted"
    /\ age' = Passed(age) /\ own' = Passed(own)
    /\ <<age, own>> # <<age', own'>>
    /\ UNCHANGED <<at, api, asked, deadline, counter, tries, outcome, pushed, top, reply,
                   late, noticed, imitated>>

(* Mutants: >= for >, and a limit that is none mistaken for one.           *)
ExpiredEarly == enabled /\ age \div TicksPerMs >= limit
ArmedWrong(ms) == ms = 0

(* Whole milliseconds are compared.                                        *)
Expired == enabled /\ age \div TicksPerMs > limit

Armed(ms) == ms > 0 /\ ms # Unlimited

StartTimeout ==
    /\ enabled' = Armed(asked)
    /\ IF Armed(asked) THEN limit' = asked /\ age' = 0 ELSE UNCHANGED <<limit, age>>

StopTimeout == enabled' = FALSE /\ UNCHANGED limit

-----------------------------------------------------------------------------
(* The counter *)

(* duk_heap_switch_thread, for the initial entry a call from a NIF is: the *)
(* counter is zero, the interrupt comes before the first instruction.      *)
CallEngine == counter' = 0

(* One instruction, or the interrupt in its place, which lets one more run *)
(* before it counts again.  Mutants: that one is not counted; the counter  *)
(* is set again where it should stay zero.                                 *)
AfterCheckOneMore == InterruptEvery
ThrowingOnce == InterruptEvery - 1

AfterCheck == InterruptEvery - 1
Throwing == 0

Interrupted == counter = 0 /\ Expired
Counted == counter' = IF counter = 0 THEN AfterCheck ELSE counter - 1

-----------------------------------------------------------------------------
(* A section begins, up to the run of its JavaScript. *)

Enter(a, ms) ==
    /\ at = "free"
    /\ api' = a
    /\ asked' = ms
    /\ outcome' = "none" /\ pushed' = 0
    /\ own' = 0 /\ late' = 0 /\ noticed' = FALSE /\ imitated' = FALSE
    /\ UNCHANGED <<tries, reply>>

(* The deadline is armed before __erlang_results__ is reset.               *)
EnterEval ==
    /\ "eval" \in Apis
    /\ \E ms \in Timeouts :
         /\ Enter("eval", ms)
         /\ enabled' = Armed(ms)
         /\ IF Armed(ms) THEN limit' = ms /\ age' = 0 ELSE UNCHANGED <<limit, age>>
    /\ at' = "reset"
    /\ CallEngine
    /\ UNCHANGED top

EnterBindings ==
    /\ "bindings" \in Apis
    /\ \E ms \in Timeouts : Enter("bindings", ms)
    /\ at' = "bind"
    /\ UNCHANGED <<deadline, age, counter, top>>

(* The function, or undefined.                                             *)
EnterCall ==
    /\ "call" \in Apis
    /\ \E ms \in Timeouts : Enter("call", ms)
    /\ at' = "find"
    /\ top' = top + 1
    /\ UNCHANGED <<deadline, age, counter>>

(* Erlang, _callbacks and what it has for the event.                       *)
EnterSend ==
    /\ "send" \in Apis
    /\ Enter("send", 0)
    /\ at' = "callback"
    /\ top' = top + 3
    /\ UNCHANGED <<deadline, age, counter>>

(* The global require and the module id.                                   *)
EnterRequire ==
    /\ "require" \in Apis
    /\ Enter("require", 0)
    /\ at' = "js"
    /\ CallEngine
    /\ top' = top + 2
    /\ UNCHANGED <<deadline, age>>

(* The reason of an error is stored under pending_index: it is pushed, or  *)
(* "unknown error" is; then __erlang_results__ and the text of the reason, *)
(* which duk_put_prop_index takes; duk_pop_2.  Then the code is pushed.    *)
EnterResume ==
    /\ "resume" \in Apis
    /\ Enter("resume", 0)
    /\ at' = "js"
    /\ CallEngine
    /\ top' = top + 1
    /\ UNCHANGED <<deadline, age>>

(* The buffer, decoded in a protected call that takes it.                  *)
EnterDecode ==
    /\ "decode" \in Apis
    /\ Enter("decode", 0)
    /\ at' = "decode"
    /\ CallEngine
    /\ top' = top + 1
    /\ UNCHANGED <<deadline, age>>

Same == UNCHANGED <<api, asked, tries, outcome, reply, history>>

(* enif_mutex_unlock after pops slots are popped.                          *)
LeaveWith(r, pops) ==
    /\ at' = "free"
    /\ reply' = r
    /\ top' = top - pops
    /\ UNCHANGED <<api, asked, age, counter, tries, outcome, pushed, history>>

BindOne ==
    /\ at = "bind" /\ pushed < MaxArgs
    /\ pushed' = pushed + 1
    /\ Same /\ UNCHANGED <<at, deadline, age, counter, top>>

BindFails == at = "bind" /\ LeaveWith("badarg", 0) /\ UNCHANGED deadline

Bound ==
    /\ at = "bind"
    /\ StartTimeout
    /\ at' = "reset"
    /\ pushed' = 0
    /\ CallEngine
    /\ Same /\ UNCHANGED top

NoFunction == at = "find" /\ LeaveWith("js_error", 1) /\ UNCHANGED deadline

Found ==
    /\ at = "find"
    /\ at' = "reset"
    /\ CallEngine
    /\ Same /\ UNCHANGED <<deadline, age, pushed, top>>

(* duk_eval_string_noresult is not a protected call: what is thrown there  *)
(* is a fatal error of the heap, and the VM with it.  The code is then a   *)
(* call of the engine of its own; nif_call goes on with __call_args__.     *)
Reset ==
    /\ at = "reset"
    /\ ~Interrupted
    /\ IF api = "call" THEN at' = "store" /\ Counted ELSE at' = "js" /\ CallEngine
    /\ top' = top + 1
    /\ Same /\ UNCHANGED <<deadline, age, pushed>>

ResetAborts ==
    /\ at = "reset"
    /\ Interrupted
    /\ at' = "aborted"
    /\ counter' = Throwing
    /\ Same /\ UNCHANGED <<deadline, age, pushed, top>>

(* An argument goes into the array, and later, for the function, on the    *)
(* stack; the one that does not convert is found the first time.           *)
StoreFails == at = "store" /\ LeaveWith("badarg", 2) /\ UNCHANGED deadline

Stored ==
    /\ at = "store"
    /\ at' = "push"
    /\ top' = top - 1
    /\ Same /\ UNCHANGED <<deadline, age, counter, pushed>>

PushArg ==
    /\ at = "push" /\ pushed < MaxArgs
    /\ pushed' = pushed + 1
    /\ top' = top + 1
    /\ Same /\ UNCHANGED <<at, deadline, age, counter>>

Pushed ==
    /\ at = "push"
    /\ StartTimeout
    /\ at' = "js"
    /\ CallEngine
    /\ Same /\ UNCHANGED <<pushed, top>>

(* No callback, and data that does not convert.                            *)
NoCallback == at = "callback" /\ LeaveWith("ok", 3) /\ UNCHANGED deadline
SendFails  == at = "callback" /\ LeaveWith("badarg", 3) /\ UNCHANGED deadline

Callback ==
    /\ at = "callback"
    /\ at' = "js"
    /\ top' = top + 1
    /\ pushed' = 1
    /\ CallEngine
    /\ Same /\ UNCHANGED <<deadline, age>>

-----------------------------------------------------------------------------
(* The run, in a protected call: its slots are taken and one is given back.*)

Taken == IF api \in {"eval", "bindings", "resume"} THEN 1
         ELSE IF api = "require" THEN 2 ELSE pushed + 1

Ran(where, what) ==
    /\ at' = where
    /\ outcome' = what
    /\ tries' = 0
    /\ top' = top - Taken + 1

Unwind(what) ==
    IF tries > 0
    THEN tries' = tries - 1 /\ UNCHANGED <<at, outcome, top>>
    ELSE Ran("threw", what)

Stay == UNCHANGED <<at, outcome, top>>

Instruction ==
    \/ Stay /\ UNCHANGED <<tries, imitated>>
    \/ tries < MaxTries /\ tries' = tries + 1 /\ Stay /\ UNCHANGED imitated
    \/ tries > 0 /\ tries' = tries - 1 /\ Stay /\ UNCHANGED imitated
    \/ \E what \in Throws : Unwind(what) /\ imitated' = (imitated \/ what = "imitation")
    \/ tries = 0 /\ \E what \in Returns : Ran("returned", what) /\ UNCHANGED imitated

Execute ==
    /\ at = "js"
    /\ ~Interrupted
    /\ Counted
    /\ Instruction
    /\ late' = IF Expired THEN late + 1 ELSE late
    /\ UNCHANGED <<api, asked, deadline, age, pushed, reply, own, noticed>>

(* duk__executor_interrupt: no instruction is executed.                    *)
Interrupt ==
    /\ at = "js"
    /\ Interrupted
    /\ counter' = Throwing
    /\ Unwind("timeout")
    /\ noticed' = TRUE
    /\ UNCHANGED <<api, asked, deadline, age, pushed, reply, own, late, imitated>>

-----------------------------------------------------------------------------
(* The end of a section: the deadline is stopped, the error is made a text *)
(* or the value a term, one slot or three are popped.                      *)

(* Mutant: send leaves what it looked up.                                  *)
PopsResult(a) == 1

Pops(a) == IF a = "send" THEN 3 ELSE 1

Stopped == IF api \in Timed THEN StopTimeout ELSE UNCHANGED deadline

RunThrew ==
    /\ at = "threw"
    /\ Stopped
    /\ at' = "message"
    /\ Same /\ UNCHANGED <<age, counter, pushed, top>>

RunReturned ==
    /\ at = "returned"
    /\ Stopped
    /\ at' = "convert"
    /\ Same /\ UNCHANGED <<age, counter, pushed, top>>

(* duk_safe_to_string may run a toString, duk_to_erlang a getter, each in  *)
(* a call of its own: with no deadline, and for as long as they please.    *)
RunUnwatched ==
    /\ at = "message" \/ (at = "convert" /\ outcome = "getter")
    /\ CallEngine \/ Counted
    /\ Same /\ UNCHANGED <<at, deadline, age, pushed, top>>

(* A toString of RangeError.prototype is the program's own.                *)
Texts == IF outcome \in {"timeout", "imitation"} THEN {"execution timeout", "other"}
                                                ELSE {"other"}

(* is_timeout_error looks for the text; then pending_call is tested.       *)
ReplyError ==
    /\ at = "message"
    /\ \E text \in Texts :
         LeaveWith(IF api \in Timed /\ text = "execution timeout" THEN "timeout"
                   ELSE IF api \in Timed \cup {"resume"} /\ outcome = "sentinel" THEN "call_erlang"
                   ELSE "js_error", Pops(api))
    /\ UNCHANGED deadline

ReplyOk == at = "convert" /\ LeaveWith("ok", Pops(api)) /\ UNCHANGED deadline

(* A getter throws outside a protected call.                               *)
GetterAborts ==
    /\ at = "convert" /\ outcome = "getter"
    /\ at' = "aborted"
    /\ Same /\ UNCHANGED <<deadline, age, counter, pushed, top>>

(* Decoding runs no JavaScript.                                            *)
Decoded ==
    /\ at = "decode"
    /\ at' \in {"message", "convert"}
    /\ Same /\ UNCHANGED <<deadline, age, counter, pushed, top>>

(* The VM is gone.                                                         *)
Gone == at = "aborted" /\ UNCHANGED vars

-----------------------------------------------------------------------------
Begin == \/ EnterEval
         \/ EnterBindings
         \/ EnterCall
         \/ EnterSend
         \/ EnterRequire
         \/ EnterResume
         \/ EnterDecode

Prepare == \/ BindOne
           \/ BindFails
           \/ Bound
           \/ NoFunction
           \/ Found
           \/ Reset
           \/ ResetAborts
           \/ StoreFails
           \/ Stored
           \/ PushArg
           \/ Pushed
           \/ NoCallback
           \/ SendFails
           \/ Callback

Run == Execute \/ Interrupt

End == \/ RunThrew
       \/ RunReturned
       \/ RunUnwatched
       \/ ReplyError
       \/ ReplyOk
       \/ GetterAborts
       \/ Decoded

Next == Tick \/ Begin \/ Prepare \/ Run \/ End \/ Gone

Spec == Init /\ [][Next]_vars

(* The clock goes on and so does the thread that runs.                     *)
FairSpec == Spec /\ WF_vars(Tick) /\ WF_vars(Run)
-----------------------------------------------------------------------------
(* Properties *)

(* Every field of the section stays within its type; in particular the     *)
(* NIFs never pop more than they pushed.                                   *)
TypeOK ==
    /\ at \in {"free", "bind", "find", "callback", "decode", "reset", "store", "push", "js",
               "threw", "returned", "message", "convert", "aborted"}
    /\ api \in Apis \cup {"none"} /\ asked \in Timeouts \cup {0}
    /\ enabled \in BOOLEAN /\ limit \in Timeouts \cup {0}
    /\ age \in 0..MaxAge /\ own \in 0..MaxAge
    /\ counter \in 0..(InterruptEvery - 1)
    /\ tries \in 0..MaxTries /\ pushed \in 0..(MaxArgs + 1) /\ top \in Nat
    /\ outcome \in Returns \cup {"none", "error", "sentinel", "imitation", "timeout"}
    /\ reply \in {"none", "ok", "badarg", "js_error", "timeout", "call_erlang"}

(* A NIF that returns, by whichever of its returns, leaves the value stack *)
(* as deep as it was and no deadline for the next one, which may be        *)
(* another process's.                                                      *)
LeavesNothing == at = "free" => top = 0 /\ ~enabled

(* {error, timeout} is the truth: unless the code threw that text itself,  *)
(* its caller asked for a deadline and more whole milliseconds than it     *)
(* said have passed since the lock was taken.                              *)
TimeoutIsTrue ==
    at = "free" /\ reply = "timeout" /\ ~imitated =>
        asked \notin {0, Unlimited} /\ own >= (asked + 1) * TicksPerMs

(* A deadline is final: the code runs fewer than InterruptEvery            *)
(* instructions past it, however it nests its try statements; once it was  *)
(* noticed no catch brings the program back, and the section does not      *)
(* return a value.                                                         *)
DeadlineIsFinal ==
    /\ late < InterruptEvery
    /\ noticed => at \notin {"returned", "convert"} /\ ~(at = "free" /\ reply = "ok")

(* Code that was given a deadline leaves the protected call.               *)
TimedRunEnds == (at = "js" /\ api \in Timed /\ asked \notin {0, Unlimited}) ~> (at # "js")

(* README: after a timeout, the context remains valid and can be reused.   *)
(* A deadline that passes never takes the VM of the context away, wherever *)
(* in the section it passes.                                               *)
ValidAfterTimeout == Expired => at # "aborted"
=============================================================================
