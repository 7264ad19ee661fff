------------------------------- MODULE Events -------------------------------
(***************************************************************************)
(* JavaScript that emits, logs, registers callbacks and calls Erlang       *)
(* functions, in the native functions that do it.  Converting the data of  *)
(* emit or the arguments of a function runs getters, and making the text   *)
(* of log runs toString: a native function is entered again while it is    *)
(* under way.  event_env and pending_env are one each for a context, and   *)
(* are cleared by the inner call under the outer one.                      *)
(*                                                                         *)
(* A statement is [op, on, runs]: an event, a level or a function, and the *)
(* statements its data runs when it is converted.  Those of "on" are the   *)
(* callback.  An eval that calls is run again from its start for every     *)
(* answer, and other processes send in between.                            *)
(***************************************************************************)
EXTENDS Naturals, Sequences, SequencesExt

CONSTANTS
    Statements,     \* of programs, and those that these run
    Programs,       \* what is evaluated
    Names,          \* of the callbacks
    Known           \* the levels of log that are atoms

ASSUME EventsAssumption ==
    /\ Programs \subseteq Seq(Statements)
    /\ \A s \in Statements :
         /\ s.op \in {"emit", "log", "on", "off", "call", "throw"}
         /\ s.op \in {"on", "off"} => s.on \in Names
         /\ s.runs \in Seq(Statements)

VARIABLES
    handler,        \* handler_enabled, with its event_env
    callbacks,      \* Erlang._callbacks
    nif,            \* the run that holds the lock: eval, resume, send, "none"
    code,           \* the evaluation under way or suspended, <<>> if none
    frames,         \* of the run: the program, and the native calls in it
    outcome,        \* how the run ended, "none" before
    callIndex, results,             \* of the evaluation
    pendingCall, pendingIndex,      \* res->pending_...
    pendingOf,      \* the function in pending_func
    pendingArgs,    \* pending_args: "none", alive, or cleared with its env
    eventTerms,     \* the terms of the message sent last are alive
    sent,           \* history: what this run has sent, in order
    called,         \* history: the calls the evaluation returned to Erlang
    before          \* history: callbacks as the evaluation began

call == <<callIndex, results, pendingCall, pendingIndex, pendingOf, pendingArgs>>
vars == <<handler, callbacks, nif, code, frames, outcome, call, eventTerms, sent, called, before>>

(* native is what the frame's statements are run for: "program", or the op *)
(* of the first statement of the frame below; alive: the terms that native *)
(* call has made in its env are.                                           *)
Frame(stmts, native) == [todo |-> stmts, native |-> native, alive |-> TRUE]

None == <<>>

Init ==
    /\ handler \in BOOLEAN
    /\ callbacks = [n \in Names |-> None]
    /\ nif = "none" /\ code = <<>> /\ frames = <<>> /\ outcome = "none"
    /\ callIndex = 0 /\ results = {}
    /\ pendingCall = FALSE /\ pendingIndex = 0 /\ pendingOf = "none" /\ pendingArgs = "none"
    /\ eventTerms = TRUE
    /\ sent = <<>> /\ called = <<>> /\ before = callbacks

-----------------------------------------------------------------------------
(* A run begins. *)

Begin(n, stmts) ==
    /\ nif = "none"
    /\ nif' = n
    /\ frames' = <<Frame(stmts, "program")>>
    /\ outcome' = "none"
    /\ sent' = <<>>

Eval(prog) ==
    /\ code = <<>>
    /\ Begin("eval", prog)
    /\ code' = prog
    /\ callIndex' = 0 /\ results' = {}
    /\ called' = <<>> /\ before' = callbacks
    /\ UNCHANGED <<handler, callbacks, pendingCall, pendingIndex, pendingOf, pendingArgs, eventTerms>>

(* The function has answered: call_complete stores the result and resume   *)
(* evaluates the code from its start.                                      *)
Resume ==
    /\ code # <<>>
    /\ Begin("resume", code)
    /\ callIndex' = 0
    /\ results' = results \cup {pendingIndex}
    /\ UNCHANGED <<handler, callbacks, code, pendingCall, pendingIndex, pendingOf, pendingArgs,
                   eventTerms, called, before>>

(* Any process, while an evaluation is suspended or not.                   *)
Send(n) ==
    /\ callbacks[n] # None
    /\ Begin("send", callbacks[n])
    /\ UNCHANGED <<handler, callbacks, code, call, eventTerms, called, before>>

SendNothing(n) ==
    /\ nif = "none"
    /\ callbacks[n] = None
    /\ UNCHANGED vars

-----------------------------------------------------------------------------
(* The statements *)

Running == nif # "none" /\ outcome = "none"
This == Last(frames)
Stmt == Head(This.todo)
At(op) == Running /\ This.todo # <<>> /\ Stmt.op = op

Over(fs) == [fs EXCEPT ![Len(fs)].todo = Tail(@)]

Same == UNCHANGED <<handler, nif, code, called, before>>

(* The calls under way that have made terms in an env lose them with it.   *)
Cleared(fs, natives) ==
    [i \in DOMAIN fs |-> IF fs[i].native \in natives THEN [fs[i] EXCEPT !.alive = FALSE] ELSE fs[i]]

Registered(n, stmts) == [callbacks EXCEPT ![n] = stmts]

On ==
    /\ At("on")
    /\ callbacks' = Registered(Stmt.on, Stmt.runs)
    /\ frames' = Over(frames)
    /\ Same /\ UNCHANGED <<outcome, call, eventTerms, sent>>

Off ==
    /\ At("off")
    /\ callbacks' = [callbacks EXCEPT ![Stmt.on] = None]
    /\ frames' = Over(frames)
    /\ Same /\ UNCHANGED <<outcome, call, eventTerms, sent>>

(* A throw ends the run, except in the text of a log: duk_safe_to_string   *)
(* makes the error the text.                                               *)
Catchers == {i \in DOMAIN frames : frames[i].native = "log"}

Throw(what) ==
    IF Catchers = {}
    THEN outcome' = what /\ frames' = <<>>
    ELSE LET at == CHOOSE i \in Catchers : \A j \in Catchers : j <= i IN
           /\ frames' = [SubSeq(frames, 1, at) EXCEPT ![at].todo = <<>>]
           /\ UNCHANGED outcome

ThrowError ==
    /\ At("throw")
    /\ Throw("error")
    /\ Same /\ UNCHANGED <<callbacks, call, eventTerms, sent>>

(* Without a handler emit and log return at once.                          *)
Ignore ==
    /\ At("emit") \/ At("log")
    /\ ~handler
    /\ frames' = Over(frames)
    /\ Same /\ UNCHANGED <<callbacks, outcome, call, eventTerms, sent>>

(* The type is made in event_env, then the data.                           *)
EnterEvent ==
    /\ At("emit") \/ At("log")
    /\ handler
    /\ frames' = Append(frames, Frame(Stmt.runs, Stmt.op))
    /\ Same /\ UNCHANGED <<callbacks, outcome, call, eventTerms, sent>>

Host == frames[Len(frames) - 1].todo[1]
Ended(natives) == Running /\ This.todo = <<>> /\ This.native \in natives

(* Whether the terms of the message are: emit's type is made before the    *)
(* data; log's type, and its level if it is known, are atoms.              *)
TermsAlive == This.alive \/ (This.native = "log" /\ Host.on \in Known)

(* Mutant: nothing is sent for a log.                                      *)
SentNoLog == IF This.native = "log" THEN sent ELSE Append(sent, <<Host.op, Host.on>>)

SentOne == Append(sent, <<Host.op, Host.on>>)

(* emit_event sends and clears event_env.                                  *)
EmitEvent ==
    /\ Ended({"emit", "log"})
    /\ sent' = SentOne
    /\ eventTerms' = TermsAlive
    /\ frames' = Over(Cleared(Front(frames), {"emit", "log"}))
    /\ Same /\ UNCHANGED <<callbacks, outcome, call>>

-----------------------------------------------------------------------------
(* The trampoline *)

(* A result under this index is returned, and the arguments are not looked *)
(* at.                                                                     *)
CallCached ==
    /\ At("call")
    /\ callIndex \in results
    /\ callIndex' = callIndex + 1
    /\ frames' = Over(frames)
    /\ Same /\ UNCHANGED <<callbacks, outcome, results, pendingCall, pendingIndex, pendingOf,
                           pendingArgs, eventTerms, sent>>

(* Mutant: the index is the one the arguments leave behind.                *)
IndexLater == callIndex + 1

IndexNow == callIndex

(* The call is recorded, pending_env cleared, the arguments converted.     *)
EnterCall ==
    /\ At("call")
    /\ callIndex \notin results
    /\ callIndex' = callIndex + 1
    /\ pendingCall' = TRUE /\ pendingIndex' = IndexNow /\ pendingOf' = Stmt.on
    /\ pendingArgs' = IF pendingArgs = "alive" THEN "cleared" ELSE pendingArgs
    /\ frames' = Append(Cleared(frames, {"call"}), Frame(Stmt.runs, "call"))
    /\ Same /\ UNCHANGED <<callbacks, outcome, results, eventTerms, sent>>

(* Mutant: pending_env is cleared when they have been converted.           *)
ClearedAfter == FALSE

ArgsAlive == This.alive

(* The list of them, and the sentinel.                                     *)
ThrowCall ==
    /\ Ended({"call"})
    /\ pendingArgs' = IF ArgsAlive THEN "alive" ELSE "cleared"
    /\ Throw("sentinel")
    /\ Same /\ UNCHANGED <<callbacks, callIndex, results, pendingCall, pendingIndex, pendingOf,
                           eventTerms, sent>>

Return ==
    /\ Ended({"program"})
    /\ outcome' = "ok"
    /\ frames' = <<>>
    /\ Same /\ UNCHANGED <<callbacks, call, eventTerms, sent>>

-----------------------------------------------------------------------------
(* A run ends. *)

Leave(c) ==
    /\ nif' = "none"
    /\ code' = c
    /\ UNCHANGED <<handler, callbacks, frames, outcome, eventTerms, sent, before>>

(* eval and resume take any error for the call that is pending.            *)
IsCall == pendingCall /\ outcome \in {"error", "sentinel"}

ReturnCall ==
    /\ nif \in {"eval", "resume"}
    /\ IsCall
    /\ Leave(code)
    /\ pendingCall' = FALSE
    /\ called' = Append(called, pendingOf)
    /\ UNCHANGED <<callIndex, results, pendingIndex, pendingOf, pendingArgs>>

ReturnResult ==
    /\ nif \in {"eval", "resume"}
    /\ outcome # "none"
    /\ ~IsCall
    /\ Leave(<<>>)
    /\ UNCHANGED <<call, called>>

ReturnSend ==
    /\ nif = "send"
    /\ outcome # "none"
    /\ Leave(code)
    /\ UNCHANGED <<call, called>>

-----------------------------------------------------------------------------
Run == \/ On
       \/ Off
       \/ ThrowError
       \/ Ignore
       \/ EnterEvent
       \/ EmitEvent
       \/ CallCached
       \/ EnterCall
       \/ ThrowCall
       \/ Return

Next == \/ \E prog \in Programs : Eval(prog)
        \/ Resume
        \/ \E n \in Names : Send(n) \/ SendNothing(n)
        \/ Run
        \/ ReturnCall
        \/ ReturnResult
        \/ ReturnSend

Spec == Init /\ [][Next]_vars

-----------------------------------------------------------------------------
Natives == {"program", "emit", "log", "call"}

(* The index recorded is one that was given out in this run.               *)
TypeOK ==
    /\ handler \in BOOLEAN /\ eventTerms \in BOOLEAN /\ pendingCall \in BOOLEAN
    /\ callbacks \in [Names -> Seq(Statements)]
    /\ nif \in {"none", "eval", "resume", "send"}
    /\ code \in Programs \cup {<<>>}
    /\ outcome \in {"none", "ok", "error", "sentinel"}
    /\ callIndex \in Nat /\ pendingIndex \in Nat /\ results \subseteq Nat
    /\ pendingArgs \in {"none", "alive", "cleared"}
    /\ frames \in Seq([todo : Seq(Statements), native : Natives, alive : BOOLEAN])
    /\ \A i \in DOMAIN frames : frames[i].native = "call" => pendingIndex < callIndex

Evaluating == nif \in {"eval", "resume"}

(* A message is sent, and a call returned, with terms that are alive, if   *)
(* programs are Tame: one environment is enough then.                      *)
TermsLive == eventTerms /\ (Evaluating /\ IsCall => pendingArgs = "alive")

(* The statements that are run while a message with terms is made send     *)
(* none (quiet); those run for the arguments of a call do not throw        *)
(* (smooth), or are in the text of a log and do not call (callFree).       *)
Tame(quiet, smooth, callFree) ==
    /\ \A s \in Statements :
         /\ s.op = "emit" \/ (s.op = "log" /\ s.on \notin Known) => s.runs \in Seq(quiet)
         /\ s.op = "call" => s.runs \in Seq(smooth)
    /\ \A s \in quiet : /\ s.op \notin {"emit", "log"}
                        /\ s.op = "call" => s.runs \in Seq(quiet)
    /\ \A s \in smooth : /\ s.op # "throw"
                         /\ s.op \in {"emit", "call"} => s.runs \in Seq(smooth)
                         /\ s.op = "log" => s.runs \in Seq(callFree)
    /\ \A s \in callFree : /\ s.op # "call"
                           /\ s.op \in {"emit", "log"} => s.runs \in Seq(callFree)
=============================================================================
