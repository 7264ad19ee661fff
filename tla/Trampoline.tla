----------------------------- MODULE Trampoline -----------------------------
(***************************************************************************)
(* One Duktape context shared by several Erlang processes, and the         *)
(* trampoline by which JavaScript calls registered Erlang functions.       *)
(*                                                                         *)
(* duktape:eval and duktape:call run JavaScript inside a NIF that holds    *)
(* res->lock.  When the JavaScript calls a registered Erlang function,     *)
(* erlang_function_trampoline records the call in the context and throws   *)
(* the "__ERLANG_CALL__" sentinel; the NIF unlocks and returns             *)
(* {call_erlang, F, Args}; eval_loop runs F, stores its result with        *)
(* nif_call_complete and calls nif_eval_resume, which evaluates the same   *)
(* code again from its start: calls made so far find their results cached  *)
(* under their call index.  Between those three NIFs the lock is free.     *)
(*                                                                         *)
(* Every NIF is two steps or more: the unlocked test of get_context, then  *)
(* the critical section, in which each JavaScript statement is one step.   *)
(***************************************************************************)
EXTENDS Integers, Sequences, FiniteSets

CONSTANTS
    Procs,          \* Erlang processes that hold a reference to the context
    NoProc,         \* the owner of a free lock
    EvalPrograms,   \* JavaScript run by eval and call
    BindPrograms,   \* JavaScript run by eval with bindings
    SendPrograms,   \* JavaScript callbacks run by send
    Apis,           \* the API functions the processes use
    Outcomes,       \* what a registered Erlang function may do
    Timeouts,       \* TRUE: requests with a timeout; FALSE: with infinity
    MaxRequests,    \* bound: requests each process makes
    HistoryBound,   \* bound: calls remembered in the history of a request
    SerialUse       \* TRUE: eval and call are never started while another
                    \* process is between its own eval or call and the reply

(* A statement of a JavaScript program: a call of a registered Erlang      *)
(* function, the use of a variable that eval/3,4 binds, a throw or an      *)
(* endless loop; catch: it stands in a try/catch.                          *)
Statement == [op : {"call", "read", "throw", "spin"}, catch : BOOLEAN]

AllApis     == {"eval", "bind", "call", "send", "destroy"}
AllOutcomes == {"value", "undefined", "error"}

ASSUME TrampolineAssumption ==
    /\ NoProc \notin Procs
    /\ EvalPrograms \subseteq Seq(Statement)
    /\ BindPrograms \subseteq Seq(Statement)
    /\ SendPrograms \subseteq Seq(Statement)
    /\ Apis \subseteq AllApis
    /\ Outcomes \subseteq AllOutcomes
    /\ Timeouts \subseteq BOOLEAN
    /\ MaxRequests \in Nat
    /\ HistoryBound \in Nat
    /\ SerialUse \in BOOLEAN

VARIABLES
    (* duktape_ctx_t and the JavaScript heap behind it *)
    destroyed,      \* res->destroyed, and res->ctx is NULL
    lock,           \* the process inside a critical section of res->lock
    callIndex,      \* res->call_index
    results,        \* __erlang_results__: call index -> cached result
    pendingCall,    \* res->pending_call
    pendingIndex,   \* res->pending_index
    pendingArgs,    \* res->pending_func and res->pending_args
    pendingEnv,     \* the term alive in res->pending_env
    hasCallResult,  \* res->has_call_result
    callResult,     \* res->call_result
    resumeCode,     \* res->resume_code
    callFunc,       \* the globals __call_func__ and __call_args__
    binding,        \* the request whose bindings the globals hold
    timeoutEnabled, \* res->timeout_enabled
    js,             \* the JavaScript activation of the lock's owner
    (* the Erlang processes *)
    pc, nif,        \* where each is, and in which NIF
    req,            \* the request each is making
    call,           \* the {call_erlang, F, Args} each is serving
    reply,          \* what its last eval, call or send returned
    served,         \* requests it has made
    dispatched      \* history: calls served for its current request

ctxVars   == <<callIndex, results, pendingCall, pendingIndex, pendingArgs,
               pendingEnv, hasCallResult, callResult, resumeCode, callFunc,
               binding>>
heapVars  == <<destroyed, lock, timeoutEnabled, js>>
procVars  == <<pc, nif, req, call, reply, served, dispatched>>
vars      == <<ctxVars, heapVars, procVars>>

-----------------------------------------------------------------------------
(* Requests, call sites and results *)

NoRequest == [owner |-> NoProc, serial |-> 0, api |-> "none", prog |-> <<>>,
              timed |-> FALSE]

Request == [owner : Procs, serial : Nat, api : {"eval", "bind", "call", "send"},
            prog : EvalPrograms \cup BindPrograms \cup SendPrograms,
            timed : BOOLEAN]
             \cup {NoRequest}

(* The JavaScript passes its own position as argument, so that a call and  *)
(* its result name the request and the statement they belong to.           *)
Site(r, at) == <<r.owner, r.serial, at>>
NoSite      == Site(NoRequest, 0)
SiteSet     == (Procs \cup {NoProc}) \X Nat \X Nat

Result == [kind : {"value", "error"}, site : SiteSet]
Call   == [kind : AllOutcomes \cup {"none"}, site : SiteSet]

(* What a statement got: a value, or the kind of error its catch caught.   *)
Got == [kind : {"value", "error", "sentinel", "throw"}, site : SiteSet,
        at : Nat]

Code   == [kind : {"none", "eval", "apply"}, req : Request]
NoCode == [kind |-> "none", req |-> NoRequest]

Activation == [req : Request, at : Nat \ {0}, got : Seq(Got),
               thrown : {"none", "error", "sentinel", "throw", "timeout"}]
Frame(r)   == [req |-> r, at |-> 1, got |-> <<>>, thrown |-> "none"]
NoFrame    == Frame(NoRequest)

Reply   == [status : {"none", "ok", "js_error", "timeout", "badarg",
                      "invalid_context", "no_resume_code", "badmatch",
                      "killed"},
            got : Seq(Got)]
NoReply == [status |-> "none", got |-> <<>>]

PcSet  == {"idle", "wait", "js", "dispatch", "answered", "completed", "dead"}
NifSet == {"none", "eval", "bind", "call", "send", "destroy", "complete",
           "resume"}

(* duk_put_prop_index; reading an index that holds undefined is the same   *)
(* as reading one that was never stored.                                   *)
Store(f, i, v)  == [k \in DOMAIN f \cup {i} |-> IF k = i THEN v ELSE f[k]]
Remove(f, i)    == [k \in DOMAIN f \ {i} |-> f[k]]
EmptyResults    == [k \in {} |-> [kind |-> "value", site |-> NoSite]]

(* p is between the start of an eval or a call and its reply.              *)
MidRequest(p) == /\ pc[p] \notin {"idle", "dead"}
                 /\ nif[p] \notin {"send", "destroy"}

-----------------------------------------------------------------------------
Init ==
    /\ destroyed = FALSE
    /\ lock = NoProc
    /\ callIndex = 0
    /\ results = EmptyResults
    /\ pendingCall = FALSE
    /\ pendingIndex = 0
    /\ pendingArgs = NoSite
    /\ pendingEnv = "none"
    /\ hasCallResult = FALSE
    /\ callResult = NoSite
    /\ resumeCode = NoCode
    /\ callFunc = NoRequest
    /\ binding = NoRequest
    /\ timeoutEnabled = FALSE
    /\ js = NoFrame
    /\ pc = [p \in Procs |-> "idle"]
    /\ nif = [p \in Procs |-> "none"]
    /\ req = [p \in Procs |-> NoRequest]
    /\ call = [p \in Procs |-> [kind |-> "none", site |-> NoSite]]
    /\ reply = [p \in Procs |-> NoReply]
    /\ served = [p \in Procs |-> 0]
    /\ dispatched = [p \in Procs |-> <<>>]

-----------------------------------------------------------------------------
(* Entering and leaving the API *)

(* The process goes back to its caller with the status and the values.     *)
Answer(p, status, got) ==
    /\ pc' = [pc EXCEPT ![p] = "idle"]
    /\ reply' = [reply EXCEPT ![p] = [status |-> status, got |-> got]]

Die(p, reason) ==
    /\ pc' = [pc EXCEPT ![p] = "dead"]
    /\ reply' = [reply EXCEPT ![p] = [status |-> reason, got |-> <<>>]]

(* The unlocked test of get_context, before the NIF waits for the lock.    *)
GetContext(p) ==
    IF destroyed
    THEN Answer(p, "invalid_context", <<>>)
    ELSE /\ pc' = [pc EXCEPT ![p] = "wait"]
         /\ reply' = [reply EXCEPT ![p] = NoReply]

(* send has no timeout.                                                    *)
ProgramsOf(api) == CASE api = "send" -> SendPrograms
                     [] api = "bind" -> BindPrograms
                     [] OTHER        -> EvalPrograms
TimeoutsOf(api) == IF api = "send" THEN {FALSE} ELSE Timeouts

StartRequest(p) ==
    /\ pc[p] = "idle"
    /\ served[p] < MaxRequests
    /\ \E api \in Apis \ {"destroy"} :
         /\ SerialUse /\ api # "send" => \A q \in Procs : ~MidRequest(q)
         /\ nif' = [nif EXCEPT ![p] = api]
         /\ \E timed \in TimeoutsOf(api), prog \in ProgramsOf(api) :
              req' = [req EXCEPT ![p] =
                        [owner |-> p, serial |-> served[p] + 1, api |-> api,
                         prog |-> prog, timed |-> timed]]
    /\ GetContext(p)
    /\ served' = [served EXCEPT ![p] = @ + 1]
    /\ dispatched' = [dispatched EXCEPT ![p] = <<>>]
    /\ UNCHANGED <<ctxVars, heapVars, call>>

(* nif_destroy_context takes the lock without the test of get_context.     *)
StartDestroy(p) ==
    /\ pc[p] = "idle"
    /\ served[p] < MaxRequests
    /\ "destroy" \in Apis
    /\ pc' = [pc EXCEPT ![p] = "wait"]
    /\ nif' = [nif EXCEPT ![p] = "destroy"]
    /\ served' = [served EXCEPT ![p] = @ + 1]
    /\ UNCHANGED <<ctxVars, heapVars, req, call, reply, dispatched>>

-----------------------------------------------------------------------------
(* Critical sections, from enif_mutex_lock to the JavaScript they run *)

EnterUnchecked(p, n) ==
    /\ pc[p] = "wait"
    /\ nif[p] = n
    /\ lock = NoProc

(* The mutex is free, and the test repeated under it passes.               *)
Enter(p, n) ==
    /\ pc[p] = "wait"
    /\ nif[p] = n
    /\ lock = NoProc
    /\ ~destroyed

(* ... or fails: the context was destroyed since the unlocked test.        *)
EnterRefused(p) ==
    /\ pc[p] = "wait"
    /\ nif[p] \in {"eval", "bind", "call", "send", "resume"}
    /\ lock = NoProc
    /\ destroyed
    /\ Answer(p, "invalid_context", <<>>)
    /\ UNCHANGED <<ctxVars, heapVars, nif, req, call, served, dispatched>>

RunJs(p, r) ==
    /\ lock' = p
    /\ js' = Frame(r)
    /\ pc' = [pc EXCEPT ![p] = "js"]

(* call_index = 0 and "__erlang_results__ = {};" for a fresh evaluation.   *)
ResetCalls == /\ callIndex' = 0
              /\ results' = EmptyResults

EnterEval(p) ==
    /\ Enter(p, "eval")
    /\ timeoutEnabled' = req[p].timed
    /\ ResetCalls
    /\ RunJs(p, req[p])
    /\ UNCHANGED <<destroyed, pendingCall, pendingIndex, pendingArgs,
                   pendingEnv, hasCallResult, callResult, resumeCode, callFunc,
                   binding, nif, req, call, reply, served, dispatched>>

EnterBindings(p) ==
    /\ Enter(p, "bind")
    /\ binding' = req[p]
    /\ timeoutEnabled' = req[p].timed
    /\ ResetCalls
    /\ RunJs(p, req[p])
    /\ UNCHANGED <<destroyed, pendingCall, pendingIndex, pendingArgs,
                   pendingEnv, hasCallResult, callResult, resumeCode, callFunc,
                   nif, req, call, reply, served, dispatched>>

(* A key or a value does not convert: the bindings before it were set.     *)
BindBadArg(p) ==
    /\ Enter(p, "bind")
    /\ \E r \in {binding, req[p]} : binding' = r
    /\ Answer(p, "badarg", <<>>)
    /\ UNCHANGED <<heapVars, callIndex, results, pendingCall, pendingIndex,
                   pendingArgs, pendingEnv, hasCallResult, callResult, resumeCode,
                   callFunc, nif, req, call, served, dispatched>>

EnterCall(p) ==
    /\ Enter(p, "call")
    /\ timeoutEnabled' = req[p].timed
    /\ ResetCalls
    /\ callFunc' = req[p]
    /\ RunJs(p, req[p])
    /\ UNCHANGED <<destroyed, pendingCall, pendingIndex, pendingArgs,
                   pendingEnv, hasCallResult, callResult, resumeCode, binding,
                   nif, req, call, reply, served, dispatched>>

(* The name is no global function: nothing was changed yet.                *)
CallNotFunction(p) ==
    /\ Enter(p, "call")
    /\ Answer(p, "js_error", <<>>)
    /\ UNCHANGED <<ctxVars, heapVars, nif, req, call, served, dispatched>>

(* An argument does not convert: the index, the results and __call_func__  *)
(* have already been overwritten (__call_args__ has not: not told apart).  *)
CallBadArg(p) ==
    /\ Enter(p, "call")
    /\ ResetCalls
    /\ callFunc' = req[p]
    /\ Answer(p, "badarg", <<>>)
    /\ UNCHANGED <<heapVars, pendingCall, pendingIndex, pendingArgs,
                   pendingEnv, hasCallResult, callResult, resumeCode, binding,
                   nif, req, call, served, dispatched>>

EnterSend(p) ==
    /\ Enter(p, "send")
    /\ RunJs(p, req[p])
    /\ UNCHANGED <<ctxVars, destroyed, timeoutEnabled,
                   nif, req, call, reply, served, dispatched>>

(* No callback is registered for the event (ok), or the data does not      *)
(* convert: no JavaScript runs.                                            *)
SendNothing(p) ==
    /\ Enter(p, "send")
    /\ \E status \in {"ok", "badarg"} : Answer(p, status, <<>>)
    /\ UNCHANGED <<ctxVars, heapVars, nif, req, call, served, dispatched>>

EnterDestroy(p) ==
    /\ pc[p] = "wait"
    /\ nif[p] = "destroy"
    /\ lock = NoProc
    /\ destroyed' = TRUE
    /\ pc' = [pc EXCEPT ![p] = "idle"]
    /\ UNCHANGED <<ctxVars, lock, timeoutEnabled, js,
                   nif, req, call, reply, served, dispatched>>

-----------------------------------------------------------------------------
(* JavaScript, under the lock *)

JsRunning(p) == /\ pc[p] = "js"
                /\ js.thrown = "none"

JsAt(p, op) == /\ JsRunning(p)
               /\ js.at <= Len(js.req.prog)
               /\ js.req.prog[js.at].op = op

JsFinished(p) == /\ JsRunning(p)
                 /\ js.at > Len(js.req.prog)

Here == Site(js.req, js.at)

Continue(kind, site) ==
    js' = [js EXCEPT !.at = @ + 1,
                     !.got = Append(@, [kind |-> kind, site |-> site,
                                        at |-> js.at])]

(* A JavaScript error unwinds to the statement's try/catch if it has one.  *)
Throw(kind, site) ==
    IF js.req.prog[js.at].catch
    THEN Continue(kind, site)
    ELSE js' = [js EXCEPT !.thrown = kind]

JsUnchanged == UNCHANGED <<destroyed, lock, timeoutEnabled, procVars>>

(* The trampoline finds a result under its call index.                     *)
JsCallCached(p) ==
    /\ JsAt(p, "call")
    /\ callIndex \in DOMAIN results
    /\ callIndex' = callIndex + 1
    /\ LET r == results[callIndex] IN
         IF r.kind = "error" THEN Throw("error", r.site)
                             ELSE Continue("value", r.site)
    /\ UNCHANGED <<results, pendingCall, pendingIndex, pendingArgs,
                   pendingEnv, hasCallResult, callResult, resumeCode, callFunc,
                   binding>>
    /\ JsUnchanged

RecordCallOffByOne == /\ pendingCall' = TRUE
                      /\ pendingIndex' = callIndex - 1
                      /\ pendingArgs' = Here
                      /\ pendingEnv' = "args"

RecordCall == /\ pendingCall' = TRUE
              /\ pendingIndex' = callIndex
              /\ pendingArgs' = Here
              /\ pendingEnv' = "args"

(* It finds none: it records the call and throws the sentinel.             *)
JsCallPending(p) ==
    /\ JsAt(p, "call")
    /\ callIndex \notin DOMAIN results
    /\ callIndex' = callIndex + 1
    /\ RecordCall
    /\ Throw("sentinel", Here)
    /\ UNCHANGED <<results, hasCallResult, callResult, resumeCode, callFunc,
                   binding>>
    /\ JsUnchanged

(* A variable that bindings set, by this request or by an earlier one.     *)
JsRead(p) ==
    /\ JsAt(p, "read")
    /\ IF binding = NoRequest THEN Throw("throw", Here)
       ELSE Continue("value", Site(binding, js.at))
    /\ UNCHANGED ctxVars
    /\ JsUnchanged

JsThrow(p) ==
    /\ JsAt(p, "throw")
    /\ Throw("throw", Here)
    /\ UNCHANGED ctxVars
    /\ JsUnchanged

JsSpin(p) ==
    /\ JsAt(p, "spin")
    /\ UNCHANGED vars

(* The interpreter's interrupt finds the time over: it throws a RangeError *)
(* again and again, past every catch.                                      *)
JsTimeout(p) ==
    /\ JsRunning(p)
    /\ timeoutEnabled
    /\ js.at <= Len(js.req.prog)
    /\ js' = [js EXCEPT !.thrown = "timeout"]
    /\ UNCHANGED ctxVars
    /\ JsUnchanged

-----------------------------------------------------------------------------
(* From the end of the JavaScript to enif_mutex_unlock and the return *)

LeaveLocked == UNCHANGED <<lock, js, destroyed>>

Leave == /\ lock' = NoProc
         /\ js' = NoFrame
         /\ UNCHANGED destroyed

TimeoutKept == UNCHANGED timeoutEnabled

StopTimeout == timeoutEnabled' = FALSE

CallStaysPending == UNCHANGED pendingCall

CallTaken == pendingCall' = FALSE

(* Reading a term kept in pending_env: itself while it is alive there;     *)
(* itself or garbage (NoSite) once the environment was cleared for another *)
(* term.                                                                   *)
TermRead(term, owner) == IF pendingEnv = owner THEN {term} ELSE {term, NoSite}

(* {call_erlang, F, Args} goes back to eval_loop.                          *)
ReturnCall(p) ==
    /\ CallTaken
    /\ pc' = [pc EXCEPT ![p] = "dispatch"]
    /\ \E site \in TermRead(pendingArgs, "args") :
         call' = [call EXCEPT ![p] = [kind |-> "none", site |-> site]]
    /\ UNCHANGED <<callIndex, results, pendingIndex, pendingArgs,
                   pendingEnv, hasCallResult, callResult, callFunc, binding,
                   nif, req, reply, served, dispatched>>

InEval(p) == pc[p] = "js" /\ nif[p] \in {"eval", "bind", "call"}

EvalOk(p) ==
    /\ InEval(p)
    /\ JsFinished(p)
    /\ StopTimeout
    /\ Leave
    /\ Answer(p, "ok", js.got)
    /\ UNCHANGED <<ctxVars, nif, req, call, served, dispatched>>

EvalTimeout(p) ==
    /\ InEval(p)
    /\ js.thrown = "timeout"
    /\ StopTimeout
    /\ Leave
    /\ Answer(p, "timeout", <<>>)
    /\ UNCHANGED <<ctxVars, nif, req, call, served, dispatched>>

(* Any other error counts as a call while pending_call is set.             *)
EvalCallErlang(p) ==
    /\ InEval(p)
    /\ js.thrown \notin {"none", "timeout"}
    /\ pendingCall
    /\ StopTimeout
    /\ resumeCode' = IF nif[p] = "call" THEN [kind |-> "apply", req |-> NoRequest]
                     ELSE [kind |-> "eval", req |-> req[p]]
    /\ Leave
    /\ ReturnCall(p)

EvalError(p) ==
    /\ InEval(p)
    /\ js.thrown \notin {"none", "timeout"}
    /\ ~pendingCall
    /\ StopTimeout
    /\ Leave
    /\ Answer(p, "js_error", <<>>)
    /\ UNCHANGED <<ctxVars, nif, req, call, served, dispatched>>

(* nif_send does not look at pending_call: the sentinel is a JS error.     *)
SendReturn(p) ==
    /\ pc[p] = "js"
    /\ nif[p] = "send"
    /\ JsFinished(p) \/ js.thrown # "none"
    /\ Leave
    /\ IF js.thrown = "none" THEN Answer(p, "ok", js.got)
                             ELSE Answer(p, "js_error", <<>>)
    /\ UNCHANGED <<ctxVars, timeoutEnabled, nif, req, call, served, dispatched>>

-----------------------------------------------------------------------------
(* eval_loop: run the function, store its result, resume *)

(* dispatch_erlang_call: the function returns, raises or is not found.     *)
Dispatch(p) ==
    /\ pc[p] = "dispatch"
    /\ \E o \in Outcomes : call' = [call EXCEPT ![p].kind = o]
    /\ dispatched' = [dispatched EXCEPT ![p] =
                         IF Len(@) < HistoryBound THEN Append(@, call'[p]) ELSE @]
    /\ pc' = [pc EXCEPT ![p] = "answered"]
    /\ UNCHANGED <<ctxVars, heapVars, nif, req, reply, served>>

(* The process dies of the badmatch in "ok = nif_call_complete(...)".      *)
Badmatch(p) == Die(p, "badmatch")

StartComplete(p) ==
    /\ pc[p] = "answered"
    /\ nif' = [nif EXCEPT ![p] = "complete"]
    /\ IF destroyed THEN Badmatch(p)
       ELSE pc' = [pc EXCEPT ![p] = "wait"] /\ UNCHANGED reply
    /\ UNCHANGED <<ctxVars, heapVars, req, call, served, dispatched>>

CompleteRefused(p) ==
    /\ pc[p] = "wait"
    /\ nif[p] = "complete"
    /\ lock = NoProc
    /\ destroyed
    /\ Badmatch(p)
    /\ UNCHANGED <<ctxVars, heapVars, nif, req, call, served, dispatched>>

StoreAtCallIndex(p) ==
    IF call[p].kind = "undefined" THEN Remove(results, callIndex)
    ELSE Store(results, callIndex, [kind |-> "value", site |-> call[p].site])

StoreOnlyThis(p) ==
    [k \in {pendingIndex} |-> [kind |-> "value", site |-> call[p].site]]

(* __erlang_results__[pending_index] = the value the function returned.    *)
StoredResult(p) ==
    IF call[p].kind = "undefined" THEN Remove(results, pendingIndex)
    ELSE Store(results, pendingIndex, [kind |-> "value", site |-> call[p].site])

(* {error, Reason} waits in call_result for the resume; anything else is   *)
(* stored at the pending index at once.                                    *)
EnterComplete(p) ==
    /\ Enter(p, "complete")
    /\ pc' = [pc EXCEPT ![p] = "completed"]
    /\ IF call[p].kind = "error"
       THEN /\ hasCallResult' = TRUE
            /\ callResult' = call[p].site
            /\ pendingEnv' = "result"
            /\ UNCHANGED results
       ELSE /\ hasCallResult' = FALSE
            /\ results' = StoredResult(p)
            /\ UNCHANGED <<callResult, pendingEnv>>
    /\ UNCHANGED <<callIndex, pendingCall, pendingIndex, pendingArgs,
                   resumeCode, callFunc, binding, heapVars,
                   nif, req, call, reply, served, dispatched>>

StartResume(p) ==
    /\ pc[p] = "completed"
    /\ nif' = [nif EXCEPT ![p] = "resume"]
    /\ GetContext(p)
    /\ UNCHANGED <<ctxVars, heapVars, req, call, served, dispatched>>

ResumeNoCode(p) ==
    /\ Enter(p, "resume")
    /\ resumeCode = NoCode
    /\ Answer(p, "no_resume_code", <<>>)
    /\ UNCHANGED <<ctxVars, heapVars, nif, req, call, served, dispatched>>

ResumeIndexKept == UNCHANGED callIndex

(* "Reset call index for re-evaluation."                                   *)
ResumeIndex == callIndex' = 0

(* The timeout is not started: it was stopped when nif_eval returned.      *)
EnterResume(p) ==
    /\ Enter(p, "resume")
    /\ resumeCode # NoCode
    /\ \/ /\ hasCallResult
          /\ hasCallResult' = FALSE
          /\ \E site \in TermRead(callResult, "result") :
               results' = Store(results, pendingIndex,
                                [kind |-> "error", site |-> site])
       \/ /\ hasCallResult => pendingEnv # "result"
          /\ UNCHANGED <<hasCallResult, results>>
    /\ ResumeIndex
    /\ RunJs(p, IF resumeCode.kind = "apply" THEN callFunc ELSE resumeCode.req)
    /\ UNCHANGED <<pendingCall, pendingIndex, pendingArgs, pendingEnv, callResult,
                   resumeCode, callFunc, binding, destroyed, timeoutEnabled,
                   nif, req, call, reply, served, dispatched>>

InResume(p) == pc[p] = "js" /\ nif[p] = "resume"

ResumeCallErlang(p) ==
    /\ InResume(p)
    /\ js.thrown # "none"
    /\ pendingCall
    /\ Leave
    /\ ReturnCall(p)
    /\ UNCHANGED <<resumeCode, timeoutEnabled>>

(* Success or a JavaScript error: the code is freed.                       *)
ResumeDone(p) ==
    /\ InResume(p)
    /\ JsFinished(p) \/ (js.thrown # "none" /\ ~pendingCall)
    /\ resumeCode' = NoCode
    /\ Leave
    /\ IF js.thrown = "none" THEN Answer(p, "ok", js.got)
                             ELSE Answer(p, "js_error", <<>>)
    /\ UNCHANGED <<callIndex, results, pendingCall, pendingIndex, pendingArgs,
                   pendingEnv, hasCallResult, callResult, callFunc, binding,
                   timeoutEnabled, nif, req, call, served, dispatched>>

(* An exit signal takes a process while it runs Erlang code.  A NIF runs   *)
(* to its end first.                                                       *)
Kill(p) ==
    /\ pc[p] \in {"dispatch", "answered", "completed"}
    /\ Die(p, "killed")
    /\ UNCHANGED <<ctxVars, heapVars, nif, req, call, served, dispatched>>

-----------------------------------------------------------------------------
(* What p does without being told to: everything but taking up a request,  *)
(* being killed, and running out of time.                                  *)
JsStep(p) == \/ JsCallCached(p)
             \/ JsCallPending(p)
             \/ JsRead(p)
             \/ JsThrow(p)
             \/ JsSpin(p)

NifEntry(p) == \/ EnterRefused(p)
               \/ EnterEval(p)
               \/ EnterBindings(p)
               \/ BindBadArg(p)
               \/ EnterCall(p)
               \/ CallNotFunction(p)
               \/ CallBadArg(p)
               \/ EnterSend(p)
               \/ SendNothing(p)
               \/ EnterDestroy(p)
               \/ CompleteRefused(p)
               \/ EnterComplete(p)
               \/ ResumeNoCode(p)
               \/ EnterResume(p)

NifReturn(p) == \/ EvalOk(p)
                \/ EvalTimeout(p)
                \/ EvalCallErlang(p)
                \/ EvalError(p)
                \/ SendReturn(p)
                \/ ResumeCallErlang(p)
                \/ ResumeDone(p)

Step(p) == \/ JsStep(p)
           \/ NifEntry(p)
           \/ NifReturn(p)
           \/ Dispatch(p)
           \/ StartComplete(p)
           \/ StartResume(p)

(* Every process has made its requests or died: nothing is left to do.     *)
Finished ==
    /\ \A p \in Procs : \/ pc[p] = "dead"
                        \/ pc[p] = "idle" /\ served[p] = MaxRequests
    /\ UNCHANGED vars

Next == \/ \E p \in Procs : \/ StartRequest(p)
                            \/ StartDestroy(p)
                            \/ Step(p)
                            \/ JsTimeout(p)
                            \/ Kill(p)
        \/ Finished

Spec == Init /\ [][Next]_vars

(* The scheduler runs every process that can run, the mutex is handed to   *)
(* one that waits, and the interrupt of an endless loop comes.             *)
Fairness == \A p \in Procs : /\ WF_vars(Step(p))
                             /\ WF_vars(JsTimeout(p) /\ js.req.prog[js.at].op = "spin")

FairSpec == Spec /\ Fairness
-----------------------------------------------------------------------------
(* Properties *)

CtxType ==
    /\ callIndex \in Nat
    /\ DOMAIN results \subseteq Nat
    /\ \A i \in DOMAIN results : results[i] \in Result
    /\ pendingCall \in BOOLEAN
    /\ pendingIndex \in Nat
    /\ pendingArgs \in SiteSet
    /\ pendingEnv \in {"none", "args", "result"}
    /\ hasCallResult \in BOOLEAN
    /\ callResult \in SiteSet
    /\ resumeCode \in Code
    /\ callFunc \in Request
    /\ binding \in Request

HeapType ==
    /\ destroyed \in BOOLEAN
    /\ lock \in Procs \cup {NoProc}
    /\ timeoutEnabled \in BOOLEAN
    /\ js \in Activation

ProcType ==
    /\ pc \in [Procs -> PcSet]
    /\ nif \in [Procs -> NifSet]
    /\ req \in [Procs -> Request]
    /\ call \in [Procs -> Call]
    /\ reply \in [Procs -> Reply]
    /\ served \in [Procs -> Nat]
    /\ dispatched \in [Procs -> Seq(Call)]

(* Every field of duktape_ctx_t and every process stays within its type;   *)
(* in particular pending_index is a call index and never negative.         *)
TypeOK == CtxType /\ HeapType /\ ProcType

(* No two processes are in the heap at once, and none is in it once it has *)
(* been destroyed, although get_context tests "destroyed" without the lock *)
(* and destroy_context does not wait for a request to end.                 *)
HeapIsExclusive ==
    \A p \in Procs : /\ pc[p] = "js" <=> lock = p
                     /\ pc[p] = "js" => ~destroyed

(* A deadline is armed only inside the eval or call that asked for it: it  *)
(* never interrupts another process's JavaScript, a send or a resume.      *)
TimerIsOwned ==
    timeoutEnabled => \E p \in Procs : /\ lock = p
                                       /\ nif[p] \in {"eval", "bind", "call"}
                                       /\ req[p].timed

(* Each value that reaches a statement of the JavaScript of a successful   *)
(* eval or call is the answer to the call made by that statement of that   *)
(* request, or that request's binding: never another call's, another       *)
(* request's or another process's, in the first pass and in every replay.  *)
OwnAnswers ==
    \A p \in Procs :
        pc[p] = "idle" /\ reply[p].status = "ok" /\ req[p].api # "send" =>
            \A i \in DOMAIN reply[p].got :
                reply[p].got[i].site = Site(req[p], reply[p].got[i].at)

(* The Erlang function a process is asked to run was called by the request *)
(* it is serving, not by an earlier one or by another process's.           *)
OwnCalls ==
    \A p \in Procs :
        pc[p] = "dispatch" => \E at \in DOMAIN req[p].prog :
                                /\ req[p].prog[at].op = "call"
                                /\ call[p].site = Site(req[p], at)

(* A pending call is returned, and a stored error is thrown, only while    *)
(* its term is alive: pending_env is shared by both and cleared for each.  *)
PendingTermsLive ==
    \A p \in Procs :
        /\ pc[p] = "wait" /\ nif[p] = "resume" /\ ~destroyed /\ hasCallResult
              => pendingEnv = "result"
        /\ pc[p] = "js" /\ nif[p] # "send" /\ pendingCall
              /\ js.thrown \notin {"none", "timeout"}
              => pendingEnv = "args"

(* The statements of prog before position at that call Erlang functions.   *)
CallsBefore(prog, at) == {i \in 1..(at - 1) : i <= Len(prog) /\ prog[i].op = "call"}

(* In every pass over a program, first or resumed and whoever runs it, the *)
(* n-th call made has index n: the cached results meet the calls they were *)
(* made for.                                                               *)
IndexFollowsCode ==
    \A p \in Procs :
        pc[p] = "js" /\ nif[p] # "send" /\ js.thrown = "none" =>
            callIndex = Cardinality(CallsBefore(js.req.prog, js.at))

(* p's JavaScript is unwound at a call, waiting for its result.            *)
Suspended(p) == \/ pc[p] \in {"dispatch", "answered", "completed"}
                \/ pc[p] = "wait" /\ nif[p] \in {"complete", "resume"}

(* While a request is suspended nothing it needs to go on is lost: the     *)
(* results cached so far, the index its result belongs to, and its code.   *)
SuspensionKept ==
    [][\A p \in Procs : Suspended(p) /\ Suspended(p)' =>
          /\ pendingIndex' = pendingIndex
          /\ resumeCode' = resumeCode
          /\ \A i \in DOMAIN results : /\ i \in DOMAIN results'
                                       /\ results'[i] = results[i]]_vars

(* Every request is answered, or its process has died.                     *)
EveryRequestAnswered ==
    \A p \in Procs : pc[p] # "idle" ~> pc[p] \in {"idle", "dead"}

(* A process is running, for its caller, from the request to the reply;    *)
(* destroy_context is one abstract step, taken inside its critical section.*)
Phase == [p \in Procs |-> IF pc[p] \in {"idle", "dead"} THEN pc[p]
                          ELSE IF nif[p] = "destroy" THEN "idle" ELSE "running"]

Sync == INSTANCE SyncEval WITH phase <- Phase, done <- dispatched

(* Seen by its caller, an eval or a call that no other process's eval or   *)
(* call overlaps runs its JavaScript once and calls each Erlang function   *)
(* once: the trampoline and its replays do not show.                       *)
ImplementsSyncEval == Sync!Spec

(* What the documentation says and the code does not do.                   *)

(* README.md: JavaScript can catch the error of an Erlang function.  What  *)
(* try/catch gets is an error of the function, never the sentinel.         *)
CatchesErlangErrors ==
    \A p \in Procs : \A i \in DOMAIN reply[p].got :
        reply[p].got[i].kind # "sentinel"

(* CHANGELOG.md: eval and call return {error, timeout} when the execution  *)
(* exceeds the limit.  JavaScript running for a request with a timeout is  *)
(* watched by the interrupt.                                               *)
TimedJsIsWatched ==
    \A p \in Procs :
        pc[p] = "js" /\ nif[p] # "send" /\ req[p].timed => timeoutEnabled

(* The type of eval_loop: {ok, js_value()} or {error, term()}.             *)
NeverBadmatch == \A p \in Procs : reply[p].status # "badmatch"
=============================================================================
