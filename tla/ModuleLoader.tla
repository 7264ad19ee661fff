---------------------------- MODULE ModuleLoader ----------------------------
(***************************************************************************)
(* CommonJS modules in one Duktape context: register_module and require of *)
(* the Erlang API, require() in JavaScript, the modSearch callback of the  *)
(* NIF, the modLoaded cache of duk_module_duktape.c, and how they meet the *)
(* replays of an eval whose modules call Erlang functions.                 *)
(*                                                                         *)
(* JavaScript runs under the lock, one statement per step; the stack holds *)
(* the eval's code (or the require of nif_require) and above it the bodies *)
(* of the modules being loaded.  A statement names a module by the id it   *)
(* resolves to.  While an eval waits for an Erlang function other          *)
(* processes may register and require modules; they start no eval (see     *)
(* Trampoline for what happens if they do).                                *)
(***************************************************************************)
EXTENDS Integers, Sequences

CONSTANTS
    Ids,            \* module ids
    NoId,           \* of code that is no module
    Inherited,      \* ids that are names of properties of Object.prototype
    Sources,        \* the module bodies that may be registered
    Unparsable,     \* a source that does not compile
    NoSource,       \* of an id nobody registered
    EvalPrograms,   \* the code given to eval
    MaxRegisters,   \* bound: calls of register_module
    MaxRequires,    \* bound: calls of require/2
    MaxEvals        \* bound: calls of eval

(* A statement requires a module, calls an Erlang function or throws;      *)
(* catch: it stands in a try/catch.                                        *)
Statement == [op : {"require", "call", "throw"}, id : Ids \cup {NoId},
              catch : BOOLEAN]

ASSUME LoaderAssumption ==
    /\ NoId \notin Ids
    /\ Inherited \subseteq Ids
    /\ Sources \subseteq Seq(Statement)
    /\ EvalPrograms \subseteq Seq(Statement)
    /\ NoSource \notin Sources \cup {Unparsable}
    /\ Unparsable \notin Sources
    /\ \A prog \in Sources \cup EvalPrograms : \A at \in DOMAIN prog :
         prog[at].op = "require" => prog[at].id \in Ids
    /\ MaxRegisters \in Nat /\ MaxRequires \in Nat /\ MaxEvals \in Nat

VARIABLES
    stash,          \* the sources registered, by id
    modLoaded,      \* Duktape.modLoaded: id -> module object
    made,           \* module objects made so far: they are numbered from 1
    loaded,         \* history: the module objects whose body has run
    nif,            \* the NIF that holds the lock, or "none"
    timed,          \* res->timeout_enabled
    stack,          \* the JavaScript call stack
    thrown,         \* the error that unwinds it
    resumeCode,     \* res->resume_code, <<>> if there is none
    callState,      \* where eval_loop is: "none", "called" or "stored"
    callIndex, results, pendingCall, pendingIndex, pendingSite,
    answers,        \* history: <<call, answer>> of the eval's calls
    registers, requires, evals  \* calls of the API so far

callVars == <<resumeCode, callState, callIndex, results, pendingCall,
              pendingIndex, pendingSite, answers>>
apiVars  == <<registers, requires, evals>>
loadVars == <<stash, modLoaded, made, loaded>>
runVars  == <<nif, timed, stack, thrown>>
vars     == <<loadVars, runVars, callVars, apiVars>>

-----------------------------------------------------------------------------
Frame(mod, obj, prog) == [mod |-> mod, obj |-> obj, prog |-> prog, at |-> 1]
Top       == stack[Len(stack)]
Below(s)  == SubSeq(s, 1, Len(s) - 1)
Advance(s) == [s EXCEPT ![Len(s)].at = @ + 1]

Require(id) == [op |-> "require", id |-> id, catch |-> FALSE]

(* A call of the eval's n-th request, in the code of a module, at a line.  *)
Site(mod, at) == <<evals, mod, at>>

Empty == [i \in {} |-> 0]

NotRegistered(m, id, obj) == m

(* Duktape.modLoaded[id] = module                                          *)
Registered(m, id, obj) == [k \in DOMAIN m \cup {id} |->
                              IF k = id THEN obj ELSE m[k]]

DeletedNot(m, id) == m
DeletedAll(m, id) == Empty
DeletedUndefined(m, id) == [m EXCEPT ![id] = 0]

(* delete Duktape.modLoaded[id]                                            *)
Deleted(m, id) == [k \in DOMAIN m \ {id} |-> m[k]]

Init ==
    /\ stash = [id \in Ids |-> NoSource]
    /\ modLoaded = Empty
    /\ made = 0
    /\ loaded = {}
    /\ nif = "none"
    /\ timed = FALSE
    /\ stack = <<>>
    /\ thrown = "none"
    /\ resumeCode = <<>>
    /\ callState = "none"
    /\ callIndex = 0
    /\ results = Empty
    /\ pendingCall = FALSE
    /\ pendingIndex = 0
    /\ pendingSite = <<0, NoId, 0>>
    /\ answers = {}
    /\ registers = 0 /\ requires = 0 /\ evals = 0

-----------------------------------------------------------------------------
(* The API.  Each NIF holds the lock from here to its return.              *)

(* The source replaces an earlier one; a module in the cache stays there.  *)
RegisterModule ==
    /\ nif = "none"
    /\ registers < MaxRegisters
    /\ registers' = registers + 1
    /\ \E id \in Ids, source \in Sources \cup {Unparsable} :
         stash' = [stash EXCEPT ![id] = source]
    /\ UNCHANGED <<modLoaded, made, loaded, runVars, callVars, requires, evals>>

Run(n, prog) ==
    /\ nif' = n
    /\ stack' = <<Frame(NoId, 0, prog)>>
    /\ thrown' = "none"

NifRequire ==
    /\ nif = "none"
    /\ requires < MaxRequires
    /\ requires' = requires + 1
    /\ \E id \in Ids : Run("require", <<Require(id)>>)
    /\ UNCHANGED <<loadVars, timed, callVars, registers, evals>>

NifEval ==
    /\ nif = "none"
    /\ callState = "none"
    /\ evals < MaxEvals
    /\ evals' = evals + 1
    /\ \E prog \in EvalPrograms, t \in BOOLEAN : Run("eval", prog) /\ timed' = t
    /\ callIndex' = 0
    /\ results' = Empty
    /\ answers' = {}
    /\ UNCHANGED <<loadVars, resumeCode, callState, pendingCall, pendingIndex,
                   pendingSite, registers, requires>>

(* nif_call_complete stores the function's value.                          *)
NifCallComplete ==
    /\ nif = "none"
    /\ callState = "called"
    /\ callState' = "stored"
    /\ results' = Registered(results, pendingIndex, pendingSite)
    /\ UNCHANGED <<loadVars, runVars, resumeCode, callIndex, pendingCall,
                   pendingIndex, pendingSite, answers, apiVars>>

(* nif_eval_resume evaluates the code again from its start.                *)
NifEvalResume ==
    /\ nif = "none"
    /\ callState = "stored"
    /\ callState' = "none"
    /\ callIndex' = 0
    /\ Run("resume", resumeCode)
    /\ UNCHANGED <<loadVars, timed, resumeCode, results, pendingCall,
                   pendingIndex, pendingSite, answers, apiVars>>

-----------------------------------------------------------------------------
(* JavaScript *)

Running == stack # <<>> /\ thrown = "none"
AtEnd   == Top.at > Len(Top.prog)
At(op)  == Running /\ ~AtEnd /\ Top.prog[Top.at].op = op

(* An error reaches the statement under execution in the top frame of s.   *)
(* The interrupt fires again in every catch.                               *)
ThrowIn(s, kind) ==
    LET f == s[Len(s)] IN
    IF f.prog[f.at].catch /\ kind # "timeout"
    THEN stack' = Advance(s) /\ thrown' = "none"
    ELSE stack' = s /\ thrown' = kind

JsThrow ==
    /\ At("throw")
    /\ ThrowIn(stack, "error")
    /\ UNCHANGED <<loadVars, nif, timed, callVars, apiVars>>

(* The module is in the cache: loaded, or being loaded below.              *)
RequireCached ==
    /\ At("require")
    /\ Top.prog[Top.at].id \in DOMAIN modLoaded
    /\ stack' = Advance(stack)
    /\ UNCHANGED <<loadVars, nif, timed, thrown, callVars, apiVars>>

Fresh(id) == At("require") /\ Top.prog[Top.at].id = id /\ id \notin DOMAIN modLoaded

(* modSearch returns the source: the module object is in the cache before  *)
(* its body runs.                                                          *)
RequireLoads ==
    /\ \E id \in Ids :
         /\ Fresh(id)
         /\ stash[id] \in Sources
         /\ modLoaded' = Registered(modLoaded, id, made + 1)
         /\ stack' = Append(stack, Frame(id, made + 1, stash[id]))
    /\ made' = made + 1
    /\ UNCHANGED <<stash, loaded, nif, timed, thrown, callVars, apiVars>>

(* modSearch throws or the source does not compile: the entry made for it  *)
(* is deleted before any other JavaScript runs.                            *)
RequireFails ==
    /\ \E id \in Ids :
         /\ Fresh(id)
         /\ \/ stash[id] = Unparsable
            \/ stash[id] = NoSource /\ id \notin Inherited
         /\ modLoaded' = Deleted(Registered(modLoaded, id, made + 1), id)
    /\ ThrowIn(stack, "error")
    /\ UNCHANGED <<stash, made, loaded, nif, timed, callVars, apiVars>>

(* The stash is a plain object: modSearch finds a property it inherits.    *)
(* That is no string, so the module counts as loaded by modSearch itself.  *)
RequireInherited ==
    /\ \E id \in Inherited :
         /\ Fresh(id)
         /\ stash[id] = NoSource
         /\ modLoaded' = Registered(modLoaded, id, made + 1)
    /\ made' = made + 1
    /\ loaded' = loaded \cup {made + 1}
    /\ stack' = Advance(stack)
    /\ UNCHANGED <<stash, nif, timed, thrown, callVars, apiVars>>

(* The body has run: require returns module.exports to the code below.     *)
ModuleReturns ==
    /\ Running
    /\ AtEnd
    /\ Len(stack) > 1
    /\ loaded' = loaded \cup {Top.obj}
    /\ stack' = Advance(Below(stack))
    /\ UNCHANGED <<stash, modLoaded, made, nif, timed, thrown, callVars, apiVars>>

(* The body has thrown: require forgets the module and throws again.       *)
ModuleThrows ==
    /\ thrown # "none"
    /\ Len(stack) > 1
    /\ modLoaded' = Deleted(modLoaded, Top.mod)
    /\ ThrowIn(Below(stack), thrown)
    /\ UNCHANGED <<stash, made, loaded, nif, timed, callVars, apiVars>>

(* erlang_function_trampoline: see Trampoline.                             *)
CallCached ==
    /\ At("call")
    /\ callIndex \in DOMAIN results
    /\ callIndex' = callIndex + 1
    /\ answers' = answers \cup {<<Site(Top.mod, Top.at), results[callIndex]>>}
    /\ stack' = Advance(stack)
    /\ UNCHANGED <<loadVars, nif, timed, thrown, resumeCode, callState, results,
                   pendingCall, pendingIndex, pendingSite, apiVars>>

CallPending ==
    /\ At("call")
    /\ callIndex \notin DOMAIN results
    /\ callIndex' = callIndex + 1
    /\ pendingCall' = TRUE
    /\ pendingIndex' = callIndex
    /\ pendingSite' = Site(Top.mod, Top.at)
    /\ ThrowIn(stack, "error")
    /\ UNCHANGED <<loadVars, nif, timed, resumeCode, callState, results, answers,
                   apiVars>>

Timeout ==
    /\ Running
    /\ timed
    /\ ~AtEnd
    /\ thrown' = "timeout"
    /\ UNCHANGED <<loadVars, nif, timed, stack, callVars, apiVars>>

-----------------------------------------------------------------------------
(* The NIF returns *)

Return == /\ Len(stack) = 1
          /\ stack' = <<>>
          /\ nif' = "none"
          /\ thrown' = "none"
          /\ timed' = FALSE

CallTaken == /\ thrown \notin {"none", "timeout"}
             /\ pendingCall
             /\ nif # "require"

(* ok, {error, timeout} or {error, {js_error, _}}; nif_require takes the   *)
(* sentinel for an error and leaves the call pending.                      *)
ReturnResult ==
    /\ ~CallTaken
    /\ Return
    /\ thrown # "none" \/ AtEnd
    /\ resumeCode' = IF nif = "resume" THEN <<>> ELSE resumeCode
    /\ UNCHANGED <<loadVars, callState, callIndex, results, pendingCall,
                   pendingIndex, pendingSite, answers, apiVars>>

ReturnCallErlang ==
    /\ CallTaken
    /\ Return
    /\ pendingCall' = FALSE
    /\ callState' = "called"
    /\ resumeCode' = Top.prog
    /\ UNCHANGED <<loadVars, callIndex, results, pendingIndex, pendingSite,
                   answers, apiVars>>

Js == \/ JsThrow
      \/ RequireCached
      \/ RequireLoads
      \/ RequireFails
      \/ RequireInherited
      \/ ModuleReturns
      \/ ModuleThrows
      \/ CallCached
      \/ CallPending
      \/ Timeout

Api == \/ RegisterModule
       \/ NifRequire
       \/ NifEval
       \/ NifCallComplete
       \/ NifEvalResume

(* Nothing is under way, and the bounds are reached.                       *)
Finished == /\ nif = "none" /\ callState = "none"
            /\ registers = MaxRegisters
            /\ requires = MaxRequires
            /\ evals = MaxEvals
            /\ UNCHANGED vars

Next == Api \/ Js \/ ReturnResult \/ ReturnCallErlang \/ Finished

Spec == Init /\ [][Next]_vars
-----------------------------------------------------------------------------
FrameSet == [mod : Ids \cup {NoId}, obj : Nat, prog : Seq(Statement),
             at : Nat \ {0}]
SiteSet  == Nat \X (Ids \cup {NoId}) \X Nat

LoadType ==
    /\ stash \in [Ids -> Sources \cup {Unparsable, NoSource}]
    /\ DOMAIN modLoaded \subseteq Ids
    /\ \A id \in DOMAIN modLoaded : modLoaded[id] \in 1..made
    /\ made \in Nat
    /\ loaded \subseteq 1..made

RunType ==
    /\ nif \in {"none", "eval", "resume", "require"}
    /\ timed \in BOOLEAN
    /\ stack \in Seq(FrameSet)
    /\ thrown \in {"none", "error", "timeout"}

CallType ==
    /\ resumeCode \in Seq(Statement)
    /\ callState \in {"none", "called", "stored"}
    /\ callIndex \in Nat /\ pendingIndex \in Nat
    /\ DOMAIN results \subseteq Nat
    /\ \A i \in DOMAIN results : results[i] \in SiteSet
    /\ pendingCall \in BOOLEAN
    /\ pendingSite \in SiteSet
    /\ answers \subseteq SiteSet \X SiteSet

ApiType == registers \in Nat /\ requires \in Nat /\ evals \in Nat

(* The cache holds module objects only: after a failure an entry is gone,  *)
(* never left undefined, which require would return as a module.           *)
TypeOK == LoadType /\ RunType /\ CallType /\ ApiType

(* A module that is in the cache without having been loaded to its end is  *)
(* being loaded at this moment, further down the stack: circular requires  *)
(* may see half its exports, but no later eval or require ever does,       *)
(* whichever statement, timeout or Erlang call ended the load.             *)
LoadingIsOnStack ==
    \A id \in DOMAIN modLoaded :
        \/ modLoaded[id] \in loaded
        \/ \E i \in DOMAIN stack : /\ stack[i].mod = id
                                   /\ stack[i].obj = modLoaded[id]

(* No module is loaded while it is being loaded: circular requires end.    *)
LoadsNest ==
    \A i, j \in DOMAIN stack :
        stack[i].mod = stack[j].mod /\ stack[i].mod # NoId => i = j

(* README.md: modules are cached, subsequent requires return the same      *)
(* exports object.  Once a module has been loaded, no failure of another   *)
(* module, timeout, replay or registration takes it out of the cache.      *)
SameExports ==
    [][\A id \in DOMAIN modLoaded :
         modLoaded[id] \in loaded =>
            /\ id \in DOMAIN modLoaded'
            /\ modLoaded'[id] = modLoaded[id]]_vars

(* What the documentation says and the code does not do.                   *)

(* guides/erlang-functions.md: Erlang functions are called synchronously   *)
(* from JavaScript.  What a call returns is the answer to that call.       *)
OwnAnswers == \A a \in answers : a[1] = a[2]
=============================================================================
