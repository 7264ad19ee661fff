-------------------------- MODULE TrampolineProofs --------------------------
(***************************************************************************)
(* Theorems about Trampoline, for every set of processes, programs and     *)
(* bounds: first what holds however the processes share the context, then  *)
(* what the trampoline guarantees to evaluations that do not overlap, and  *)
(* at the end that these implement SyncEval.  TrampolineShared and the Find*)
(* runs show what becomes of the latter otherwise.                         *)
(***************************************************************************)
EXTENDS Trampoline, FiniteSetTheorems, TLAPS

(* Between requests a process holds a well-typed request.                  *)
LEMMA NoRequestType == NoRequest \in Request
  BY DEF NoRequest, Request

(* The site of no call is a site.                                          *)
LEMMA NoSiteType == NoSite \in SiteSet
  BY DEF NoSite, Site, NoRequest, SiteSet

(* A statement of a request is a site.                                     *)
LEMMA SiteType ==
  ASSUME NEW r \in Request, NEW at \in Nat
  PROVE  Site(r, at) \in SiteSet
  BY DEF Site, Request, NoRequest, SiteSet

(* JavaScript that starts is a well-typed activation.                      *)
LEMMA FrameType ==
  ASSUME NEW r \in Request
  PROVE  Frame(r) \in Activation
  BY DEF Frame, Activation

(* A process that was not answered yet holds a well-typed reply.           *)
LEMMA NoReplyType == NoReply \in Reply
  BY DEF NoReply, Reply

(* The fields new_context sets are well typed.                             *)
LEMMA InitType == Init => TypeOK
<1> SUFFICES ASSUME Init PROVE TypeOK
  OBVIOUS
<1>1. CtxType
  BY Zenon, NoRequestType, NoSiteType DEF Init, CtxType, EmptyResults, NoCode, Code
<1>2. HeapType
  <2>1. js \in Activation
    BY NoRequestType, FrameType DEF Init, NoFrame
  <2> QED BY Zenon, <2>1 DEF Init, HeapType
<1>3. ProcType
  BY NoRequestType, NoSiteType, NoReplyType DEF Init, ProcType, Call, PcSet, NifSet
<1> QED BY <1>1, <1>2, <1>3 DEF TypeOK

(* A part of the state that a step leaves alone keeps its type.            *)
LEMMA KeptType ==
  /\ CtxType /\ UNCHANGED ctxVars => CtxType'
  /\ HeapType /\ UNCHANGED heapVars => HeapType'
  /\ ProcType /\ UNCHANGED procVars => ProcType'
  BY DEF CtxType, HeapType, ProcType, ctxVars, heapVars, procVars

(* A process that goes back to its caller keeps the types of pc and        *)
(* reply.                                                                  *)
LEMMA AnswerType ==
  ASSUME ProcType, NEW p \in Procs, NEW s, NEW got,
         [status |-> s, got |-> got] \in Reply,
         Answer(p, s, got)
  PROVE  pc' \in [Procs -> PcSet] /\ reply' \in [Procs -> Reply]
  BY DEF Answer, ProcType, PcSet

(* A process that dies keeps them too.                                     *)
LEMMA DieType ==
  ASSUME ProcType, NEW p \in Procs, NEW s,
         [status |-> s, got |-> <<>>] \in Reply,
         Die(p, s)
  PROVE  pc' \in [Procs -> PcSet] /\ reply' \in [Procs -> Reply]
  BY DEF Die, ProcType, PcSet

(* The unlocked test of get_context keeps them on both its branches.       *)
LEMMA GetContextType ==
  ASSUME ProcType, NEW p \in Procs, GetContext(p)
  PROVE  pc' \in [Procs -> PcSet] /\ reply' \in [Procs -> Reply]
<1>1. CASE destroyed
  <2>1. [status |-> "invalid_context", got |-> <<>>] \in Reply
    BY DEF Reply
  <2> QED BY <1>1, <2>1, AnswerType DEF GetContext
<1>2. CASE ~destroyed
  BY Zenon, <1>2, NoReplyType DEF GetContext, ProcType, PcSet
<1> QED BY <1>1, <1>2

(* {ok, Value} is a reply.                                                 *)
LEMMA OkType ==
  ASSUME NEW got \in Seq(Got)
  PROVE  [status |-> "ok", got |-> got] \in Reply
  BY DEF Reply

(* So is every error, without values.                                      *)
LEMMA FailureType ==
  ASSUME NEW s \in {"js_error", "timeout", "badarg", "invalid_context",
                    "no_resume_code", "badmatch", "killed"}
  PROVE  [status |-> s, got |-> <<>>] \in Reply
  BY DEF Reply

(* Taking up a request.                                                    *)
LEMMA StartType ==
  ASSUME TypeOK, NEW p \in Procs
  PROVE  StartRequest(p) \/ StartDestroy(p) => TypeOK'
<1> USE DEF TypeOK
<1>1. ASSUME StartRequest(p) PROVE TypeOK'
  <2>1. CtxType' /\ HeapType'
    BY <1>1, KeptType DEF StartRequest
  <2>2. pc' \in [Procs -> PcSet] /\ reply' \in [Procs -> Reply]
    BY <1>1, GetContextType DEF StartRequest
  <2>3. req' \in [Procs -> Request] /\ nif' \in [Procs -> NifSet]
    <3>1. PICK api \in Apis \ {"destroy"} :
             /\ nif' = [nif EXCEPT ![p] = api]
             /\ \E timed \in TimeoutsOf(api), prog \in ProgramsOf(api) :
                  req' = [req EXCEPT ![p] =
                            [owner |-> p, serial |-> served[p] + 1, api |-> api,
                             prog |-> prog, timed |-> timed]]
      BY Zenon, <1>1 DEF StartRequest
    <3>2. PICK timed \in TimeoutsOf(api), prog \in ProgramsOf(api) :
             req' = [req EXCEPT ![p] =
                       [owner |-> p, serial |-> served[p] + 1, api |-> api,
                        prog |-> prog, timed |-> timed]]
      BY Zenon, <3>1
    <3>3. /\ api \in {"eval", "bind", "call", "send"}
          /\ timed \in BOOLEAN
          /\ prog \in EvalPrograms \cup BindPrograms \cup SendPrograms
      BY Zenon, TrampolineAssumption DEF AllApis, TimeoutsOf, ProgramsOf
    <3>4. [owner |-> p, serial |-> served[p] + 1, api |-> api,
           prog |-> prog, timed |-> timed] \in Request
      BY <3>3 DEF ProcType, Request
    <3> QED BY <3>1, <3>2, <3>3, <3>4 DEF ProcType, NifSet
  <2>4. /\ call' \in [Procs -> Call]
        /\ served' \in [Procs -> Nat]
        /\ dispatched' \in [Procs -> Seq(Call)]
    BY <1>1 DEF StartRequest, ProcType
  <2> QED BY <2>1, <2>2, <2>3, <2>4 DEF ProcType
<1>2. ASSUME StartDestroy(p) PROVE TypeOK'
  <2>1. CtxType' /\ HeapType'
    BY <1>2, KeptType DEF StartDestroy
  <2>2. ProcType'
    BY <1>2 DEF StartDestroy, ProcType, PcSet, NifSet
  <2> QED BY <2>1, <2>2
<1> QED BY <1>1, <1>2

(* Entering a critical section.                                            *)
(* Starting JavaScript under the lock keeps the types of what it sets.     *)
LEMMA RunJsType ==
  ASSUME TypeOK, NEW p \in Procs, NEW r \in Request, RunJs(p, r)
  PROVE  /\ lock' \in Procs \cup {NoProc}
         /\ js' \in Activation
         /\ pc' \in [Procs -> PcSet]
<1>1. Frame(r) \in Activation
  BY FrameType
<1>2. lock' \in Procs \cup {NoProc} /\ js' \in Activation
  BY <1>1 DEF RunJs
<1>3. pc' \in [Procs -> PcSet]
  BY DEF TypeOK, RunJs, ProcType, PcSet
<1> QED BY <1>2, <1>3

(* The request of a process is well typed, and so is its timeout.          *)
LEMMA ReqType ==
  ASSUME TypeOK, NEW p \in Procs
  PROVE  req[p] \in Request /\ req[p].timed \in BOOLEAN
<1>1. req[p] \in Request
  BY DEF TypeOK, ProcType
<1>2. CASE req[p] = NoRequest
  BY <1>1, <1>2 DEF NoRequest
<1>3. CASE req[p] # NoRequest
  BY <1>1, <1>3 DEF Request
<1> QED BY <1>2, <1>3

(* A fresh evaluation starts with index 0 and no results.                  *)
LEMMA ResetCallsType ==
  ASSUME ResetCalls
  PROVE  /\ callIndex' \in Nat
         /\ DOMAIN results' \subseteq Nat
         /\ \A i \in DOMAIN results' : results'[i] \in Result
  BY DEF ResetCalls, EmptyResults

(* Storing a result at an index, or undefined, keeps the type of the       *)
(* results.                                                                *)
LEMMA StoreType ==
  ASSUME TypeOK, NEW i \in Nat, NEW v \in Result
  PROVE  /\ DOMAIN Store(results, i, v) \subseteq Nat
         /\ \A k \in DOMAIN Store(results, i, v) :
              Store(results, i, v)[k] \in Result
         /\ DOMAIN Remove(results, i) \subseteq Nat
         /\ \A k \in DOMAIN Remove(results, i) :
              Remove(results, i)[k] \in Result
  BY DEF TypeOK, CtxType, Store, Remove

(* Reading a term of pending_env, alive or not, gives a site.              *)
LEMMA TermReadType ==
  ASSUME NEW term \in SiteSet, NEW owner
  PROVE  TermRead(term, owner) \subseteq SiteSet
  BY NoSiteType DEF TermRead

(* Entering any NIF's critical section keeps every type.                   *)
LEMMA EnterType ==
  ASSUME TypeOK, NEW p \in Procs
  PROVE  NifEntry(p) => TypeOK'
<1> USE DEF TypeOK
<1>1. ASSUME EnterRefused(p) PROVE TypeOK'
  <2>1. CtxType' /\ HeapType'
    BY <1>1, KeptType DEF EnterRefused
  <2>2. pc' \in [Procs -> PcSet] /\ reply' \in [Procs -> Reply]
    BY <1>1, FailureType, AnswerType DEF EnterRefused
  <2> QED BY <1>1, <2>1, <2>2 DEF EnterRefused, ProcType
<1>2. ASSUME EnterEval(p) PROVE TypeOK'
  <2>1. CtxType'
    BY <1>2, ResetCallsType DEF EnterEval, CtxType
  <2>2. HeapType' /\ ProcType'
    BY <1>2, RunJsType, ReqType DEF EnterEval, HeapType, ProcType
  <2> QED BY <2>1, <2>2
<1>3. ASSUME EnterCall(p) PROVE TypeOK'
  <2>1. CtxType'
    BY <1>3, ResetCallsType, ReqType DEF EnterCall, CtxType
  <2>2. HeapType' /\ ProcType'
    BY <1>3, RunJsType, ReqType DEF EnterCall, HeapType, ProcType
  <2> QED BY <2>1, <2>2
<1>4. ASSUME CallNotFunction(p) PROVE TypeOK'
  <2>1. CtxType' /\ HeapType'
    BY <1>4, KeptType DEF CallNotFunction
  <2>2. pc' \in [Procs -> PcSet] /\ reply' \in [Procs -> Reply]
    BY <1>4, FailureType, AnswerType DEF CallNotFunction
  <2> QED BY <1>4, <2>1, <2>2 DEF CallNotFunction, ProcType
<1>5. ASSUME CallBadArg(p) PROVE TypeOK'
  <2>1. HeapType'
    BY <1>5, KeptType DEF CallBadArg
  <2>2. CtxType'
    BY <1>5, ResetCallsType, ReqType DEF CallBadArg, CtxType
  <2>3. pc' \in [Procs -> PcSet] /\ reply' \in [Procs -> Reply]
    BY <1>5, FailureType, AnswerType DEF CallBadArg
  <2> QED BY <1>5, <2>1, <2>2, <2>3 DEF CallBadArg, ProcType
<1>6. ASSUME EnterSend(p) PROVE TypeOK'
  <2>1. CtxType'
    BY <1>6, KeptType DEF EnterSend
  <2>2. HeapType' /\ ProcType'
    BY <1>6, RunJsType, ReqType DEF EnterSend, HeapType, ProcType
  <2> QED BY <2>1, <2>2
<1>7. ASSUME EnterDestroy(p) PROVE TypeOK'
  <2>1. CtxType'
    BY <1>7, KeptType DEF EnterDestroy
  <2>2. HeapType' /\ ProcType'
    BY <1>7 DEF EnterDestroy, HeapType, ProcType, PcSet
  <2> QED BY <2>1, <2>2
<1>8. ASSUME CompleteRefused(p) PROVE TypeOK'
  <2>1. CtxType' /\ HeapType'
    BY <1>8, KeptType DEF CompleteRefused
  <2>2. pc' \in [Procs -> PcSet] /\ reply' \in [Procs -> Reply]
    BY <1>8, FailureType, DieType DEF CompleteRefused, Badmatch
  <2> QED BY <1>8, <2>1, <2>2 DEF CompleteRefused, ProcType
<1>9. ASSUME EnterComplete(p) PROVE TypeOK'
  <2>1. HeapType'
    BY <1>9, KeptType DEF EnterComplete
  <2>2. ProcType'
    BY <1>9 DEF EnterComplete, ProcType, PcSet
  <2>3. call[p].site \in SiteSet
    BY DEF ProcType, Call
  <2>4. CtxType'
    <3>1. CASE call[p].kind = "error"
      BY <1>9, <2>3, <3>1 DEF EnterComplete, CtxType
    <3>2. CASE call[p].kind # "error"
      <4>1. [kind |-> "value", site |-> call[p].site] \in Result
        BY <2>3 DEF Result
      <4>2. /\ DOMAIN StoredResult(p) \subseteq Nat
            /\ \A i \in DOMAIN StoredResult(p) : StoredResult(p)[i] \in Result
        BY <4>1, StoreType DEF StoredResult, CtxType
      <4> QED BY Zenon, <1>9, <3>2, <4>2 DEF EnterComplete, CtxType
    <3> QED BY <3>1, <3>2
  <2> QED BY <2>1, <2>2, <2>4
<1>10. ASSUME ResumeNoCode(p) PROVE TypeOK'
  <2>1. CtxType' /\ HeapType'
    BY <1>10, KeptType DEF ResumeNoCode
  <2>2. pc' \in [Procs -> PcSet] /\ reply' \in [Procs -> Reply]
    BY <1>10, FailureType, AnswerType DEF ResumeNoCode
  <2> QED BY <1>10, <2>1, <2>2 DEF ResumeNoCode, ProcType
<1>11. ASSUME EnterResume(p) PROVE TypeOK'
  <2>1. (IF resumeCode.kind = "apply" THEN callFunc ELSE resumeCode.req) \in Request
    BY DEF CtxType, Code
  <2>2. HeapType' /\ ProcType'
    BY <1>11, <2>1, RunJsType DEF EnterResume, HeapType, ProcType
  <2>3. \A site \in TermRead(callResult, "result") :
          [kind |-> "error", site |-> site] \in Result
    BY TermReadType DEF CtxType, Result
  <2>4. /\ hasCallResult' \in BOOLEAN
        /\ DOMAIN results' \subseteq Nat
        /\ \A i \in DOMAIN results' : results'[i] \in Result
    <3>1. ASSUME NEW site \in TermRead(callResult, "result"),
                 results' = Store(results, pendingIndex,
                                  [kind |-> "error", site |-> site])
          PROVE  /\ DOMAIN results' \subseteq Nat
                 /\ \A i \in DOMAIN results' : results'[i] \in Result
      BY <2>3, <3>1, StoreType DEF CtxType
    <3>2. ASSUME UNCHANGED <<hasCallResult, results>>
          PROVE  /\ hasCallResult' \in BOOLEAN
                 /\ DOMAIN results' \subseteq Nat
                 /\ \A i \in DOMAIN results' : results'[i] \in Result
      BY <3>2 DEF CtxType
    <3> QED BY Zenon, <1>11, <3>1, <3>2 DEF EnterResume
  <2>5. CtxType'
    BY <1>11, <2>4 DEF EnterResume, ResumeIndex, CtxType
  <2> QED BY <2>2, <2>5
<1>12. ASSUME EnterBindings(p) PROVE TypeOK'
  <2>1. CtxType'
    BY <1>12, ResetCallsType, ReqType DEF EnterBindings, CtxType
  <2>2. HeapType' /\ ProcType'
    BY <1>12, RunJsType, ReqType DEF EnterBindings, HeapType, ProcType
  <2> QED BY <2>1, <2>2
<1>13. ASSUME BindBadArg(p) PROVE TypeOK'
  <2>1. HeapType'
    BY <1>13, KeptType DEF BindBadArg
  <2>2. CtxType'
    BY <1>13, ReqType DEF BindBadArg, CtxType
  <2>3. pc' \in [Procs -> PcSet] /\ reply' \in [Procs -> Reply]
    BY <1>13, FailureType, AnswerType DEF BindBadArg
  <2> QED BY <1>13, <2>1, <2>2, <2>3 DEF BindBadArg, ProcType
<1>14. ASSUME SendNothing(p) PROVE TypeOK'
  <2>1. CtxType' /\ HeapType'
    BY <1>14, KeptType DEF SendNothing
  <2>2. PICK status \in {"ok", "badarg"} : Answer(p, status, <<>>)
    BY <1>14 DEF SendNothing
  <2>3. [status |-> status, got |-> <<>>] \in Reply
    BY DEF Reply
  <2>4. pc' \in [Procs -> PcSet] /\ reply' \in [Procs -> Reply]
    BY <2>2, <2>3, AnswerType
  <2> QED BY <1>14, <2>1, <2>4 DEF SendNothing, ProcType
<1> QED
  BY <1>1, <1>2, <1>3, <1>4, <1>5, <1>6, <1>7, <1>8, <1>9, <1>10, <1>11,
     <1>12, <1>13, <1>14
     DEF NifEntry

(* JavaScript statements.                                                  *)
LEMMA HereType ==
  ASSUME TypeOK
  PROVE  Here \in SiteSet
<1>1. js.req \in Request /\ js.at \in Nat
  BY DEF TypeOK, HeapType, Activation
<1> QED BY Zenon, <1>1, SiteType DEF Here

(* Going on to the next statement keeps the type of the activation.        *)
LEMMA ContinueType ==
  ASSUME TypeOK, NEW k \in {"value", "error", "sentinel", "throw"},
         NEW site \in SiteSet, Continue(k, site)
  PROVE  js' \in Activation
<1>1. js \in Activation
  BY DEF TypeOK, HeapType
<1>2. [kind |-> k, site |-> site, at |-> js.at] \in Got
  BY <1>1 DEF Got, Activation
<1> DEFINE got == Append(js.got, [kind |-> k, site |-> site, at |-> js.at])
<1>3. got \in Seq(Got)
  BY <1>1, <1>2 DEF Activation
<1>4. js' = [js EXCEPT !.at = js.at + 1, !.got = got]
  BY DEF Continue
<1>5. js.at + 1 \in Nat \ {0}
  BY <1>1 DEF Activation
<1> DEFINE at == js.at + 1
<1> HIDE DEF got, at
<1>6. js' = [js EXCEPT !.at = at, !.got = got]
  BY <1>4 DEF at
<1>7. at \in Nat \ {0}
  BY <1>5 DEF at
<1> QED BY Zenon, <1>1, <1>3, <1>6, <1>7 DEF Activation

(* So does throwing, caught or not.                                        *)
LEMMA ThrowType ==
  ASSUME TypeOK, NEW k \in {"error", "sentinel", "throw"},
         NEW site \in SiteSet, Throw(k, site)
  PROVE  js' \in Activation
<1>1. CASE js.req.prog[js.at].catch
  BY <1>1, ContinueType DEF Throw
<1>2. CASE ~js.req.prog[js.at].catch
  BY <1>2 DEF Throw, TypeOK, HeapType, Activation
<1> QED BY <1>1, <1>2

(* A JavaScript statement or a timeout keeps every type.                   *)
LEMMA JsType ==
  ASSUME TypeOK, NEW p \in Procs
  PROVE  JsStep(p) \/ JsTimeout(p) => TypeOK'
<1> USE DEF TypeOK
<1>1. ASSUME JsCallCached(p) PROVE TypeOK'
  <2>1. CtxType'
    BY <1>1 DEF JsCallCached, CtxType
  <2>2. results[callIndex] \in Result
    BY <1>1 DEF JsCallCached, CtxType
  <2>3. js' \in Activation
    <3>1. CASE results[callIndex].kind = "error"
      BY <1>1, <2>2, <3>1, ThrowType DEF JsCallCached, Result
    <3>2. CASE results[callIndex].kind # "error"
      BY <1>1, <2>2, <3>2, ContinueType DEF JsCallCached, Result
    <3> QED BY <3>1, <3>2
  <2>4. HeapType' /\ ProcType'
    BY <1>1, <2>3, KeptType DEF JsCallCached, JsUnchanged, HeapType
  <2> QED BY <2>1, <2>4
<1>2. ASSUME JsCallPending(p) PROVE TypeOK'
  <2>1. CtxType'
    BY <1>2, HereType DEF JsCallPending, RecordCall, CtxType
  <2>2. js' \in Activation
    BY <1>2, HereType, ThrowType DEF JsCallPending
  <2>3. HeapType' /\ ProcType'
    BY <1>2, <2>2, KeptType DEF JsCallPending, JsUnchanged, HeapType
  <2> QED BY <2>1, <2>3
<1>3. ASSUME JsThrow(p) PROVE TypeOK'
  <2>1. CtxType' /\ ProcType'
    BY <1>3, KeptType DEF JsThrow, JsUnchanged
  <2>2. js' \in Activation
    BY <1>3, HereType, ThrowType DEF JsThrow
  <2>3. HeapType'
    BY <1>3, <2>2 DEF JsThrow, JsUnchanged, HeapType
  <2> QED BY <2>1, <2>3
<1>4. ASSUME JsSpin(p) PROVE TypeOK'
  BY <1>4, KeptType DEF JsSpin, vars
<1>5. ASSUME JsTimeout(p) PROVE TypeOK'
  <2>1. CtxType' /\ ProcType'
    BY <1>5, KeptType DEF JsTimeout, JsUnchanged
  <2>2. js' \in Activation
    BY <1>5 DEF JsTimeout, HeapType, Activation
  <2>3. HeapType'
    BY <1>5, <2>2 DEF JsTimeout, JsUnchanged, HeapType
  <2> QED BY <2>1, <2>3
<1>6. ASSUME JsRead(p) PROVE TypeOK'
  <2>1. CtxType' /\ ProcType'
    BY <1>6, KeptType DEF JsRead, JsUnchanged
  <2>2. Site(binding, js.at) \in SiteSet
    BY SiteType DEF CtxType, HeapType, Activation
  <2>3. js' \in Activation
    <3>1. CASE binding = NoRequest
      BY <1>6, <3>1, HereType, ThrowType DEF JsRead
    <3>2. CASE binding # NoRequest
      BY <1>6, <2>2, <3>2, ContinueType DEF JsRead
    <3> QED BY <3>1, <3>2
  <2>4. HeapType'
    BY <1>6, <2>3 DEF JsRead, JsUnchanged, HeapType
  <2> QED BY <2>1, <2>4
<1> QED BY <1>1, <1>2, <1>3, <1>4, <1>5, <1>6 DEF JsStep

(* Leaving a critical section.                                             *)
LEMMA LeaveType ==
  ASSUME TypeOK, Leave, timeoutEnabled' \in BOOLEAN
  PROVE  HeapType'
<1>1. NoFrame \in Activation
  BY NoRequestType, FrameType DEF NoFrame
<1> QED BY <1>1 DEF Leave, TypeOK, HeapType

(* Returning {call_erlang, F, Args} keeps the types, even when the         *)
(* arguments are garbage.                                                  *)
LEMMA ReturnCallType ==
  ASSUME TypeOK, NEW p \in Procs, ReturnCall(p), resumeCode' \in Code
  PROVE  CtxType' /\ ProcType'
<1>1. PICK site \in TermRead(pendingArgs, "args") :
         call' = [call EXCEPT ![p] = [kind |-> "none", site |-> site]]
  BY Zenon DEF ReturnCall
<1>2. [kind |-> "none", site |-> site] \in Call
  BY TermReadType DEF TypeOK, CtxType, Call
<1>3. CtxType'
  BY Zenon DEF TypeOK, CtxType, ReturnCall, CallTaken
<1>4. ProcType'
  BY <1>1, <1>2 DEF TypeOK, ProcType, ReturnCall, PcSet
<1> QED BY <1>3, <1>4

(* What the statements got so far is a sequence of values.                 *)
LEMMA GotType ==
  ASSUME TypeOK
  PROVE  js.got \in Seq(Got)
  BY DEF TypeOK, HeapType, Activation

(* Every return of a NIF that ran JavaScript keeps every type.             *)
LEMMA ReturnType ==
  ASSUME TypeOK, NEW p \in Procs
  PROVE  NifReturn(p) => TypeOK'
<1> USE DEF TypeOK
<1>1. ASSUME EvalOk(p) PROVE TypeOK'
  <2>1. CtxType' /\ HeapType'
    BY Zenon, <1>1, KeptType, LeaveType DEF EvalOk, StopTimeout
  <2>2. pc' \in [Procs -> PcSet] /\ reply' \in [Procs -> Reply]
    BY Zenon, <1>1, GotType, OkType, AnswerType DEF EvalOk
  <2> QED BY <1>1, <2>1, <2>2 DEF EvalOk, ProcType
<1>2. ASSUME EvalTimeout(p) PROVE TypeOK'
  <2>1. CtxType' /\ HeapType'
    BY Zenon, <1>2, KeptType, LeaveType DEF EvalTimeout, StopTimeout
  <2>2. pc' \in [Procs -> PcSet] /\ reply' \in [Procs -> Reply]
    BY <1>2, FailureType, AnswerType DEF EvalTimeout
  <2> QED BY <1>2, <2>1, <2>2 DEF EvalTimeout, ProcType
<1>3. ASSUME EvalCallErlang(p) PROVE TypeOK'
  <2>1. HeapType'
    BY Zenon, <1>3, LeaveType DEF EvalCallErlang, StopTimeout
  <2>2. resumeCode' \in Code
    BY <1>3, ReqType, NoRequestType DEF EvalCallErlang, Code
  <2> QED BY <1>3, <2>1, <2>2, ReturnCallType DEF EvalCallErlang
<1>4. ASSUME EvalError(p) PROVE TypeOK'
  <2>1. CtxType' /\ HeapType'
    BY Zenon, <1>4, KeptType, LeaveType DEF EvalError, StopTimeout
  <2>2. pc' \in [Procs -> PcSet] /\ reply' \in [Procs -> Reply]
    BY <1>4, FailureType, AnswerType DEF EvalError
  <2> QED BY <1>4, <2>1, <2>2 DEF EvalError, ProcType
<1>5. ASSUME SendReturn(p) PROVE TypeOK'
  <2>1. CtxType' /\ HeapType'
    BY <1>5, KeptType, LeaveType DEF SendReturn, HeapType
  <2>2. pc' \in [Procs -> PcSet] /\ reply' \in [Procs -> Reply]
    <3>1. CASE js.thrown = "none"
      BY Zenon, <1>5, <3>1, GotType, OkType, AnswerType DEF SendReturn
    <3>2. CASE js.thrown # "none"
      BY <1>5, <3>2, FailureType, AnswerType DEF SendReturn
    <3> QED BY <3>1, <3>2
  <2> QED BY <1>5, <2>1, <2>2 DEF SendReturn, ProcType
<1>6. ASSUME ResumeCallErlang(p) PROVE TypeOK'
  BY <1>6, LeaveType, ReturnCallType DEF ResumeCallErlang, HeapType, CtxType
<1>7. ASSUME ResumeDone(p) PROVE TypeOK'
  <2>1. HeapType'
    BY <1>7, LeaveType DEF ResumeDone, HeapType
  <2>2. pc' \in [Procs -> PcSet] /\ reply' \in [Procs -> Reply]
    <3>1. CASE js.thrown = "none"
      BY Zenon, <1>7, <3>1, GotType, OkType, AnswerType DEF ResumeDone
    <3>2. CASE js.thrown # "none"
      BY <1>7, <3>2, FailureType, AnswerType DEF ResumeDone
    <3> QED BY <3>1, <3>2
  <2>3. CtxType'
    BY <1>7, NoRequestType DEF ResumeDone, CtxType, NoCode, Code
  <2> QED BY <1>7, <2>1, <2>2, <2>3 DEF ResumeDone, ProcType
<1> QED BY <1>1, <1>2, <1>3, <1>4, <1>5, <1>6, <1>7 DEF NifReturn

(* The Erlang side of the trampoline.                                      *)
LEMMA ErlangType ==
  ASSUME TypeOK, NEW p \in Procs
  PROVE  Dispatch(p) \/ StartComplete(p) \/ StartResume(p) \/ Kill(p) => TypeOK'
<1> USE DEF TypeOK
<1>1. ASSUME Dispatch(p) PROVE TypeOK'
  <2>1. CtxType' /\ HeapType'
    BY <1>1, KeptType DEF Dispatch
  <2>2. PICK o \in Outcomes : call' = [call EXCEPT ![p].kind = o]
    BY Zenon, <1>1 DEF Dispatch
  <2>3. call' \in [Procs -> Call]
    BY Zenon, <2>2, TrampolineAssumption DEF ProcType, Call
  <2>4. dispatched' \in [Procs -> Seq(Call)]
    BY <1>1, <2>3 DEF Dispatch, ProcType
  <2> QED BY <1>1, <2>1, <2>3, <2>4 DEF Dispatch, ProcType, PcSet
<1>2. ASSUME StartComplete(p) PROVE TypeOK'
  <2>1. CtxType' /\ HeapType'
    BY <1>2, KeptType DEF StartComplete
  <2>2. pc' \in [Procs -> PcSet] /\ reply' \in [Procs -> Reply]
    <3>1. CASE destroyed
      BY <1>2, <3>1, FailureType, DieType DEF StartComplete, Badmatch
    <3>2. CASE ~destroyed
      BY Zenon, <1>2, <3>2 DEF StartComplete, ProcType, PcSet
    <3> QED BY <3>1, <3>2
  <2> QED BY Zenon, <1>2, <2>1, <2>2 DEF StartComplete, ProcType, NifSet
<1>3. ASSUME StartResume(p) PROVE TypeOK'
  <2>1. CtxType' /\ HeapType'
    BY <1>3, KeptType DEF StartResume
  <2>2. pc' \in [Procs -> PcSet] /\ reply' \in [Procs -> Reply]
    BY <1>3, GetContextType DEF StartResume
  <2> QED BY Zenon, <1>3, <2>1, <2>2 DEF StartResume, ProcType, NifSet
<1>4. ASSUME Kill(p) PROVE TypeOK'
  <2>1. CtxType' /\ HeapType'
    BY <1>4, KeptType DEF Kill
  <2>2. pc' \in [Procs -> PcSet] /\ reply' \in [Procs -> Reply]
    BY <1>4, FailureType, DieType DEF Kill
  <2> QED BY <1>4, <2>1, <2>2 DEF Kill, ProcType
<1> QED BY <1>1, <1>2, <1>3, <1>4

(* The type invariant is inductive.                                        *)
LEMMA TypeStep == TypeOK /\ [Next]_vars => TypeOK'
<1> SUFFICES ASSUME TypeOK, [Next]_vars PROVE TypeOK'
  OBVIOUS
<1>1. CASE UNCHANGED vars
  BY <1>1, KeptType DEF TypeOK, vars
<1>2. ASSUME NEW p \in Procs,
             StartRequest(p) \/ StartDestroy(p) \/ Step(p) \/ JsTimeout(p) \/ Kill(p)
      PROVE  TypeOK'
  BY <1>2, StartType, EnterType, JsType, ReturnType, ErlangType DEF Step
<1> QED BY <1>1, <1>2 DEF Next, Finished

(* Every reachable state is well typed.                                    *)
THEOREM TypeCorrect == Spec => []TypeOK
  BY InitType, TypeStep, PTL DEF Spec
-----------------------------------------------------------------------------
(* The mutex and the deadline.  HeapIsExclusive is inductive with the type *)
(* invariant; TimerIsOwned needs it too: a process that starts another     *)
(* request is not the one whose NIF the deadline watches.                  *)
HeapInv == TypeOK /\ HeapIsExclusive /\ TimerIsOwned

(* A process outside the critical sections goes on outside them.           *)
LEMMA QuietStep ==
  ASSUME HeapInv, NEW p \in Procs, NEW v \in PcSet \ {"js"},
         pc[p] # "js", pc' = [pc EXCEPT ![p] = v],
         UNCHANGED <<destroyed, lock, timeoutEnabled>>,
         \A q \in Procs \ {p} : nif'[q] = nif[q] /\ req'[q] = req[q]
  PROVE  HeapIsExclusive' /\ TimerIsOwned'
<1>1. HeapIsExclusive'
  BY DEF HeapInv, HeapIsExclusive, TypeOK, ProcType
<1>2. TimerIsOwned'
  <2> SUFFICES ASSUME timeoutEnabled
               PROVE  \E q \in Procs : /\ lock = q
                                       /\ nif'[q] \in {"eval", "bind", "call"}
                                       /\ req'[q].timed
    BY DEF TimerIsOwned
  <2>1. PICK q \in Procs : lock = q /\ nif[q] \in {"eval", "bind", "call"} /\ req[q].timed
    BY DEF HeapInv, TimerIsOwned
  <2>2. q # p
    BY <2>1 DEF HeapInv, HeapIsExclusive
  <2> QED BY <2>1, <2>2
<1> QED BY <1>1, <1>2

(* A process enters a critical section and starts JavaScript.              *)
LEMMA EnterStep ==
  ASSUME HeapInv, NEW p \in Procs, NEW n, Enter(p, n), NEW r, RunJs(p, r),
         UNCHANGED <<destroyed, nif, req>>,
         timeoutEnabled' => n \in {"eval", "bind", "call"} /\ req[p].timed
  PROVE  HeapIsExclusive' /\ TimerIsOwned'
<1>1. HeapIsExclusive'
  BY TrampolineAssumption
     DEF HeapInv, HeapIsExclusive, TypeOK, ProcType, Enter, RunJs
<1>2. TimerIsOwned'
  BY DEF TimerIsOwned, Enter, RunJs
<1> QED BY <1>1, <1>2

(* A process leaves the critical section, and the timeout is off.          *)
LEMMA LeaveStep ==
  ASSUME HeapInv, NEW p \in Procs, NEW v \in PcSet \ {"js"},
         pc[p] = "js", pc' = [pc EXCEPT ![p] = v], Leave, ~timeoutEnabled'
  PROVE  HeapIsExclusive' /\ TimerIsOwned'
<1>1. \A q \in Procs \ {p} : pc[q] # "js"
  BY DEF HeapInv, HeapIsExclusive
<1>2. HeapIsExclusive'
  BY <1>1, TrampolineAssumption
     DEF HeapInv, HeapIsExclusive, TypeOK, ProcType, Leave
<1> QED BY <1>2 DEF TimerIsOwned

(* Nobody holds the lock: no deadline is armed.                            *)
LEMMA TimerOff ==
  ASSUME HeapInv
  PROVE  /\ lock = NoProc => ~timeoutEnabled
         /\ \A p \in Procs : lock = p /\ nif[p] \notin {"eval", "bind", "call"} =>
              ~timeoutEnabled
  BY TrampolineAssumption DEF HeapInv, TimerIsOwned

(* The invariant of the mutex and the deadline holds in a new context.     *)
LEMMA HeapInit == Init => HeapInv
<1>1. Init => HeapIsExclusive /\ TimerIsOwned
  BY TrampolineAssumption DEF Init, HeapIsExclusive, TimerIsOwned
<1> QED BY <1>1, InitType DEF HeapInv

(* Taking up a request, before the lock, keeps it.                         *)
LEMMA HeapStart ==
  ASSUME HeapInv, NEW p \in Procs
  PROVE  StartRequest(p) \/ StartDestroy(p) => HeapIsExclusive' /\ TimerIsOwned'
<1> USE DEF PcSet
<1>1. ASSUME StartRequest(p) PROVE HeapIsExclusive' /\ TimerIsOwned'
  <2>1. PICK v \in PcSet \ {"js"} : pc' = [pc EXCEPT ![p] = v]
    BY <1>1 DEF StartRequest, GetContext, Answer
  <2>2. \A q \in Procs \ {p} : nif'[q] = nif[q] /\ req'[q] = req[q]
    BY <1>1 DEF StartRequest, HeapInv, TypeOK, ProcType
  <2> QED BY Zenon, <1>1, <2>1, <2>2, QuietStep DEF StartRequest, heapVars
<1>2. ASSUME StartDestroy(p) PROVE HeapIsExclusive' /\ TimerIsOwned'
  <2>1. \A q \in Procs \ {p} : nif'[q] = nif[q] /\ req'[q] = req[q]
    BY <1>2 DEF StartDestroy, HeapInv, TypeOK, ProcType
  <2> QED BY Zenon, <1>2, <2>1, QuietStep DEF StartDestroy, heapVars
<1> QED BY <1>1, <1>2

(* Entering a critical section keeps it, whatever the NIF.                 *)
LEMMA HeapEntry ==
  ASSUME HeapInv, NEW p \in Procs
  PROVE  NifEntry(p) => HeapIsExclusive' /\ TimerIsOwned'
<1> USE DEF PcSet
<1>1. ASSUME \/ EnterRefused(p) \/ BindBadArg(p) \/ CallNotFunction(p) \/ CallBadArg(p)
             \/ SendNothing(p) \/ CompleteRefused(p) \/ EnterComplete(p)
             \/ ResumeNoCode(p)
      PROVE  HeapIsExclusive' /\ TimerIsOwned'
  <2>1. pc[p] # "js"
    BY <1>1 DEF EnterRefused, BindBadArg, CallNotFunction, CallBadArg, SendNothing,
                CompleteRefused,
                EnterComplete, ResumeNoCode, Enter
  <2>2. PICK v \in PcSet \ {"js"} : pc' = [pc EXCEPT ![p] = v]
    BY <1>1 DEF EnterRefused, BindBadArg, CallNotFunction, CallBadArg, SendNothing,
                CompleteRefused,
                EnterComplete, ResumeNoCode, Answer, Badmatch, Die
  <2>3. UNCHANGED heapVars /\ UNCHANGED <<nif, req>>
    BY <1>1 DEF EnterRefused, BindBadArg, CallNotFunction, CallBadArg, SendNothing,
                CompleteRefused,
                EnterComplete, ResumeNoCode
  <2> QED BY Zenon, <2>1, <2>2, <2>3, QuietStep DEF heapVars
<1>2. ASSUME EnterEval(p) PROVE HeapIsExclusive' /\ TimerIsOwned'
  BY <1>2, EnterStep DEF EnterEval
<1>3. ASSUME EnterCall(p) PROVE HeapIsExclusive' /\ TimerIsOwned'
  BY <1>3, EnterStep DEF EnterCall
<1>4. ASSUME EnterSend(p) PROVE HeapIsExclusive' /\ TimerIsOwned'
  BY <1>4, EnterStep, TimerOff DEF EnterSend, Enter
<1>5. ASSUME EnterResume(p) PROVE HeapIsExclusive' /\ TimerIsOwned'
  <2> DEFINE r == IF resumeCode.kind = "apply" THEN callFunc ELSE resumeCode.req
  <2>1. RunJs(p, r) /\ Enter(p, "resume") /\ UNCHANGED <<destroyed, nif, req>>
    BY <1>5 DEF EnterResume
  <2>2. ~timeoutEnabled'
    BY <1>5, TimerOff DEF EnterResume, Enter
  <2> HIDE DEF r
  <2> QED BY <2>1, <2>2, EnterStep
<1>6. ASSUME EnterDestroy(p) PROVE HeapIsExclusive' /\ TimerIsOwned'
  <2>1. \A q \in Procs : pc[q] # "js"
    BY <1>6, TrampolineAssumption DEF EnterDestroy, HeapInv, HeapIsExclusive
  <2>2. HeapIsExclusive'
    BY <1>6, <2>1, TrampolineAssumption
       DEF EnterDestroy, HeapInv, HeapIsExclusive, TypeOK, ProcType
  <2>3. TimerIsOwned'
    BY <1>6, TimerOff DEF EnterDestroy, TimerIsOwned
  <2> QED BY <2>2, <2>3
<1>7. ASSUME EnterBindings(p) PROVE HeapIsExclusive' /\ TimerIsOwned'
  BY <1>7, EnterStep DEF EnterBindings
<1> QED BY <1>1, <1>2, <1>3, <1>4, <1>5, <1>6, <1>7 DEF NifEntry

(* JavaScript moves neither the lock nor the processes.                    *)
LEMMA HeapJs ==
  ASSUME HeapInv, NEW p \in Procs
  PROVE  JsStep(p) \/ JsTimeout(p) => HeapIsExclusive' /\ TimerIsOwned'
<1>1. JsStep(p) \/ JsTimeout(p) => JsUnchanged
  BY DEF JsStep, JsTimeout, JsCallCached, JsCallPending, JsRead, JsThrow,
         JsSpin, JsUnchanged, vars, heapVars
<1>2. JsUnchanged => HeapIsExclusive' /\ TimerIsOwned'
  BY DEF HeapInv, HeapIsExclusive, TimerIsOwned, JsUnchanged, procVars
<1> QED BY <1>1, <1>2

(* Leaving it keeps it: every return unlocks with the timeout off.         *)
LEMMA HeapReturn ==
  ASSUME HeapInv, NEW p \in Procs
  PROVE  NifReturn(p) => HeapIsExclusive' /\ TimerIsOwned'
<1> SUFFICES ASSUME NifReturn(p) PROVE HeapIsExclusive' /\ TimerIsOwned'
  OBVIOUS
<1> USE DEF PcSet
<1>1. pc[p] = "js" /\ lock = p
  BY DEF NifReturn, EvalOk, EvalTimeout, EvalCallErlang, EvalError, SendReturn,
         ResumeCallErlang, ResumeDone, InEval, InResume, HeapInv, HeapIsExclusive
<1>2. Leave
  BY DEF NifReturn, EvalOk, EvalTimeout, EvalCallErlang, EvalError, SendReturn,
         ResumeCallErlang, ResumeDone
<1>3. PICK v \in PcSet \ {"js"} : pc' = [pc EXCEPT ![p] = v]
  BY DEF NifReturn, EvalOk, EvalTimeout, EvalCallErlang, EvalError, SendReturn,
         ResumeCallErlang, ResumeDone, Answer, ReturnCall
<1>4. ~timeoutEnabled'
  BY <1>1, TimerOff
     DEF NifReturn, EvalOk, EvalTimeout, EvalCallErlang, EvalError, SendReturn,
         ResumeCallErlang, ResumeDone, StopTimeout, InResume
<1> QED BY Zenon, <1>1, <1>2, <1>3, <1>4, LeaveStep

(* The Erlang side of the trampoline, between NIFs, keeps it.              *)
LEMMA HeapErlang ==
  ASSUME HeapInv, NEW p \in Procs,
         Dispatch(p) \/ StartComplete(p) \/ StartResume(p) \/ Kill(p)
  PROVE  HeapIsExclusive' /\ TimerIsOwned'
<1> USE DEF PcSet
<1>1. pc[p] # "js" /\ UNCHANGED heapVars /\ UNCHANGED req
  BY DEF Dispatch, StartComplete, StartResume, Kill
<1>2. PICK v \in PcSet \ {"js"} : pc' = [pc EXCEPT ![p] = v]
  BY DEF Dispatch, StartComplete, StartResume, Kill, Badmatch, Die, GetContext,
         Answer
<1>3. \A q \in Procs \ {p} : nif'[q] = nif[q]
  BY DEF Dispatch, StartComplete, StartResume, Kill, HeapInv, TypeOK, ProcType
<1> QED BY Zenon, <1>1, <1>2, <1>3, QuietStep DEF heapVars

(* The invariant of the mutex and the deadline is inductive.               *)
LEMMA HeapStep == HeapInv /\ [Next]_vars => HeapInv'
<1> SUFFICES ASSUME HeapInv, [Next]_vars PROVE HeapIsExclusive' /\ TimerIsOwned'
  BY TypeStep DEF HeapInv
<1>1. CASE UNCHANGED vars
  BY <1>1 DEF HeapInv, HeapIsExclusive, TimerIsOwned, vars, heapVars, procVars
<1>2. ASSUME NEW p \in Procs,
             StartRequest(p) \/ StartDestroy(p) \/ Step(p) \/ JsTimeout(p) \/ Kill(p)
      PROVE  HeapIsExclusive' /\ TimerIsOwned'
  BY <1>2, HeapStart, HeapEntry, HeapJs, HeapReturn, HeapErlang DEF Step
<1> QED BY <1>1, <1>2 DEF Next, Finished

(* However many processes share a context, JavaScript runs for one of them *)
(* at a time and never on a destroyed heap: the test of "destroyed" that   *)
(* every NIF repeats under the lock is what makes the unlocked one of      *)
(* get_context harmless.                                                   *)
THEOREM ExclusiveHeap == Spec => []HeapIsExclusive
<1>1. HeapInv => HeapIsExclusive
  BY DEF HeapInv
<1> QED BY HeapInit, HeapStep, <1>1, PTL DEF Spec

(* A deadline is armed only inside the eval or call that asked for it.     *)
THEOREM OwnedTimer == Spec => []TimerIsOwned
<1>1. HeapInv => TimerIsOwned
  BY DEF HeapInv
<1> QED BY HeapInit, HeapStep, <1>1, PTL DEF Spec

-----------------------------------------------------------------------------
(* The index of a call, however the processes share the context *)

(* What a request runs is a program.                                       *)
LEMMA ProgType ==
  ASSUME NEW r \in Request
  PROVE  r.prog \in Seq(Statement)
<1>1. CASE r = NoRequest
  BY <1>1 DEF NoRequest
<1>2. CASE r # NoRequest
  <2>1. r.prog \in EvalPrograms \cup BindPrograms \cup SendPrograms
    BY <1>2 DEF Request
  <2>2. EvalPrograms \cup BindPrograms \cup SendPrograms \subseteq Seq(Statement)
    BY TrampolineAssumption
  <2> QED
    BY <2>1, <2>2
<1> QED
  BY <1>1, <1>2

(* One statement more is one call more, if it is one.                      *)
LEMMA CallsBeforeNext ==
  ASSUME NEW prog \in Seq(Statement), NEW at \in Nat \ {0}
  PROVE  /\ Cardinality(CallsBefore(prog, 1)) = 0
         /\ Cardinality(CallsBefore(prog, at)) \in Nat
         /\ at <= Len(prog) =>
              Cardinality(CallsBefore(prog, at + 1)) =
                IF prog[at].op = "call" THEN Cardinality(CallsBefore(prog, at)) + 1
                ELSE Cardinality(CallsBefore(prog, at))
<1>1. CallsBefore(prog, 1) = {}
  BY DEF CallsBefore
<1>2. IsFiniteSet(CallsBefore(prog, at))
  <2>1. IsFiniteSet(1..(at - 1))
    BY FS_Interval
  <2> QED
    BY <2>1, FS_Subset DEF CallsBefore
<1>3. at <= Len(prog) =>
        CallsBefore(prog, at + 1) = IF prog[at].op = "call" THEN CallsBefore(prog, at) \cup {at}
                                    ELSE CallsBefore(prog, at)
  BY DEF CallsBefore
<1>4. at \notin CallsBefore(prog, at)
  BY DEF CallsBefore
<1>5. Cardinality(CallsBefore(prog, at) \cup {at}) = Cardinality(CallsBefore(prog, at)) + 1
  BY <1>2, <1>4, FS_AddElement
<1>6. Cardinality(CallsBefore(prog, at)) \in Nat /\ Cardinality(CallsBefore(prog, 1)) = 0
  BY Zenon, <1>1, <1>2, FS_EmptySet, FS_CardinalityType
<1> QED
  BY <1>3, <1>5, <1>6

(* A statement goes on to the next one, leaves the program, or is endless; *)
(* the calls are counted.                                                  *)
LEMMA JsMoves ==
  ASSUME TypeOK, NEW p \in Procs, JsStep(p) \/ JsTimeout(p)
  PROVE  /\ js.thrown = "none" /\ js'.req = js.req /\ UNCHANGED <<pc, nif, req, lock, destroyed>>
         /\ \/ UNCHANGED <<js, ctxVars>>
            \/ js'.thrown # "none" /\ js'.at = js.at
            \/ /\ js'.thrown = "none" /\ js'.at = js.at + 1
               /\ js.at <= Len(js.req.prog)
               /\ callIndex' = IF js.req.prog[js.at].op = "call" THEN callIndex + 1
                               ELSE callIndex
<1> js \in Activation
  BY DEF TypeOK, HeapType
<1> USE DEF JsAt, JsRunning, JsUnchanged, procVars, ctxVars, Throw, Continue, Activation
<1>1. CASE JsCallCached(p)
  BY Zenon, <1>1 DEF JsCallCached
<1>2. CASE JsCallPending(p)
  BY Zenon, <1>2 DEF JsCallPending
<1>3. CASE JsRead(p)
  BY Zenon, <1>3 DEF JsRead
<1>4. CASE JsThrow(p)
  BY Zenon, <1>4 DEF JsThrow
<1>5. CASE JsSpin(p)
  BY <1>5 DEF JsSpin, vars, heapVars
<1>6. CASE JsTimeout(p)
  BY <1>6 DEF JsTimeout
<1> QED
  BY <1>1, <1>2, <1>3, <1>4, <1>5, <1>6 DEF JsStep

(* A step of one process leaves what belongs to another alone.             *)
LEMMA OthersKeepProcess ==
  ASSUME TypeOK, NEW p \in Procs, NEW q \in Procs \ {p},
         \/ StartRequest(q) \/ StartDestroy(q) \/ Step(q) \/ JsTimeout(q) \/ Kill(q)
  PROVE  /\ pc'[p] = pc[p] /\ nif'[p] = nif[p] /\ req'[p] = req[p] /\ call'[p] = call[p]
         /\ reply'[p] = reply[p] /\ served'[p] = served[p] /\ dispatched'[p] = dispatched[p]
<1> USE DEF TypeOK, ProcType
<1>1. CASE StartRequest(q) \/ StartDestroy(q)
  BY <1>1 DEF StartRequest, StartDestroy, GetContext, Answer
<1>2. CASE Dispatch(q) \/ StartComplete(q) \/ StartResume(q) \/ Kill(q)
  BY <1>2 DEF Dispatch, StartComplete, StartResume, Kill, Badmatch, Die, GetContext, Answer
<1>3. CASE JsStep(q) \/ JsTimeout(q)
  BY <1>3 DEF JsStep, JsTimeout, JsCallCached, JsCallPending, JsRead, JsThrow, JsSpin,
     JsUnchanged, procVars, vars
<1>4. CASE NifReturn(q)
  BY <1>4 DEF NifReturn, EvalOk, EvalTimeout, EvalCallErlang, EvalError, SendReturn,
     ResumeCallErlang, ResumeDone, Answer, ReturnCall
<1>5. CASE NifEntry(q)
  BY <1>5 DEF NifEntry, EnterRefused, EnterEval, EnterBindings, BindBadArg, EnterCall,
     CallNotFunction, CallBadArg, EnterSend, SendNothing, EnterDestroy, CompleteRefused,
     EnterComplete, ResumeNoCode, EnterResume, Enter, RunJs, Answer, Badmatch, Die
<1> QED
  BY <1>1, <1>2, <1>3, <1>4, <1>5 DEF Step

(* These steps end outside the JavaScript.                                 *)
LEMMA LeavesJs ==
  ASSUME TypeOK, NEW p \in Procs,
         \/ StartRequest(p) \/ StartDestroy(p) \/ NifReturn(p) \/ Dispatch(p)
         \/ StartComplete(p) \/ StartResume(p) \/ Kill(p)
  PROVE  pc'[p] # "js"
<1> USE DEF TypeOK, ProcType
<1>1. CASE StartRequest(p) \/ StartDestroy(p)
  BY <1>1 DEF StartRequest, StartDestroy, GetContext, Answer
<1>2. CASE Dispatch(p) \/ StartComplete(p) \/ StartResume(p) \/ Kill(p)
  BY <1>2 DEF Dispatch, StartComplete, StartResume, Kill, Badmatch, Die, GetContext, Answer
<1>3. CASE NifReturn(p)
  BY <1>3 DEF NifReturn, EvalOk, EvalTimeout, EvalCallErlang, EvalError, SendReturn,
     ResumeCallErlang, ResumeDone, Answer, ReturnCall
<1> QED
  BY <1>1, <1>2, <1>3

(* While one process's JavaScript runs no step of another touches the      *)
(* heap.                                                                   *)
LEMMA OthersKeepHeap ==
  ASSUME HeapInv, NEW p \in Procs, NEW q \in Procs, q # p, pc[p] = "js",
         \/ StartRequest(q) \/ StartDestroy(q) \/ Step(q) \/ JsTimeout(q) \/ Kill(q)
  PROVE  UNCHANGED <<ctxVars, heapVars>> /\ pc'[p] = "js" /\ nif'[p] = nif[p] /\ req'[p] = req[p]
<1>1. lock = p /\ lock # NoProc /\ pc[q] # "js"
  BY TrampolineAssumption DEF HeapInv, HeapIsExclusive
<1>2. ~JsStep(q) /\ ~JsTimeout(q) /\ ~NifReturn(q)
  BY <1>1 DEF JsStep, JsTimeout, JsCallCached, JsCallPending, JsRead, JsThrow, JsSpin, JsAt,
     JsRunning, NifReturn, EvalOk, EvalTimeout, EvalCallErlang, EvalError, SendReturn,
     ResumeCallErlang, ResumeDone, InEval, InResume
<1>3. ~NifEntry(q)
  BY <1>1 DEF NifEntry, EnterRefused, EnterEval, EnterBindings, BindBadArg, EnterCall,
     CallNotFunction, CallBadArg, EnterSend, SendNothing, EnterDestroy, CompleteRefused,
     EnterComplete, ResumeNoCode, EnterResume, Enter
<1>4. CASE StartRequest(q) \/ StartDestroy(q)
  BY <1>4 DEF StartRequest, StartDestroy, GetContext, Answer, HeapInv, TypeOK, ProcType
<1>5. CASE Dispatch(q) \/ StartComplete(q) \/ StartResume(q) \/ Kill(q)
  BY <1>5 DEF Dispatch, StartComplete, StartResume, Kill, Badmatch, Die, GetContext, Answer,
     HeapInv, TypeOK, ProcType
<1> QED
  BY <1>2, <1>3, <1>4, <1>5 DEF Step

IndexInv == HeapInv /\ IndexFollowsCode

(* A pass that starts is at its first statement, and at index 0.           *)
LEMMA IndexEntry ==
  ASSUME HeapInv, NEW p \in Procs, NifEntry(p), pc'[p] = "js", nif'[p] # "send"
  PROVE  callIndex' = 0 /\ js'.at = 1 /\ js'.req \in Request
<1> USE DEF HeapInv, TypeOK, ProcType, CtxType
<1>1. CASE EnterEval(p) \/ EnterBindings(p) \/ EnterCall(p)
  BY <1>1 DEF EnterEval, EnterBindings, EnterCall, ResetCalls, RunJs, Frame
<1>2. CASE EnterResume(p)
  <2>1. resumeCode.req \in Request
    BY DEF Code
  <2> QED
    BY <1>2, <2>1 DEF EnterResume, ResumeIndex, RunJs, Frame
<1>3. CASE EnterSend(p)
  BY <1>3 DEF EnterSend, Enter
<1>4. CASE EnterRefused(p) \/ BindBadArg(p) \/ CallNotFunction(p) \/ CallBadArg(p)
           \/ SendNothing(p) \/ EnterDestroy(p) \/ CompleteRefused(p) \/ EnterComplete(p)
           \/ ResumeNoCode(p)
  BY <1>4 DEF EnterRefused, BindBadArg, CallNotFunction, CallBadArg, SendNothing, EnterDestroy,
     CompleteRefused, EnterComplete, ResumeNoCode, Answer, Badmatch, Die
<1> QED
  BY <1>1, <1>2, <1>3, <1>4 DEF NifEntry

LEMMA IndexStep == IndexInv /\ [Next]_vars => IndexFollowsCode'
<1> SUFFICES ASSUME IndexInv, [Next]_vars, NEW p \in Procs,
                    pc'[p] = "js", nif'[p] # "send", js'.thrown = "none"
             PROVE  callIndex' = Cardinality(CallsBefore(js'.req.prog, js'.at))
  BY DEF IndexFollowsCode
<1> HeapInv /\ js \in Activation /\ js.req.prog \in Seq(Statement) /\ js.at \in Nat \ {0}
  <2>1. js \in Activation
    BY DEF IndexInv, HeapInv, TypeOK, HeapType
  <2>2. js.req.prog \in Seq(Statement)
    BY <2>1, ProgType DEF Activation
  <2> QED
    BY <2>1, <2>2 DEF IndexInv, Activation
<1>1. CASE UNCHANGED vars
  BY <1>1 DEF IndexInv, IndexFollowsCode, vars, ctxVars, heapVars, procVars
<1>2. CASE \E q \in Procs \ {p} :
           StartRequest(q) \/ StartDestroy(q) \/ Step(q) \/ JsTimeout(q) \/ Kill(q)
  <2>1. pc[p] = "js" /\ nif[p] # "send"
    BY <1>2, OthersKeepProcess DEF IndexInv, HeapInv
  <2> QED
    BY <1>2, <2>1, OthersKeepHeap DEF IndexInv, IndexFollowsCode, ctxVars, heapVars
<1>3. CASE JsStep(p) \/ JsTimeout(p)
  <2>1. js.thrown = "none" /\ js'.req = js.req /\ UNCHANGED <<pc, nif>>
    BY <1>3, JsMoves DEF IndexInv, HeapInv
  <2>2. callIndex = Cardinality(CallsBefore(js.req.prog, js.at))
    BY <2>1 DEF IndexInv, IndexFollowsCode
  <2>3. CASE UNCHANGED <<js, ctxVars>>
    BY <2>2, <2>3 DEF ctxVars
  <2>4. CASE /\ js'.at = js.at + 1 /\ js.at <= Len(js.req.prog)
             /\ callIndex' = IF js.req.prog[js.at].op = "call" THEN callIndex + 1 ELSE callIndex
    BY <2>1, <2>2, <2>4, CallsBeforeNext
  <2> QED
    BY <1>3, <2>3, <2>4, JsMoves DEF IndexInv, HeapInv
<1>4. CASE NifEntry(p)
  <2>1. callIndex' = 0 /\ js'.at = 1 /\ js'.req \in Request
    BY <1>4, IndexEntry DEF IndexInv
  <2>2. js'.req.prog \in Seq(Statement)
    BY <2>1, ProgType
  <2> QED
    BY <2>1, <2>2, CallsBeforeNext
<1>5. CASE \/ StartRequest(p) \/ StartDestroy(p) \/ NifReturn(p) \/ Dispatch(p)
           \/ StartComplete(p) \/ StartResume(p) \/ Kill(p)
  BY <1>5, LeavesJs DEF IndexInv, HeapInv
<1> QED
  BY <1>1, <1>2, <1>3, <1>4, <1>5 DEF Next, Step, Finished

(* The n-th call of a program has index n in every pass, first or resumed, *)
(* whoever runs it: no result is given to a call it was not made for as    *)
(* long as the results are the program's own.                              *)
THEOREM IndexFollows == Spec => []IndexFollowsCode
<1>1. Init => IndexInv
  <2>1. Init => IndexFollowsCode
    BY DEF Init, IndexFollowsCode
  <2> QED
    BY <2>1, HeapInit DEF IndexInv
<1>2. IndexInv /\ [Next]_vars => IndexInv'
  BY IndexStep, HeapStep DEF IndexInv
<1>3. IndexInv => IndexFollowsCode
  BY DEF IndexInv
<1> QED
  BY <1>1, <1>2, <1>3, PTL DEF Spec

-----------------------------------------------------------------------------
(* Requests that do not overlap *)

(* The use of the context that the theorems below are about: the sentinel  *)
(* of a call leaves the program, and what send runs makes no call.         *)
SerialCalls ==
    /\ SerialUse
    /\ \A prog \in EvalPrograms \cup BindPrograms : \A i \in DOMAIN prog :
         prog[i].op = "call" => ~prog[i].catch
    /\ \A prog \in SendPrograms : \A i \in DOMAIN prog : prog[i].op # "call"

(* Nobody starts an eval or a call inside another's.                       *)
Alone == \A p, q \in Procs : MidRequest(p) /\ MidRequest(q) => p = q

(* Where p is and in which NIF; its request is of that NIF's API, and the  *)
(* program one of the API's.                                               *)
OwnRequest(p) ==
    /\ pc[p] = "js" => nif[p] \in {"eval", "bind", "call", "send", "resume"}
    /\ pc[p] \in {"dispatch", "answered"} => nif[p] \in {"eval", "bind", "call", "resume"}
    /\ pc[p] = "completed" => nif[p] = "complete"
    /\ pc[p] \notin {"idle", "dead"} /\ nif[p] # "destroy" =>
         /\ req[p].owner = p
         /\ nif[p] = "send" <=> req[p].api = "send"
         /\ req[p].prog \in ProgramsOf(req[p].api)

(* The JavaScript that runs is that of the request being served, in every  *)
(* pass, and the code kept for the next pass is its code.                  *)
OwnCode(p) ==
    /\ pc[p] = "js" => js.req = req[p]
    /\ pc[p] = "js" /\ nif[p] = "call" => callFunc = req[p]
    /\ Suspended(p) \/ (pc[p] = "js" /\ nif[p] = "resume") =>
         req[p] = IF resumeCode.kind = "apply" THEN callFunc ELSE resumeCode.req

(* The call that p serves is its program's.  No result is stored where the *)
(* next one goes, and an error that waits for the resume stays alive.      *)
OwnResult(p) ==
    /\ pc[p] = "dispatch" => \E at \in DOMAIN req[p].prog :
                               /\ req[p].prog[at].op = "call"
                               /\ call[p].site = Site(req[p], at)
    /\ pc[p] \in {"dispatch", "answered"} \/ (pc[p] = "wait" /\ nif[p] = "complete") =>
         pendingIndex \notin DOMAIN results
    /\ pc[p] = "completed" \/ (pc[p] = "wait" /\ nif[p] = "resume") =>
         (hasCallResult => pendingEnv = "result")

(* A call is pending from the sentinel to the return, no longer.           *)
PendingInv ==
    pendingCall => \E p \in Procs :
        /\ pc[p] = "js" /\ nif[p] # "send" /\ js.thrown = "sentinel"
        /\ pendingEnv = "args" /\ pendingArgs = Site(req[p], js.at)
        /\ js.at \in DOMAIN req[p].prog /\ req[p].prog[js.at].op = "call"
        /\ pendingIndex \notin DOMAIN results

SerialInv ==
    /\ HeapInv
    /\ Alone
    /\ \A p \in Procs : OwnRequest(p) /\ OwnCode(p) /\ OwnResult(p)
    /\ PendingInv

Moves(p) == StartRequest(p) \/ StartDestroy(p) \/ Step(p) \/ JsTimeout(p) \/ Kill(p)

(* A send, or a destroy, leaves every field of the trampoline alone.       *)
LEMMA SendKeepsCtx ==
  ASSUME SerialCalls, SerialInv, NEW p \in Procs, ~MidRequest(p), Moves(p)
  PROVE  UNCHANGED ctxVars
<1>1. pc[p] \in {"idle", "dead"} \/ nif[p] \in {"send", "destroy"}
  BY DEF MidRequest
<1>2. CASE StartRequest(p) \/ StartDestroy(p) \/ Kill(p)
  BY <1>2 DEF StartRequest, StartDestroy, Kill
<1>3. CASE JsCallCached(p) \/ JsCallPending(p)
  <2>1. pc[p] = "js" /\ nif[p] = "send" /\ js.req = req[p] /\ req[p].prog \in SendPrograms
    BY <1>1, <1>3 DEF JsCallCached, JsCallPending, JsAt, JsRunning, SerialInv, OwnRequest, OwnCode,
       ProgramsOf
  <2>2. js.at \in Nat \ {0} /\ js.at <= Len(req[p].prog) /\ req[p].prog[js.at].op = "call"
    BY <1>3, <2>1 DEF JsCallCached, JsCallPending, JsAt, JsRunning, SerialInv, HeapInv, TypeOK,
       HeapType, Activation
  <2>3. req[p].prog \in Seq(Statement)
    BY <2>1, TrampolineAssumption
  <2>4. js.at \in DOMAIN req[p].prog
    BY <2>2, <2>3
  <2> QED
    BY <2>1, <2>2, <2>4 DEF SerialCalls
<1>4. CASE JsRead(p) \/ JsThrow(p) \/ JsSpin(p) \/ JsTimeout(p)
  BY <1>4 DEF JsRead, JsThrow, JsSpin, JsTimeout, vars
<1>5. CASE NifEntry(p)
  BY <1>1, <1>5 DEF NifEntry, EnterRefused, EnterEval, EnterBindings, BindBadArg, EnterCall,
     CallNotFunction, CallBadArg, EnterSend, SendNothing, EnterDestroy, CompleteRefused,
     EnterComplete, ResumeNoCode, EnterResume, Enter
<1>6. CASE NifReturn(p)
  BY <1>1, <1>6 DEF NifReturn, EvalOk, EvalTimeout, EvalCallErlang, EvalError, SendReturn,
     ResumeCallErlang, ResumeDone, InEval, InResume
<1>7. CASE Dispatch(p) \/ StartComplete(p) \/ StartResume(p)
  BY <1>7 DEF Dispatch, StartComplete, StartResume
<1> QED
  BY <1>2, <1>3, <1>4, <1>5, <1>6, <1>7 DEF Moves, Step, JsStep

(* A step of another process leaves what p relies on alone: the heap while *)
(* its JavaScript runs, the fields of the trampoline while it is suspended.*)
LEMMA OthersKeep ==
  ASSUME SerialCalls, SerialInv, NEW p \in Procs, NEW q \in Procs \ {p}, Moves(q)
  PROVE  /\ OwnRequest(p)' /\ OwnCode(p)' /\ OwnResult(p)'
         /\ MidRequest(p)' = MidRequest(p)
         /\ MidRequest(p) => UNCHANGED ctxVars
<1>1. /\ pc'[p] = pc[p] /\ nif'[p] = nif[p] /\ req'[p] = req[p] /\ call'[p] = call[p]
  BY OthersKeepProcess DEF Moves, SerialInv, HeapInv
<1>2. pc[p] = "js" => UNCHANGED <<ctxVars, js>>
  BY OthersKeepHeap DEF Moves, SerialInv, heapVars
<1>3. MidRequest(p) => UNCHANGED ctxVars
  BY SendKeepsCtx DEF SerialInv, Alone
<1>4. MidRequest(p)' = MidRequest(p)
  BY <1>1 DEF MidRequest
<1>5. Suspended(p) \/ pc[p] \in {"dispatch", "answered", "completed"} => MidRequest(p)
  BY DEF SerialInv, OwnRequest, Suspended, MidRequest
<1>6. OwnRequest(p)'
  BY <1>1 DEF SerialInv, OwnRequest
<1>7. OwnCode(p)'
  BY <1>1, <1>2, <1>3, <1>5 DEF SerialInv, OwnCode, Suspended, ctxVars
<1>8. OwnResult(p)'
  BY <1>1, <1>3, <1>5 DEF SerialInv, OwnResult, Suspended, ctxVars
<1> QED
  BY <1>3, <1>4, <1>6, <1>7, <1>8

(* What p itself does: taking up a request.                                *)
LEMMA SerialStart ==
  ASSUME SerialInv, NEW p \in Procs, StartRequest(p) \/ StartDestroy(p)
  PROVE  OwnRequest(p)' /\ OwnCode(p)' /\ OwnResult(p)'
<1> USE DEF SerialInv, HeapInv, TypeOK, ProcType, OwnRequest, OwnCode, OwnResult, Suspended
<1>1. CASE StartRequest(p)
  <2>1. PICK api \in Apis \ {"destroy"} :
          /\ nif' = [nif EXCEPT ![p] = api]
          /\ \E timed \in TimeoutsOf(api), prog \in ProgramsOf(api) :
               req' = [req EXCEPT ![p] = [owner |-> p, serial |-> served[p] + 1, api |-> api,
                                         prog |-> prog, timed |-> timed]]
    BY Zenon, <1>1 DEF StartRequest
  <2>2. api \in {"eval", "bind", "call", "send"}
    BY TrampolineAssumption DEF AllApis
  <2>3. nif'[p] = api /\ req'[p].owner = p /\ req'[p].api = api /\ req'[p].prog \in ProgramsOf(api)
    BY <2>1
  <2>4. pc'[p] \in {"idle", "wait"}
    BY <1>1 DEF StartRequest, GetContext, Answer
  <2> QED
    BY <2>2, <2>3, <2>4
<1>2. CASE StartDestroy(p)
  BY <1>2 DEF StartDestroy
<1> QED
  BY <1>1, <1>2

LEMMA SerialJs ==
  ASSUME SerialInv, NEW p \in Procs, JsStep(p) \/ JsTimeout(p)
  PROVE  OwnRequest(p)' /\ OwnCode(p)' /\ OwnResult(p)'
<1>1. pc[p] = "js" /\ js'.req = js.req /\ UNCHANGED <<pc, nif, req>>
  BY JsMoves DEF SerialInv, HeapInv, JsStep, JsTimeout, JsCallCached, JsCallPending, JsRead,
     JsThrow, JsSpin, JsAt, JsRunning
<1>2. UNCHANGED <<callFunc, resumeCode>>
  BY DEF JsStep, JsTimeout, JsCallCached, JsCallPending, JsRead, JsThrow, JsSpin, vars, ctxVars
<1> QED
  BY <1>1, <1>2 DEF SerialInv, OwnRequest, OwnCode, OwnResult, Suspended

(* A NIF runs its own request's code, or what was kept of it.              *)
LEMMA SerialEntry ==
  ASSUME SerialInv, NEW p \in Procs, NifEntry(p)
  PROVE  OwnRequest(p)' /\ OwnCode(p)' /\ OwnResult(p)'
<1> USE DEF SerialInv, HeapInv, TypeOK, ProcType
<1> USE DEF OwnRequest, OwnCode, OwnResult, Suspended
<1>1. CASE \/ EnterRefused(p) \/ BindBadArg(p) \/ CallNotFunction(p) \/ CallBadArg(p)
           \/ SendNothing(p) \/ EnterDestroy(p) \/ CompleteRefused(p) \/ ResumeNoCode(p)
  <2>1. pc'[p] \in {"idle", "dead"}
    BY <1>1 DEF EnterRefused, BindBadArg, CallNotFunction, CallBadArg, SendNothing, EnterDestroy,
       CompleteRefused, ResumeNoCode, Answer, Badmatch, Die
  <2> QED
    BY <2>1
<1>2. CASE EnterEval(p) \/ EnterBindings(p) \/ EnterCall(p) \/ EnterSend(p)
  <2>1. /\ pc[p] = "wait" /\ nif[p] \in {"eval", "bind", "call", "send"} /\ pc'[p] = "js"
        /\ js'.req = req[p] /\ UNCHANGED <<nif, req>>
        /\ nif[p] = "call" => callFunc' = req[p]
    BY <1>2 DEF EnterEval, EnterBindings, EnterCall, EnterSend, Enter, RunJs, Frame
  <2> QED
    BY Zenon, <2>1
<1>3. CASE EnterComplete(p)
  <2>1. /\ pc[p] = "wait" /\ nif[p] = "complete" /\ pc'[p] = "completed"
        /\ UNCHANGED <<nif, req, resumeCode, callFunc>>
        /\ hasCallResult' => pendingEnv' = "result"
    BY <1>3 DEF EnterComplete, Enter
  <2> QED
    BY Zenon, <2>1
<1>4. CASE EnterResume(p)
  <2>1. /\ pc[p] = "wait" /\ nif[p] = "resume" /\ pc'[p] = "js"
        /\ UNCHANGED <<nif, req, resumeCode, callFunc>>
        /\ js'.req = IF resumeCode.kind = "apply" THEN callFunc ELSE resumeCode.req
    BY <1>4 DEF EnterResume, Enter, RunJs, Frame
  <2> QED
    BY Zenon, <2>1
<1> QED
  BY <1>1, <1>2, <1>3, <1>4 DEF NifEntry

(* What the pending call says when it is returned.                         *)
LEMMA PendingReturned ==
  ASSUME SerialInv, NEW p \in Procs, pc[p] = "js", pendingCall
  PROVE  /\ nif[p] # "send" /\ js.thrown = "sentinel"
         /\ TermRead(pendingArgs, "args") = {Site(req[p], js.at)}
         /\ js.at \in DOMAIN req[p].prog /\ req[p].prog[js.at].op = "call"
         /\ pendingIndex \notin DOMAIN results
<1>1. \A q \in Procs : pc[q] = "js" => q = p
  BY DEF SerialInv, HeapInv, HeapIsExclusive
<1> QED
  BY <1>1 DEF SerialInv, PendingInv, TermRead

LEMMA SerialReturn ==
  ASSUME SerialInv, NEW p \in Procs, NifReturn(p)
  PROVE  OwnRequest(p)' /\ OwnCode(p)' /\ OwnResult(p)'
<1> USE DEF SerialInv, HeapInv, TypeOK, ProcType
<1> USE DEF OwnRequest, OwnCode, OwnResult, Suspended
<1>1. CASE EvalOk(p) \/ EvalTimeout(p) \/ EvalError(p) \/ SendReturn(p) \/ ResumeDone(p)
  <2>1. pc'[p] = "idle"
    BY <1>1 DEF EvalOk, EvalTimeout, EvalError, SendReturn, ResumeDone, Answer
  <2> QED
    BY <2>1
<1>2. CASE EvalCallErlang(p) \/ ResumeCallErlang(p)
  <2>1. /\ pc[p] = "js" /\ pendingCall /\ ReturnCall(p)
        /\ nif[p] \in {"eval", "bind", "call", "resume"}
        /\ nif[p] # "resume" =>
             resumeCode' = IF nif[p] = "call" THEN [kind |-> "apply", req |-> NoRequest]
                           ELSE [kind |-> "eval", req |-> req[p]]
        /\ nif[p] = "resume" => UNCHANGED resumeCode
    BY <1>2 DEF EvalCallErlang, ResumeCallErlang, InEval, InResume
  <2>2. pc'[p] = "dispatch" /\ UNCHANGED <<nif, req, callFunc, pendingIndex, results>>
    BY <2>1 DEF ReturnCall
  <2>3. call'[p].site = Site(req[p], js.at)
    BY <2>1, PendingReturned DEF ReturnCall
  <2>4. req'[p] = IF resumeCode'.kind = "apply" THEN callFunc' ELSE resumeCode'.req
    BY <2>1, <2>2
  <2>5. OwnRequest(p)' /\ OwnCode(p)'
    BY Zenon, <2>1, <2>2, <2>4
  <2>6. OwnResult(p)'
    BY Zenon, <2>1, <2>2, <2>3, PendingReturned
  <2> QED
    BY <2>5, <2>6
<1> QED
  BY <1>1, <1>2 DEF NifReturn

LEMMA SerialErlang ==
  ASSUME SerialInv, NEW p \in Procs,
         Dispatch(p) \/ StartComplete(p) \/ StartResume(p) \/ Kill(p)
  PROVE  OwnRequest(p)' /\ OwnCode(p)' /\ OwnResult(p)'
<1> USE DEF SerialInv, HeapInv, TypeOK, ProcType
<1> USE DEF OwnRequest, OwnCode, OwnResult, Suspended
<1>1. CASE Dispatch(p)
  BY Zenon, <1>1 DEF Dispatch, ctxVars
<1>2. CASE StartComplete(p)
  <2>1. /\ pc[p] = "answered" /\ pc'[p] \in {"wait", "dead"} /\ nif'[p] = "complete"
        /\ UNCHANGED <<ctxVars, heapVars, req, call>>
    BY <1>2 DEF StartComplete, Badmatch, Die
  <2> QED
    BY Zenon, <2>1 DEF ctxVars
<1>3. CASE StartResume(p)
  <2>1. /\ pc[p] = "completed" /\ pc'[p] \in {"wait", "idle"} /\ nif'[p] = "resume"
        /\ UNCHANGED <<ctxVars, heapVars, req, call>>
    BY <1>3 DEF StartResume, GetContext, Answer
  <2> QED
    BY Zenon, <2>1 DEF ctxVars
<1>4. CASE Kill(p)
  BY <1>4 DEF Kill, Die
<1> QED
  BY <1>1, <1>2, <1>3, <1>4

(* Only a request that nobody overlaps becomes one.                        *)
LEMMA AloneStep ==
  ASSUME SerialCalls, SerialInv, NEW p \in Procs, Moves(p)
  PROVE  Alone'
<1>1. \A q \in Procs \ {p} : MidRequest(q)' = MidRequest(q)
  BY OthersKeep
<1>2. \A q, r \in Procs : MidRequest(q) /\ MidRequest(r) => q = r
  BY DEF SerialInv, Alone
<1>3. CASE StartRequest(p)
  <2>1. PICK api \in Apis \ {"destroy"} :
          /\ SerialUse /\ api # "send" => \A q \in Procs : ~MidRequest(q)
          /\ nif' = [nif EXCEPT ![p] = api]
    BY Zenon, <1>3 DEF StartRequest
  <2>2. nif'[p] = api
    BY <2>1 DEF SerialInv, HeapInv, TypeOK, ProcType
  <2>3. CASE api = "send"
    <3>1. ~MidRequest(p)'
      BY <2>2, <2>3 DEF MidRequest
    <3> QED
      BY <1>1, <1>2, <3>1 DEF Alone
  <2>4. CASE api # "send"
    <3>1. \A q \in Procs \ {p} : ~MidRequest(q)'
      BY <1>1, <2>1, <2>4 DEF SerialCalls
    <3> QED
      BY <3>1 DEF Alone
  <2> QED
    BY <2>3, <2>4
<1>4. CASE ~StartRequest(p)
  <2>1. MidRequest(p)' => MidRequest(p)
    <3> USE DEF SerialInv, HeapInv, TypeOK, ProcType
    <3>1. CASE StartDestroy(p) \/ Kill(p)
      BY <3>1 DEF StartDestroy, Kill, Die, MidRequest
    <3>2. CASE JsStep(p) \/ JsTimeout(p)
      BY <3>2, JsMoves DEF MidRequest
    <3>3. CASE NifReturn(p)
      BY <3>3 DEF NifReturn, EvalOk, EvalTimeout, EvalCallErlang, EvalError, SendReturn,
         ResumeCallErlang, ResumeDone, Answer, ReturnCall, InEval, InResume, MidRequest
    <3>4. CASE NifEntry(p)
      BY <3>4 DEF NifEntry, EnterRefused, EnterEval, EnterBindings, BindBadArg, EnterCall,
         CallNotFunction, CallBadArg, EnterSend, SendNothing, EnterDestroy, CompleteRefused,
         EnterComplete, ResumeNoCode, EnterResume, Enter, Answer, Badmatch, Die, MidRequest
    <3>5. CASE Dispatch(p) \/ StartComplete(p) \/ StartResume(p)
      BY Zenon, <3>5 DEF Dispatch, StartComplete, StartResume, OwnRequest, MidRequest
    <3> QED
      BY <1>4, <3>1, <3>2, <3>3, <3>4, <3>5 DEF Moves, Step
  <2> QED
    BY <1>1, <1>2, <2>1 DEF Alone
<1> QED
  BY <1>3, <1>4

(* What a request of an eval or a call runs is not caught at its calls.    *)
LEMMA CallUncaught ==
  ASSUME SerialCalls, SerialInv, NEW p \in Procs, JsAt(p, "call")
  PROVE  /\ nif[p] # "send" /\ js.req = req[p] /\ js.at \in DOMAIN req[p].prog
         /\ ~req[p].prog[js.at].catch
<1>1. pc[p] = "js" /\ js.req = req[p] /\ req[p].prog \in ProgramsOf(req[p].api)
      /\ (nif[p] = "send" <=> req[p].api = "send")
  BY DEF JsAt, JsRunning, SerialInv, OwnRequest, OwnCode
<1>2. js.at \in Nat \ {0} /\ js.at <= Len(req[p].prog) /\ req[p].prog[js.at].op = "call"
  BY <1>1 DEF JsAt, SerialInv, HeapInv, TypeOK, HeapType, Activation
<1>3. req[p].prog \in Seq(Statement)
  BY ProgType DEF SerialInv, HeapInv, TypeOK, ProcType
<1>4. js.at \in DOMAIN req[p].prog
  BY <1>2, <1>3
<1>5. nif[p] # "send" /\ req[p].prog \in EvalPrograms \cup BindPrograms
  BY <1>1, <1>2, <1>4 DEF ProgramsOf, SerialCalls
<1> QED
  BY <1>1, <1>2, <1>4, <1>5 DEF SerialCalls

LEMMA PendingStep ==
  ASSUME SerialCalls, SerialInv, NEW p \in Procs, Moves(p)
  PROVE  PendingInv'
<1> SUFFICES ASSUME pendingCall'
             PROVE  \E q \in Procs :
                      /\ pc'[q] = "js" /\ nif'[q] # "send" /\ js'.thrown = "sentinel"
                      /\ pendingEnv' = "args" /\ pendingArgs' = Site(req'[q], js'.at)
                      /\ js'.at \in DOMAIN req'[q].prog /\ req'[q].prog[js'.at].op = "call"
                      /\ pendingIndex' \notin DOMAIN results'
  BY DEF PendingInv
<1>1. CASE JsCallPending(p)
  <2>1. /\ nif[p] # "send" /\ js.req = req[p] /\ js.at \in DOMAIN req[p].prog
        /\ ~js.req.prog[js.at].catch /\ js.req.prog[js.at].op = "call" /\ pc[p] = "js"
    BY <1>1, CallUncaught DEF JsCallPending, JsAt, JsRunning
  <2>2. js' = [js EXCEPT !.thrown = "sentinel"]
    BY <1>1, <2>1 DEF JsCallPending, Throw
  <2>3. js'.thrown = "sentinel" /\ js'.at = js.at
    BY <2>2 DEF SerialInv, HeapInv, TypeOK, HeapType, Activation
  <2>4. /\ pendingEnv' = "args" /\ pendingArgs' = Site(req[p], js.at)
        /\ pendingIndex' \notin DOMAIN results' /\ UNCHANGED <<pc, nif, req>>
    BY <1>1, <2>1 DEF JsCallPending, RecordCall, Here, JsUnchanged, procVars
  <2> QED
    BY <2>1, <2>3, <2>4
<1>2. CASE ~JsCallPending(p)
  <2>1. pendingCall
    BY Zenon, <1>2 DEF Moves, Step, JsStep, StartRequest, StartDestroy, Kill, Dispatch, StartComplete,
       StartResume, JsCallCached, JsRead, JsThrow, JsSpin, JsTimeout, NifReturn, EvalOk, EvalTimeout,
       EvalCallErlang, EvalError, SendReturn, ResumeCallErlang, ResumeDone, ReturnCall, CallTaken,
       NifEntry, EnterRefused, EnterEval, EnterBindings, BindBadArg, EnterCall, CallNotFunction,
       CallBadArg, EnterSend, SendNothing, EnterDestroy, CompleteRefused, EnterComplete, ResumeNoCode,
       EnterResume, ctxVars, vars
  <2>2. PICK q \in Procs :
          /\ pc[q] = "js" /\ nif[q] # "send" /\ js.thrown = "sentinel"
          /\ pendingEnv = "args" /\ pendingArgs = Site(req[q], js.at)
          /\ js.at \in DOMAIN req[q].prog /\ req[q].prog[js.at].op = "call"
          /\ pendingIndex \notin DOMAIN results
    BY <2>1 DEF SerialInv, PendingInv
  <2>3. q # p
    <3> SUFFICES ASSUME q = p PROVE FALSE
      OBVIOUS
    <3>1. ~JsStep(p) /\ ~JsTimeout(p)
      BY <2>2, JsMoves DEF SerialInv, HeapInv
    <3>2. ~NifEntry(p) /\ ~StartRequest(p) /\ ~StartDestroy(p)
      BY <2>2 DEF NifEntry, EnterRefused, EnterEval, EnterBindings, BindBadArg, EnterCall,
         CallNotFunction, CallBadArg, EnterSend, SendNothing, EnterDestroy, CompleteRefused,
         EnterComplete, ResumeNoCode, EnterResume, Enter, StartRequest, StartDestroy
    <3>3. ~Dispatch(p) /\ ~StartComplete(p) /\ ~StartResume(p) /\ ~Kill(p)
      BY <2>2 DEF Dispatch, StartComplete, StartResume, Kill
    <3>4. NifReturn(p)
      BY <3>1, <3>2, <3>3 DEF Moves, Step
    <3>5. ~pendingCall'
      BY <2>1, <2>2, <3>4 DEF NifReturn, EvalOk, EvalTimeout, EvalCallErlang, EvalError, SendReturn,
         ResumeCallErlang, ResumeDone, ReturnCall, CallTaken, InEval, InResume, JsFinished, JsRunning
    <3> QED
      BY <3>5
  <2>4. UNCHANGED <<ctxVars, heapVars>> /\ pc'[q] = "js" /\ nif'[q] = nif[q] /\ req'[q] = req[q]
    BY <2>2, <2>3, OthersKeepHeap DEF SerialInv, Moves
  <2> QED
    BY <2>2, <2>4 DEF ctxVars, heapVars
<1> QED
  BY <1>1, <1>2

LEMMA SerialInit == Init => SerialInv
  BY HeapInit DEF Init, SerialInv, Alone, MidRequest, OwnRequest, OwnCode, OwnResult, Suspended,
     PendingInv

LEMMA SerialStep ==
  ASSUME SerialCalls, SerialInv, [Next]_vars
  PROVE  SerialInv'
<1>1. HeapInv'
  BY HeapStep DEF SerialInv
<1>2. CASE UNCHANGED vars
  BY <1>1, <1>2 DEF SerialInv, Alone, MidRequest, OwnRequest, OwnCode, OwnResult, Suspended,
     PendingInv, vars, ctxVars, heapVars, procVars
<1>3. ASSUME NEW p \in Procs, Moves(p) PROVE SerialInv'
  <2>1. OwnRequest(p)' /\ OwnCode(p)' /\ OwnResult(p)'
    BY <1>3, SerialStart, SerialJs, SerialEntry, SerialReturn, SerialErlang DEF Moves, Step
  <2>2. ASSUME NEW q \in Procs \ {p} PROVE OwnRequest(q)' /\ OwnCode(q)' /\ OwnResult(q)'
    BY <1>3, OthersKeep
  <2>3. Alone' /\ PendingInv'
    BY <1>3, AloneStep, PendingStep
  <2> QED
    BY <1>1, <2>1, <2>2, <2>3 DEF SerialInv
<1> QED
  BY <1>2, <1>3 DEF Next, Finished, Moves

LEMMA SerialAlways ==
  ASSUME SerialCalls
  PROVE  Spec => []SerialInv
<1>1. SerialInv /\ [Next]_vars => SerialInv'
  BY SerialStep
<1> QED
  BY SerialInit, <1>1, PTL DEF Spec

(* A suspended request keeps its code, the index of its call and every     *)
(* result stored so far, whatever step of whatever process is taken.       *)
LEMMA KeptStep ==
  ASSUME SerialCalls, SerialInv, NEW p \in Procs, Moves(p),
         NEW q \in Procs, Suspended(q), Suspended(q)'
  PROVE  /\ pendingIndex' = pendingIndex
         /\ resumeCode' = resumeCode
         /\ \A i \in DOMAIN results : i \in DOMAIN results' /\ results'[i] = results[i]
<1>1. MidRequest(q)
  BY DEF SerialInv, OwnRequest, Suspended, MidRequest
<1>2. CASE q # p
  BY <1>1, <1>2, OthersKeep DEF ctxVars
<1>3. CASE q = p /\ EnterComplete(p)
  <2>1. pendingIndex \notin DOMAIN results /\ UNCHANGED <<pendingIndex, resumeCode>>
    BY <1>3 DEF EnterComplete, Enter, SerialInv, OwnResult
  <2>2. results' = results \/ results' = StoredResult(p)
    BY <1>3 DEF EnterComplete
  <2> QED
    BY <2>1, <2>2 DEF StoredResult, Store, Remove
<1>4. CASE q = p /\ ~EnterComplete(p)
  <2>1. pc[p] # "js" /\ pc'[p] \notin {"idle", "dead", "js"}
    BY <1>4 DEF Suspended
  <2>2. ~JsStep(p) /\ ~JsTimeout(p) /\ ~NifReturn(p)
    BY <2>1 DEF JsStep, JsTimeout, JsCallCached, JsCallPending, JsRead, JsThrow, JsSpin, JsAt,
       JsRunning, NifReturn, EvalOk, EvalTimeout, EvalCallErlang, EvalError, SendReturn,
       ResumeCallErlang, ResumeDone, InEval, InResume
  <2>3. ~NifEntry(p)
    BY <1>4, <2>1 DEF NifEntry, EnterRefused, EnterEval, EnterBindings, BindBadArg, EnterCall,
       CallNotFunction, CallBadArg, EnterSend, SendNothing, EnterDestroy, CompleteRefused,
       ResumeNoCode, EnterResume, RunJs, Answer, Badmatch, Die, SerialInv, HeapInv, TypeOK, ProcType
  <2>4. UNCHANGED ctxVars
    BY <2>2, <2>3 DEF Moves, Step, StartRequest, StartDestroy, Kill, Dispatch, StartComplete,
       StartResume
  <2> QED
    BY <2>4 DEF ctxVars
<1> QED
  BY <1>2, <1>3, <1>4

-----------------------------------------------------------------------------
(* The Erlang function a process is asked to run was called by a statement *)
(* of the request it serves.                                               *)
THEOREM CallsAreOwn ==
  ASSUME SerialCalls
  PROVE  Spec => []OwnCalls
<1>1. SerialInv => OwnCalls
  BY DEF SerialInv, OwnResult, OwnCalls
<1> QED
  BY SerialAlways, <1>1, PTL

(* A pending call is returned, and an error thrown, while its term lives:  *)
(* the one environment for both is never cleared between the two.          *)
THEOREM TermsStayAlive ==
  ASSUME SerialCalls
  PROVE  Spec => []PendingTermsLive
<1>1. SerialInv => PendingTermsLive
  BY DEF SerialInv, OwnResult, PendingInv, PendingTermsLive
<1> QED
  BY SerialAlways, <1>1, PTL

(* While a request waits for its Erlang function nothing it needs is lost, *)
(* to a send, a destroy or another process that dies.                      *)
THEOREM SuspensionIsKept ==
  ASSUME SerialCalls
  PROVE  Spec => SuspensionKept
<1> DEFINE Keeps ==
      \A p \in Procs : Suspended(p) /\ Suspended(p)' =>
          /\ pendingIndex' = pendingIndex
          /\ resumeCode' = resumeCode
          /\ \A i \in DOMAIN results : /\ i \in DOMAIN results'
                                       /\ results'[i] = results[i]
<1>1. SerialInv /\ [Next]_vars => [Keeps]_vars
  <2> SUFFICES ASSUME SerialInv, Next, vars' # vars PROVE Keeps
    OBVIOUS
  <2>1. PICK p \in Procs : Moves(p)
    BY DEF Next, Finished, Moves
  <2> QED
    BY <2>1, KeptStep
<1> QED
  BY SerialAlways, <1>1, PTL DEF Spec, SuspensionKept

-----------------------------------------------------------------------------
(* Evaluations that do not overlap implement SyncEval: the trampoline with *)
(* its recorded calls, cached answers and replays is, to its callers, one  *)
(* run of the JavaScript that calls each Erlang function once.             *)


(* The use that implements SyncEval.  Besides SerialCalls: a function      *)
(* returns a value or raises an error, no throw stands in a try/catch,     *)
(* only programs run with bindings read variables, and the history is long *)
(* enough to hold the calls of a request.                                  *)
SyncPrograms ==
    /\ SerialCalls
    /\ "undefined" \notin Outcomes
    /\ \A prog \in EvalPrograms \cup BindPrograms :
         /\ Len(prog) <= HistoryBound
         /\ \A i \in DOMAIN prog : prog[i].op = "throw" => ~prog[i].catch
    /\ \A prog \in EvalPrograms : \A i \in DOMAIN prog : prog[i].op # "read"

(* Every statement before position at is one that JavaScript goes past.    *)
Passed(prog, at) ==
    \A i \in DOMAIN prog : i < at => prog[i].op \in {"call", "read"}

(* Position at comes after n calls and their variables, and nothing else.  *)
AfterCalls(prog, at, n) ==
    /\ at \in 1..(Len(prog) + 1)
    /\ Passed(prog, at)
    /\ Cardinality(CallsBefore(prog, at)) = n

IsCall(r, site, n) ==
    \E at \in DOMAIN r.prog : /\ r.prog[at].op = "call"
                              /\ AfterCalls(r.prog, at, n)
                              /\ site = Site(r, at)

Served(p) == Len(dispatched[p])

(* The functions p has run are the first calls of its program, once each;  *)
(* only the last may have raised an error.                                 *)
CallsInOrder(p) ==
    \A i \in DOMAIN dispatched[p] :
        /\ IsCall(req[p], dispatched[p][i].site, i - 1)
        /\ dispatched[p][i].kind = "value"
             \/ (dispatched[p][i].kind = "error" /\ i = Served(p))

(* The first n answers are what the trampoline will find.                  *)
Cached(p, n) ==
    /\ DOMAIN results = 0..(n - 1)
    /\ \A i \in 0..(n - 1) : results[i] = dispatched[p][i + 1]

ValuesUpTo(p, n) == \A i \in 1..n : dispatched[p][i].kind = "value"

(* The call at site is the next one: all before it have given values.      *)
NextCall(p, site) ==
    /\ IsCall(req[p], site, Served(p))
    /\ pendingIndex = Served(p)
    /\ ValuesUpTo(p, Served(p))

OwnValues(r, n) ==
    [i \in 1..n |-> [kind |-> "value", site |-> Site(r, i), at |-> i]]

(* A pass, first or resumed, between two statements: it has read the       *)
(* answers of the calls behind it, and given each statement its own.       *)
PassRuns(p) ==
    /\ AfterCalls(req[p].prog, js.at, callIndex)
    /\ callIndex <= Served(p)
    /\ ValuesUpTo(p, callIndex)
    /\ js.got = OwnValues(req[p], js.at - 1)

(* A pass that an exception has ended, by what was thrown.                 *)
PassThrown(p) ==
    /\ js.thrown = "sentinel" => pendingCall /\ NextCall(p, Site(req[p], js.at))
    /\ js.thrown = "error" => \E i \in DOMAIN dispatched[p] : dispatched[p][i].kind = "error"
    /\ js.thrown = "throw" => /\ js.at \in DOMAIN req[p].prog
                              /\ req[p].prog[js.at].op = "throw"
                              /\ AfterCalls(req[p].prog, js.at, Served(p))
    /\ js.thrown = "timeout" => req[p].timed /\ nif[p] # "resume"

PassInv(p) ==
    /\ Cached(p, Served(p))
    /\ nif[p] # "resume" => Served(p) = 0
    /\ js.thrown = "none" => PassRuns(p)
    /\ PassThrown(p)

(* Between two passes: the call is recorded, answered, and stored; an      *)
(* error waits in call_result until the resume stores it.                  *)
AnsweredInv(p) ==
    /\ Served(p) > 0
    /\ call[p] = dispatched[p][Served(p)]
    /\ pendingIndex = Served(p) - 1
    /\ Cached(p, Served(p) - 1)

CompletedInv(p) ==
    IF hasCallResult
    THEN /\ Served(p) > 0
         /\ dispatched[p][Served(p)] = [kind |-> "error", site |-> callResult]
         /\ pendingIndex = Served(p) - 1
         /\ Cached(p, Served(p) - 1)
    ELSE Cached(p, Served(p))

ServesInv(p) ==
    /\ reply[p] = NoReply
    /\ nif[p] \in {"eval", "bind", "call"} => req[p].api = nif[p]
    /\ pc[p] = "wait" /\ nif[p] \in {"eval", "bind", "call"} => Served(p) = 0
    /\ CallsInOrder(p)
    /\ (Suspended(p) \/ pc[p] = "js") /\ req[p].api = "bind" => binding = req[p]
    /\ pc[p] = "js" => PassInv(p)
    /\ pc[p] = "dispatch" => Cached(p, Served(p)) /\ NextCall(p, call[p].site)
    /\ pc[p] = "answered" \/ (pc[p] = "wait" /\ nif[p] = "complete") => AnsweredInv(p)
    /\ pc[p] = "completed" \/ (pc[p] = "wait" /\ nif[p] = "resume") => CompletedInv(p)

SyncInv == /\ SerialInv
           /\ \A p \in Procs : MidRequest(p) => ServesInv(p)
           /\ \A p \in Procs : req[p].serial <= served[p]

-----------------------------------------------------------------------------
(* The calls of a program in order *)

LEMMA CallsAreCounted ==
  ASSUME NEW prog \in Seq(Statement), NEW a \in Nat \ {0}, NEW b \in Nat \ {0}, a <= b
  PROVE  /\ Cardinality(CallsBefore(prog, a)) \in Nat
         /\ Cardinality(CallsBefore(prog, a)) <= a - 1
         /\ Cardinality(CallsBefore(prog, a)) <= Cardinality(CallsBefore(prog, b))
         /\ a < b /\ a <= Len(prog) /\ prog[a].op = "call" =>
              Cardinality(CallsBefore(prog, a)) < Cardinality(CallsBefore(prog, b))
<1>1. CallsBefore(prog, a) \subseteq 1..(a - 1) /\ CallsBefore(prog, b) \subseteq 1..(b - 1)
  BY DEF CallsBefore
<1>2. IsFiniteSet(1..(a - 1)) /\ IsFiniteSet(1..(b - 1)) /\ Cardinality(1..(a - 1)) = a - 1
  <2>1. IF 1 > a - 1 THEN Cardinality(1..(a - 1)) = 0 ELSE Cardinality(1..(a - 1)) = (a - 1) - 1 + 1
    BY FS_Interval
  <2> QED
    BY <2>1, FS_Interval
<1>3. IsFiniteSet(CallsBefore(prog, a)) /\ IsFiniteSet(CallsBefore(prog, b))
  BY <1>1, <1>2, FS_Subset
<1>4. Cardinality(CallsBefore(prog, a)) \in Nat /\ Cardinality(CallsBefore(prog, b)) \in Nat
  BY <1>3, FS_CardinalityType
<1>5. Cardinality(CallsBefore(prog, a)) <= a - 1
  BY <1>1, <1>2, FS_Subset
<1>6. Cardinality(CallsBefore(prog, a)) <= Cardinality(CallsBefore(prog, b))
  <2>1. CallsBefore(prog, a) \subseteq CallsBefore(prog, b)
    BY DEF CallsBefore
  <2> QED
    BY <1>3, <2>1, FS_Subset
<1>7. ASSUME a < b, a <= Len(prog), prog[a].op = "call"
      PROVE  Cardinality(CallsBefore(prog, a)) < Cardinality(CallsBefore(prog, b))
  <2>1. CallsBefore(prog, a) \subseteq CallsBefore(prog, b) /\ a \in CallsBefore(prog, b)
        /\ a \notin CallsBefore(prog, a)
    BY <1>7 DEF CallsBefore
  <2>2. CallsBefore(prog, a) # CallsBefore(prog, b)
    BY <2>1
  <2>3. Cardinality(CallsBefore(prog, a)) # Cardinality(CallsBefore(prog, b))
    BY <1>3, <2>1, <2>2, FS_Subset
  <2> QED
    BY <1>4, <1>6, <2>3
<1> QED
  BY <1>4, <1>5, <1>6, <1>7

(* The three facts apart, as the proofs below cite them.                   *)
LEMMA CallsBeforeCount ==
  ASSUME NEW prog \in Seq(Statement), NEW a \in Nat \ {0}
  PROVE  /\ Cardinality(CallsBefore(prog, a)) \in Nat
         /\ Cardinality(CallsBefore(prog, a)) <= a - 1
<1>1. a <= a
  OBVIOUS
<1> QED
  BY <1>1, CallsAreCounted

LEMMA CallsBeforeGrow ==
  ASSUME NEW prog \in Seq(Statement), NEW a \in Nat \ {0}, NEW b \in Nat \ {0}, a <= b
  PROVE  Cardinality(CallsBefore(prog, a)) <= Cardinality(CallsBefore(prog, b))
  BY CallsAreCounted

LEMMA CallsBeforeLater ==
  ASSUME NEW prog \in Seq(Statement), NEW a \in Nat \ {0}, NEW b \in Nat \ {0}, a < b,
         a <= Len(prog), prog[a].op = "call"
  PROVE  Cardinality(CallsBefore(prog, a)) < Cardinality(CallsBefore(prog, b))
<1>1. a <= b
  OBVIOUS
<1> QED
  BY <1>1, CallsAreCounted

(* A call is known by the number of calls before it.                       *)
LEMMA OneCallPerIndex ==
  ASSUME NEW prog \in Seq(Statement), NEW a \in DOMAIN prog, NEW b \in DOMAIN prog,
         prog[a].op = "call", prog[b].op = "call",
         Cardinality(CallsBefore(prog, a)) = Cardinality(CallsBefore(prog, b))
  PROVE  a = b
<1>1. a \in Nat \ {0} /\ b \in Nat \ {0} /\ a <= Len(prog) /\ b <= Len(prog)
  OBVIOUS
<1>2. /\ Cardinality(CallsBefore(prog, a)) \in Nat
      /\ Cardinality(CallsBefore(prog, b)) \in Nat
  BY <1>1, CallsBeforeCount
<1>3. ASSUME a < b PROVE FALSE
  <2>1. Cardinality(CallsBefore(prog, a)) < Cardinality(CallsBefore(prog, b))
    BY <1>1, <1>3, CallsBeforeLater
  <2> QED
    BY <1>2, <2>1
<1>4. ASSUME b < a PROVE FALSE
  <2>1. Cardinality(CallsBefore(prog, b)) < Cardinality(CallsBefore(prog, a))
    BY <1>1, <1>4, CallsBeforeLater
  <2> QED
    BY <1>2, <2>1
<1> QED
  BY <1>1, <1>3, <1>4

(* SyncEval's next statement is the one that comes after all the calls     *)
(* made, past the variables that follow them.                              *)
LEMMA NextAtAfterCalls ==
  ASSUME NEW p \in Procs, NEW at, req[p].prog \in Seq(Statement), dispatched[p] \in Seq(Call),
         CallsInOrder(p), AfterCalls(req[p].prog, at, Served(p)),
         at \in DOMAIN req[p].prog => req[p].prog[at].op # "read"
  PROVE  Sync!NextAt(p) = at
<1> DEFINE prog == req[p].prog
           d    == dispatched[p]
           from == IF d = <<>> THEN 1 ELSE Sync!LastCall(p).site[3] + 1
           rest == {i \in from..Len(prog) : prog[i].op # "read"}
<1> prog \in Seq(Statement) /\ Len(prog) \in Nat /\ Len(d) \in Nat /\ Served(p) = Len(d)
  BY DEF Served
<1>1. at \in 1..(Len(prog) + 1) /\ Passed(prog, at) /\ Cardinality(CallsBefore(prog, at)) = Len(d)
  BY DEF AfterCalls, Served
<1>2. from \in 1..at /\ \A b \in from..(at - 1) : Len(d) <= Cardinality(CallsBefore(prog, b))
  <2>1. CASE d = <<>>
    <3>1. from = 1 /\ Len(d) = 0
      BY <2>1
    <3>2. ASSUME NEW b \in 1..(at - 1)
          PROVE  0 <= Cardinality(CallsBefore(prog, b))
      <4>1. b \in Nat \ {0}
        BY <1>1, <3>2
      <4>2. Cardinality(CallsBefore(prog, b)) \in Nat
        BY <4>1, CallsBeforeCount
      <4> QED
        BY <4>2
    <3> QED
      BY <1>1, <3>1, <3>2
  <2>2. CASE d # <<>>
    <3>1. Len(d) \in DOMAIN d
      BY <2>2
    <3>2. PICK a \in DOMAIN prog : /\ prog[a].op = "call" /\ AfterCalls(prog, a, Len(d) - 1)
                                   /\ d[Len(d)].site = Site(req[p], a)
      BY <3>1 DEF CallsInOrder, IsCall
    <3>3. from = a + 1 /\ a \in 1..Len(prog)
      BY <2>2, <3>2 DEF Sync!LastCall, Site
    <3>4. Cardinality(CallsBefore(prog, a)) = Len(d) - 1
      BY <3>2 DEF AfterCalls
    <3>5. a < at
      <4> SUFFICES ASSUME at <= a PROVE FALSE
        BY <1>1, <3>3
      <4>1. at \in Nat \ {0} /\ a \in Nat \ {0} /\ at <= a
        BY <1>1, <3>3
      <4>2. Cardinality(CallsBefore(prog, at)) <= Cardinality(CallsBefore(prog, a))
        BY <4>1, CallsBeforeGrow
      <4> QED
        BY <1>1, <3>4, <4>2
    <3>6. ASSUME NEW b \in (a + 1)..(at - 1)
          PROVE  Len(d) <= Cardinality(CallsBefore(prog, b))
      <4>1. a \in Nat \ {0} /\ b \in Nat \ {0} /\ a < b /\ a <= Len(prog)
        BY <1>1, <3>3
      <4>2. Cardinality(CallsBefore(prog, a)) < Cardinality(CallsBefore(prog, b))
        BY <3>2, <4>1, CallsBeforeLater
      <4>3. Cardinality(CallsBefore(prog, b)) \in Nat
        BY <4>1, CallsBeforeCount
      <4> QED
        BY <3>4, <4>2, <4>3
    <3> QED
      BY <1>1, <3>3, <3>5, <3>6
  <2> QED
    BY <2>1, <2>2
<1>3. ASSUME NEW b \in from..(at - 1) PROVE prog[b].op = "read"
  <2>1. b \in 1..Len(prog) /\ b < at /\ b \in Nat \ {0} /\ at \in Nat \ {0} /\ b <= at
    BY <1>1, <1>2
  <2>2. prog[b].op \in {"call", "read"}
    BY <1>1, <2>1 DEF Passed
  <2>3. prog[b].op = "call" =>
          Cardinality(CallsBefore(prog, b)) < Cardinality(CallsBefore(prog, at))
    BY <2>1, CallsBeforeLater
  <2>4. Cardinality(CallsBefore(prog, b)) \in Nat
    BY <2>1, CallsBeforeCount
  <2>5. Len(d) <= Cardinality(CallsBefore(prog, b))
    BY <1>2
  <2> QED
    BY <1>1, <2>2, <2>3, <2>4, <2>5
<1>4. Sync!NextAt(p) = IF rest = {} THEN Len(prog) + 1
                       ELSE CHOOSE i \in rest : \A j \in rest : i <= j
  BY DEF Sync!NextAt
<1> HIDE DEF prog, d, from
<1>5. CASE at = Len(prog) + 1
  BY <1>1, <1>2, <1>3, <1>4, <1>5
<1>6. CASE at \in 1..Len(prog)
  <2>1. at \in rest /\ \A j \in rest : at <= j
    <3>1. prog[at].op # "read"
      BY <1>6 DEF prog
    <3> QED
      BY <1>1, <1>2, <1>3, <1>6, <3>1
  <2>2. \A i \in rest : (\A j \in rest : i <= j) => i = at
    BY <1>2, <2>1
  <2>3. (CHOOSE i \in rest : \A j \in rest : i <= j) = at
    BY <2>1, <2>2
  <2> QED
    BY <1>4, <2>1, <2>3
<1>7. Len(prog) \in Nat /\ at \in 1..(Len(prog) + 1)
  BY <1>1
<1>8. at = Len(prog) + 1 \/ at \in 1..Len(prog)
  BY <1>7
<1> QED
  BY <1>5, <1>6, <1>8

(* Where the program throws or ends, every function called has answered.   *)
LEMMA EndedAfterCalls ==
  ASSUME NEW p \in Procs, NEW at \in Nat \ {0}, req[p].prog \in Seq(Statement), dispatched[p] \in Seq(Call),
         CallsInOrder(p), AfterCalls(req[p].prog, at, callIndex), callIndex <= Served(p),
         at \in DOMAIN req[p].prog => req[p].prog[at].op \notin {"call", "read"}
  PROVE  callIndex = Served(p)
<1> DEFINE prog == req[p].prog
<1>1. /\ Served(p) \in Nat /\ Len(prog) \in Nat /\ Cardinality(CallsBefore(prog, at)) = callIndex
      /\ callIndex \in Nat
  <2>1. Cardinality(CallsBefore(prog, at)) \in Nat
    BY CallsBeforeCount
  <2> QED
    BY <2>1 DEF Served, AfterCalls
<1>2. CASE Served(p) = 0
  BY <1>1, <1>2
<1>3. CASE Served(p) > 0
  <2>1. Served(p) \in DOMAIN dispatched[p]
    BY <1>1, <1>3 DEF Served
  <2>2. PICK a \in DOMAIN prog : prog[a].op = "call" /\ AfterCalls(prog, a, Served(p) - 1)
    BY <2>1 DEF CallsInOrder, IsCall
  <2>3. a \in 1..Len(prog) /\ Cardinality(CallsBefore(prog, a)) = Served(p) - 1
    BY <2>2 DEF AfterCalls
  <2>4. a < at
    <3> SUFFICES ASSUME at <= a PROVE FALSE
      BY <2>3
    <3>1. at \in DOMAIN prog
      BY <2>3
    <3>2. prog[at].op \in {"call", "read"}
      <4>1. CASE at = a
        BY <2>2, <4>1
      <4>2. CASE at < a
        BY <2>2, <3>1, <4>2 DEF AfterCalls, Passed
      <4> QED
        BY <2>3, <4>1, <4>2
    <3> QED
      BY <3>1, <3>2
  <2>5. Served(p) - 1 < callIndex
    <3>1. a \in Nat \ {0} /\ at \in Nat \ {0} /\ a < at /\ a <= Len(prog)
      BY <2>3, <2>4
    <3>2. Cardinality(CallsBefore(prog, a)) < Cardinality(CallsBefore(prog, at))
      BY <2>2, <3>1, CallsBeforeLater
    <3> QED
      BY <1>1, <2>3, <3>2
  <2> QED
    BY <1>1, <2>5
<1> QED
  BY <1>1, <1>2, <1>3

-----------------------------------------------------------------------------
(* The invariant, step by step *)

(* All that p has done and waits for is in these.                          *)
LEMMA ServesKept ==
  ASSUME NEW p \in Procs, ServesInv(p), UNCHANGED ctxVars, pc[p] = "js" => js' = js,
         pc'[p] = pc[p], nif'[p] = nif[p], req'[p] = req[p], call'[p] = call[p],
         reply'[p] = reply[p], dispatched'[p] = dispatched[p]
  PROVE  ServesInv(p)'
<1>1. CallsInOrder(p)' /\ Served(p)' = Served(p)
  BY DEF ServesInv, CallsInOrder, Served
<1>2. \A n : (Cached(p, n) => Cached(p, n)') /\ (ValuesUpTo(p, n) => ValuesUpTo(p, n)')
  BY DEF Cached, ValuesUpTo, ctxVars
<1>3. \A site : NextCall(p, site) => NextCall(p, site)'
  BY <1>1, <1>2 DEF NextCall, ctxVars
<1>4. AnsweredInv(p) => AnsweredInv(p)'
  BY <1>1, <1>2 DEF AnsweredInv, ctxVars
<1>5. CompletedInv(p) => CompletedInv(p)'
  BY <1>1, <1>2 DEF CompletedInv, ctxVars
<1>6. pc[p] = "js" /\ PassInv(p) => PassInv(p)'
  <2> SUFFICES ASSUME pc[p] = "js", PassInv(p) PROVE PassInv(p)'
    OBVIOUS
  <2>1. PassRuns(p) => PassRuns(p)'
    BY <1>1, <1>2 DEF PassRuns, ctxVars
  <2>2. PassThrown(p)'
    BY <1>1, <1>3 DEF PassInv, PassThrown, ctxVars
  <2> QED
    BY <1>1, <1>2, <2>1, <2>2 DEF PassInv, ctxVars
<1>7. Suspended(p)' = Suspended(p)
  BY DEF Suspended
<1> QED
  BY <1>1, <1>2, <1>3, <1>4, <1>5, <1>6, <1>7 DEF ServesInv, ctxVars

(* What others do does not change it.                                      *)
LEMMA OthersKeepServes ==
  ASSUME SyncPrograms, SyncInv, NEW p \in Procs, NEW q \in Procs \ {p}, Moves(q),
         MidRequest(p)
  PROVE  ServesInv(p)'
<1>1. /\ pc'[p] = pc[p] /\ nif'[p] = nif[p] /\ req'[p] = req[p] /\ call'[p] = call[p]
      /\ reply'[p] = reply[p] /\ dispatched'[p] = dispatched[p]
  BY OthersKeepProcess DEF Moves, SyncInv, SerialInv, HeapInv
<1>2. UNCHANGED ctxVars
  BY OthersKeep DEF SyncPrograms, SyncInv
<1>3. pc[p] = "js" => js' = js
  BY OthersKeepHeap DEF Moves, SyncInv, SerialInv, heapVars
<1> QED
  BY <1>1, <1>2, <1>3, ServesKept DEF SyncInv

(* What is known while p's JavaScript runs.                                *)
LEMMA RunningPass ==
  ASSUME SyncPrograms, SyncInv, NEW p \in Procs, MidRequest(p), JsRunning(p)
  PROVE  /\ pc[p] = "js" /\ js.thrown = "none" /\ js.req = req[p] /\ nif[p] # "send"
         /\ req[p].api # "send" /\ req[p] # NoRequest
         /\ req[p].prog \in Seq(Statement) /\ js.at \in Nat \ {0}
         /\ req[p].prog \in IF req[p].api = "bind" THEN BindPrograms ELSE EvalPrograms
         /\ PassInv(p) /\ PassRuns(p) /\ CallsInOrder(p)
         /\ req[p].api = "bind" => binding = req[p]
         /\ js \in Activation /\ js.got \in Seq(Got) /\ callIndex \in Nat /\ Served(p) \in Nat
<1>1. pc[p] = "js" /\ js.thrown = "none" /\ nif[p] \notin {"send", "destroy"}
  BY DEF JsRunning, MidRequest
<1>2. OwnRequest(p) /\ OwnCode(p) /\ ServesInv(p) /\ HeapInv
  BY DEF SyncInv, SerialInv
<1>3. js.req = req[p] /\ req[p].owner = p /\ req[p].api # "send"
      /\ req[p].prog \in ProgramsOf(req[p].api)
  BY <1>1, <1>2 DEF OwnRequest, OwnCode
<1>4. req[p] # NoRequest
  BY <1>3, TrampolineAssumption DEF NoRequest
<1>5. req[p].prog \in IF req[p].api = "bind" THEN BindPrograms ELSE EvalPrograms
  BY <1>3 DEF ProgramsOf
<1>6. req[p].prog \in Seq(Statement)
  BY <1>5, TrampolineAssumption
<1>7. js \in Activation /\ callIndex \in Nat /\ dispatched[p] \in Seq(Call)
  BY <1>2 DEF HeapInv, TypeOK, HeapType, CtxType, ProcType
<1>8. js.at \in Nat \ {0} /\ js.got \in Seq(Got) /\ Served(p) \in Nat
  BY <1>7 DEF Activation, Served
<1>9. PassInv(p) /\ PassRuns(p) /\ CallsInOrder(p)
  BY <1>1, <1>2 DEF ServesInv, PassInv
<1> QED
  BY <1>1, <1>2, <1>3, <1>4, <1>5, <1>6, <1>7, <1>8, <1>9 DEF ServesInv

(* A statement that gives its own value takes the pass one further.        *)
LEMMA PassContinues ==
  ASSUME SyncPrograms, SyncInv, NEW p \in Procs, MidRequest(p), JsRunning(p),
         js.at <= Len(req[p].prog), req[p].prog[js.at].op \in {"call", "read"},
         Continue("value", Site(req[p], js.at)), UNCHANGED <<req, dispatched>>,
         callIndex' = IF req[p].prog[js.at].op = "call" THEN callIndex + 1 ELSE callIndex,
         callIndex' <= Served(p), ValuesUpTo(p, callIndex')
  PROVE  PassRuns(p)' /\ js'.thrown = "none"
<1> DEFINE prog == req[p].prog
<1>1. /\ prog \in Seq(Statement) /\ js.at \in Nat \ {0} /\ js \in Activation /\ js.thrown = "none"
      /\ js.got \in Seq(Got) /\ js.got = OwnValues(req[p], js.at - 1)
      /\ AfterCalls(prog, js.at, callIndex) /\ Served(p)' = Served(p)
  BY RunningPass DEF PassRuns, Served
<1>2. /\ js'.at = js.at + 1 /\ js'.thrown = "none"
      /\ js'.got = Append(js.got, [kind |-> "value", site |-> Site(req[p], js.at), at |-> js.at])
  BY <1>1 DEF Continue, Activation
<1>3. AfterCalls(prog, js.at + 1, callIndex')
  <2>1. Passed(prog, js.at + 1)
    BY <1>1 DEF Passed, AfterCalls
  <2>2. Cardinality(CallsBefore(prog, js.at + 1)) = callIndex'
    BY Zenon, <1>1, CallsBeforeNext DEF AfterCalls
  <2> QED
    BY <1>1, <2>1, <2>2 DEF AfterCalls
<1>4. js'.got = OwnValues(req[p], js.at)
  <2>1. Len(js.got) = js.at - 1
    BY <1>1 DEF OwnValues
  <2>2. DOMAIN js'.got = 1..js.at
    BY <1>1, <1>2, <2>1
  <2>3. \A i \in 1..js.at :
          js'.got[i] = [kind |-> "value", site |-> Site(req[p], i), at |-> i]
    BY <1>1, <1>2, <2>1 DEF OwnValues
  <2>4. js'.got = [i \in DOMAIN js'.got |-> js'.got[i]]
    BY <1>1, <1>2
  <2> QED
    BY Zenon, <2>2, <2>3, <2>4 DEF OwnValues
<1>5. ValuesUpTo(p, callIndex)'
  BY DEF ValuesUpTo
<1> QED
  BY <1>1, <1>2, <1>3, <1>4, <1>5 DEF PassRuns

(* The answer found at the index of a call is that call's.                 *)
LEMMA AnswerIsOwn ==
  ASSUME SyncPrograms, SyncInv, NEW p \in Procs, MidRequest(p), JsAt(p, "call"),
         callIndex \in DOMAIN results
  PROVE  /\ callIndex + 1 \in DOMAIN dispatched[p]
         /\ results[callIndex] = dispatched[p][callIndex + 1]
         /\ results[callIndex].site = Site(req[p], js.at)
         /\ results[callIndex].kind \in {"value", "error"}
<1>1. JsRunning(p)
  BY DEF JsAt
<1>2. /\ req[p].prog \in Seq(Statement) /\ js.at \in Nat \ {0} /\ js.req = req[p]
      /\ callIndex \in Nat /\ Served(p) \in Nat /\ CallsInOrder(p)
      /\ AfterCalls(req[p].prog, js.at, callIndex) /\ Cached(p, Served(p))
  BY <1>1, RunningPass DEF PassInv, PassRuns
<1>3. callIndex \in 0..(Served(p) - 1) /\ callIndex + 1 \in DOMAIN dispatched[p]
      /\ results[callIndex] = dispatched[p][callIndex + 1]
  <2>1. dispatched[p] \in Seq(Call)
    BY DEF SyncInv, SerialInv, HeapInv, TypeOK, ProcType
  <2> QED
    BY <1>2, <2>1 DEF Cached, Served
<1>4. IsCall(req[p], results[callIndex].site, callIndex)
      /\ results[callIndex].kind \in {"value", "error"}
  BY <1>2, <1>3 DEF CallsInOrder
<1>5. PICK at \in DOMAIN req[p].prog : /\ req[p].prog[at].op = "call"
                                       /\ AfterCalls(req[p].prog, at, callIndex)
                                       /\ results[callIndex].site = Site(req[p], at)
  BY <1>4 DEF IsCall
<1>6. js.at \in DOMAIN req[p].prog /\ req[p].prog[js.at].op = "call"
  BY <1>2 DEF JsAt
<1>7. at = js.at
  BY <1>2, <1>5, <1>6, OneCallPerIndex DEF AfterCalls
<1> QED
  BY <1>3, <1>4, <1>5, <1>7

LEMMA PassJs ==
  ASSUME SyncPrograms, SyncInv, NEW p \in Procs, MidRequest(p), JsStep(p) \/ JsTimeout(p)
  PROVE  (js'.thrown = "none" => PassRuns(p)') /\ PassThrown(p)'
<1>1. JsRunning(p) /\ UNCHANGED <<pc, nif, req, dispatched>>
  BY DEF JsStep, JsTimeout, JsCallCached, JsCallPending, JsRead, JsThrow, JsSpin, JsAt,
     JsUnchanged, procVars, vars, JsRunning
<1>2. /\ pc[p] = "js" /\ js.thrown = "none" /\ js.req = req[p] /\ nif[p] # "send"
      /\ req[p].api # "send" /\ req[p] # NoRequest
      /\ req[p].prog \in Seq(Statement) /\ js.at \in Nat \ {0}
      /\ req[p].prog \in IF req[p].api = "bind" THEN BindPrograms ELSE EvalPrograms
      /\ PassInv(p) /\ PassRuns(p) /\ CallsInOrder(p)
      /\ req[p].api = "bind" => binding = req[p]
      /\ js \in Activation /\ callIndex \in Nat /\ Served(p) \in Nat /\ Served(p)' = Served(p)
  BY <1>1, RunningPass DEF Served
<1>3. \A kind : js' = [js EXCEPT !.thrown = kind] => js'.thrown = kind /\ js'.at = js.at
  BY <1>2 DEF Activation
<1>4. CASE JsCallCached(p)
  <2>1. /\ JsAt(p, "call") /\ callIndex \in DOMAIN results /\ callIndex' = callIndex + 1
        /\ IF results[callIndex].kind = "error" THEN Throw("error", results[callIndex].site)
           ELSE Continue("value", results[callIndex].site)
    BY <1>4 DEF JsCallCached
  <2>2. /\ callIndex + 1 \in DOMAIN dispatched[p]
        /\ results[callIndex] = dispatched[p][callIndex + 1]
        /\ results[callIndex].site = Site(req[p], js.at)
        /\ results[callIndex].kind \in {"value", "error"}
    BY <2>1, AnswerIsOwn
  <2>3. CASE results[callIndex].kind = "error"
    <3>1. ~req[p].prog[js.at].catch
      BY <2>1, CallUncaught DEF SyncPrograms, SyncInv
    <3>2. js' = [js EXCEPT !.thrown = "error"]
      BY <1>2, <2>1, <2>3, <3>1 DEF Throw
    <3>3. js'.thrown = "error"
      BY <1>3, <3>2
    <3>4. dispatched'[p][callIndex + 1].kind = "error" /\ callIndex + 1 \in DOMAIN dispatched'[p]
      BY <1>1, <2>2, <2>3
    <3> QED
      BY <3>3, <3>4 DEF PassThrown
  <2>4. CASE results[callIndex].kind = "value"
    <3>1. Continue("value", Site(req[p], js.at))
      BY <2>1, <2>2, <2>4
    <3>2. js.at <= Len(req[p].prog) /\ req[p].prog[js.at].op = "call"
      BY <1>2, <2>1 DEF JsAt
    <3>3. callIndex' <= Served(p)
      <4>1. dispatched[p] \in Seq(Call)
        BY DEF SyncInv, SerialInv, HeapInv, TypeOK, ProcType
      <4> QED
        BY <1>2, <2>1, <2>2, <4>1 DEF Served
    <3>4. ValuesUpTo(p, callIndex')
      BY <1>2, <2>1, <2>2, <2>4 DEF PassRuns, ValuesUpTo
    <3>5. PassRuns(p)' /\ js'.thrown = "none"
      BY <1>1, <2>1, <3>1, <3>2, <3>3, <3>4, PassContinues
    <3> QED
      BY <3>5 DEF PassThrown
  <2> QED
    BY <2>2, <2>3, <2>4
<1>5. CASE JsCallPending(p)
  <2>1. JsAt(p, "call") /\ callIndex \notin DOMAIN results /\ RecordCall /\ Throw("sentinel", Here)
    BY <1>5 DEF JsCallPending
  <2>2. ~js.req.prog[js.at].catch /\ js.at \in DOMAIN req[p].prog
    BY <1>2, <2>1, CallUncaught DEF SyncPrograms, SyncInv
  <2>3. js'.thrown = "sentinel" /\ js'.at = js.at
    BY <1>3, <2>1, <2>2 DEF Throw
  <2>4. callIndex = Served(p)
    BY <1>2, <2>1 DEF PassInv, PassRuns, Cached
  <2>5. AfterCalls(req[p].prog, js.at, Served(p)) /\ ValuesUpTo(p, Served(p))
    BY <1>2, <2>4 DEF PassRuns
  <2>6. NextCall(p, Site(req[p], js.at))'
    <3>1. req[p].prog[js.at].op = "call"
      BY <1>2, <2>1 DEF JsAt
    <3>2. IsCall(req[p], Site(req[p], js.at), Served(p))
      BY <2>2, <2>5, <3>1 DEF IsCall
    <3>3. pendingIndex' = Served(p)
      BY <2>1, <2>4 DEF RecordCall
    <3>4. ValuesUpTo(p, Served(p))'
      BY <1>1, <1>2, <2>5 DEF ValuesUpTo
    <3> QED
      BY <1>1, <1>2, <2>3, <3>2, <3>3, <3>4 DEF NextCall
  <2>7. pendingCall'
    BY <2>1 DEF RecordCall
  <2> QED
    BY <2>3, <2>6, <2>7 DEF PassThrown
<1>6. CASE JsRead(p)
  <2>1. JsAt(p, "read") /\ callIndex' = callIndex
    BY <1>6 DEF JsRead, ctxVars
  <2>2. js.at \in DOMAIN req[p].prog /\ js.at <= Len(req[p].prog) /\ req[p].prog[js.at].op = "read"
    BY <1>2, <2>1 DEF JsAt
  <2>3. req[p].api = "bind"
    BY <1>2, <2>2 DEF SyncPrograms
  <2>4. Continue("value", Site(req[p], js.at))
    BY <1>2, <1>6, <2>3 DEF JsRead
  <2>5. callIndex' <= Served(p) /\ ValuesUpTo(p, callIndex')
    BY <1>2, <2>1 DEF PassRuns
  <2>6. PassRuns(p)' /\ js'.thrown = "none"
    BY <1>1, <2>1, <2>2, <2>4, <2>5, PassContinues
  <2> QED
    BY <2>6 DEF PassThrown
<1>7. CASE JsThrow(p)
  <2>1. JsAt(p, "throw") /\ Throw("throw", Here)
    BY <1>7 DEF JsThrow
  <2>2. js.at \in DOMAIN req[p].prog /\ req[p].prog[js.at].op = "throw"
    BY <1>2, <2>1 DEF JsAt
  <2>3. ~req[p].prog[js.at].catch
    BY <1>2, <2>2 DEF SyncPrograms
  <2>4. js'.thrown = "throw" /\ js'.at = js.at
    BY Zenon, <1>2, <1>3, <2>1, <2>3 DEF Throw
  <2>5. AfterCalls(req[p].prog, js.at, Served(p))
    <3>1. dispatched[p] \in Seq(Call)
      BY DEF SyncInv, SerialInv, HeapInv, TypeOK, ProcType
    <3> QED
      BY Zenon, <1>2, <2>2, <3>1, EndedAfterCalls DEF PassRuns
  <2> QED
    BY <1>1, <1>2, <2>2, <2>4, <2>5 DEF PassThrown
<1>8. CASE JsSpin(p)
  <2>1. UNCHANGED vars
    BY <1>8 DEF JsSpin
  <2>2. UNCHANGED <<js, callIndex, pendingCall, pendingIndex>>
    BY <2>1 DEF vars, ctxVars, heapVars
  <2>3. PassRuns(p)'
    BY <1>1, <1>2, <2>2 DEF PassRuns, ValuesUpTo
  <2> QED
    BY <1>2, <2>2, <2>3 DEF PassThrown
<1>9. CASE JsTimeout(p)
  <2>1. timeoutEnabled /\ js'.thrown = "timeout"
    BY <1>3, <1>9 DEF JsTimeout
  <2>2. lock = p
    BY <1>2 DEF SyncInv, SerialInv, HeapInv, HeapIsExclusive
  <2>3. req[p].timed /\ nif[p] # "resume"
    BY <2>1, <2>2 DEF SyncInv, SerialInv, HeapInv, TimerIsOwned
  <2> QED
    BY <1>1, <2>1, <2>3 DEF PassThrown
<1> QED
  BY <1>4, <1>5, <1>6, <1>7, <1>8, <1>9 DEF JsStep

(* Each statement that JavaScript executes leaves the pass as described,   *)
(* and each NIF that runs JavaScript begins one.                           *)
LEMMA ServesJs ==
  ASSUME SyncPrograms, SyncInv, NEW p \in Procs, MidRequest(p), JsStep(p) \/ JsTimeout(p)
  PROVE  ServesInv(p)'
<1>1. /\ pc[p] = "js" /\ UNCHANGED <<pc, nif, req, call, reply, dispatched, results, binding>>
  BY DEF JsStep, JsTimeout, JsCallCached, JsCallPending, JsRead, JsThrow, JsSpin, JsAt,
     JsUnchanged, procVars, ctxVars, vars, JsRunning
<1>2. ServesInv(p) /\ nif[p] \notin {"send", "destroy"}
  BY DEF SyncInv, MidRequest
<1>3. CallsInOrder(p)' /\ Cached(p, Served(p))' /\ Served(p)' = Served(p)
  BY <1>1, <1>2 DEF ServesInv, PassInv, CallsInOrder, Cached, Served
<1>4. PassInv(p)'
  BY <1>1, <1>2, <1>3, PassJs DEF ServesInv, PassInv
<1> QED
  BY <1>1, <1>2, <1>3, <1>4 DEF ServesInv, Suspended

LEMMA PassBegins ==
  ASSUME SyncInv, NEW p \in Procs, req[p].prog \in Seq(Statement),
         UNCHANGED <<req, dispatched>>, js' = Frame(req[p]), callIndex' = 0
  PROVE  PassRuns(p)' /\ PassThrown(p)'
<1>1. js'.at = 1 /\ js'.thrown = "none" /\ js'.got = <<>>
  BY DEF Frame
<1>2. AfterCalls(req[p].prog, 1, 0)
  BY CallsBeforeNext DEF AfterCalls, Passed
<1>3. OwnValues(req[p], 0) = <<>>
  BY DEF OwnValues
<1>4. Served(p)' = Served(p) /\ Served(p) \in Nat
  BY DEF Served, SyncInv, SerialInv, HeapInv, TypeOK, ProcType
<1>5. ValuesUpTo(p, 0)'
  BY DEF ValuesUpTo
<1> QED
  BY <1>1, <1>2, <1>3, <1>4, <1>5 DEF PassRuns, PassThrown

(* The resume finds every answer: a value was stored by nif_call_complete, *)
(* an error is stored now.                                                 *)
LEMMA ResumeFindsAnswers ==
  ASSUME SyncInv, NEW p \in Procs, EnterResume(p)
  PROVE  Cached(p, Served(p))'
<1>1. pc[p] = "wait" /\ nif[p] = "resume" /\ UNCHANGED <<dispatched, callResult>>
  BY DEF EnterResume, Enter
<1>2. CompletedInv(p) /\ (hasCallResult => pendingEnv = "result")
  BY <1>1 DEF SyncInv, ServesInv, MidRequest, SerialInv, OwnResult
<1>3. Served(p) \in Nat /\ Served(p)' = Served(p)
  BY <1>1 DEF Served, SyncInv, SerialInv, HeapInv, TypeOK, ProcType
<1>4. CASE hasCallResult
  <2>1. results' = Store(results, pendingIndex, [kind |-> "error", site |-> callResult])
    BY Zenon, <1>2, <1>4 DEF EnterResume, TermRead
  <2>2. /\ Served(p) > 0 /\ pendingIndex = Served(p) - 1 /\ Cached(p, Served(p) - 1)
        /\ dispatched[p][Served(p)] = [kind |-> "error", site |-> callResult]
    BY <1>2, <1>4 DEF CompletedInv
  <2>3. DOMAIN results' = 0..(Served(p) - 1)
    BY <1>3, <2>1, <2>2 DEF Store, Cached
  <2>4. \A i \in 0..(Served(p) - 1) : results'[i] = dispatched[p][i + 1]
    BY <1>3, <2>1, <2>2 DEF Store, Cached
  <2> QED
    BY <1>1, <1>3, <2>3, <2>4 DEF Cached
<1>5. CASE ~hasCallResult
  <2>1. results' = results
    BY <1>5 DEF EnterResume
  <2> QED
    BY <1>1, <1>2, <1>3, <1>5, <2>1 DEF CompletedInv, Cached
<1> QED
  BY <1>4, <1>5

LEMMA ServesEntry ==
  ASSUME SyncPrograms, SyncInv, NEW p \in Procs, NifEntry(p), MidRequest(p)'
  PROVE  ServesInv(p)'
<1> USE DEF SyncInv, SerialInv, HeapInv, TypeOK, ProcType
<1>1. req[p].prog \in Seq(Statement) /\ Served(p) \in Nat
  BY ProgType DEF Served
<1>2. CASE \/ EnterRefused(p) \/ BindBadArg(p) \/ CallNotFunction(p) \/ CallBadArg(p)
           \/ SendNothing(p) \/ EnterDestroy(p) \/ CompleteRefused(p) \/ ResumeNoCode(p)
  <2>1. pc'[p] \in {"idle", "dead"}
    BY <1>2 DEF EnterRefused, BindBadArg, CallNotFunction, CallBadArg, SendNothing, EnterDestroy,
       CompleteRefused, ResumeNoCode, Answer, Badmatch, Die
  <2> QED
    BY <2>1 DEF MidRequest
<1>3. CASE EnterSend(p)
  BY <1>3 DEF EnterSend, Enter, MidRequest
<1>4. CASE EnterEval(p) \/ EnterBindings(p) \/ EnterCall(p)
  <2>1. /\ pc[p] = "wait" /\ nif[p] \in {"eval", "bind", "call"} /\ pc'[p] = "js"
        /\ js' = Frame(req[p]) /\ callIndex' = 0 /\ results' = EmptyResults
        /\ UNCHANGED <<nif, req, reply, dispatched>>
        /\ nif[p] = "bind" => binding' = req[p]
    BY <1>4 DEF EnterEval, EnterBindings, EnterCall, Enter, RunJs, ResetCalls
  <2>2. /\ ServesInv(p) /\ Served(p) = 0 /\ Served(p)' = 0 /\ req[p].api = nif[p]
    BY Zenon, <2>1 DEF ServesInv, MidRequest, Served
  <2>3. CallsInOrder(p)'
    BY <2>1, <2>2 DEF ServesInv, CallsInOrder, Served
  <2>4. Cached(p, Served(p))'
    BY <2>1, <2>2 DEF Cached, EmptyResults
  <2>5. PassInv(p)'
    BY <1>1, <2>1, <2>2, <2>4, PassBegins DEF PassInv
  <2> QED
    BY <2>1, <2>2, <2>3, <2>5 DEF ServesInv
<1>5. CASE EnterComplete(p)
  <2>1. /\ pc[p] = "wait" /\ nif[p] = "complete" /\ pc'[p] = "completed"
        /\ UNCHANGED <<nif, req, reply, dispatched, binding, pendingIndex>>
    BY <1>5 DEF EnterComplete, Enter
  <2>2. ServesInv(p) /\ AnsweredInv(p) /\ Served(p)' = Served(p)
    BY Zenon, <2>1 DEF ServesInv, MidRequest, Served
  <2>3. CallsInOrder(p)' /\ call[p].kind \in {"value", "error"}
    <3>1. Served(p) \in DOMAIN dispatched[p]
      BY <1>1, <2>2 DEF AnsweredInv, Served
    <3> QED
      BY <2>1, <2>2, <3>1 DEF ServesInv, AnsweredInv, CallsInOrder, Served
  <2>4. CompletedInv(p)'
    <3>1. CASE call[p].kind = "error"
      <4>1. hasCallResult' /\ callResult' = call[p].site /\ results' = results
        BY <1>5, <3>1 DEF EnterComplete
      <4>2. call[p] = [kind |-> "error", site |-> call[p].site]
        BY <3>1 DEF Call
      <4> QED
        BY <2>1, <2>2, <4>1, <4>2 DEF AnsweredInv, CompletedInv, Cached
    <3>2. CASE call[p].kind = "value"
      <4>1. ~hasCallResult'
            /\ results' = Store(results, pendingIndex, [kind |-> "value", site |-> call[p].site])
        BY <1>5, <3>2 DEF EnterComplete, StoredResult
      <4>2. call[p] = [kind |-> "value", site |-> call[p].site]
        BY <3>2 DEF Call
      <4>3. /\ Served(p) > 0 /\ pendingIndex = Served(p) - 1 /\ Cached(p, Served(p) - 1)
            /\ dispatched[p][Served(p)] = [kind |-> "value", site |-> call[p].site]
        BY <2>2, <4>2 DEF AnsweredInv
      <4>4. DOMAIN results' = 0..(Served(p) - 1)
        BY <1>1, <4>1, <4>3 DEF Store, Cached
      <4>5. \A i \in 0..(Served(p) - 1) : results'[i] = dispatched[p][i + 1]
        BY <1>1, <4>1, <4>3 DEF Store, Cached
      <4> QED
        BY <2>1, <2>2, <4>1, <4>4, <4>5 DEF CompletedInv, Cached
    <3> QED
      BY <2>3, <3>1, <3>2
  <2>5. Suspended(p)
    BY <2>1 DEF Suspended
  <2> QED
    BY <2>1, <2>2, <2>3, <2>4, <2>5 DEF ServesInv
<1>6. CASE EnterResume(p)
  <2>1. /\ pc[p] = "wait" /\ nif[p] = "resume" /\ pc'[p] = "js"
        /\ js' = Frame(IF resumeCode.kind = "apply" THEN callFunc ELSE resumeCode.req)
        /\ callIndex' = 0 /\ UNCHANGED <<nif, req, reply, dispatched, binding>>
    BY <1>6 DEF EnterResume, ResumeIndex, Enter, RunJs
  <2>2. js' = Frame(req[p])
    BY <2>1 DEF OwnCode, Suspended
  <2>3. ServesInv(p) /\ Served(p)' = Served(p)
    BY Zenon, <2>1 DEF ServesInv, MidRequest, Served
  <2>4. CallsInOrder(p)'
    BY <2>1, <2>3 DEF ServesInv, CallsInOrder, Served
  <2>5. PassInv(p)'
    BY <1>1, <1>6, <2>1, <2>2, PassBegins, ResumeFindsAnswers DEF PassInv
  <2>6. Suspended(p)
    BY <2>1 DEF Suspended
  <2> QED
    BY <2>1, <2>3, <2>4, <2>5, <2>6 DEF ServesInv
<1> QED
  BY <1>2, <1>3, <1>4, <1>5, <1>6 DEF NifEntry

(* The call that unwound the pass goes to Erlang.                          *)
LEMMA ServesReturn ==
  ASSUME SyncPrograms, SyncInv, NEW p \in Procs, NifReturn(p), MidRequest(p)'
  PROVE  ServesInv(p)'
<1> USE DEF SyncInv, SerialInv, HeapInv, TypeOK, ProcType
<1>1. CASE EvalOk(p) \/ EvalTimeout(p) \/ EvalError(p) \/ SendReturn(p) \/ ResumeDone(p)
  <2>1. pc'[p] = "idle"
    BY <1>1 DEF EvalOk, EvalTimeout, EvalError, SendReturn, ResumeDone, Answer
  <2> QED
    BY <2>1 DEF MidRequest
<1>2. CASE EvalCallErlang(p) \/ ResumeCallErlang(p)
  <2>1. pc[p] = "js" /\ pendingCall /\ ReturnCall(p) /\ nif[p] \in {"eval", "bind", "call", "resume"}
    BY <1>2 DEF EvalCallErlang, ResumeCallErlang, InEval, InResume
  <2>2. /\ pc'[p] = "dispatch"
        /\ UNCHANGED <<nif, req, reply, dispatched, results, pendingIndex, binding>>
        /\ call'[p].site = Site(req[p], js.at)
    BY <2>1, PendingReturned DEF ReturnCall
  <2>3. js.thrown = "sentinel" /\ ServesInv(p)
    BY Zenon, <2>1, PendingReturned DEF MidRequest
  <2>4. PassInv(p) /\ NextCall(p, Site(req[p], js.at))
    BY <2>1, <2>3 DEF ServesInv, PassInv, PassThrown
  <2>5. CallsInOrder(p)' /\ Served(p)' = Served(p)
    BY <2>2, <2>3 DEF ServesInv, CallsInOrder, Served
  <2>6. Cached(p, Served(p))'
    BY <2>2, <2>4, <2>5 DEF PassInv, Cached
  <2>7. NextCall(p, call[p].site)'
    BY <2>2, <2>4, <2>5 DEF NextCall, ValuesUpTo
  <2> QED
    BY <2>1, <2>2, <2>3, <2>5, <2>6, <2>7 DEF ServesInv
<1> QED
  BY <1>1, <1>2 DEF NifReturn

(* There is room in the history for the call to be served.                 *)
LEMMA HistoryHolds ==
  ASSUME SyncPrograms, SyncInv, NEW p \in Procs, pc[p] = "dispatch"
  PROVE  Served(p) \in Nat /\ Served(p) < HistoryBound
<1>1. NextCall(p, call[p].site) /\ req[p].prog \in ProgramsOf(req[p].api) /\ req[p].api # "send"
  BY DEF SyncInv, ServesInv, MidRequest, SerialInv, OwnRequest
<1>2. req[p].prog \in EvalPrograms \cup BindPrograms
  BY <1>1 DEF ProgramsOf
<1>3. req[p].prog \in Seq(Statement) /\ Len(req[p].prog) <= HistoryBound /\ HistoryBound \in Nat
  BY <1>2, TrampolineAssumption DEF SyncPrograms
<1>4. PICK at \in DOMAIN req[p].prog : AfterCalls(req[p].prog, at, Served(p))
  BY <1>1 DEF NextCall, IsCall
<1>5. at \in Nat \ {0} /\ at <= Len(req[p].prog) /\ Len(req[p].prog) \in Nat
  BY <1>3
<1>6. Served(p) \in Nat /\ Served(p) <= at - 1
  <2>1. /\ Cardinality(CallsBefore(req[p].prog, at)) \in Nat
        /\ Cardinality(CallsBefore(req[p].prog, at)) <= at - 1
    BY <1>3, <1>5, CallsBeforeCount
  <2> QED
    BY <1>4, <2>1 DEF AfterCalls
<1> QED
  BY <1>3, <1>5, <1>6

LEMMA ServesDispatch ==
  ASSUME SyncPrograms, SyncInv, NEW p \in Procs, Dispatch(p)
  PROVE  /\ ServesInv(p)'
         /\ \E o \in Outcomes :
              dispatched' = [dispatched EXCEPT
                              ![p] = Append(@, [kind |-> o, site |-> call[p].site])]
<1> USE DEF SyncInv, SerialInv, HeapInv, TypeOK, ProcType
<1>1. /\ pc[p] = "dispatch" /\ pc'[p] = "answered"
      /\ UNCHANGED <<nif, req, reply, results, pendingIndex, binding>>
  BY DEF Dispatch, ctxVars
<1>2. ServesInv(p) /\ Cached(p, Served(p)) /\ NextCall(p, call[p].site) /\ CallsInOrder(p)
      /\ nif[p] \in {"eval", "bind", "call", "resume"}
  BY Zenon, <1>1 DEF ServesInv, MidRequest, OwnRequest
<1>3. PICK o \in Outcomes : call' = [call EXCEPT ![p].kind = o]
  BY Zenon DEF Dispatch
<1>4. call'[p] = [kind |-> o, site |-> call[p].site]
  BY <1>3 DEF Call
<1>5. dispatched' = [dispatched EXCEPT ![p] = Append(@, [kind |-> o, site |-> call[p].site])]
  BY Zenon, <1>1, <1>4, HistoryHolds DEF Dispatch, Served
<1>6. o \in {"value", "error"}
  BY TrampolineAssumption DEF SyncPrograms, AllOutcomes
<1> DEFINE d == dispatched[p]
<1>7. /\ d \in Seq(Call) /\ Len(d) \in Nat /\ Served(p) = Len(d)
      /\ dispatched'[p] = Append(d, [kind |-> o, site |-> call[p].site])
  BY <1>5 DEF Served
<1>8. /\ Served(p)' = Len(d) + 1 /\ DOMAIN dispatched'[p] = 1..(Len(d) + 1)
      /\ dispatched'[p][Len(d) + 1] = [kind |-> o, site |-> call[p].site]
      /\ \A i \in 1..Len(d) : dispatched'[p][i] = d[i]
  BY <1>7 DEF Served
<1>9. CallsInOrder(p)'
  <2> SUFFICES ASSUME NEW i \in 1..(Len(d) + 1)
               PROVE  /\ IsCall(req[p], dispatched'[p][i].site, i - 1)
                      /\ dispatched'[p][i].kind = "value"
                           \/ (dispatched'[p][i].kind = "error" /\ i = Len(d) + 1)
    BY <1>1, <1>8 DEF CallsInOrder
  <2>1. CASE i = Len(d) + 1
    BY <1>2, <1>6, <1>7, <1>8, <2>1 DEF NextCall
  <2>2. CASE i \in 1..Len(d)
    <3>1. i \in DOMAIN d /\ dispatched'[p][i] = d[i]
      BY <1>7, <1>8, <2>2
    <3>2. d[i].kind = "value"
      BY <1>2, <1>7, <2>2 DEF NextCall, ValuesUpTo
    <3>3. IsCall(req[p], d[i].site, i - 1)
      BY <1>2, <3>1 DEF CallsInOrder
    <3> QED
      BY <3>1, <3>2, <3>3
  <2> QED
    BY <1>7, <2>1, <2>2
<1>10. AnsweredInv(p)'
  <2>1. Cached(p, Served(p) - 1)'
    <3>1. DOMAIN results = 0..(Len(d) - 1) /\ \A i \in 0..(Len(d) - 1) : results[i] = d[i + 1]
      BY <1>2, <1>7 DEF Cached
    <3>2. \A i \in 0..(Len(d) - 1) : dispatched'[p][i + 1] = d[i + 1]
      BY <1>7, <1>8
    <3>3. (Served(p) - 1)' = Len(d)
      BY <1>7, <1>8
    <3> HIDE DEF d
    <3> QED
      BY <1>1, <3>1, <3>2, <3>3 DEF Cached
  <2>2. Served(p)' > 0 /\ Served(p)' - 1 = Len(d) /\ pendingIndex' = Len(d)
    BY <1>1, <1>2, <1>7, <1>8 DEF NextCall
  <2>3. call'[p] = dispatched'[p][Served(p)']
    BY <1>4, <1>8
  <2> QED
    BY <2>1, <2>2, <2>3 DEF AnsweredInv
<1>11. Suspended(p)
  BY <1>1 DEF Suspended
<1> QED
  BY Zenon, <1>1, <1>2, <1>5, <1>9, <1>10, <1>11 DEF ServesInv

LEMMA ServesErlang ==
  ASSUME SyncPrograms, SyncInv, NEW p \in Procs, StartComplete(p) \/ StartResume(p), MidRequest(p)'
  PROVE  ServesInv(p)'
<1> USE DEF SyncInv, SerialInv, HeapInv, TypeOK, ProcType
<1>1. CASE StartComplete(p)
  <2>1. /\ pc[p] = "answered" /\ pc'[p] = "wait" /\ nif'[p] = "complete"
        /\ UNCHANGED <<ctxVars, req, call, reply, dispatched>>
    BY <1>1 DEF StartComplete, Badmatch, Die, MidRequest
  <2>2. ServesInv(p) /\ AnsweredInv(p) /\ Suspended(p)
    BY Zenon, <2>1 DEF ServesInv, MidRequest, OwnRequest, Suspended
  <2>3. CallsInOrder(p)' /\ AnsweredInv(p)'
    BY <2>1, <2>2 DEF ServesInv, CallsInOrder, AnsweredInv, Cached, Served, ctxVars
  <2> QED
    BY <2>1, <2>2, <2>3 DEF ServesInv, ctxVars
<1>2. CASE StartResume(p)
  <2>1. /\ pc[p] = "completed" /\ pc'[p] = "wait" /\ nif'[p] = "resume"
        /\ reply'[p] = NoReply /\ UNCHANGED <<ctxVars, req, call, dispatched>>
    BY <1>2 DEF StartResume, GetContext, Answer, MidRequest
  <2>2. ServesInv(p) /\ CompletedInv(p) /\ Suspended(p)
    BY Zenon, <2>1 DEF ServesInv, MidRequest, OwnRequest, Suspended
  <2>3. CallsInOrder(p)' /\ CompletedInv(p)'
    BY <2>1, <2>2 DEF ServesInv, CallsInOrder, CompletedInv, Cached, Served, ctxVars
  <2> QED
    BY <2>1, <2>2, <2>3 DEF ServesInv, ctxVars
<1> QED
  BY <1>1, <1>2

LEMMA ServesStart ==
  ASSUME SyncPrograms, SyncInv, NEW p \in Procs, StartRequest(p), MidRequest(p)'
  PROVE  ServesInv(p)'
<1> USE DEF SyncInv, SerialInv, HeapInv, TypeOK, ProcType
<1>1. PICK api \in Apis \ {"destroy"} :
        /\ nif' = [nif EXCEPT ![p] = api]
        /\ \E timed \in TimeoutsOf(api), prog \in ProgramsOf(api) :
             req' = [req EXCEPT ![p] = [owner |-> p, serial |-> served[p] + 1, api |-> api,
                                       prog |-> prog, timed |-> timed]]
  BY Zenon DEF StartRequest
<1>2. nif'[p] = api /\ req'[p].api = api /\ api \in {"eval", "bind", "call", "send"}
  BY <1>1, TrampolineAssumption DEF AllApis
<1>3. pc'[p] = "wait" /\ reply'[p] = NoReply /\ dispatched'[p] = <<>>
  BY DEF StartRequest, GetContext, Answer, MidRequest
<1>4. Served(p)' = 0 /\ CallsInOrder(p)'
  BY <1>3 DEF Served, CallsInOrder
<1> QED
  BY <1>2, <1>3, <1>4 DEF ServesInv, Suspended

LEMMA SyncInit == Init => SyncInv
  BY SerialInit DEF Init, SyncInv, MidRequest, NoRequest

LEMMA SyncStep ==
  ASSUME SyncPrograms, SyncInv, [Next]_vars
  PROVE  SyncInv'
<1>1. SerialInv'
  BY SerialStep DEF SyncPrograms, SyncInv
<1>2. CASE UNCHANGED vars
  <2>1. UNCHANGED <<ctxVars, js, pc, nif, req, call, reply, served, dispatched>>
    BY <1>2 DEF vars, heapVars, procVars
  <2> QED
    BY <1>1, <2>1, ServesKept DEF SyncInv, MidRequest
<1>3. ASSUME NEW p \in Procs, Moves(p) PROVE SyncInv'
  <2>1. MidRequest(p)' => ServesInv(p)'
    <3> SUFFICES ASSUME MidRequest(p)' PROVE ServesInv(p)'
      OBVIOUS
    <3>1. ~StartDestroy(p) /\ ~Kill(p)
      BY DEF StartDestroy, Kill, Die, MidRequest, SyncInv, SerialInv, HeapInv, TypeOK, ProcType
    <3>2. JsStep(p) \/ JsTimeout(p) => MidRequest(p)
      BY JsMoves DEF MidRequest, SyncInv, SerialInv, HeapInv
    <3> QED
      BY <1>3, <3>1, <3>2, ServesStart, ServesJs, ServesEntry, ServesReturn, ServesDispatch,
         ServesErlang DEF Moves, Step
  <2>2. ASSUME NEW q \in Procs \ {p}, MidRequest(q)' PROVE ServesInv(q)'
    BY <1>3, <2>2, OthersKeep, OthersKeepServes DEF SyncPrograms, SyncInv
  <2>3. \A q \in Procs : req'[q].serial <= served'[q]
    <3>1. ASSUME NEW q \in Procs \ {p} PROVE req'[q].serial <= served'[q]
      BY <1>3, OthersKeepProcess DEF Moves, SyncInv, SerialInv, HeapInv
    <3>2. req'[p].serial <= served'[p]
      <4>1. UNCHANGED <<req, served>> \/ StartRequest(p) \/ StartDestroy(p)
        BY <1>3 DEF Moves, Step, Kill, Dispatch, StartComplete, StartResume, JsTimeout,
           JsStep, JsCallCached, JsCallPending, JsRead, JsThrow, JsSpin, JsUnchanged, NifReturn, EvalOk,
           EvalTimeout, EvalCallErlang, EvalError, SendReturn, ResumeCallErlang, ResumeDone, ReturnCall,
           NifEntry, EnterRefused, EnterEval, EnterBindings, BindBadArg, EnterCall, CallNotFunction,
           CallBadArg, EnterSend, SendNothing, EnterDestroy, CompleteRefused, EnterComplete,
           ResumeNoCode, EnterResume, procVars, vars
      <4>2. req[p].serial <= served[p] /\ served[p] \in Nat
        BY DEF SyncInv, SerialInv, HeapInv, TypeOK, ProcType
      <4>3. StartDestroy(p) => UNCHANGED req /\ served'[p] = served[p] + 1
        BY DEF StartDestroy, SyncInv, SerialInv, HeapInv, TypeOK, ProcType
      <4>4. StartRequest(p) => req'[p].serial = served[p] + 1 /\ served'[p] = served[p] + 1
        BY DEF StartRequest, SyncInv, SerialInv, HeapInv, TypeOK, ProcType
      <4>5. StartDestroy(p) => req[p].serial <= served[p] + 1
        <5>1. req[p].serial \in Nat
          BY DEF SyncInv, SerialInv, HeapInv, TypeOK, ProcType, Request, NoRequest
        <5> QED
          BY <4>2, <5>1
      <4> QED
        BY <4>1, <4>2, <4>3, <4>4, <4>5
    <3> QED
      BY <3>1, <3>2
  <2> QED
    BY <1>1, <2>1, <2>2, <2>3 DEF SyncInv
<1> QED
  BY <1>2, <1>3 DEF Next, Finished, Moves

LEMMA SyncAlways ==
  ASSUME SyncPrograms
  PROVE  Spec => []SyncInv
<1>1. SyncInv /\ [Next]_vars => SyncInv'
  BY SyncStep
<1> QED
  BY SyncInit, <1>1, PTL DEF Spec

-----------------------------------------------------------------------------
(* The refinement, step by step *)

(* The process goes back to its caller: the abstract request ends.         *)
LEMMA PhaseEnds ==
  ASSUME TypeOK, NEW p \in Procs, NEW x \in {"idle", "dead"}, nif' = nif,
         pc' = [pc EXCEPT ![p] = x]
  PROVE  Phase' = [Phase EXCEPT ![p] = x]
BY Zenon DEF Phase, TypeOK, ProcType

(* It goes from one place of a request to another: it keeps running.       *)
LEMMA PhaseGoesOn ==
  ASSUME TypeOK, NEW p \in Procs, pc[p] \notin {"idle", "dead"}, pc'[p] \notin {"idle", "dead"},
         nif[p] # "destroy", nif'[p] # "destroy",
         \A q \in Procs \ {p} : pc'[q] = pc[q] /\ nif'[q] = nif[q]
  PROVE  Phase' = Phase
BY DEF Phase

LEMMA Returned ==
  ASSUME TypeOK, NEW p \in Procs, pc[p] \notin {"idle", "dead"}, nif[p] # "destroy",
         NEW status, NEW got, Answer(p, status, got),
         UNCHANGED <<nif, req, dispatched, destroyed>>
  PROVE  Sync!Return(p, status, got)
<1>1. Phase[p] = "running"
  BY DEF Phase
<1>2. Phase' = [Phase EXCEPT ![p] = "idle"]
  BY Zenon, PhaseEnds DEF Answer
<1> QED
  BY <1>1, <1>2 DEF Sync!Return, Answer

LEMMA Died ==
  ASSUME TypeOK, NEW p \in Procs, pc[p] \notin {"idle", "dead"}, nif[p] # "destroy",
         NEW reason, Die(p, reason), reason = "killed" \/ (reason = "badmatch" /\ destroyed),
         UNCHANGED <<nif, req, dispatched, destroyed>>
  PROVE  Sync!Die(p)
<1>1. Phase[p] = "running"
  BY DEF Phase
<1>2. Phase' = [Phase EXCEPT ![p] = "dead"]
  BY Zenon, PhaseEnds DEF Die
<1>3. reason \in {"killed"} \cup (IF destroyed THEN {"badmatch"} ELSE {})
  OBVIOUS
<1> QED
  BY Zenon, <1>1, <1>2, <1>3 DEF Sync!Die, Die

(* A pass that runs to its end gives every statement its own value.        *)
LEMMA FinishedPass ==
  ASSUME SyncPrograms, SyncInv, NEW p \in Procs, MidRequest(p), JsFinished(p)
  PROVE  /\ Sync!NextAt(p) = Len(req[p].prog) + 1
         /\ ~Sync!Raised(p)
         /\ js.got = Sync!Values(p)
<1>1. JsRunning(p)
  BY DEF JsFinished
<1>2. /\ req[p].prog \in Seq(Statement) /\ js.at \in Nat \ {0} /\ js.req = req[p]
      /\ PassRuns(p) /\ CallsInOrder(p) /\ Served(p) \in Nat
  BY <1>1, RunningPass
<1>3. dispatched[p] \in Seq(Call) /\ req[p].owner = p
  BY Zenon, <1>1 DEF JsRunning, MidRequest, SyncInv, SerialInv, OwnRequest, HeapInv, TypeOK, ProcType
<1>4. js.at = Len(req[p].prog) + 1 /\ js.at \notin DOMAIN req[p].prog
  BY <1>2 DEF JsFinished, PassRuns, AfterCalls
<1>5. callIndex = Served(p)
  BY <1>2, <1>3, <1>4, EndedAfterCalls DEF PassRuns
<1>6. Sync!NextAt(p) = js.at
  BY <1>2, <1>3, <1>4, <1>5, NextAtAfterCalls DEF PassRuns
<1>7. ~Sync!Raised(p)
  <2>1. ValuesUpTo(p, Served(p))
    BY <1>2, <1>5 DEF PassRuns
  <2>2. dispatched[p] # <<>> => Served(p) \in 1..Served(p)
    BY <1>2, <1>3 DEF Served
  <2> QED
    BY <2>1, <2>2 DEF Sync!Raised, Sync!LastCall, ValuesUpTo, Served
<1>8. js.got = Sync!Values(p)
  <2>1. js.got = OwnValues(req[p], Len(req[p].prog))
    BY <1>2, <1>4 DEF PassRuns
  <2>2. DOMAIN req[p].prog = 1..Len(req[p].prog)
    BY <1>2
  <2> QED
    BY <1>3, <2>1, <2>2 DEF OwnValues, Sync!Values, Site
<1> QED
  BY <1>4, <1>6, <1>7, <1>8

(* One that ends with an error, and not with a call, ends as the request   *)
(* does: its function has raised or its program throws.                    *)
LEMMA FailedPass ==
  ASSUME SyncPrograms, SyncInv, NEW p \in Procs, MidRequest(p), pc[p] = "js",
         js.thrown \notin {"none", "timeout"}, ~pendingCall
  PROVE  Sync!Raised(p) \/ Sync!NextIs(p, "throw")
<1>1. PassThrown(p) /\ CallsInOrder(p) /\ req[p].prog \in Seq(Statement) /\ dispatched[p] \in Seq(Call)
  BY ProgType DEF SyncInv, ServesInv, PassInv, SerialInv, HeapInv, TypeOK, ProcType
<1>2. js.thrown \in {"error", "throw"}
  BY <1>1 DEF PassThrown, SyncInv, SerialInv, HeapInv, TypeOK, HeapType, Activation
<1>3. CASE js.thrown = "error"
  <2>1. PICK i \in DOMAIN dispatched[p] : dispatched[p][i].kind = "error"
    BY <1>1, <1>3 DEF PassThrown
  <2>2. i = Served(p) /\ dispatched[p] # <<>>
    BY <1>1, <2>1 DEF CallsInOrder
  <2> QED
    BY <2>1, <2>2 DEF Sync!Raised, Sync!LastCall, Served
<1>4. CASE js.thrown = "throw"
  <2>1. /\ js.at \in DOMAIN req[p].prog /\ req[p].prog[js.at].op = "throw"
        /\ AfterCalls(req[p].prog, js.at, Served(p))
    BY <1>1, <1>4 DEF PassThrown
  <2>2. Sync!NextAt(p) = js.at
    BY <1>1, <2>1, NextAtAfterCalls
  <2>3. js.at <= Len(req[p].prog)
    BY <1>1, <2>1
  <2> QED
    BY <2>1, <2>2, <2>3 DEF Sync!NextIs
<1> QED
  BY <1>2, <1>3, <1>4

(* Both NIFs that evaluate return what SyncEval returns, or a call.        *)
LEMMA RefinesReturn ==
  ASSUME SyncPrograms, SyncInv, NEW p \in Procs, NifReturn(p)
  PROVE  Sync!Next \/ UNCHANGED Sync!vars
<1>0. TypeOK
  BY DEF SyncInv, SerialInv, HeapInv
<1>1. pc[p] = "js" /\ nif[p] \in {"eval", "bind", "call", "resume", "send"} /\ ~destroyed
  BY DEF NifReturn, EvalOk, EvalTimeout, EvalCallErlang, EvalError, SendReturn, ResumeCallErlang,
     ResumeDone, InEval, InResume, SyncInv, SerialInv, HeapInv, HeapIsExclusive
<1>2. (nif[p] = "send" <=> req[p].api = "send") /\ (nif[p] # "send" => MidRequest(p))
  BY <1>1 DEF SyncInv, SerialInv, OwnRequest, MidRequest
<1>3. CASE EvalOk(p) \/ (ResumeDone(p) /\ js.thrown = "none")
  <2>1. /\ nif[p] # "send" /\ JsFinished(p) /\ Answer(p, "ok", js.got)
        /\ UNCHANGED <<nif, req, dispatched, destroyed>>
    BY <1>3 DEF EvalOk, ResumeDone, Leave, InEval, InResume
  <2>2. Sync!Return(p, "ok", Sync!Values(p))
    BY <1>0, <1>1, <1>2, <2>1, Returned, FinishedPass
  <2>3. Sync!ReturnOk(p)
    BY <1>1, <1>2, <2>1, <2>2, FinishedPass DEF Sync!ReturnOk
  <2> QED
    BY <2>3 DEF Sync!Next
<1>4. CASE EvalError(p) \/ (ResumeDone(p) /\ js.thrown # "none")
  <2>1. /\ nif[p] # "send" /\ js.thrown # "none" /\ ~pendingCall /\ Answer(p, "js_error", <<>>)
        /\ nif[p] # "resume" => js.thrown # "timeout"
        /\ UNCHANGED <<nif, req, dispatched, destroyed>>
    BY <1>4 DEF EvalError, ResumeDone, Leave, InEval, InResume, JsFinished, JsRunning
  <2>2. js.thrown # "timeout"
    BY <1>1, <1>2, <2>1 DEF SyncInv, ServesInv, PassInv, PassThrown
  <2>3. Sync!Return(p, "js_error", <<>>)
    BY <1>0, <1>1, <2>1, Returned
  <2>4. Sync!ReturnJsError(p)
    BY <1>1, <1>2, <2>1, <2>2, <2>3, FailedPass DEF Sync!ReturnJsError
  <2> QED
    BY <2>4 DEF Sync!Next
<1>5. CASE EvalTimeout(p)
  <2>1. /\ nif[p] # "send" /\ js.thrown = "timeout" /\ Answer(p, "timeout", <<>>)
        /\ UNCHANGED <<nif, req, dispatched, destroyed>>
    BY <1>5 DEF EvalTimeout, Leave, InEval
  <2>2. req[p].timed
    BY <1>1, <1>2, <2>1 DEF SyncInv, ServesInv, PassInv, PassThrown
  <2>3. Sync!ReturnTimeout(p)
    BY <1>0, <1>1, <2>1, <2>2, Returned DEF Sync!ReturnTimeout
  <2> QED
    BY <2>3 DEF Sync!Next
<1>6. CASE SendReturn(p)
  <2>1. nif[p] = "send" /\ UNCHANGED <<nif, req, dispatched, destroyed>>
    BY <1>6 DEF SendReturn, Leave
  <2>2. PICK status \in {"ok", "js_error"}, got \in {js.got, <<>>} : Answer(p, status, got)
    BY <1>6 DEF SendReturn
  <2>3. Sync!Return(p, status, got) /\ reply'[p].got = got
    BY Zenon, <1>0, <1>1, <2>1, <2>2, Returned DEF Answer, TypeOK, ProcType
  <2>4. Sync!ReturnSent(p)
    BY <1>2, <2>1, <2>3 DEF Sync!ReturnSent
  <2> QED
    BY <2>4 DEF Sync!Next
<1>7. CASE EvalCallErlang(p) \/ ResumeCallErlang(p)
  <2>1. /\ nif[p] # "send" /\ pc' = [pc EXCEPT ![p] = "dispatch"]
        /\ UNCHANGED <<nif, req, reply, dispatched, destroyed>>
    BY <1>7 DEF EvalCallErlang, ResumeCallErlang, ReturnCall, Leave, InEval, InResume
  <2>2. Phase' = Phase
    BY Zenon, <1>0, <1>1, <2>1, PhaseGoesOn DEF TypeOK, ProcType
  <2> QED
    BY <2>1, <2>2 DEF Sync!vars
<1> QED
  BY <1>3, <1>4, <1>5, <1>6, <1>7 DEF NifReturn

(* What a NIF does up to its JavaScript is not seen, unless it answers.    *)
LEMMA RefinesEntry ==
  ASSUME SyncPrograms, SyncInv, NEW p \in Procs, NifEntry(p)
  PROVE  Sync!Next \/ UNCHANGED Sync!vars
<1>0. TypeOK
  BY DEF SyncInv, SerialInv, HeapInv
<1>1. CASE EnterDestroy(p)
  <2>1. Sync!Destroy
    BY <1>0, <1>1 DEF EnterDestroy, Sync!Destroy, Phase, TypeOK, ProcType
  <2> QED
    BY <2>1 DEF Sync!Next
<1>2. CASE EnterRefused(p)
  <2>1. /\ pc[p] = "wait" /\ nif[p] # "destroy" /\ destroyed /\ Answer(p, "invalid_context", <<>>)
        /\ UNCHANGED <<nif, req, dispatched, destroyed>>
    BY <1>2 DEF EnterRefused, heapVars
  <2>2. Sync!ReturnInvalid(p)
    BY <1>0, <2>1, Returned DEF Sync!ReturnInvalid
  <2> QED
    BY <2>2 DEF Sync!Next
<1>3. CASE BindBadArg(p) \/ CallBadArg(p) \/ CallNotFunction(p)
  <2>1. /\ pc[p] = "wait" /\ nif[p] \in {"bind", "call"}
        /\ UNCHANGED <<nif, req, dispatched, destroyed>>
    BY <1>3 DEF BindBadArg, CallBadArg, CallNotFunction, Enter, heapVars
  <2>2. req[p].api = nif[p] /\ dispatched[p] = <<>>
    <3>1. Served(p) = 0 /\ req[p].api = nif[p]
      BY <2>1 DEF SyncInv, ServesInv, MidRequest
    <3> QED
      BY <1>0, <3>1 DEF Served, TypeOK, ProcType
  <2>3. CASE BindBadArg(p) \/ CallBadArg(p)
    <3>1. Answer(p, "badarg", <<>>)
      BY <2>3 DEF BindBadArg, CallBadArg
    <3>2. Sync!ReturnBadArg(p)
      BY <1>0, <2>1, <2>2, <3>1, Returned DEF Sync!ReturnBadArg
    <3> QED
      BY <3>2 DEF Sync!Next
  <2>4. CASE CallNotFunction(p)
    <3>1. nif[p] = "call" /\ Answer(p, "js_error", <<>>)
      BY <2>4 DEF CallNotFunction, Enter
    <3>2. Sync!ReturnJsError(p)
      BY <1>0, <2>1, <2>2, <3>1, Returned DEF Sync!ReturnJsError
    <3> QED
      BY <3>2 DEF Sync!Next
  <2> QED
    BY <1>3, <2>3, <2>4
<1>4. CASE SendNothing(p)
  <2>1. pc[p] = "wait" /\ nif[p] = "send" /\ UNCHANGED <<nif, req, dispatched, destroyed>>
    BY <1>4 DEF SendNothing, Enter, heapVars
  <2>2. PICK status \in {"ok", "badarg"} : Answer(p, status, <<>>)
    BY <1>4 DEF SendNothing
  <2>3. Sync!Return(p, status, <<>>) /\ reply'[p].got = <<>>
    BY Zenon, <1>0, <2>1, <2>2, Returned DEF Answer, TypeOK, ProcType
  <2>4. req[p].api = "send"
    BY <2>1 DEF SyncInv, SerialInv, OwnRequest
  <2>5. Sync!ReturnSent(p)
    BY <2>3, <2>4 DEF Sync!ReturnSent
  <2> QED
    BY <2>5 DEF Sync!Next
<1>5. CASE CompleteRefused(p)
  <2>1. /\ pc[p] = "wait" /\ nif[p] = "complete" /\ destroyed /\ Die(p, "badmatch")
        /\ UNCHANGED <<nif, req, dispatched, destroyed>>
    BY <1>5 DEF CompleteRefused, Badmatch, heapVars
  <2>2. Sync!Die(p)
    BY <1>0, <2>1, Died
  <2> QED
    BY <2>2 DEF Sync!Next
<1>6. CASE EnterEval(p) \/ EnterBindings(p) \/ EnterCall(p) \/ EnterSend(p) \/ EnterResume(p)
           \/ EnterComplete(p)
  <2>1. /\ pc[p] = "wait" /\ nif[p] # "destroy" /\ pc'[p] \in {"js", "completed"}
        /\ \A q \in Procs \ {p} : pc'[q] = pc[q]
        /\ UNCHANGED <<nif, req, reply, dispatched, destroyed>>
    BY <1>0, <1>6 DEF EnterEval, EnterBindings, EnterCall, EnterSend, EnterResume, EnterComplete,
       Enter, RunJs, heapVars, TypeOK, ProcType
  <2>2. Phase' = Phase
    BY <1>0, <2>1, PhaseGoesOn
  <2> QED
    BY <2>1, <2>2 DEF Sync!vars
<1>7. CASE ResumeNoCode(p)
  <2>1. pc[p] = "wait" /\ nif[p] = "resume" /\ resumeCode = NoCode
    BY <1>7 DEF ResumeNoCode, Enter
  <2>2. req[p].owner = p /\ req[p] = NoRequest
    BY <2>1 DEF SyncInv, SerialInv, OwnRequest, OwnCode, Suspended, NoCode
  <2> QED
    BY <2>2, TrampolineAssumption DEF NoRequest
<1> QED
  BY <1>1, <1>2, <1>3, <1>4, <1>5, <1>6, <1>7 DEF NifEntry

(* The dispatch of a recorded call is the abstract call.                   *)
LEMMA RefinesDispatch ==
  ASSUME SyncPrograms, SyncInv, NEW p \in Procs, Dispatch(p)
  PROVE  Sync!CallErlang(p)
<1>1. /\ pc[p] = "dispatch" /\ pc' = [pc EXCEPT ![p] = "answered"]
      /\ UNCHANGED <<nif, req, reply, destroyed>>
  BY DEF Dispatch, heapVars
<1>2. /\ TypeOK /\ NextCall(p, call[p].site) /\ CallsInOrder(p) /\ nif[p] # "destroy"
      /\ req[p].owner = p
  BY <1>1 DEF SyncInv, ServesInv, MidRequest, SerialInv, HeapInv, OwnRequest
<1>3. /\ req[p].prog \in Seq(Statement) /\ dispatched[p] \in Seq(Call)
      /\ Len(dispatched[p]) \in Nat /\ Served(p) = Len(dispatched[p])
  BY <1>2, ProgType DEF TypeOK, ProcType, Served
<1>4. PICK at \in DOMAIN req[p].prog :
        /\ req[p].prog[at].op = "call"
        /\ AfterCalls(req[p].prog, at, Served(p))
        /\ call[p].site = Site(req[p], at)
  BY <1>2 DEF NextCall, IsCall
<1>5. Sync!NextAt(p) = at
  BY <1>2, <1>3, <1>4, NextAtAfterCalls
<1>6. Sync!NextIs(p, "call")
  BY <1>3, <1>4, <1>5 DEF Sync!NextIs
<1>7. ~Sync!Raised(p)
  BY <1>2, <1>3 DEF NextCall, ValuesUpTo, Sync!Raised, Sync!LastCall
<1>8. Phase[p] = "running" /\ Phase' = Phase
  <2>1. pc'[p] = "answered" /\ \A q \in Procs \ {p} : pc'[q] = pc[q]
    BY <1>1, <1>2 DEF TypeOK, ProcType
  <2> QED
    BY <1>1, <1>2, <2>1, PhaseGoesOn DEF Phase
<1>9. call[p].site = <<p, req[p].serial, Sync!NextAt(p)>>
  BY <1>2, <1>4, <1>5 DEF Site
<1> QED
  BY Zenon, <1>1, <1>6, <1>7, <1>8, <1>9, ServesDispatch DEF Sync!CallErlang

LEMMA RefinesErlang ==
  ASSUME SyncPrograms, SyncInv, NEW p \in Procs, StartComplete(p) \/ StartResume(p) \/ Kill(p)
  PROVE  Sync!Next \/ UNCHANGED Sync!vars
<1>0. TypeOK
  BY DEF SyncInv, SerialInv, HeapInv
<1>1. /\ pc[p] \in {"dispatch", "answered", "completed"} /\ nif[p] # "destroy"
      /\ UNCHANGED <<req, dispatched, destroyed>>
  BY DEF StartComplete, StartResume, Kill, heapVars, SyncInv, SerialInv, OwnRequest
<1>2. MidRequest(p) /\ reply[p] = NoReply
  BY <1>1 DEF SyncInv, SerialInv, OwnRequest, MidRequest, ServesInv
<1>3. CASE Kill(p)
  <2>1. Sync!Die(p)
    BY <1>0, <1>1, <1>3, Died DEF Kill
  <2> QED
    BY <2>1 DEF Sync!Next
<1>4. CASE (StartComplete(p) \/ StartResume(p)) /\ ~destroyed
  <2>1. pc' = [pc EXCEPT ![p] = "wait"] /\ nif' = [nif EXCEPT ![p] = nif'[p]] /\ nif'[p] # "destroy"
    BY <1>0, <1>4 DEF StartComplete, StartResume, GetContext, TypeOK, ProcType
  <2>2. reply' = reply
    BY <1>0, <1>2, <1>4 DEF StartComplete, StartResume, GetContext, TypeOK, ProcType
  <2>3. Phase' = Phase
    <3>1. /\ pc'[p] = "wait" /\ nif'[p] # "destroy"
          /\ \A q \in Procs \ {p} : pc'[q] = pc[q] /\ nif'[q] = nif[q]
      BY <1>0, <2>1 DEF TypeOK, ProcType
    <3> QED
      BY <1>0, <1>1, <3>1, PhaseGoesOn
  <2> QED
    BY <1>1, <2>2, <2>3 DEF Sync!vars
<1>5. CASE (StartComplete(p) \/ StartResume(p)) /\ destroyed
  <2>1. Phase[p] = "running"
    BY <1>1 DEF Phase
  <2>2. CASE StartComplete(p)
    <3>1. Die(p, "badmatch") /\ nif' = [nif EXCEPT ![p] = "complete"]
      BY <1>5, <2>2 DEF StartComplete, Badmatch
    <3>2. Phase' = [Phase EXCEPT ![p] = "dead"]
      BY Zenon, <1>0, <3>1 DEF Die, Phase, TypeOK, ProcType
    <3>3. Sync!Die(p)
      BY Zenon, <1>1, <1>5, <2>1, <3>1, <3>2 DEF Die, Sync!Die
    <3> QED
      BY <3>3 DEF Sync!Next
  <2>3. CASE StartResume(p)
    <3>1. Answer(p, "invalid_context", <<>>) /\ nif' = [nif EXCEPT ![p] = "resume"]
      BY <1>5, <2>3 DEF StartResume, GetContext
    <3>2. Phase' = [Phase EXCEPT ![p] = "idle"]
      BY Zenon, <1>0, <3>1 DEF Answer, Phase, TypeOK, ProcType
    <3>3. Sync!ReturnInvalid(p)
      BY <1>1, <1>5, <2>1, <3>1, <3>2 DEF Answer, Sync!ReturnInvalid, Sync!Return
    <3> QED
      BY <3>3 DEF Sync!Next
  <2> QED
    BY <1>5, <2>2, <2>3
<1> QED
  BY <1>3, <1>4, <1>5

LEMMA RefinesStart ==
  ASSUME SyncPrograms, SyncInv, NEW p \in Procs, StartRequest(p) \/ StartDestroy(p)
  PROVE  Sync!Next \/ UNCHANGED Sync!vars
<1>0. TypeOK /\ pc[p] = "idle" /\ Phase[p] = "idle"
  BY DEF SyncInv, SerialInv, HeapInv, StartRequest, StartDestroy, Phase
<1>1. CASE StartRequest(p)
  <2>1. PICK api \in Apis \ {"destroy"} :
          /\ nif' = [nif EXCEPT ![p] = api]
          /\ \E timed \in TimeoutsOf(api), prog \in ProgramsOf(api) :
               req' = [req EXCEPT ![p] = [owner |-> p, serial |-> served[p] + 1, api |-> api,
                                         prog |-> prog, timed |-> timed]]
    BY Zenon, <1>1 DEF StartRequest
  <2>2. nif'[p] # "destroy" /\ \A q \in Procs \ {p} : nif'[q] = nif[q]
    BY <1>0, <2>1 DEF TypeOK, ProcType
  <2>3. /\ req'[p].owner = p /\ req'[p].serial = served[p] + 1
        /\ \A q \in Procs \ {p} : req'[q] = req[q]
    BY <1>0, <2>1 DEF TypeOK, ProcType
  <2>4. req'[p].serial > req[p].serial
    <3>1. req[p].serial \in Nat /\ served[p] \in Nat /\ req[p].serial <= served[p]
      BY <1>0 DEF TypeOK, ProcType, Request, NoRequest, SyncInv
    <3> QED
      BY <2>3, <3>1
  <2>5. Sync!NewRequest(p)
    BY <1>0, <1>1, <2>3, <2>4 DEF StartRequest, heapVars, Sync!NewRequest
  <2>6. CASE destroyed
    <3>1. Answer(p, "invalid_context", <<>>)
      BY <1>1, <2>6 DEF StartRequest, GetContext
    <3>2. Phase' = Phase
      BY <1>0, <2>2, <3>1 DEF Answer, Phase, TypeOK, ProcType
    <3>3. Sync!Refuse(p)
      BY <2>5, <2>6, <3>1, <3>2 DEF Answer, Sync!Refuse
    <3> QED
      BY <3>3 DEF Sync!Next
  <2>7. CASE ~destroyed
    <3>1. pc' = [pc EXCEPT ![p] = "wait"] /\ reply' = [reply EXCEPT ![p] = NoReply]
      BY <1>1, <2>7 DEF StartRequest, GetContext
    <3>2. Phase' = [Phase EXCEPT ![p] = "running"]
      BY Zenon, <1>0, <2>2, <3>1 DEF Phase, TypeOK, ProcType
    <3>3. Sync!Begin(p)
      BY <2>5, <2>7, <3>1, <3>2 DEF NoReply, Sync!Begin
    <3> QED
      BY <3>3 DEF Sync!Next
  <2> QED
    BY <2>6, <2>7
<1>2. CASE StartDestroy(p)
  <2>1. Phase' = Phase
    BY <1>0, <1>2 DEF StartDestroy, Phase, TypeOK, ProcType
  <2> QED
    BY <1>2, <2>1 DEF StartDestroy, heapVars, Sync!vars
<1> QED
  BY <1>1, <1>2

LEMMA RefinesStep ==
  ASSUME SyncPrograms, SyncInv, [Next]_vars
  PROVE  [Sync!Next]_(Sync!vars)
<1>1. CASE UNCHANGED vars
  BY <1>1 DEF vars, heapVars, procVars, Sync!vars, Phase
<1>2. ASSUME NEW p \in Procs, Moves(p) PROVE Sync!Next \/ UNCHANGED Sync!vars
  <2>1. CASE JsStep(p) \/ JsTimeout(p)
    <3>1. UNCHANGED <<pc, nif, req, reply, dispatched, destroyed>>
      BY <2>1 DEF JsStep, JsTimeout, JsCallCached, JsCallPending, JsRead, JsThrow, JsSpin,
         JsUnchanged, procVars, heapVars, vars
    <3> QED
      BY <3>1 DEF Sync!vars, Phase
  <2>2. CASE Dispatch(p)
    BY <2>2, RefinesDispatch DEF Sync!Next
  <2>3. CASE StartComplete(p) \/ StartResume(p) \/ Kill(p)
    BY <2>3, RefinesErlang
  <2>4. CASE StartRequest(p) \/ StartDestroy(p)
    BY <2>4, RefinesStart
  <2> QED
    BY <1>2, <2>1, <2>2, <2>3, <2>4, RefinesEntry, RefinesReturn DEF Moves, Step
<1> QED
  BY <1>1, <1>2 DEF Next, Finished, Moves

(* Evaluations that no other overlaps run their JavaScript once, call each *)
(* Erlang function once and in program order, and return what the request  *)
(* asks for: recording calls, unwinding, replaying the code against cached *)
(* answers and the sends, kills and destructions in between do not show.   *)
THEOREM RefinesSyncEval ==
  ASSUME SyncPrograms
  PROVE  Spec => ImplementsSyncEval
<1>1. Init => Sync!Init
  BY DEF Init, Sync!Init, Phase, NoReply, NoRequest
<1>2. SyncInv /\ [Next]_vars => [Sync!Next]_(Sync!vars)
  BY RefinesStep
<1> QED
  BY <1>1, <1>2, SyncAlways, PTL DEF Spec, ImplementsSyncEval, Sync!Spec

(* Every value of a reply is the one SyncEval gives to its statement.      *)
AnswersInv ==
    \A p \in Procs :
        reply[p].status = "ok" /\ req[p].api # "send" =>
            \A i \in DOMAIN reply[p].got :
                reply[p].got[i].site = Site(req[p], reply[p].got[i].at)

LEMMA AnswersStep ==
  ASSUME SyncPrograms, SyncInv, AnswersInv, [Next]_vars
  PROVE  AnswersInv'
<1>0. reply \in [Procs -> Reply] /\ req \in [Procs -> Request]
  BY DEF SyncInv, SerialInv, HeapInv, TypeOK, ProcType
<1>1. CASE UNCHANGED Sync!vars
  BY <1>1 DEF Sync!vars, AnswersInv
<1>2. CASE Sync!Destroy
  BY <1>2 DEF Sync!Destroy, AnswersInv
<1>3. ASSUME NEW p \in Procs, Sync!NewRequest(p), NEW s \in {"none", "invalid_context"},
             reply' = [reply EXCEPT ![p] = [status |-> s, got |-> <<>>]]
      PROVE  AnswersInv'
  BY <1>0, <1>3 DEF Sync!NewRequest, AnswersInv
<1>4. ASSUME NEW p \in Procs, NEW status, NEW got, req' = req,
             reply' = [reply EXCEPT ![p] = [status |-> status, got |-> got]],
             \/ status # "ok" \/ req[p].api = "send"
             \/ \A i \in DOMAIN got : got[i].site = Site(req[p], got[i].at)
      PROVE  AnswersInv'
  BY <1>0, <1>4 DEF AnswersInv
<1>5. ASSUME NEW p \in Procs, Sync!ReturnOk(p) PROVE AnswersInv'
  <2>1. pc[p] \notin {"idle", "dead"} /\ nif[p] # "destroy"
    BY <1>5 DEF Sync!ReturnOk, Sync!Return, Phase
  <2>2. req[p].owner = p
    BY <2>1 DEF SyncInv, SerialInv, OwnRequest
  <2>3. \A i \in DOMAIN Sync!Values(p) :
          Sync!Values(p)[i].site = Site(req[p], Sync!Values(p)[i].at)
    BY <2>2 DEF Sync!Values, Site
  <2>4. /\ req' = req
        /\ reply' = [reply EXCEPT ![p] = [status |-> "ok", got |-> Sync!Values(p)]]
    BY <1>5 DEF Sync!ReturnOk, Sync!Return
  <2> QED
    BY Zenon, <1>4, <2>3, <2>4
<1>6. ASSUME NEW p \in Procs, Sync!CallErlang(p) PROVE AnswersInv'
  BY <1>6 DEF Sync!CallErlang, AnswersInv
<1>7. ASSUME NEW p \in Procs, Sync!ReturnSent(p) PROVE AnswersInv'
  <2>1. PICK status \in {"ok", "js_error", "badarg"} :
          /\ req[p].api = "send" /\ req' = req
          /\ reply' = [reply EXCEPT ![p] = [status |-> status, got |-> reply'[p].got]]
    BY <1>7 DEF Sync!ReturnSent, Sync!Return
  <2> QED
    BY <1>4, <2>1
<1>8. ASSUME NEW p \in Procs,
             \/ Sync!ReturnJsError(p) \/ Sync!ReturnBadArg(p) \/ Sync!ReturnTimeout(p)
             \/ Sync!ReturnInvalid(p) \/ Sync!Die(p)
      PROVE  AnswersInv'
  <2>1. /\ req' = req
        /\ \E s \in {"js_error", "badarg", "timeout", "invalid_context", "killed", "badmatch"} :
             reply' = [reply EXCEPT ![p] = [status |-> s, got |-> <<>>]]
    BY <1>8 DEF Sync!ReturnJsError, Sync!ReturnBadArg, Sync!ReturnTimeout, Sync!ReturnInvalid,
       Sync!Return, Sync!Die
  <2> QED
    BY Zenon, <1>4, <2>1
<1>9. ASSUME NEW p \in Procs, Sync!Begin(p) \/ Sync!Refuse(p) PROVE AnswersInv'
  BY <1>3, <1>9 DEF Sync!Begin, Sync!Refuse
<1> QED
  BY <1>1, <1>2, <1>5, <1>6, <1>7, <1>8, <1>9, RefinesStep DEF Sync!Next

(* Each value that a successful eval or call returns was given to the      *)
(* statement that asked for it: the answer of that statement's own call,   *)
(* in the pass that ran last, whatever was replayed before.                *)
THEOREM AnswersAreOwn ==
  ASSUME SyncPrograms
  PROVE  Spec => []OwnAnswers
<1>1. Init => AnswersInv
  BY DEF Init, AnswersInv, NoReply
<1>2. SyncInv /\ AnswersInv /\ [Next]_vars => AnswersInv'
  BY AnswersStep
<1>3. AnswersInv => OwnAnswers
  BY DEF AnswersInv, OwnAnswers
<1> QED
  BY <1>1, <1>2, <1>3, SyncAlways, PTL DEF Spec
=============================================================================
