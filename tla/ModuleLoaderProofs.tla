------------------------- MODULE ModuleLoaderProofs -------------------------
(***************************************************************************)
(* Proofs about ModuleLoader, for any ids, sources, programs and bounds:   *)
(* its types, and that the cache, the stack of modules being loaded and    *)
(* the finished modules agree.                                             *)
(***************************************************************************)
EXTENDS ModuleLoader, SequenceTheorems, TLAPS

(* The frames of t are those of s, perhaps at other statements.            *)
SameFrames(s, t) ==
    /\ Len(t) = Len(s)
    /\ \A i \in 1..Len(s) : t[i].mod = s[i].mod /\ t[i].obj = s[i].obj

(* Going on to the next statement leaves the frames as they are.           *)
LEMMA AdvanceFrames ==
  ASSUME NEW s \in Seq(FrameSet), s # <<>>
  PROVE  /\ Advance(s) \in Seq(FrameSet)
         /\ Advance(s) # <<>>
         /\ SameFrames(s, Advance(s))
<1>1. Len(s) \in 1..Len(s)
  BY EmptySeq
<1>2. [s[Len(s)] EXCEPT !.at = @ + 1] \in FrameSet
  <2>1. s[Len(s)] \in FrameSet
    BY <1>1, ElementOfSeq
  <2>2. ASSUME NEW f \in FrameSet PROVE [f EXCEPT !.at = @ + 1] \in FrameSet
    <3>1. f.at + 1 \in Nat \ {0}
      BY DEF FrameSet
    <3> QED BY <3>1 DEF FrameSet
  <2> QED BY <2>1, <2>2
<1>3. Advance(s) = [s EXCEPT ![Len(s)] = [s[Len(s)] EXCEPT !.at = @ + 1]]
  BY DEF Advance
<1>4. Advance(s) \in Seq(FrameSet) /\ Len(Advance(s)) = Len(s)
  BY <1>1, <1>2, <1>3
<1>5. ASSUME NEW i \in 1..Len(s)
      PROVE  Advance(s)[i].mod = s[i].mod /\ Advance(s)[i].obj = s[i].obj
  BY <1>1, <1>3, <1>5 DEF FrameSet
<1> QED BY <1>1, <1>4, <1>5 DEF SameFrames

(* The frames below the top one.                                           *)
LEMMA BelowFrames ==
  ASSUME NEW s \in Seq(FrameSet), Len(s) > 1
  PROVE  /\ Below(s) \in Seq(FrameSet)
         /\ Below(s) # <<>>
         /\ Len(Below(s)) = Len(s) - 1
         /\ \A i \in 1..(Len(s) - 1) : Below(s)[i] = s[i]
<1>1. \A i \in 1..(Len(s) - 1) : s[i] \in FrameSet
  <2>1. 1..(Len(s) - 1) \subseteq 1..Len(s)
    BY LenProperties
  <2> QED BY <2>1, ElementOfSeq
<1>2. Len(s) - 1 \in Nat /\ Len(s) - 1 > 0
  <2>1. Len(s) \in Nat
    BY LenProperties
  <2>2. \A n \in Nat : n > 1 => n - 1 \in Nat /\ n - 1 > 0
    OBVIOUS
  <2> QED BY <2>1, <2>2
<1>3. /\ Below(s) \in Seq(FrameSet)
      /\ Len(Below(s)) = Len(s) - 1
      /\ \A i \in 1..(Len(s) - 1) : Below(s)[i] = s[i]
  BY <1>1, <1>2, SubSeqProperties DEF Below
<1> QED BY <1>2, <1>3, EmptySeq

(* An error that reaches the top frame changes at most where it stands.    *)
LEMMA ThrowFrames ==
  ASSUME NEW s \in Seq(FrameSet), s # <<>>,
         NEW kind \in {"error", "timeout"},
         ThrowIn(s, kind)
  PROVE  /\ stack' \in Seq(FrameSet)
         /\ stack' # <<>>
         /\ SameFrames(s, stack')
         /\ thrown' \in {"none", "error", "timeout"}
<1>1. SameFrames(s, s)
  BY DEF SameFrames
<1> QED BY <1>1, AdvanceFrames DEF ThrowIn

(* Code that starts is one frame at its first statement.                   *)
LEMMA OneFrame ==
  ASSUME NEW mod \in Ids \cup {NoId}, NEW obj \in Nat, NEW prog \in Seq(Statement)
  PROVE  Frame(mod, obj, prog) \in FrameSet
  BY DEF Frame, FrameSet

-----------------------------------------------------------------------------
(* The invariant: what is on the stack is in the cache and not loaded yet, *)
(* and what is in the cache is loaded or on the stack.  Module objects are *)
(* not shared between ids.                                                 *)
Loading(i) == /\ stack[i].mod \in DOMAIN modLoaded
              /\ modLoaded[stack[i].mod] = stack[i].obj
              /\ stack[i].obj \notin loaded

StackInv ==
    /\ nif = "none" => stack = <<>>
    /\ stack # <<>> => stack[1].mod = NoId
    /\ \A i \in 2..Len(stack) : stack[i].mod \in Ids /\ Loading(i)

OneEach == \A id1, id2 \in DOMAIN modLoaded :
              modLoaded[id1] = modLoaded[id2] => id1 = id2

LoaderInv == TypeOK /\ StackInv /\ OneEach /\ LoadsNest /\ LoadingIsOnStack

(* The top frame is one of the stack's.                                    *)
LEMMA TopType ==
  ASSUME TypeOK, stack # <<>>
  PROVE  /\ Len(stack) \in Nat \ {0}
         /\ Top = stack[Len(stack)]
         /\ Top \in FrameSet
         /\ Site(Top.mod, Top.at) \in SiteSet
<1>1. Len(stack) \in Nat \ {0}
  BY EmptySeq DEF TypeOK, RunType
<1>2. Top \in FrameSet
  BY <1>1, LenProperties DEF Top, TypeOK, RunType
<1>3. Site(Top.mod, Top.at) \in SiteSet
  BY <1>2 DEF Site, SiteSet, FrameSet, TypeOK, ApiType
<1> QED BY <1>1, <1>2, <1>3 DEF Top

(* A part of the state that a step leaves alone keeps its type.            *)
LEMMA KeptType ==
  /\ LoadType /\ UNCHANGED loadVars => LoadType'
  /\ RunType /\ UNCHANGED runVars => RunType'
  /\ CallType /\ UNCHANGED callVars => CallType'
  /\ ApiType /\ UNCHANGED apiVars => ApiType'
  BY DEF LoadType, RunType, CallType, ApiType, loadVars, runVars, callVars, apiVars

(* The empty context is well typed.                                        *)
LEMMA InitType == Init => TypeOK
<1> SUFFICES ASSUME Init PROVE TypeOK
  OBVIOUS
<1>1. LoadType
  BY DEF Init, LoadType, Empty
<1>2. RunType
  BY EmptySeq DEF Init, RunType
<1>3. CallType
  <2>1. resumeCode \in Seq(Statement)
    BY EmptySeq DEF Init
  <2> QED BY <2>1 DEF Init, CallType, Empty, SiteSet
<1> QED BY <1>1, <1>2, <1>3 DEF Init, ApiType, TypeOK

(* Code that a NIF starts to run is well typed.                            *)
LEMMA RunTyped ==
  ASSUME NEW n \in {"eval", "resume", "require"}, NEW prog \in Seq(Statement),
         Run(n, prog), timed' \in BOOLEAN
  PROVE  RunType'
<1>1. Frame(NoId, 0, prog) \in FrameSet
  BY OneFrame
<1>2. <<Frame(NoId, 0, prog)>> \in Seq(FrameSet)
  BY <1>1
<1> QED BY <1>2 DEF Run, RunType

(* The operations of the API keep the types.                               *)
LEMMA ApiTyped == TypeOK /\ Api => TypeOK'
<1> SUFFICES ASSUME TypeOK, Api PROVE TypeOK'
  OBVIOUS
<1> USE DEF TypeOK
<1>1. ASSUME RegisterModule PROVE TypeOK'
  <2>1. LoadType' /\ ApiType'
    BY <1>1 DEF RegisterModule, LoadType, ApiType
  <2> QED BY <1>1, <2>1, KeptType DEF RegisterModule
<1>2. ASSUME NifRequire PROVE TypeOK'
  <2>1. PICK id \in Ids : Run("require", <<Require(id)>>)
    BY <1>2 DEF NifRequire
  <2>2. <<Require(id)>> \in Seq(Statement)
    BY DEF Require, Statement
  <2>3. RunType'
    BY <1>2, <2>1, <2>2, RunTyped DEF NifRequire, RunType
  <2>4. ApiType'
    BY <1>2 DEF NifRequire, ApiType
  <2> QED BY <1>2, <2>3, <2>4, KeptType DEF NifRequire
<1>3. ASSUME NifEval PROVE TypeOK'
  <2>1. PICK prog \in EvalPrograms, t \in BOOLEAN :
           Run("eval", prog) /\ timed' = t
    BY <1>3 DEF NifEval
  <2>2. RunType'
    BY <2>1, LoaderAssumption, RunTyped
  <2>3. CallType' /\ ApiType'
    BY <1>3 DEF NifEval, CallType, ApiType, Empty
  <2> QED BY <1>3, <2>2, <2>3, KeptType DEF NifEval
<1>4. ASSUME NifCallComplete PROVE TypeOK'
  <2>1. CallType'
    BY <1>4 DEF NifCallComplete, CallType, Registered
  <2> QED BY <1>4, <2>1, KeptType DEF NifCallComplete
<1>5. ASSUME NifEvalResume PROVE TypeOK'
  <2>1. RunType'
    BY <1>5, RunTyped DEF NifEvalResume, RunType, CallType
  <2>2. CallType'
    BY <1>5 DEF NifEvalResume, CallType
  <2> QED BY <1>5, <2>1, <2>2, KeptType DEF NifEvalResume
<1> QED BY <1>1, <1>2, <1>3, <1>4, <1>5 DEF Api

(* JavaScript keeps the types.                                             *)
LEMMA JsTyped == TypeOK /\ StackInv /\ Js => TypeOK'
<1> SUFFICES ASSUME TypeOK, StackInv, Js PROVE TypeOK'
  OBVIOUS
<1> USE DEF TypeOK
<1>1. ASSUME JsThrow PROVE TypeOK'
  <2>1. RunType'
    BY <1>1, ThrowFrames DEF JsThrow, At, Running, RunType
  <2> QED BY <1>1, <2>1, KeptType DEF JsThrow
<1>2. ASSUME RequireCached PROVE TypeOK'
  <2>1. RunType'
    BY <1>2, AdvanceFrames DEF RequireCached, At, Running, RunType
  <2> QED BY <1>2, <2>1, KeptType DEF RequireCached
<1>3. ASSUME RequireLoads PROVE TypeOK'
  <2>1. PICK id \in Ids :
          /\ stash[id] \in Sources
          /\ modLoaded' = Registered(modLoaded, id, made + 1)
          /\ stack' = Append(stack, Frame(id, made + 1, stash[id]))
    BY <1>3 DEF RequireLoads
  <2>2. Frame(id, made + 1, stash[id]) \in FrameSet
    <3>1. stash[id] \in Seq(Statement) /\ made + 1 \in Nat
      BY <2>1, LoaderAssumption DEF LoadType
    <3> QED BY <3>1, OneFrame
  <2>3. RunType'
    BY <1>3, <2>1, <2>2, AppendProperties DEF RequireLoads, RunType
  <2>4. LoadType'
    BY <1>3, <2>1 DEF RequireLoads, LoadType, Registered
  <2> QED BY <1>3, <2>3, <2>4, KeptType DEF RequireLoads
<1>4. ASSUME RequireFails PROVE TypeOK'
  <2>1. RunType'
    BY <1>4, ThrowFrames DEF RequireFails, Fresh, At, Running, RunType
  <2>2. LoadType'
    BY <1>4 DEF RequireFails, LoadType, Registered, Deleted
  <2> QED BY <1>4, <2>1, <2>2, KeptType DEF RequireFails
<1>5. ASSUME RequireInherited PROVE TypeOK'
  <2>1. RunType'
    BY <1>5, AdvanceFrames DEF RequireInherited, Fresh, At, Running, RunType
  <2>2. LoadType'
    BY <1>5, LoaderAssumption DEF RequireInherited, LoadType, Registered
  <2> QED BY <1>5, <2>1, <2>2, KeptType DEF RequireInherited
<1>6. ASSUME ModuleReturns PROVE TypeOK'
  <2>1. RunType'
    BY <1>6, BelowFrames, AdvanceFrames DEF ModuleReturns, RunType
  <2>2. Len(stack) \in 2..Len(stack)
    BY <1>6, LenProperties DEF ModuleReturns, RunType
  <2>3. Top.obj \in 1..made
    BY <2>2 DEF StackInv, Loading, Top, LoadType
  <2>4. LoadType'
    BY <1>6, <2>3 DEF ModuleReturns, LoadType
  <2> QED BY <1>6, <2>1, <2>4, KeptType DEF ModuleReturns
<1>7. ASSUME ModuleThrows PROVE TypeOK'
  <2>1. thrown \in {"error", "timeout"}
    BY <1>7 DEF ModuleThrows, RunType
  <2>2. RunType'
    BY <1>7, <2>1, BelowFrames, ThrowFrames DEF ModuleThrows, RunType
  <2>3. LoadType'
    BY <1>7 DEF ModuleThrows, LoadType, Deleted
  <2> QED BY <1>7, <2>2, <2>3, KeptType DEF ModuleThrows
<1>8. ASSUME CallCached PROVE TypeOK'
  <2>1. RunType'
    BY <1>8, AdvanceFrames DEF CallCached, At, Running, RunType
  <2>2. <<Site(Top.mod, Top.at), results[callIndex]>> \in SiteSet \X SiteSet
    BY <1>8, TopType DEF CallCached, At, Running, CallType
  <2>3. CallType'
    BY <1>8, <2>2 DEF CallCached, CallType
  <2> QED BY <1>8, <2>1, <2>3, KeptType DEF CallCached
<1>9. ASSUME CallPending PROVE TypeOK'
  <2>1. RunType'
    BY <1>9, ThrowFrames DEF CallPending, At, Running, RunType
  <2>2. Site(Top.mod, Top.at) \in SiteSet
    BY <1>9, TopType DEF CallPending, At, Running
  <2>3. CallType'
    BY <1>9, <2>2 DEF CallPending, CallType
  <2> QED BY <1>9, <2>1, <2>3, KeptType DEF CallPending
<1>10. ASSUME Timeout PROVE TypeOK'
  <2>1. RunType'
    BY <1>10 DEF Timeout, RunType
  <2> QED BY <1>10, <2>1, KeptType DEF Timeout
<1> QED
  BY <1>1, <1>2, <1>3, <1>4, <1>5, <1>6, <1>7, <1>8, <1>9, <1>10 DEF Js

(* The NIFs that return keep the types.                                    *)
LEMMA ReturnTyped == TypeOK /\ (ReturnResult \/ ReturnCallErlang) => TypeOK'
<1> USE DEF TypeOK
<1>1. ASSUME TypeOK, Return PROVE RunType'
  BY <1>1, EmptySeq DEF Return, RunType
<1>2. ASSUME TypeOK, ReturnResult PROVE TypeOK'
  <2>1. resumeCode' \in Seq(Statement)
    BY <1>2, EmptySeq DEF ReturnResult, CallType
  <2>2. CallType'
    BY <1>2, <2>1 DEF ReturnResult, CallType
  <2> QED BY <1>1, <1>2, <2>2, KeptType DEF ReturnResult
<1>3. ASSUME TypeOK, ReturnCallErlang PROVE TypeOK'
  <2>1. stack # <<>>
    <3>1. Len(stack) = 1
      BY <1>3 DEF ReturnCallErlang, Return
    <3> QED BY <3>1
  <2>2. resumeCode' \in Seq(Statement)
    <3>1. Top \in FrameSet
      BY <1>3, <2>1, TopType
    <3>2. Top.prog \in Seq(Statement)
      BY <3>1 DEF FrameSet
    <3> QED BY <1>3, <3>2 DEF ReturnCallErlang
  <2>3. CallType'
    BY <1>3, <2>2 DEF ReturnCallErlang, CallType
  <2> QED BY <1>1, <1>3, <2>3, KeptType DEF ReturnCallErlang
<1> QED BY <1>2, <1>3

-----------------------------------------------------------------------------
(* A step that moves no frame, loads no module and changes no entry of the *)
(* cache keeps the invariant.                                              *)
LEMMA KeptInv ==
  ASSUME LoaderInv, SameFrames(stack, stack'), stack' \in Seq(FrameSet),
         DOMAIN modLoaded' = DOMAIN modLoaded,
         \A id \in DOMAIN modLoaded : modLoaded'[id] = modLoaded[id],
         loaded' = loaded, nif' = nif
  PROVE  StackInv' /\ OneEach' /\ LoadsNest' /\ LoadingIsOnStack'
<1> USE DEF LoaderInv
<1>1. /\ DOMAIN stack = 1..Len(stack) /\ DOMAIN stack' = 1..Len(stack')
      /\ Len(stack) \in Nat /\ Len(stack') = Len(stack)
      /\ stack = <<>> <=> Len(stack) = 0
      /\ stack' = <<>> <=> Len(stack') = 0
  BY LenProperties, EmptySeq DEF TypeOK, RunType, SameFrames
<1>2. /\ \A i \in DOMAIN stack : stack'[i].mod = stack[i].mod
      /\ \A i \in DOMAIN stack : stack'[i].obj = stack[i].obj
  BY <1>1 DEF SameFrames
<1>3. StackInv'
  BY <1>1, <1>2 DEF StackInv, Loading
<1>4. LoadsNest'
  BY <1>1, <1>2 DEF LoadsNest
<1>5. LoadingIsOnStack'
  BY <1>1, <1>2 DEF LoadingIsOnStack
<1>6. OneEach'
  BY DEF OneEach
<1> QED BY <1>3, <1>4, <1>5, <1>6

(* Code that a NIF starts to run finds no module half loaded.              *)
LEMMA RunInv ==
  ASSUME LoaderInv, nif = "none", UNCHANGED loadVars,
         NEW n \in {"eval", "resume", "require"}, NEW prog, Run(n, prog)
  PROVE  StackInv' /\ OneEach' /\ LoadsNest' /\ LoadingIsOnStack'
<1> USE DEF LoaderInv
<1>1. stack = <<>> /\ DOMAIN stack = {}
  BY DEF StackInv
<1>2. Len(stack') = 1 /\ DOMAIN stack' = {1} /\ stack'[1].mod = NoId
  BY DEF Run, Frame
<1>3. StackInv'
  BY <1>2 DEF StackInv, Run
<1>4. LoadsNest'
  BY <1>2 DEF LoadsNest
<1>5. LoadingIsOnStack' /\ OneEach'
  BY <1>1 DEF LoadingIsOnStack, OneEach, loadVars
<1> QED BY <1>3, <1>4, <1>5

(* The operations of the API keep the invariant.                           *)
LEMMA ApiInv ==
  LoaderInv /\ Api => StackInv' /\ OneEach' /\ LoadsNest' /\ LoadingIsOnStack'
<1> SUFFICES ASSUME LoaderInv, Api
             PROVE  StackInv' /\ OneEach' /\ LoadsNest' /\ LoadingIsOnStack'
  OBVIOUS
<1>1. ASSUME UNCHANGED <<modLoaded, loaded, runVars>>
      PROVE  StackInv' /\ OneEach' /\ LoadsNest' /\ LoadingIsOnStack'
  <2>1. stack' \in Seq(FrameSet) /\ SameFrames(stack, stack')
    BY <1>1 DEF runVars, LoaderInv, TypeOK, RunType, SameFrames
  <2> QED BY <1>1, <2>1, KeptInv DEF runVars
<1>2. CASE RegisterModule
  BY <1>1, <1>2 DEF RegisterModule
<1>3. CASE NifRequire
  BY <1>3, RunInv DEF NifRequire
<1>4. CASE NifEval
  <2>1. PICK prog \in EvalPrograms : Run("eval", prog)
    BY <1>4 DEF NifEval
  <2> QED BY <1>4, <2>1, RunInv DEF NifEval
<1>5. CASE NifCallComplete
  BY <1>1, <1>5 DEF NifCallComplete, loadVars
<1>6. CASE NifEvalResume
  BY <1>6, RunInv DEF NifEvalResume
<1> QED BY <1>2, <1>3, <1>4, <1>5, <1>6 DEF Api

(* When a NIF returns no frame of a module is left, and so no module that  *)
(* is half loaded.                                                         *)
LEMMA ReturnInv ==
  LoaderInv /\ (ReturnResult \/ ReturnCallErlang)
    => StackInv' /\ OneEach' /\ LoadsNest' /\ LoadingIsOnStack'
<1> SUFFICES ASSUME LoaderInv, ReturnResult \/ ReturnCallErlang
             PROVE  StackInv' /\ OneEach' /\ LoadsNest' /\ LoadingIsOnStack'
  OBVIOUS
<1> USE DEF LoaderInv
<1>1. Return /\ UNCHANGED loadVars
  BY DEF ReturnResult, ReturnCallErlang
<1>2. Len(stack) = 1 /\ DOMAIN stack = {1} /\ stack # <<>>
  BY <1>1, LenProperties DEF Return, TypeOK, RunType
<1>3. stack[1].mod \notin Ids
  BY <1>2, LoaderAssumption DEF StackInv
<1>4. stack' = <<>> /\ DOMAIN stack' = {} /\ Len(stack') = 0
  BY <1>1 DEF Return
<1>5. StackInv' /\ LoadsNest'
  BY <1>4 DEF StackInv, LoadsNest
<1>6. OneEach'
  BY <1>1 DEF OneEach, loadVars
<1>7. LoadingIsOnStack'
  BY <1>1, <1>2, <1>3 DEF LoadingIsOnStack, loadVars, TypeOK, LoadType
<1> QED BY <1>5, <1>6, <1>7

(* A module that starts: its id is in no frame, its object is new.         *)
LEMMA LoadsInv ==
  LoaderInv /\ RequireLoads
    => StackInv' /\ OneEach' /\ LoadsNest' /\ LoadingIsOnStack'
<1> SUFFICES ASSUME LoaderInv, RequireLoads
             PROVE  StackInv' /\ OneEach' /\ LoadsNest' /\ LoadingIsOnStack'
  OBVIOUS
<1> USE DEF LoaderInv
<1>1. PICK id \in Ids :
        /\ id \notin DOMAIN modLoaded
        /\ stash[id] \in Sources
        /\ modLoaded' = Registered(modLoaded, id, made + 1)
        /\ stack' = Append(stack, Frame(id, made + 1, stash[id]))
  BY DEF RequireLoads, Fresh
<1> DEFINE n == Len(stack)
<1>2. Frame(id, made + 1, stash[id]) \in FrameSet
  <2>1. stash[id] \in Seq(Statement) /\ made + 1 \in Nat
    BY <1>1, LoaderAssumption DEF TypeOK, LoadType
  <2> QED BY <2>1, OneFrame
<1>3. /\ n \in Nat \ {0}
      /\ stack \in Seq(FrameSet)
      /\ DOMAIN stack = 1..n
  BY EmptySeq, LenProperties DEF RequireLoads, Fresh, At, Running, TypeOK, RunType
<1>4. /\ DOMAIN stack' = 1..(n + 1)
      /\ Len(stack') = n + 1
      /\ stack' # <<>>
      /\ \A i \in 1..n : stack'[i] = stack[i]
      /\ stack'[n + 1] = Frame(id, made + 1, stash[id])
  BY <1>1, <1>2, <1>3, AppendProperties, LenProperties
<1>5. /\ stack'[n + 1].mod = id
      /\ stack'[n + 1].obj = made + 1
  BY <1>4 DEF Frame
<1>6. /\ DOMAIN modLoaded' = DOMAIN modLoaded \cup {id}
      /\ modLoaded'[id] = made + 1
      /\ \A k \in DOMAIN modLoaded : modLoaded'[k] = modLoaded[k]
  BY <1>1 DEF Registered
<1>7. /\ loaded' = loaded /\ nif' = nif
      /\ made \in Nat
      /\ loaded \subseteq 1..made
      /\ \A k \in DOMAIN modLoaded : modLoaded[k] \in 1..made
  BY DEF RequireLoads, TypeOK, LoadType
<1> HIDE DEF n
<1>8. StackInv'
  <2>1. nif # "none"
    BY <1>3 DEF StackInv, RequireLoads, Fresh, At, Running
  <2>2. stack'[1].mod = NoId
    BY <1>3, <1>4 DEF StackInv, RequireLoads, Fresh, At, Running
  <2>3. ASSUME NEW i \in 2..Len(stack') PROVE stack'[i].mod \in Ids /\ Loading(i)'
    <3>1. CASE i = n + 1
      BY <1>5, <1>6, <1>7, <3>1 DEF Loading
    <3>2. CASE i # n + 1
      <4>1. i \in 2..n /\ i \in 1..n
        BY <1>3, <1>4, <2>3, <3>2
      <4>2. stack[i].mod \in Ids /\ Loading(i)
        BY <4>1 DEF n, StackInv
      <4> QED BY <1>4, <1>6, <1>7, <4>1, <4>2 DEF Loading
    <3> QED BY <3>1, <3>2
  <2> QED BY <1>7, <2>1, <2>2, <2>3 DEF StackInv
<1>9. OneEach'
  BY <1>6, <1>7 DEF OneEach
<1>10. LoadsNest'
  <2>1. ASSUME NEW i \in 1..n PROVE stack[i].mod # id
    <3>1. CASE i = 1
      BY <1>1, <1>3, <3>1, LoaderAssumption DEF StackInv, n
    <3>2. CASE i # 1
      <4>1. i \in 2..Len(stack)
        BY <1>3, <2>1, <3>2 DEF n
      <4> QED BY <1>1, <4>1 DEF StackInv, Loading
    <3> QED BY <3>1, <3>2
  <2>2. ASSUME NEW i \in 1..(n + 1), NEW j \in 1..(n + 1),
               stack'[i].mod = stack'[j].mod, stack'[i].mod # NoId
        PROVE  i = j
    <3>1. CASE i \in 1..n /\ j \in 1..n
      BY <1>3, <1>4, <2>2, <3>1 DEF LoadsNest
    <3>2. CASE i = n + 1 \/ j = n + 1
      <4>1. i \in 1..n \/ i = n + 1
        BY <1>3, <2>2
      <4>2. j \in 1..n \/ j = n + 1
        BY <1>3, <2>2
      <4> QED BY <1>4, <1>5, <2>1, <2>2, <3>2, <4>1, <4>2
    <3> QED BY <1>3, <2>2, <3>1, <3>2
  <2> QED BY <1>4, <2>2 DEF LoadsNest
<1>11. LoadingIsOnStack'
  <2>1. ASSUME NEW k \in DOMAIN modLoaded'
        PROVE  \/ modLoaded'[k] \in loaded'
               \/ \E i \in DOMAIN stack' : /\ stack'[i].mod = k
                                           /\ stack'[i].obj = modLoaded'[k]
    <3>1. CASE k = id
      <4>1. n + 1 \in DOMAIN stack'
        BY <1>3, <1>4
      <4> QED BY <1>5, <1>6, <3>1, <4>1
    <3>2. CASE k # id
      <4>1. k \in DOMAIN modLoaded /\ modLoaded'[k] = modLoaded[k]
        BY <1>6, <2>1, <3>2
      <4>2. CASE modLoaded[k] \in loaded
        BY <1>7, <4>1, <4>2
      <4>3. CASE modLoaded[k] \notin loaded
        <5>1. PICK i \in DOMAIN stack : /\ stack[i].mod = k
                                        /\ stack[i].obj = modLoaded[k]
          BY <4>1, <4>3 DEF LoadingIsOnStack
        <5>2. i \in 1..n /\ i \in DOMAIN stack'
          BY <1>3, <1>4, <5>1
        <5> QED BY <1>4, <4>1, <5>1, <5>2
      <4> QED BY <4>2, <4>3
    <3> QED BY <3>1, <3>2
  <2> QED BY <2>1 DEF LoadingIsOnStack
<1> QED BY <1>8, <1>9, <1>10, <1>11

(* A module that ends is loaded, or it leaves the cache.                   *)
LEMMA EndsInv ==
  ASSUME LoaderInv, Len(stack) > 1, nif' = nif,
         stack' \in Seq(FrameSet), SameFrames(Below(stack), stack'),
         \A k \in DOMAIN modLoaded' : /\ k \in DOMAIN modLoaded
                                      /\ modLoaded'[k] = modLoaded[k],
         \A k \in DOMAIN modLoaded : k # Top.mod => k \in DOMAIN modLoaded',
         loaded \subseteq loaded', loaded' \subseteq loaded \cup {Top.obj},
         Top.mod \in DOMAIN modLoaded' => Top.obj \in loaded'
  PROVE  StackInv' /\ OneEach' /\ LoadsNest' /\ LoadingIsOnStack'
<1> USE DEF LoaderInv
<1> DEFINE n == Len(stack)
<1>1. n \in Nat /\ n > 1 /\ DOMAIN stack = 1..n
  BY LenProperties DEF TypeOK, RunType
<1>2. /\ Len(Below(stack)) = n - 1
      /\ \A i \in 1..(n - 1) : Below(stack)[i] = stack[i]
  BY BelowFrames DEF TypeOK, RunType
<1>3. /\ Len(stack') = n - 1
      /\ DOMAIN stack' = 1..(n - 1)
      /\ \A i \in 1..(n - 1) : /\ stack'[i].mod = stack[i].mod
                               /\ stack'[i].obj = stack[i].obj
  BY <1>2, LenProperties DEF SameFrames
<1>4. Top = stack[n]
  BY DEF Top
<1>5. Top.mod \in Ids /\ Loading(n)
  BY <1>1, <1>4 DEF StackInv
<1>6. stack # <<>>
  BY <1>1
<1> HIDE DEF n
<1>7. StackInv'
  <2>1. nif' # "none"
    BY <1>6 DEF StackInv
  <2>2. stack'[1].mod = NoId
    BY <1>1, <1>3, <1>6 DEF StackInv
  <2>3. ASSUME NEW i \in 2..Len(stack') PROVE stack'[i].mod \in Ids /\ Loading(i)'
    <3>1. i \in 2..n /\ i \in 1..(n - 1) /\ i # n /\ i \in 1..n /\ n \in 1..n
      BY <1>1, <1>3, <2>3
    <3>2. stack[i].mod \in Ids /\ Loading(i)
      BY <3>1 DEF n, StackInv
    <3>3. stack[i].mod # Top.mod
      BY <1>1, <1>4, <3>1, <3>2, LoaderAssumption DEF LoadsNest
    <3>4. stack[i].obj # Top.obj
      BY <1>4, <1>5, <3>2, <3>3 DEF OneEach, Loading
    <3> QED BY <1>3, <3>1, <3>2, <3>3, <3>4 DEF Loading
  <2> QED BY <2>1, <2>2, <2>3 DEF StackInv
<1>8. OneEach'
  BY DEF OneEach
<1>9. LoadsNest'
  <2>1. \A i \in 1..(n - 1) : i \in 1..n
    BY <1>1
  <2> QED BY <1>1, <1>3, <2>1 DEF LoadsNest
<1>10. LoadingIsOnStack'
  <2>1. ASSUME NEW k \in DOMAIN modLoaded', modLoaded'[k] \notin loaded'
        PROVE  \E i \in DOMAIN stack' : /\ stack'[i].mod = k
                                       /\ stack'[i].obj = modLoaded'[k]
    <3>1. /\ k \in DOMAIN modLoaded
          /\ modLoaded'[k] = modLoaded[k]
          /\ modLoaded[k] \notin loaded
      BY <2>1
    <3>2. PICK i \in DOMAIN stack : stack[i].mod = k /\ stack[i].obj = modLoaded[k]
      BY <3>1 DEF LoadingIsOnStack
    <3>3. i # n
      BY <1>4, <2>1, <3>1, <3>2
    <3>4. i \in 1..(n - 1)
      BY <1>1, <3>2, <3>3
    <3> QED BY <1>3, <3>1, <3>2, <3>4
  <2> QED BY <2>1 DEF LoadingIsOnStack
<1> QED BY <1>7, <1>8, <1>9, <1>10

(* modSearch that loads the module itself.                                 *)
LEMMA InheritedInv ==
  LoaderInv /\ RequireInherited
    => StackInv' /\ OneEach' /\ LoadsNest' /\ LoadingIsOnStack'
<1> SUFFICES ASSUME LoaderInv, RequireInherited
             PROVE  StackInv' /\ OneEach' /\ LoadsNest' /\ LoadingIsOnStack'
  OBVIOUS
<1> USE DEF LoaderInv
<1>1. PICK id \in Inherited :
        /\ id \notin DOMAIN modLoaded
        /\ modLoaded' = Registered(modLoaded, id, made + 1)
  BY DEF RequireInherited, Fresh
<1>2. /\ DOMAIN modLoaded' = DOMAIN modLoaded \cup {id}
      /\ modLoaded'[id] = made + 1
      /\ \A k \in DOMAIN modLoaded : modLoaded'[k] = modLoaded[k]
  BY <1>1 DEF Registered
<1>3. /\ loaded' = loaded \cup {made + 1} /\ nif' = nif
      /\ made \in Nat
      /\ loaded \subseteq 1..made
      /\ \A k \in DOMAIN modLoaded : modLoaded[k] \in 1..made
  BY DEF RequireInherited, TypeOK, LoadType
<1>4. /\ stack # <<>> /\ stack' = Advance(stack)
      /\ stack \in Seq(FrameSet)
  BY DEF RequireInherited, Fresh, At, Running, TypeOK, RunType
<1>5. /\ stack' \in Seq(FrameSet) /\ stack' # <<>>
      /\ SameFrames(stack, stack')
  BY <1>4, AdvanceFrames
<1>6. /\ DOMAIN stack = 1..Len(stack) /\ DOMAIN stack' = 1..Len(stack')
      /\ Len(stack) \in Nat \ {0} /\ Len(stack') = Len(stack)
      /\ \A i \in DOMAIN stack : stack'[i].mod = stack[i].mod
      /\ \A i \in DOMAIN stack : stack'[i].obj = stack[i].obj
  BY <1>4, <1>5, LenProperties, EmptySeq DEF SameFrames
<1>7. StackInv'
  <2>1. nif' # "none" /\ stack'[1].mod = NoId
    BY <1>3, <1>4, <1>6 DEF StackInv
  <2>2. ASSUME NEW i \in 2..Len(stack') PROVE stack'[i].mod \in Ids /\ Loading(i)'
    <3>1. i \in 2..Len(stack) /\ i \in DOMAIN stack
      BY <1>6, <2>2
    <3>2. stack[i].mod \in Ids /\ Loading(i)
      BY <3>1 DEF StackInv
    <3>3. stack[i].obj \in 1..made
      BY <1>3, <3>2 DEF Loading
    <3> QED BY <1>2, <1>3, <1>6, <3>1, <3>2, <3>3 DEF Loading
  <2> QED BY <1>5, <2>1, <2>2 DEF StackInv
<1>8. OneEach'
  BY <1>2, <1>3 DEF OneEach
<1>9. LoadsNest'
  BY <1>6 DEF LoadsNest
<1>10. LoadingIsOnStack'
  BY <1>2, <1>3, <1>6 DEF LoadingIsOnStack
<1> QED BY <1>7, <1>8, <1>9, <1>10

(* JavaScript keeps the invariant.                                         *)
LEMMA JsInv ==
  LoaderInv /\ Js => StackInv' /\ OneEach' /\ LoadsNest' /\ LoadingIsOnStack'
<1> SUFFICES ASSUME LoaderInv, Js
             PROVE  StackInv' /\ OneEach' /\ LoadsNest' /\ LoadingIsOnStack'
  OBVIOUS
<1> DEFINE Goal == StackInv' /\ OneEach' /\ LoadsNest' /\ LoadingIsOnStack'
<1>1. stack \in Seq(FrameSet) /\ thrown \in {"none", "error", "timeout"}
  BY DEF LoaderInv, TypeOK, RunType
<1>2. ASSUME stack # <<>>, UNCHANGED <<modLoaded, loaded, nif>>,
             \/ stack' = Advance(stack)
             \/ stack' = stack
             \/ ThrowIn(stack, "error")
      PROVE  Goal
  <2>1. stack' \in Seq(FrameSet) /\ SameFrames(stack, stack')
    BY <1>1, <1>2, AdvanceFrames, ThrowFrames DEF SameFrames
  <2> QED BY <1>2, <2>1, KeptInv
<1>3. CASE JsThrow
  BY <1>2, <1>3 DEF JsThrow, At, Running, loadVars
<1>4. CASE RequireCached
  BY <1>2, <1>4 DEF RequireCached, At, Running, loadVars
<1>5. CASE RequireLoads
  BY <1>5, LoadsInv
<1>6. CASE RequireFails
  <2>1. PICK id \in Ids :
          /\ id \notin DOMAIN modLoaded
          /\ modLoaded' = Deleted(Registered(modLoaded, id, made + 1), id)
    BY <1>6 DEF RequireFails, Fresh
  <2>2. /\ DOMAIN modLoaded' = DOMAIN modLoaded
        /\ \A k \in DOMAIN modLoaded : modLoaded'[k] = modLoaded[k]
    BY <2>1 DEF Deleted, Registered
  <2>3. stack # <<>> /\ ThrowIn(stack, "error")
    BY <1>6 DEF RequireFails, Fresh, At, Running
  <2>4. stack' \in Seq(FrameSet) /\ SameFrames(stack, stack')
    BY <1>1, <2>3, ThrowFrames
  <2> QED BY <1>6, <2>2, <2>4, KeptInv DEF RequireFails
<1>7. CASE RequireInherited
  BY <1>7, InheritedInv
<1>8. CASE ModuleReturns
  <2>1. stack' \in Seq(FrameSet) /\ SameFrames(Below(stack), stack')
    BY <1>1, <1>8, BelowFrames, AdvanceFrames DEF ModuleReturns
  <2> QED BY <1>8, <2>1, EndsInv DEF ModuleReturns
<1>9. CASE ModuleThrows
  <2>1. thrown \in {"error", "timeout"}
    BY <1>1, <1>9 DEF ModuleThrows
  <2>2. stack' \in Seq(FrameSet) /\ SameFrames(Below(stack), stack')
    BY <1>1, <1>9, <2>1, BelowFrames, ThrowFrames DEF ModuleThrows
  <2> QED BY <1>9, <2>2, EndsInv DEF ModuleThrows, Deleted
<1>10. CASE CallCached
  BY <1>2, <1>10 DEF CallCached, At, Running, loadVars
<1>11. CASE CallPending
  BY <1>2, <1>11 DEF CallPending, At, Running, loadVars
<1>12. CASE Timeout
  BY <1>2, <1>12 DEF Timeout, Running, loadVars
<1> QED
  BY <1>3, <1>4, <1>5, <1>6, <1>7, <1>8, <1>9, <1>10, <1>11, <1>12 DEF Js

-----------------------------------------------------------------------------
(* The invariant holds initially.                                          *)
LEMMA InitInv == Init => LoaderInv
<1> SUFFICES ASSUME Init PROVE LoaderInv
  OBVIOUS
<1>1. stack = <<>> /\ DOMAIN stack = {} /\ Len(stack) = 0 /\ DOMAIN modLoaded = {}
  BY DEF Init, Empty
<1> QED
  BY <1>1, InitType DEF LoaderInv, StackInv, OneEach, LoadsNest, LoadingIsOnStack

(* Every step keeps it.                                                    *)
LEMMA NextInv == LoaderInv /\ [Next]_vars => LoaderInv'
<1> SUFFICES ASSUME LoaderInv, [Next]_vars PROVE LoaderInv'
  OBVIOUS
<1>1. CASE Api
  BY <1>1, ApiTyped, ApiInv DEF LoaderInv
<1>2. CASE Js
  BY <1>2, JsTyped, JsInv DEF LoaderInv
<1>3. CASE ReturnResult \/ ReturnCallErlang
  BY <1>3, ReturnTyped, ReturnInv DEF LoaderInv
<1>4. CASE UNCHANGED vars
  <2>1. TypeOK'
    BY <1>4, KeptType DEF vars, LoaderInv, TypeOK
  <2>2. stack' \in Seq(FrameSet) /\ SameFrames(stack, stack')
    BY <1>4 DEF vars, runVars, LoaderInv, TypeOK, RunType, SameFrames
  <2>3. StackInv' /\ OneEach' /\ LoadsNest' /\ LoadingIsOnStack'
    BY <1>4, <2>2, KeptInv DEF vars, loadVars, runVars
  <2> QED BY <2>1, <2>3 DEF LoaderInv
<1> QED BY <1>1, <1>2, <1>3, <1>4 DEF Next, Finished

(* The invariant that relates the stack, the cache and the finished        *)
(* modules holds in every reachable state.                                 *)
THEOREM LoaderInvariant == Spec => []LoaderInv
  BY InitInv, NextInv, PTL DEF Spec

(* Every variable keeps its type; modLoaded never holds undefined.         *)
THEOREM TypeCorrect == Spec => []TypeOK
<1>1. LoaderInv => TypeOK
  BY DEF LoaderInv
<1> QED BY <1>1, LoaderInvariant, PTL

(* A module in the cache is finished or is being loaded at this moment.    *)
THEOREM NothingHalfLoaded == Spec => []LoadingIsOnStack
<1>1. LoaderInv => LoadingIsOnStack
  BY DEF LoaderInv
<1> QED BY <1>1, LoaderInvariant, PTL

(* No module is loaded while it is being loaded.                           *)
THEOREM CyclesEnd == Spec => []LoadsNest
<1>1. LoaderInv => LoadsNest
  BY DEF LoaderInv
<1> QED BY <1>1, LoaderInvariant, PTL

(* A finished module keeps its place in the cache for good.                *)
THEOREM CacheIsStable == Spec => SameExports
<1> DEFINE Stable == \A id \in DOMAIN modLoaded :
                        modLoaded[id] \in loaded =>
                           /\ id \in DOMAIN modLoaded'
                           /\ modLoaded'[id] = modLoaded[id]
<1>1. LoaderInv /\ [Next]_vars => [Stable]_vars
  <2> SUFFICES ASSUME LoaderInv, Next PROVE Stable
    OBVIOUS
  <2>1. CASE UNCHANGED modLoaded
    BY <2>1
  <2>2. CASE RequireLoads
    BY <2>2 DEF RequireLoads, Fresh, Registered
  <2>3. CASE RequireFails
    BY <2>3 DEF RequireFails, Fresh, Registered, Deleted
  <2>4. CASE RequireInherited
    BY <2>4 DEF RequireInherited, Fresh, Registered
  <2>5. CASE ModuleThrows
    <3>1. Len(stack) \in 2..Len(stack)
      BY <2>5, LenProperties DEF ModuleThrows, LoaderInv, TypeOK, RunType
    <3>2. Loading(Len(stack))
      BY <3>1 DEF LoaderInv, StackInv
    <3> QED BY <2>5, <3>2 DEF ModuleThrows, Deleted, Loading, Top
  <2>6. CASE Api \/ ReturnResult \/ ReturnCallErlang \/ Finished
    BY <2>1, <2>6 DEF Api, RegisterModule, NifRequire, NifEval, NifCallComplete,
       NifEvalResume, ReturnResult, ReturnCallErlang, Finished, vars, loadVars
  <2>7. CASE JsThrow \/ RequireCached \/ ModuleReturns \/ CallCached
             \/ CallPending \/ Timeout
    BY <2>1, <2>7 DEF JsThrow, RequireCached, ModuleReturns, CallCached,
       CallPending, Timeout, loadVars
  <2> QED BY <2>2, <2>3, <2>4, <2>5, <2>6, <2>7 DEF Next, Js
<1> QED BY <1>1, LoaderInvariant, PTL DEF Spec, SameExports

=============================================================================
