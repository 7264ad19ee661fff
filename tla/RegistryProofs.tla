--------------------------- MODULE RegistryProofs ---------------------------
(***************************************************************************)
(* The theorems about Registry: which conditions on hashes and names make  *)
(* a call run the function that was registered for it, for any processes,  *)
(* contexts, names and registrations.                                      *)
(***************************************************************************)
EXTENDS Registry, TLAPS

(* A process that has a call in hand.                                      *)
Working(p) == at[p] \in {"called", "ran", "completed"}

(* What a process has in hand is of a context and a name.                  *)
HandInv == \A p \in Procs :
    /\ at[p] = "put" => /\ ctx[p] \in Ctxs
                        /\ \E n \in Names : /\ native[p] = BytesOf[n]
                                            /\ dict[p][Key(ctx[p], KeyAtom[n])] = fun[p]
    /\ Working(p) => ctx[p] \in Ctxs /\ native[p] \in Bytes

(* The dictionary has what was listed, but for the name being registered,  *)
(* a dead process and a destroyed context nobody calls from.               *)
Settled(p, c, b) ==
    /\ alive[c] \/ (Working(p) /\ ctx[p] = c)
    /\ at[p] # "dead"
    /\ ~(at[p] = "put" /\ ctx[p] = c /\ native[p] = b)

DictInv == \A p \in Procs, c \in Ctxs, b \in Bytes :
    Settled(p, c, b) => dict[p][Key(c, AtomOf[b])] = listed[p][c][b]

IInv == TypeOK /\ HandInv /\ DictInv /\ RunsRegistered

(* Nothing was got of a call that is under way.                            *)
GotInv == \A p \in Procs :
    /\ Working(p) => got[p] = "none"
    /\ at[p] \in {"idle", "put"} /\ got[p] # "none" =>
         (got[p] = "returned") = (did[p] \in {"value", "marked"})

(* All but the initial states: a step of p.                                *)
Step(p) ==
    \/ \E c \in Ctxs, n \in Names : Register(p, c, n)
    \/ NifRegister(p)
    \/ RegisterFails(p)
    \/ \E c \in Ctxs : DestroyContext(p, c)
    \/ \E c \in Ctxs, b, to \in Bytes : JsAssign(p, c, b, to)
    \/ \E c \in Ctxs, b \in Bytes : JsCall(p, c, b)
    \/ Dispatch(p)
    \/ Complete(p)
    \/ Crash(p)
    \/ Resume(p)
    \/ ResumeRefused(p)

LEMMA KeyType == \A c \in Ctxs, a \in Atoms : Key(c, a) \in Keys
  BY RegistryAssumption DEF Key, Keys, Hashes

-----------------------------------------------------------------------------
LEMMA InitType == Init => TypeOK /\ HandInv
  BY RegistryAssumption DEF Init, TypeOK, HandInv, Working, Funs, NoFun

LEMMA StepType == TypeOK /\ HandInv /\ [Next]_vars => TypeOK' /\ HandInv'
<1> SUFFICES ASSUME TypeOK, HandInv, [Next]_vars PROVE TypeOK' /\ HandInv'
  OBVIOUS
<1> USE RegistryAssumption
<1>1. CASE UNCHANGED vars
  BY <1>1 DEF TypeOK, HandInv, Working, vars, hand
<1>2. ASSUME NEW p \in Procs, Step(p) PROVE TypeOK' /\ HandInv'
  <2>1. ASSUME NEW c \in Ctxs, NEW n \in Names, Register(p, c, n) PROVE TypeOK' /\ HandInv'
    <3>1. Key(c, KeyAtom[n]) \in Keys
      BY KeyType
    <3>2. made' \in Funs /\ made' \in 0..MaxRegisters
      BY <2>1 DEF Register, TypeOK, Funs
    <3>3. dict' \in [Procs -> [Keys -> Funs \cup {NoFun}]]
      BY <2>1, <3>1, <3>2 DEF Register, TypeOK
    <3>4. TypeOK'
      BY <2>1, <3>2, <3>3 DEF Register, TypeOK, Goes
    <3>5. dict'[p][Key(c, KeyAtom[n])] = fun'[p]
      BY <2>1, <3>1 DEF Register, TypeOK
    <3>6. ASSUME NEW q \in Procs, q # p
          PROVE /\ at'[q] = at[q] /\ ctx'[q] = ctx[q] /\ native'[q] = native[q]
                /\ fun'[q] = fun[q] /\ dict'[q] = dict[q]
      BY <2>1, <3>6 DEF Register, TypeOK, Goes
    <3>7. at'[p] = "put" /\ ctx'[p] = c /\ native'[p] = BytesOf[n]
      BY <2>1 DEF Register, TypeOK, Goes
    <3>8. ASSUME NEW q \in Procs PROVE HandInv!(q)'
      <4>1. CASE q = p
        BY <3>5, <3>7, <4>1 DEF Working, Key
      <4>2. CASE q # p
        BY <3>6, <4>2 DEF HandInv, Working, Key
      <4> QED BY <4>1, <4>2
    <3> QED BY <3>4, <3>8 DEF HandInv
  <2>2. CASE NifRegister(p)
    <3>1. ctx[p] \in Ctxs /\ native[p] \in Bytes
      BY <2>2 DEF NifRegister, HandInv, TypeOK, Readable
    <3>2. global' \in [Ctxs -> [Bytes -> Bytes \cup {NoBytes}]]
      BY <2>2, <3>1 DEF NifRegister, TypeOK
    <3>3. listed' \in [Procs -> [Ctxs -> [Bytes -> Funs \cup {NoFun}]]]
      BY <2>2, <3>1 DEF NifRegister, TypeOK
    <3>4. TypeOK'
      BY <2>2, <3>2, <3>3 DEF NifRegister, TypeOK, Goes, hand
    <3>5. HandInv'
      BY <2>2 DEF NifRegister, TypeOK, HandInv, Working, Goes, hand
    <3> QED BY <3>4, <3>5
  <2>3. CASE RegisterFails(p)
    BY <2>3 DEF RegisterFails, TypeOK, HandInv, Working, Goes, hand
  <2>4. ASSUME NEW c \in Ctxs, DestroyContext(p, c) PROVE TypeOK' /\ HandInv'
    BY <2>4 DEF DestroyContext, TypeOK, HandInv, Working, hand
  <2>5. ASSUME NEW c \in Ctxs, NEW b \in Bytes, NEW to \in Bytes, JsAssign(p, c, b, to)
        PROVE TypeOK' /\ HandInv'
    <3>1. TypeOK'
      BY <2>5 DEF JsAssign, TypeOK, hand
    <3>2. HandInv'
      BY <2>5 DEF JsAssign, HandInv, Working, hand
    <3> QED BY <3>1, <3>2
  <2>6. ASSUME NEW c \in Ctxs, NEW b \in Bytes, JsCall(p, c, b) PROVE TypeOK' /\ HandInv'
    <3>1. global[c][b] \in Bytes
      BY <2>6 DEF JsCall, TypeOK
    <3>2. TypeOK'
      BY <2>6, <3>1 DEF JsCall, TypeOK, Goes
    <3>3. HandInv'
      BY <2>6, <3>1 DEF JsCall, TypeOK, HandInv, Working, Goes
    <3> QED BY <3>2, <3>3
  <2>7. CASE Dispatch(p)
    <3>1. Found(p) \in Funs \cup {NoFun}
      BY <2>7, KeyType DEF Dispatch, Found, HandInv, Working, TypeOK
    <3>2. TypeOK'
      BY <2>7, <3>1 DEF Dispatch, TypeOK, Goes
    <3>3. HandInv'
      BY <2>7 DEF Dispatch, TypeOK, HandInv, Working, Goes
    <3> QED BY <3>2, <3>3
  <2>8. CASE Complete(p)
    BY <2>8 DEF Complete, TypeOK, HandInv, Working, Goes, hand
  <2>9. CASE Crash(p)
    <3>1. TypeOK'
      BY <2>9 DEF Crash, TypeOK, Goes, hand
    <3>2. HandInv'
      BY <2>9 DEF Crash, TypeOK, HandInv, Working, Goes, hand
    <3> QED BY <3>1, <3>2
  <2>10. CASE Resume(p)
    <3>1. ctx[p] \in Ctxs
      BY <2>10 DEF Resume, HandInv, Working
    <3>2. user' \in [Ctxs -> Procs \cup {NoProc}]
      BY <2>10, <3>1 DEF Resume, TypeOK
    <3>3. got' \in [Procs -> {"none", "returned", "thrown"}]
      BY <2>10 DEF Resume, Given, TypeOK
    <3>4. TypeOK'
      BY <2>10, <3>2, <3>3 DEF Resume, TypeOK, Goes, hand
    <3>5. HandInv'
      BY <2>10 DEF Resume, TypeOK, HandInv, Working, Goes, hand
    <3> QED BY <3>4, <3>5
  <2>11. CASE ResumeRefused(p)
    BY <2>11 DEF ResumeRefused, TypeOK, HandInv, Working, Goes, hand
  <2> QED
    BY <1>2, <2>1, <2>2, <2>3, <2>4, <2>5, <2>6, <2>7, <2>8, <2>9, <2>10, <2>11 DEF Step
<1> QED
  BY <1>1, <1>2 DEF Next, Step

(* Every reachable state is well typed: process dictionaries have funs     *)
(* under keys of make_function_key, globals are functions with a name.     *)
THEOREM TypeCorrect == Spec => []TypeOK
<1>1. Spec => [](TypeOK /\ HandInv)
  BY InitType, StepType, PTL DEF Spec
<1> QED
  BY <1>1, PTL

-----------------------------------------------------------------------------
(* Under the conditions a key is one context's and one name's.             *)
LEMMA KeysDiffer ==
    ASSUME HashesDiffer, NamesAgree,
           NEW c \in Ctxs, NEW d \in Ctxs, NEW a \in Bytes, NEW b \in Bytes,
           Key(c, AtomOf[a]) = Key(d, AtomOf[b])
    PROVE  c = d /\ a = b
  BY DEF HashesDiffer, NamesAgree, Key

LEMMA InitDict == Init => DictInv /\ RunsRegistered
<1> SUFFICES ASSUME Init PROVE DictInv /\ RunsRegistered
  OBVIOUS
<1>1. ASSUME NEW p \in Procs, NEW c \in Ctxs, NEW b \in Bytes
      PROVE  dict[p][Key(c, AtomOf[b])] = listed[p][c][b]
  BY KeyType, RegistryAssumption DEF Init
<1> QED
  BY <1>1 DEF Init, DictInv, RunsRegistered

(* A registration: the fun is under its own key, which is of no other name.*)
LEMMA RegisterDict ==
    ASSUME HashesDiffer, NamesAgree, TypeOK, DictInv,
           NEW p \in Procs, NEW c \in Ctxs, NEW n \in Names, Register(p, c, n)
    PROVE  DictInv'
<1> SUFFICES ASSUME NEW q \in Procs, NEW d \in Ctxs, NEW b \in Bytes, Settled(q, d, b)'
             PROVE  dict'[q][Key(d, AtomOf[b])] = listed'[q][d][b]
  BY DEF DictInv, Key
<1>1. Settled(q, d, b)
  BY DEF Register, TypeOK, Settled, Working, Goes
<1>2. dict[q][Key(d, AtomOf[b])] = listed'[q][d][b]
  BY <1>1 DEF DictInv, Register
<1>3. CASE q # p
  BY <1>2, <1>3 DEF Register, TypeOK
<1>4. CASE q = p
  <2>1. ~(c = d /\ BytesOf[n] = b)
    BY <1>4 DEF Register, TypeOK, Settled, Goes
  <2>2. Key(c, KeyAtom[n]) # Key(d, AtomOf[b])
    <3>1. CASE BytesOf[n] = NoBytes
      BY <3>1 DEF NamesAgree, Key
    <3>2. CASE BytesOf[n] # NoBytes
      BY <2>1, <3>2, KeysDiffer, RegistryAssumption DEF NamesAgree
    <3> QED BY <3>1, <3>2
  <2>3. Key(d, AtomOf[b]) \in Keys
    BY KeyType, RegistryAssumption
  <2> QED BY <1>2, <1>4, <2>2, <2>3 DEF Register, TypeOK
<1> QED BY <1>3, <1>4

(* ok: what was put is what is listed.                                     *)
LEMMA NifRegisterDict ==
    ASSUME NamesAgree, TypeOK, HandInv, DictInv, NEW p \in Procs, NifRegister(p)
    PROVE  DictInv'
<1> SUFFICES ASSUME NEW q \in Procs, NEW d \in Ctxs, NEW b \in Bytes, Settled(q, d, b)'
             PROVE  dict'[q][Key(d, AtomOf[b])] = listed'[q][d][b]
  BY DEF DictInv, Key
<1>1. CASE q = p /\ d = ctx[p] /\ b = native[p]
  <2>1. dict[p][Key(d, AtomOf[b])] = fun[p]
    BY <1>1 DEF NifRegister, HandInv, NamesAgree, Readable
  <2> QED BY <1>1, <2>1 DEF NifRegister, TypeOK
<1>2. CASE ~(q = p /\ d = ctx[p] /\ b = native[p])
  <2>1. Settled(q, d, b)
    BY <1>2 DEF NifRegister, TypeOK, Settled, Working, Goes, hand
  <2>2. listed'[q][d][b] = listed[q][d][b]
    BY <1>2 DEF NifRegister, TypeOK
  <2> QED BY <2>1, <2>2 DEF DictInv, NifRegister
<1> QED BY <1>1, <1>2

(* The other steps leave the dictionaries and the list alone, but a dead   *)
(* process's, and settle nothing new.                                      *)
LEMMA OtherDict ==
    ASSUME TypeOK, HandInv, DictInv, NEW p \in Procs, Step(p),
           UNCHANGED listed,
           UNCHANGED dict \/ Crash(p),
           \A q \in Procs, d \in Ctxs, b \in Bytes : Settled(q, d, b)' => Settled(q, d, b)
    PROVE  DictInv'
<1> SUFFICES ASSUME NEW q \in Procs, NEW d \in Ctxs, NEW b \in Bytes, Settled(q, d, b)'
             PROVE  dict'[q][Key(d, AtomOf[b])] = listed'[q][d][b]
  BY DEF DictInv, Key
<1>1. Settled(q, d, b) /\ dict[q][Key(d, AtomOf[b])] = listed'[q][d][b]
  BY DEF DictInv
<1>2. CASE UNCHANGED dict
  BY <1>1, <1>2
<1>3. CASE Crash(p)
  BY <1>1, <1>3 DEF Crash, TypeOK, Settled, Goes
<1> QED BY <1>2, <1>3

LEMMA StepDict ==
    ASSUME HashesDiffer, NamesAgree, TypeOK, HandInv, DictInv, [Next]_vars
    PROVE  DictInv'
<1> USE DEF Settled, Working, Goes, hand
<1>1. CASE UNCHANGED vars
  BY <1>1 DEF vars, DictInv, Key
<1>2. ASSUME NEW p \in Procs, Step(p) PROVE DictInv'
  <2>1. ASSUME NEW c \in Ctxs, NEW n \in Names, Register(p, c, n) PROVE DictInv'
    BY <2>1, RegisterDict
  <2>2. CASE NifRegister(p)
    BY <2>2, NifRegisterDict
  <2>3. CASE RegisterFails(p)
    <3>1. \A q \in Procs, d \in Ctxs, b \in Bytes : Settled(q, d, b)' => Settled(q, d, b)
      BY <2>3, RegistryAssumption DEF RegisterFails, TypeOK, Readable
    <3> QED BY <1>2, <2>3, <3>1, OtherDict DEF RegisterFails
  <2>4. ASSUME NEW c \in Ctxs, DestroyContext(p, c) PROVE DictInv'
    <3>1. \A q \in Procs, d \in Ctxs, b \in Bytes : Settled(q, d, b)' => Settled(q, d, b)
      BY <2>4 DEF DestroyContext, TypeOK
    <3> QED BY <1>2, <2>4, <3>1, OtherDict DEF DestroyContext
  <2>5. ASSUME NEW c \in Ctxs, NEW b \in Bytes, NEW to \in Bytes, JsAssign(p, c, b, to)
        PROVE DictInv'
    <3>1. \A q \in Procs, d \in Ctxs, x \in Bytes : Settled(q, d, x)' => Settled(q, d, x)
      BY <2>5 DEF JsAssign
    <3> QED BY <1>2, <2>5, <3>1, OtherDict DEF JsAssign
  <2>6. ASSUME NEW c \in Ctxs, NEW b \in Bytes, JsCall(p, c, b) PROVE DictInv'
    <3>1. \A q \in Procs, d \in Ctxs, x \in Bytes : Settled(q, d, x)' => Settled(q, d, x)
      BY <2>6 DEF JsCall, Free, TypeOK
    <3> QED BY <1>2, <2>6, <3>1, OtherDict DEF JsCall
  <2>7. CASE Dispatch(p)
    <3>1. \A q \in Procs, d \in Ctxs, b \in Bytes : Settled(q, d, b)' => Settled(q, d, b)
      BY <2>7 DEF Dispatch, TypeOK
    <3> QED BY <1>2, <2>7, <3>1, OtherDict DEF Dispatch
  <2>8. CASE Complete(p)
    <3>1. \A q \in Procs, d \in Ctxs, b \in Bytes : Settled(q, d, b)' => Settled(q, d, b)
      BY <2>8 DEF Complete, TypeOK
    <3> QED BY <1>2, <2>8, <3>1, OtherDict DEF Complete
  <2>9. CASE Crash(p)
    <3>1. \A q \in Procs, d \in Ctxs, b \in Bytes : Settled(q, d, b)' => Settled(q, d, b)
      BY <2>9 DEF Crash, TypeOK
    <3> QED BY <1>2, <2>9, <3>1, OtherDict DEF Crash
  <2>10. CASE Resume(p)
    <3>1. \A q \in Procs, d \in Ctxs, b \in Bytes : Settled(q, d, b)' => Settled(q, d, b)
      BY <2>10 DEF Resume, TypeOK
    <3> QED BY <1>2, <2>10, <3>1, OtherDict DEF Resume
  <2>11. CASE ResumeRefused(p)
    <3>1. \A q \in Procs, d \in Ctxs, b \in Bytes : Settled(q, d, b)' => Settled(q, d, b)
      BY <2>11 DEF ResumeRefused, TypeOK
    <3> QED BY <1>2, <2>11, <3>1, OtherDict DEF ResumeRefused
  <2> QED
    BY <1>2, <2>1, <2>2, <2>3, <2>4, <2>5, <2>6, <2>7, <2>8, <2>9, <2>10, <2>11 DEF Step
<1> QED
  BY <1>1, <1>2 DEF Next, Step

(* Only Dispatch brings a process to "ran", and it runs what it finds.     *)
LEMMA StepRuns ==
    ASSUME TypeOK, HandInv, DictInv, RunsRegistered, [Next]_vars
    PROVE  RunsRegistered'
<1> USE DEF Goes, hand
<1>1. CASE UNCHANGED vars
  BY <1>1 DEF vars, RunsRegistered
<1>2. ASSUME NEW p \in Procs, Dispatch(p) PROVE RunsRegistered'
  <2>1. fun'[p] = listed[p][ctx[p]][native[p]]
    <3>1. ctx[p] \in Ctxs /\ native[p] \in Bytes /\ Settled(p, ctx[p], native[p])
      BY <1>2 DEF Dispatch, HandInv, Working, Settled
    <3>2. Found(p) = listed[p][ctx[p]][native[p]]
      BY <3>1 DEF Found, DictInv
    <3> QED BY <1>2, <3>2 DEF Dispatch, TypeOK
  <2> QED BY <1>2, <2>1 DEF Dispatch, TypeOK, RunsRegistered
<1>3. ASSUME NEW p \in Procs, Step(p), ~Dispatch(p) PROVE RunsRegistered'
  <2>1. at'[p] # "ran" \/ (at'[p] = at[p] /\ UNCHANGED <<ctx, native, fun, listed>>)
    BY <1>3 DEF Step, Register, NifRegister, RegisterFails, DestroyContext, JsAssign, JsCall,
                Complete, Crash, Resume, ResumeRefused, TypeOK
  <2>2. ASSUME NEW q \in Procs, q # p
        PROVE  /\ at'[q] = at[q] /\ ctx'[q] = ctx[q] /\ native'[q] = native[q]
               /\ fun'[q] = fun[q] /\ listed'[q] = listed[q]
    BY <1>3, <2>2 DEF Step, Register, NifRegister, RegisterFails, DestroyContext, JsAssign,
                      JsCall, Complete, Crash, Resume, ResumeRefused, TypeOK
  <2> QED BY <2>1, <2>2 DEF RunsRegistered
<1> QED
  BY <1>1, <1>2, <1>3 DEF Next, Step

(* If hashes of contexts differ and names agree, a call runs the fun that  *)
(* its process registered last for that context and name, whatever others  *)
(* register, refuse, destroy or assign meanwhile.                          *)
THEOREM CallsRunRegistered ==
    ASSUME HashesDiffer, NamesAgree
    PROVE  Spec => []RunsRegistered
<1>1. Init => IInv
  BY InitType, InitDict DEF IInv
<1>2. IInv /\ [Next]_vars => IInv'
  BY StepType, StepDict, StepRuns DEF IInv
<1>3. IInv => RunsRegistered
  BY DEF IInv
<1> QED
  BY <1>1, <1>2, <1>3, PTL DEF Spec

-----------------------------------------------------------------------------
LEMMA InitGot == Init => GotInv
  BY DEF Init, GotInv, Working

LEMMA StepGot ==
    ASSUME "marked" \notin Results, TypeOK, GotInv, [Next]_vars
    PROVE  GotInv'
<1> USE DEF Goes, hand, Working
<1>1. CASE UNCHANGED vars
  BY <1>1 DEF vars, GotInv
<1>2. ASSUME NEW p \in Procs, Step(p) PROVE GotInv'
  <2>1. ASSUME NEW q \in Procs, q # p
        PROVE  at'[q] = at[q] /\ got'[q] = got[q] /\ did'[q] = did[q]
    BY <1>2, <2>1 DEF Step, Register, NifRegister, RegisterFails, DestroyContext, JsAssign,
                      JsCall, Dispatch, Complete, Crash, Resume, ResumeRefused, TypeOK
  <2>2. CASE Resume(p)
    <3>1. did[p] # "marked" /\ did' = did
      BY <2>2 DEF Resume, TypeOK
    <3>2. Stored(did[p]) = "value" <=> did[p] = "value"
      BY DEF Stored
    <3>3. CASE Stored(did[p]) = "undefined"
      <4>1. at'[p] = "called" /\ got'[p] = "none"
        BY <2>2, <3>3 DEF Resume, TypeOK, GotInv
      <4> QED BY <2>1, <4>1 DEF GotInv
    <3>4. CASE Stored(did[p]) # "undefined"
      <4>1. /\ at'[p] = "idle"
            /\ got'[p] = IF Stored(did[p]) = "marked" THEN "thrown" ELSE "returned"
        BY <2>2, <3>4 DEF Resume, Given, TypeOK
      <4>2. Stored(did[p]) \in {"value", "undefined", "marked"}
        BY DEF Stored
      <4>3. (got'[p] = "returned") = (did'[p] \in {"value", "marked"})
        BY <3>1, <3>2, <3>4, <4>1, <4>2
      <4> QED BY <2>1, <4>1, <4>3 DEF GotInv
    <3> QED BY <3>3, <3>4
  <2>3. CASE ~Resume(p)
    BY <1>2, <2>1, <2>3 DEF Step, Register, NifRegister, RegisterFails, DestroyContext, JsAssign,
                      JsCall, Dispatch, Complete, Crash, ResumeRefused, TypeOK, GotInv
  <2> QED BY <2>2, <2>3
<1> QED
  BY <1>1, <1>2 DEF Next, Step

(* If no function returns a text that looks like an error, JavaScript gets *)
(* values for values and errors for errors, through replays for undefined, *)
(* refusals and destroyed contexts.                                        *)
THEOREM AnswersAreFaithful ==
    ASSUME "marked" \notin Results
    PROVE  Spec => []ResultsArrive
<1>1. Init => TypeOK /\ HandInv /\ GotInv
  BY InitType, InitGot
<1>2. TypeOK /\ HandInv /\ GotInv /\ [Next]_vars => (TypeOK /\ HandInv /\ GotInv)'
  BY StepType, StepGot
<1>3. GotInv => ResultsArrive
  BY DEF GotInv, ResultsArrive
<1> QED
  BY <1>1, <1>2, <1>3, PTL DEF Spec
=============================================================================
