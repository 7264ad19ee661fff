------------------------- MODULE ExecTimeoutProofs -------------------------
(***************************************************************************)
(* Theorems about ExecTimeout, for every set of timeouts, length of the    *)
(* interrupt's interval, resolution of the clock and number of arguments.  *)
(***************************************************************************)
EXTENDS ExecTimeout, TLAPS

(* Which NIF may be where.                                                 *)
Apart ==
    /\ at = "bind" => api = "bindings"
    /\ at = "find" => api = "call"
    /\ at \in {"store", "push"} => api = "call"
    /\ at = "callback" => api = "send"
    /\ at = "decode" => api = "decode"
    /\ at = "reset" => api \in Timed
    /\ at = "js" => api \in Timed \cup {"send", "require", "resume"}

(* What each place has on the value stack, for every NIF that gets there;  *)
(* only the depth that is right there makes the pops at the end come out.  *)
StackInv ==
    /\ at \in {"free", "bind"} => top = 0
    /\ at \in {"find", "decode"} => top = 1
    /\ at = "callback" => top = 3
    /\ at = "reset" => top = IF api = "call" THEN 1 ELSE 0
    /\ at = "store" => top = 2
    /\ at = "push" => top = 1 + pushed
    /\ at = "js" => top = IF api = "send" THEN 2 + Taken ELSE Taken
    /\ at \in {"threw", "returned", "message", "convert"} => top = Pops(api)
    /\ at \in {"find", "store"} \/ (at = "reset" /\ api = "call") => pushed = 0

(* A deadline is the one of this section's caller, and is armed only where *)
(* the section goes on to stop it.                                         *)
DeadlineInv ==
    enabled => /\ api \in Timed
               /\ at \in {"reset", "js", "threw", "returned", "aborted"}
               /\ at = "reset" => api # "call"
               /\ Armed(asked) /\ limit = asked
               /\ age <= own

(* The interrupt throws when the deadline has passed, and a timeout is the *)
(* interrupt's unless it is an imitation.                                  *)
TruthInv ==
    /\ noticed => asked \notin {0, Unlimited} /\ own >= (asked + 1) * TicksPerMs
    /\ outcome = "timeout" => noticed
    /\ outcome = "imitation" => imitated
    /\ at = "free" /\ reply = "timeout" /\ ~imitated => noticed

(* Past the deadline each instruction takes one from the counter, and once *)
(* the counter was found at zero it stays there.                           *)
FinalInv ==
    /\ late \in Nat /\ late < InterruptEvery
    /\ at \in {"bind", "find", "callback", "decode", "reset", "store", "push"} =>
         late = 0 /\ outcome = "none"
    /\ at = "js" => outcome = "none"
    /\ at = "js" /\ ~Expired => late = 0
    /\ at = "js" /\ Expired => late + counter < InterruptEvery
    /\ noticed => at \in {"js", "threw", "message", "free"}
    /\ noticed /\ at = "js" => Interrupted
    /\ noticed /\ at = "free" => reply # "ok"

IInv == TypeOK /\ Apart /\ StackInv /\ DeadlineInv /\ TruthInv /\ FinalInv
-----------------------------------------------------------------------------
(* Whole milliseconds: what a comparison of them says of the ticks.        *)
LEMMA DivPassed ==
  ASSUME NEW a \in Nat, NEW t \in Nat \ {0}, NEW m \in Nat, a \div t > m
  PROVE  a >= (m + 1) * t
  OBVIOUS

LEMMA DivNat ==
  ASSUME NEW a \in Nat, NEW t \in Nat \ {0}
  PROVE  a \div t \in Nat
  OBVIOUS

(* The clock never takes a millisecond back.                               *)
LEMMA DivMonotonic ==
  ASSUME NEW a \in Nat, NEW b \in Nat, a <= b, NEW t \in Nat \ {0}
  PROVE  a \div t <= b \div t
  OBVIOUS

LEMMA InitInv == Init => IInv
<1> SUFFICES ASSUME Init PROVE IInv
  OBVIOUS
<1>1. TypeOK
  <2>1. age \in 0..MaxAge /\ own \in 0..MaxAge /\ counter \in 0..(InterruptEvery - 1)
        /\ tries \in 0..MaxTries /\ pushed \in 0..(MaxArgs + 1) /\ top \in Nat
    BY TimeoutAssumption DEF Init
  <2> QED
    BY <2>1 DEF Init, TypeOK
<1>2. Apart
  BY DEF Init, Apart
<1>3. StackInv
  BY DEF Init, StackInv
<1>4. DeadlineInv
  BY DEF Init, DeadlineInv
<1>5. TruthInv
  BY DEF Init, TruthInv
<1>6. FinalInv
  BY TimeoutAssumption DEF Init, FinalInv
<1> QED
  BY <1>1, <1>2, <1>3, <1>4, <1>5, <1>6 DEF IInv

LEMMA ApartStep ==
  ASSUME IInv, Next
  PROVE  Apart'
  BY DEF IInv, Apart, Next, Tick, Begin, EnterEval, EnterBindings, EnterCall, EnterSend,
  EnterRequire, EnterResume, EnterDecode, Enter, Timed,
  Prepare, BindOne, BindFails, Bound, NoFunction, Found, Reset, ResetAborts,
  StoreFails, Stored, PushArg, Pushed, NoCallback, SendFails, Callback, LeaveWith, Same,
  Run, Execute, Instruction, Stay, Unwind, Ran, Interrupt, End, RunThrew, RunReturned,
  RunUnwatched, ReplyError, ReplyOk, GetterAborts, Decoded, Gone, vars

(* What an error says to the caller, of all a reply may be.                *)
LEMMA ErrorReplied ==
  ASSUME ReplyError
  PROVE  /\ at = "message" /\ at' = "free" /\ top' = top - Pops(api)
         /\ reply' \in {"timeout", "call_erlang", "js_error"}
         /\ reply' = "timeout" => outcome \in {"timeout", "imitation"}
         /\ UNCHANGED <<api, asked, enabled, limit, age, own, counter, tries, outcome, pushed,
                        late, noticed, imitated>>
<1>1. PICK text \in Texts :
        reply' = IF api \in Timed /\ text = "execution timeout" THEN "timeout"
                 ELSE IF api \in Timed \cup {"resume"} /\ outcome = "sentinel" THEN "call_erlang"
                 ELSE "js_error"
  BY DEF ReplyError, LeaveWith
<1>2. text = "execution timeout" => outcome \in {"timeout", "imitation"}
  BY DEF Texts
<1> QED
  BY <1>1, <1>2 DEF ReplyError, LeaveWith, deadline, history

LEMMA TypeStep ==
  ASSUME IInv, Next
  PROVE  TypeOK'
<1> USE TimeoutAssumption DEF IInv, TypeOK, CallEngine
<1>1. CASE Tick
  BY <1>1 DEF Tick, Passed, deadline
<1>2. CASE Begin
  <2>1. CASE EnterEval
    BY <2>1 DEF EnterEval, Enter, Armed, deadline
  <2>2. CASE EnterBindings
    BY <2>2 DEF EnterBindings, Enter, deadline
  <2>3. CASE EnterCall
    BY <2>3 DEF EnterCall, Enter, deadline
  <2>4. CASE EnterSend
    BY <2>4 DEF EnterSend, Enter, deadline
  <2>5. CASE EnterRequire
    BY <2>5 DEF EnterRequire, Enter, deadline
  <2>6. CASE EnterResume
    BY <2>6 DEF EnterResume, Enter, deadline
  <2>7. CASE EnterDecode
    BY <2>7 DEF EnterDecode, Enter, deadline
  <2> QED
    BY <1>2, <2>1, <2>2, <2>3, <2>4, <2>5, <2>6, <2>7 DEF Begin
<1>3. CASE Prepare
  <2> USE DEF deadline, history, Same, LeaveWith
  <2>1. CASE BindOne
    BY <2>1 DEF BindOne
  <2>7. CASE BindFails
    BY <2>7 DEF BindFails, StackInv
  <2>8. CASE Bound
    BY <2>8 DEF Bound, StartTimeout, Armed
  <2>2. CASE NoFunction \/ Found
    BY <2>2 DEF NoFunction, Found, StackInv
  <2>3. CASE Reset \/ ResetAborts
    BY <2>3 DEF Reset, ResetAborts, Counted, AfterCheck, Throwing
  <2>4. CASE StoreFails \/ Stored
    BY <2>4 DEF StoreFails, Stored, StackInv
  <2>5. CASE PushArg
    BY <2>5 DEF PushArg
  <2>9. CASE Pushed
    BY <2>9 DEF Pushed, StartTimeout, Armed
  <2>6. CASE NoCallback \/ SendFails \/ Callback
    BY <2>6 DEF NoCallback, SendFails, Callback, StackInv
  <2> QED
    BY <1>3, <2>1, <2>2, <2>3, <2>4, <2>5, <2>6, <2>7, <2>8, <2>9 DEF Prepare
<1>4. CASE Run
  <2>1. top >= Taken /\ Taken \in Nat
    BY <1>4 DEF Run, Execute, Interrupt, StackInv, Taken
  <2>2. CASE Execute
    BY <2>1, <2>2 DEF Execute, Counted, AfterCheck, Instruction, Stay, Unwind, Ran, deadline
  <2>3. CASE Interrupt
    BY <2>1, <2>3 DEF Interrupt, Throwing, Unwind, Ran, deadline
  <2> QED
    BY <1>4, <2>2, <2>3 DEF Run
<1>5. CASE End
  <2> USE DEF deadline, history, Same, LeaveWith
  <2>1. CASE RunThrew \/ RunReturned
    BY <2>1 DEF RunThrew, RunReturned, Stopped, StopTimeout
  <2>2. CASE RunUnwatched
    BY <2>2 DEF RunUnwatched, Counted, AfterCheck
  <2>3. CASE ReplyError
    <3>1. top' = 0
      BY <2>3, ErrorReplied DEF StackInv, Pops
    <3> QED
      BY <2>3, <3>1, ErrorReplied
  <2>5. CASE ReplyOk
    BY <2>5 DEF ReplyOk, StackInv, Pops
  <2>4. CASE GetterAborts \/ Decoded
    BY <2>4 DEF GetterAborts, Decoded
  <2> QED
    BY <1>5, <2>1, <2>2, <2>3, <2>4, <2>5 DEF End
<1>6. CASE Gone
  BY <1>6 DEF Gone, vars, deadline, history
<1> QED
  BY <1>1, <1>2, <1>3, <1>4, <1>5, <1>6 DEF Next

LEMMA StackStep ==
  ASSUME IInv, Next
  PROVE  StackInv'
<1> USE DEF IInv, StackInv
<1> USE DEF deadline, history, Same, LeaveWith, Pops
<1>1. CASE Tick
  BY <1>1 DEF Tick, Taken
<1>2. CASE Begin
  BY <1>2 DEF Begin, EnterEval, EnterBindings, EnterCall, EnterSend, EnterRequire, EnterResume,
  EnterDecode, Enter, Taken
<1>3. CASE Prepare
  <2>1. CASE BindOne \/ BindFails \/ Bound
    BY <2>1 DEF BindOne, BindFails, Bound, Apart
  <2>2. CASE NoFunction \/ Found
    BY <2>2 DEF NoFunction, Found, Apart
  <2>3. CASE Reset
    BY <2>3 DEF Reset, Apart, Timed, Taken
  <2>4. CASE ResetAborts
    BY <2>4 DEF ResetAborts
  <2>5. CASE StoreFails \/ Stored
    BY <2>5 DEF StoreFails, Stored
  <2>6. CASE PushArg
    BY <2>6 DEF PushArg, TypeOK
  <2>7. CASE Pushed
    BY <2>7 DEF Pushed, Apart, Taken, TypeOK
  <2>8. CASE NoCallback \/ SendFails
    BY <2>8 DEF NoCallback, SendFails
  <2>9. CASE Callback
    BY <2>9 DEF Callback, Apart, Taken
  <2> QED
    BY <1>3, <2>1, <2>2, <2>3, <2>4, <2>5, <2>6, <2>7, <2>8, <2>9 DEF Prepare
<1>4. CASE Run
  <2>1. at = "js" /\ Taken \in Nat /\ top = IF api = "send" THEN 2 + Taken ELSE Taken
    BY <1>4 DEF Run, Execute, Interrupt, Taken, TypeOK
  <2>2. UNCHANGED <<api, pushed>>
    BY <1>4 DEF Run, Execute, Interrupt
  <2>3. \/ UNCHANGED <<at, top>>
        \/ at' \in {"threw", "returned"} /\ top' = top - Taken + 1
    <3>1. CASE Execute
      BY <3>1 DEF Execute, Instruction, Stay, Unwind, Ran
    <3>2. CASE Interrupt
      BY <3>2 DEF Interrupt, Unwind, Ran
    <3> QED
      BY <1>4, <3>1, <3>2 DEF Run
  <2>4. CASE UNCHANGED <<at, top>>
    BY <2>1, <2>2, <2>4 DEF Taken
  <2> QED
    BY <2>1, <2>2, <2>3, <2>4
<1>5. CASE End
  <2>1. CASE RunThrew \/ RunReturned
    BY <2>1 DEF RunThrew, RunReturned
  <2>2. CASE RunUnwatched
    BY <2>2 DEF RunUnwatched
  <2>3. CASE ReplyError
    BY <2>3, ErrorReplied
  <2>4. CASE ReplyOk
    BY <2>4 DEF ReplyOk
  <2>5. CASE GetterAborts
    BY <2>5 DEF GetterAborts
  <2>6. CASE Decoded
    BY <2>6 DEF Decoded, Apart
  <2> QED
    BY <1>5, <2>1, <2>2, <2>3, <2>4, <2>5, <2>6 DEF End
<1>6. CASE Gone
  BY <1>6 DEF Gone, vars, Taken
<1> QED
  BY <1>1, <1>2, <1>3, <1>4, <1>5, <1>6 DEF Next

LEMMA DeadlineStep ==
  ASSUME IInv, Next
  PROVE  DeadlineInv'
<1> USE TimeoutAssumption DEF IInv, DeadlineInv
<1> USE DEF deadline, history, Same, LeaveWith
<1>1. CASE Tick
  BY <1>1 DEF Tick, Passed, TypeOK
<1>2. CASE Begin
  <2>1. at = "free" /\ ~enabled
    BY <1>2 DEF Begin, EnterEval, EnterBindings, EnterCall, EnterSend, EnterRequire, EnterResume,
    EnterDecode, Enter
  <2>2. CASE EnterEval
    BY <2>1, <2>2 DEF EnterEval, Enter, Timed
  <2>3. ~EnterEval => UNCHANGED enabled
    BY <1>2 DEF Begin, EnterBindings, EnterCall, EnterSend, EnterRequire, EnterResume, EnterDecode
  <2> QED
    BY <2>1, <2>2, <2>3
<1>3. CASE Prepare
  <2>1. CASE Bound
    BY <2>1 DEF Bound, StartTimeout, Apart, Timed, TypeOK
  <2>4. CASE Pushed
    BY <2>4 DEF Pushed, StartTimeout, Apart, Timed, TypeOK
  <2>2. CASE Reset \/ ResetAborts
    BY <2>2 DEF Reset, ResetAborts
  <2>3. ~(Bound \/ Pushed \/ Reset \/ ResetAborts) =>
          ~enabled /\ UNCHANGED enabled
    BY <1>3 DEF Prepare, BindOne, BindFails, NoFunction, Found, StoreFails, Stored, PushArg,
    NoCallback, SendFails, Callback
  <2> QED
    BY <2>1, <2>2, <2>3, <2>4
<1>4. CASE Run
  BY <1>4 DEF Run, Execute, Instruction, Stay, Interrupt, Unwind, Ran
<1>5. CASE End
  <2>1. CASE RunThrew \/ RunReturned
    BY <2>1 DEF RunThrew, RunReturned, Stopped, StopTimeout
  <2>2. CASE ReplyError
    BY <2>2, ErrorReplied
  <2>3. ~(RunThrew \/ RunReturned \/ ReplyError) => ~enabled /\ UNCHANGED enabled
    BY <1>5 DEF End, RunUnwatched, ReplyOk, GetterAborts, Decoded
  <2> QED
    BY <2>1, <2>2, <2>3
<1>6. CASE Gone
  BY <1>6 DEF Gone, vars
<1> QED
  BY <1>1, <1>2, <1>3, <1>4, <1>5, <1>6 DEF Next

LEMMA TruthStep ==
  ASSUME IInv, Next
  PROVE  TruthInv'
<1> USE DEF IInv, TruthInv
<1> USE DEF deadline, history, Same, LeaveWith
<1>1. CASE Tick
  <2>1. own' >= own /\ own \in Nat /\ own' \in Nat
    BY <1>1, TimeoutAssumption DEF Tick, Passed, TypeOK
  <2>2. noticed => (asked + 1) * TicksPerMs \in Nat
    BY TimeoutAssumption DEF TypeOK
  <2>3. noticed => own' >= (asked + 1) * TicksPerMs
    BY <2>1, <2>2
  <2> QED
    BY <1>1, <2>3 DEF Tick
<1>2. CASE Begin
  BY <1>2 DEF Begin, EnterEval, EnterBindings, EnterCall, EnterSend, EnterRequire, EnterResume,
  EnterDecode, Enter
<1>3. CASE Prepare
  <2>1. UNCHANGED <<asked, own, noticed, outcome, imitated>>
    BY <1>3 DEF Prepare, BindOne, BindFails, Bound, NoFunction, Found, Reset, ResetAborts,
    StoreFails, Stored, PushArg, Pushed, NoCallback, SendFails, Callback
  <2>2. at' = "free" => reply' # "timeout"
    BY <1>3 DEF Prepare, BindOne, BindFails, Bound, NoFunction, Found, Reset, ResetAborts,
    StoreFails, Stored, PushArg, Pushed, NoCallback, SendFails, Callback
  <2> QED
    BY <2>1, <2>2
<1>4. CASE Execute
  <2>1. UNCHANGED <<asked, own, noticed>>
    BY <1>4 DEF Execute
  <2>2. at' # "free"
    BY <1>4 DEF Execute, Instruction, Stay, Unwind, Ran
  <2>3. /\ outcome' = "timeout" => outcome = "timeout"
        /\ outcome' = "imitation" => imitated'
    <3>1. CASE \E what \in Throws : Unwind(what) /\ imitated' = (imitated \/ what = "imitation")
      <4>1. PICK what \in Throws : Unwind(what) /\ imitated' = (imitated \/ what = "imitation")
        BY <3>1
      <4>2. what # "timeout" /\ (outcome' = outcome \/ outcome' = what)
        BY <4>1, TimeoutAssumption DEF Unwind, Ran
      <4> QED
        BY <4>1, <4>2
    <3>2. CASE \E what \in Returns : Ran("returned", what) /\ UNCHANGED imitated
      BY <3>2, TimeoutAssumption DEF Ran
    <3>3. CASE Stay /\ (imitated => imitated')
      BY <3>3 DEF Stay
    <3> QED
      BY <1>4, <3>1, <3>2, <3>3 DEF Execute, Instruction
  <2> QED
    BY <2>1, <2>2, <2>3
<1>5. CASE Interrupt
  <2>1. Expired /\ limit = asked /\ age <= own /\ Armed(asked)
    BY <1>5 DEF Interrupt, Interrupted, Expired, DeadlineInv
  <2>2. asked \notin {0, Unlimited} /\ asked \in Nat /\ age \in Nat /\ own \in Nat
        /\ TicksPerMs \in Nat \ {0}
    BY <2>1, TimeoutAssumption DEF Armed, TypeOK
  <2>3. age >= (asked + 1) * TicksPerMs
    BY <2>1, <2>2, DivPassed DEF Expired
  <2>4. (asked + 1) * TicksPerMs \in Nat
    BY <2>2
  <2>5. own >= (asked + 1) * TicksPerMs
    BY <2>1, <2>2, <2>3, <2>4
  <2>6. at' # "free" /\ (outcome' = "imitation" => outcome = "imitation")
    BY <1>5 DEF Interrupt, Unwind, Ran
  <2> QED
    BY <1>5, <2>2, <2>5, <2>6 DEF Interrupt
<1>6. CASE End
  <2>1. CASE ReplyError
    BY <2>1, ErrorReplied
  <2>2. CASE ~ReplyError
    BY <1>6, <2>2 DEF End, RunThrew, RunReturned, RunUnwatched, ReplyOk, GetterAborts, Decoded
  <2> QED
    BY <2>1, <2>2
<1>7. CASE Gone
  BY <1>7 DEF Gone, vars
<1> QED
  BY <1>1, <1>2, <1>3, <1>4, <1>5, <1>6, <1>7 DEF Next, Run

(* A deadline that has passed has passed for good while the section runs.  *)
LEMMA ExpiredLater ==
  ASSUME TypeOK, Tick, Expired
  PROVE  Expired'
<1>1. age \in Nat /\ age' \in Nat /\ age <= age' /\ TicksPerMs \in Nat \ {0}
  BY TimeoutAssumption DEF TypeOK, Tick, Passed
<1>2. age \div TicksPerMs <= age' \div TicksPerMs
  BY <1>1, DivMonotonic
<1>3. limit \in Nat
  BY TimeoutAssumption DEF TypeOK
<1>4. age \div TicksPerMs \in Nat /\ age' \div TicksPerMs \in Nat
  BY <1>1, DivNat
<1> QED
  BY <1>2, <1>3, <1>4 DEF Expired, Tick, deadline

LEMMA ExpiredSame ==
  ASSUME UNCHANGED <<enabled, limit, age>>
  PROVE  Expired' <=> Expired
  BY DEF Expired

LEMMA FinalStep ==
  ASSUME IInv, Next
  PROVE  FinalInv'
<1> USE DEF IInv, FinalInv
<1> USE DEF deadline, history, Same, LeaveWith
<1> late \in Nat /\ InterruptEvery \in Nat \ {0} /\ counter \in 0..(InterruptEvery - 1)
  BY TimeoutAssumption DEF TypeOK
<1>1. CASE Tick
  <2>1. UNCHANGED <<at, counter, late, outcome, noticed, reply>>
    BY <1>1 DEF Tick
  <2>2. Expired => Expired'
    BY <1>1, ExpiredLater
  <2> QED
    BY <2>1, <2>2 DEF Interrupted
<1>2. CASE Begin
  BY <1>2 DEF Begin, EnterEval, EnterBindings, EnterCall, EnterSend, EnterRequire, EnterResume,
  EnterDecode, Enter, CallEngine
<1>3. CASE Prepare
  <2>1. late = 0 /\ outcome = "none" /\ ~noticed /\ UNCHANGED <<late, outcome, noticed>>
    BY <1>3 DEF Prepare, BindOne, BindFails, Bound, NoFunction, Found, Reset, ResetAborts,
    StoreFails, Stored, PushArg, Pushed, NoCallback, SendFails, Callback
  <2>2. at' = "js" => counter' \in 0..(InterruptEvery - 1)
    BY <1>3, TypeStep DEF TypeOK
  <2> QED
    BY <2>1, <2>2
<1>4. CASE Execute
  <2>1. Expired' <=> Expired
    BY <1>4, ExpiredSame DEF Execute
  <2>2. at' \in {"js", "threw", "returned"} /\ (at' = "js" => outcome' = "none")
    BY <1>4 DEF Execute, Instruction, Stay, Unwind, Ran
  <2>3. ~noticed /\ ~noticed'
    BY <1>4 DEF Execute
  <2>4. IF Expired THEN late' = late + 1 /\ counter' = counter - 1 /\ counter > 0
                   ELSE late' = 0 /\ late = 0
    BY <1>4 DEF Execute, Counted, Interrupted
  <2>5. Expired => late + counter < InterruptEvery
    BY <1>4 DEF Execute
  <2> QED
    BY <2>1, <2>2, <2>3, <2>4, <2>5
<1>5. CASE Interrupt
  <2>1. Expired' /\ Expired /\ late' = late /\ counter' = 0 /\ noticed'
    BY <1>5, ExpiredSame DEF Interrupt, Interrupted, Throwing
  <2>2. at' \in {"js", "threw"} /\ (at' = "js" => outcome' = "none")
    BY <1>5 DEF Interrupt, Unwind, Ran
  <2> QED
    BY <2>1, <2>2 DEF Interrupted
<1>6. CASE End
  <2>1. UNCHANGED <<late, noticed>> /\ at' # "js"
    <3>1. CASE ReplyError
      BY <3>1, ErrorReplied
    <3>2. CASE ~ReplyError
      BY <1>6, <3>2 DEF End, RunThrew, RunReturned, RunUnwatched, ReplyOk, GetterAborts, Decoded
    <3> QED
      BY <3>1, <3>2
  <2>2. noticed => at' \in {"message", "free"} /\ (at' = "free" => reply' # "ok")
    <3>1. CASE ReplyError
      BY <3>1, ErrorReplied
    <3>2. CASE ~ReplyError
      BY <1>6, <3>2 DEF End, RunThrew, RunReturned, RunUnwatched, ReplyOk, GetterAborts, Decoded
    <3> QED
      BY <3>1, <3>2
  <2>3. at' \in {"message", "convert", "free", "aborted"}
    <3>1. CASE ReplyError
      BY <3>1, ErrorReplied
    <3>2. CASE ~ReplyError
      BY <1>6, <3>2 DEF End, RunThrew, RunReturned, RunUnwatched, ReplyOk, GetterAborts, Decoded
    <3> QED
      BY <3>1, <3>2
  <2> QED
    BY <2>1, <2>2, <2>3
<1>7. CASE Gone
  BY <1>7, ExpiredSame DEF Gone, vars, Interrupted
<1> QED
  BY <1>1, <1>2, <1>3, <1>4, <1>5, <1>6, <1>7 DEF Next, Run

LEMMA Stutter ==
  ASSUME IInv, UNCHANGED vars
  PROVE  IInv'
  BY DEF IInv, TypeOK, Apart, StackInv, DeadlineInv, TruthInv, FinalInv, Interrupted, Expired,
  Taken, vars, deadline, history

(* The invariant is inductive.                                             *)
THEOREM Inductive == Spec => []IInv
<1>1. IInv /\ [Next]_vars => IInv'
  BY TypeStep, ApartStep, StackStep, DeadlineStep, TruthStep, FinalStep, Stutter DEF IInv
<1> QED
  BY InitInv, <1>1, PTL DEF Spec
-----------------------------------------------------------------------------
(* The NIFs never pop more than they pushed, and the other fields stay     *)
(* within their types.                                                     *)
THEOREM TypeCorrect == Spec => []TypeOK
<1>1. IInv => TypeOK
  BY DEF IInv
<1> QED
  BY Inductive, <1>1, PTL

(* Every return of the seven NIFs leaves the value stack as deep as it was *)
(* and no deadline behind, for any number of arguments.                    *)
THEOREM SectionLeavesNothing == Spec => []LeavesNothing
<1>1. IInv => LeavesNothing
  BY DEF IInv, StackInv, DeadlineInv, LeavesNothing
<1> QED
  BY Inductive, <1>1, PTL

(* {error, timeout} is only said of a section whose caller asked for a     *)
(* deadline that has passed, for every resolution of the clock.            *)
THEOREM TimeoutsAreTrue == Spec => []TimeoutIsTrue
<1>1. IInv => TimeoutIsTrue
  BY DEF IInv, TruthInv, TimeoutIsTrue
<1> QED
  BY Inductive, <1>1, PTL

(* Fewer than InterruptEvery instructions run past a deadline, and once    *)
(* the interrupt has thrown no catch statement saves the run.              *)
THEOREM DeadlinesAreFinal == Spec => []DeadlineIsFinal
<1>1. IInv => DeadlineIsFinal
  BY DEF IInv, FinalInv, DeadlineIsFinal
<1> QED
  BY Inductive, <1>1, PTL
=============================================================================
