------------------------------- MODULE Registry -------------------------------
(***************************************************************************)
(* A registered Erlang function, from register_function to the value that  *)
(* JavaScript gets of a call.  The fun is in the dictionary of the process *)
(* that registered it, under a hash of the context and an atom; JavaScript *)
(* has a native function that knows a name of bytes.  Whether a call finds *)
(* its fun hangs on three conversions of the name and on the hash.         *)
(*                                                                         *)
(* The code of an eval is one call here, or an assignment of a function to *)
(* another name; evals on one context do not overlap (Trampoline is where  *)
(* they do).                                                               *)
(***************************************************************************)
EXTENDS Naturals

CONSTANTS
    Procs, Ctxs,
    Hash,           \* erlang:phash2 of each context
    Names,          \* what register_function is given: atoms and binaries
    Atoms,
    Bytes,          \* names as the engine has them
    NoBytes,        \* no name: an atom beyond Latin-1
    KeyAtom,        \* name -> the atom of make_function_key
    BytesOf,        \* name -> the bytes nif_register_erlang_function reads
    AtomOf,         \* bytes -> the atom enif_make_atom makes of them
    Results,        \* what a function may do, see AllResults
    NoProc, NoCtx,
    MaxRegisters    \* bound: calls of register_function

(* It returns a value, a text that begins with __ERROR__:, {error, _}, the *)
(* atom undefined, a term JavaScript has nothing for; or it raises.        *)
AllResults == {"value", "marked", "error", "undefined", "unfit", "raise"}

ASSUME RegistryAssumption ==
    /\ DOMAIN Hash = Ctxs
    /\ KeyAtom \in [Names -> Atoms]
    /\ BytesOf \in [Names -> Bytes \cup {NoBytes}]
    /\ AtomOf \in [Bytes -> Atoms]
    /\ NoBytes \notin Bytes /\ NoProc \notin Procs /\ NoCtx \notin Ctxs
    /\ Results \subseteq AllResults
    /\ MaxRegisters \in Nat

(* The conditions under which a name means one function to all: contexts   *)
(* do not collide, bytes become the atom they were made of, different ones *)
(* different atoms, and an atom that cannot be read is no other's.         *)
HashesDiffer == \A c, d \in Ctxs : Hash[c] = Hash[d] => c = d

NamesAgree ==
    /\ \A n \in Names : BytesOf[n] # NoBytes => AtomOf[BytesOf[n]] = KeyAtom[n]
    /\ \A n \in Names : BytesOf[n] = NoBytes => \A b \in Bytes : AtomOf[b] # KeyAtom[n]
    /\ \A a, b \in Bytes : AtomOf[a] = AtomOf[b] => a = b

Hashes == {Hash[c] : c \in Ctxs}
Keys   == Hashes \X Atoms
Funs   == 1..MaxRegisters
NoFun  == 0

VARIABLES
    dict,           \* the process dictionaries: key -> fun
    global,         \* the context's native functions: global name -> their name
    alive,          \* not destroyed
    user,           \* the process whose eval is under way or suspended
    made,           \* funs registered so far; the last one is of that number
    at,             \* what a process is doing
    ctx, native,    \* with which context and name: registering or calling it
    fun, did,       \* the fun registered or run, and what it did
    got,            \* what JavaScript got of the call made last
    listed          \* history: the fun p registered last, with ok, for a
                    \* context under a name of bytes

hand == <<ctx, native, fun, did>>
vars == <<dict, global, alive, user, made, at, hand, got, listed>>

Init ==
    /\ dict = [p \in Procs |-> [k \in Keys |-> NoFun]]
    /\ global = [c \in Ctxs |-> [b \in Bytes |-> NoBytes]]
    /\ alive = [c \in Ctxs |-> TRUE]
    /\ user = [c \in Ctxs |-> NoProc]
    /\ made = 0
    /\ at = [p \in Procs |-> "idle"]
    /\ ctx = [p \in Procs |-> NoCtx]
    /\ native = [p \in Procs |-> NoBytes]
    /\ fun = [p \in Procs |-> NoFun]
    /\ did = [p \in Procs |-> "none"]
    /\ got = [p \in Procs |-> "none"]
    /\ listed = [p \in Procs |-> [c \in Ctxs |-> [b \in Bytes |-> NoFun]]]

Goes(p, where) == at' = [at EXCEPT ![p] = where]

-----------------------------------------------------------------------------
(* Mutant: a key without the context.                                      *)
KeyOfName(c, a) == <<CHOOSE h \in Hashes : TRUE, a>>

(* make_function_key *)
Key(c, a) == <<Hash[c], a>>

(* register_function: put, before the NIF.                                 *)
Register(p, c, n) ==
    /\ at[p] = "idle"
    /\ made < MaxRegisters
    /\ made' = made + 1
    /\ dict' = [dict EXCEPT ![p][Key(c, KeyAtom[n])] = made']
    /\ ctx' = [ctx EXCEPT ![p] = c]
    /\ native' = [native EXCEPT ![p] = BytesOf[n]]
    /\ fun' = [fun EXCEPT ![p] = made']
    /\ Goes(p, "put")
    /\ UNCHANGED <<global, alive, user, did, got, listed>>

(* Mutant: an atom that could not be read.                                 *)
AnyName(b) == TRUE

Readable(b) == b # NoBytes

(* The native function under its own name, in place of whatever was there. *)
NifRegister(p) ==
    LET c == ctx[p]  b == native[p] IN
    /\ at[p] = "put"
    /\ alive[c]
    /\ Readable(b)
    /\ global' = [global EXCEPT ![c] = [x \in DOMAIN @ \cup {b} |-> IF x = b THEN b ELSE @[x]]]
    /\ listed' = [listed EXCEPT ![p][c][b] = fun[p]]
    /\ Goes(p, "idle")
    /\ UNCHANGED <<dict, alive, user, made, hand, got>>

(* invalid_context, or badarg for the atom: the fun stays in the dictionary.*)
RegisterFails(p) ==
    /\ at[p] = "put"
    /\ ~alive[ctx[p]] \/ ~Readable(native[p])
    /\ Goes(p, "idle")
    /\ UNCHANGED <<dict, global, alive, user, made, hand, got, listed>>

DestroyContext(p, c) ==
    /\ at[p] = "idle"
    /\ alive' = [alive EXCEPT ![c] = FALSE]
    /\ UNCHANGED <<dict, global, user, made, at, hand, got, listed>>

-----------------------------------------------------------------------------
(* JavaScript *)

Free(p, c) == at[p] = "idle" /\ alive[c] /\ user[c] = NoProc

(* An eval that gives a function another name.                             *)
JsAssign(p, c, b, to) ==
    /\ Free(p, c)
    /\ global[c][b] # NoBytes
    /\ global' = [global EXCEPT ![c][to] = global[c][b]]
    /\ UNCHANGED <<dict, alive, user, made, at, hand, got, listed>>

(* An eval that calls: the trampoline takes the function's own name.       *)
JsCall(p, c, b) ==
    /\ Free(p, c)
    /\ global[c][b] # NoBytes
    /\ user' = [user EXCEPT ![c] = p]
    /\ ctx' = [ctx EXCEPT ![p] = c]
    /\ native' = [native EXCEPT ![p] = global[c][b]]
    /\ got' = [got EXCEPT ![p] = "none"]
    /\ Goes(p, "called")
    /\ UNCHANGED <<dict, global, alive, made, fun, did, listed>>

(* dispatch_erlang_call                                                    *)
Found(p) == dict[p][Key(ctx[p], AtomOf[native[p]])]

Dispatch(p) ==
    /\ at[p] = "called"
    /\ fun' = [fun EXCEPT ![p] = Found(p)]
    /\ \E r \in IF Found(p) = NoFun THEN {"error"} ELSE Results : did' = [did EXCEPT ![p] = r]
    /\ Goes(p, "ran")
    /\ UNCHANGED <<dict, global, alive, user, made, ctx, native, got, listed>>

(* Mutant: an exception is a value like any other.                         *)
StoredRaised(r) == CASE r \in {"value", "raise"}     -> "value"
                     [] r \in {"undefined", "unfit"} -> "undefined"
                     [] OTHER                        -> "marked"

(* What __erlang_results__ has for it: a raise and an error are a text with*)
(* a mark, a term that does not convert is undefined.                      *)
Stored(r) == CASE r = "value"                  -> "value"
               [] r \in {"undefined", "unfit"} -> "undefined"
               [] OTHER                        -> "marked"

(* nif_call_complete, and its refusal: badmatch, the dictionary is gone.   *)
Complete(p) ==
    /\ at[p] = "ran"
    /\ alive[ctx[p]]
    /\ Goes(p, "completed")
    /\ UNCHANGED <<dict, global, alive, user, made, hand, got, listed>>

Crash(p) ==
    /\ at[p] = "ran"
    /\ ~alive[ctx[p]]
    /\ Goes(p, "dead")
    /\ dict' = [dict EXCEPT ![p] = [k \in Keys |-> NoFun]]
    /\ UNCHANGED <<global, alive, user, made, hand, got, listed>>

(* The trampoline throws a text with the mark and returns anything else.   *)
Given(stored) == IF stored = "marked" THEN "thrown" ELSE "returned"

(* nif_eval_resume; what is undefined is called again.                     *)
Resume(p) ==
    LET r == Stored(did[p]) IN
    /\ at[p] = "completed"
    /\ alive[ctx[p]]
    /\ IF r = "undefined"
       THEN Goes(p, "called") /\ UNCHANGED <<user, got>>
       ELSE /\ Goes(p, "idle")
            /\ user' = [user EXCEPT ![ctx[p]] = NoProc]
            /\ got' = [got EXCEPT ![p] = Given(r)]
    /\ UNCHANGED <<dict, global, alive, made, hand, listed>>

ResumeRefused(p) ==
    /\ at[p] = "completed"
    /\ ~alive[ctx[p]]
    /\ Goes(p, "idle")
    /\ UNCHANGED <<dict, global, alive, user, made, hand, got, listed>>

Next == \E p \in Procs :
          \/ \E c \in Ctxs, n \in Names : Register(p, c, n)
          \/ NifRegister(p)
          \/ RegisterFails(p)
          \/ \E c \in Ctxs : DestroyContext(p, c)
          \/ \E c \in Ctxs, b, to \in Bytes : JsAssign(p, c, b, to)
          \/ \E c \in Ctxs, b \in Bytes : JsCall(p, c, b)
          \/ Dispatch(p)
          \/ Complete(p)
          \/ Crash(p)
          \/ Resume(p)
          \/ ResumeRefused(p)

Spec == Init /\ [][Next]_vars

-----------------------------------------------------------------------------
TypeOK ==
    /\ dict \in [Procs -> [Keys -> Funs \cup {NoFun}]]
    /\ global \in [Ctxs -> [Bytes -> Bytes \cup {NoBytes}]]
    /\ alive \in [Ctxs -> BOOLEAN]
    /\ user \in [Ctxs -> Procs \cup {NoProc}]
    /\ made \in 0..MaxRegisters
    /\ at \in [Procs -> {"idle", "put", "called", "ran", "completed", "dead"}]
    /\ ctx \in [Procs -> Ctxs \cup {NoCtx}]
    /\ native \in [Procs -> Bytes \cup {NoBytes}]
    /\ fun \in [Procs -> Funs \cup {NoFun}]
    /\ did \in [Procs -> Results \cup {"none", "error"}]
    /\ got \in [Procs -> {"none", "returned", "thrown"}]
    /\ listed \in [Procs -> [Ctxs -> [Bytes -> Funs \cup {NoFun}]]]

(* A call runs the fun that its own process registered last, with ok, for  *)
(* this context under the name of the native function that was called, by  *)
(* whatever name; and none if there is none.  Neither registrations by     *)
(* others, for other contexts or refused, nor destroyed contexts matter, if*)
(* HashesDiffer and NamesAgree.                                            *)
RunsRegistered ==
    \A p \in Procs : at[p] = "ran" => fun[p] = listed[p][ctx[p]][native[p]]

(* JavaScript gets a value from a function that returned one, and an error *)
(* from one that raised or returned {error, _}.                            *)
ResultsArrive ==
    \A p \in Procs : at[p] = "idle" /\ got[p] # "none" =>
        (got[p] = "returned") = (did[p] \in {"value", "marked"})
=============================================================================
