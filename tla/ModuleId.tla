------------------------------ MODULE ModuleId ------------------------------
(***************************************************************************)
(* duk__resolve_module_id of duk_module_duktape.c: the id given to         *)
(* require() becomes the absolute id under which Duktape.modLoaded caches  *)
(* the module.  A relative id is put after the requiring module's id and   *)
(* "/../"; then one pass over the buffer drops ".", takes back a name for  *)
(* "..", and writes its output over its own input: p reads, q writes.      *)
(*                                                                         *)
(* One step is one byte read or written, so that the order of reads and    *)
(* writes, the bounds of both and the assertions of the source show.       *)
(***************************************************************************)
EXTENDS Integers, ModuleTerms

CONSTANTS
    Letters,        \* the bytes of names: neither '.' nor '/'
    Limit,          \* DUK_COMMONJS_MODULE_ID_LIMIT, the size of the buffer
    ReqIds,         \* the ids that require() is called with
    MaxRequires     \* bound: calls of require()

Nul   == "nul"      \* the byte that ends the input
Junk  == "junk"     \* the bytes behind it, never written

Char == Letters \cup {Dot, Slash}
Byte == Char \cup {Nul, Junk}

ASSUME ModuleIdAssumption ==
    /\ Letters \cap {Dot, Slash, Nul, Junk} = {}
    /\ Limit \in Nat \ {0}
    /\ ReqIds \subseteq Seq(Char)
    /\ MaxRequires \in Nat

VARIABLES
    req,            \* req_id
    mod,            \* mod_id, <<>> outside a module
    buf,            \* buf
    p, q, qLast,    \* the next byte to read and to write; the last term
    c,              \* the byte in hand
    at,             \* which loop is running, or how it ended
    id, last,       \* the absolute id and its last term, when done
    requires        \* calls so far

argVars == <<req, mod, requires>>
outVars == <<id, last>>
vars    == <<argVars, buf, p, q, qLast, c, at, outVars>>

-----------------------------------------------------------------------------
Init ==
    /\ req = <<>> /\ mod = <<>>
    /\ buf = [i \in 0..(Limit - 1) |-> Junk]
    /\ p = 0 /\ q = 0 /\ qLast = 0
    /\ c = Nul
    /\ at = "idle"
    /\ id = <<>> /\ last = <<>>
    /\ requires = 0

InputPrepended(m, r) ==
    IF IsRelative(m, r) THEN m \o <<Slash>> \o r ELSE r

(* "%s/../%s" of the two for a relative id inside a module, else the id.   *)
Input(m, r) ==
    IF IsRelative(m, r) THEN m \o <<Slash, Dot, Dot, Slash>> \o r ELSE r

(* What snprintf leaves in the buffer.                                     *)
Filled(s) == [i \in 0..(Limit - 1) |->
                 IF i < Len(s) THEN s[i + 1] ELSE IF i = Len(s) THEN Nul ELSE Junk]

Fits(s) == Len(s) < Limit

(* require(): outside any module, or in the module resolved last.          *)
Require ==
    /\ at \in {"idle", "done", "error"}
    /\ requires < MaxRequires
    /\ requires' = requires + 1
    /\ req' \in ReqIds
    /\ mod' \in {<<>>, id}
    /\ LET s == Input(mod', req') IN
         IF Fits(s)
         THEN buf' = Filled(s) /\ at' = "term"
         ELSE at' = "error" /\ UNCHANGED buf
    /\ p' = 0 /\ q' = 0 /\ qLast' = 0
    /\ UNCHANGED <<c, outVars>>

-----------------------------------------------------------------------------
(* The top of the loop: a term begins at p *)

AtTerm == /\ at = "term"
          /\ qLast' = q

(* '.' and a slash: the term is dropped.                                   *)
EatDot ==
    /\ AtTerm
    /\ buf[p] = Dot /\ buf[p + 1] = Slash
    /\ p' = p + 2
    /\ at' = "slashes"
    /\ UNCHANGED <<argVars, buf, q, c, outVars>>

IsDotDot == buf[p] = Dot /\ buf[p + 1] = Dot /\ buf[p + 2] = Slash

(* '..' and a slash, behind a name: the name's slash is taken back.        *)
DotDot ==
    /\ AtTerm
    /\ IsDotDot
    /\ q # 0
    /\ p' = p + 3
    /\ q' = q - 1
    /\ at' = "back"
    /\ UNCHANGED <<argVars, buf, c, outVars>>

(* A letter: the term is a name.                                           *)
BeginName ==
    /\ AtTerm
    /\ buf[p] \notin {Nul, Dot, Slash}
    /\ c' = buf[p]
    /\ p' = p + 1
    /\ at' = "name"
    /\ UNCHANGED <<argVars, buf, q, outVars>>

(* No term, an empty one, one that only begins with a period, a '.' or     *)
(* '..' at the end, or '..' with no name before it.                        *)
Reject ==
    /\ AtTerm
    /\ \/ buf[p] \in {Nul, Slash}
       \/ /\ buf[p] = Dot
          /\ buf[p + 1] # Slash
          /\ IsDotDot => q = 0
    /\ at' = "error"
    /\ UNCHANGED <<argVars, buf, p, q, c, outVars>>

-----------------------------------------------------------------------------
(* The inner loops *)

BackwardOverSlash ==
    /\ at = "back"
    /\ IF q = 0 \/ buf[q - 1] = Slash
       THEN at' = "slashes" /\ q' = IF q = 0 THEN 0 ELSE q - 1
       ELSE q' = q - 1 /\ UNCHANGED at
    /\ UNCHANGED <<argVars, buf, p, qLast, c, outVars>>

(* q goes back to the slash before the name, or to the start.              *)
Backward ==
    /\ at = "back"
    /\ IF q = 0 \/ buf[q - 1] = Slash
       THEN at' = "slashes" /\ UNCHANGED q
       ELSE q' = q - 1 /\ UNCHANGED at
    /\ UNCHANGED <<argVars, buf, p, qLast, c, outVars>>

WrittenAhead == [buf EXCEPT ![q + 1] = c]

(* *q++ = c                                                                *)
Written == [buf EXCEPT ![q] = c]

CopyLetter ==
    /\ at = "name"
    /\ buf' = Written
    /\ Written[p] \notin {Nul, Slash}
    /\ q' = q + 1
    /\ c' = Written[p]
    /\ p' = p + 1
    /\ UNCHANGED <<argVars, qLast, at, outVars>>

(* The name ends in a slash, which is copied too.                          *)
CopySlash ==
    /\ at = "name"
    /\ Written[p] = Slash
    /\ buf' = [Written EXCEPT ![q + 1] = Slash]
    /\ q' = q + 2
    /\ c' = Slash
    /\ p' = p + 1
    /\ at' = "slashes"
    /\ UNCHANGED <<argVars, qLast, outVars>>

BytesAndNext(b, from, to) == [i \in 1..(to - from + 1) |-> b[from + i - 1]]
BytesButLast(b, from, to) == [i \in 1..(to - from - 1) |-> b[from + i - 1]]

(* The bytes of b from one index up to, not including, another.            *)
Bytes(b, from, to) == [i \in 1..(to - from) |-> b[from + i - 1]]

(* The input ends: loop_done and the two strings that are pushed.          *)
CopyLast ==
    /\ at = "name"
    /\ Written[p] = Nul
    /\ buf' = Written
    /\ q' = q + 1
    /\ c' = Nul
    /\ p' = p + 1
    /\ at' = "done"
    /\ id' = Bytes(Written, 0, q + 1)
    /\ last' = Bytes(Written, qLast, q + 1)
    /\ UNCHANGED <<argVars, qLast>>

EatSlashStays ==
    /\ at = "slashes"
    /\ IF buf[p] = Slash THEN UNCHANGED <<p, at>>
                         ELSE at' = "term" /\ UNCHANGED p
    /\ UNCHANGED <<argVars, buf, q, qLast, c, outVars>>

(* Duplicate slashes are skipped.                                          *)
EatSlash ==
    /\ at = "slashes"
    /\ IF buf[p] = Slash THEN p' = p + 1 /\ UNCHANGED at
                         ELSE at' = "term" /\ UNCHANGED p
    /\ UNCHANGED <<argVars, buf, q, qLast, c, outVars>>

Step == \/ EatDot
        \/ DotDot
        \/ BeginName
        \/ Reject
        \/ Backward
        \/ CopyLetter
        \/ CopySlash
        \/ CopyLast
        \/ EatSlash

(* The calls are made: nothing is left to do.                              *)
Finished ==
    /\ at \in {"done", "error"}
    /\ requires = MaxRequires
    /\ UNCHANGED vars

Next == Require \/ Step \/ Finished

Spec == Init /\ [][Next]_vars

(* A function that was called runs.                                        *)
FairSpec == Spec /\ WF_vars(Step)

-----------------------------------------------------------------------------
Running == at \in {"term", "slashes", "name", "back"}

(* Pointers stay in the buffer or one behind it, and ids are strings of    *)
(* bytes that end nowhere but at their end.                                *)
TypeOK ==
    /\ req \in Seq(Char) /\ mod \in Seq(Char)
    /\ buf \in [0..(Limit - 1) -> Byte]
    /\ p \in 0..Limit /\ q \in 0..Limit /\ qLast \in 0..Limit
    /\ c \in Byte
    /\ at \in {"idle", "term", "slashes", "name", "back", "done", "error"}
    /\ id \in Seq(Char) /\ last \in Seq(Char)
    /\ requires \in Nat

(* The assertions of the source, at lines 100, 119, 123, 127, 173, 177 and *)
(* 178: the output never overtakes the input, what '..' takes back ends in *)
(* a slash, and the last term lies inside the output.                      *)
AssertionsHold ==
    /\ at = "term" => p >= q
    /\ at = "term" /\ IsDotDot /\ q # 0 => buf[q - 1] = Slash
    /\ at = "done" => qLast >= 0 /\ q >= qLast

(* "The resolved output is written directly over the input": the input not *)
(* read yet, to its last byte and the NUL, is still as it was given, so    *)
(* that no term is read from what was written, and no byte behind the NUL  *)
(* is read.                                                                *)
UnreadIntact ==
    Running =>
        LET s == Input(mod, req) IN
          /\ p <= Len(s)
          /\ \A i \in p..Len(s) : buf[i] = Filled(s)[i]

-----------------------------------------------------------------------------
(* Seen by its caller the pass is a walk over directories (ModulePath).    *)

(* The pass copies the requiring module's id, and takes its name back.     *)
Preparing ==
    /\ IsRelative(mod, req)
    /\ p < Len(mod) + 4 \/ (p = Len(mod) + 4 /\ at = "back")

(* Where the name that is copied begins, or what is read next.             *)
TermAt == IF at = "name" THEN p - 1 - (q - qLast) ELSE p

RestIn ==
    LET s == SubSeq(Input(mod, req), TermAt + 1, Len(Input(mod, req)))
    IN IF at \in {"slashes", "back"} THEN Unslashed(s) ELSE s

Rest == IF ~Running THEN <<>> ELSE IF Preparing THEN req ELSE RestIn

DirIn == IF at = "back" THEN Dir(Bytes(buf, 0, q))
         ELSE Bytes(buf, 0, IF at = "name" THEN qLast ELSE q)

Reached == IF ~Running THEN <<>> ELSE IF Preparing THEN Dir(mod) ELSE DirIn

Status == IF Running THEN "walking" ELSE at

Path == INSTANCE ModulePath WITH rest <- Rest, dir <- Reached, status <- Status

(* require() of an id leads where its terms say, from the directory of the *)
(* module it is in, and fails just when they lead nowhere or are too long: *)
(* putting the module's id and "/../" before it, and writing over what was *)
(* read, does not show.                                                    *)
ImplementsPath == Path!Spec

(* Modules are cached and registered under absolute ids, of names with one *)
(* slash between them; and under such an id, if it is not too long, a      *)
(* module is found from everywhere.                                        *)
CanonicalIds ==
    /\ id # <<>> => Canonical(id)
    /\ Canonical(req) /\ Fits(req) => at # "error" /\ (at = "done" => id = req)
=============================================================================
