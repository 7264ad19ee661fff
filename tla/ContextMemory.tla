--------------------------- MODULE ContextMemory ----------------------------
(***************************************************************************)
(* The memory of one context, from new_context to the destructor: what     *)
(* duktape_ctx_t owns (lock, heap, event and pending environments, resume  *)
(* code), and the allocator that Duktape's heap calls, which keeps the     *)
(* metrics.                                                                *)
(*                                                                         *)
(* Everything after the construction runs under the lock: "nif" is what    *)
(* holds it.  Trampoline models who waits for it and what it protects.     *)
(***************************************************************************)
EXTENDS Integers, FiniteSets, FiniteSetsExt

CONSTANTS
    Blocks,     \* addresses the system's allocator may hand out
    SizeMax,    \* SIZE_MAX
    Header,     \* MEM_HEADER_SIZE
    Failing,    \* the steps of the construction that may fail
    MaxAllocs,  \* bound: calls of the allocator
    MaxCalls    \* bound: calls of the API

ASSUME MemoryAssumption ==
    /\ IsFiniteSet(Blocks)
    /\ SizeMax \in Nat
    /\ Header \in 1..SizeMax
    /\ Failing \subseteq {"lock", "heap", "pending_env"}
    /\ MaxAllocs \in Nat /\ MaxCalls \in Nat

VARIABLES
    step,       \* how far the construction is, or what became of it
    owned,      \* each pointer of duktape_ctx_t: "null", "live" or "freed"
    misused,    \* history: a pointer was freed twice or used once freed
    destroyed,  \* res->destroyed
    nif,        \* what runs under the lock, or "none"
    calls,      \* API calls made
    size,       \* live block -> header->size
    room,       \* live block -> bytes the system allocated for it
    heapBytes, heapPeak, allocCount, reallocCount, freeCount, gcRuns,
    highest     \* history: the most bytes that were live at once

metrics   == <<heapBytes, heapPeak, allocCount, reallocCount, freeCount>>
heapVars  == <<size, room, metrics, highest>>
vars      == <<step, owned, misused, destroyed, nif, calls, heapVars, gcRuns>>

Pointers == {"lock", "ctx", "event_env", "pending_env", "resume_code"}
Live     == DOMAIN size

-----------------------------------------------------------------------------
(* The system's allocator gets Header + n bytes, computed in size_t.       *)
Requested(n) == (Header + n) % (SizeMax + 1)

Put(f, b, v) == [x \in DOMAIN f \cup {b} |-> IF x = b THEN v ELSE f[x]]
Drop(f, b)   == [x \in DOMAIN f \ {b} |-> f[x]]
Empty        == [x \in {} |-> 0]

Init ==
    /\ step = "event_env"
    /\ owned = [x \in Pointers |-> "null"]
    /\ misused = FALSE
    /\ destroyed = FALSE
    /\ nif = "none"
    /\ calls = 0
    /\ size = Empty
    /\ room = Empty
    /\ heapBytes = 0 /\ heapPeak = 0
    /\ allocCount = 0 /\ reallocCount = 0 /\ freeCount = 0 /\ gcRuns = 0
    /\ highest = 0

-----------------------------------------------------------------------------
(* new_context and new_context_opts, up to their failures                  *)

(* The handler option allocates the event environment.                     *)
NewEventEnv ==
    /\ step = "event_env"
    /\ step' = "lock"
    /\ \E s \in {"null", "live"} : owned' = [owned EXCEPT !["event_env"] = s]
    /\ UNCHANGED <<misused, destroyed, nif, calls, heapVars, gcRuns>>

NewMember(s, x, next) ==
    /\ step = s
    /\ step' = next
    /\ owned' = [owned EXCEPT ![x] = "live"]
    /\ UNCHANGED <<misused, destroyed, nif, calls, heapVars, gcRuns>>

NewLock       == NewMember("lock", "lock", "heap")
NewHeap       == NewMember("heap", "ctx", "pending_env")
NewPendingEnv == NewMember("pending_env", "pending_env", "done")

(* Free the members named; those in nulled are also set to NULL.           *)
Released(own, freed, nulled) ==
    [x \in Pointers |-> IF x \in nulled THEN "null"
                        ELSE IF x \in freed /\ own[x] = "live" THEN "freed"
                        ELSE own[x]]

FailureKeepsLock(s) ==
    CASE s = "lock"        -> Released(owned, {"event_env"}, {})
      [] s = "heap"        -> Released(owned, {"lock", "event_env"}, {})
      [] s = "pending_env" -> Released(owned, {"ctx", "lock", "event_env"}, {})

(* A failure frees what was made, the heap with its blocks, and gives the  *)
(* resource up; of the pointers only the lock is set to NULL, and not when *)
(* pending_env fails.                                                      *)
FailureFrees(s) ==
    CASE s = "lock"        -> Released(owned, {"event_env"}, {})
      [] s = "heap"        -> Released(owned, {"event_env"}, {"lock"})
      [] s = "pending_env" -> Released(owned, {"ctx", "lock", "event_env"}, {})

NewFails ==
    /\ step \in Failing
    /\ Live = {}
    /\ step' = "released"
    /\ owned' = FailureFrees(step)
    /\ UNCHANGED <<misused, destroyed, nif, calls, heapVars, gcRuns>>

-----------------------------------------------------------------------------
(* The allocator: metrics_alloc, metrics_realloc and metrics_free          *)

(* duk_create_heap is at work, or the modules and globals are installed.   *)
Building == step \in {"heap", "pending_env"}

HeapInUse == /\ Building \/ nif \in {"js", "gc"}
             /\ allocCount + reallocCount + freeCount < MaxAllocs

CountedLate(bytes) ==
    /\ heapBytes' = bytes
    /\ heapPeak' = IF heapBytes > heapPeak THEN heapBytes ELSE heapPeak

(* heap_bytes is updated first, then the peak.                            *)
Counted(bytes) ==
    /\ heapBytes' = bytes
    /\ heapPeak' = IF bytes > heapPeak THEN bytes ELSE heapPeak

FitsUnchecked(n) == n # 0

(* The sizes that pass the tests of metrics_alloc and metrics_realloc.     *)
Fits(n) == n # 0 /\ n <= SizeMax - Header

Alloc ==
    /\ HeapInUse
    /\ \E n \in 0..SizeMax, b \in Blocks \ Live :
         /\ Fits(n)
         /\ size' = Put(size, b, n)
         /\ room' = Put(room, b, Requested(n))
         /\ Counted(heapBytes + n)
         /\ highest' = IF heapBytes + n > highest THEN heapBytes + n ELSE highest
    /\ allocCount' = allocCount + 1
    /\ UNCHANGED <<step, owned, misused, destroyed, nif, calls, reallocCount,
                   freeCount, gcRuns>>

(* The block may move; if the system has no memory nothing changes.        *)
Realloc ==
    /\ HeapInUse
    /\ \E n \in 0..SizeMax, b \in Live, to \in Blocks :
         /\ to = b \/ to \notin Live
         /\ Fits(n)
         /\ size' = Put(Drop(size, b), to, n)
         /\ room' = Put(Drop(room, b), to, Requested(n))
         /\ Counted(heapBytes - size[b] + n)
         /\ highest' = IF heapBytes - size[b] + n > highest
                       THEN heapBytes - size[b] + n ELSE highest
    /\ reallocCount' = reallocCount + 1
    /\ UNCHANGED <<step, owned, misused, destroyed, nif, calls, allocCount,
                   freeCount, gcRuns>>

FreedWithHeader(b) ==
    /\ size' = Drop(size, b)
    /\ room' = Drop(room, b)
    /\ heapBytes' = heapBytes - (size[b] + Header)
    /\ freeCount' = freeCount + 1

(* metrics_free, and metrics_realloc to size 0.                            *)
Freed(b) ==
    /\ size' = Drop(size, b)
    /\ room' = Drop(room, b)
    /\ heapBytes' = heapBytes - size[b]
    /\ freeCount' = freeCount + 1

(* Any block while JavaScript or the collector runs, and every block when  *)
(* the heap is destroyed or its construction fails.                        *)
Free ==
    /\ HeapInUse \/ Building \/ nif \in {"destroy", "destructor"}
    /\ \E b \in Live : Freed(b)
    /\ UNCHANGED <<step, owned, misused, destroyed, nif, calls, heapPeak,
                   allocCount, reallocCount, gcRuns, highest>>

-----------------------------------------------------------------------------
(* The API on a complete context.  A NIF that runs JavaScript, gc and      *)
(* destroy_context take the lock; the allocator runs while they hold it.   *)

EnterNif(n) ==
    /\ step = "done"
    /\ nif = "none"
    /\ calls < MaxCalls
    /\ calls' = calls + 1
    /\ nif' = n
    /\ UNCHANGED <<step, owned, misused, destroyed, heapVars, gcRuns>>

(* Refused on a destroyed context by the test under the lock.              *)
EnterHeap == ~destroyed /\ \E n \in {"js", "gc"} : EnterNif(n)

LeaveGc ==
    /\ nif = "gc"
    /\ nif' = "none"
    /\ gcRuns' = gcRuns + 1
    /\ UNCHANGED <<step, owned, misused, destroyed, calls, heapVars>>

(* The resume code is left alone, freed and allocated again when a call    *)
(* goes to Erlang, or freed when a resumed evaluation ends.                *)
LeaveJs ==
    /\ nif = "js"
    /\ nif' = "none"
    /\ \/ UNCHANGED owned
       \/ owned' = [owned EXCEPT !["resume_code"] = "live"]
       \/ /\ owned["resume_code"] = "live"
          /\ owned' = [owned EXCEPT !["resume_code"] = "null"]
    /\ UNCHANGED <<step, misused, destroyed, calls, heapVars, gcRuns>>

(* Destroying again is harmless.                                           *)
DestroyAgain ==
    /\ destroyed
    /\ step = "done" /\ nif = "none" /\ calls < MaxCalls
    /\ calls' = calls + 1
    /\ UNCHANGED <<step, owned, misused, destroyed, nif, heapVars, gcRuns>>

EnterDestroy == ~destroyed /\ EnterNif("destroy")

(* duk_destroy_heap has freed every block.                                 *)
LeaveDestroy ==
    /\ nif = "destroy"
    /\ Live = {}
    /\ nif' = "none"
    /\ owned' = Released(owned, {}, {"ctx"})
    /\ destroyed' = TRUE
    /\ UNCHANGED <<step, misused, calls, heapVars, gcRuns>>

-----------------------------------------------------------------------------
(* The destructor, once no process holds the resource                      *)

(* A failed construction has released it, a complete context may be        *)
(* garbage collected whenever no NIF uses it.  Without a lock the          *)
(* destructor does nothing.                                                *)
CollectNothing ==
    /\ step = "released"
    /\ owned["lock"] = "null"
    /\ step' = "collected"
    /\ UNCHANGED <<owned, misused, destroyed, nif, calls, heapVars, gcRuns>>

EnterDestructor ==
    /\ step \in {"released", "done"} /\ nif = "none"
    /\ owned["lock"] # "null"
    /\ step' = "collecting"
    /\ nif' = "destructor"
    /\ misused' = \/ owned["lock"] = "freed"
                  \/ owned["ctx"] = "freed" /\ ~destroyed
    /\ UNCHANGED <<owned, destroyed, calls, heapVars, gcRuns>>

MembersWithoutCode == Pointers \ {"resume_code"}

(* All of them are tested against NULL, freed, and set to NULL.            *)
MembersFreed == Pointers

LeaveDestructor ==
    /\ nif = "destructor"
    /\ Live = {}
    /\ step' = "collected"
    /\ nif' = "none"
    /\ misused' = \/ misused
                  \/ \E x \in MembersFreed \ {"ctx"} : owned[x] = "freed"
    /\ owned' = Released(owned, {}, MembersFreed)
    /\ UNCHANGED <<destroyed, calls, heapVars, gcRuns>>

Collected == step = "collected" /\ UNCHANGED vars

Construct == NewEventEnv \/ NewLock \/ NewHeap \/ NewPendingEnv \/ NewFails
Allocator == Alloc \/ Realloc \/ Free
Api       == EnterHeap \/ LeaveGc \/ LeaveJs \/ DestroyAgain \/ EnterDestroy
               \/ LeaveDestroy
Destruct  == CollectNothing \/ EnterDestructor \/ LeaveDestructor

Next == Construct \/ Allocator \/ Api \/ Destruct \/ Collected

Spec == Init /\ [][Next]_vars
-----------------------------------------------------------------------------
(* Every counter is a natural number: heap_bytes never wraps below zero.   *)
TypeOK ==
    /\ step \in {"event_env", "lock", "heap", "pending_env", "done", "released",
                 "collecting", "collected"}
    /\ owned \in [Pointers -> {"null", "live", "freed"}]
    /\ misused \in BOOLEAN /\ destroyed \in BOOLEAN
    /\ nif \in {"none", "js", "gc", "destroy", "destructor"}
    /\ calls \in Nat
    /\ DOMAIN size \subseteq Blocks /\ DOMAIN room = DOMAIN size
    /\ \A b \in DOMAIN size : size[b] \in 1..SizeMax /\ room[b] \in Nat
    /\ heapBytes \in Nat /\ heapPeak \in Nat /\ highest \in Nat
    /\ allocCount \in Nat /\ reallocCount \in Nat /\ freeCount \in Nat
    /\ gcRuns \in Nat

(* get_memory_stats tells the truth, whatever was allocated, moved, freed  *)
(* or refused: heap_bytes is the sum of the live blocks' sizes, alloc_count*)
(* less free_count their number (a reallocation that moves a block counts  *)
(* as neither), heap_peak the largest heap_bytes ever, reached by an       *)
(* allocation or by a reallocation that grows a block.                     *)
MetricsAreExact ==
    /\ heapBytes = MapThenSumSet(LAMBDA b : size[b], Live)
    /\ allocCount - freeCount = Cardinality(Live)
    /\ heapPeak = highest

(* The system gave every live block room for the header and the bytes      *)
(* Duktape asked for: no size wrapped around when the header was added.    *)
BlocksHold == \A b \in Live : room[b] >= Header + size[b]

(* No member is used or freed once it has been freed, on any path through  *)
(* the constructors' failures, destroy_context and the destructor.         *)
NoMisuse == ~misused

(* README.md: contexts are cleaned up when garbage collected.  Once it is  *)
(* collected, a context of any history has given back all it owned.        *)
NothingLeaks == step = "collected" => /\ Live = {}
                                      /\ \A x \in Pointers : owned[x] # "live"
=============================================================================
