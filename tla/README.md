# Verification of erlang-duktape

TLA+ specifications of the Erlang binding of the Duktape JavaScript engine:
the NIF `src/c_src/duktape_nif.c`, the API module `src/src/duktape.erl` and the
CommonJS module loader `src/c_src/duktape/duk_module_duktape.c` that the NIF
installs. The specifications are model-checked with TLC on small instances, and
theorems about all the main ones are proved with TLAPS for every value of the
constants.

    tlc -workers 4 -config TrampolineSerial.cfg MCTrampoline
    tlc -workers 4 -config TrampolineShared.cfg MCTrampoline
    tlc -workers 4 -config ModuleLoads.cfg      MCModuleLoader
    tlc -workers 4 -config ModuleId.cfg         MCModuleId
    tlc -workers 4 -config ExecTimeout.cfg      MCExecTimeout
    tlc -workers 4 -config Events.cfg           MCEvents
    tlc -workers 4 -config TermConv.cfg         MCTermConv
    tlc -workers 4 -config Registry.cfg         MCRegistry
    tlc -workers 4 -config ContextMemory.cfg    MCContextMemory
    tlapm TrampolineProofs.tla
    tlapm ModuleLoaderProofs.tla
    tlapm ModuleIdProofs.tla
    tlapm EventsProofs.tla
    tlapm RegistryProofs.tla
    tlapm ExecTimeoutProofs.tla
    tlapm TermConvProofs.tla
    tlapm ContextMemoryProofs.tla

The configurations `Find*.cfg` are expected to end in a counterexample (section
3, last part).

## 1. The system

A *context* is an Erlang resource (`duktape_ctx_t`) that holds a Duktape heap,
a mutex, the state of one Erlang call in progress, a deadline and memory
counters. Any number of Erlang processes may hold it. Each API function is one
NIF or a short sequence of NIFs; a NIF that touches the heap tests the context
without the lock (`get_context`), waits for the mutex, tests again, works, and
unlocks.

| Component | State | Operations | Hard because |
|---|---|---|---|
| Evaluation and trampoline (`nif_eval`, `nif_eval_bindings`, `nif_call`, `nif_send`, `nif_call_complete`, `nif_eval_resume`, `eval_loop`) | `call_index`, `__erlang_results__`, `pending_call/_index/_func/_args/_env`, `call_result`, `resume_code`, `__call_func__` | evaluate, record a call and unwind, run the function in Erlang, store its result, evaluate again | the state of a call belongs to the context and the lock is free while Erlang runs the function; the sentinel is an ordinary JavaScript error; the code is replayed |
| Registered functions (`register_function`, `nif_register_erlang_function`, `dispatch_erlang_call`) | process dictionary, keyed by `phash2` of the context and an atom; native functions with a name of bytes | register, call, dispatch, store the result | a name is converted three times; the fun belongs to a process, the native function to a context; a refused registration is half done |
| Events (`Erlang.emit/log/on/off`, `console`, `nif_send`) | `event_env`, `handler_pid`, callback table `Erlang._callbacks` | emit, log, register, call back | converting data runs getters and `toString`, so native functions enter each other under one shared environment; replays repeat effects |
| Execution timeout (`start_timeout`, `stop_timeout`, `duktape_check_timeout`, the engine's interrupt) | `timeout_enabled`, `timeout_ms`, `exec_start_ns`, the interrupt counter | arm, test, throw, disarm, recognise | code may catch; the deadline is tested only when the counter is zero; some statements run with no catcher, some code with no deadline |
| CommonJS modules (`nif_register_module`, `nif_require`, `mod_search`, `duk__require`) | sources in the global stash, `Duktape.modLoaded` | register, require from Erlang or JavaScript, load, fail | recursion, cycles, failure at every depth, and replays that meet a different cache |
| Module ids (`duk__resolve_module_id`) | one buffer of 256 bytes | resolve | the output is written over the input; `..` goes back over what was written |
| Term conversion (`erlang_to_duk`, `duk_to_erlang`) | the engine's value stack | convert there and back | every way out of a recursion must pop what it pushed; numbers of two widths; texts that look like lists |
| Lifecycle (`nif_new_context`, `nif_new_context_opts`, `nif_destroy_context`, destructor) | the pointers of `duktape_ctx_t`, `destroyed` | construct, destroy, collect | partial construction; destroyed while others wait; freed by one of three places |
| Memory metrics (`metrics_alloc/_realloc/_free`, `nif_get_memory_stats`, `nif_gc`) | a header per block, six counters | allocate, move, free, report | counters and headers must agree over long histories; size arithmetic in `size_t` |
| CBOR (`nif_cbor_encode`, `nif_cbor_decode`) | none | encode, decode | the encoder runs outside a protected call |
| NIF loading | atoms, resource type | `on_load`, `on_upgrade` | it is not |

How they interact: `eval_loop` drives the trampoline by calls and return values
and looks up registered functions in between; `erlang_function_trampoline` runs
inside JavaScript inside a NIF and talks to it through the context's fields and
a thrown error; the module loader runs inside JavaScript and calls back into
`mod_search`; `emit`, `log` and the trampoline convert values, and the
conversion runs JavaScript again; the interrupt of the engine reads the deadline
the NIF armed; every block the engine allocates goes through the metrics
allocator; all of it is protected by the one mutex.

What makes each correct:

- evaluation: a value that JavaScript gets from a call is the answer to that
  call; a function runs once per call, in program order; each request is
  answered; nobody enters the heap twice or after its destruction;
- registered functions: a call runs what its process registered under that name
  for that context, and its result arrives as what it is;
- events: what the handler is sent, and which callbacks are left, is what the
  program says, as if it had run once; messages have live terms;
- timeouts: a deadline interrupts the code it was armed for, and only that, and
  `{error, timeout}` is true;
- modules: nothing half loaded is ever seen by later code, a loaded module keeps
  its exports object, cycles end, an id means the path of its terms;
- conversion: a term goes over whole or not at all, comes back as what the
  documentation says, and the value stack is balanced;
- lifecycle and memory: each pointer freed once and no later than the
  destructor, counters equal to what is live.

`PROJECT.json` lists the components with their status, the hazards at their
lines, and which definition stands for which lines.

## 2. Modules

| Module | What it is |
|---|---|
| `Trampoline` | processes, lock, call state, one action per step of each NIF and of `eval_loop` |
| `SyncEval` | what `eval` and `call` promise when evaluations do not overlap: no replay, no cache, no lock |
| `Registry` | a registered function from `register_function` to the value JavaScript gets |
| `Events` | one run after another of JavaScript that emits, logs, registers callbacks and calls, with native functions inside each other |
| `ExecTimeout` | one critical section after another: clock, deadline, interrupt, value stack |
| `ModuleLoader` | registration, `require`, the cache, and replays of evals whose modules call Erlang functions |
| `ModuleId` | the resolution of a module id, byte by byte |
| `ModulePath` | what resolving an id promises: a walk over directories, a term at a time, with no buffer |
| `ModuleTerms` | ids as terms between slashes, for both |
| `TermConv` | the two conversions, element by element |
| `ContextMemory` | construction, allocator, destruction, destructor of one context |
| `MC*` | for each of them: the instance TLC checks; for `Events` and `TermConv` also the reference definitions and the properties |
| `*Proofs` | the theorems about `Trampoline` with `SyncEval`, `ModuleLoader`, `ModuleId` with `ModulePath`, `Events`, `Registry`, `ExecTimeout`, `TermConv` and `ContextMemory` |

In each module definitions that begin with the comment "Mutant" are plausible
bugs; they are used in place of a definition to see that a property fails.

### Trampoline

One context, several processes. `pc[p]` says where process `p` is: `idle`;
`wait`, after the unlocked test and before the mutex; `js`, inside a critical
section running JavaScript; `dispatch`, with a `{call_erlang, F, Args}` in hand;
`answered` and `completed`, between the Erlang function, `nif_call_complete` and
`nif_eval_resume`; `dead`. `nif[p]` is the NIF.

A critical section without JavaScript is one step. One with JavaScript is one
step from the lock to the first statement, one step per statement, and one step
for what follows the protected call, up to the unlock: the destroying, sending
and evaluating of others is interleaved wherever the lock is free.

JavaScript is a program of statements: a call of a registered function, a read
of a variable bound by `eval/3,4`, a throw, an endless loop, each perhaps in a
try/catch. Its values are sites, `<<process, request, statement>>`: a call
passes its site as its argument and its result carries it, so that a value at the
wrong place is visible, and nothing else about values matters to the properties.

| Actions | Code |
|---|---|
| `StartRequest`, `GetContext`, `StartDestroy` | API functions of `duktape.erl`, `get_context` |
| `Enter*`, `EnterRefused`, `BindBadArg`, `CallNotFunction`, `CallBadArg`, `SendNothing` | each NIF from `enif_mutex_lock` to its JavaScript or its early return |
| `JsCallCached`, `JsCallPending` | `erlang_function_trampoline` |
| `JsTimeout` | the engine's interrupt with `duktape_check_timeout` |
| `EvalOk`, `EvalTimeout`, `EvalCallErlang`, `EvalError`, `SendReturn` | what follows the protected call |
| `Dispatch`, `Badmatch`, `StartComplete`, `StartResume` | `eval_loop`, `dispatch_erlang_call` |
| `EnterComplete`, `StoredResult`, `CompleteRefused` | `nif_call_complete` |
| `EnterResume`, `ResumeIndex`, `ResumeNoCode`, `ResumeCallErlang`, `ResumeDone` | `nif_eval_resume` |
| `Kill` | an exit signal; NIFs are not interrupted |

Points where the model follows the code and a reader may expect otherwise:
`nif_destroy_context` skips `get_context`; the index, the results and
`__call_func__` are reset before the arguments of `nif_call` are converted;
`undefined` stored in `__erlang_results__` cannot be told from an absent entry
(`StoredResult` removes it); `nif_eval_resume` starts no timer; a caught
sentinel leaves `pending_call` set. An Erlang function that itself evaluates on
the same context is covered as another process whose request falls between
`dispatch` and `completed`.

### SyncEval

`phase`, the request, the calls made with their outcomes, the reply. A request
begins, calls its functions once each in program order, and returns: values,
one per call and per bound variable; `js_error` if a function raised or the
program throws; `timeout` if it asked for one; `invalid_context` if the context
is destroyed. The refinement mapping is at the end of `Trampoline`: it maps a process to `running` from the start of its
request to its reply, and `done` to the history `dispatched`.

### Registry

Several processes, each with its dictionary, and several contexts, each with
its global functions. A name is what the caller gives; `KeyAtom`, `BytesOf` and
`AtomOf` are the three conversions it goes through: to the atom of
`make_function_key` (`binary_to_atom(_, utf8)`), to the bytes that the NIF gives
the engine (Latin-1 for an atom, as they are for a binary), and from these to
the atom of `{call_erlang, F, _}` (`enif_make_atom`, Latin-1). `Hash` is `phash2`.

`Register` is the `put`, `NifRegister` and `RegisterFails` the NIF after it.
`JsCall` is an eval that calls a global function, under whatever name it has by
now (`JsAssign`); `Dispatch`, `Complete`, `Resume` are `eval_loop`, with
`Crash` and `ResumeRefused` for a context that was destroyed in between.
`Stored` is what `nif_call_complete` and `nif_eval_resume` leave for the
trampoline to find, `Given` what it makes of that. Funs are numbered as they are
registered; `listed` remembers the last one per process, context and name.

### Events

`frames` is the stack of native calls: the program at the bottom, and above it
the `emit`, `log` or Erlang call whose data, text or arguments are being
converted, with the statements that getters and `toString` run meanwhile. A
frame's `alive` says whether the terms it has made so far are still there:
`EmitEvent` clears `event_env`, and `EnterCall` clears `pending_env`, under every
frame that has terms in it. `Throw` unwinds to the next `log`, whose
`duk_safe_to_string` is the only catcher among the native functions, or ends the
run.

An eval that calls returns to Erlang (`ReturnCall`) and is run again from its
start (`Resume`) with one more result; sends of other processes run callbacks in
between. `sent`, `called` and `before` are histories. `Statements` are those programs are
made of, at any depth. `MCEvents` gives programs a meaning by recursion over
their statements (`Meaning`), as if they ran once, and `EffectsAsWritten` and
`CallsOnce` compare with it.

Since there is one environment for messages and one for calls, what lives in
them is right only for programs that are `Tame`: the data of an event sends no
event, and the arguments of a call throw nothing and, in the text of a log, call
nothing. The statements of the run are (`SomeAreTame`, which TLC evaluates);
section 3 has programs without each condition.

### ExecTimeout

`at` is the place of the process that holds the lock; each NIF that runs
JavaScript has its steps from the lock to the unlock, with the slots that it
pushes and pops in `top`. JavaScript is any sequence of instructions: it may
enter and leave try statements, throw errors, sentinels or an imitation of the
timeout's text, or return. The clock (`Tick`) goes on at any time.

The engine's interrupt is modelled from `duk__executor_interrupt` and the
instruction loop: `counter` counts instructions down; at zero the deadline is
tested; if it has passed the counter is left at zero, so that every further
instruction throws until no try is left; if not, the counter starts again. Each
call of the engine by a NIF begins with the counter at zero (`CallEngine`, from
`duk_heap_switch_thread`), so that the deadline is tested before its first
instruction; a section makes several such calls (the reset of
`__erlang_results__`, the code, a `toString`, a getter) and the counter of one
says nothing about the next. `ResetAborts` and `GetterAborts` are errors where
no protected call is under way: the engine's fatal handler ends the VM.

### ModuleLoader

`stack` is the JavaScript call stack, the eval's code (or the `require` of
`nif_require`) and above it the bodies being loaded; `thrown` unwinds it frame by
frame, so that every `delete_rethrow` is a step of its own. A statement is a
`require`, a call of an Erlang function or a throw, perhaps in a try/catch.
`modLoaded` maps ids to numbered module objects; `loaded` remembers which
bodies ran to their end.

`RequireLoads` is `duk__require` up to the call of the wrapped body (the entry
is in the cache before `modSearch` runs); `RequireFails` is `modSearch` throwing
or the source not compiling, with the entry made and deleted in one step, since
no other JavaScript runs between; `RequireInherited` is the case of an id that
names a property of `Object.prototype`: the stash is a plain object, `modSearch`
finds the inherited function, which is no string, and the module counts as
loaded; `ModuleReturns` and `ModuleThrows` are the two ends of the body.
`NifEval`, `NifCallComplete`, `NifEvalResume`, `CallCached`, `CallPending`,
`ReturnCallErlang` are the trampoline again, reduced to one evaluation: the
resumed pass finds the modules of the earlier ones in the cache. While an eval
is suspended other processes may register and require modules; they start no
eval, since what goes wrong then is the subject of `Trampoline`.

### ModuleId

`buf` is the buffer, `p` and `q` the pointers that read and write it, `at` the
loop that is running; a step reads or writes one byte. `Require` composes the
input (the module's id, `/../` and the request, for a relative one), then the
actions are the branches of the source: `EatDot`, `DotDot`, `BeginName` and
`Reject` at the start of a term, the loop backwards over a name, the loop that
copies a name, and the one over repeated slashes. The assertions of the source
are `AssertionsHold`.

What an id means is said by `ModulePath`, with no buffer: a machine that stands
in a directory with terms to go; `.` stays, `..` goes up, a name goes down, and
the last name is the module. It fails at a term that is none of these, above the
root, or with an id too long. `ModuleId` implements it. The refinement
mapping at its end takes `dir` from what was written (`Reached`) and `rest` from
what was not yet read (`Rest`), behind the slashes that are still being skipped;
a name that is copied is to go until its slash has been written (`TermAt`), and
the loop backwards is past `..` at once. While the pass copies the requiring
module's id and takes its name back, as if the id began with it (`Preparing`),
the walk has not begun: it stands in the module's directory with the request to
go.

### TermConv

Terms and values are trees. A call of `erlang_to_duk` or `duk_to_erlang`, one
element of a compound, and a return are steps; `frames` are the calls that wait
for an element, each with the `slot` of its array or object, and `top` is
`duk_get_top`. A term goes to JavaScript and back, a value to Erlang and back.
Integers have `IntBits` bits, doubles a significand of `Significand`, and texts
are sequences of symbols. A value that holds itself is `loop`; only the depth
limit ends its conversion.

Which lists are texts is `enif_inspect_iolist_as_binary`'s to say, so `IsIolist`
and the bytes `Flat` are constants. So is the set `Convertible` of those terms,
among all `Parts` of terms, that have a JavaScript value: `ConversionAssumption`
says of it that a compound is in it if its elements are and its keys are texts.
`MCTermConv` gives the instances, each by recursion over the term, and says
without a stack what comes back.

### ContextMemory

`step` walks through the constructors; `owned` says of each pointer whether it
is null, live or dangling; `misused` is set when a dangling one is used or freed.
Blocks are addresses; a live block has the size in its header and the room the
system gave it, computed in `size_t` of `SizeMax`. `nif` is what runs under the
lock and makes the engine allocate and free: JavaScript, `gc`, the destruction
of the heap, the destructor. The counters are those of `get_memory_stats`.

## 3. What is checked

Passing runs:

| Run | Question | Instance |
|---|---|---|
| `serial` | If evaluations on a context never overlap and no call stands in a try/catch, are calls, environment terms and the suspended request right, and is what callers see `SyncEval`, through bindings, `send`, timeouts, kills, conversion errors and `destroy_context`? | 2 processes, 2 requests each, programs of up to 3 statements with up to 2 calls; 1.7 million states |
| `shared` | What is left when evaluations overlap freely, resume each other's code and catch sentinels: one process in the heap, nobody's deadline on another's code, indices that follow the code, an answer to every request | 2 processes, 1 request each, every API function, endless loops under a timeout |
| `registry` | Does a call run what its process registered for it, and does its result arrive as what it is? | 2 processes, 2 contexts, 2 registrations by atom and by binary, one name that cannot be read; every way a function may end |
| `bridge` | Are events, calls and callbacks those of the program, whatever native function is inside which, and however often the code is run again? | 7 programs and all programs of 3 statements out of 8; 2 callback names; with and without a handler |
| `section` | Does a deadline end the code it was set for, is a timeout told truly, and is every way out of every NIF balanced? | any sequence of 7 NIFs; timeouts 0, 1 and none; 3 instructions per interrupt, 2 ticks per millisecond, 2 nested tries, 2 arguments |
| `loads` | Is nothing half loaded left in the cache, whatever ends a load; is nothing loaded taken out; do cycles end? | 3 ids, one of them inherited; bodies that require any module, guarded or not, and throw; 3 registrations, a `require/2`, an eval with a call and its replay |
| `resolve` | Does the pass over the bytes do what the terms of an id say, reading only its input? | all ids of up to 4 bytes over 2 letters, dot and slash; a buffer of 12; 2 requires, the second also from inside the first one's module |
| `terms` | Is the value stack balanced on every path; does a term convert whole or not at all; what comes back? | 2119 terms and 243 values, up to 3 levels; 6-bit integers, 3-bit significands |
| `memory` | Are the metrics exact, do sizes never wrap, is every pointer freed exactly once? | 2 blocks, 3-bit sizes, header of 2, 5 allocator calls, 3 API calls |

Each property of each of these runs has a mutant of the model, a plausible bug
at a named line, under which TLC finds it violated.

The properties, by the mistake they would show:

- `OwnCalls`: a process asked to run a function its request did not call;
- `PendingTermsLive`: a pending call or an error read after its environment was
  cleared;
- `SuspensionKept`: a suspended request loses its index, its code or an earlier
  result;
- `ImplementsSyncEval`: a call made twice, skipped, reordered, or a wrong reply;
- `HeapIsExclusive`, `TimerIsOwned`, `IndexFollowsCode`: two processes in one
  heap, a deadline left for another, a result under another call's index;
- `EveryRequestAnswered`: a path that keeps the mutex, or a loop of dispatches;
- `RunsRegistered`: another context's, process's or name's function;
  `ResultsArrive`: a value taken for an error or the reverse;
- `EffectsAsWritten`: an event twice in a run, dropped, out of order or lost with
  a replay, or a replay that leaves other callbacks; `CallsOnce`: a call in data
  or arguments made twice or not at all; `TermsLive`: a message or a call with
  cleared terms;
- `TimeoutIsTrue`: a timeout reported early, or without a deadline;
  `DeadlineIsFinal`: a catch that brings the program back, or code that outruns
  its deadline; `TimedRunEnds`: code that is never interrupted;
  `LeavesNothing`: a slot or a deadline left behind by one of the returns;
- `LoadingIsOnStack`, `SameExports`, `LoadsNest`: the module cache;
- `UnreadIntact`, `AssertionsHold`: a byte read after it was overwritten, `..`
  that takes back too much or too little; `ImplementsPath`: an id that
  leads elsewhere, or fails and should not, or the reverse; `CanonicalIds`: one module
  cached under two ids; `Ends`: a term that is read for ever;
- `WholeOrNothing`: a slot left behind, or an element dropped, by a conversion
  that fails half way, or a put, a get or a step of the enumeration in slots that
  are not its own; `ComesBack`, `KeepsPlain`: a term that comes back as
  another;
- `MetricsAreExact`, `BlocksHold`, `NoMisuse`, `NothingLeaks`: memory.

### Bounds

Two processes are enough for one to disturb the other. Two requests per process
show what one leaves to the next (a dangling `pending_call`, a stale
`resume_code`). Two calls per program are the fewest for which results
accumulate and an index can be wrong by one; a third adds a replay of the same
kind. `HistoryBound` only limits the history `dispatched`. Three registrations
of modules suffice for two that require each other and for one registered again
while it is cached or loading; two registrations of functions, for one process
to register a name again, in another context or in another form, and for two
processes to register the same. Three instructions per interrupt give a counter
that is zero, as at the engine's entry, about to be and not; two ticks per millisecond make the truncation
of the clock visible; `MaxAge` lies past every deadline, and the clock stands
still there, since nothing distinguishes later times. Ids of four bytes have
every combination of two terms and of their slashes, and with a module's id
before them three levels; the buffer of 12 is shorter than the longest of these
inputs, so that both sides of the limit are met. Six-bit integers and three-bit
significands have integers a double cannot hold and the one above the largest.
Three-bit sizes have every case of the overflow test: zero, the largest that
fits, and the ones the header would make wrap. Five allocator calls allow two
blocks to be made, moved and freed. Runs with symmetry check safety only.

### Fairness

`shared` assumes weak fairness of each process' own steps (everything but
starting a request and being killed): the scheduler of the runtime runs every
runnable process, NIFs run to their end, a registered function returns, and a
mutex that is free is given to a waiting process. Since each process makes
finitely many requests, no stronger assumption about the mutex is needed. It
also assumes that the interrupt comes to an endless loop with an armed
deadline, as the engine tests it every so many instructions. Nothing is assumed
of loops without a deadline: endless loops are given to requests with a timeout
only, and none stands after a call.

`section` assumes that the clock goes on and that the thread that holds the lock
executes. `resolve` assumes that the C code runs. `TimedRunEnds` therefore says
what the interrupt achieves, and only up to the end of the protected call.

### Where code and documentation disagree

Each of these runs checks one property taken from the documentation, and TLC
returns a trace of the code that violates it.

| Run | Documentation | Code |
|---|---|---|
| `find_shared` | contexts are thread-safe and can be shared (`README.md:472`) | two overlapping evals exchange the results of their calls (`OwnAnswers` without `SerialUse`) |
| `find_nesting` | the depth limit prevents stack overflow on circular references (`duktape_nif.c:533`) | the value stack's reserve of slots is used up before depth 100; the engine aborts the VM |
| `find_reset` | after a timeout the context can be reused (`README.md:561`) | a deadline that passes before the first instruction of the eval's unprotected reset of `__erlang_results__` throws there, in any eval with a timeout; the engine aborts the VM (`ValidAfterTimeout`) |

The last two were also observed by running the vendored engine with the NIF's
sequence of calls: for `find_reset`, on a new heap with a deadline that has
passed, and the engine asked for the deadline once before it gave up.

Further disagreements show when the constants of a configuration are changed;
the properties are in the modules.

| Change | Property violated | What happens |
|---|---|---|
| `TrampolineShared`, `Outcomes = {"undefined"}` | `EveryRequestAnswered` | a function that returns `undefined`, or a term that does not convert, is dispatched for ever (`README.md:436` lists `undefined` among the values converted) |
| `TrampolineSerial`, `EvalPrograms <- OnlyCaught` | `CatchesErlangErrors` | try/catch around a call catches the sentinel; the function never runs (`README.md:348` says JavaScript can catch its error) |
| `TrampolineSerial`, `EvalPrograms <- OnlyCaught`, then an eval that throws | `OwnCalls` | the dangling `pending_call` makes the later error run the earlier request's function |
| `TrampolineSerial`, `SerialUse = FALSE` | `PendingTermsLive` | an error is read from an environment that another call has cleared |
| `TrampolineSerial`, `EvalPrograms <- OnlyEndless` | `TimedJsIsWatched` | after the first Erlang call the code runs without a deadline (`README.md:551`) |
| `TrampolineSerial` as it is | `NeverBadmatch` | `destroy_context` during the Erlang function crashes the caller with `badmatch` |
| `ModuleLoads`, `Sources <- CallingBodies`, `EvalPrograms <- RequireThenCall` | `OwnAnswers` of `ModuleLoader` | a module that calls as it loads is cached in the replay, and the eval's own call gets the module's result |
| `Events`, a program whose emitted data emits, or whose `log` of an unknown level has a text that emits | `TermsLive` | the inner `emit_event` clears the outer message's terms |
| `Events`, arguments of a call that call, or a log text that calls | `CallsOnce` | the inner call replaces the outer one, or its sentinel becomes the text |
| `Events`, arguments of a call with a log whose text calls | `TermsLive` | the inner call clears the outer one's arguments, and its own sentinel is caught |
| `Events`, arguments of a call that throw | `TermsLive` | the error is taken for the recorded call, whose arguments are an older call's |
| `Registry`, `Names <- BinaryNames`, `Bytes <- SomeBytes`, `KeyAtom <- BinaryKeys`, `BytesOf <- BinaryReads`, `AtomOf <- BinaryLatin1` | `RunsRegistered` | a binary that is not ASCII is registered, with `ok`, under its characters and dispatched under its bytes: `{undefined_function, _}` (`README.md:306`) |
| `Registry`, `"marked"` in `Results` | `ResultsArrive` | a text that begins with `__ERROR__:` is thrown (`guides/erlang-functions.md:59` says that return values are converted) |
| `Registry`, `Hash <- SameHash` | `RunsRegistered` | with equal hashes one context's function is run for another |
| `ContextMemory`, `"pending_env"` in `Failing` | `NoMisuse` | see section 5 |

## 4. What is proved

`TrampolineProofs`, for any processes, programs, outcomes and bounds, shared or
serial use:

- `TypeCorrect`: `Spec => []TypeOK`, by one lemma per group of actions;
- `ExclusiveHeap`: `Spec => []HeapIsExclusive`;
- `OwnedTimer`: `Spec => []TimerIsOwned`;
- `IndexFollows`: `Spec => []IndexFollowsCode`.

The second and third follow from the inductive invariant `HeapInv`, the
conjunction of the first three. Exclusion alone is not inductive in the presence
of the deadline: an armed deadline must be known to belong to the owner of the
lock for the NIFs that do not touch it (send, resume) to be entered only with it
disarmed. The fourth rests on exclusion, so that no other process moves the index
of a pass, and on `CallsBeforeNext`: one statement more is one call more, if it
is one.

With the hypothesis `SerialCalls` (evaluations do not overlap,
no call of theirs stands in a try/catch, and what `send` runs makes no call):

- `CallsAreOwn`: `Spec => []OwnCalls`;
- `TermsStayAlive`: `Spec => []PendingTermsLive`;
- `SuspensionIsKept`: `Spec => SuspensionKept`, an action property.

The three are read off `SerialInv`. To `HeapInv` it adds that one evaluation at
most is under way (`Alone`), that the code which runs and the code kept for the
resume are the request's (`OwnRequest`, `OwnCode`), that a call in hand is the
request's and that no result is stored yet where the next one goes
(`OwnResult`), and that a call is pending only from the sentinel to the return
(`PendingInv`). That last part is what a caught sentinel breaks, and a call in a
callback of `send`: neither resets `pending_call`. The run `find_shared` and the
table above show each hypothesis to be needed.

With the hypothesis `SyncPrograms` (`SerialCalls`; a
function returns a value or raises an error; no throw stands in a try/catch;
only programs run with bindings read variables; the history has room for the
calls of a program):

- `RefinesSyncEval`: `Spec => ImplementsSyncEval`, the implementation of
  `SyncEval`;
- `AnswersAreOwn`: `Spec => []OwnAnswers`.

`SyncInv` says of the one evaluation under way what it has reached. The functions
it has run are the first calls of its program, in order, and all but the last
have returned values (`CallsInOrder`); `__erlang_results__` holds their answers
and nothing else (`Cached`), short of the one being answered (`AnsweredInv`,
`CompletedInv`); a pass has gone past calls and variables only, has read the
answers of just the calls behind it, and has given each statement its own value
(`PassRuns`); an exception means a next call, an error raised by the last
function, a throw of the program or a timeout (`PassThrown`). That a result found
at an index is the answer of the statement that asks for it is
`OneCallPerIndex`: a call is known by the number of calls before it. Each action
is then a step of `SyncEval` or a stutter, one lemma per group of actions; the
dispatch of a call is `SyncEval`'s call, and `NextAtAfterCalls` shows its
statement to be the next one there too. `ResumeNoCode` is shown to be impossible.
`AnswersAreOwn` is proved of the abstract steps.

Each hypothesis is one under which the code does otherwise: `undefined` as a
result is dispatched for ever, a caught sentinel or throw lets the program go on,
and a program without bindings reads those of an earlier request. The length of
the history is a bound of the model.

`ModuleLoaderProofs`, for any ids, sources, code and bounds:

- `LoaderInvariant`: `Spec => []LoaderInv`;
- `TypeCorrect`, `NothingHalfLoaded` (`LoadingIsOnStack`), `CyclesEnd`
  (`LoadsNest`), `CacheIsStable` (`SameExports`).

`LoaderInv` adds to the properties two facts they need: every frame above the
first is a module whose object is in the cache and not yet loaded (`StackInv`),
and no object is cached under two ids (`OneEach`). Without `StackInv` a module
that throws could delete another's entry; without `OneEach` a body that ends
could mark as loaded an entry still loading elsewhere. `CacheIsStable` is an
action property: only `ModuleThrows` and `RequireFails` remove entries, the
first the one of the top frame, which is not loaded, the second one it made.

`ModuleIdProofs`, for any letters, any size of the buffer and any ids:

- `TypeCorrect`, `NoAssertionFails` (`AssertionsHold`), `ReadsOnlyInput`
  (`UnreadIntact`);
- `FollowsPath`: `Spec => ImplementsPath`, the implementation of `ModulePath`;
- `IdsAreCanonical`: `Spec => []CanonicalIds`.

For the first three the invariant `IInv` says that the pointers are in the buffer (`InBuffer`), that
the output lags the input by at least what the next write needs, so that the
part not yet read is still the input up to its NUL (`UnreadIntact`), that the
output has neither NUL nor anything never written (`OutputIsBytes`), and that
every name in it ends in a slash (`TermEnds`), which is what the assertions of
the loop backwards rest on. Reads past the end do not happen because each test
of a byte is made only if the one before it was not the NUL.

For the other two, `PassInv` adds what has been written. Copying the requiring
module's id changes no byte of the buffer, since that id is canonical, and takes
back exactly its name (`PrepareInv`); the name that is copied is the one the rest
of the input begins with, the last byte read still in hand (`NameInv`); and what
was written is a directory, names with one slash behind each, which together
with the rest of a canonical request is that request (`WalkInv`). The three need
each other: that the module's id is canonical is a consequence of `WalkInv` for
the resolution before. Each action is then a step of the walk or a stutter. Where
a name ends and where a directory begins are least and greatest positions; they
exist because `<` is well-founded (`Least`, `Greatest`), which stands in for an
induction.

`EventsProofs`, for any statements, programs, names and levels:

- `TypeCorrect`: `Spec => []TypeOK`, and with it that a call under way has an
  index given out in this run;
- `TermsStayLive`: `Spec => []TermsLive`, with the hypothesis `Tame`.

`FramesInv` says that a run has frames while it is under way, the program at the
bottom, and that each other frame was entered by the statement the frame below
is at. `TameInv` carries the hypothesis up the stack: a frame above one whose
terms an inner event would clear runs only statements that send none, and a
frame above a call only statements that cannot unwind it. `AliveInv` says that
the terms of each message under way and those of the topmost call are alive, and
that a recorded call is under way or has all its terms. A throw is the hard case:
it takes every frame above the next `log` away at once, and the recorded call
must not be among them. The hypothesis is one of the theorem, since
JavaScript need not satisfy it: the table above has an instance without each of
its parts.

`RegistryProofs`, for any processes, contexts, names and registrations:

- `TypeCorrect`;
- `CallsRunRegistered`: if hashes of contexts differ (`HashesDiffer`) and the
  conversions of names agree (`NamesAgree`), `Spec => []RunsRegistered`;
- `AnswersAreFaithful`: if no function returns a text with the mark of errors,
  `Spec => []ResultsArrive`.

The conditions are hypotheses of the theorems and not assumptions of the module,
because the code does not guarantee them: the table above has an instance
without each. The invariant `DictInv` says that the
dictionary and the list of registrations agree wherever a call may still look:
not for the name between `put` and its NIF, and not for a destroyed context,
unless a call to it is in hand. It is needed since a refused registration leaves
the dictionary changed.

`ExecTimeoutProofs`, for any instructions per interrupt, deadlines, depth of try
statements, arguments and ticks:

- `TypeCorrect`, `SectionLeavesNothing` (`LeavesNothing`), `TimeoutsAreTrue`
  (`TimeoutIsTrue`), `DeadlinesAreFinal` (`DeadlineIsFinal`).

The invariant has one part for each: how many slots lie on the value stack at
each place of each NIF (`StackInv`), where a deadline may be armed
(`DeadlineInv`), that the timeout's error is in flight only if the deadline has
passed (`TruthInv`), and that past the deadline every instruction takes one from
the counter, which stays at zero once the interrupt was there, so that every
further instruction throws (`FinalInv`). `FinalInv` uses nothing of the counter
at the engine's entry but its type: no instruction was late before the first.

`TermConvProofs`, for any terms and values, of whatever depth, any widths of
numbers and any depth limit:

- `TypeCorrect`: `Spec => []TypeOK`, and with it that a number which becomes an
  integer fits into 64 bits;
- `ConvertsWholeOrFails`: `Spec => []WholeOrNothing`.

The induction over the depth of a term is one over the steps: `SlotsInv` says
that each frame's object lies where the element of the frame below is expected
(`ElementSlot`), above its key or above enumerator and key, and where `top` is
when a call is about to be made, has returned, or a loop is at its next element.
Every step leaves the conversion in one of these three states (`Settles`).
`WholeInv` says of each frame that its term is convertible if and only if what is
left of it is: what was converted was convertible (`FrameWhole`). A failure at
the bottom of the recursion makes the term of the frame above not convertible,
and so on up to the term that was given.

`ContextMemoryProofs`, for any sizes, header, addresses and bounds:

- `TypeCorrect`: `TypeOK`, and with it that `heap_bytes` and the counts are
  natural numbers and that no size wraps;
- `MetricsExact` (`MetricsAreExact`), `BlocksAreLarge` (`BlocksHold`),
  `CollectedOwnsNothing` (`NothingLeaks`);
- `MembersUsedOnce` (`NoMisuse`), with the hypothesis that the failure of
  `enif_alloc_env` for `pending_env` is not among those considered (section 5
  says what the code does then).

`heap_bytes` is compared with a sum over the live blocks. What the fold of the
community modules computes is proved for finite sets of any size by taking a
minimal finite set for which it would compute something else
(`FiniteSubsetMinimal`), since the induction theorems of the library have an
operator as a parameter that the provers cannot instantiate. The other part of
the invariant, `OwnedInv`, says which pointers are live at each step of the
construction and after its failures.

The assumptions are the named `ASSUME`s of the modules (`TrampolineAssumption`,
`LoaderAssumption`, `ModuleIdAssumption`, `RegistryAssumption`,
`TimeoutAssumption`, `MemoryAssumption`, `EventsAssumption`,
`ConversionAssumption`): types of the constants, distinctness of the special
values, that a `require` names an id, and what makes a term convertible.
TLC evaluates them in every run.

Each invariant was checked with TLC on the instances of section 3 before it was
proved.

### Only model-checked

- `EveryRequestAnswered`, `TimedRunEnds`, `Ends`: liveness is out of the prover's
  reach.
- `ComesBack` and `KeepsPlain` of `TermConv`: what comes back is said by
  recursion over trees in `MCTermConv`, and an induction over trees is out of the
  prover's reach. That `Double` takes the nearest of the doubles is an assumption
  of `MCTermConv` that TLC evaluates (`RoundsToNearest`).
- `EffectsAsWritten` and `CallsOnce` of `Events`: the meaning of programs in
  `MCEvents` is recursive.

## 5. What is left out

- Parsing of arguments: the `badarg` returns before any state is touched.
- The text of errors, logs and values, except where a text decides something
  (the timeout's, the mark of errors, names).
- Failure of `enif_alloc` for `resume_code`, result binaries and the arrays of
  elements.
- In `Trampoline`, JavaScript control flow that depends on values, on globals
  other than the bindings, or on time: a program makes the same calls in each
  pass unless a catch intervenes. `ModuleLoader` is where passes differ.
- In `Registry`, a process killed during a call, evaluations that overlap (see
  `Trampoline`), and a fun that registers functions while it runs.
- In `Events`, a handler process that dies (messages to it are dropped) and
  callbacks that register or remove callbacks; in the run, the programs of the
  table above that violate the properties.
- In `ExecTimeout`, the error that a changed `RangeError.prototype.toString`
  throws in turn. Code that runs after the deadline was stopped, in getters and
  in `toString`, is modelled, and nothing is promised about its length.
- In `ModuleLoader`, the resolution of relative ids (a statement names the
  resolved id; `ModuleId` resolves it), a body that replaces `module.exports` or
  writes to `Duktape.modLoaded`, errors as results of Erlang functions,
  `destroy_context` (see `Trampoline`).
- In `TermConv`, what `duk_put_prop` does for particular keys: `Put` stores the
  element under its key, so a map with the key `__proto__`, which sets the
  prototype instead, or with a key that begins with the byte 0xFF, which the
  engine takes for a hidden symbol and does not enumerate, is outside
  `ComesBack`.
- In `TermConv`, two properties of one object that both hold it: the depth limit
  is reached only after some 2^100 steps.
- In `ContextMemory`, the failure of `enif_alloc_env`: `FailureFrees` has what
  the code does then (the heap and the mutex are destroyed and their pointers
  kept for the destructor), but `Failing` excludes it from the run, since the
  runtime's `enif_alloc_env` aborts instead of returning NULL. A failure of the
  system's allocator, which changes nothing, is a stuttering step.
- Met on the way and not modelled: the example of `cbor_encode` in
  `duktape.erl` encodes `[1,2,3]`, which is a list of bytes and goes over as a
  text; `cbor_encode` encodes outside a protected call, so that an error of the
  encoder has no catcher.

### Not modelled

- The Duktape engine: `duktape.c`, `duktape.h` and `duk_config.h` are some
  106 000 of the repository's 109 600 lines, a vendored interpreter and its
  build configuration. What the NIF relies on is modelled where it is used: the
  interrupt and its counter from the source, exceptions, protected calls,
  getters and the value stack by their effect. A share of covered lines that
  counts the engine stays at one or two per cent for that reason; of the NIF
  about half the lines are mapped, the rest being declarations, argument
  parsing and logging.
- The CBOR codec, which is part of the engine; the NIF's `cbor_decode` is a
  section of `ExecTimeout`.
- NIF loading: straight-line initialisation with no state to check.

## 6. What remains

All modules of section 2 are written and the proofs of section 4 are complete.
Open: `EffectsAsWritten` and `CallsOnce` of `Events` for any program. They
compare each pass with `Meaning`, a recursion over the program that depends on
which calls were answered (the arguments of an answered call are not converted
again); a proof needs an induction over programs.
