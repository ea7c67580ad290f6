# A TLA+ model of cpp_sand_box

The repository is a collection of C++ programs around one idea: a POSIX signal
(a fault, or Ctrl-C) becomes a C++ exception, with a stack trace, that the
function that ran into it catches and reports. This directory models that
mechanism and the data structures the programs are built from, checks the
models with TLC and proves the central invariants with TLAPS.

## Inventory

| Part | Source | State | Operations | What is hard |
|---|---|---|---|---|
| Signal guard | `SystemMacros.hpp`, `SystemUtilities.hpp` | `global_jump_buffer` (a stack of `jmp_buf` per thread), `global_thread_call_stack`, `global_thread_name`, two mutexes, the signal mask and handlers of the process | `BEGIN` (setjmp and push), `END` (pop), the exception after a jump, `REPORT`, `catch_signal`, `init` | handlers that interrupt handlers; `longjmp` out of a handler that may hold a mutex; maps that the macros use without the mutex the handler takes |
| Main program | `main.cpp` | five worker threads | `main`, thread entry points, functions that fault on purpose | faults nested in calls, threads that start together, Ctrl-C at a prompt |
| Vector | `Vector.hpp` | buffer, `v_size`, `v_capacity`, `ctor_initialized` | constructors, copy, move, assignment, modifiers, capacity | two growth rules, arithmetic at capacity 0, ownership of the buffer |
| Cache | `main18_linkedlist.cpp` | doubly linked nodes, map from key to node, `cp` | constructor, `set`, `get`, destructor | pointers to deleted nodes, key 0 of the filler nodes |
| Call stack frame | `CallStackFrame.hpp` | one buffer with three strings, pointers into it | copy, move, assignment | aliasing in self-assignment, ownership |
| Exception | `Exception.hpp` | one buffer with five strings, a signal number, an owned vector of frames | construction, copy, move, assignment | deep copies, self-assignment, what a move leaves |
| Call stack symbols | `SystemUtilities.hpp` | none | `get_call_stack_entries`, `parse_addr_to_line_out` | which frames are kept; an `addr2line` that knows nothing, says nothing or does not run, in a function that is `noexcept` |
| Common utilities | `CommonUtilities.hpp`, `CommonMacros.hpp` | shared indentation counter and buffer, the `struct tm` of the library | `exec`, `INC_INDENT`, `DEC_INDENT`, `init`, `get_local_date_time`, string helpers | a counter shared by threads and cut off by `longjmp`; time stamps read from a shared structure |
| String | `String.hpp` | buffer, length, capacity, the step it grows by; iterators with pointers into them | constructors, append, insert, erase, replace, resize, search, comparison, iterators, streams | index arithmetic, reads behind the buffer, null buffers, a string as its own argument, iterators that outlive their buffer |
| Vector with allocator | `main11_VectorAllocator.cpp` | size, capacity, cells that are constructed or not | `reserve`, `resize`, `push_back`, `operator=`, access, destructor | cells that nobody has constructed |
| User contexts | `main15_ucontext.cpp` | a context and a stack each, `tid`, `n_switchs` | making contexts, `swapcontext`, `uc_link`, freeing | a context may be resumed only once from where it was saved |
| Local date | `main19_get_local_date.cpp` | none | `get_local_date`, `off_time` | a calendar computation with a loop, negative times, two readings of the clock |
| Others | `main2.cpp` ... `main17`, `test01.hpp`, `backward.hpp` | small | samples, earlier versions of the code above; `backward.hpp` is third party | mostly straight-line code |

How they interact: a guarded function of `main.cpp` runs `BEGIN`, its body and
`END`. A fault in the body makes the kernel call `catch_signal` on the same
thread; it writes the thread's call stack (a `Vector` of `CallStackFrame`) into
a global map, takes the innermost saved context of the thread and `longjmp`s to
it; `setjmp` returns again inside `BEGIN`, which builds an `Exception` from the
global maps and the time of day and throws it to the `catch` of the same
function. The functions of `Vector`, `CallStackFrame` and `Exception` begin and
end with the indentation macros; the vector with allocator, the contexts and the
local date are programs of their own.

`PROJECT.json` lists the components with their status, the hazards with the
lines where they bite and the properties that watch them, the runs, the
findings and the map from definitions to source lines.

## Modules

| Module | What it is |
|---|---|
| `SignalGuard` | the guard mechanism: threads, activations, handlers, maps, masks, mutex |
| `MainProgram` | the functions and threads of `main.cpp`, as data for `SignalGuard` |
| `FifoCache` | what the cache promises: a bounded queue of keys and values |
| `LruCache` | the cache as it is, with its nodes in an explicit heap |
| `VectorValues` | what vectors promise: independent sequences |
| `Vector` | vectors with buffers in an explicit heap |
| `ExceptionValues` | what frames and exceptions promise: values |
| `Exceptions` | frames, vectors of frames and exceptions, with their buffers in an explicit heap |
| `StringValues` | what strings promise: texts that change as asked |
| `String` | strings as they are: C strings with a length and a capacity |
| `StringAccess` | `String` with what a caller holds of a string: elements, iterators, a stream that is being read |
| `CallStackSymbols` | the frames of a call stack, from what `backtrace` and `addr2line` say |
| `TimeStamps` | the time stamp of an exception, in several threads at once |
| `Indentation` | the indentation counter and its buffer |
| `VectorAllocator` | a vector that constructs its elements itself |
| `UserContexts` | the ring of `ucontext`s |
| `LocalDate` | a date computed from the clock |
| `SignalGuardProofs`, `SignalGuardQuietProofs`, `VectorProofs`, `LruCacheProofs`, `StringProofs`, `StringAccessProofs`, `ExceptionsProofs` | theorems about the modules they are named after |
| `PartsProofs` | theorems about `UserContexts`, `VectorAllocator`, `TimeStamps`, `Indentation` and `CallStackSymbols` |
| `MC*` | the modules TLC is run on; the `.cfg` files give the constants. `MCParts` runs seven modules that share nothing, one in each behaviour |

Each module also holds, right before the definition it concerns, the slips
(operators commented "Slip") that `PROJECT.json` lists as mutants: variants of
an action with a plausible mistake, which the properties must catch.

### SignalGuard

* `stack[t]` is the call stack of a thread: a sequence of activation records
  (function, program counter, the value `setjmp` returned, the call stack the
  exception carries). A `jmp_buf` is valid while the activation that called
  `setjmp` is active, so a saved context is the *depth* of that activation;
  `LongJmp` cuts the stack to it. A handler is one more activation on top of
  what it interrupts, so nested signals need nothing special.
* `jump[t]` is `global_jump_buffer[thread_id]`. `Begin`/`PushContext` are the
  setjmp and push of `BEGIN`, `End` is the pop of `END`, `TakeContext` the
  top and pop of the handler, `NoContext` the `top()` of an empty `std::stack`,
  which is undefined: a fault inside the handler or garbage.
* `known` and `inserting` describe the three `std::map`s as far as races on
  them go: `operator[]` of a missing key, in `BEGIN` or in the handler, takes two
  steps (enter, link the node), and an access by another thread between them is a
  data race. Its outcomes are those a red-black tree without a lock can show: as if
  serialised, the key is missed, or the structure is corrupted (`Corrupt`, the
  process ends).
* `holder` is `global_jump_mutex`, `blocked[t]` the mask. `Deliver` is the
  kernel: a handler starts with its signal blocked (`sa_mask` is empty,
  `SA_NODEFER` is not set); a fault whose signal is blocked, or a signal before
  `sigaction`, kills the process. `longjmp` does not restore the mask.
* `Symbolise` stands for `get_call_stack_entries`: it succeeds, or `popen`
  fails, `exec` throws, and the process terminates, since nothing catches an
  exception that leaves the handler.

Left out of this module: the text of the call stack (only the depth of its
first entry is kept), output, and the time `sleep_for` takes. A SIGINT is
delivered between two steps of a thread, so one inside `malloc` or a stream is
not seen. `sigprocmask` is the per-thread operation it is on Linux. The fault
is assumed to trap, as it does in the unoptimised build.

### LruCache and FifoCache

Nodes live at addresses; the fields of a deleted node keep their values, so that
using it shows. `PushFront` performs the statements of `set()` in their order,
so that the tail is unlinked through a field of the old head that has just been
changed (with a single node it would be the new head's own; that list has a branch of
its own). A node may
be placed only at `cp + 1` addresses, so freed places are used again at once.
`FifoCache` is the promise: despite the name `LRUCache`, `get()` has its
reordering commented out, so the key inserted first leaves first. The abstract
items are the nodes whose key is not the key 0 of the filler nodes.

### Vector and VectorValues

`heap` maps allocated blocks to elements; a vector is the record of its members.
Writing beyond a block sets `overrun` and ends the behaviour. `Calls` is the set
of members the callers use, so that a run can ask which members are safe
together. Elements behind `v_size` are not tracked; `resize( n )` may show
anything there. The `return` that `insert()` lacks and references into the
vector itself are not modelled.

### Exceptions and ExceptionValues

Both classes copy their strings into one buffer with the same algorithm, and so
share the operators of the first section (`Total`, `Offset`, `Laid`, `Written`). The
heap maps blocks to buffers (a size and the text written at each offset) or to
vectors; an object is the record of its pointers. An operation that reads what
it has deleted sets `dangling` and ends the behaviour: `operator=` clears the
target before it reads the source, and `push_back( v[ i ] )` reallocates first.
Composition: an exception owns a vector, whose frames own buffers; copying goes
down all three levels. The cells of a vector behind its size hold frames that
are still constructed, which `Vector.tla` does not track and this module does.
Texts are members of a small set with a length; an empty one takes a byte and
gives a null pointer. Of the vector only the members that build and read call
stacks are here. `instance_id` numbers objects for debug output only. `New` gives addresses
for the blocks an operation needs; which ones no code asks, so there is one choice.
On a full heap there is none and the operation does not happen, as `new` that
throws is not modelled; the 16 blocks of the run are more than its objects need.

### String and StringValues

A string is the record of its members, its buffer a function from offsets to
bytes. Private members are operators that return the string they leave
(`SetCapacity`, `Put`, `InsertStr`, `ReplaceStr`, ...); a public member is an
action that halts for the first cause in its way or leaves that string. Bytes
behind a buffer that are only read are `junk`, any byte; writing there, a null
pointer, a deleted buffer or a `throw;` without exception set `halt`. Sizes wrap
around at 256 instead of 2^64, so that `npos` and differences of lengths behave
as `size_t` does. `asked` records what the call was to do in the terms of
`std::string` (put this in the place of those characters), and `StringValues`
says that exactly this happens, except that the members that go through
`strlen()` may lose what follows a NUL.

What the code gets wrong is modelled as it is, with `asked` saying "garble":
`s.insert( pos, s )` and `s.replace( pos, len, s )` read characters they have
cleared; `npos` for a part of another string means the end of *this* one, so that
`String( other, 0 )` is empty; `'c' + s` appends the character. A position one behind
the text that `npos` is counted in makes a length of `npos` itself: `_alloc_cstring()`
adds one, allocates nothing, and `_substr()` writes on behind it (`WithPart`); a position
further behind asks for almost all addresses. A text longer than the string makes
`find()` run out of the buffer, which `QueriesSound` says.

### StringAccess

The module EXTENDS `String` with one iterator and one stream. An iterator is
three things in the code: a copy of the buffer pointer, a pointer to the length
(a member of the string, so it moves nowhere), and a position; the record `it`
has all three, and `first` becomes "deleted" when the buffer goes. After a move
or a swap the two pointers lead into different strings. `const_iterator` and
`iterator` have the same code, and so have the reverse ones; the places they lead
to are the operators `Increment` ... `BackBy`, over which `TraversalSound` is
stated for every length. A stream is what is left of it: `StartReading` is the
`clear()` of `operator>>` and `getline`, `NextChar` one turn of their loop. The
end of the stream is not looked for, so that the character that `get()` makes of
it is appended until the memory is full. `ReadingEnds` says both: reading ends if there
is a delimiter, and without one it ends only with the memory. The
comment "at the end and i not equal to 0" at `String.hpp:2470` says the reverse
of the condition below it, which the model follows.

### CallStackSymbols

Texts are sequences of tokens, so that `find()` and `substr()` do what they do,
on what the code looks for. A line of `backtrace_symbols` is one of four kinds, an
answer of `addr2line` one of five, two of which are no answer at all: `exec()`
throws if `popen` fails, and a text without a blank makes `substr()` throw out of
a function that is `noexcept`. The code of gcc and of clang are two branches.
The names of its definitions say what they belong to (`SymbolsInit`, `FindIn`,
`ReturnStack`), as do those of the other parts, since `MCParts` and `PartsProofs` extend
several modules at once.
Demangling, and what the names are, are left out. `SignalGuard` sees all this as
`Symbolise`: the handler goes on, or the process ends.

### TimeStamps

`localtime()` fills in one `struct tm` for all threads, field by field and under a
lock of its own; `strftime()` reads it later and without the lock. Of its fields
the model tells the day from the second, which is enough for them to come from
two calls. `seen[c]` is history: the times of the calls that overlap with that of
`c`. The milliseconds are written without leading zeros, so that 5 ms read as half
a second: the property says for which values they are right.

### Indentation

A thread is in one of the macros, before or after each access of the shared
counter; the two arguments of the `memset` of `DEC_INDENT` are two reads, in
either order, and its length is the whole indentation, not the two bytes that go.
`Abandon` is a `longjmp` out of nested calls, which leaves the counter raised for
good; `ClearBuffer` is `CommonUtilities::init()` of a thread that starts.

### VectorAllocator

A block is a sequence of cells, each `Raw` or a value. `reserve()` moves the
elements and constructs behind the *old capacity*, so that cells between the size
and the old capacity are raw in the new block: the history variable `spare` has them,
and `RawCells` says that they are exactly the raw cells, and that nothing else leads to
the use of raw memory (`push_back()` and `operator=` assign to raw cells). The
destructor's `delete elem` destroys the first cell only; the others leak, which
no later operation sees.

### UserContexts

One thread, so a step lasts from one `swapcontext` to the next. A place in `ucs` is
used up by resuming it. `main` is an engine that makes the contexts, hands over,
and is resumed through `uc_link` when the first `func()` returns; it frees the stacks
of contexts that are still inside `func()`, and never resumes them.

### LocalDate

`get_local_date()` in steps: two readings of the clock, the split into days and
seconds with the division of C, the loop that corrects the year, the search for
the month. A time is a pair of days and seconds, to fit into the integers of TLC.
`DateFound` compares the outcome with a calendar of another make (years from March
on). The milliseconds come from the first reading and the seconds from the second:
from 1970 on the result is still not before the call. Before 1970 `time_point_cast`
rounds towards zero, so that `ms` is zero or negative, which is not the `[0-999]` of the
comment on `TimeStamp`; `DateFound` says what it is. A year that does not fit into an
`int` leaves month and day uninitialised ("unset") and cuts the year, and the time of
the day is right all the same.

## Runs

| Run | Shows |
|---|---|
| `threads` | `main.cpp` with a worker of each kind, one round, one Ctrl-C anywhere. Contexts, mutex and reports are right in every interleaving; masks, contexts and the mutex are right as long as there is no Ctrl-C and no race. Two workers are enough for every race between two threads; main itself is a third thread. |
| `live` | the same program with fair threads and no Ctrl-C: every fault is reported, the program ends. |
| `race` | finding: two threads enter their first guarded functions together and one loses its contexts. |
| `mask` | finding: Ctrl-C before the handler of a fault has unblocked its signal leaves that signal blocked. |
| `cache` | capacities 1 to 3 (one node, head next to tail, a node between) and five keys, key 0 among them: list, map and heap agree and what is found is the value last set (`MapSound`); until somebody sets key 0 no key is lost, the cache implements `FifoCache`, and every capacity evicts. The last answer of `get()` is left out of the states (`VIEW`): no operation reads it. |
| `cache_lost_key` | finding: key 0 can be in the list and not in the map. |
| `vector_values` | two vectors of up to three elements of two values: `Vector` implements `VectorValues`. |
| `vector_memory` | two vectors of up to nine elements (growth changes at 8, `erase` rounds to 4, 8 and 16): ownership of the buffers, and an exact list of the calls that write beyond one. All elements are equal here, since memory does not depend on them, and the two vectors are symmetric. |
| `exceptions` | two exceptions, two frames and a vector of up to two frames, so full and half full, with stale cells: every layout of null, empty and full texts, deep copies of call stacks and their release. The constraint `Small` keeps either the exceptions or the frames and the vector many; frames and exceptions are symmetric. States that differ only in addresses are identified (`VIEW Contents`): no code compares addresses, every member of the view follows the pointers, and the number of blocks tells shared from separate ones. |
| `vector_erase` | finding: `erase` beyond the end writes beyond the buffer. |
| `strings` | two strings under all calls: one of up to four characters, or two of two characters together. Growing steps of 2 and 3 instead of 15 and more give full, half-full and just allocated buffers at these lengths; `replace()` reads behind the buffer from two characters on (the same read in `insert()` needs five, and only happens with buffers that are larger than this bound allows). `asked` and the strings of a halted program are left out of the states (`VIEW Contents`). |
| `parts` | seven modules that share no state, one of them in each behaviour (`PartsNext`), each with the properties of its own. Contexts: up to 3 and 7 switches, more than twice around. Strings: two of up to two characters, streams with and without their delimiter; the constraint `Near` keeps an iterator at a place next to the text, of a string that lives. Vectors: two with 2 cells at first instead of 10, sizes and capacities up to 2 asked for, so up to 4 cells. Dates: around the ends of year and of February in years of every rule, 1600 to 2400, and the ends of the day. Time stamps: two threads over a midnight, with milliseconds of one, two and three digits. Frames: stacks of up to 3 behind one frame of the handler, instead of 3, with every kind of line and answer. Indentation: two threads, 4 calls and a buffer of 10 bytes instead of 150, so that the fourth call can overrun it. |

`threads` and `live` disable the deadlock check because the program really can
stop: `global_jump_mutex` is not recursive, and a signal that hits a handler
between `lock()` and `unlock()` (a Ctrl-C, or the fault that `top()` of an empty
stack causes) waits for its own thread. `NoSelfDeadlock` says that nothing else
does. The undefined `top()` that `race` shows does not need a worker either: Ctrl-C at
the prompt (`main.cpp:493`) finds no context saved. That run has no Ctrl-C, so only
`threads` goes through it, and no property there says that it is harmless.

Fairness: `FairSpec` assumes weak fairness of each thread's own steps, which is
what the scheduler of the operating system gives; key strokes and signals get
none. `Termination` therefore excepts a user who leaves the program at a prompt.
Fairness of the mutex is weak too, but each worker faults a bounded number of
times, so nobody can be passed for ever. Both liveness properties assume that
no data race happens. In `parts` the contexts (`ContextStep`), the loop of `operator>>`
(`Fetch`) and the steps of `off_time` are each the only thread of their program,
which is scheduled again and again; a string is read to the end because the
loop is inside one call, and nothing is assumed of the caller.

Bounds: `Rounds` is 1 instead of 10 (a round leaves the stack and the contexts
as it found them, and `live` checks that it ends), `MaxInterrupts` 1; the
theorems below hold without either.

Accepted, not caught: some properties name a hazard and say how far it goes rather than
that it does not happen. They are a report that another thread's insertion disturbs
(`ReportNamesItsFault` holds until a race), the deadlock that a Ctrl-C in the handler
leads to (`NoSelfDeadlock`), a `popen` that fails in the handler (`FaultLeadsToReport`
has the end of the process as an outcome), a vector that is assigned to itself and loses
its elements (`OwnBuffers` says that no memory is lost), a stream without a delimiter
(`ReadingEnds`) and the two readings of the clock (`DateFound`). The notes of the hazards
in `PROJECT.json` say so one by one.

## Proofs

`SignalGuardProofs` proves for *every* program (`Body`, `Entry`, `Guarded`),
every set of threads and any number of interrupts:

* `TypeCorrect`: `Spec => []TypeOK`;
* `JumpStackIsSound`: `Spec => []JumpStackSound` - every context that a thread
  or a handler could jump to belongs to an activation that is still on the stack
  and inside its guarded body, innermost last;
* `MutexIsSound`: `Spec => []MutexSound` - the mutex is held exactly while one
  activation is between `lock()` and `unlock()`.

The argument is one inductive invariant, `IInv`. `JumpStackSound` is not
inductive as it stands: that a context popped by a handler is above all
remaining ones, that records below the top of the stack are suspended where a
call or a signal can suspend them, and that a handler that has a target sits
above it, are carried along. `MutexSound` needs in addition that the activation
in the critical section is never cut off by a `longjmp`: an inner handler cannot
reach `longjmp` without the mutex, and it cannot get it while an outer one on
the same stack holds it. There is a lemma per action; the lemmas about
`SubSeq`, `Append` and records at a depth come first. The assumptions are the
named `ASSUME`s of `SignalGuard`, which TLC evaluates in every run.

`SignalGuardQuietProofs` adds what holds, for every program, until something
disturbs it:

* `EveryGuardIsArmed`: `Spec => []EveryGuardArmed` - as long as no data race has
  happened, each activation inside its guarded body has a context. The
  inductive invariant (`Ready`) says that it is saved or is the target of a
  handler (`Covered`), and that a handler which interrupts another takes a context
  further out (`OutwardTargets`): what `longjmp` cuts off then holds no target of a
  function that stays;
* `MaskIsSoundWithoutCtrlC`: `Spec => []MaskSoundWithoutCtrlC`. The invariant
  (`Calm`) is that, before the first Ctrl-C, a blocked signal is that of the
  innermost activation, a handler about to unblock it, so that no other signal of
  the thread can be delivered on top of it.

Three more hold for every program that runs into faults only inside guarded bodies,
or below them. That is the hypothesis `FaultsAreGuarded` about the constants; the
programs of the runs satisfy it (the assumption `MainProgramGuardsItsFaults` of
`MCSignalGuard`), and a program with a fault in a function without `BEGIN` and no
guarded caller breaks all three:

* `ReportsNameTheirFaults`: `Spec => []ReportNamesItsFault`, until a data race. The
  invariant
  (`Told`) follows the call stack from the handler that records it (`Recorded`)
  through the jump to the activation that reports it (`Reported`); the hard part is
  that no other handler of the thread can write into the map in between, which needs
  to know what each handler on a stack interrupts (`AnswersAt`);
* `FaultsHaveContexts`: `Spec => []FaultHasContext`, until a Ctrl-C or a data
  race, from the same invariant and `Ready`;
* `NoThreadWaitsForItself`: `Spec => []NoSelfDeadlock`, which excepts races and
  Ctrl-C: without them a stack has at most one handler, on top (`AloneInv`).

`VectorProofs` proves for any finite set of vectors, any sizes, positions and values,
and any set of calls:

* `TypeCorrect`: `Spec => []TypeOK`; `OneBufferEach`: `Spec => []OwnBuffers`;
  `CapacityIsReal`: `Spec => []RoomForSize`;
* `BuffersAreLeftInThreeWays`: `Spec => OverrunCauses`, an action property: a
  capacity of 0 that is doubled, more inserted than doubling makes room for, and an
  erasure beyond the end are the only ways to leave a buffer;
* `VectorsAreSequences`: `Spec => ImplementsValues`, the refinement of
  `VectorValues`, for programs whose calls are among `ListCalls`. These are the
  calls of the run `vector_values`. The others are left out because they break the
  promise: a size given to a constructor or to `resize()` shows cells nobody has
  written, `insert( pos, n, x )` and an erasure beyond the end may leave the buffer,
  and an assignment to itself clears the vector.

The invariant has two halves. `Owned` says that blocks and vectors match one to one;
there are then fewer blocks than names for them, so that `new` finds one (the
pigeonhole principle, from the theorems about cardinalities). `Roomy` says that a
capacity is true as long as nothing has been overrun. Every call changes one vector
in one of four ways (a new buffer, the old one, an exchange of two, nothing), each
with a lemma of its own, about memory and about what it shows. For the capacities
that `erase` rounds to, powers of two are counted as sets of subsets.

`LruCacheProofs` proves for every capacity of at least 1, any keys and values and
any sequence of calls:

* `MapIsSound`: `Spec => []MapSound`; `ListIsSound`: `Spec => []ListSound`;
  `DestructorFreesAll`: `Spec => []AllFreed`; `TypeCorrect`: `Spec => []TypeOK`;
* `EvictsTheOldest`: `Spec => ImplementsFifoCache`, if no caller stores the value -1
  that `get()` returns for a key it does not have (`MCLruCache` assumes it of the
  runs): the history variable could not tell such a key from one never set.

The invariant says that *there is* an enumeration of the live nodes along the
pointers (`Chain`), and each action says how it changes: `set` drops the last and
puts one in front (`Shifts`). What the map says (`Mapped`) then only needs that a
deleted node was the tail. `ListSound` follows `next` with a recursive function
(`Walk`); the enumeration, continued by null pointers, satisfies the equation of
that function, and nothing else does (a smallest place where two solutions differ
cannot exist), so the walk is the enumeration. For the refinement a prefix of
it is the queue (`Filled`): its nodes are in the map, those behind it are the nodes
of the constructor.

`StringProofs` proves for any number of strings, any texts and sizes and any growing
step that is not zero:

* `TypeCorrect`: `Spec => []TypeOK`; `TailIsZero`: `Spec => []ZeroTail`;
* `HaltsAreExplained`: `Spec => HaltCauses`, an action property: each memory error has
  one of the causes that it names. These are a null buffer of an empty string, an own
  argument of a string that must grow, and `npos` from a position behind the text that
  it is counted in, whichever call is given it;
* `StringsAreTexts`: `Spec => ImplementsStringValues`, the refinement of `StringValues`;
* `QueriesAreSound`: `Spec => []QueriesSound`.

The invariant says of each string that lives (`Settled`) that its members have their
types, that the bytes behind its text are NUL, and one thing that neither property says:
the step a buffer grows by is at least `IncreaseBy`, without which `_increaseCapacity()`
would leave no room for the terminator. What only the bounds of the model say is apart
(`Limited`), since `StringAccess` changes strings without it. Each
private member has a lemma: from a string like that (`Sound`) it makes another, of
which the lemma says the text. A call then does one of three things (`Does`): it edits
the text as asked, it leaves a text that depends on the memory, or it halts; that the
invariant holds, what ends a program and the refinement follow from that, call by call.
In the searches, the work is in what lies behind the text: `find()` and `rfind()`
compare bytes there, and a match that needs one of them would need a NUL, which no
pattern contains. That a C string ends at the same place in a text and in the buffer
that holds it (`CStringOfMore`) makes the comparison right. `WidthAssumption` says that
an `int` holds every length, as `rfind()` and `find_last_of()` suppose when they count
down in one; with the words of 8 bits that the model has, these are texts of up to 125
characters.

`StringAccessProofs` proves, for any number of strings, any texts, any streams and any
steps of an iterator:

* `IteratorsAreKept`: `AccessSpec => IteratorsKept`, an action property of every call of
  `String` and of the calls that go through an iterator or a stream;
* `TraversalIsSound`: `AccessSpec => []TraversalSound`, for texts of every length that
  `WidthAssumption` allows.

The invariant (`AccessInv`) adds to that of the strings that an iterator whose buffer
was not deleted points into a string that has one (`Points`), and that a stream is read
into a string that exists (`FillsOne`). For the first theorem, each private member and
then each call is followed once more, for what it does to the capacity (`Spared`): a
string that has a buffer keeps one, and it is of the same capacity, unless the new text
does not leave a place of the old one free, or the text had a NUL in it, or nothing but
the capacity changes. That a text without a NUL loses nothing on its way through
`strlen()` (`PlainEnd`) is what excludes a text that first grows and then shrinks. The
second is about recursive functions: the sequence of places that the theorem names
satisfies the equation, and a least place where another solution differs cannot exist.
Of the constants they assume `AccessAssumption` (streams hold bytes, and no string has
one of the names for none), which the run `parts` evaluates for its instance.

`ExceptionsProofs` proves for any number of frames, vectors and exceptions, any texts
with their lengths and any signals:

* `TypeCorrect`: `Spec => []TypeOK`; `TextsAreOwned`: `Spec => []OwnTexts`;
  `FieldsApartHolds`: `Spec => []FieldsApart`;
* `OnlySelfDanglesHolds`: `Spec => []OnlySelfDangles`, with `IInv` the reason that no
  other call reads what has been deleted;
* `ExceptionsAreValues`: `Spec => ImplementsExceptionValues`, the refinement of
  `ExceptionValues`, for all calls.

The properties are not inductive: that a block has one owner does not say that the
owner's pointers lead to texts, nor that a vector on the heap is not a buffer. `IInv`
says of every variable that it is good (`GoodAs`: its pointers, if any, lead into live
blocks laid out as `_copy_values()` lays them out) and owns blocks nobody else owns, and
of every block that somebody owns it (`Sound`). What a variable owns is found by
following pointers, two levels down for an exception. An operation is a change of one
or two variables that exchanges the blocks they own for others (`Exchanged`); all others
then stay good and show what they did (`ChangeIsSound`). One lemma per action
says that it is such a change and which step of `ExceptionValues` it is (`Agrees`). That
the fields of a buffer lie apart, and that what is read there is what was written, is
proved of sums of any number of lengths by a least counterexample.

`PartsProofs` is about modules that share nothing. For any number of contexts and
switches it proves `TurnsGoAround` (`RoundRobin`) and `EndIsComplete` (a process that
has ended has made every switch and freed every stack). The inductive invariant
(`RingInv`) is one conjunct per phase: making, switching, freeing; while switching, all
contexts but the running one can be resumed, and those before `tid` are one turn ahead.

`StampsAreOfTheirCalls` holds for any number of threads and any course of the clock: the
shared fields, while a call relies on them, and those it has copied are times that it
has seen (`FieldsSeen`), because calls under way have seen each other (`Overlaps`).
`CellsAreConstructed` holds for all sizes: `RawCells` with the types of the members
and no more elements than cells.

`IndentationIsSound` (`IndentSound`) holds for any number of threads and calls, any
indentation and any buffer. `IndentInv` adds what a thread relies on between the
accesses of a macro: the calls that hold an indentation or are about to (`Calls`,
counted as cardinalities of sets) are at most `peak`, the offset a thread has read is
that of one of them, and, as long as no two threads have met in a macro, it is the
counter, and the buffer shows the counter less or plus what the macro still has to do
(`Shown`).

`FramesAreSound` (`FramesSound`) holds for stacks of any depth behind any number of the
handler's own frames. Eight lemmas run the code of the two compilers through the
four kinds of lines, three the parser through the answers, token by token: `find()` and
`substr()` are characterised once (`FindIs`, `SubstrIs`, and that a text that has no
token gives `npos`). `SymbolsInv` then says that the kept lines passed so far have their
frames, that none of them had an answer without a blank, and why the loop has ended.

The assumptions of the parts (`ArgumentAssumption`, `ClockAssumption`,
`CellsAssumption`, `IndentAssumption`, `StackAssumption`) are evaluated by the run
`parts`.

Assumptions on constants are the named `ASSUME`s of the modules (`VectorsAssumption`:
finitely many vectors; `SizeAssumption`, `CapacityAssumption`, `AddressAssumption`,
...), which TLC evaluates in the runs. Facts about recursive functions and about
all numbers are proved by a least counterexample (`Minimum`, from the well-founded
order of the numbers), since the provers cannot use the induction theorems
themselves.

Only model-checked: what the runs check of liveness (`FaultLeadsToReport`,
`Termination`, `EngineResumes`, `ReadingEnds`, `DateFound`), which is out of the reach of
the prover. Every other property of a passing run is a theorem.

## Not modelled

* `backward.hpp`: third party, included nowhere in the built program.
* `main2.cpp` to `main4.cpp` and `test01.hpp`: earlier versions of the signal guard
  and of the stack traces; the `setjmp` sample and the samples that only print.
* `replace`, `replace_all` and `get_thread_id` of `CommonUtilities`: string handling
  without state. The conversions among the overloads of `String`, and `operator<<`.
* A capacity of 0 of the cache, `pop_back()` of an empty vector, negative arguments
  of `main15`: the callers of the repository do none of it.
* A fault inside `malloc` or a stream, which the handler would enter again, and the
  `return` that some branches of `insert`, `emplace` and `erase` of `Vector` lack:
  what a compiler makes of either cannot be told from the source.

## Plan

1. Done: the signal guard, the cache, the vector, exceptions, strings, and the
   parts that stand alone; the theorems above.
2. Done: the theorems about masks, guards, reports and deadlock of the signal guard;
   ownership, capacity and the refinement of `Vector`; the list and the
   refinement of the cache.
3. Done: type, terminator, memory errors, refinement and searches of `String`.
4. Done: all properties of `Exceptions` and its refinement; the frames of
   `CallStackSymbols`; the indentation.
5. Done: the iterators of `StringAccess`. What is left to prove is liveness, which the
   prover does not reach.
