# Verifying QuinLang

TLA+ specifications of the parts of QuinLang whose correctness depends on order,
interleaving or exact bookkeeping, the TLC configurations that check them, and
TLAPS proofs of what holds for every value of the constants. Everything is
translated from the code under `src/`; `PROJECT.json` maps every definition to
the lines it stands for.

## 1. The system

QuinLang is a small typed language compiled to bytecode for QuinVM, a stack
machine with a compacting garbage collector, and a debugger that an editor
drives over the Debug Adapter Protocol (DAP).

| component | where | state it keeps | operations | what makes it correct |
| --- | --- | --- | --- | --- |
| DAP session | `dap/session.py`, `dap/values.py` | suspension, disconnecting, ended, running, started, the program's thread, the Debugger, faulted, handles | one handler per request, `_on_stop`, `_run_program`, `_end`, `_kill_program`, `_wait_for_program` | the two threads meet only in the hand-off; the end is reported once and rightly; a disconnect, a resume and a pause take effect |
| DAP breakpoints | `dap/session.py` | requested breakpoints, their ids, where they landed, ids per breakpoint | `setBreakpoints`, `setFunctionBreakpoints`, rebuild | a stop names exactly the client's breakpoints that are there; the client knows where each one landed |
| DAP framing | `dap/protocol.py` | read buffer, sequence number, write lock | `read`, `write` | frames whole and numbered in order, from any chunking |
| Debugger | `runtime/debugger.py` | mode, line and depth of the last resume, breakpoints, pause flag | `_on_instruction`, `resume`, `pause`, `run`, the breakpoint table | stops where the mode says, and nowhere else |
| command-line debugger | `compiler/debug.py` | selected frame, last command, how the session ended | prompt commands | `finish` leaves the frame the user selected; a fault is never forgotten |
| heap and collector | `runtime/vm.py` | heap, heap_ptr, operand stack with reference tags, frames, literals, variants | allocation, `collect`, every instruction that moves a reference | a program cannot tell that objects move or are collected |
| calls | `runtime/vm.py` | call stack, locals, frame_base, pc | `CALL`, `RET` | each frame finds its slots and operands as it left them |
| arithmetic, strings, local memory | `runtime/vm.py` | operand stack | one instruction each | 16-bit wrap, signs, bounds |
| program I/O | `runtime/program_io.py` | last file error | file instructions | a reason is never stale |
| type checker | `compiler/sema.py` | scopes, tables of functions, structs and enums | `analyze` | what it accepts has a meaning, and the machine gives it that meaning |
| code generator | `compiler/codegen_vm.py` | open scopes and loops, code, marks | one emitter per node | every way out of a scope releases its references; the stack maps are exact |
| include resolver | `compiler/resolver.py` | files seen, names defined | `resolve` | each file once, dependencies first, no name twice |
| `.qlc` files | `compiler/serialize.py` | none | `dumps`, `loads` | what is written is what is read, or nothing is |
| command | `compiler/driver_vm.py`, `compiler/pipeline.py` | none beyond the disk | compile, load, `-o`, `--debug`, run | the exit status is true |
| containers | `std/*.ql` | arrays, lengths, tombstones | library functions | a map is a map |
| lexer, parser | `compiler/` | none that outlives a run | pure passes | |

How they interact: the front end (`lexer -> resolver -> sema -> codegen`) calls
downwards and shares nothing. The VM calls a hook before each instruction; the
Debugger is that hook and calls `on_stop`, in which a front end blocks. Under
DAP the VM, the hook and `on_stop` run on the program's thread, and requests
are served on another; they share the session's fields under one condition, the
Debugger's pause flag and its breakpoint table without one.

What is hard here: the two threads of the session, and a client that may ask
anything at any time, or vanish; a collector that may run inside any allocation
and must find and rewrite every reference, including those on the operand stack
and in suspended frames; a compiler whose stack maps, scopes and jumps the
collector takes on trust; stepping, which is defined by comparing positions; a
breakpoint table rebuilt under a running program; files that may be cut off at
any byte; probing past tombstones.
`PROJECT.json` lists each hazard with its line and the properties that cover it.

## 2. Modules

| module | what it is | models |
| --- | --- | --- |
| `ClientLifecycle` | abstract | what the adapter promises a client about one program |
| `DapSession` | detailed, implements `ClientLifecycle` | the session: the request loop and the program's thread |
| `DapSessionProofs` | proofs | types, the end reported once, and what is reported at the end |
| `DapPatientProofs` | proofs, on the above | what a patient client may rely on, and that the session implements `ClientLifecycle` |
| `ManagedHeap` | abstract | the memory a program believes it has: objects with identities, no addresses, no collector |
| `QuinHeap` | detailed, implements `ManagedHeap` | the heap, the roots, the collector, and the instructions that touch references |
| `QuinHeapProofs` | proofs | theorems about `QuinHeap` |
| `QuinHeapRefinement` | proofs, on the above | that `QuinHeap` implements `ManagedHeap` |
| `MCQuinHeap` | model checking | the small programs `QuinHeap` is checked with |
| `FiniteMap` | abstract | what `std/map.ql` promises: a finite map, each call answered once |
| `HashMap` | detailed, implements `FiniteMap` | the table: probes, tombstones, growth, iteration |
| `HashMapProofs` | proofs | theorems about `HashMap` |
| `HashMapRefinement` | proofs | `HashMap` implements `FiniteMap`; an iteration meets each entry once |
| `MCHashMap` | model checking | the keys, hashes and tables `HashMap` is checked with |
| `Sema` | component | the type checker: from a syntax tree to a typed tree, or a refusal |
| `Meaning` | abstract | what a typed program means, without slots, words, stack or jumps |
| `CodeGen` | component | the code generator: from a typed tree to instructions, stack maps and marks |
| `QuinVM` | component | the interpreter's loop on those instructions |
| `CompiledProgram` | composes the four | source to behaviour, compared with `Meaning` |
| `MCCompiledProgram` | model checking | the programs it is checked on |
| `Debugger` | component | the hook, stepping and the table of breakpoints |
| `CommandLine` | component, on `Debugger` | the debugger's prompt |
| `AdapterBreakpoints` | component, on `Debugger` | the adapter's breakpoints and their rebuild |
| `Debugging` | composes the two | a program under the debugger, behind either front end |
| `Resolver` | component | includes |
| `BytecodeFile` | component | the `.qlc` format, written and read byte by byte |
| `Toolchain` | composes the last three | the command over a disk |
| `MCDebugging` | model checking | the programs, requests and disks `Toolchain` is checked with |
| `DebuggerProofs` | proofs | theorems about `Debugging`: types, the tables, stepping |
| `AdapterProofs` | proofs, on `DebuggerProofs` | theorems about `Debugging`: the adapter's breakpoints, and what a stop says |

### DapSession

Two processes. `loop` is the thread in `serve()`: `loop.at` says where it is,
the other fields are the locals of the handler it is in. `vm` is the program's
thread, from `_run_program` through `Debugger.run` and the hook to `_on_stop`.
The other variables are the session's fields under their own names, plus
`paused` (the Debuggers whose pause flag is set), `handles` (does an entry name
the current stop or an earlier state), `open` (does the transport still carry
anything) and three that record what the client has been told.

A block under `with self._condition` is one action; so is a stretch that
touches only the thread's own locals. Taking the condition, reading or setting a
flag outside it, and each message are actions of their own: this is what lets
the two threads interleave as finely as the code does. A handler that touches
shared state twice is therefore several actions (`OnResume`, `ResumeReply`,
`Release`), strung together by `loop.at`; none can be skipped.

The debugged program is arbitrary: at each instruction it may go on, stop at a
breakpoint or step, print, fault, finish, break the adapter, or never come back
from the instruction (`ExecStuck`). Joins may give up (`KillJoin`, `WaitJoin`
are always enabled): five seconds are not modelled, so both outcomes always are.
A write to a transport the client closed fails (`Sending`). After `serve()`
returns the process exits and takes a daemon thread with it (`ProcessExit`).

Which breakpoint was hit, what a frame contains and how a value is shown are
left out; a handle is reduced to whether it names the stop in place.

### QuinHeap and ManagedHeap

`heap` is an array of words where the code has bytes: null is 0, `HEAP_START` is
1, a header is two words. Nothing in the collector depends on single bytes
except a string's padding, which is why sizes in bytes are rounded up (`HalfUp`)
as `_payload_size` does. `stack` joins `stack` and `stack_is_ref`; `frames` joins
`call_stack` and the running frame, innermost last. `Collected` composes the
mark (`Marked`), the plan (`Forward`), the rewriting of references (`Moved`) and
the slide (`CollectedHeap`). `Reserve` is `_reserve`: at once, after a
collection, or failing after a collection. Operands an instruction has popped
are gone when it allocates, as in the code. An instruction that takes a constant
count or size from the stack is joined with the push of it.

A program is any sequence of instructions a typed program may contain:
`Storable` and `Is` stand for the type checker, which only lets references and
null into reference slots, and dereferences values of the right kind. Everything
else is any order: any local, any field, a collection at any time.

`Reachable` defines, without the collector's walk, what the program can reach:
the least set of blocks that the roots point into and that is closed under
pointing. `CollectionIsExact` compares the heap with it after every collection
(`Collects`), whether it freed anything or not and whether or not an allocation
has filled the space again; requires that no allocation be refused that fits
beside what is reachable (`RefusesTooSoon`, which `ManagedHeap`, where any
allocation may fail, cannot say); and, since a `gc()` that frees nothing changes
nothing and so is no step, that wherever it would free nothing everything is
reachable. A `gc()` that never collects at all is a stutter, which no property of
steps can tell from a program that does not call it; the collections that make
room for an allocation can be told.

`ids` is a ghost that gives each live block an identity. Through it the state is
mapped to `ManagedHeap` (`Value` turns an address into an object and an offset),
and `ManagedSpec` says that every instruction is one step there: the collector
may forget what cannot be reached (what it keeps holds the roots' objects and is
closed under references), and may not otherwise be noticed.

### HashMap and FiniteMap

`state`, `keys`, `values`, `len`, `dead` and `hash` are the fields of `Map`;
`slots` is `mask + 1`. One thread runs, so what interleaves is not calls but
their parts with the invariants of the table: `at` says whether a probe, a
growth, or a probe within a growth (`rehouse`) is under way, `i` and `reuse` are
the locals of that probe, and `old` holds the arrays `map_grow` is emptying.
A probe looks at one slot per step. `map_grow` calls `map_set`, which looks at
the load and could grow again; `RehouseOld` has no such branch, and the model
would deadlock if it were ever needed (`AlwaysAnEmptySlot` states it). The hash
is any function from keys to natural numbers, since the caller supplies it.

A `map_foreach` is open between its calls of the body (`each`), and the body may
make any call on the same map except another `map_foreach`. The ghost `met`
counts, for each key that has been in the same table since the iteration began,
how often it was visited.

`Contents` is the map a table stands for: its used slots, and during a growth
also what is still waiting in the old arrays. `FiniteMapSpec` says that under it
each call takes effect at one moment, and no other step changes anything.

### CompiledProgram: Sema, CodeGen, QuinVM and Meaning

A program is a syntax tree. `AnalyzeProgram` returns the same tree with what the
code keeps in tables by `id(node)` written into the nodes (types, bindings, the
references of each scope), or refuses. `Generate` lowers it: `g` is the
generator's state, and each emitter is an operator from one such state to the
next, so loops, open scopes, jumps patched later and source marks are built in
the code's order. `QuinVM` runs the result, one instruction a step, with words
of 16 bits, the tag of each operand, frames, and the answers of the file system
chosen anew at each question.

`Meaning` is the abstract specification of the three together: nested scopes of
named variables, values of the language's types, statements that end normally
or by `break`, `continue`, `return` or a fault. `Behaviours` are the outputs and
ends a text may have for each sequence of answers, and `OutputAsMeant` says that
whatever the compiled program writes and ends with is one of them. A program
that the checker should have refused has no meaning (`stuck`), so accepting one
is also a violation. Two fields of an instruction are ghosts: `by`, the line of
the node it came from, and `live`, the reference slots open at a statement's
start.

Objects live in a table and do not move here; that moving them is invisible is
what `QuinHeap` shows, and it rests on `RootsExact` and `ScopesReleased`, which
are checked here of the code that the compiler really emits. The bits of a float
are abstracted to an injection into two words, its arithmetic to integers.

A built-in function named as a value is held by a function that calls it,
generated once, at its first use, and added after the program's own
(`FirstUses`, `BuiltinWrapper`).

The language is the one without generics: no type parameters, `Array<T>`,
`heapptr`, `println` or its variants, and of the built-in functions the file,
string, memory and conversion functions the programs use. `vm_asm` has all the
instructions but `cmp_ne`, `cmp_le`, `cmp_gt` and `cmp_ge`. The warning about an
arm after `_` is left out.

Met on the way, and not checked by a run:

- Two kinds of accepted program put an address where the stack map knows of
  none, or a number where it expects one, although `README.md:914` of the
  repository says that every reference "is known exactly" and `:921` that one
  "can never be converted to an integer". A `vm_asm` block may `load_local` and
  `store_local` a reference (`codegen_vm.py:626-647` refuses only arrays and
  floats), and `memcpy` or `memset` may run past its array onto its neighbours
  (`SYNTAX.md:787` admits it). `RootsExact` excludes both. The first is an
  antecedent of it, `MovesReference`, worked out for each program; one program
  of the table does move a reference, and breaks `RootsExact` where the
  antecedent is left out. No program of the table is of the second kind: what it
  would read and write is a matter of slots, and `Meaning` has none.
- `<` and its relatives accept two enum references (`sema.py:1540-1549`) and
  compare addresses.
- `array_push` and `array_pop` are typed by name even where a variable has that
  name; every other built-in can be shadowed.

### Debugging: Debugger, CommandLine and AdapterBreakpoints

`Debugger` has the fields of the class under their own names: `breakpoints`,
`by_pc`, `next_id`, `mode`, `from_line`, `from_depth`, `paused`. `Laid` works out
once what `SourceMap.lookup` and `_function_at` find for each instruction. The
hook is three steps (`HookPause`, `PauseClear`, `HookTable`), because the pause
flag may be set and the tables changed between them. `Exec` looks only at what
an instruction does to control. `CommandLine` and `AdapterBreakpoints` each say
what happens between `stopping` and the resume: a prompt on the program's own
thread, or requests served on another. `Debugging` takes either.

`AdapterBreakpoints` rebuilds the table as `_rebuild_breakpoints` does, a step
for each thing the program's thread can see: cleared, ids forgotten, each record
resolved and then noted, and the events and the reply sent. `told` is what the
client has been told of each of its breakpoints. Ghosts: `asked` is what the
user asked for, as against what the debugger compares with, `low` the fewest
calls in progress since then, `selected` the frame the user was last told of,
`owed` a pause asked for and not answered, `calm` that the table looked up was
not being rebuilt.

`StepsEndWhereAsked` defines where a step ends by activations: the chosen one
has just returned, or is still there on a new line. The code compares depths
and lines; the two agree because no instruction changes the depth by more than
one and the hook sees each.

Met on the way:

- A breakpoint on the line of a `for` stops once, since its lowest instruction
  is the initialisation; `bytecode.py:223-228` says it "stops on every pass". On
  a `while` it does.
- A line of a generic function has one instruction per instantiation, and the
  breakpoint is set in the first only.
- `break` on a place whose breakpoint is disabled answers as if it had set one;
  it stays disabled.
- A stop that comes while the table is being rebuilt may name ids the client has
  not been told, or none.
- A pause accepted just before the program stops by itself makes the next resume
  stop at once (`session.py:569`).
- The entry of a function with an empty body has no mark, so its line is that of
  the end of the function before it.

### Toolchain: Resolver and BytecodeFile

`disk` maps paths to source files (includes, and the names they define) or to
bytes. `Command` is one run of the driver: what a file is is decided by
its first bytes, then it is compiled or loaded, written with `-o`, debugged or
run; the next command finds the disk as this one left it. A write may stop at
any byte. `Resolver` is the depth-first walk with canonical paths, compared in
`ResolvedAsIncluded` with a definition that does not walk: the set of files
reachable, and the order required of direct includes that are in no cycle.
`BytecodeFile` writes and reads every section of a `.qlc` file as sequences of
bytes; `RunsWhatWasCompiled` says what a loaded program must be.

`--debug` starts the session of `Debugging`, whose end gives the exit status; a
plain run ends in any way it might. `Compiled` stands for checker and code
generator, which `CompiledProgram` models, and the adapter's `Launch` chooses
among the programs without going through the disk. UTF-8 is a table of the texts
that occur, opcodes the real numbers of those that occur. Symbolic links, counts
of 2^32 and operands too large for the format are left out.

Met on the way: a failed `-o` write is an uncaught `OSError`; a `.qlc` cut down
to nothing is read as an empty source program, and refused for having no `main`;
through a cycle, a file may come before a file that it depends on.

## 3. Runs

| run | bounds | checks | shows |
| --- | --- | --- | --- |
| `DapSession` | one launch; requests, stops and instructions unbounded | `TypeOK`, `EndReportedOnce`, `FaultExitCode`, `NoStopAfterEnd`, `DisconnectStopsProgram`, `SessionEnds`, `ResumeTakesEffect`, `PauseStops` | with any client, including one that does not wait for anything, the end is reported properly and every control request works |
| `DapSession_patient` | the same, and a client that waits for `stopped` after a resume | `InspectionParked`, `HandlesCurrent`, `FaultNotResumed`, `LifecycleSpec` | such a client only ever sees a parked program and current handles, never resumes a fault, and sees a behaviour of `ClientLifecycle` |
| `DapSession_inspect` | one launch | `InspectionParked` is violated | finding 1 |
| `DapSession_fault` | one launch | `FaultNotResumed` is violated | finding 2 |
| `DapSession_second_launch` | two launches | `DisconnectStopsProgram` is violated | finding 3 |
| `QuinHeap` | five programs, heaps of 8 to 13 words, up to 3 operands, 2 frames | `TypeOK`, `HeapParseable`, `ReferencesHeld`, `CollectionIsExact`, `PermanentsStay`, `ManagedSpec` | collection is invisible, complete and leaves the heap in order, no reference dangles, and no allocation fails that would fit beside what is reachable |
| `QuinHeap_past_end` | one program with pointers to the end of a block | `ManagedSpec` is violated | finding 4 |
| `HashMap` | four keys, two values, tables of 4 and 8 slots, three hashes | `TypeOK`, `AlwaysAnEmptySlot`, `CountsExact`, `EachEntryOnce`, `ProbesEnd`, `FiniteMapSpec` | the map is a map, and no call on it runs for ever |
| `CompiledProgram` | 1879 programs, three answers of the file system | `TypeOK`, `OutputAsMeant`, `ScopesReleased`, `StatementsBalanced`, `RootsExact`, `PositionsTrue`, `NeverRunsOff`, `WarningIsTrue` | what is compiled does what its text means, and the collector and the debugger may trust what the compiler tells them |
| `CompiledProgram_shadowed_panic` | two programs | `NeverRunsOff` is violated | finding 5 |
| `Debugging` | two programs, 3 calls deep; at the prompt 2 breakpoints; in the adapter 2 breakpoint requests and 2 launches; 14 disks, 2 commands, 1 write | `TypeOK`, `TablesAgree`, `StepsEndWhereAsked`, `ResolvedAsIncluded`, `BreakpointsHonoured`, `StopsAreTrue`, `RunsWhatWasCompiled`, `StatusTruthful` | breakpoints are where the client was told, steps end where they were asked to, what runs is what was compiled, and the exit status is true |
| `Debugging_fault_line` | the same | `FaultShownWhereItIs` is violated | finding 6 |

Why the bounds are enough. The session has no counters: a client's history
matters only through the variables, so with one launch the state space is the
whole of it (a second launch needs two Debuggers and no more: which of them the
program runs under is all that counts). The heaps are chosen so that three
linked blocks exactly fill one, a collection in the middle of a construction
is forced, survivors slide over holes of several sizes, blocks form cycles,
an integer has the value of an address, and a call is in progress while a
collection moves what its caller holds. Each program isolates one family of
instructions; a larger heap repeats the same situations with more blocks.

The map's tables begin at 4 slots where the code has 8 (`Smallest`); the load
factor, the masking and the growth are the code's, and the theorems hold for
every size. Three entries fill the small table to its limit, so the fourth key
makes it grow with all the others alive. Any growth may instead find no room,
since the rest of the heap is not the map's. All keys share the small table's last slot, so
probes wrap around; in the larger one they share a slot, or run into each
other's chains.

The programs of `CompiledProgram` are families. Every statement that has a body
is nested in every other, inside a loop, three deep, with a reference declared
in each scope, and each way out (`break`, `continue`, `return`, none) taken from
the innermost: every order in which scopes and loops three deep can be left. Each
operator is applied to each pair of ten operands at the edges of its range, which
are also where signed and unsigned words, shifts and division part. Arrays are
indexed, pushed and popped around both ends, copies overlap both ways; a `match`
has each variant and null for its subject; suspects are programs the checker
must judge; built-in functions are values in variables and arguments, and called
there. Three answers let a loop go round twice and end either way.

The two programs of `Debugging` recurse, loop on one line, call a generic
function in two instantiations from another file, and may fault; calls are
followed three deep, which is a step's frame, one it calls, and one that calls.
Two breakpoints can be at one place, or one record can move away from another.
Two launches replace a Debugger that has records. The disks hold the smallest
program, a cycle with a diamond and several spellings of a path, and each way a
file can be missing, unreadable, in conflict or of another build. Two commands
write a file and run it, and the one write may be over a file that was there.

Four runs look at part of the state only (`VIEW`). `QuinHeap` leaves out the
ghost identities, which are names: two states that differ in them alone have the
same addresses and words. `HashMap` leaves out what the last call returned and
what lies in slots not in use, which nothing reads, and takes keys that hash
alike as interchangeable (`SYMMETRY`). `CompiledProgram` names the loaded
program instead of spelling it out. `Debugging` leaves out what a step was
relative to when none is being carried out, how the session was set up once the
program has begun, and the disk once a debug session has. These runs check only
invariants and step properties, and every step TLC generates is checked.

Deadlock is checked in every run; `Finished`, `Over` and `Done` are where the
system really stops, or the model's bounds end.

### Fairness

`FairSpec` assumes that each thread is scheduled (`WF` on the request loop's own
steps and on the program thread's steps), which the operating system and the
interpreter provide. It does not assume that the client sends anything, that a
join waits long enough, that a program ever finishes, or that the process exits.
A thread blocked on the condition has no enabled step and is owed none; what
frees it is a step of the other thread. `wait()` is modelled through its loop
condition, so a wakeup without cause changes nothing.

### Findings

1. `_require_suspended` promises that inspection "is refused rather than raced",
   but the check and the reads are in different critical sections, and an
   accepted resume leaves the suspension in place until the program's thread
   wakes. Continue followed at once by an inspection is answered from a running
   program; the handles it makes name a state the program has left.
2. Two resumes sent for one stop are both accepted; the second is applied to
   whatever stop is in place later, also to the stop for a fault, which
   `_refuse_resume` exists to prevent.
3. `_kill_program` pauses the session's current Debugger. After a second launch
   the program runs under an earlier one and is never reached.
4. A `heapptr` moved to the end of its block belongs to no block there: the
   collector neither keeps the block for it nor moves it along, although "a
   `heapptr` is rewritten to follow its object".
5. `_always_returns` takes every call of the name `panic` for the built-in, which
   does not come back. A variable or parameter of that name is called instead of
   it; then the call returns and a function that must return a value runs off
   its end.
6. At a fault the machine's pc has moved past the instruction that failed, and
   `frames` looks up the position of the next one, although it is "built the way
   VMError's backtrace is". In a program whose line 3 is `n.v = 3;` the message
   says line 3 and `bt` says line 5.

None of the first three can happen with a client that waits for the event that
answers its request and launches once; `DapSession_patient` checks that.

### Deliberate mistakes

Some definitions are used nowhere: each is a mistake the definition after it
could have been. Put in its place, it must break the property named here, which
shows that the property depends on that code.

| property | correct | mistake | what goes wrong |
| --- | --- | --- | --- |
| `TypeOK` (session) | `Alive` | `AliveUnlessEnded` | a pause is accepted before there is a Debugger |
| `EndReportedOnce` | `VmEnd` | `VmEndUnguarded` | the program's end is reported without asking whether it was |
| `FaultExitCode` | `EndCode` | `NoEndCode` | a fault given up on is reported as abandoned |
| `NoStopAfterEnd` | `Kill` | `KillUnannounced` | the parked or stopping program is not told of the disconnect |
| `DisconnectStopsProgram` | `KillPause` | `KillParkedOnly` | only a parked program is stopped |
| `SessionEnds` | `KillJoin` | `KillJoinForever` | the join has no time-out |
| `ResumeTakesEffect` | `Release` | `ReleaseUnset` | the mode is never written |
| `PauseStops` | `PauseRequested` | `PauseSeenStepping` | the flag is looked at only when stepping |
| `InspectionParked` | `WaitOver` | `WaitOnce` | a bare `wait()` without its loop |
| `HandlesCurrent` | `ClearedHandles` | `KeptHandles` | handles survive a stop |
| `FaultNotResumed` | `RefuseResume` | `RefuseRunning` | a fault is resumed like any stop |
| `LifecycleSpec` | `ResumeReply` | `ResumeUnanswered` | the program is released before the reply |
| `TypeOK` (heap) | `Fits` | `FitsHeader` | the payload is not counted when the heap is nearly full |
| `HeapParseable` | `Vacated` | `NotCleared` | vacated memory is left dirty |
| `ReferencesHeld` | `Moved` | `MovedStarts` | only a reference to the start of a block follows it |
| `CollectionIsExact` | `Marked` | `ReferredTo` | whatever anything refers to is kept, so cycles are |
| `PermanentsStay` | `Permanents` | `VariantsOnly` | literals are not roots |
| `ManagedSpec` | `Activations` | `CurrentFrame` | only the running frame's slots are roots |
| `TypeOK` (map) | `After` | `Unmasked` | a probe runs off the end of the table |
| `AlwaysAnEmptySlot` | `Overloaded` | `LiveLoad` | tombstones do not count toward the load |
| `CountsExact` | `ReuseCount` | `Kept` | reusing a tombstone leaves it counted |
| `EachEntryOnce` | `Live` | `NotEmpty` | an iteration visits tombstones |
| `ProbesEnd` | `Overloaded` | `Overfull` | the table may fill up |
| `FiniteMapSpec` | `Buried` | `Emptied` | a removal empties its slot and cuts the chain |
| `TypeOK` (program) | `FloatBits` | `FloatBitsUnmasked` | a half of a float is wider than a word |
| `OutputAsMeant` | `CopyOrder` | `CopyForward` | a copy overwrites what it has yet to read |
| `ScopesReleased` | `ReleaseScopesTo` | `ReleaseInnermost` | `break` releases only the scope it is in |
| `StatementsBalanced` | `ArmBody` | `ArmKeepsSubject` | an arm leaves the subject on the stack |
| `RootsExact` | `RefSlots` | `RefSlotsByCount` | the stack map counts variables, not slots |
| `PositionsTrue` | `Mark` | `MarkFirstWins` | a second mark at one place is dropped |
| `NeverRunsOff` | `AlwaysReturns` | `EitherReturns` | one branch that returns is taken for both |
| `WarningIsTrue` | `ConstInt` | `ConstUnwrapped` | a constant is folded without the wrap |
| `TypeOK` (debugging) | `StopFor` | `StopInMode` | the mode outlives the stop |
| `TablesAgree` | `RemoveBreakpoints` | `RemoveListed` | a removed breakpoint stays in the table by place |
| `StepsEndWhereAsked` | `PromptOnStop` | `PromptKeepsFrame` | the frame selected at the last stop stays selected |
| `BreakpointsHonoured` | `HookTable` | `HookStepsFirst` | a step passes over breakpoints |
| `StopsAreTrue` | `ClearBreakpoints` | `ClearAndRenumber` | numbers are given again after a rebuild |
| `ResolvedAsIncluded` | `ResolveFile` | `ResolveBreadth` | a file's own definitions come before its includes' |
| `RunsWhatWasCompiled` | `FunctionsRead` | `FunctionsReadSwapped` | two fields are read in the other order |
| `StatusTruthful` | `Quit` | `QuitAbandons` | quitting at a fault forgets the fault |

## 4. Proofs

`DapSessionProofs` proves, for every number of launches and for patient and
impatient clients alike (assumptions: `LaunchAssumption`, `PatientAssumption`):

- `TypeCorrect`: `Spec => []TypeOK`. `TypeOK` alone is not inductive, because a
  step that copies a local into shared state relies on an earlier step of the
  same thread having set it. `TypeInv` adds, per thread, which local is set at
  which point (`LoopLocals`, `VmLocals`), and that whoever sets a pause flag has
  a Debugger (`DebuggerKnown`). One lemma for the start, one for the requests,
  one for each thread's steps, one case per action.
- `EndOnce`: `Spec => []EndReportedOnce`. `EndInv` says that whoever passed the
  guard of `_end` holds the only licence to report: before the guard nothing has
  been sent and nobody is sending; the two threads are never both sending; and
  what has been sent is what the sender's place in `_end` allows. Most steps do
  not touch any of this (`Quiet`), and the six that do are treated one by one.

What is reported at the end, and in which order, holds of sessions whose launches
all compile or all fail (`LaunchesAgree`), and so of every session of one launch
(theorem `OneLaunch`; the condition is needed, as
`DapSession_second_launch` shows):

- `FaultReported`: `FaultExitCode`. `FaultInv` follows a fault from the moment
  the program stops for it: it is set in `_faulted` before the stop is shown,
  the thread it happened on can only be on its way to a report that carries it
  (`FaultComes`), and the loop reads it when it gives the program up.
- `EndIsLast`: `NoStopAfterEnd`. `GivenUp` says that nobody passes the guard of
  `_end` unless the program can stop no more: `_disconnecting` is set, the
  thread is past its last stop or dead, or there will never be one.

For a client that waits for the next stop (`Patient`), and any number of
launches, `DapPatientProofs` proves `PatientClientServed`: `InspectionParked`.
`ParkInv` ties the suspension to the
thread that waits on it, and `_disconnecting` to a loop that will serve no other
request; `TurnInv` says that while the loop works on a stop nothing has resumed
it, and that once something has the client knows of no stop to ask about. From
the same invariant follow `PatientHandles` (`HandlesCurrent`) and
`PatientFaultStays` (`FaultNotResumed`): between `_refuse_resume`'s look at the
stop and `_release`'s write nothing else writes. The runs `DapSession_inspect` and
`DapSession_fault` show that this does not hold of a client that does not wait.

It also puts the two parts together: `ImplementsLifecycle` is the refinement `LifecycleSpec`. All but six actions are stutters to the client;
`ShownInv` says that the stop it looks at is the one the program waits in.

`HashMapProofs` proves, for every set of keys and values, every family of hashes
into the naturals (`HashAssumption`), and tables of any size from two slots up
(`SlotsAssumption`; that sizes are powers of two is not needed):

- `MapTypes`, `CountsCorrect`, `EmptySlotRemains`: the invariants `TypeOK`,
  `CountsExact` and `AlwaysAnEmptySlot`. None of them is inductive. `MapInv`
  adds that the load is at most three quarters, and leaves room for one more
  while an insertion probes (`LoadInv`); that the tombstone a probe remembers is
  still one (`ProbeInv`); and that what a growth has rehoused and what it has
  left were together at most three quarters of the old table (`GrowthInv`),
  which is why an insertion that waited for a growth need not look at the load
  again. The counting rests on `CountUpdate`, `CountOther` and `FullCount`,
  lemmas about arrays of slot states.
- `ProbesReturn`: the step property `ProbesEnd`. `PathInv` says that a probe has
  passed no empty slot; were its next slot the one it began at, it would have
  passed them all, but one is empty.

`HashMapRefinement` proves, from the same assumptions, `ImplementsFiniteMap`: the
refinement `FiniteMapSpec`. `MapInv` and `PathInv` say nothing of which key is
where; `DictInv` adds that no slot between an entry's home and its own is empty
(`Unbroken`), that no key is in two slots (`OnceEach`), nor in the new table while
a growth has still to rehouse it (`WaitingOnce`), and that a probe has not passed
what it looks for (`Missed`). A removal keeps `Unbroken` because it leaves a
tombstone; a probe that ends at an empty slot has therefore missed nothing
(`NotPassed`). `Contents` is then a set of pairs with one pair for each key
(`PairsUnique`), and each action is shown by what it does to the pairs: a growth
nothing, an insertion and a removal what `AsMapWith` and `AsMapWithout` say of
maps. That `map_keys` lists each key once is a count: the rank of a used slot
among the used ones is an injection into `1 .. len`, so every number is a rank
(`RankInjection`, `EachNth`). `EachMeetsOnce` proves `EachEntryOnce` from the same
invariant and `MetInv`: a key that has stayed in the table since an iteration
began has been met once if the iteration has come by its slot and never
otherwise, which an insertion or removal by the body cannot change, because no
entry moves unless the table grows.

`DebuggerProofs` proves, for every program whose control stays inside its code
(`ProgramsAssumption`, which also has each marker of the source map and each
entry at an instruction, as the code generator leaves them), every depth of calls and every set of commands and
requests, behind either front end:

- `TablesCorrect`: `Spec => []TablesInverse`, the first part of `TablesAgree`.
  `TablesInv` adds what the tables are made of; only `Add`, `RemoveBreakpoints`
  and `SetEnabled` disturb it, and each has a lemma.
- `Types`: `Spec => []TypeOK`.
- `StepsEnd`: `Spec => []StepsEndWhereAsked`. The property speaks of stops and of
  what is about to be executed; what carries it from one to the other is
  `JustStepped`: when the hook looks, the chosen activation is still there or has
  just been left, because the instruction before was one at which the step was
  not over and it changed the depth by one at most (`GotoKeeps`, `HookKeeps`).
  `AskedInv` says that what the debugger compares with is what the user asked
  for, and `ControlInv` who may stop the program and who has a mode.

`AdapterProofs` proves three more of the same module, for any program, requests
and launches. Its invariant, `AdapterInv`, has one part for each thing the
adapter relies on between two of its steps:

- `LoopInv` and `RecordsInv` say where the rebuild is and that every record is of
  a source that was named. `BuiltInv` says that the Debugger's tables are, at any
  moment of a rebuild, exactly those of the records resolved so far (`Landed`): a
  breakpoint for each place one of them has, `hit_ids` the records of that place.
  `IdsInv` says that a number's hits are of its place, also in tables about to be
  cleared. `ToldInv` says that `reported` is what the client was last told, except
  for records a response is still to bring.
- `StopInv` is about a stop that is on its way to the client while a rebuild goes
  on under it: the number it carries is not given again, so either the breakpoint
  is gone or it is still that of the instruction.

`TablesAgreed` (`TablesAgree`), `BreakpointsKept` (`BreakpointsHonoured`) and
`StopsTrue` (`StopsAreTrue`) follow. A rebuild resolves one record per
action, so what is true half way through it is part of the invariant, and no
operator over all the records has to be unfolded.

`Debugging` and not `Toolchain` is the module of these theorems: the steps of a
session are the same actions in both, but resolving and reading files are
recursive operators, which the prover does not take.

`QuinHeapProofs` proves, for every heap of up to 32768 words (`SizeAssumption`:
`HEAP_SIZE` is 64 KiB and the model counts words), every program and every depth
of stacks and calls:

- `HeapTyped` and `HeapAlwaysParses`: `TypeOK` and `HeapParseable`;
- `PermanentsNeverMove`: the step property `PermanentsStay`;
- `CollectionsExact`: `CollectionIsExact`;
- `NothingDangles`: `ReferencesHeld`, of programs that make no pointer past the end
  of a block (`~prog.pastEnd`, as in every program of the run `QuinHeap`).

`ProgramsAssumption` says what the code generator sees to: a type's reference
fields are among its fields (`StructLayout`), parameters are the first locals and
the frame map names locals (`FunctionInfo`), and integers, sizes and counts are
what instructions can carry. It says nothing of how many types, functions or
constants there are.

Three things made the proof possible. First, what the collector walks and marks is
`Reached`, a recursive function on sets of addresses; `ReachedIs` shows, by
well-founded induction on the sets still to grow into, that it is the least set
that holds the start and is closed, and nothing else is used of it. Second, the
walk over the headers is replaced by what it finds: `Tiles` says that a set of
blocks lies back to back from `HeapStart` to `heap_ptr`, and `StartsAre` that the
walk finds exactly that set. Third, compaction is a count: a survivor goes to the
number of words that the survivors below it occupy (`Slid`), which puts them back
to back again (`SlideTiles`), never upwards (`Slides`), and leaves in place a
prefix of which nothing has died (`Packed`). `CollectedHeapIs` then says what
every word of the heap is after a slide.

The invariant, `IInv`, has a part for each of the machine's parts. `HeapInv`: the
blocks that have an identity tile the heap, their headers make sense, and what is
above is zero. `StackInv` and `FramesInv`: operands are tagged words, and frames
own stretches of the stack, one above the other. `PermanentInv`: literals and
variants are blocks, and lie below all others. It is inductive because instructions
write only within blocks (`WriteKeeps`; `Is` and `InRaw` give the bounds), so no
program can damage a header. `PermanentsNeverMove` needs the last part: a permanent
object is a root, so it survives, and so does all that is below it, so it slides
by nothing. For `CollectionsExact` the marked set is followed through a slide:
whatever pointed into a survivor points to the same offset of it afterwards
(`RootsFollow`, `SurvivorsKept`), so the set of survivors that the next mark would
find is closed and holds the roots' targets, and being the least such set the
first mark found no more (`SurvivorsReached`). That the walk of the mark finds
what `Reachable` defines without one is `MarksTheReachable`. The three ways in
which a collection can run, by itself, before an allocation and before a refusal,
are three cases of `CollectingExact`; `RefusedInTime` and `NothingToFree` are the
other two parts of the property. No assumption on what references
point to is needed for any of this; a pointer past the end of its block
(finding 4) can lead to the wrong object but not to a damaged heap.

`NothingDangles` needs more, and there finding 4 is excluded: with `IInv`, `Holding`
says that the operands, the frames' reference slots and the reference fields of
every block, also of those that are garbage but not yet collected, stay in
`PlacesNow`, null or a word of a block. An instruction only copies references it
holds, or null, to where references belong (`StorableHolds`), a new block's fields
are null (`PlacedHolds`), and through a collection every survivor's references
lead to survivors, so they follow them (`MovedHolds`, `CollectedHolds`). That
`AddPointer` stays inside its block is what excludes the pointer past the end.

`QuinHeapRefinement` proves, from the same assumptions and of the same programs
(`~prog.pastEnd`), `ImplementsManagedHeap`: the refinement `ManagedSpec`. The
mapping turns words into values, and what a word means depends on the whole heap.
So the proof first names that function, `Sense`, and writes operands, activations,
objects and constants as functions of it (`StackMeans`, `FrameMeans`,
`ObjectMeans`, `ConstMeans`); `Well` says that this is what the mapping is. Then:

- `Distinct`: no two blocks have the same identity, and there is always one to
  spare. This is a third part of the invariant beside `IInv` and `Holding`.
- Instructions that allocate nothing leave `Sense` alone, so each is a lemma about
  one word (`ReadRefines` for every load, `ObjectWritten` for every store). That a
  comparison of addresses is one of objects needs `Holding` and `Distinct`.
- A collection changes `Sense` and every reference. `Carried` says of a set of
  survivors, and of where each word goes, that a word means afterwards what it
  meant before; a slide carries (`CollectionCarries`), and so does an allocation
  that found room (`GrowthCarries`), with everything in place. Stack, frames,
  objects and constants then keep their meaning for one and the same reason.
- What a collection kept is all that `ManagedHeap` asks to have kept, because the
  survivors are `Shut` and `Rooted` (`KeepsShut`). Nothing has to be computed
  about what can be reached.
- `NewObject`: the block an allocation adds is an object with an identity that none
  of the kept ones has, whose fields are as `ManagedHeap` says, whether or not a
  collection came first.

Finding 4 is why the assumption is there: a pointer one past the end of a block
means the object of the next block, which `ManagedHeap` does not allow, and
`QuinHeap_past_end` shows it.

Only model-checked: the liveness properties (the prover does not handle
fairness), and everything about compiled programs
and files (`CompiledProgram`, and `ResolvedAsIncluded`, `RunsWhatWasCompiled` and
`StatusTruthful` of `Debugging`), whose walks over trees, includes and bytes are
operators recursive on data, which the prover takes neither to unfold nor to do
induction on. Induction over numbers is not out of reach: a set of naturals has a
least element (`LeastNat`, from the well-foundedness of `<`), which is how the
proofs about the heap and about places in a program count.

## 5. Plan

What is modelled and proved grew in this order, the most important first: the
session and the heap, each under its abstract specification; the map, its
theorems and its refinement; source to behaviour; the debugger behind both front
ends; the command and its files; the theorems on stepping, on a session's end, on
the adapter's breakpoints and on the heap; the heap's refinement. What is left:

1. Generics and `Array<T>` in `Sema` and `CodeGen`: one more pass from a tree to
   a tree, and the question whether each instance is what its text means.
2. `QuinHeap` on the programs of `CompiledProgram`: one machine with both the
   code generator's output and a heap that moves.

## 6. Not modelled

- Lexer, parser and syntax tree: pure functions over text, which examples test
  well. Every model begins with a syntax tree.
- Generic functions and types, their unification and instantiation; `Array<T>`
  and `heapptr` in the compiler (the heap's own side of both is in `QuinHeap`).
- Message framing (`dap/protocol.py`): one lock is held for a whole frame and
  its number, one thread reads and counts its bytes; what is left is the host's
  stream.
- The bits and rounding of floats; the contents of strings beyond comparison,
  length and concatenation; the host's files beyond success or a reason.
- Bytes changed inside a `.qlc` file: it has no checksum, and nothing promises
  that they are noticed. Numbers too large for the format's fields.
- The collector's phases: a collection is one step, since nothing runs during it.
  What the phases leave together is checked; that each leaves what the next one
  reads in place is not observed, since their order is the model's.
- A wait that nobody wakes: `wait()` is its loop condition, so a step that sets the
  condition and forgets to notify would not be noticed.
- Rendering of values, messages and positions; `Vec`, `List`, `Option`, `Result`
  and the pure library functions; the `.vscode` and Neovim files; tests and
  examples.
- Real time: a time-out may or may not have happened.
