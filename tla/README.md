# TLA+ verification of CloverVM

CloverVM is a Python virtual machine in C++: a compiler to bytecode, an
interpreter, an object model with shapes and inline caches, a heap with deferred
reference counting, an import system, built-in types, and a method JIT. This
directory holds TLA+ models of the parts whose correctness depends on long or
interleaved sequences of steps or on boundary cases, the TLC configurations that
check them on small instances, and TLAPS proofs for the parts where a small
instance is not enough. Source paths below are relative to the repository.

`PROJECT.json` gives, for the definitions that model code, the lines they model
("map"; helpers whose lines belong to another definition's are left out), for every
property the mutant that breaks it, and the list of hazards the properties are
aimed at.

## 1. Inventory

### Components, their state and operations

| Component | State | Operations | What makes it correct | Modules |
|---|---|---|---|---|
| Heap and reclamation (`memory`, `object_model/owned.h`, `runtime/thread_state.cpp`) | object headers, counted cells, zero-count tables (ZCT), epochs, slabs with pins, empty-slab cache | allocate, store into a cell, request a safepoint, reclaim, end a thread state | nothing in use is reclaimed, nothing unused is forgotten, slabs are released exactly when unused | `Heap`, `ManagedMemory` |
| Attribute lookup, shapes, caches (`object_model`, attribute opcodes of `runtime/interpreter.cpp`) | shapes, slots, validity cells attached along MROs, inline caches, constructor thunks | load, store, delete an attribute, assign `__class__`, call a class | a cache that matches does what a full lookup would do now | `LookupCaches` |
| Class construction (`object_model/class_object.cpp`) | bases and MRO of each class | validate bases, C3 merge | the MRO is a C3 linearization, refused only if there is none | `ClassHierarchy` |
| Import system (`import_system`) | `sys.modules`, submodule bindings, bodies in progress | import, from-import, body ends or raises | no module is executed twice at once, a failure removes its own entry only | `ImportSystem` |
| Dictionaries (`builtin_types/dict*`) | table, entries, shape, iterators | get, set, setdefault, delete, pop, popitem, clear, copy, iterate, display | a probe is right although `__hash__` and `__eq__` change the dictionary under it | `Dict` |
| Lists (`builtin_types/list*`, `object_model/vm_array.h`) | counted array, size, capacity, iterator | every method that changes a list, search, copy, concatenation, iteration | the array implements Python's list but for two named deviations, elements are counted once each | `ListObjects`, `PythonLists` |
| Integers (`builtin_types/int.cpp`, `bigint.cpp`, arithmetic opcodes) | none | opcodes with their overflow checks, digit algorithms, parsing, printing, hashing, conversion to double | exact in both representations and across the boundary | `IntOperators`, `BigInt`, `PythonInts` |
| Sequences, slices, ranges (`slice.*`, `range*`, `list.cpp`, `tuple.cpp`) | none | index, slice, `slice.indices`, range loops | the elements Python selects | `SequenceAccess`, `PythonSequences` |
| Strings and bytes (`str.cpp`, `bytes.cpp`) | none | search, count, split, partition, replace, strip, join, case, repr, compare, hash | as the language defines them | `StringMethods`, `PythonSequences` |
| Tokenizer, parser, interactive loop (`compiler/tokenizer.cpp`, `parser.cpp`, `main`'s loop) | token at hand, indentation, brackets, lines typed so far | tokenize, one operator per production, read a line, decide whether it can go on | the tree is that of the text; a session runs each statement typed | `Tokenizer`, `Parser`, `Ast`, `SourceText` |
| Scope analysis (`compiler/codegen_scope_analysis.cpp`, name tables) | scopes, name table, flow states | bindings, `global`, presence of locals over all paths | names mean what the language says, unchecked reads are safe | `ScopeAnalysis`, `NameSemantics` |
| Expression lowering (`compiler/codegen.cpp`) and its opcodes | code, reserved registers, accumulator, frame | all expressions, assignments, deletions, definitions, imports | operands are evaluated once each, in order, and arrive | `ExpressionLowering`, `ExpressionExecution`, `ExpressionSemantics` |
| Statement lowering (`compiler/codegen.cpp`, `bytecode/code_object_builder.cpp`) | code and handler table; stacks of cleanups, loops, caught exceptions and open ranges | `try`, `with`, loops, `break`, `continue`, `return`, `raise`, `assert`, `if` | the code does what the statements say on every way out | `StatementLowering`, `StatementSemantics` |
| Interpreter frames and exceptions (`runtime/interpreter.cpp`, `bytecode/code_object.h`) | frame chain, accumulator, registers, pending exception | call, return, raise, match, take, re-raise, unwind | the innermost handler of the nearest frame runs, an exception is pending exactly until then | `FrameUnwinding` |
| Calls and argument adaptation (`runtime/interpreter.cpp`, `object_model/function.h`) | register window, call caches, constructor thunks | positional and keyword calls of functions, methods, classes; defaults, `*args`, `**kwargs` | parameters get what the language's binding rules give them, cached or not | `CallAdaptation` |
| JIT code cache (`jit/code_cache.cpp`, two backends) | slabs, frontiers, page protection, open units | propose, commit, publish, abandon | units never overlap, code is executable, pools writable and in reach | `CodeCache` |
| JIT register allocation (`jit/live_ranges`, `register_assigner.cpp`, `allocation_materializer.cpp`, `graph_rewriter.cpp`) | live ranges, bundles, worklist, transfers, renamings | scan, assign, evict, split, spill, materialize, rewrite | every use reads the value of its definition, on every path | `LiveRanges`, `RegisterAssigner`, `AllocationMaterializer` |
| JIT parallel assignment (`jit/parallel_assignment_resolver.h`) | pending moves, reader counts, queues | emit a ready move, break a cycle, legalize | the moves equal the simultaneous assignment | `ParallelAssignment` |
| Module globals, operator dispatch, JIT IR and optimization, side exits, tiering, emitter, extension API, floats, bootstrap | | | | not modelled, section 5 |

### Interactions

The interpreter is the hub. It runs what the code generator emitted and, when an
exception is raised, what the generator's handler tables say. Every opcode that
stores a reference goes through the counted cells of the heap; every call and return
polls the safepoint flag and so may start a reclamation. Attribute opcodes consult
inline caches first and the object model on a miss; class writes invalidate the
validity cells those caches hold; a call of a class runs a thunk that the same cells
guard. Class statements run the MRO computation. Dictionary operations on user keys
call back into the interpreter (`__hash__`, `__eq__`), and that code may use the same
dictionary; generated bytecode repeats the C++ probe step by step. Imports run
module bodies, which import in turn. The parser feeds the scope analysis, whose
presence facts decide which opcodes the generator emits. The JIT orders register
moves with the parallel-assignment resolver and places its code with the code cache,
whose constant pools the collector updates.

### What is hard here

There is one managed thread, so the interleavings are those of re-entrance: user
code in the middle of a probe, an import or a class statement; a reclamation
between two instructions; a cached fact that changes between filling and use. To
this come partial failures (a body that raises, a system call that fails halfway),
limits (a slab, a table, the number of registers), numeric edges (the borders of the
small integers, clamped slices), and things that must eventually happen (a requested
reclamation, the end of an ordering loop). The list with lines is "hazards" in
`PROJECT.json`.

## 2. Modules

**Memory**

* **`Heap`** follows `src/memory` and `object_model/owned.h`. `refcount`,
  `lifecycle` and `valid` are the object header and the slab's valid bits; `cell`
  is every counted cell (`Member` slots and native `Owned` values); `stack`,
  `live` and `acc` are the words in Clover frames, the part of them that the
  program may still read, and the accumulator, all borrowed; `zct`, `epoch` and
  `local` belong to a ThreadState, `pins`, `slabState`, `bump` and `cache` to the
  slabs. A reclamation is one call in the code. It is split into steps (one ZCT
  entry, one slot, one object of an epoch slab, one release candidate) so that
  every state in between is checked; nothing else is enabled while it runs.
  Safepoints are taken at function entry, where the accumulator is not published,
  and at return or re-entry, where it is.
  Abstractions: a dedicated slab never has the size of an ordinary one;
  `GlobalHeap::allocate_global`, which uses a ThreadLocalHeap of its own, and
  immortal objects are left out; the VM makes one ThreadState that runs managed
  code, further ones (as in `tests/test_thread_state.cpp`) take part with
  their heap and table; C++ locals are no roots, as in the code.
* **`ManagedMemory`** is the promise behind it: objects, owned cells, borrowed
  values; an object may disappear only when nothing refers to it.

**Object model**

* **`LookupCaches`** follows `attr.cpp`, `shape.cpp`, `object.cpp`,
  `class_object.cpp` and the attribute opcodes. A shape is the sequence of
  transitions that made it; a lookup returns what it found and the cell that
  guards it; a step of a site is a cache hit when shape and cell match, otherwise
  the miss path with its cache fill. Abstractions: the metaclass is `type` and
  MROs are constants (both are fixed once a class exists); `__class__` and
  `__dict__` reads and overflow storage are left out; a cell's address is not
  reused while a cache refers to it, which is an assumption the code does not
  enforce (see section 6).
* **`ClassHierarchy`** follows `validate_bases` and `compute_mro`, one merge round
  per step.
* **`ImportSystem`** follows `import_system.cpp`. Module bodies are arbitrary
  sequences of imports, edits of `sys.modules`, and an end or an exception.
  Relative names are resolved to targets; `import a.b as x` and `import *` are
  sequences of `load_package_child`; native initialisation runs no Python code.

**Built-in types**

* **`Dict`** follows `dict.h`, `dict.cpp`, `dict_view.cpp` and the dictionary
  opcodes. `frames` is the stack of calls that wait for user code; a frame keeps
  what the code keeps across the call (hash, slot, entry, tombstone, generation).
  C++ and generated bytecode are two variants of the same call because they differ
  in what they re-validate. `__hash__` and `__eq__` honour their contract but may
  do anything else, or raise.
* **`ListObjects`** follows `list.cpp`, `list_iterator.cpp` and `vm_array.h`: the
  counted array with the shifting, growing and shrinking loops of the methods, and
  one iterator that compares its index with the size of now. **`PythonLists`** is the
  language's list: a sequence, searched by `==` (`ComparesAs` says which elements are
  equal), whose iterator stays at its end once it has ended. Every step names the
  call it is (`called`) and its reply, so `ListObjects` must do what Python says of
  the call that was made. It does, but for two steps that `PythonLists` defines apart
  from Python's: `SearchByIdentity` and `GoOnAfterEnd`.
* **`BigInt`** has the digit algorithms of `bigint.cpp` (schoolbook multiplication,
  long division with its estimated digit and correction, shifts, two's-complement
  bit operations, radix conversion, rounding to double), **`IntOperators`** the
  opcodes, methods and trusted handlers of `int` with their overflow checks, and
  **`PythonInts`** what the results must be. Words, digits and small integers have
  small widths that keep the code's relations between them.
* **`SequenceAccess`** follows `slice.h`, `slice.cpp`, the subscript methods and
  trusted handlers of list, tuple, str and bytes, and the loops over `range`, by
  iterator and by opcode. **`StringMethods`** follows `str.cpp` and `bytes.cpp`;
  character classes are a small alphabet. **`PythonSequences`** is the definition
  both are compared with.

**Compiler and interpreter**

* **`Ast`**, **`Tokenizer`**, **`Parser`** follow the front end: the tokenizer's
  indentation stack, brackets and literals, one operator for every production, the
  `CompileContinuationInfo` of incomplete input, and the loop of the interactive
  session. **`SourceText`** prints trees, so that every tree has texts (with blank
  lines, comments, brackets and any indentation) that must parse to it.
* **`ScopeAnalysis`** follows `ScopeAnalyzer`: declarations, bindings, the open
  addressing name table, and the presence of locals over all control flow.
  **`NameSemantics`** says what a name means and which locals an execution has bound.
* **`ExpressionLowering`** makes the code of one statement with its expressions,
  **`ExpressionExecution`** runs it (registers, accumulator, window of the next
  call), **`ExpressionSemantics`** says what Python evaluates, in which order, and
  lists the statements checked.
* **`CallAdaptation`** follows one call site: the plan made when its cache is
  filled, and the window completed in place when it is used. Its last part binds
  arguments in the terms of the language reference (`Binding`, `Meaning`).
* **`StatementLowering`** follows the statement part of `codegen.cpp` and the range
  builders of `code_object_builder.cpp`. A C++ method that generates code for its
  children is a sequence of tasks, and `todo` holds the tasks that remain; a step
  takes the first. `code`, `table` and `target` are the output, `cleanups`, `loops`,
  `caught`, `starts` and `temps` the generator's own state. Expressions are calls
  told apart by a number; one `name` stands for the names handlers bind; operand
  widths and byte offsets are left out (the program counter counts instructions).
  `innermost` is a history variable for `InnermostHandlerFirst`.
* **`FrameUnwinding`** extends it with the interpreter: one action per opcode,
  `resolve_exceptional_frame_exit` as the operator `Unwind`. A call returns, raises
  or enters the same function again; `trace` records which; a call for the class of
  an `except` clause returns a class. Classes of exceptions
  are unrelated, the StopIteration that native iterators raise without an object is
  an exception like any other, safepoints are `Heap`'s.
* **`StatementSemantics`** says what the statements mean, by structural recursion
  over the program and without code, table or registers, and states the properties
  that compare the two.

**JIT**

* **`CodeCache`** follows `code_cache.cpp` and the standard and MAP_JIT backends,
  including failing `munmap`, `mmap` and `mprotect`. Which backend runs is chosen
  initially.
* **`ParallelAssignment`** follows the resolver and `legalize_stack_transfers`.
  Destinations are unique, one register class is considered, and the order of the
  two deques is left open, so the result holds for every order. The list of
  scratch registers is chosen initially.
* **`LiveRanges`** is what the verifier of graphs checks (`CfgVerified`), the scanner,
  the merging of bundles and their splitting,
  **`RegisterAssigner`** the splitter's loop for fixed locations and the assignment
  loop (free register, eviction, splitting, spill carriers and slots, the verifiers of
  scan and allocation), **`AllocationMaterializer`** the transfers, the rewriter's
  renaming, and the machine code run on abstract values.

**MC modules** put components into one run; a behaviour of the run belongs to one
of them. `MCHeap`; `MCObjectModel` (lookup caches, class hierarchy, imports);
`MCBuiltins` (dictionaries, lists, integers, sequences and strings); `MCJit` (code
cache, parallel assignment, register allocation); `MCFrontEnd` (inputs for the front
end) and `MCCompiler` (statements, expressions, calls, front end).

**Proof modules**: `HeapProofs`, `ObjectModelProofs` (class construction, imports and
inline caches), `DictProofs`, `ListProofs`, `CallProofs`, `JitProofs` (code cache and
parallel assignment), `AllocationProofs`, and `ArithmeticLemmas` (rounding to
multiples, subsets of bounded sequences, loops) which several use.

## 3. Runs and bounds

Several models have a variable for the program (`program`, `importProgram`), chosen
initially from a set of programs: each is a small vocabulary of operations aimed at
one kind of trouble, and inside its vocabulary the program does anything, in any
order. This keeps one run per group of components where the full vocabulary would be
out of reach. The pure algorithms have one step that computes the code's result and
the definition's for one input, and an action property that compares them.

| Run | Shows | Instance |
|---|---|---|
| `heap` | counts equal owned references, each zero-count object is in exactly one table or in a slab an epoch will scan, slabs are released when and only when they may be, and `Heap` implements `ManagedMemory` | 3 ordinary slabs of 2 objects, 1 dedicated, 2 thread states, 1 slot per object, 1 native owner. `Sides` keeps one of three aspects small at a time: the object graph in one slab; slabs with at most two objects; two thread states with one object. Every behaviour of each side is explored |
| `heap_live` | a request is served and withdrawn; what stays unreachable is reclaimed as long as reclamations keep being requested | 2 slabs of 1 object, 1 thread state |
| `objects` | cells are attached wherever they must hear of a change; a matching read cache selects the slot a lookup selects; a matching plan for an existing property is the lookup's plan; thunks are current. C3: ancestors once each, all orders kept, rejection only if the orders contradict each other. The module cache never hands out a failed module, no body runs twice at once, a failure removes its own entry only | classes A, B(A), D, 2 instances, a value whose type may gain `__get__` or `__set__`, 4 programs (reads, stores and deletes, `__class__` changes, constructions). Hierarchies: 5 user classes, at most 2 bases, which includes the smallest inconsistent and the smallest non-trivially consistent diamonds. Imports: a package with two submodules, a native, a builtin and a missing module; 2 programs |
| `builtins` | table and entries index each other, a miss is justified, a call changes only its own key, probes end, an iterator that reported a change goes on reporting it; elements of a list are counted once each and every call does, and replies, what Python says of that call, but for two steps excepted by name; integers are exact; subscripts, slices, range loops and text methods agree with their definition | dictionaries: the real minimal table of 16 slots and its growth to 32, 4 programs, up to 3 nested calls; lists of up to 3 elements, two of which are equal to each other, extended by themselves and by each other, with an index at, below and past every border; words of 8 bits, digits of 4, small integers of 6, operands of up to three digits; sequences of up to 4 items with bounds around every border |
| `jit` | units share no byte and no page of the other kind, open units are writable and published ones executable, also after a failed `mmap` left a hole, pools are in reach; moves, before and after legalization, have the effect of the simultaneous assignment, one scratch is enough, ordering ends; allocations pass the verifier, assignment makes progress, every use reads its value | code cache: pages of 4, slabs of 16 abstract bytes, 3 units, 2 slabs, both backends; all assignments among 1 register and 3 stack slots with 0, 1 or 2 scratch registers (two cycles at once, fan-out, a slot saved in the register a later transfer would use); 4 registers of which calls clobber two, straight-line code of 3 instructions and loops of 2, with fixed operands, calls, forwarded operands and side exits |
| `compiler` | a compiled function makes the calls its statements prescribe, in order, and ends with the same value or exception and `__context__`; an exception is pending exactly until its handler takes it, calls for the class of an `except` clause apart; expressions evaluate in order; parameters are bound as the language says; unchecked reads are of bound locals, names mean what they should; texts parse to their trees; a session runs what was typed | 2162 statement programs: all well-formed two-deep nestings of ten compound forms around `pass`, `return`, `raise`, bare `raise`, `break`, `continue`, three-deep ones around `return` and `break`, five larger ones, and handlers whose class is the result of a call, alone and inside each form; up to 4 calls of which 2 may enter the function again. Statements with every expression form one or two deep; every signature of the parameter kinds against every small argument list, in a window of 8 registers; every small function body two statements deep; every small tree with several texts; at the prompt every simple and compound statement, nested once, with suites on one line or several, and brackets, strings, comments and blank lines between and inside the lines typed |
| `lookup_method_binding`, `dict_nested_inserts`, `int_subtraction`, `forwarded_values`, `chains`, `handler_order` | six disagreements, section 6 | as above, with the inputs that the passing runs leave out for them (`OrderedPrograms`, `Chains`, forwarded operands that move, deep nesting of inserts) |

The bounds are chosen so that every limit is met: a full slab, a full empty-slab
cache, the load limit of the table, an exhausted list of scratch registers, more live
values than registers, a slab whose frontiers meet, both ends of the small integers.
Two levels of nesting meet every pair of statement forms, the third level a cleanup
between two others. Deadlock is not checked where a program may simply have no
operation left. It is checked in `compiler`, where rest is allowed only after the end
of the function or at the bound on calls: an opcode whose precondition fails (no
pending exception, an unbound name to delete) would show.

Known disagreements are excepted by name, where the run states the property:
`SearchByIdentity` and `GoOnAfterEnd` of `PythonLists` (search compares words; an ended
iterator goes on), `NotPython` of `MCBuiltins` (eight deviations of subscripts, ranges,
strings and bytes, each with what the code gives instead), `MadeForMatching` and
`MatchedExceptionLost` of `StatementSemantics` (the class expression of an `except` clause
runs with the exception pending), `RefusedAtPrompt` of `MCFrontEnd` (three kinds of input),
`KnownFaults` (two fatal paths of the materializer), and the inputs of the violation runs.

Fairness. `heap_live` assumes that safepoints keep being taken (managed code polls
the flag at every call and return) and that a reclamation that has begun proceeds
(it is one C++ call). `MovesEnd` assumes that the loop of a C++ function goes on
(weak fairness of `StepMoves`). `AssignmentProgresses` is a progress measure on each
step and needs no fairness. No other property uses fairness.

## 4. Proofs

Every theorem is of the form `Spec => []Inv` (or, for action properties and the
refinement, `Spec => [][A]_vars`) for all values of the constants that satisfy the
named assumptions. Each rests on an inductive invariant that TLC checked on the
run's instance before it was proved.

**Heap** (`HeapProofs`), for any finite sets of slabs, threads
and owners, any slab capacity, slot count and policy limits. Assumptions:
`ConstantsAssumption`, `DisjointAssumption`, `FiniteAssumption` of `Heap`.
The invariant is `SlabInv /\ ObjInv`. None of its parts is inductive alone.
`SlabInv` adds to the slab properties that the bump pointer bounds the valid
addresses (`BumpBounds`), that release candidates are mapped, and that a thread
state's local slab is in its epoch and in no other (`ThreadsUseSlabs`); without the
last one an adopted slab could be pinned twice. `ObjInv` adds to exact counts and
unique ZCT entries that header, valid bit and object in hand agree (`LifecycleOK`),
that dead objects own nothing (`DeadCellsEmpty`: a reused address starts empty),
that the root set of a running reclamation covers what the program holds
(`RootsCover`), and that the object being torn down has count zero, is no root and
has empty slots up to the current one (`VictimUnheld`). Exactness of counts needs
one cardinality lemma, `CellWrite`: a write to one cell changes the number of
references by at most one. From the invariant follow `TypeCorrect`,
`CountsAreExact`, `NothingDangles`, `TablesAreExact`, `SlabsAreExact` and
`EmptySlabsGoBack`: an empty, unpinned slab is released, whichever of its last object
and its last pin goes first. `NothingIsMissed`
is proved by a second induction on top of it, and `Refinement` shows that every
step of `Heap` is a step of `ManagedMemory` or a stutter under the mapping
`alive <- valid`, `borrowed <- Readable`.

**Lookup caches** (`ObjectModelProofs`, third part), for any classes, MROs, programs, names, number of
cells and reuse limit. The invariant `LookupInv` says of every cache and thunk what it
was filled from: a cache whose cell is valid is guarded by a class that owns this cell,
that class is the class of the cached shape, and the slot, plan or thunk is the one a
search finds now. It rests on `CellsAttached`: a valid cell is in the list of every class whose
change it must notice, although lists reuse the places of invalid cells
(`AttachKeeps`). Steps are split in two: first cells are obtained (`Obtained`: a
new cell is attached along the chain, nothing valid is lost), then objects change
(`Follows`: a write to a class invalidates what is in its lists). A cell that is valid
before and after both halves therefore guards an unchanged chain (`ChainKept`), with
one exception: a value found in the chain may become a descriptor because *its* type
changes. `Settled` says for which values this cannot happen (those of frozen classes),
which is what the code's blockers establish (`UnblockedSettled`); the theorem would be
false without them. From the invariant follow `AttachmentsKept`, `CachedReadsRight`,
`CachedMutationsRight` and `ThunksStayCurrent`. Assumptions (`LookupConstants`,
`ProgramsAssumption`): an MRO starts with its class, contains the MROs of its members,
and the MRO of a frozen class is frozen; `None` is neither class nor cell; instances are
no classes and no functions; a site stores or deletes, not both; class bodies are finite
sequences. Looking for this invariant showed that the model of `__class__`
assignment had lost the code's layout check (`object.cpp`), which it now has.

**Imports** (`ObjectModelProofs`, second part), for any names, packages, programs and depth of nesting.
`ImportInv` ties each import statement in progress to what it does: the module whose
body it runs was made for the name it loads, two statements never run the same body
(`BodiesApart`), only the innermost runs none, and what `sys.modules` holds is
finished or running (`CacheSound`). For programs that do not edit `sys.modules` it
says more (`Unedited`, `Linked`): the running module is in it and submodules are
linked to their packages. Consequences: `ImportsSound` and, as an action
property, `FailureRemovesOneEntry`. Assumptions: the constants are distinct and
`Chain` is closed under prefixes (a dotted name is loaded after its packages).

**Code cache** (`JitProofs`, first part), for any page, slab and unit sizes. `CacheInv`
orders what a slab holds: code from the start to its frontier, pools from theirs to the
end, nothing between; units in the order of their commits; an open proposal starts at
the frontiers; on MAP_JIT the page frontiers separate the two halves.
`ProtectionExact` says which pages are writable. `CodeCacheSound` is the whole of
`UnitsSound`: units are apart, mapped, executable once published, in reach of their
pools, and write access has been given back. The arithmetic of rounding to pages is in
`ArithmeticLemmas`. Assumption: `NoProposal` is no proposal; sizes and alignments are
as the code's constants are related.

**ParallelAssignment** (`JitProofs`, second part), for any finite set of
locations, any assignments and any scratch lists apart from those locations
(`LocationsFinite`, `ScratchApart`). The invariant says that counts are exact, that
exactly the assignments into unread locations are queued, that pending assignments
still find their value and emitted ones have delivered it. The one step that is not
local is breaking a cycle, which overwrites the scratch register. That no pending
assignment reads it then is a pigeonhole argument (`NoReaderOfScratch`): when
nothing is ready each of the n pending destinations is read by some pending
assignment, so the n assignments read exactly these n locations. The theorems are
`Bookkeeping`, `ValuesSurvive`, `OrderingCorrect`, `ScratchSuffices`,
`OrderingNeverStuck` (the resolver's fatal branch for "no cycle found" is dead) and
`LegalizationCorrect`: after stack-to-stack moves were given a register, whose value
is saved and restored around them, the moves still have the simultaneous effect.

**Dictionaries** (`DictProofs`), for any keys, hashes and classes of equal keys,
programs, table sizes and depth of calls nested in `__hash__` and `__eq__`. The
invariant `DictInv` has three parts. `DictOK` is about one dictionary: table and live
entries index each other (`Indexed`), entries keep the hash of their key, and no empty
slot is met on the way from the slot a key's hash selects to the slot that holds it
(`EntriesReached`); a string-keyed table is never more than one entry over its limit
(`RoomKept`), which is why its probes find an empty slot. `FrameOK` is what a call that
waits for `__eq__` still knows when it goes on, as long as the generation is the one it
saw: no empty slot is behind it and, unless its key has been absent meanwhile, no slot
that holds its key (`Ahead`), and a remembered tombstone lies before the first empty
slot (`Remembered`). A step of another call keeps this because of what it may do to a
table without changing the generation (`Follows`): fill slots, turn entries into
tombstones, but never empty a slot, and add a key of class c only if the calls that
wait with a key of class c know it to be absent. This last part needs the calls in
progress ordered: what an inner call has seen absent, the outer ones with an equal key
have too (`FramesOK`). Growing, copying and the display are recursive functions; that
they exist and keep the stored entries is proved once, by induction over the entries
(`RecursionExists`, `UpTo`, `GrowOK`, `CopyOK`, `CreatedOK`). From the invariant
follow `TableAlwaysIndexesEntries`, `MissesAlwaysJustified`,
`PoisonedIteratorsAlwaysStop` and, as an action property,
`OnlyOwnKeyEverChanges`. Assumptions (`DictConstants`, `ProgramsAssumption`): equal
keys have equal hashes, the smallest table has more than four slots (16 in the code; at
four a table at its limit would have no room), the model values are distinct, and a
display does not name one key twice.

`ProbesEnd` is false once enough calls are nested (section 6). `ProbesAlwaysEnd` gives the
exact bound: it holds while four times the depth of nested calls is less than the smallest
table, that is up to three nested calls for the 16 slots of the code, and the run
`dict_nested_inserts` fills that table with four. The invariant adds `RoomOK`: room is
made before a probe only, so each call that inserts and waits for `__eq__` may append one
entry to a table at its limit; entries and waiting calls together never exceed the limit
by more than the number of calls that can be in progress, and a quarter of the table lies
above the limit.

**Class construction** (`ObjectModelProofs`, first part), for any set of classes and any number of
bases. `HierarchyInv` adds to "every class built is linearized" what the merge in
progress has done so far (`Merging`): each of its sequences is the end of the MRO or
base list it began as, everything taken from it is in the MRO found so far and in the
same order, and nothing that is left is (`Left`). Only the last of these makes a round
safe: the candidate is popped from every sequence it heads and is in no tail, so it
cannot come twice (`RoundKeeps`). When all sequences are used up, every order that had
to be respected has been taken over (`FinishStep`); when no head can be taken, the
classes that remain have no first one, which is the witness for the rejection
(`RejectStep`). `ClassesAlwaysLinearized` is the whole of `ClassesLinearized`.
Assumption: the bound on the number of bases is a number.

**Lists** (`ListProofs`), for any elements, tuples and indexes, any finite number of
lists and any bound on their length. `ListInv`: arrays are well formed and hold no
element past their size, every count is the number of cells that hold the element, in
all lists together, and the iterator is at a position. Within an operation the counts
are right for the array being worked on: with `Base(l)`, the references that the other
lists hold, they are `Base(l)` plus its own cells (`Counted`), after every single write
(`SetOK`, `PutZero`, `PutFree`). The loops of the code (releasing a backing, clearing,
filling, copying, extending, shifting in both directions, swapping) are functions over
`0 .. n`; each exists because every round stays within the arrays that are counted and
have the contents reached so far, and ends in what the last round leaves
(`LoopReaches`). For a shift this needs that no cell is read after it was overwritten
(`MoveItemsOK`), which is the order in which `insert` goes down and `pop` goes up.
`InsertOK`, `PopOK` and their like give the contents after an operation, and
`ListNextOK` shows step by step that they are those of the abstract list, that indexes
wrap and clip as Python's do, and that the reply is the same, each for the call that
was made with its arguments. The theorems are `ElementsAlwaysCounted` and
`ListsAlwaysImplementPython`: every step is Python's, or one of the two that
`PythonLists` sets apart (`SearchByIdentity`, possible only where the list holds an item
equal to the one searched for and not identical to it, for any equality `ComparesAs`;
`GoOnAfterEnd`, only where an ended iterator's list has grown). `SearchStep` and
`NextItemStep` show that these two are met nowhere else. Assumptions (`ListConstants`): finitely many lists, the words of no
element are no elements, tuples hold elements, indexes are integers. The proof added a
conjunct to `ElementsCounted` (cells past the size hold no element) and replaced four
loops written out in the operations by operators of their own.

**Calls** (`CallProofs`), for any definitions, constructors, call sites and size of the
window. The argument goes by slots of the frame. `NameAt` says which parameter a slot
belongs to, `Describes` what a function knows of the definition it was made from:
signature, keyword table and the span of its defaults, whose gaps are absent. A
constructor's thunk knows the same of the definition without its first parameter
(`SignatureDropFirst`, `RemapDropFirst` and `DefaultsDropFirst` shift all three alike,
`ThunkServes`). Two halves then meet in the middle. On the side of the code, a window is
completed in place: given arguments stay, a slot that none reaches gets its default, what
is left over goes to `*args`, keywords are moved from where the caller put them to the
slot the table names, and unknown ones to `**kwargs` (`KeywordCompleted`, `Overwritten`;
no slot is read after it was overwritten). On the side of the language, `Bound` says what
each name receives and `Refused` which calls are errors. `BoundIsReceived` shows that they
agree slot by slot, `PositionalAnswered` and `KeywordAnswered` that the checks made when
the cache is filled refuse the same calls. The invariant is `CacheSound`: an entry that
still matches its callable, count and names is the one that would be made now. It is
kept because an entry is made for a callable, not for a call, and because replacing a
constructor invalidates the entries of the class (`SetConstructor`). The theorem is
`CallsAlwaysBindLikePython` (`CallsBindLikePython`). Assumptions: `WellFormedCalls`, that
is parameters of a definition have distinct names and fit the window, only parameters
have defaults, keywords of a call are distinct (`parser.cpp:1324` refuses others), and no
constructor with `**kwargs` is called with a keyword that names its first parameter, which
the code gets wrong (section 6); TLC evaluates it for the definitions and sites of the run
(`CallsWellFormed`), and `WindowSizeAssumption`: the window's size is a number.

**Register allocation** (`AllocationProofs`), for any functions, allocation order,
clobbered and fixed registers. `AllocationInv` has one part for each stage. The core is
`BundlesOK`: every bundle is a set of fragments that do not overlap; bundles that share a
live range follow one another in it (`Apart`); every position of a range and every
occurrence is in a fragment of one bundle (`PositionsKept`, `OccurrencesKept`). Merging
keeps the ranges of a bundle apart, whatever order the affinities come in (`MergeKeeps`),
and a split keeps all of it because it cuts between fragments or through one, never
through an occurrence. `TransferOK` says of every scheduled transfer that a fragment of a
value ends in the one bundle and the next fragment of the same range begins in the other,
at the position of the point where the transfer is put: this is what the verifier asks
for, and what materialization needs to find the value to move. Keeping it through later
splits of the two bundles is the longest argument: a transfer follows the part that still
touches its point, and the splitter's fatal branch (a transfer that touches both parts)
is dead because a fragment cannot lie on both sides of a boundary. `AssignOK` adds what
the loop keeps while bundles are placed, evicted, split and set aside: the occurrences of
a bundle agree on a location (`Agree`), a place respects fixed operands and clobbered
registers, bundles that share a place do not overlap (`PlacesApart`), and spill carriers
hold only what a call copies (`CopiesOnly`), so that a spill slot can serve them. Spill
slots are then a matter of intervals: the lowest free slot is below the number of
deferred bundles, and slots leave no gap. The theorems are `BundlesStaySound`,
`AllocationsNeverFatal` (`AllocationsVerify`: the verifier accepts every allocation, and
no fatal branch but the two known ones is reached) and `AssignmentLoopProgresses`
(`AssignmentProgresses`: what is evicted is lighter than what takes its place, so
the number of heavy bundles in place grows, or there are more bundles, or one
more is set aside).
What the allocator relies on about positions, anchors and ranges is `Scanned`
(`RegisterAssigner`; the code's own scan verifier in `allocation_verifier.cpp` checks
the same), and `VerifiedGraphsScanned` proves that the scanner delivers it for every
graph that passed the verifier. The scan is a concatenation of sequences of
occurrences, each under an anchor of its own (`Lists`), so no two occurrences meet
(`AnchorsVerified`); a value that may be used has an origin (the value a chain of
guards forwards) that is defined before in its block (`Rooted`, `OriginsSettled`,
by induction over the instructions); hence every range is opened exactly once, before
all of its uses, and each occurrence finds its range (`ScanOpened`, `SameRange`,
`ForwardedUse`).
Assumptions: the graphs are `CfgVerified` (`LiveRanges`), that is what `verify_cfg`
(`cfg_verifier.cpp`) checks of a graph when the builder finalizes it, and again after
every rewrite in builds with assertions: a value is defined in one place, operands
and edge arguments are defined before them in their block, edges pass as many
arguments as the target has parameters, and a call has no more operands than there
are argument registers. `RegistersAssumption` says that a call clobbers the argument
registers. TLC evaluates both for the functions of the run (`FunctionsVerified`).

Only model-checked:

* all liveness (`RequestServed`, `GarbageReclaimed`, `MovesEnd`): fairness and ENABLED
  are beyond the prover;
* everything compared with a recursive definition (statements, expressions, scopes,
  texts, integers, sequences): these modules declare RECURSIVE operators or
  would need induction over data, which the installed backends cannot do;
* `ValuesReachUses`: that each transfer finds its value is proved, that the machine code
  made of them delivers it at every use, through renaming, operand copies and edges, is
  checked by running it;
* `ProbesEnd` beyond the depth its theorem allows, where it is false.

## 5. Not modelled

Module globals (attribute caches with builtins as second level), operator dispatch
(only the trusted handlers of the built-in types), JIT facts and optimization, side
exits beyond their uses in register allocation, tiering, instruction encodings and the
emitter, extension handles, operand widths of the bytecode: planned. Floats (IEEE
arithmetic), Unicode tables, error texts and positions, file access, command line and
bootstrap: no state, or data. See "components" in `PROJECT.json` for each reason.

## 6. Disagreements found

With a run:

* `lookup_method_binding`: a class attribute that held no function when it was
  cached and holds one now is called without its receiver.
* `dict_nested_inserts`: room is made before a probe and not again after the
  equality calls of the probe; four nested insertions fill the minimal table and
  the next probe for an absent key does not end; three cannot (`ProbesAlwaysEnd`).
* `int_subtraction`: the register form of subtraction that overflows undoes itself
  with the wrong operand, and the generic path computes from it
  (`interpreter.cpp:3543`).
* `forwarded_values`: the result of an instruction that forwards an operand keeps the
  operand's location from before a transfer (`graph_rewriter.cpp:599`).
* `chains`: in `x < a < b < c` the comparison stores an operand in the local `a`
  or `x` that served as one of its two registers (`codegen.cpp:2943`).
* `handler_order`: a `return`, `break` or `continue` suspends the ranges of the
  cleanups it leaves, so their table entries are appended before the entry of a
  `try` body inside them that is still open, and win. In `with m: try: f(); return x`
  followed by `except E: g()`, an `E` raised by `f()` skips the `except` clause.

Met while modelling, without a run:

* Caches. An add plan is cached without the blocker that writes of existing
  properties have (`interpreter.cpp:2908`); inline caches hold uncounted pointers to
  validity cells (`attribute_cache.h:17`). Membership caches are keyed by the container
  only (`interpreter.cpp`, `normalize_membership_cache_entry`) although the
  handler chosen depends on the key's type (`dict.cpp:239`); the caches of ternary
  operators check one operand's cell only (`code_object.h:288`) although the table may
  call the other's method.
* Dictionaries. An `__eq__` that inserts an equal key behind a waiting probe leaves two
  equal keys (`dict.h:447`).
* Imports. A body that removes its own `sys.modules` entry and raises fails with the
  cleanup's exception, or without one (`import_system.cpp:89`;
  `doc/native-managed-boundaries.md:251`); a package that failed and is imported again
  is a new object without its cached submodules as attributes, and a submodule
  is bound while its body still runs (`import_system.cpp:86`, `:657`).
* Compiler. A `finally` body inlined by a jump is generated with the loops and the
  caught exception of the jump, so that a `continue` in it can bind to an inner loop of
  the `try` body and trip the assertion at `codegen.cpp:1856`; the class expression of
  an `except` clause is evaluated with the exception still pending (`codegen.cpp:2234`):
  a function called there that handles an exception of its own, or merely ends a `for`
  loop, takes the pending one away, and the match raises SystemError
  (`interpreter.cpp:746`), while one that calls native code meets its checks for a
  pending exception (`typed_value.cpp:13`); register operands narrow to eight bits (`code_object.h:596`).
* Front end. `2 ** -1`, `del a, b`, a trailing `;`, `for x in a, b:` and tuple targets
  of `for` are syntax errors; the interactive loop refuses `try` statements
  (`parser.cpp:2433` does not report incomplete input), runs a one-line compound
  statement before its `else:` can be typed, and gives up at a blank line inside
  brackets or a string. Two parameters of one name are accepted (`parser.cpp:2129`,
  `codegen.cpp:3439`).
* Calls. `C(self=1)` with `**kw` puts the argument into `kw`; a class with both
  `__new__` and `__init__` is not callable, nor one whose `__init__` takes `*args`.
* Integers, sequences. `0 << huge` raises OverflowError; a range near the largest small
  integer wraps (`range_iterator.cpp`); a list iterator that ended goes
  on when the list grows; slice bounds that are big integers raise OverflowError; list
  and tuple search compare words; an empty needle is found beyond the end;
  `rsplit(None, n)` strips leading blanks (pinned by `tests/python/strings.py:88`).
* JIT. A duplicate destination ends the process (`parallel_assignment_resolver.h:112`;
  `doc/jit-register-allocation.md:1554` expects it to be handled), and an output that is
  not emitted leaves a name without location (`allocation_materializer.cpp:1357`).

## 7. Plan

Done: all components listed in section 1 with a module. Open, in this order:

1. Operator dispatch with its caches (reflected operands, NotImplemented, rows of the
   dispatch tables), whose two keying errors are listed above, and module globals.
2. Side exits and tiering: a compiled activation hands over to the interpreter.
3. Extension handles; operand widths.
4. Proofs: `ValuesReachUses` (what the machine code holds), and the sequence
   operations, as far as they can be stated without recursion.
