# A TLA+ model of wasm-interpreter

The program is a WebAssembly interpreter in C: it parses one binary module,
instantiates it, calls one exported function and prints the result. It is
sequential. What makes it hard to get right is not concurrency but two stacks
that have to stay in step over every sequence of branches, calls and returns, a
parser that looks one byte ahead, sums in 32 bits, and errors raised with
`longjmp` out of the middle of an operation.

Paths below are relative to the repository's `src/` unless they begin with
`test/`. The lines every definition stands for are in `PROJECT.json`, under
`map`.

## The system

| part | state | operations | talks to |
|---|---|---|---|
| growable vector, `vec.h` | `_elements`, `_length`, `_capacity`; an iterator's `_idx`, `_dir` | add, push, set, insert, remove, pop, get, peek and their `_or` and pointer forms; iterators | everything else is built on it |
| operand stack, `stack.h` | one vector of values and markers | `push_*`, `pop_*`, `peek_*`, `drop`, `push_marker_*`, `pop_marker_*` | handlers, `control.c` |
| evaluation loop, `interpreter.c`, `control.c`, `*_opcode_handlers.h` | frames, operand stack, globals, table, current module | one handler per opcode, `fetch_next_instr`, `eval_call`, `eval_br`, `clean_to_label`, `clean_to_func_marker` | operand stack, memory, exceptions |
| numeric opcodes, `numeric_opcode_handlers.h` | none of their own | one handler per opcode | operand stack |
| linear memory, `memory.c`, `memory_opcode_handlers.h` | one current memory for the process | create, use, load, store, size | handlers, instantiation |
| instantiation, `init_interpreter` | memory, table, globals | `init_memory`, `init_tables`, `init_globals`, `init_datas`, start function | runs constant expressions on the operand stack |
| exceptions, `exception.h` | one jump buffer, one flag and one code for the process | throw, try/catch | every part throws; `interpret_function` and `parse` catch |
| parser, `parser.c` | position in the input, the module under construction | one function per construct, `read_LEB` | gives the module to the interpreter |
| host, `main.c` | the options | parse, instantiate, call once, print | all of the above |

Import linking is commented out in `import.c`.

What makes each part correct:

- *Vector*: callers see a list, although dead slots stay behind after a shrink
  and are read (`vec_pop`) or reused (`vec_resize`) later; no index is outside
  of the block. An iterator answers every entry once and says truly whether
  there is another.
- *Stacks*: there is one marker per frame, in the same order and of the right
  kind; each frame finds its own operands and no others; a branch ends at its
  target and nowhere else; an activation leaves its callers alone.
- *Loop*: a valid module runs as if every block had a stack of its own, and only
  its own traps stop it; in any module the loop never follows a NULL activation;
  a call comes back unless the module itself loops or recurses.
- *Numbers*: the result of every opcode is the number the WebAssembly specification
  gives, and only an instruction that has none may fail.
- *Memory*: an access is refused exactly when a byte of it is outside, touches
  the bytes it names and no others, and a load agrees with the stores before.
- *Instantiation*: table, globals and memory hold what the module says, or it
  fails; constant expressions leave nothing behind.
- *Exceptions*: a throw never jumps into a function that has returned; no
  `TRY_CATCH` meets the flag of another.
- *Parser*: what is built is what the bytes encode; a module with a body for each
  function is accepted, whatever the order of its sections, a cut one is recognised,
  and parsing always ends.
- *Host*: nothing thrown is lost, the guest is given the arguments of the command
  line, and the process ends unless the guest does not.

Every hazard is listed in `PROJECT.json`, at the line where it bites, with the
properties that cover it.

## The modules

    VecList <--implements-- Vec <-- VecIterator          VecProofs
    Stack <-- Code <-- Control <----- ControlTyping      StackProofs, ControlProofs
               ^-- Typing <---------------/  |
                     ^-- Structured <--implements        StructuredProofs
    Stack <-- Instantiate                                InstantiateProofs
    Parser <-- BinaryFormat                              ParserProofs
    Numerals <-- Memory, Leb128, Numeric                 NumberProofs
    Exceptions <--extends, implements-- Host             HostProofs
    Modules (valid programs for TLC), MCVec, MCControl, MCCalls, MCUnchecked,
    MCFlaws, MCInstantiate, MCParser, MCLeb128, MCNumeric, MCMemory, MCHost

**Vec** is `CREATE_VEC_` of `vec.h`. `elements` is the whole allocated block,
dead slots included, `length` and `capacity` are the fields of those names, and
`ret` is what the call returned: a value, an error, or the end of the process.
One action per call; `ReallocFails` is a call that needs memory and gets none.
**VecList** is the promise: the same calls on a list. **VecIterator** lets an
iterator run between any calls on the vector, which does not tell it of a
change; its index is a number of 32 bits and starts at -1, so sums are modulo
`Words`. `seen` and `steady` are history: what it has answered since it started,
and whether it has been turned or the vector changed.

**Stack** holds operators over the operand stack. A value is a record of
marker, type and payload; the pops that assert something are `Holds`
(assertions pass), `Mismatch` (an assertion fails first) or neither (the stack
runs empty and the vector raises). `BelowMarkers` and `BelowTopmost` are the
two ways of popping down to a marker: any marker, *n* times (`eval_br`), or the
topmost marker of one kind (`clean_to_*`).

**Code** is what a parsed module is: functions, and one vector of instructions
per body and block.

**Control** is the evaluation loop. Its variables:

| variable | code |
|---|---|
| `prog` | `module_t`: functions, instruction vectors, exports, table, start |
| `emptyRead` | blocks whose `resulttype.empty` reads true although `next_blocktype` never assigned it |
| `frames`, `opd`, `globals` | fields of `eval_state_t` |
| `clobbered` | `br_table` instructions whose `table.labels` pointer was overwritten through the union |
| `mode`, `outcome`, `callee`, `invocations` | who is running, how it ended, and for whom |

A handler together with the fetch before it is one action. The lookups and pops
every handler does first are described once: `Present` (the index exists),
`Needs` (the operand types popped), and the two actions `Absent` and
`BadOperand` for when that fails; the handler's own action has `At` as a guard.
`Raise` is a throw: in `interpret_function` it ends the call and leaves both
stacks as they are, in the start function it ends the process. `Die` is the end
of the process: a failed assertion (the build does not define `NDEBUG`), a
NULL pointer, or a division.

Abstractions: a payload is a member of `Val`; what a numeric opcode or a load
computes is any member (Numeric and Memory say which); the opcodes that pop the
same types and push the same type are one instruction. `func->type`, an index
into the types, is replaced by the signature it stands for. Local declarations
`n x type` are spelled out. `frames` is bounded by `MaxFrames` in `Enter` and the
calls by `MaxInvocations` in `Invoke`; no other bound restricts a step. The
arguments of a call are those its signature names: `main.c` takes them from the
command line and does not check, and a wrong argument would meet the assertion
of the first pop. `ReuseAfterTrap` is a host that calls again after an
exception, which the interface allows and `main.c` does not do.

**Typing** says what "valid" means. The interpreter has no validator, so validity
is an assumption on the input: a program carries its derivation (operand types
before each instruction, and the label stack of each block), no machine looks at
it, and `Valid` checks it instruction by instruction as the WebAssembly
specification does.

**Structured** is the abstract specification of the evaluation loop. There are
no markers and nothing is popped down to: every block and every activation that
has been entered is a context with a list of operands of its own, and a context
that is left takes its operands with it, but for its results. It has no action
for a failed assertion or an empty stack: an instruction that does not find what
it needs has no step. `prog` is chosen from the same `Programs`.

**ControlTyping** puts the two together. Its refinement mapping reads the two
stacks of `Control` as contexts: frame *k* owns the part of the operand stack
between its marker and the next (`Segment`). If the stacks are out of step, the
markers become operands of the contexts, so that a slip shows at once.
`Handled` leaves out of the runs what the interpreter gets wrong (see "Where the
code differs"): an `if` without `else`, loops with a result, a `call_indirect`
that names another signature, `clz`, `ctz`, `popcnt`, and division. Nor does a
`br_table` run twice (`BrTableOnce`): in the modules of the runs none is in a loop or
in a function that is called again. All of them are actions of `Control`
nevertheless and are exercised by the run `unchecked`.

**Instantiate** is `init_interpreter`: memory, imports, table, element
segments, globals, data, required sections, one action per item. `i` is a
variable because the loop over segments and the loop inside it share it
(`table.c:36`). Arithmetic on offsets is modulo `Word`, which stands for 2^32.

**Parser** is `parser.c` as a machine whose variable `calls` is the C stack: a
frame per `next_` function that has not returned, with what it has yet to read
(`todo`) and what it has read. One action reads a byte or a number, looks one
ahead, returns, or throws. An element of the input is a byte; where the parser
reads a number, it is the whole LEB128 number, and `Overlong` is one with too
many digits. `CheckMagic` to `AssignTypes` are the phases of `_parse`.
**BinaryFormat** is the encoder the parser is judged by, written from the binary
format: a section, a function or an instruction is the tuple of its fields.
`LastSectionWins` is stated in Parser, for it needs no encoder.

**Numerals** has powers and the numbers digits stand for, by recursive functions.

**Leb128** is `read_LEB`, one action per byte, on a register of `2 * IntBits`
bits; a number is the set of its one bits, so that `|` is union and a shift moves
the members. The shift of the sign is one of an `int`, as in the code. `Value` is
what LEB128 says the bytes stand for. Its specification is `LebSpec`, and that of
Numeric `NumericSpec`, because NumberProofs extends both together with Memory.

**Numeric** is one step per opcode on bit patterns of two widths, signed where
the handler copies the operand to a signed variable. `&`, `|` and `^` are the
intersection, the union and the difference of the places of the ones. Floats are a
sign and a magnitude in halves, with infinities (`Inf`) and NaN. What is computed
(`Calculated`, `ShiftedBy`...) is one set of definitions, translated from the handlers;
what should be (`RightShift`, `RightDivision`...) is another, which does not use the
first: a sum is what gives one operand when the other is subtracted, a shift is told
bit by bit, a division by its quotient and its remainder.

**Memory** has the bytes, the address check of `calculate_address` with its sums
modulo `Words` (2^32 in the code), loads and stores at every width, little
endian. `Wild` is an access that passed the check and is outside of the block:
what it does is not defined, and the run ends there.

**Exceptions** is `TRY_CATCH` and `THROW_EXCEPTION`: the flag, the code and the
buffer under a C stack of functions that call, try, throw and return in any
order, so long as none returns from inside of a clause. **Host** is `main.c`
from its options to its exit status and uses the actions of Exceptions: `parse` and
`interpret_function` catch, `init_interpreter` does not. What the parser, the
instantiation and the guest do is a number of calls and perhaps a throw from any
depth.

**Modules** enumerates all valid functions up to a number of instructions over
a choice of opcodes, block types, labels and callees, with their derivations.
The MC modules choose the opcodes.

## The runs

All configurations say `CHECK_DEADLOCK FALSE`: the process really ends, and so
do parsing, the reading of a number and an instruction.

| run | instance | shows |
|---|---|---|
| `vec` | 2 elements, up to 3 entries, realloc may fail, an iterator | `TypeOK`; the vector is a list (`ListUntilCrash`); `EveryEntryOnce`, `HasNextHonest` |
| `control` | all valid functions of one activation, four opcode families, 4 to 6 instructions | `MarkersMatchFrames`, `OperandsMatchTyping`, `ImplementsStructured`, `OnlyLoopsRunForever` |
| `calls` | all valid pairs of functions, three families: direct calls with arguments and leftovers, calls through a table, recursion with a shared global and a start function | `OperandsMatchTyping`, `LabelsMatchContexts`, `ImplementsStructured`, `CallersUntouched`, `EveryCallEnds` |
| `unchecked` | modules that are not valid, two calls, the second also after an exception, both readings of the uninitialized flag | `TypeOK`, `BottomIsActivation` |
| `instantiate` | at most one element segment, two globals, one data segment, pages of 2 bytes, words of 3 bits; valid and invalid modules, missing and doubled sections | `TypeOK`, `GlobalsInitialized`, `TableFilled`, `DataInBounds` |
| `parser` | every body of up to 2 instructions (nested ones counted), every sequence of up to 2 of 18 sections, 23 modules with each byte changed or the file cut before it | `ReadIsEncoded`, `ValidAccepted`, `TruncationSeen`, `LastSectionWins`, `ParseEnds` |
| `leb128` | digits of 3 bits, an `int` of 4; unsigned and signed of 4 bits, signed of 8 | `ValueDecoded`, `OverlongRefused` |
| `numeric` | i32 of 4 bits with all values, i64 of 8 with the small ones and the edges, floats around zero and at the edges | `ResultRight`, `DiesWithoutResult` |
| `memory` | 8 addresses, pages of 4 one-bit bytes, 1 or 2 pages, accesses of 1, 2 and 4 bytes | `RefusedIffOutside`, `StoreThenLoad`, `OthersUntouched` |
| `host` | every command line of up to 4 of 9 options, 6 C frames, 3 calls below `_parse` | `JumpsAreSafe`, `ThrowsAreReported`, `ArgumentsAsGiven`, `FollowsProtocol`, `Stops` |
| `loop_over_table`, `dispatch` | one module each | two disagreements, see below |

Why the bounds are enough.

- `vec`: a vector of three entries grows past a capacity it has shrunk below,
  with dead slots that hold other elements than the live ones. The iterator may
  be called one step behind either end (`MaxPast`), which is where its index
  wraps around; `Words` only has to be larger than all indices.
- `control`: five instructions nest two blocks with operands left in each and a
  branch out of both that carries a result; the loop family repeats an inner
  loop from an outer one and leaves both; six instructions fill both paths of a
  conditional with a branch.
- `calls`: five instructions put operands of the caller below the arguments, and
  three let the callee leave operands behind, set a local and return from inside
  a block; a depth of four frames lets a recursion go three deep.
- `unchecked`: two instructions in a block are enough to take one entry too many,
  leave one too many, or branch past the bottom, and two calls for the second
  to run on what the first left.
- `instantiate`: the offsets reach one past the end of the table and of the
  memory. Those that wrap and a second element segment are left out, for the
  code is wrong there.
- `parser`: two instructions nest a block in a block, fill both paths of an `if`,
  and put an instruction with every kind of immediate before or after an end; two
  sections come in either order and as a pair of the same kind. An immediate
  takes the values 5 and 11 too, the bytes of `else` and `end`, so that one taken
  for the other is seen. A byte is changed to an end, an else, the mark of a
  type, a section's id, a count that is too large and a number that is too long.
- `leb128`: neither 4 nor 8 bits are a multiple of 3, as 32 and 64 are none of 7,
  and a number of 8 bits outgrows the `int` before it fills its type, as one of 64
  does; every padded form up to one digit past the limit is read.
- `numeric`: 4 bits have every sign, every shift count below, at and above the
  width, and every quotient that does not fit; 8 bits tell the two widths' masks
  apart; 600 does not fit into any integer.
- `memory`: two pages fill the address space, so the size wraps to 0, as 65536
  pages do in the code; addresses and offsets reach past both.
- `host`: four options hold a path, a function and two arguments, or the same
  option twice; six frames leave two below `_interpret_function` to throw from.

Fairness. `WF_vars(Step)` in Control, for the loop only and not for the host, and
in Parser, `WF_vars(Next)` in Host: each is a sequential loop of one process,
with no lock and nobody to wait for. `EveryCallEnds` is stated for the modules
without loops whose functions call only functions before them (`Terminating`),
most of those of the run `calls`; the recursive ones end at the bound
`MaxFrames`. `OnlyLoopsRunForever` is checked on functions that call nothing.
`ParseEnds` needs no assumption on the file, and `Stops` none on the guest: it
may run for ever, and then the process does.

`ImplementsStructured` is `S!Instantiated /\ [][S!Next]_S!vars` rather than
`S!Spec`: `prog` is the same variable in both, and both choose it from
`Programs`.

## Where the code differs

Two violation runs, each on the smallest module that has the case:

| run | property | what happens |
|---|---|---|
| `loop_over_table` | `LabelsUsable` | the first `br_table` overwrites the pointer to its labels (`src/control_opcode_handlers.h:123`), which share their bytes with `labelidx` |
| `dispatch` | `IndirectTypeChecked` | the signature of an indirect call is not compared (`src/control_opcode_handlers.h:140`; `test/call_indirect.wast:469` expects a trap) |

What follows was met while modelling. The models do what the code does; the
properties or the instances leave the case out where they would fail.

- An `if` without `else` whose condition is 0 has pushed its label marker
  (`src/control_opcode_handlers.h:76`) and enters nothing that would pop it; the
  next typed pop of the enclosing block fails its assertion (`src/stack.h:61`).
  Left out by `Handled`.
- A branch back to a loop with a result pops the result
  (`src/control_opcode_handlers.h:14`), which is not there:
  `test/labels.wast:295`, `(assert_return (invoke "loop4" (i32.const 8))
  (i32.const 16))`. Left out by `Handled`.
- `next_blocktype` never assigns `empty` when there is a type
  (`src/parser.c:194-201`); if it reads true, the result of the block is
  forgotten: `test/block.wast:253`, `(assert_return (invoke "singular")
  (i32.const 7))`. `UninitReads` has both readings; the runs on valid modules take
  the one that is right.
- The offset of an element segment is evaluated in a loop that counts `i`, the
  segments (`src/table.c:36`), so the second segment is skipped. The run has one.
- Offset and length of the data segment are added in 32 bits
  (`src/interpreter.c:108`); a sum that wraps passes the check. The run's offsets
  do not wrap.
- `clz`, `ctz` and `popcnt` peek at their operand and push the result above it
  (`src/numeric_opcode_handlers.h:439-452`), which stays under it. Numeric and Control
  have the operand that stays, and the result is right (`ResultRight`); no property
  says that it takes the operand's place, and the runs on valid modules leave the
  three out (`Handled`).
- A quotient or remainder that does not exist or fit ends the process instead of
  trapping (`src/numeric_opcode_handlers.h:454-476`): `DiesWithoutResult` says that
  nothing else does. But `rem_s` of the least number by -1 ends it as well, for the
  processor divides, and there is a remainder: `test/i32.wast:106`, `(assert_return
  (invoke "rem_s" (i32.const 0x80000000) (i32.const -1)) (i32.const 0))`, and
  `test/i64.wast:106`. It is one of the exceptions (`Deviates`).
- `i64.rotr` masks its count, and the count back, with 31
  (`src/numeric_opcode_handlers.h:583`), and is wrong for every count that is not a
  multiple of 64; `min` and `max` do not tell the zeros apart; and a float that fits
  no integer is converted without a trap: `Deviates` in Numeric. Every other result is
  right (`ResultRight`).
- Address and width are added, and the size of the memory computed, in 32 bits
  (`src/memory_opcode_handlers.h:16-17`): an access near 2^32 passes, and a memory of
  65536 pages refuses everything. `RefusedIffOutside` is stated for sums that do
  not wrap (`Small`); `memory.grow` is not implemented and throws.
- `read_LEB` accepts one byte more than it should (`src/parser.c:60-61`;
  `test/binary-leb128.wast:517`, `i64.const -1 with one byte too many`), and
  extends the sign of an `s64` with a shift of an `int` (`src/parser.c:67`), which is
  misplaced when the digits are more than an `int` and fewer than the type has
  (`SignMisplaced`).
- A module without a function section is refused, for the loop that assigns the
  types asks a NULL vector for its length (`src/parser.c:850`; `test/binary.wast:1`
  has the empty module as a valid one). `ValidAccepted` makes the exception.
- Nor does that loop compare the lengths of the two sections, and no code does. With
  fewer functions than bodies (`test/binary.wast:394-403`, `function and code section
  have inconsistent lengths`) the module is accepted, and the bodies that are left over
  have type 0; with more functions than bodies (`test/binary.wast:383-392`) a vector
  throws. `ValidAccepted` is about modules where the two are of one length
  (`Consistent`); `LastSectionWins` says which bodies get a type.
- An `-a` of an unknown type is reported and then added all the same, with the
  value of the one before or none at all (`src/main.c:34`, `src/main.c:59-64`);
  `ArgumentsAsGiven` is about known types. Without `-p`, `fopen` is given NULL.
- `vec_resize` tests `vec` where it means to test what `realloc` returned
  (`src/vec.h:64`), so `ReallocFails` ends the process, and the list is promised until
  then.

`run_tests.py` runs one process per assertion and skips `assert_trap`, so the
traps are not covered by the tests.

Undefined behaviour: a shift by the width or more is taken modulo the width,
which is what the shift instructions of the processors the program is built for
do; an uninitialized value is any value; what follows a wild access is not
modelled.

## The theorems

For all values of the constants. The assumptions say that bounds are numbers
(`VecAssumption`, `ControlAssumption`, `LebAssumption`, `MemoryAssumption`,
`ExceptionsAssumption`), that the index of an iterator does not run through the
whole of its 32 bits (`IteratorAssumption`), that every program is one (`CodeAssumption`: instructions
are of the known forms, blocks refer to vectors that exist, exported functions
exist, and so does the start function, which takes nothing), that the widths of each
type in memory are numbers with a greatest among them and the stored values are numbers
(`MemoryAssumption`), that no number is wider than the register it is read into
(`LebAssumption`), that the width of an `i32` is a power of two, operands are of their
types, and twice a pattern is below infinity (`NumericAssumption`), that files are sequences of bytes (`ParserAssumption`), that every module given to
`Instantiate` has the sections the parser can have built (`InstantiateAssumption`),
and that the names of the C functions of Host are among the functions and command
lines are sequences of arguments (`HostAssumption`).
`TypingAssumption`, that every program is valid, is used by `StructuredProofs` and by
the second half of `ControlProofs`, which alone uses `HandledAssumption`.

- `VecProofs!TypeCorrect`: the type invariant of the vector is inductive.
- `VecProofs!VecImplementsList`: every step of the vector is a step of the list,
  a stutter, or the failed allocation. Case by case over the calls, the live
  part of the block after a resize is the list's answer (`Extended`).
- `VecProofs!IteratorKeepsVector`, `!IteratorComplete` and `!HasNextIsHonest`: an
  iterator is a client of the vector like any other, answers every entry once, and
  keeps what `vec_has_next` promises. `IteratorInv` says where the index is while
  nothing disturbs the iterator (`IndexStands`): at its start (-1, or the length), on the
  last entry answered, or at most `MaxPast` beyond the end, and that `seen` is that part
  of the vector. Only there do its sums wrap around.
- `ControlProofs!TypeCorrect` and `ControlProofs!ActivationAtBottom`, for modules
  valid or not. The type invariant is not inductive on its own: `local.set`,
  `local.get` and `return` look up the activation with `CHOOSE`, and that has a
  value only if there is one. `IInv` there is the types, the activation at the
  bottom, and the fact that while a call runs the function it was made for exists
  (`Finish` looks up its results). A branch keeps it because what it leaves of
  the frames is a prefix, up to the `ip` of one. `StackProofs` has the lemmas
  about the pops: a pop down to a marker returns a prefix, and there is a topmost
  marker if there is one at all.
- `StructuredProofs!OperandsTyped`, `!LabelsAlive` and `!Soundness`: type
  soundness of the abstract machine, for every valid module of any size. `Soundness`
  says that it is never stuck: whenever an instruction is fetched, its operands,
  its index and its branch targets are there. This is what the assertions of
  `stack.h` stand for, and by `ControlProofs!RunsStructured` it is what the
  interpreter does.
  The invariant `IInv` is `Good`: every context suits its block (`Suits`: kind,
  result, types of the locals), its labels are the contexts below it (`Labelled`),
  and it fits its typing (`Fits`): its operands, with the results it waits for from
  the context above, have the types of its next instruction. The two published
  invariants are not inductive one without the other: a branch needs the labels to
  find the context it returns to, and the operands to find what it carries there;
  neither is without `Suits`, which says that the result of a context is that of its
  block. `Good(p, cs, await)` has the awaited types as a parameter, so that leaving
  a context, entering one and passing on values are three lemmas (`GoodTop`,
  `GoodAppend`, `LeaveKeeps`) every instruction is put together from. Progress is
  proved from the same invariant (`AlwaysReady`).
- `ControlProofs!RunsStructured`, `!StacksInStep`, `!FramesFindOperands` and
  `!LabelsAreFrames`: the interpreter, with its one operand stack and its frames,
  implements the abstract machine, and the three invariants that relate the two
  stacks. For every valid module of any size, any number of calls and any depth of
  recursion, under four hypotheses, each of which leaves out what the code gets wrong:
  `HandledAssumption`; `UninitReads = {{}}`, that the flag nobody assigns reads as
  false; `ReuseAfterTrap = FALSE`, that the host does not call again after an
  exception (the stacks are then as the exception left them); and `[]BrTableOnce`.
  The argument has three layers. `StackProofs` describes a stack by its layout
  (`Laid`): where its markers are, and which values lie between them; what a push, a
  pop, and a pop down to the *n*-th marker or the topmost of a kind do to a layout.
  `Sim`, in `ControlProofs`, joins the frames to the layout, and its lemmas say what
  each pair of changes to the two stacks does to the contexts they are read as. The
  mapping of `ControlTyping` counts markers; that it reads a layout back is
  `SimContexts`. On top of it, one lemma for each action of `Control` shows that it is
  an action of Structured (`ConstFollows`, `BranchFollows`, ...). Its guards are the
  point: that a handler finds its operands, that an index exists, that a branch has a
  target with its result above it, and that a marker is there to pop down to, is not in
  the invariant of the two stacks; it is what `AlwaysReady` says of a context in a state
  where the invariant of Structured holds, so `SimInv` carries that invariant through the
  mapping. Two facts are about the end of a call: what the contexts owe the host is what
  the function called returns (`Returned`, kept by `StructuredProofs!OwesKept`), and
  between calls both stacks are empty (`Rested`); without the first `Finish` might find
  one value too many, without the second a call would begin on the remains of the last.
- `ControlProofs!CallersSpared`, under the same hypotheses: an activation leaves the
  operands, the frames and the locals of its callers as they are. `Untouched` says of a
  step that both stacks are as before up to the marker and the frame of the running
  activation. It does not follow from the code of a handler, which pops whatever it
  pops; it follows from the layout (`SimCallers`): operands of the innermost context
  end above the marker of the activation, and so does a pop down to that marker or to
  one of a context above it. That a handler pops only such operands is `NeedsWithin`,
  from the needs of its instruction; that a branch goes no further than the activation
  is that its target is one of the labels of the context; a pop that fails is excluded
  by the simulation.
- `NumberProofs!LengthBounded`: a number is refused for its length only with more
  digits than any encoding of the type has, and never read further than one digit
  beyond. Inductive: the number of digits is bounded while reading goes on.
- `NumberProofs!NumberDecoded`: whichever way a number is written, padded or not, and
  for every width of a digit, an `int` and a type, `read_LEB` returns what LEB128 says.
  `Gathered` says that the register holds the digits read so far, laid end to end
  (`Stream`), as far as it has room; no shift wraps around while the number is not too
  long (`NoWrap`). The rest is about numbers: the bits of the stream, cut up into digits
  (`Piece`), stand for the same number (`Regrouped`), and a value in range has nothing but
  copies of its sign beyond the width of the type (`FitsUnsigned`, `FitsSigned`).
- `NumberProofs!BoundsExact`: the check of `calculate_address` is exact for every
  size of the address space, of a page and of the memory, when no sum wraps.
  `!StoresStayInside`: no step changes a byte that is not one of the access.
  `!LoadsWhatIsStored`: a load of an address just stored to gives the value back,
  modulo its width and with its sign, and when the sum has wrapped too. `Remembered`
  says that after a store the bytes from its address on are the digits of the value;
  that those digits stand for the value is `DigitsOfNumber`.

- `NumberProofs!NumbersRight` and `!OnlyWithoutResult`: every numeric opcode, of every
  width, has the result WebAssembly gives it, and ends the process only if there is none,
  where the code does not deviate.
  `NumericInv` is simple, for an instruction is one step: operands of the instruction's
  type wait on the stack, and what a finished one left is its result. The substance is a
  lemma for each kind of instruction (`ShiftOpsRight`, `DivisionRight`, ...), which shows
  that what the handler computes is what it should. Shifts and rotations are followed bit
  by bit (`BitOfProduct`, `BitOfQuotient`, `BitOfRemainder`, `SignedBit`); the masks, by
  the places of their ones (`Mask`, `UpperOnes`), and `RotationCounts` is where `i64.rotr`
  fails: the count and the count back add up to the width only under the mask of that
  width. For divisions, `TowardsZero` is the division of C, and that a quotient leaves the
  range only for the least number by -1 is why `Refused` is exact.

  All of these rest on lemmas about `Power` and `NumberOf`. The library's induction theorems
  are out of reach (they take a predicate as a parameter), so `Induction` is the one
  about sets: a set with 0 and the successor of each member has all numbers, for else
  the complement would have a least member. That a recursive function has the values
  its equations say is no axiom either: `RecursiveFunction` puts a solution together
  from those on `0..n`, and the function, which is a choice of some solution, then is one.
- `ParserProofs!SectionsInAnyOrder`: a parsed module consists of the last section of
  each kind, wherever it stood, and its bodies have the types the function section
  names. For every file, well-formed or not. `FieldsOfLast` is the invariant: each field
  is what the last section so far said. It needs to know that the value
  `next_section` returns is one of a section, through whatever functions were active in
  between; `Stage` says how far `next_section` is by what it has read and has yet to
  read, and that it waits unchanged while functions run above it (`InContentStep`); what
  any step does to the C stack has three forms (`StepForms`). That the content of a
  function and of a code section is a sequence, so that its length is a number, is part
  of it (`IsSection`).
- `InstantiateProofs!TypeCorrect`, `!GlobalsRight`, `!TableRight` and
  `!DataStaysInside`, for modules with any number of globals, segments and entries.
  The types are not inductive alone: `Typed` says for each phase which of memory,
  table and globals exist, and that the operands are literals of the module (that is
  what bounds an offset); `Copied` says that nothing has been copied before the data.
  `Emptied`: between two items of a valid module the operand stack is empty.
  `GlobalsSoFar`: the first `i` globals have the values their equations give them.
  That the equations have one solution only, and the recursive function `Initial` is it,
  is a least counterexample (`OneInitial`). `TableSoFar` does the same for the table.
  The last two theorems have a hypothesis on the modules: the end of a data segment is a
  number of a word (`DataEndsInWord`); and there is at most one element segment, whose end
  is one too (`TableFitsWord`). It leaves out what the code gets wrong: the check of
  the data segment wraps around, and the second element segment is not initialized.
- `HostProofs!JumpTargetsAlive`: no jump into a function that has returned,
  under any functions that call, try, throw and return in any order. `ExceptionsInv`:
  when the flag is set, the buffer is of a frame that is still on the stack and
  inside of its try clause, and no other frame is in one.
- `HostProofs!HostJumps` and `!NothingLost`: every step of the process is one that
  Exceptions allows, so that its theorem holds of it; and no exception is lost.
  `HostInv` says for each place of `main` how deep the C stack is, whether the flag is
  set and of which frame the buffer is, and that what has been thrown is in `ex` or has
  ended the process.
- `HostProofs!HostFollows`: the process uses the one flag and the one buffer as
  `TRY_CATCH` needs them used, which Exceptions itself does not ask for: it has a
  `TRY_CATCH` inside of another, and a throw without one, as steps that abort. `GuardInv`
  adds to `HostInv` that only the second frame, of the function `main` has called, is
  ever in a clause; with the flag of `HostInv` that leaves the throw of
  `init_interpreter` as the one step that aborts.
- `HostProofs!ArgumentsRight`: the guest gets the arguments of the command line.
  `ArgumentsInv`: after `n` options there are as many parameters as arguments among the
  first `n` options, the *j*-th argument at place *j*.

Only model-checked: that what the parser builds is what the bytes encode
(`ReadIsEncoded`, `ValidAccepted`, `TruncationSeen`), because the encoder it is judged
by is recursive over syntax. Liveness under fairness (`OnlyLoopsRunForever`,
`EveryCallEnds`, `ParseEnds`, `Stops`) and `ENABLED` are out of the prover's reach.

## Not modelled

- Import linking: `init_imports` is commented out and not called. The imports a
  module names are parsed, and instantiation passes them over.
- `strings.h` and the texts of messages, the printing of results: no decision
  depends on them.
- The float functions of the C library (`sqrt`, `floor`, `ceil`, `nearest`, `trunc`)
  and float arithmetic with its rounding: they are IEEE 754's and the library's.
  Reinterpretations, demotion and promotion, which copy or round bits.
- Headers without behaviour, the unit test programs, and freeing (the program
  never frees what it uses again).

## The plan

A statement on modules alone that keeps a `br_table` from running twice, in the place
of `BrTableOnce`.
