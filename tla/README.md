# Pakeles in TLA+

Pakeles turns a declarative description of a bounded wire-format parser (the
*IR*) into parsers for several targets, a reference interpreter, test vectors
and oracles. This directory holds specifications of its core, the TLC
configurations that check them on small instances, and proofs that TLAPS checks.

All paths below are relative to the repository; `rs/` stands for
`rust/pakeles/src/`.

## 1. Inventory

| component | source | state it keeps | operations | what makes it correct |
|---|---|---|---|---|
| IR and expressions | `proto/pakeles/ir`, `rs/ir/mod.rs`, `rs/interp/eval.rs`, `bits.rs` | none | evaluate, match, read bits | 64-bit wrapping arithmetic, total on well-formed programs |
| reference interpreter | `rs/interp/mod.rs` | cursor, region stack, environment, metadata, headers, trace, depth | one loop over states: extract, assign, push/pop regions, select | never reads past the input or a region, always ends, one verdict, right reject class |
| validator | `rs/ir/validate.rs` | fixpoint map of definitely extracted instances; region depth per state and a worklist | structural checks, definite extraction, region depth | accepts exactly what the interpreter runs without `Err` |
| pipeline | `rs/ir/mod.rs` (`ValidatedIr`) | the validated program | `new`, then run | nothing unvalidated is run |
| generated C parser | `rs/codegen/c.rs` | cursor, fixed region array, result struct, loop counter | the emitted function | same verdict, length, metadata, headers as the interpreter |
| shipped C parsers | `examples/*/gen/parser.c`, `parser.h` | cursor, loop counter, one-slot region array, result struct | `pk_eth_ipvx_l4_parse`, `pk_tlv_items_parse`, `pk_counted_items_parse` | never reads outside the packet; finds every field where the description of the format puts it |
| shipped eBPF parsers | `examples/*/gen/parser.bpf.c` | as C, and a frame with a length prefix | `pk_entry`, the same cases with masked indices | does what the C parser does; the packed word says what the struct does |
| generated Lua, P4 | `rs/codegen/lua.rs`, `p4.rs` | as C | as C | as C |
| alignment analysis | `rs/codegen/mod.rs` | congruences mod 8 per state | fixpoint | a field said to be aligned is, on every path |
| symbolic engine | `rs/symex/engine.rs`, `pathid.rs`, `testgen.rs` | path condition, symbolic store, coverage, limits | depth-first enumeration with scopes | every path once, scopes balanced, path identity agrees |
| solver session | `rs/symex/z3solver.rs` | assertion stack, epoch, cached model, pending bounds | push, pop, assert, check, model | a cached model satisfies the assertions it is used for |
| test vectors | `rs/testvec.rs` | none | decode, validate, limits | canonical bit strings |
| PCAP reader | `rs/pcapio.rs` | reader, counters, `done` latch | `next` | limits hold; nothing after an error |
| process runner | `rs/process.rs` | child, writer and two drain threads, deadline | `run_with_input` | past its deadline waits for nothing but a killed child's death and a fixed grace; complete output, no orphan group |
| BMv2 oracle | `rs/oracle/bmv2.rs` | switch process, output files, stall timer, global lock | `run_batch`, `run_chunk` | one answer per packet |
| atomic file writes | `rs/fsutil.rs` | a temporary file | write, sync, rename | old or new, never torn |
| builder, CLI, docs, diagrams, fixtures, Python eDSL | `rs/builder.rs`, `cli.rs`, `docgen.rs`, `viz.rs`, `python/` | none | construct IR, print | — |

**How they interact.** A front end emits IR. `ValidatedIr::new` runs the
validator; only its result can be given to the interpreter, the code generators
and the symbolic engine. The engine enumerates the paths of the same program
with a solver session and emits vectors; the interpreter runs them and its
answers are compared with those of the generated parsers, which the process
runner and the BMv2 oracle execute. The output of the C generator for three
examples is part of the repository: those files are programs of their own, with
real widths, and are compiled and loaded as they stand.

**Where it is hard.** (a) Untrusted lengths: pushes and runs take their length
from the packet, in wrapping words, and nest. (b) Two fixpoints over cyclic
state graphs that a run later relies on without checking. (c) Two
implementations of one semantics with different storage: lists against fixed
arrays and a struct that keeps the last extraction. (d) Real concurrency in the
process runner. (e) A depth-first walk that keeps a solver's scopes in step with
its own frames, reuses models, and whose paths a second piece of code names again
from a run. (f) C without a checker: an array that is never initialised, unsigned
differences that wrap, an index masked only to please a verifier, three results
in one word. (g) In the components that are not modelled: reading a file while it
is written, crashes between write and rename. `PROJECT.json` lists each hazard at
its line with the property that covers it.

## 2. Modules

```
IR ── Interp ── InterpProperties ──┬── Pipeline (with Validator) ── AlignedRuns (with Alignment)
 │       │            │            │                                   └── Conformance (with CParser)
 │       │            │            ├── Truncation (two copies: More == INSTANCE InterpProperties)
 │       │            │            └── PathIdentity (with PathEngine) ── Symex (with Structure)
 │       │            └── INSTANCE BoundedParser                           └── MCSymex (with TermMeaning)
 ├── Structure ── Validator
 ├── Alignment ── CParser
 ├── Terms ──┬── PathEngine ── INSTANCE SolverSession
 │           └── TermMeaning
 └── Zoo ── Families   (programs for the MC modules)

ShippedCore ──┬── EthIpvxL4 ────┐
              ├── TlvItems ─────┼── ShippedParsers ── ShippedBpf ──┬── MCShipped ── INSTANCE WireFormat
              └── CountedItems ─┘                                  └── ShippedProofs   (theorems)

ProcessRunner ── ProcessProofs   (theorems)

InterpProofs ──┬── PipelineProofs ── AlignmentProofs ── ConformanceProofs    (theorems)
               ├── TruncationProofs                                          (theorems)
               └── SymexProofs                                               (theorems)
```

* **IR**: the schema of a program as sets of records, expressions, `EvalExpr`
  and `EvalEntry`, successors, references. A machine word has `WordBits` bits in
  place of 64. Names are numbers, so a program is a finite record. Expressions
  are not built recursively from a grammar: `Exprs` is the constant set of
  expressions the programs use, closed under sub-expressions, and `EvalExpr` is
  a recursive *function* over it. That keeps the module within reach of the prover.
* **Interp**: `run_bits`. Variables are the locals of that function (`depth`,
  `cursor_bits`, `regions`, `env`, `meta`, `headers`, `trace`), plus where it
  is: `pc`, `ix` (the extract, assign, region operation or transition of the
  state), `fx` (the field). Actions follow the loop body: `EnterState`
  (trace, depth check), `BeginExtract`, `ReadFixed`, `ReadRunField`,
  `EndExtract` (the lookahead restore), `AssignMetadata`, `PushRegion`,
  `PopRegion`, `TakeDirect`, `TakeSelect`, and `Malformed` where the code
  returns `Err`.
* **BoundedParser**: the abstract specification. A budget of states, an input,
  bits committed forwards, one verdict ("err" stands for the `Err` of `run`).
* **InterpProperties**: invariants of a run and the refinement mapping to
  `BoundedParser`. `consumed` is the cursor, except under a lookahead, where it
  is the entry cursor: what a lookahead reads is not committed.
* **Structure**: the structural checks of `validate_with_limits`, which the engine
  relies on as well (`enumerate_all` takes a `ValidatedIr`).
* **Validator**: `validate_with_limits` in three stages. `CheckStructure`;
  `SweepState`/`EndSweep` (one state of the fixpoint loop; one end of the
  `while changed` body) and `CheckUses`; `VisitState` (one element taken from
  the worklist), `AcceptProgram`. The worklist is a set: TLC explores every
  order, of which the code's stack order is one.
* **Pipeline**: validation, then one run on any packet.
* **Alignment**: `entry_alignments` with its worklist, one action per state
  visited, `expr_mod8` and `field_alignment`. A byte has `ByteBits` bits.
  **AlignedRuns**: the analysis, then a run of the interpreter.
* **CParser**: the function that `codegen/c.rs` writes, with its own variables:
  `off`, `pk_region_end` (any contents at first: the array is uninitialised),
  `pk_rsp`, the struct `out`. `CLoad` reads whole bytes where the alignment
  analysis lets `byte_load_expr` do so. **Conformance** validates, analyses, and
  gives the same packet to the interpreter and the C parser. The two share nothing,
  so they take their steps side by side; one that has ended waits for the other.
* **Terms**: the terms and constraints that the symbolic engine builds.
  **TermMeaning**: what they mean in wrapping words, the reads in them, their
  normal offsets and intervals. These recurse over terms, so the engine and the
  session take them as constant operators (`Value`, `Holds`, `Reads`, `Addends`,
  `Interval`) that the configurations of the runs give: what is proved of the
  engine holds for any meaning.
* **SolverSession**: `Z3Session`: scopes, the epoch, the cached model, the ladder
  of lengths, the packet of a model. A model maps each read to a word; `Solutions`
  has all of them, which is the solver. Which one it returns is its choice, so a
  session keeps the *set* of models it may hold; what is shown holds for each.
* **PathEngine**: `engine.rs`. The walk is recursive and the code after a
  recursive call matters (it leaves scopes), so `calls` is the call stack and one
  step is one activation up to its next call: `WalkState`, `FixedField`,
  `RunField`, `WalkPush`, `WalkPop`, `TryArms`, `TryDefault` and so on, with
  `Leave` for what remains to do after a call. `ctx` is `Ctx`; a frame is
  `Frame`. `?` and `bail!` are `Bail`; a ceiling sets `limit_exceeded` and
  unwinds.
* **PathIdentity**: `path_id`, from the report of the interpreter.
  **Symex**: enumeration, then a packet or a witness through the interpreter, as
  testgen, cov and lint use them.
* **Truncation**: a run on a packet beside a run on an extension of it: a second
  copy of the interpreter's variables, whose operators are those of
  `InterpProperties` by substitution. The two calls share nothing, so taking their
  steps together (`Next /\ More!Next`) leaves out no behaviour of either; a copy
  that is done stutters, and TLC finds no deadlock, so neither holds the other back.
* **ShippedCore**: the statements the shipped parsers are made of: the bounds
  check and load of a field, the field of variable length, the loop with its
  counter, `pk_*_parse` around the core. Offsets are those of the code. A loaded
  value is kept as the place it was loaded from (byte indices after masking, bit
  skip, width) and evaluated only where a length or a select needs it; unsigned
  subtraction wraps at `WordSize`. `line` is the next statement of a case.
  **EthIpvxL4**, **TlvItems** and **CountedItems** are the switches of the three
  parsers, one action per case; **ShippedParsers** composes them.
* **ShippedBpf**: the same cases with `buf[i & PK_BUF_MASK]` (the mask is one less
  than a power of two, so it is a remainder), by `INSTANCE` of `ShippedParsers`
  with another `Variant`; `pk_entry` rebuilds the length from the eight bytes of
  the prefix and packs outcome, reason and length in a word.
* **WireFormat**: the abstract specification of the three: from a packet alone,
  with no cursor and no loop, the place of every field, the headers present, the
  metadata and the verdict. It is written from the descriptions of the formats,
  `examples/*/*.py`, not from the C.
* **ProcessRunner**: `run_with_input`. The caller's actions are the two early
  returns (`StartClock` for a timeout that cannot be represented, `PollFails`),
  the poll (`PollExited`, `PollRunning`), the two halves of `terminate`
  (`Terminate` sends the signals, `TerminateWait` is the return of `wait()` and
  the look at the clock after it; between them the caller is blocked and time
  passes), and `finish_by` in its two uses (`KeepWaiting` with `Joined` or
  `GiveUp` before the deadline, with `GraceOver` after the kill). `WriteAll` and
  `ReadBounded` are the three threads, `ReadFails` a drain whose read fails.
  `Emit`, `Consume`, `Close`, `Fork` and `Exit` are the operating system's side: a
  process may take these steps in any order, at any time until it is signalled, and
  `Exit`, its death, at any time at all. A descendant starts with the pipe ends that
  its parent holds then, in the group or out of it. Bytes are counted. `died`, the
  instant of the child's death, is there for the property only.
* **Zoo**, **Families**: the programs that TLC runs. The Zoo has the
  repository's own examples scaled to a few bits (`tlv_items`, `counted_items`,
  `eth_ipvx_l4`) and programs reaching what those do not. The families are
  products of state shapes, well-formed and not.

Every module that defines something the checks replace to see a property fail
has the replacement beside it, under a comment that begins with "Mutant".

## 3. Runs

| run | shows | bounds |
|---|---|---|
| `interp` | on the Zoo and on four validated programs whose runs may end in `Err`: types, cursor inside regions, headers tile the input, the trace is a path and explains the verdict; the run implements `BoundedParser` and ends, every step lowering a rank (`TypeOK`, `CursorInsideRegions`, `HeadersTileTheInput`, `TraceExplainsRun`, `ImplementsBounded`, `Terminates`) | words of 4 bits, inputs of at most 8 bits |
| `validate` | the fixpoint equals "on every path", the depth verdict that of the paths in every worklist order; their facts hold when a run enters a state; pushes bound the region stack; the alignment analysis gives the residue of every path or none, and no run contradicts it at a state, a field or a run of bytes; `Err` only from the three unchecked places (section 6); every stage ends and its worklist empties (`ValidatorTypeOK`, `InsetIsExact`, `EntryFactsHold`, `RegionVerdictIsExact`, `RegionStackFitsCap`, `ErrsOnlyWhereUnchecked`, `AlignmentIsExact`, `AlignmentHolds`, `StagesEnd`, `AnalysisEnds`) | every 3-state program of a family of references, of one of region operations and of one of alignments; words of 3 bits, bytes of 4, inputs of at most 4 bits |
| `conformance` | C and interpreter agree in verdict, consumed length, metadata, headers, and in reason except one case of pop, from an uninitialised region array (`ConformsUpToPops`) | the Zoo and the valid programs of a region family, inputs of at most 8 bits, words of 4 bits, bytes of 2, either of two values in each word of the array |
| `symex` | the solver stack is the path condition of the frame that runs; a model that would be reused is a model of the stack; every path that a packet takes has a witness; witnesses end and go where their path says; every packet has its path; lint is right; the walk ends (`EngineTypeOK`, `StackIsPathCondition`, `CachedModelsHold`, `WitnessesReplayWhereChecked`, `EveryRunIsEnumerated`, `WitnessTakesItsPath`, `LintIsRight`, `WalkDescends`) | sixteen parsers, words of 8 bits, packets of at most 6 bits and every witness, ladder of 3 and 6 bits, bodies of at most 8, two entries of a cyclic state, no ceiling, 4 paths, 5 checks |
| `truncation` | when a run ends in a verdict that is not "out of bounds", the run on more input ends at the same step with the same report; a truncated run is a prefix of the longer one (`OtherVerdictsAreFinal`, `TruncatedRunIsAPrefix`) | the Zoo, inputs of at most 7 bits, every extension |
| `shipped` | the three shipped parsers in their eBPF variant, from `pk_entry` to its word: no access outside the packet, no read of the region array before the push, the result is that of `WireFormat`, and masking changes no step of the C parser (`CoreTypeOK`, `ReadsAreInside`, `RegionSlotWritten`, `ImplementsFormat`, `BpfImplementsC`) | words of 2^26 in place of 2^64, a mask of 255; packets of whole bytes, one bit less and three bits more, up to past the longest header chain; others longer than the masked buffer; any of three values in the uninitialised array |
| `process` | past the deadline the call waits only for a killed child that is not dead, or for the grace period; a success has all the output; a timeout leaves no one of the group running; the group is signalled only while the child is unreaped; calls end; full pipes are emptied (`ProcessTypeOK`, `ReturnsInTime`, `OutputIsWhole`, `NoOneLeftBehind`, `SignalsItsOwnGroup`, `Returns`, `DrainsNeverStall`) | one descendant at a time, in or out of the group; timeouts on both sides of what the clock can name; pipes of 1 byte, 2 bytes over the two streams, cap 1; a clock up to 3, so that with a timeout of 1 and a grace of 1 the killed child may die at the deadline or one instant late; live processes close stdin and stdout (`Closable`), stderr only when they exit; 409,152 states |
| `byte_load`, `reason_divergence`, `unchecked_err`, `testgen`, `path_identity` | disagreements between code and documentation (section 6) | as the run they belong to; `byte_load` has inputs of 6 bits, a header of a byte and a half taken twice, bytes of 2 bits |

The three properties of `symex` about paths hold but for what `testgen` and
`path_identity` find (section 6), and each exception is a condition on the one path
or run at hand, not on the parser:

* `WitnessesReplayWhereChecked`: a path may have no witness only if after its last
  checked segment it entered a state with a region operation, or with an extract
  inside a region (`EndsUnchecked`), and then no packet takes it. A witness may
  end otherwise than predicted only on a path that takes an arm of a split group
  (`ThroughSplitGroup`), or that ends in a push which the run makes with a length
  over its bound (`WrapsUnnoticed`).
* `EveryRunIsEnumerated`: a run may have a name that no path has only if the header
  a push read its length from was extracted anew after that push (`StalePush`), or
  if a body after a lookahead was cut. Runs that go around a loop or take an
  instance many times without that are held to it, as those of `TlvItems`,
  `CountedItems`, `Overlapping` and `Framed` all are.
* `WitnessTakesItsPath`: the same `StalePush`, and `ThroughSplitGroup`.

**Why these bounds.** The interpreter has no constant larger than a word, and
the words are small enough that lengths wrap, sums overflow, and shifts exceed
the width, on inputs that TLC enumerates completely. Programs of the Zoo use
every kind of field, key, entry, operation and target; `max_depth` is small
enough that loops exhaust it. Three states are what a join of two paths, a loop
and an unreachable state need; two pushes in one state and one in another give a
region array whose size is not a power of two. In the process run, two bytes
against a pipe and a cap of one make both full, one heir is enough to hold a
pipe past the child, inside the group or out of it, and a death one instant after
the deadline is enough to separate the grace period from it. The word of `shipped` is
larger than any sum the parsers make of a packet's length, so what wraps is what
wraps in 64 bits: the differences below zero. The mask is the smallest that a
byte-sized length of `tlv_items` needs (byte 255 is the last it can name), and
packets are longer than it. Packets differ in the bytes that the parsers look at:
ether types, header lengths on both sides of five words, protocols, totals that
end inside an item, between two and past the packet, counts on both sides of the
bound of the loop. The parsers of `symex` are
the smallest with each kind of fork, nested regions, lookaheads read again in
other pieces, overlapping arms and a loop; they all pass validation. The bound of
bodies (`SanityBits`) is small enough that lengths pass it, and the ladder small
enough that witnesses fall on both sides of each rung. Two entries of a cyclic
state is the code's own constant; a ceiling of 4 paths or 5 checks is met in the
middle of open scopes.

**Fairness.** That the alignment worklist and the enumeration end is stated as a
rank that every step lowers (`AnalysisEnds`, `WalkDescends`), with no fairness; both
are also proved.
The interpreter, the validator with the analyses (`FairAligned`) and the shipped
parsers are sequential loops: weak fairness of their next step says that the
thread is scheduled. From it follow `Terminates`, `StagesEnd` and that the shipped
parsers reach the verdict `WireFormat` promises. `Terminates` also names the rank by
which a run ends: entries of the depth budget, then items of the state, then fields
of the header. On a cycle of states that read nothing only the first gets smaller,
so a loop head that forgot to count would be seen at its first turn. Nothing is assumed of the packet. In `ProcessRunner` it is weak fairness of the caller, the
three threads and the clock, and that a process sent SIGKILL dies, some time. Nothing is
assumed of the child or its heirs: they may hang, hold pipes, or never read, and no
read has to fail.
While the caller polls, the clock advances only after it has looked at it: the code
sleeps at most 20 ms between two looks, so a tick stands for a longer time than that; a
caller delayed by the scheduler for longer would overrun by that delay. While the
caller is in the `wait()` of `terminate`, the clock advances as long as the child is
not dead: that wait has no bound, and a child that is slow to die (in an
uninterruptible sleep, say) holds the call past the deadline and the grace.
`ReturnsInTime` says so: the bound is the later of the deadline and the death, plus
the grace. What it excludes is that anything else holds the call.

Deadlock is checked in every run but those of `ProcessRunner`, where everything
may stop once the call has returned and its threads and processes ended; that
nothing stops before that is `Returns`.

## 4. Proofs

Every theorem below holds for every value of the constants that satisfies the
named assumptions: every set of programs of the schema, every packet, every word
width, and so on. `PROJECT.json` lists them with the property each states.

**Words and expressions.** `InterpProofs` begins with what the others keep needing: what a
word is, that word operations and checked sums return words, that the recursive
functions over expressions are what their definitions say (`EvalExprUnfolds`,
`SubExprsUnfolds`, from `ExprRecursion`), and `EvalExprDefined`: an expression has
a value when the fields, metadata and region it names are there. The prover cannot
use the library's theorems of induction, which take an operator; where a proof here
needs induction or a recursive function, over positions or over expressions, it
cites lemmas that take a set or a function instead (`Induction`, `Recursion`,
`ExprRecursion`), proved from the least element and, for expressions,
from `ExprsAreTrees`.

**The interpreter.** `InterpProofs` then proves

* `TypeCorrect == Spec => []TypeOK`
* `CursorSafe == Spec => []CursorInsideRegions`: whatever lengths the packet
  gives and however they wrap, no read is past the input or a region, regions
  nest, and `remaining()` never subtracts below zero.

The argument is the inductive invariant `IInv == TypeOK /\ ControlOK /\
CursorInsideRegions`. `CursorInsideRegions` is not inductive by itself: a pop
keeps it only because *all* ends, not only the innermost, are at least the
cursor and the ends are ordered; a lookahead restores `entry_cursor`, so it has
to be no later than the cursor. `ControlOK` says that in a state's body the
state exists and the trace is not empty, and that while a field is read its
header type exists and the header has been begun, without which the effects of
`RecordField` and `Decide` are untyped. There is one lemma per action, and
lemmas for what the helpers return. `OneTurn` says that the position of a run
decides which action is next (`Turn`), whatever the input is.

**The refinement.** The same module proves, for programs whose start state exists (`StartsExist`,
which validation makes sure of):

* `Refinement == Spec => ImplementsBounded`, that is, each run starts where the
  abstract one does and each step is a step of it or a stutter. To `IInv` it adds
  `ProgressOK`: a state is in progress only after an entry was spent, the trace is
  as long as the depth, and the outcome is set exactly when the run is over.
  Without the last the mapped verdict could change twice. One case per action says
  which abstract step it is: entering a state spends one of the allowed, reading a
  field outside a lookahead commits its bits, a rejection or an `Err` decides.
* `TraceExplains`, that the trace is a path from the start state and the verdict
  that of the decided target. The invariant `TInv` adds what the last entry is
  (`LastEntryOK`): of the state the run is in, still undecided, or decided for the
  state it enters next, or for the verdict. Its hypothesis `TargetsExist` is the
  validator's check of targets.
* `HeadersTile`, that the headers tile the input. The property speaks of the last
  header that was no lookahead, which is not where induction can start, so `HInv`
  says that there is a function `e` of *marks*, one per header: each header
  starts at the mark before it; the mark of a lookahead is that of its predecessor;
  the last mark is the cursor, or the entry cursor while a field is read.
  `HeaderCount` ties the number of headers to the extracts of the path so far, a
  sequence flattened over the trace; the lemmas on `FlattenSeq` are proved from
  the definition of the fold.

**The pipeline.** `PipelineProofs` proves of a validation followed by a run:

* `ValidatorTypes`; `EntryFacts`, that what validation computed of a state holds
  when a run enters it; `RegionStackBounded`, that the pushes of a program bound
  the region stack, so that the fixed array of the generated C is large enough;
  `ErrsWhereUnchecked`, that a validated program leaves with `Err` only from the
  three places that validation does not look at (section 6).

  The invariant is `PInv`: `VInv` of the validator and, once it has accepted,
  `RunInv` of the run. `VInv` has to say of a sweep in the middle that the states
  behind it are closed unless something changed (`SweepFacts`), and of the worklist
  that every state visited has its successors at the depth it leaves with
  (`DepthFacts`); and it bounds a depth by the pushes of *other* states settled so
  far, since a depth that may be given twice has no bound. `RunInv` carries those
  facts along the body of a state: the depth after the operations done so far, the
  instances taken by the extracts done so far, and that their fields are in `env`.
* `InsetExact` and `RegionVerdictExact`: the two fixpoints answer what the paths
  answer. Soundness comes from closure. For exactness `WInv` adds witnesses: an
  instance missing from the set of a state has a path without it
  (`SweepWitnessed`); the depth of a state is that of a path of at most as many
  steps as there are states with a depth, and a rejection has two paths that
  disagree or one that does not fit (`DepthsWitnessed`). That chains of reachable
  sets are complete after as many steps as there are states is proved by counting.

`AlignmentProofs` proves, of validation, analysis and run together:

* `AlignmentSound`, that no run contradicts what the analysis says of a state, a
  field or a run of bytes, and `AlignmentExact`, that it says the residue of every
  path to a state or, where two paths differ, none. `MapInv` says that a state not
  on the worklist has handed its residue on; `MapWitnessed` that every claim has a
  walk that arrives with that residue, or for "unknown" two walks that arrive apart
  or not knowing; `CursorTold` carries the residue along the fields of a state. The
  arithmetic modulo a byte is proved too: that a sum or product of words that wrap
  keeps its residue, because a byte divides a word.
* `AnalysisDescends == AlignedSpec => AnalysisEnds`: each visit lowers the rank of the
  property, so the worklist empties on every valid program. The code pushes a state
  again whenever a known residue arrives where none is left, so the stack may grow; what
  makes up for it is that a state with a residue is on the stack only once (`EndInv`),
  so that visiting it is one such visit less. The rank sums over the map with a fold;
  `FactsCounted` proves the sum to be a count, in whichever order the fold goes.
* `AlignedImplementsPipeline`: a behaviour with the analysis is one of the
  pipeline. So the four theorems about runs of the pipeline hold of the
  specification that the run `validate` checks.

`TruncationProofs` proves `VerdictsFinal` and `TruncatedPrefix` for programs whose
start state exists. `TruncationInv` says that the two runs are in one configuration
(`SameConfig`) until the shorter ends, and after it too unless it ran out of input;
then the other is ahead of it (`AheadBy`). From one configuration both take the same
action, because `Turn` does not depend on the input; one lemma per action shows
that only a read and the check of a pop compare with the length of the packet,
and that where they differ the shorter run ends with "out of bounds". `AheadBy` is
kept because a run only adds to its headers and trace (`NextKeepsReport`) and never
gives back a committed bit. What is known of one run is
taken over for the second copy by substitution (`Ext`).

**The generated C parser.** `ConformanceProofs` proves `GeneratedConforms`, that
`ConformsUpToPops` holds of every validated program for which `WholeBytesOnce`
holds. That hypothesis is needed: the run `byte_load` is a program without it where
the parser and the interpreter differ. It says of the program alone that no state
takes an instance a second time whose header has a field of whole bytes; every
program of the run `conformance` satisfies it.

The invariant `Pair` is a simulation, one step of the parser for one of the
interpreter. While both run (`Paired`) they are at the same place, and the storage
corresponds: the array below `pk_rsp` is the list of regions, whatever it holds above
(`SameRegions`); a member of the struct has the value of every field that is bound,
though members that are not bound have values too (`SameValues`); the struct shows
the last header of each instance, field by field as they are read (`HeadersShown`);
under a lookahead the interpreter's cursor is `poff`, and `off` its entry cursor
(`SameCursor`). They end at the same step (`SameEnd`). There is one lemma per pair of
actions, and one lemma for each thing the generated code does in its own way:

* an expression that has a value for the interpreter has it in C (`SameValue`): members
  that were never read are zeros that such an expression does not look at, and the
  wrapped difference of the innermost end and the cursor is `remaining()`;
* C compares lengths with what is left, the interpreter ends with bounds, each in a
  word that may wrap (`LengthFits`, `FixedEnd`, `RunEnd`, `PushEnd`);
* the array, rounded up to a power of two, has a place for every open region
  (`NextPowerOfTwoReaches`, `ArrayFits`, with `RegionStackBounded` of the pipeline), so
  the mask changes no index and the test of a full array never rejects;
* whole bytes are loaded only where the field starts on one (`LoadHere`, from
  `AlignmentSound`), since the first extract of that name is the one at hand.

**The symbolic engine.** `SymexProofs` proves of every set of programs that pass the
structural checks, every ceiling of paths and solver calls, and every meaning of terms:

* `StackHoldsPath`, that the solver's stack is the path condition of the frame that
  runs. The property speaks of the activation on top of the call stack only. A pop
  brings back what was asserted before a branch, and the activation that goes on then
  must find its own path condition there; so the invariant has to speak of all the
  pending activations. `Balanced` says that there is a function from them to the levels of
  the solver's stack (`Levels`): a pending pop stands as many levels higher as it
  has scopes to leave, and anything else on the level of what lies under it; and that
  the path condition of each is what is asserted at its level (`Matches`).
  One lemma per action shows that the scopes it opens are those its pop leaves: a
  fork comes back to the stack it started from (`ForkOK`), each unchecked narrowing of
  the world that goes on adds a scope (`NarrowOK`), and what is left of a select is
  called with the pop of its arm in between (`BecomesThree`).
* `ModelsHold`, that a model that would be reused satisfies the stack. `SessionOK`
  says so of any session whose epoch is not behind the one of its model; every push,
  assert and pop moves the epoch on, so only a check or a witness can bring them
  together, and both remember models of what is asserted then.
* `EngineTypes`, and `WalkEnds`: each step replaces the activation that runs by calls of
  lower rank, in the lexicographic order of entries left, function, and items,
  operations or arms left. Every arm, item and operation that a rank counts has to
  be one of the program's (`CallOK`), which the structural checks ensure
  (`SchemaTypes`).

**Shipped parsers.** `ShippedProofs` proves of the C parsers (`Variant = "c"`), for every packet, word
size and content of the region array: `CoreTypeCorrect`, `ReadsStayInside` and
`RegionIsWrittenFirst`. The invariant is `IInv == Base /\ MembersOK /\ RegionOK`.
`Base` has the cursor no further than `bit_len`, so the wrapping `bit_len - off` of
each check is the true difference; every load and run recorded inside the packet.
`MembersOK` bounds the members that lengths are made of by their widths, from
which a length that wraps is either below the word or too large for any packet.
`RegionOK` ties the stack pointer, the slot and the state of `tlv_items`: after
the push the slot is a value of the program, before it nothing reads it. There is
one lemma per statement of `ShippedCore` and one per case of the switches. For the
eBPF parsers `MaskChangesNothing` proves that on packets that the masked buffer
holds (`BufferHolds`, the contract in the comment of the file) each step is the
step of the C parser, because every load is below the length of the packet; and
`BpfStaysInside`, the three invariants. The run `shipped` shows the same of
packets longer than the buffer; there the reason is that no read of these formats
is that far in, which is particular to each parser.

**The process runner.** `ProcessProofs` proves, for every command, heir, cap, pipe size and deadline:

* `ProcessTypes`; `SignalsSafe`, that the group is only signalled while the child
  has not been reaped; `NoOneLeft`, that a call returns with the child reaped but
  for its two early returns and that a timed-out group is signalled whole. The
  invariant `PhaseOK` ties what has happened to the child to where the caller is; it
  holds the group whole from the signals on, through the wait, because a signalled
  child forks no more.
* `InTime == ProcessSpec => []ReturnsInTime`. The invariant `TimeOK` says what the
  caller learnt at its last look: while it polls, time passes only after a look that
  found some left, so a tick cannot pass the deadline, or the grace, unnoticed; in the
  wait for the child time passes freely, and stops with the child's death until the
  grace period has begun.
* `WholeOutput == ProcessSpec => []OutputIsWhole`. The invariant `OutputOK` has
  three parts: the counters of a stream whose drain has not failed agree with what
  was written and is still in its pipe; a drain that ended well leaves an empty pipe
  that no one holds, and no one can come to hold it, since a process that comes late
  has its ends from the child; the caller's list of threads to join still names each
  drain that has not ended well.

**Assumptions** are those named in the modules: `WordBitsAssumption`,
`PowersAssumption` and `FromBitsAssumption` (powers of two are positive, sums of
distinct powers fit in a word: facts about arithmetic that need induction over
data, which TLC evaluates for the widths of the runs), `LowBitsAssumption` (masking
with low bits is a remainder, of the same kind, as is the `MaskAssumption` of `CParser`), `ExprsAssumption` (the
expressions are closed and evaluate to a word or are undefined), `ExprsAreTrees`
(some operation of any set of them has no operand in the set),
`ProgramsAssumption` (programs have the shape of the schema),
`PacketsAssumption` (an input plus one field is addressable),
`MaxParseDepthAssumption`; `LimitsAssumption` (the engine's ceilings are numbers); `ByteBitsAssumption` and `ByteDividesWord` (8 and 64 in
the code); `GarbageAssumption` (what an uninitialised word holds is a word); of the shipped
parsers `VariantAssumption`, `WordSizeAssumption`, `MaskAssumption`,
`InputsAssumption` (no packet is within a few bytes of filling the address space), `ConsumedSizeAssumption`; `SizesAssumption` and
`HeirsAssumption`. The hypotheses `StartsExist` and `TargetsExist` of some theorems
are what `CheckStructure` establishes; `WholeBytesOnce` is explained above.

**Only model-checked**, and why:

* liveness (`Terminates`, `StagesEnd`, `Returns`, `DrainsNeverStall`, and the part
  of `ImplementsFormat` that says a verdict comes): out of the prover's reach;
* the agreement of the shipped parsers with `WireFormat`: an induction over the
  items of a packet through recursive definitions;
* what the symbolic engine's paths say of runs (`WitnessesReplayWhereChecked`,
  `EveryRunIsEnumerated`, `WitnessTakesItsPath`, `LintIsRight`): that needs what terms
  mean, which is recursive over terms.

## 5. Not modelled

Left out on purpose: wording of errors, spans, `source_tag`, name hygiene in the
validator, the generated header file and accessors, generated protobuf code,
CLI, diagrams, documentation.

Of the process runner: the panic of a thread, whose join returns an error as a failed
read does; a failure of the `wait()` after the kill, which the code ignores; and, in
the run, a live process that closes stderr (the model has it, `Closable` leaves it out).

Of the symbolic engine: the sorting of the paths, telemetry, progress output,
stored suites, and the cross-check with a packet encoding.

Components that are not modelled, and why:

* **Lua generator** (`rs/codegen/lua.rs`): the emitted parser has the control of
  the C parser over doubles for integers. What a model would be about is the bits
  they lose above 2^53, arithmetic beyond the words TLC computes with.
* **P4 generator** (`rs/codegen/p4.rs`): it translates a part of the IR for an
  external target, whose semantics is not in the repository.
* **Test vectors** (`rs/testvec.rs`): decoding and checks of one value, without
  state.
* **PCAP reader** (`rs/pcapio.rs`): the decoding is a library's; what is its own is
  a latch and three limits compared in a row.
* **BMv2 oracle** (`rs/oracle/bmv2.rs`): it talks to a switch outside the repository
  through the files it writes. How it starts and ends a process is `ProcessRunner`'s.
* **Atomic file writes** (`rs/fsutil.rs`): one straight line; what a crash leaves
  is a property of the file system, which the source does not define.
* **Builder, CLI, docs, diagrams, fixtures, Python eDSL, generated protobuf code**:
  they build or print values and keep no state.

Components marked "partly": the validator checks names and shapes that programs
here have by construction; the C generator is modelled by what the emitted
function does, not by the text; of the engine and the solver session the parts
listed above are left out.

## 6. What disagrees with the documentation

* `byte_load`: `field_alignment` looks a field up by the name of its instance. A
  state may extract an instance twice; if the second starts off a byte, the
  generated C loads whole bytes there and stores another value.
* `reason_divergence`: the generated C rejects a pop with "region not exhausted"
  even when the region ends past the input, where rule G-Pop-Trunc of
  `docs/reference/ir-semantics.md` and the interpreter say "out of bounds".
* `unchecked_err`: a validated program can make `run` return `Err` in three ways:
  push lengths are not part of the definite-extraction check that W7 requires;
  the length of a field may name a later field of its header; an expression may
  name a variable-length field. `ErrsOnlyWhereUnchecked` (run `validate`) shows
  that there is no fourth in the families.
* `testgen`: the program stops on valid parsers. (1) The world that goes on after
  a fork is asserted unchecked, so a path through a region too short for its
  reads is emitted with no witness. (2) Arms of exact values and one target form
  one group even around another arm that matches first. (3) A push length that
  wraps below its bound is enumerated as a rejection; the interpreter accepts.
  `WitnessesReplayWhereChecked` (run `symex`) shows that there is no other on the
  parsers of the run.
* `path_identity`: `path_id` and the engine name a path differently. (1) An arm
  that is not the first of its group. (2) A push length read from a header that
  is extracted anew later. (3) A body cut after a lookahead, when it is longer
  than its least length. `cov` then stops with "unknown path".

Lint calls a state or arm dead on what the enumeration saw: `LintIsRight` holds
for runs within the unrolling bound, and what only a longer loop reaches is
reported as dead all the same.
