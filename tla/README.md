# Verification of sorcer

sorcer is a small concatenative language in C: text in "mana" form is compiled
to blocks of instructions, the blocks of a context are linked into one code
vector, and a stack machine runs it. This directory holds TLA+ modules
translated from `src/sorcer.c`, `src/sorcer_arith.c`, `src/sorcer_mana.c` and
`src/shell/main.c`, the TLC configurations that check them, and proof modules for
the machine, the link, the builder, the context, the compiler, one source from
its text to its end, and the shell.

    tlc -workers 2 -config MCSorcerVM.cfg MCSorcerVM     # one run
    tlapm SorcerVM_proofs.tla                            # the proofs of one module;
                                                         # likewise the other *_proofs

`PROJECT.json` lists the components, runs, mutants, findings, hazards and
theorems, and gives the source lines of every definition.

## Inventory

The library runs in one thread. Only the shell meets others: an editor that
writes the file it watches, and a user whose SIGINT sets a flag. What is hard in
the library is not concurrency but *order*:
a host may build, link, run, fail and run again in any order, and three numbers
that are written at one moment (a variable's slot, a frame's base, a block's
address) are used much later.

| component | state | operations | what makes it correct |
|---|---|---|---|
| code image and instructions (`sorcer.c`) | `ctx->code` | none of its own | ends in `Ret`; jump targets are entries |
| cells, types, operators (`sorcer.c`, `sorcer_arith.c`) | the number pool | `SR_cellNew/Free/Dup`, the operators | every number has one owner |
| block builder (`SR_block*`) | `ctx->blockTable` | one function per instruction, inlining, rollback | slots are numbered as they are bound; whoever is named is counted |
| linker (`SR_codeUpdate`) | `code`, `codeUpdated`, base addresses | link | an up-to-date image says what the blocks say |
| virtual machine (`SR_run`) | data stack, return stack, variable table, program counter, error | eleven opcodes, push and pop by the host | variables are partitioned among activations, control stays in the image, no leak on any exit, programs without loops end |
| context as the host uses it (`sorcer.h`) | all of the above | any order of them | a host that does none of six named things gets the machine above |
| mana compiler (`sorcer_mana.c`) | tokens, block infos, call stack, position | two passes | what compiles means what the text says; a load that is rolled back leaves the blocks it found; a load ends |
| one source (`execCode`, `tests/main.c`) | a new context | compile, link, run the root, free | what compiles runs without a failed assertion and is freed completely |
| shell (`shell/main.c`) | modification time, SIGINT flag | execute a file or stdin, watch | a change is executed, once; an interrupt ends the loop |
| printing (`sorcer_utils.c`), argparse, `apnum`, `vec`, `mana` lexer | | | output, vendored code, empty submodules: not modelled |

Interactions. The compiler calls the builders (its second pass emits through
`SR_blockAddInst*`, an error through `SR_ctxBlocksRollback`). Every builder
except `SR_blockAddInlineBlock` and rollback clears `codeUpdated`. `SR_run`
calls `SR_codeUpdate`, which does nothing while `codeUpdated` is set and
otherwise appends to `ctx->code`, then starts at the block's base address. The
data stack is shared by host and machine and survives runs, so block values
(addresses in the code of the link that was current) survive links.

## Modules

```
SorcerCode            instructions, cells, vocabulary over an image
  SorcerCells         new, free and copy of cells; operands of the operators
  SorcerLink          SR_codeUpdate as operators
SorcerVM              (SorcerCells)             SR_run and the host's stack operations
SorcerBlocks          (SorcerLink)              builders, rollback, when to link
  SorcerMana          (SorcerBlocks)            the two passes of the compiler
  SorcerContext       (SorcerBlocks, SorcerCells, INSTANCE SorcerVM)  all of a context
  SorcerProgram       (SorcerMana, SorcerCells, INSTANCE SorcerVM)    the life of one source
SorcerSemantics       (SorcerCells)             the abstract machine
  SorcerVMMeaning     (SorcerVM, INSTANCE SorcerSemantics)  the refinement mapping
SorcerShell                                     the watch loop and standard input
SorcerVM_proofs           (SorcerVM)            theorems: frames, control, types, owners
  SorcerVMMeaning_proofs  (SorcerVMMeaning)     theorem: the machine means its blocks
SorcerBlocks_proofs       (SorcerBlocks)        theorems: what a link appends, the builder
                                                and its images
  SorcerContext_proofs    (SorcerContext, INSTANCE SorcerVM_proofs)
                                                theorems about all of a context
  SorcerMana_proofs       (SorcerMana)          theorems about the compiler
    SorcerProgram_proofs  (SorcerProgram, INSTANCE SorcerVM_proofs)
                                                theorems about one source
      SorcerFaithful_proofs                     theorems: what is compiled says what
                                                the text says
SorcerShell_proofs        (SorcerShell)         theorems about the shell
MCSorcerVM, MCSorcerBlocks, MCSorcerContext, MCSorcerMana,
MCSorcerProgram, MCSorcerShell                  instances for TLC
```

### Conventions

* Sequences count from 1: address, block, operator and literal `i` here is
  `i - 1` in C. Variable slots and type ids keep their values. `Wild` (0) is the
  address no instruction has.
* `SR_Inst.arg` is a union; one number stands for all members. This is not a
  simplification: that the members share storage is what makes a second link
  misread an address as a block id.
* A number is a handle. Its value (arbitrary precision, module `apnum`) is
  abstracted away, and with it division by zero and the like; its allocation,
  copy and release are not. The pool is the set of live handles; a constructor
  takes one that is not live. The library reuses handles, and so does the model.
* A failed `assert` and a read outside a vector whose outcome is a crash are
  *modes* (`SorcerVM`) or *phases* (`SorcerMana`) from which nothing follows,
  so a fault is a state a property can talk about. A read outside that need not
  crash is nondeterministic: `PushVar` past the end of the variable table finds
  the remains of a cell that was cut off (`PushRemains`) or crashes
  (`PushNothing`).
* `SR_OP_Nop` is absent: nothing emits it.

### SorcerVM

One action per outcome of a case of the switch in `SR_run`: `PopNull`, `PopVar`,
`PushImm` / `PushBadImm`, `PushVar` / `PushRemains` / `PushNothing`,
`PushBlock`, `Call`, `Apply` / `ApplyFail`, `OprRun` / `OprFail`, `Ret` /
`RetEnd`, `TailCall`, `TailApply` / `TailApplyFail`, `BadFrame` (the assertion
`vt->length >= ret.varBase` of the three ways out of a block), `PopNothing`
(`vec_last` of nothing) and `FetchNothing` (the default branch). `Apply` pushes
its frame *before* it looks at the type of the cell, as the code does, so
`ApplyFail` leaves that frame behind. `Fail` is the label `failed`: the variable
table is cut to zero, the data stack and the return stack stay. Between runs the
host pushes and pops (`HostPush`, `HostPop`) and runs again (`Run`), and in the
end frees the context (`CtxFree`, whose assertion on the variable table is its
guard; `CleanReturn` says it holds).
`ReuseAfterFailure` says whether the host runs again after a failed run.

### SorcerSemantics and SorcerVMMeaning

What the machine promises, without what makes it fast: a program is a list of
blocks that name each other, and an activation is a block, a position in it and
variables of its own; a call keeps the caller's activation, unless it has
nothing left to do, and the end of a block goes back to it. There are no
addresses, no return stack, no common variable table and no tail calls, and a
number is a value nothing else holds. `SorcerVMMeaning` maps a state of
`SorcerVM` to it: the image is taken apart at its `Ret`s, addresses become
blocks and positions, and the activations are cut out of the variable table by
the bases of the frames. `ImplementsSemantics` says every step of the machine is
a step of the language or none. A callee that touched a variable of its caller,
a tail call that dropped one too many, or a frame with the wrong base or address
would be a step the language does not have. The two modules state properties,
they translate no code, and have no entry in `map`. The refinement is checked,
and proved, with `ReuseAfterFailure` false: with it the machine does not mean
this.

### SorcerBlocks and SorcerLink

`AddInst*` are the builders; `AddInlineBlock` renumbers the variables of the
inlined block by `varCount` and does **not** outdate the code; `BlocksRollback`
shortens the table, looks at nothing, and neither outdates the code nor gives back
counted references. The rollbacks of `Build` are those after which every name
still has its block (`KeepsNames`): the loader's are such, because no older block
names a block of a load that failed. `NamedBlocksCounted` and `FreshImage` are
about them; what a host may do besides is in `SorcerContext`. `CodeUpdate` is `SR_codeUpdate`: if `codeUpdated` is clear it lays
out the entry block and every counted block (`Layout`, with tail calls
rewritten by `TailForm`), notes each base (`Rebased`) and resolves block ids in
the whole vector (`Resolved`), old code included. The auxiliary variables
`linked` and `unlinked` record what the last link emitted and what inlining
changed since; the code has no such record, and no guard reads them.

### SorcerContext

Composes the two: `Run(e)` is `CodeUpdate(e)` and `VM!Run` in one step. The host
builds (`BuildBlock`), rolls back whatever it likes (`TearNames` is a rollback
after which some block names a removed one) and works on the data stack: it takes
cells off (`TakeCells`), may keep the block values among them (`kept`), pushes one
back whenever it likes (`GiveBack`), or pushes a new number. `Land` is what
becomes of an address a link read past the end of the table: `Resolved` yields
`Wild` for a block that is not there, and control may be at the entry of any code
that lies about, or nowhere (`FetchNothing`).

The auxiliary variable `strayed` becomes true when the host or the program does one
of six things the interface allows and the code does not survive:

1. run a block the up-to-date code does not hold;
2. link again while a block value is on the data stack;
3. push back a block value popped before the last link;
4. roll back a block that a block which stays names;
5. run again after a failure that left frames on the return stack;
6. use a variable the running activation has not bound (this is the program).

Each of the six is necessary: without any one of them in `strayed`, TLC finds
`SafeUse` violated (with the bounds of the run `context`; for the fifth with
`MaxCode` 3, so that code with a call that is not last may be outdated). `imageStart`
is where the last link began.

### SorcerMana

`Tree*` is `SR_manaLoadBlockDefTree`, which opens an info per brace and enters
definitions in their scope; `Load*` is `SR_manaLoadBlock`, which emits. A word
that names a block not loaded yet makes the loader enter that block (`Enter`)
with the *same* position to come back to, so the word is looked at again. The
lookups search outward through the scopes, each table from its first entry.
`Reject` is rollback, which hands one number to two tables: it is right for the
context's blocks and wrong for the infos, whose indices are local (`badFree`).
Tokens are strings; the lexer and the error's line and column are left out.
`MaxInsts`, `MaxBlocks`, `MaxCallees` are set beyond what the sources reach.
`Loads` says what is loaded, and how many blocks the context holds before.

### SorcerProgram

What `execCode` of the shell and `test` of `tests/main.c` do with a source: a new
context, the load (`Load`), `SR_run` of the root block, which links (`RunRoot`),
the run (`Execute`) and `SR_ctxFree` (`Finish`), also after a source that was
rejected. It shares the variables of `SorcerMana` and instantiates `SorcerVM`,
so that a property can go from the text to the run: `CompiledImage` says the
compiler and the link together produce what `ImagesAssumption` of `SorcerVM`
assumes, and `SelfContained` code unless some word means a variable of a block
around its own (`Captures`, read off the text) or a list of variables holds more
than names (`ListsHoldNames`): `[ { y } ] { y } 1` compiles, binds `y` in the
root although the text has it in braces, and reads it in the block after it. `ProgramSafe` and `ProgramEnds`
are about the whole. Sources loaded into a context that holds other blocks
already (`prior`) are compiled only.

### SorcerShell

`main` as a program counter: `FirstStat`, then `ReadFile` (or `TakeText`, for
standard input, read by `ReadChar` and `ReadEnd`), `ExecReturns` or
`ExecAsserts`, and with `-w` the loop `Poll` / `Quit`. Beside it `Change` and
`Delete` work on the file and `Interrupt` is SIGINT, before and after the
handler is installed. The stat, the read and the end of an execution are steps
of their own, since the file may change between them. `st` is not initialised,
and stat leaves it alone when there is no file: it starts as any time. What an
execution does is `SorcerProgram`; here it returns, loops or fails an assertion.
`char c = getchar()` is modelled for a signed and an unsigned `char`.

## Runs

| run | shows |
|---|---|
| `vm` (pass) | all programs of a root of up to 3 instructions out of 9 and a callee of up to 2 out of 6 (recursion through `Call 1` and `Call 2` included): types, exact frames, own variables, one owner per number, clean return, complete tail call elimination, control inside the image; and all of it implements `SorcerSemantics` |
| `vm_ends` (pass) | under fairness a run without loops ends |
| `vm_stale` (violation) | a context run again after a failure meets the frames it left |
| `vm_capture` (violation) | the capturing part of `1.mana` reads a variable past the length of the variable table (`BoundReads`) |
| `blocks` (pass) | all ways to build, roll back and link two blocks with three instructions, and to inline one into the other, up to five |
| `context` (pass) | all uses of a context with two blocks of two instructions over several links: variables, references, rollbacks of named blocks, block values kept and pushed back, failures; whoever does none of the six things above is safe, and numbers have one owner even so |
| `context_relink` (violation) | a block value kept across a link leads the fetch out of the code |
| `mana` (pass) | every token sequence up to length 4 over 11 tokens, and long ones with nested, mutually recursive and shadowing definitions and with braces inside lists, compiled, linked, run and freed (and compiled into a context with two blocks): faithful, safe, with an image the machine can run, and done with in the end |
| `mana_brace` (violation) | a source that begins with a block fails an assertion |
| `mana_twice` (violation) | a name defined twice in a scope fails an assertion |
| `shell` (pass) | the shell with three versions of a file and four times, or short inputs: changes with distinct times are executed, none twice, an interrupt ends the loop, stdin is executed whole |
| `shell_watch` (violation) | two versions within a second: the second is never executed |

Bounds. Two blocks are enough for a call, a tail call, recursion, mutual
recursion, an applied block and a reference that crosses a link; two frames for
a suspended block below a suspended block; three instructions for a binding, a
call and something after it (`vm`, `blocks`), two for a call and something after it,
or a reference and the change that follows it (`context`). The stacks are cut off by `MaxCells`, `MaxFrames`
and `MaxVars` as guards: a program that would exceed them stops, which no safety
property depends on and which the programs of `vm_ends` never do. `HostCells`
bounds what the host piles up, `MaxCode` how often a link may be outdated,
`MaxCallees` a counter that only grows (one: a link asks only whether it is zero).
`MaxInlined` bounds the instructions after an inlining: with five, a block that
binds a variable can receive one that binds and uses its own; the compiler never
inlines, and the bound is zero in `mana`. `HostKept` bounds the block values a host
keeps: one is enough to push it back after a link. In
`mana` the machine's stacks are bounded beyond what the sources without loops
reach; those with loops stop at the bound, and `ProgramEnds` excepts them. In
`shell` three versions are enough for one that is replaced before, and one that
is replaced after, it is read. `MaxText` bounds the text of an input whose end
goes unnoticed. Deadlock is not checked: a bound, a
fault, a finished load and an ended process really stop the model.

The four properties of the machine that are easy to break with one line are
`ExactFrames` (a partition of the variable table that only several frames later
shows a mistake), `Ownership` (no leak, no double free on any path, errors
included), `NoIdleFrames` (every frame left has something to do) and
`OwnVariables`. `FreshImage` compares an image with the blocks it was made from,
instruction by instruction, with a definition that shares nothing with the
linker. `Faithful` compares what was compiled with the text, read by brace
counting and nothing else, for sources whose lists hold nothing but names; it
needs none of the other conditions of `WellFormed`, which `SafeLoad` does for all
but the rollback.
`SafeUse` says what a host gets that does none of the six things, and it has no
other premise.

Fairness. `SR_run` and the loader are loops of one thread, which go on as long
as they are not finished: weak fairness on the step of the loop (`FairSpec`) and
on nothing the host does. `execCode` is the host itself, so `FairProgram` is
weak fairness of all it does, freeing included. The shell's process is
scheduled (`FairShell`: weak fairness of `Main`); the editor and the user owe
nothing, and a program that loops keeps the shell for ever.

Each property of a passing run has a mutant in `PROJECT.json`: a definition
named `Faulty` in a comment, which replaces the real one and makes the property
fail (a base taken at the wrong moment, a forgotten copy, an off-by-one in tail
position, swapped fields, ...).

## Proofs

### The machine

`SorcerVM_proofs` proves, for every set of images that satisfy `Linkage`, every
operator table, every pool and every bound:

| theorem | states |
|---|---|
| `TypeCorrect` | `Spec => []TypeOK` |
| `FramesExact` | `Spec => []ExactFrames` |
| `FrameAssertionsHold` | `Spec => []FrameAssertions` |
| `ReadsOwnVariables` | `Spec => []OwnVariables` |
| `ReturnsClean` | `Spec => []CleanReturn` |
| `FetchesInside` | `Spec => []NoStrayFetch` |
| `NoFrameIdle` | `Spec => []NoIdleFrames`, if `TailCallsEliminated` of every image |

all under `~ ReuseAfterFailure`: `vm_stale` shows they need it. The assumption
`ImagesAssumption` (an image ends in `Ret`, jump targets are entries) is what a
link produces, `TailCallsEliminated` (no image has a call right before a `Ret`)
too: TLC evaluates both for the images of the runs, `SorcerBlocks_proofs` proves
them of every block table, and `SorcerProgram_proofs` of every source that
compiles.

The inductive invariant `IInv` is needed because no property is inductive alone.
`ExactFrames` relates the length of the variable table to the variables bound
up to the program counter, so it needs the counter in the image; a return takes
the counter from a frame, so every frame must resume inside the image, just
after a call (`CallSites`); an applied block takes it from a cell, and cells
travel between the data stack and the variable table, so every block value on
either must be an entry (`BlockCells`); a run starts with an empty table and no
frames (`CleanReturn`). The argument is then about the four ways control moves:
falling through binds one variable exactly at `PopVar` (`BoundNext`,
`ExactNext`), a call suspends the block with what it has bound (`ExactCall`), a
return restores exactly that (`ExactRet`), a tail call replaces the block
(`ExactTail`). `StepIInv` has one case per opcode, `NextIInv` adds the host.

What the lemmas say of the machine they say of an image that starts anywhere in
the code (`Machine(m)`): in a context the images of earlier links lie before it.
`IInv` is `Machine(1)`.

### Owners of numbers

The same module proves `OneOwner` (`Spec => []Ownership`) and
`NothingLeft` (`SR_ctxFree` empties the pool), *without* `~ ReuseAfterFailure`:
whatever frames are left over, no number is lost or freed twice. The invariant
`OwnInv` is `Ownership` with the types of the stacks. `Ownership` is stated of
a data stack, a variable table and a pool (`Owners`), and there is one lemma for
each thing the code does to them: a cell pushed in a fresh handle
(`OwnersPush`), the top dropped (`OwnersPop`) or moved to the other stack
(`OwnersMove`), a stack cut (`OwnersCut`). Every opcode and every host operation
is made of these; an operator that works in place is a cut and a push of the
same handle (`OprKeeps`), which is why `Opr` demands that it has one argument.

### The machine means its blocks

`SorcerVMMeaning_proofs` proves `MachineMeansBlocks`, `Spec => ImplementsSemantics`,
under `~ ReuseAfterFailure` and `TailCallsEliminated` of every image: whatever a
linked program does, its blocks say so. A call that was left before a `Ret` would
suspend an activation with nothing to do, which the language does not keep.

The invariant `MInv` is `IInv` and `OwnInv` of `SorcerVM_proofs`, and three
facts that only the mapping needs: the program counter and every frame are in a
block of the image, reached from its entry without passing a `Ret` (`InBlock`,
`Resumes`), and the bases of the frames rise (`Nested`), so that cutting the
variable table at the bases gives one piece per activation. `OwnInv` is needed
because the abstract machine puts a number that nothing else holds: that a handle
is fresh is what `Ownership` says.

Its first part has what the mapping makes of an image and its cells:
`Placed` (the address after one in a block is the next place of the same block),
`PlacedEntry` (an entry is the first), and that cells mean the same however the
stack that holds them is cut or extended (`MeaningsAppend`, `MeaningsCut`,
`MeaningsOwn`). On these rest one lemma for each way an activation goes on
(`Proceeds`, `Enters`, `EntersForGood`, `Returns`, `RunEnds`, `RunStops`) and one
for what is put on the stack (`Puts`), and one lemma per opcode (`PopVarRefines`,
`CallRefines`, ...) joins the two. `StepRefines` has one case per action,
`NextRefines` adds the host.

### The link

`SorcerBlocks_proofs` begins with `Linked(old, bt, e)`, for every block table whose
blocks name only blocks that are counted (`SourceTable`), every entry block and
every code that ends in `Ret`:

| theorem | states |
|---|---|
| `LinkSound` | the appended image ends in `Ret`, its jump targets are its entries (`LinkageFrom`) |
| `LinkFaithful` | every emitted block stands in it instruction by instruction |
| `LinkTailCalls` | every call in tail position, and no other, is a tail call |

`Layout` flattens a sequence of blocks, so these are inductions over the number of
blocks. The library's induction theorems have the predicate as a parameter and
cannot be instantiated; the module states induction of a *set* of numbers instead
(`LeastNumber`, from the well-foundedness of `<`, and `AllNumbers`), and each
lemma takes for the set the numbers its statement holds of. `FlattenSeqIs` frees
the recursive function in the library's definition of `FlattenSeq`, `LaidOut`
says where each block of a layout lies, `LinkedHolds` what `Resolved` makes of
it, and `Place` finds for an address the block it is in.

### The builder

The same module proves all five properties of the run `blocks`, for every set of payloads and every bound: `TypesKept` (`TypeOK`), `SlotsStayInOrder`
(`SlotsInOrder`), `NamedStayCounted` (`NamedBlocksCounted`), `ImageStaysFresh`
(`FreshImage`) and `ReadsStayBound` (`InlinedReads`).

The invariant `IInv` has two parts. `TableInv` says of each block that its slots
are in order and that whoever it names exists and is counted. The argument is
about one block's code at a time: an instruction at the end of it
(`InOrderAppended`, `TargetsAppended`), and another block's code after it,
renumbered (`InOrderInlined`, `TargetsInlined`), where the binders of the second
are those of the inlined block moved by the length of the first; `Rebuilt` takes
it to the table. It makes the table a `SourceTable`, which is what the theorems
about the link ask for. `ImageInv` is `FreshImage` with what it needs to survive
a step: the code can be appended to, and while it is up to date the linked blocks
exist and stand in it, unless they are `unlinked` (`AllFaithful`, which
`LinkFaithful` establishes). Only inlining changes a block without outdating the
code, and it notes that it did (`AddInlineBlockKeepsImage`); rollback takes
blocks away, and those that stay name none of them (`BlocksRollbackKeepsImage`,
which has `KeepsNames` as its premise).

`InlinedReads` follows from the order of the slots: the bindings of the receiving
block are below its `varCount` (`BindersBelow`), the inlined uses are not, and the
inlined bindings have moved as far as the uses (`ReadsInlined`).

### The context

`SorcerContext_proofs` puts a context together from the proofs of its parts. The
theorems about the machine are taken by instantiating `SorcerVM_proofs` with no image to begin with and `ReuseAfterFailure` true (`MachineAssumptions`
discharges what they assume); those about the builder by extending.
`ContextOwnership` proves `Ownership` whatever the host does. `ContextSafeUse`
proves `SafeUse`, whose one premise is that nothing has `strayed`. The invariant
`ContextInv` has two parts. `Always` holds of every context: the types of the table
(`BuildTypes`, which needs nothing of who names whom, so it holds after `TearNames`
too) and of the cells, and the owners. `Tame` holds until the host or
the program strays: the invariants of the builder and of the machine, and what ties
them. While the code is up to date, the last image starts at `imageStart` and each
linked block starts one of its blocks (`Anchored`), so that a run begins at an
entry; a running machine is on that image (`Machine(imageStart)`), so its counter
is an address and `Land` does not apply (`LandKeeps`); and of the block values the
host keeps, those that are not from before the last link are entries of its image
(`KeptFits`), so that one may be pushed back (`GiveBackKeeps`). Three lemmas carry
the weight: `LinkAnchors` (a link that appends, and resolves the old code once more,
leaves a sound image after it), `RunLinking` (no block value is about when a run
links, or the host has strayed; those it keeps are old from then on) and
`TakeCellsKeeps` (what is taken off the stack is an entry of the current image).

### The compiler

`SorcerMana_proofs` proves, for every text of any length, every table of words
and every number of blocks before, `LoaderTypes` (`LoaderTypeOK`) and `SafeLoads`
(`SafeLoad`), both from `LoaderInvariance`.

What the loader knows of the text is in its tables, so the invariant says what
the tables say. In the first pass (`TreeInv`) the infos are a *forest*: sorted by
where they begin, two blocks disjoint or one inside the other (`Apart`), the
scope of each the innermost block its brace lies in (`Innermost`); the call stack
holds the blocks not yet ended (`OpenStack`); every brace and every definition
read so far is in the tables (`Noted`); and the braces balance where the table
says a block ends, and not before (`Balanced`, which ties the tables to
`Opening`, the count the properties use). `OpenBlockKeeps` and `TreeCloseKeeps`
are the two steps that move it. In the second pass the tables only gain bindings
(`LoadInv`: the forest is complete, and the stack of calls is a stack of its
blocks), and the loader is *inside* the block it thinks it is in (`Tracked`):
its position is innermost in the block of the last call, and each suspended block
goes on in itself. `Tracked` is what jumps over definitions
(`JumpInnermost`), entering a callee (`EnterInnermost`) and coming back
(`InsideReturns`) must keep; it needs `ListsHoldNames`, for a list of variables
is skipped without looking at its braces.

Each premise of `WellFormed` is needed at one step: that the text does not begin
with a block where a value is pushed (`BlockValueKeeps`: `assertScope`), that
no scope defines a name twice where a definition is passed (`LoadDefKeeps`:
the definition found is the one at this position, `DefIsHere`, which counts
braces to see that two definitions have one scope, `OwnerIs`), that lists are
closed where they are read (`OpenListKeeps`), that no name comes last where the
first pass looks one token ahead (`TreeStopsKeep`), and a new context where an
error rolls back both tables (`RejectKeeps`: with two blocks before, infos that
do not exist are freed). `WordsAssumption` is what the code makes of tokens: one that ends in ':' is no
bracket and defines a name of its own, which is not empty.

### One source

`SorcerProgram_proofs` goes from the text to the run: for every text of any
length, every table of words and every bound, `ImagesCompiled` (`CompiledImage`)
and `ProgramsSafe` (`ProgramSafe`). It is where the parts meet, and each enters
with its invariant. Until `SR_run`, `ProgramInv` is the loader's invariant and
`NamesInv` with a machine that is unused; from then on it is the builder's `IInv`
with what is known of the image (`ImageReady`), and the machine on that image
(`MachineReady`, which is `Machine(1)` of the machine's proofs). `RunRootKeeps`
is the step between the two.

`NamesInv` is what the second pass knows of names. The variables in the table of
a block are names of lists that lie in this block and in none inside it, with
slots below `varCount` (`AllVarsFit`); where a block goes on, all its lists
before that position are in its table and the position is in no list
(`AllPlaced`); the code emitted so far reads only slots bound before
(`AllReadBound`) and has only literals the constructor takes. Three steps
carry the weight: a list of variables (`LoadVarsNames`), whose slots go on where
those of the block end; a word that means a variable (the lookup finds it in the
block's own table unless the source `Captures`, and then its list lies before);
and entering a callee or coming back, which change the block whose lists count.
`ImageFits` takes it across the link: whatever is in an image, but its `Ret`s, is
copied from some block (`ImageFound`), with what that block has bound before it
in the image too (`CopiedBound`), so that the image is `SelfContained`. On the
machine's side `MachineReads` says that a slot below what is bound is in the
variable table, and `StepFaults` which instruction each fault comes from.

Assumed are `PoolAssumption` and `StackAssumption` (types of the bounds) and
`NumeralsAssumption`: the loader takes a token for a literal when `SR_cellNew`
accepts it (`sorcer_mana.c:550`, `sorcer_mana.c:607`), and the machine hands the
same string to the same function (`sorcer.c:713`).

### The compiler is faithful

`SorcerFaithful_proofs` proves `SourcesFaithful` (`ProgramSpec => []Faithful`) and
`CompilesFaithfully` (`LoadSpec => []Faithful`, in a context with any number of
blocks before), for every text of any length, every table of words and every
bound: one instruction for each word, in order, and each means its word.

The loader never compiles a block in one go: a word that names a definition
not loaded yet makes it enter that definition, and the word is looked at again
after it. What holds in between is that every block has been compiled *up to
where it goes on*, and this is the invariant `FaithInv`. `StopsAt` says where
that is: nowhere for a block not entered yet, the end of the text for one that is
done, and for one on the stack of calls the position to come back to
(`GoesOn`); that no block is on the stack twice is part of it (`CallsLoaded`). Up
to there a block is `Done`: its code has an instruction for each of its words
before that position, which says what the word does (`Compiled`), and it has
bound the names of its lists before it, each to the slot the text gives it
(`Binds`). In the end every loaded block is done up to the end of the text
(`AllFinished`), and that is `Faithful` (`FinishedMeans`). The invariant was
checked by TLC on the sources of the run `mana` before it was proved.

What a step owes depends on the words it passes:

* a word (`WordCompiles`): one instruction at the end of the code, and one word
  more; what was compiled before goes on saying the same, because loading more
  blocks only makes more of what instructions name (`SaysMore`, `DoneNext`);
* a list (`ListFaith`): the loader binds its names from the last to the first and
  puts each after the variables of the block so far; `SlotIs` says this is the
  slot that `SlotOf` counts in the text;
* a jump over a block or a definition, which owes nothing: no position in it
  belongs to the block that jumps (`OwnJumps`), nor do a definition's name and its
  brace (`DefOwnsNothing`);
* entering a definition and coming back (`FaithEnters`, `FaithReturns`), where the
  position is the same before and after, and a new block starts with nothing.

That the instruction means its word is a comparison of two searches: the
loader's, outward through its tables of scopes, and the text's, over the braces
around a position. `AroundIsSpan` and `SpansIsScope` say that the blocks around a
position are the scopes the loader climbs. For a variable (`VarSays`),
`NamesInv` puts every entry of a table at a name of a list in that block, and
`OwnIsFound` says that a name the block itself has bound is found there; for a
call (`CallSays`), `FoundIsInnermost` says that no definition of the name lies
further in than the one found.

`Faithful` asks one thing of a text, `ListsHoldNames`: a list of variables is
skipped without a look at its braces, so one with a bracket or a brace in it makes
the loader and the reader disagree about the text (TLC finds `[ [ ]`). The other
conditions of `WellFormed`, which `SafeLoad` needs, are not asked: a source that
breaks them may fail an assertion or a read, but if it loads it is faithful. That
a text which begins with a block never loads is `BraceFirst`, kept beside
`FaithInv`: the root is taken for that block (`NothingAfterBrace`, the general form
of what `mana_brace` shows).

### The shell

`SorcerShell_proofs` proves `ShellTypeCorrect` and `OneRunPerChange`
(`ShellSpec => []NoIdleRuns`) for every set of times and inputs and any number of
versions. `NoIdleRuns` is not inductive: an execution is begun because two times
differ, so the invariant (`ShellInv`) counts one change the shell has yet to
answer for as long as they do.

### Only model-checked

Every invariant and every action property of the passing runs is proved. What is
left to TLC alone is liveness, which is out of the prover's reach:
`Termination`, `ProgramEnds`, `DistinctChangesRun`, `QuitEnds` and `InputRun`.

## Findings

Six disagreements between the code and what it or its test says; details and
lines in `PROJECT.json`.

1. A failed run leaves its frames on the return stack; the next run returns into
   them and an assertion of `SR_run` fails (`vm_stale`).
2. A variable of an outer block is compiled to that block's slot but read in the
   frame of the block that uses it; the last block of `1.mana` reads past the length
   of an empty variable table (`vm_capture`). It finds what the tail call of the
   root left there, `{ fff fff }`, and the test passes because of that.
3. A second link resolves the code of the first once more (`context_relink`).
4. A source that begins with a block confuses it with the root (`mana_brace`).
5. A second definition of a name finds the first (`mana_twice`).
6. `-w` is to execute the file when it changes; a version saved in the same
   second as the one executed before is not (`shell_watch`).

## Not modelled

Values of numbers and what the operators compute; lexing; the inside of the
vectors; registration of host-defined types and operators (they are constants:
one type with a pool, and the operators of `SR_arith`), so string types and a
host operator that calls `SR_run` again are outside; printing and argument
parsing. `FILEU_readFile` reads a file in one step, and `signal` keeps the
handler after a SIGINT, as it does on BSD and Linux. Allocation never fails.

## Plan

Done, in this order: `SorcerCode`, `SorcerCells`, `SorcerLink`, `SorcerVM` (the
core: most of the hazards meet there), `SorcerBlocks`, `SorcerContext`,
`SorcerMana`, the proofs of `SorcerVM`; then `SorcerShell` and its proofs,
`SorcerSemantics` and the refinement, `SorcerProgram`, the proof of `Ownership`,
the proofs of `SorcerBlocks`, and the proof that `SorcerVM` implements
`SorcerSemantics`; then the proofs of `SorcerLink`, `SorcerContext`,
`SorcerMana` and `SorcerProgram`, and last that the compiler is faithful. No
invariant is left to prove. What could be added is in the model: host operators
that push or run code again, which the hazards list without a property, and the
values of numbers.
