# A TLA+ verification project for BitterASM

BitterASM compiles a program written with user-defined macros to a stream of
typed values (`bitterasm compile`, a `.em` file), and `bitter` links several
such streams and packs them into bytes. This directory models the parts of
both programs whose correctness is a matter of order, identity and bookkeeping,
checks the models with TLC on small instances and proves what it can with TLAPS.

Paths below are relative to the repository; `loader.rs` is `src/loader.rs`,
`link.rs` and `pack.rs` are in `bitter/src/`, the resolver in `src/resolver/`, the
parser in `src/parser/`, `lint.rs` in `src/diagnostics/`, pages in `docs/book/src/`.

## Inventory

| Component | State | Operations | Talks to | Hard behaviour | Correct when |
|---|---|---|---|---|---|
| Module loader (`loader.rs`) | `LoadState`: cache of loaded modules, stack of files being loaded, constants; per module its scope, exports, parser seed, id | `load_module`, `merge_seed`, `imported_bindings`, `shadow`, the renamer, `collect_declarations` | parser (two parses per file), top-level unrolling, compile driver | cycles and diamonds of imports; ids and names assigned in an order fixed by recursion; two parses of one file that may disagree | each file is loaded once; cycles are reported exactly when there is one; a name means what the imports say; the flattened program holds all it refers to |
| Lexer (`lexer.rs`) | position, tokens, doc comments | `lex`, one method per kind of token | parser | where a lexeme ends; comments in comments; what may precede a number | every token is the longest lexeme at its place |
| Parser (`src/parser/`, `facets/syntax.rs`) | tokens (one is split in place), signatures, syntax patterns and overrides collected so far, docs waiting and astray | `discover_imports`, `parse_seeded`, the expression, statement, facet and pattern parsers | loader (seed in, seed out), linter, printer | what it accepts depends on the seed; binding powers and restrictions; several patterns for one statement; two passes | what a tree spells reads as that tree; the most literal pattern wins; declarations may follow their uses; no doc comment is lost |
| Compile driver (`main.rs`) | a resolver per pass, label positions | `resolve_and_expand`, `walk_top_level` | resolver | a first pass guesses forward labels, a second reuses the positions it found | both passes emit the same number of values |
| Macro runner (`macro_body.rs`) | call stack, pending tail call, generic scope, section and module in force, values emitted | `expand_invocation`, overload choice, `run_macro_body_inner`, `walk_macro_body`, hooks | values, folds, driver | dynamic state saved and restored around recursion, errors and early exits | a call leaves its caller's state alone; counts, sections and values stay aligned |
| Folds (`fold.rs`) | `next_target`, `pending_next` | `run_fold`, `record_next`, `apply_next` | macro runner | `@next`, `@return` and tail calls leave nested bodies by different routes | `@next` reaches its own fold only |
| Aliases, constants, structs, values (`aliases.rs`, `consts.rs`, `structs.rs`, `values.rs`) | resolution marks, memo tables | `resolve_alias`, `evaluate`, `instantiate_struct_fields`, `eval_value` | each other | on-demand recursion with cycle detection | a cycle is reported, nothing is resolved twice or half |
| Top-level unrolling (`toplevel.rs`, substitution in `expander.rs`, `eval.rs`) | constants known, `@next` target and pending, statements produced with their modules | `unroll_top_level`, `substitute_statements`, `eval` | loader (per module), driver (whole program) | names declared from loop variables, shadowing, `@next` across nested loops and choices | what is unrolled means what the source means |
| Symbols, generated declarations (`symbols.rs`, `generated.rs`) | symbol tables | `collect_symbols`, `register_generated` | loader, resolver | ids of generated symbols continue those of the program | ids are never shared |
| Relocatable output (`emit.rs`) | none | `EmFile::parse`, writing | linker | version and feature check | what is written is what is read |
| Linker (`link.rs`) | section order, merged stream, `global_index`, symbol table | `link`, `global_position`, `translate_positions`, `resolve_deferred` | packer | references of several files translated after sections moved entries apart | every reference still leads where it led |
| Packer (`pack.rs`) | byte widths, image | `entry_byte_widths`, `pack_value`, `pad_to` | linker | two passes must agree on sizes; byte distances depend on both | positions, alignment and distances mean bytes of the image |
| Build driver (`bitter/src/main.rs`) | temporary files, the output file | `build`, `encode` | compiler process, linker, packer | several processes on one disk, failure half way, kills | it links what it compiled; no output on an error |
| Printer (`printer.rs`) | none | `print_program` | parser (of the user who runs what it printed) | which parentheses are needed | what it prints reads as what it printed |
| Linter and check (`lint.rs`, `analyze` in `main.rs`, `facets/`) | level of each lint; what occurred in a macro | `parse_lint_config`, `LintConfig::set`, `lint_program_with`, `validate_facets` | parser, driver | five places set a level; expectations; nine walks over the tree | levels are as said last, `forbid` for good; expected is what occurs; unused is what nothing says |
| Expander (`basm expand`'s own part), formatter, rendering of diagnostics, doc, verbose | none kept | text out of programs | CLI | none | tests of text |
| Standard library (`std/`) | none | programs in the language | all | none | its own `@assert`s and golden tests |

Which hazards of this code the properties are for is listed, line by line, in
`PROJECT.json`.

## Modules

**`Link`** models `link()` with one action per iteration of each of its loops:
`SeeEntry`, `SeeNextInput`, `SectionsKnown` build `section_order`; `PlaceEntry`,
`PlaceNextInput`, `PlaceNextSection`, `EntriesPlaced` fill `merged` and
`globalIndex`; `DeclareLabel` (in any order, as the labels are a `HashMap`),
`LabelsDeclared`, `SymbolsKnown` fill `symbols`; `RewriteValue`, `RejectValue`,
`Linked` rewrite the values. `cur` is the position of the nested loops. A value
is the sequence of its references, in the order the recursive walks meet them;
all else in it passes through the linker untouched.

**`LinkSpec`** says what a link means with no loop at all: a position of the
image is a count of entries laid before it (`Place`), an image is the denotation
of the command line (`Denoted`), and a link either yields it or is refused,
refused exactly when the inputs have no meaning. `Link` ends with the mapping of
its states to `LinkSpec`'s (everything before the end is a pending outcome).
**`LinkProofs`** holds the proofs, **`MCLink`** the instance.

**`Pack`** models `pack_stream`: the width pass (`MeasureEntry`, `NotePadImage`,
`AllMeasured`), the packing pass (`PackAlign`, `PackValue`, `AllPacked`), the
padding of the finished image (`PadImage`, `Packed`) and the refusals of both
passes: `Misplaced` for an entry without a size, `Unpackable` for a value whose bits
are deferred or no integer, whose `LittleEndian` has a wrong width, or whose
expression does not resolve (`ResolveDeferred`: every operator, and an error for a
leaf never linked, a missing payload or field, an unknown operator, a span off
the stream, wherever in the expression it is). Bytes are computed as the code
computes them, from the field widths and big integers; values nest two levels
deep, because deeper nesting concatenates the same way, and an expression is the
sequence of its nodes, operands first. `starts` is a history variable: what the
image's length really was when each entry was packed, against which the widths
of the first pass are judged.

**`Loader`** models `load_module` with its recursion made explicit: `stack` is
`LoadState.stack` with, for each file, the import it is at and the seed it has
merged, and `asked` is the argument of the innermost call. `AskForImport`,
`ReportCycle`, `EnterModule`, `TakeSeed` are the import loop; `RejectModule` and
`FinishModule` everything from the parse on, with the errors in the code's
order; `StartSplicing`, `SpliceImport`, `SpliceModule` are
`load_program_with_modules` and `collect_declarations`. A file is what its text
says: imports with the files they resolve to, declarations after unrolling,
names used. **`Names`** has the bindings and tables: `Merge`, `Shadow` and the
precedence of explicit imports. **`Visibility`** states what names promise on
the import graph itself: a file sees what chains of imports, public after the first,
lead to (`Visible`, `Offered`, over `ReachedFrom`: the files in every set that is
closed under the edges), file by file: overloads of one name in one file are not
told apart. Its properties compare that with the tables, the errors
and the flattened program. **`LoaderProofs`** and **`VisibilityProofs`** hold the proofs,
**`MCLoader`** is the instance.

**`MacroRun`** models the expansion of a program: `walk_top_level` and the two
passes of `resolve_and_expand` (`WalkLabel`, `WalkSection`, `WalkInvocation`,
`Collect`, `ReportError`, `SecondPass`, `Finish`) over the macro runner and folds.
The recursion of the code is made explicit: `control` has a frame per active
function (`resolve_macro_overload`, `run_macro_body_inner`, `walk_macro_body`, the
rounds of `@for` and `run_fold`), and `doing` says whether the top frame runs,
receives the answer of the frame above, or is unwound by an error. The
resolver's fields are variables: what is saved and restored around the
recursion (`next_target`, `current_section`, `current_module`) is `context`, what
is left by one function for another (`pending_tail_call`, `pending_next`) is
`pending`, and `values_emitted`, `emitted_sections`, `label_positions`,
`used_forward_label_placeholder` and `error_module` are `count`, `sections`,
`positions`, `guessed` and `blame`. Overloads are tried one after the other; an
alias parameter's invariant is a macro call (`Probe`), whose error is swallowed
(`SwallowError`; `JudgeProbe` if the error is only that it emitted). Data is integers and every macro has one parameter; generics,
the `emits` facet and generated declarations are left out. `origin` and
`swallowed` are history variables.

**`MacroMeaning`** says what a program means as the book tells it, by recursion on
its text: no stack, no counters, no pending jumps, no saved state. `Conforms`
compares a finished expansion with it, values, sections and labels, and asks
that exactly the programs without a meaning are refused. **`MCMacro`** has the
programs.

**`TypeResolution`** models `resolve_all_structs`, `resolve_all` and
`instantiate_struct_fields` as `resolve_structs_and_aliases` drives them. The
functions that resolve a type call one another, so `frames` is that recursion,
innermost first, and `doing` whether the innermost goes on, asks for a type, is
answered, or is left by an error. `marks` and `memo` are the resolver's `states`,
`path` its `stack`, `generics` its `generic_scope`. `NameParameter` to `NameUnknown`
are `resolve_named_type`, `NameResolved` to `FailAlias` `resolve_alias`, `Expand` and its
neighbours the generic aliases, `ApplyBase` and `ApplyStruct` `resolve_applied_type`,
`AskNext` to `FailCaller` the lists of fields and arguments. The code substitutes
the arguments of a generic alias into its target before resolving it; the
model carries them beside the target and puts each in place when its parameter
is come to (`Close`), which resolves the same expressions in the same order.
`AliasesResolved` leaves the instances in any order, as the code iterates over a
hash map. **`TypeMeaning`** says what a type is by recursion on declarations
(`Meant`), without marks, memory or path.

**`Constants`** models both evaluators of constants: `ConstEvaluator`, which folds
to integers those that look like integers (`IntShaped`), and
`resolve_all_const_values`, which gives every constant a value of any kind,
converted to its declared type. They are one machine in two `stage`s, as both
evaluate on demand, mark and remember; they differ in what they read, in which
order (`Reads`), how they combine it (`Result`), and in that only the second knows
modules. `arose` is a history variable. **`ConstantMeaning`** is the reference
(`Comes`). **`Resolution`** composes types and constants in the order of
`resolve_and_expand`: fold, resolve types, value. **`MCResolution`** has the
instances.

**`Build`** models `bitter build` and `bitter encode` as processes on one file
system: `proc` is what each is doing, `files` the disk, `temps` the temporary
files by process id and index, `marked` what may be executed. `Compiled` and
`CompileRefuses` are the `bitterasm` subprocess, `ReadTemp`, `RemoveTemp` and `Load`
the reading of `.em` files (`EmFile::parse` with its version and features),
`LinkAndPack` the middle of `build`, `Write` and `Mark` `write_executable`.
`CompileBreaks`, `ReadFails`, `WriteFails` and `Kill` are faults, at most `MaxFaults`
of them; a process id is free again once its process is gone. Nothing stops the
compiler of a build that is killed (`Command::status`): it may be among `orphans`
and later finish, refuse or break with nobody waiting (`OrphanEnds`), its build's
process id having been given to another meanwhile (`shadowed`, a history variable).
An image is known by the programs it is made of, and linking and packing by what
they accept. One assumption: no two processes that run at once have the same
output (the code takes no lock).
**`MCBuild`** is the instance.

**`Tree`** has statements and expressions as trees of one shape, the substitution
of `expander.rs` (`Substitute`, `Without`) and the integer evaluator of `eval.rs`
(`Eval`). **`Unroll`** models `unroll_top_level` with one action per statement and
per iteration, as the loader runs it on two modules, the second importing the
first, and the driver again on both together (`pass`). Its recursion is `stack`;
`target` and `pending` are `@next`'s, as in the macro runner; `consts` holds the
integer constants known so far, `exported` those the loader hands on.
**`UnrollMeaning`** runs the source with loop variables and accumulators in an
environment, substituting nothing, and compares. **`MCUnroll`** has the programs:
every body inside every pair of wrappers.

**`Token`** has what lexer, parser and printer share. **`Lexer`** reads a text with
one action per kind of token and comment. **`Grammar`** is the language's grammar
as data, one rule for each parsing function, and **`Parser`** the interpreter of
those rules with the parser's state (`Start`): the tokens with the split of `>>`,
signatures, patterns, overrides, imports and doc comments. It also has the
operators that are not grammar: the loop over binding powers, generic arguments
by signature, invocations by pattern (**`Pattern`**, `facets/syntax.rs`), the two
passes (`parse_seeded`) and `discover_imports`. **`Printer`** is `printer.rs` but for
indentation. **`Syntax`** composes them: a file is lexed and parsed, then printed
and read again, or read again with its statements in another order.
**`SyntaxMeaning`** says, without any of them, which texts are lexemes, how a tree
is spelled with the parentheses it needs, and which forms of tree are known not to
survive printing (`Awkward`). **`MCSyntax`** has the inputs. Text is kept character by
character only where a property is about it: in the lexer and the printer.

**`Lint`** models `lint.rs`: levels and groups (`set`, `Selected`), the facets that
say levels, each lint, and where facets may stand (`validate_facets`). **`Check`** is
`analyze` in `main.rs`: the project file line by line (`ReadSection`, `ReadSetting`,
`SkipLine`, `RefuseLine`), the flags (`ApplyFlag`), linting the entry file (`LintEntry`),
resolving it (`Resolve`, or `ResolveFails` for every other reason) and the level
of generated declarations. `Resolve` checks the facets of top-level declarations
only: those inside a top-level `@if` or `@for` are covered by `ResolveFails`, which
may always happen. **`CheckMeaning`** says what the levels mean, which names a file
utters and which folds have a `@next` of their own, in all of the file and in the
part that the linter is known to look at (`Overlooked`, `Unvisited`). **`MCCheck`** has the files.

## Runs

| Run | Question | Instance | Result |
|---|---|---|---|
| `link` | placement and references; does every link end with what `LinkSpec` denotes, refused exactly when it denotes nothing | 1 to 3 inputs of up to 3 entries, 2 sections, 2 labels, references of ten kinds, all errors | holds |
| `pack` | do the passes agree; are sizes, alignment, spans, padding and refusals right | streams of up to 3 values over fields of 0 to 12 bits, alignments, one or several paddings, spans, every operator, malformed values and expressions | holds; alignment when no value is empty |
| `loader` | recursion, cycles, ids, overrides, visibility, the flattened program, termination | all graphs of 3 files with up to 2 imports each, 4-file diamonds over all kinds of declarations and imports, overrides and signatures meeting | holds |
| `loader_late_import` | are all imports discovered | seeds of 3 files | violated |
| `macro` | do expansions mean what the book says; is saved state restored on every way out; do labels stand where the values are; do the limits hold | some 1500 programs: every use of a helper with every kind of helper, jumps out of nested loops, recursion to both limits, hooks, overloads with probes | holds |
| `macro_bare_return` | does a bare `@return` end the macro | a bare `@return` in a branch, a loop and a fold | violated |
| `declarations` | is every type and constant what it means by itself, whoever reached it first; is a program refused exactly when something has no meaning (constants the folder mistakes apart); are cycles real; do errors leave no mark and blame the right file; do folded integers agree with values | some 6000 programs of a struct, plain and generic aliases in two orders, and some 6000 of four constants in two files | holds |
| `build` | does each build link what it compiled, whatever is killed and whichever compilers run on; does success mean a whole executable image; do errors keep the old output and leave no temporary | two processes, four programs, two process ids, up to two faults or kills at any step | holds |
| `unroll` | does unrolling keep meaning and refuse for the source's own reasons; has the second pass nothing to do | eleven bodies inside every pair of six wrappers, over two imported modules, and programs about one limit or refusal each | holds |
| `unroll_nested` | does an inner loop keep its variable | a loop inside a loop over the same name | violated |
| `syntax` | are tokens the longest lexemes; does what a tree spells, or the printer prints but for `Awkward` forms, read as that tree; does the most literal pattern win; may declarations follow uses; are doc comments accounted for | trees of two and three operators of every kind, every form of statement, every short text over an alphabet that starts each kind of token, small pools of patterns, files of a few lines with docs | holds |
| `lint` | are levels as said; are expectations told of truly; is nothing said called unused, and everything unsaid, where the linter looks; likewise for folds without a `@next` of their own | a name in every kind of place, a fold in every kind of place, project files, flags and facets that contradict each other | holds |

Some properties are conjunctions of named parts: `Consistent` (`Loader`: types,
`StackIsImportPath`, `IdsNameModules`; `MacroRun`: types, `ContextFitsStack`,
`PendingSettled` until an error is recovered from), `PaddingAligns`, `TypesAsMeant`, `ConstantsAsMeant`,
`ReportsAreCircles`, `MeansTheSame`. The type invariants of `Link` and
`TypeResolution`, and `ConstTypeOK` of `Constants`, are proved instead of run.

Why the bounds are enough: the linker's decisions compare two positions, two
sections or two inputs, so two inputs with reopened sections meet every case,
and a third shows that nothing depends on there being two. The packer treats
entries independently except through sums of widths, alignment and spans, each
of which two neighbours exercise. The loader's choices involve a file, two of
its imports and what those share; three files give every cycle shape up to
three and four files give diamonds. The macro runner's interesting cases are pairs
(a way to use a call and what the callee does; a jump and what it leaves; a
limit and one past it), so programs pair them systematically, with
`MAX_MACRO_CALL_DEPTH` 3 instead of 32 and `MAX_TAIL_CALLS` 2 instead of 4096. Type
and constant resolution depends on chains: what is reached first, from where,
and whether the chain closes. Two plain aliases, a generic one and a struct, each
with every kind of target over the others, give chains and cycles of each
length up to four in both orders; four constants do the same, two of them in a
file the other two import. Two builds conflict in pairs, over one temporary name
or one disk, and a second fault finds what the first left. Unrolling acts on a
loop and what encloses it, so pairs of wrappers meet every case; loops turn two
or three times and `MAX_FOR_ITERATIONS` is 3 or 4. An operator's parentheses depend
on its neighbours, above and below: trees of three levels have every pair of
neighbours and every operator between two others. A lint looks at one place of
one file; what contradicts is at most a default, a line, a flag and a facet.
Every bound is named in the MC module.

Fairness: loading, expanding, resolving and linking are sequential, and nothing
blocks them, so `Terminates` and the ending of `LinkImplementsSpec` assume only that
they keep taking steps (`WF_vars(Next)`). The other runs check safety. Deadlock is
checked where a specification has an explicit final step; `syntax` and `lint` stop
when the text or the check is at its end (`CHECK_DEADLOCK FALSE`).

### Disagreements found

Runs of their own:

- `loader_late_import`: `discover_imports` stops at the first statement it cannot
  read without a seed; imports after it are never loaded, and the second parse
  then indexes the cache with them.
- `macro_bare_return`: a nested body's `@return` is recognised by its value, so a
  bare one inside `@if`, `@match`, `@for` or `@fold` ends only that body
  (`return.md:40`: it stops the macro at once).
- `unroll_nested`: `substitute_statement` shadows a loop's variable in its body but
  substitutes the loop's own arguments, the variable among them: a `@for i`
  inside a `@for i` becomes a loop over a number and is refused
  (`expander.rs:252`: the variable is shadowed out).

Counterexamples beside the runs, each found by giving a constant of a passing
run's `.cfg` another value and checking one more property:

- `MCPack` with `StreamSpace <- MCEmptyStreams` violates `EveryAlignAligns`: an empty
  value is zero bytes to `entry_byte_widths` and one byte to `to_bytes`
  (`pack.rs:494`), so later positions and alignments are one byte off.
- `MCPack` with `StreamSpace <- MCTwoPads` violates `EveryPadPads`: several `pad_image`
  requests undo one another (`bitter.md:134`: it pads the finished image to a
  multiple). `PaddingAligns` claims what is left: the last one holds, and all do if
  one of them is a multiple of the others.
- `MCLoader` with `WorldSpace <- MCDiamonds` violates `PrivateOverloadsStayPrivate`:
  exporting one overload exports the module's whole set, private overloads
  included (`visibility.md:5`: a declaration without `pub` is private to its file).
- `MCLoader` with `WorldSpace <- MCOwnLabels` violates `NamesKeepTheirMeaning`: a
  library's own label is not spliced and keeps its plain name, so its macros'
  references to it dangle or catch the program's label of that name
  (`imports.md:115`: a name always means what it meant where it was written).
- `MCMacro` with `Programs <- MCNoisyProbes` violates `Conforms`: what an alias's
  invariant emits while an overload is tried is counted, for labels and
  sections, but not output. `Aligned` therefore speaks only of expansions that
  recovered from no error.
- `MCResolution` with `Programs <- MCSelfApplied` and
  `Declarations <- MCSelfAppliedDeclarations` violates `CyclesAreReal`: the arguments of a generic alias are resolved inside
  its target, with the alias on the stack. `G<G<int>>`, and `type A = G<B>; type B =
  G<int>`, are refused as cyclic though nothing refers to itself (`aliases.md:153`:
  each use substitutes its arguments). The second is accepted when `B` comes
  first, so acceptance depends on the order of declarations. The instance of
  `declarations` leaves such programs out (`SelfApplied`).
- `MCResolution` with `ConstPrograms <- MCLateConstPrograms` and
  `Declarations <- MCLateDeclarations` violates `BlameIsHome`:
  `resolve_all_const_values` reports an error in the file of the constant it had
  come to in order. An import may stand anywhere in a file and is spliced where it
  stands, so a constant above it forces the imported ones it reads, and their
  errors are reported in the importing file, with spans of the imported one
  (`aliases.rs:406`: `error_module` says which file an error's span is in). The
  instance of `declarations` has only files that import before they declare
  (`ImportedFirst`), for which `BlameIsHome` is proved.
- `MCResolution` violates `RefusedWithCauseAlways`: a constant that is a variant of a
  generic enum, or an operator applied to a constant's field, is refused because
  it looks like an integer and does not fold, though `constants.md:21` lets a
  constant hold any value and `consts.rs:67` says that such a one is skipped.
  `RefusedWithCause` asks a cause of every refusal of programs without such a
  constant (`NoneMistaken`), and that what is accepted has values.
- `MCBuild` violates `ReadsItsOwnAlways`: a build is killed while it compiles, another
  is given its process id, and the first one's compiler, still running, writes the
  temporary file between the second's compilation and its reading
  (`bitter/src/main.rs:176` starts the compiler, `:221` names the file by the
  process id alone). `ReadsItsOwn` leaves out builds given the id of one whose
  compiler still ran.
- `MCSyntax` violates `PrintedIsReadAlways`: the printer, which calls itself the
  inverse of the parser but for one gap (`printer.rs:1`), does not print
  `!x in y`, `-1 as T`, `0.. .loop`, facets `allow lints(...)`, a construction in the
  header of a block, or a positional `@next` that something follows, so that they
  read the same. `PrintedIsRead` is about trees without these forms (`Awkward`).
- `MCCheck` violates `UnusedIsUnsaidAlways`: an import said only in an alias's facets,
  a generic parameter's type, a spliced declaration's name or a value-fold's body
  is called unused, as is a parameter said only in a local constant's type, a
  nested declaration or `emits`, and a loop's variable counts as a use
  (`diagnostics.md:27`: it is for names never used). `UnusedIsUnsaid` asks that
  what is called unused is said at most in such places (`Overlooked`), and that
  what is said nowhere is called unused unless it is a loop's variable.
- `MCCheck` violates `FoldsWithoutNextAlways`: folds inside `as`, ranges, `in`,
  payloads, defaults, arm patterns, splices and generic arguments are not seen
  (`diagnostics.md:31`; `lint.rs:929` names a test "everywhere a fold can be").
  `FoldsWithoutNext` asks that every fold reported has no `@next`, and that none
  without is missed in the places visited (`FoldsHere`).
- `DeclaredWhereSeen` without its condition `prepass.ok` fails on `MCSyntax`'s
  `Orders`: the first pass stops at its first error, so a use that only parses
  with a signature declared after it stays refused (`parser/mod.rs:6` says that
  the signature may live later in the file).

The models follow the code in more places where a comment or a page says
otherwise, or where one would argue. In the linker, loader and packer: one
module given twice may declare a label twice (`link.rs:95`); an explicit import of a macro hides
the overloads a `*` import brings (`imports.md:122`); a re-exported label comes in
through `*` (`labels.md:87`); one label imported by two statements is ambiguous with
itself (`loader.rs:823`); the constants a module's importers see may include one
it imported itself (`loader.rs:542`).

In the macro runner: `error_module` survives an error that a probe recovers from
until the next call succeeds, so a later error may be reported against the
wrong file (hence `~swallowed` in `BlamesInnermost`). A self tail call from a fold
inside a larger expression, in an invariant being probed, leaves
`pending_tail_call` set for the next call to find (`fold.rs:113`): `Consistent`
claims `PendingSettled` only until an error is recovered from, and the instance
has no such program, on which `Conforms` fails. The two passes agree only if no condition
depends on a label, which `main.rs:649` leaves to the author; the instance keeps
to it.

In types and constants: an alias first reached from inside a generic struct is
resolved in that struct's scope and remembered: with `struct T`, `type X = T` and
`struct S<T> { x: X }`, `X` becomes the parameter of `S` for the whole program
(`ResolvedAsMeant` fails on it; the instance names no type as a parameter). A
constant whose type converts it by computing another integer folds to what it
was before (`constants.md`: the conversion comes before binding), so `FoldsAreValues`
excludes those.

In unrolling: labels and enums are copied into a `@for` unsubstituted; a constant
inside a macro's body that has the loop variable's name is substituted; only a
module's literal constants keep imported ones of the same name out
(`loader.rs:485`).

In the parser: a `>>` split by one pattern stays split for
the next, so `MostLiteralWins` is about texts without it; `0x_` is an integer;
`| to b {` reads as a construction; an override that precedes the facet it is for
leaves the pattern in.

In the linter: `deny(generated_declarations)` on a macro, the example of
`diagnostics.md:56`, has no effect, nor has a facet about
`unfulfilled_lint_expectation`; `expect` in a project file is never checked, and
`expect(unused)` on a macro always reports the lints that cannot occur in one;
macros inside others are not linted, though a comment says each is on its own; a
lint's name in a facet of a struct counts as a use of an import of that name. Names
spelled with a backtick in the middle are left out of `UnusedIsUnsaid`.

In the build driver: `bitter build` on a path without an extension writes over it.

## Proofs

Eight modules hold theorems; each theorem is about every value of the module's
constants, from the assumptions named in the module that declares them, which
TLC evaluates on the runs. Every property below was checked on its run first.

| Module | Theorem | Says |
|---|---|---|
| `LinkProofs` | `LinkTypeCorrect` | `[]TypeOK` |
| | `LinkPlacementCorrect` | `[]Placement` |
| | `LinkReferencesLand` | `[]ReferencesLand` |
| | `LinkRefinesPromise` | the linker implements `LinkSpec` |
| `LoaderProofs` | `LoaderConsistent` | `[]Consistent` |
| | `LoaderOverridesAgree` | `[]OverridesAgree` |
| `VisibilityProofs` | `LoaderReportsCycles` | `[]CyclesReported` |
| | `LoaderScopeIsVisibility` | `[]ScopeIsVisibility` |
| | `LoaderProgramIsClosed` | `[]ProgramIsClosed` |
| `PackProofs` | `PackWidthsMatchBytes` | `[]WidthsMatchBytes` |
| | `PackPaddingAligns` | `[]PaddingAligns` |
| | `PackPacksWhenWellFormed` | `[]PacksWhenWellFormed` |
| `MacroRunProofs` | `MacroConsistent` | `[]Consistent` |
| | `MacroAligned` | `[]Aligned` |
| | `MacroBlamesInnermost` | `[]BlamesInnermost` |
| `ResolutionProofs` | `TypesTypeCorrect` | `[]TypeOK` |
| | `TypesPathIsActive` | `[]PathIsActive` |
| | `ConstantsTypeCorrect` | `[]ConstTypeOK` |
| | `ConstantsCirclesAreReal` | `[]CirclesAreReal` |
| | `ConstantsBlameIsHome` | `[](ImportedFirst => BlameIsHome)` |
| | `DeclarationsResolveTypes` | `DeclSpec => Spec`: what is proved of the resolver holds in the run |
| `BuildProofs` | `BuildReadsItsOwn` | `[]ReadsItsOwn`, which leaves out builds in `shadowed` |
| | `BuildSuccessIsAnImage` | `[]SuccessIsAnImage` |
| | `BuildLeavesNoTemporary` | `[]NoTemporaryLeft` |
| | `BuildErrorsKeepTheOutput` | `ErrorsKeepTheOutput` |

**`DataInduction`** is the eighth, and holds only lemmas. The library's induction
theorems take a predicate, which no installed prover can instantiate; a set with
0 and every successor holds every number (`Induction`, `IntervalInduction`) says
the same of sets, from the library's theorem about well-founded relations. From
it follow that functions recursive on an interval exist (`RecursionExists`), what
`FlattenSeq` yields (`FlattenSeqUnfolds`, `FlattenSeqElements`), and, in
`PackProofs`, what a sum is. The other lemmas are what appending, popping,
replacing and joining do to sequences, for the proofs about stacks, and how often
a value occurs in joined and in selected ones (`PlacesJoined`, `PlacesChosen`), for
the flattened program.

**Linker** (`InputSpaceAssumption`: inputs have the shape `IsLinkInput` gives them;
`LinkModuleAssumption`: the linker's own module is none of theirs). Neither `TypeOK`
nor `Placement` (`merged` and `globalIndex` are inverse, and when placement is over
every entry is placed) is inductive alone. `IInv` adds `SectionsDistinct` (sections
are listed once, which keeps an entry from being placed under two of them) and
`Progress`: during the first phase the sections of all entries before the loops'
position are listed, during the second an entry is placed exactly when the
loops have passed it, by section rank, input and local index. The refinement
adds `Order` (a section is listed before another exactly if an entry of it comes
first, and the stream is in the order of the sections), `Tables` (every label read
is filed, under the last input that declares it) and `Meant` (every value written
so far is the old one with each leaf landing where it meant). An image that is
finished is then the one `LinkSpec` denotes, and every error a cause it names. The
proof found that two arms of a `CASE` over leaves in `LinkSpec` overlapped, so that
it said nothing definite of a plain integer; it is an `IF` now, and the
layout is stated by the rank of sections.

**Loader** (`WorldAssumption`: each world of the instance is a file tree over
`Files`; `PathAssumption`). `Consistent` is `TypeOK`, `StackIsImportPath` and
`IdsNameModules`. The invariant adds that each frame below the top stands at an
import (`StackOK`), that the walk of the splicing stands at loaded modules (`WalkOK`)
and where each phase may be (`PhaseOK`); that a file is never entered twice then
needs no finiteness argument, since it would be on the stack or in the cache.
`OverridesAgree` needs `Taken`: what a frame has merged holds the override of every
import it has passed, or counts it as a conflict. The proof failed for imports
that `discover_imports` does not reach (`loader.rs:933`), whose overrides nobody
compares, so the property is about those it reaches, and the instance has
files whose discovery stops early.

**Visibility** (the loader's assumptions). What chains of imports reach is a set
given all at once, by closure, while the loader's tables are made module by
module from the tables before: the three proofs relate the two without any
induction over paths. That the files reached are exactly the loaded ones follows
because the loaded ones are closed under imports (`CacheIsClosed`), and that
whatever is on the stack is reached is kept at each step (`CycleInv`); no cycle
passes through loaded files, as ids fall along imports (`ImportsFall`). For
`ScopeIsVisibility`, `NamesInv` says of every loaded module that its scope and its
exports mean what the graph offers. A module's chains are its imports' chains
and one import (`ReachedUnfolds`, `OfferedUnfolds`), and what merging and shadowing tables
does to the names in them is what joining sets of files does (`MergedNames`,
`ShadowMeans`). `ProgramIsClosed` needs two invariants: what has been emitted is
the items of the modules spliced, each once (`SpliceInv`, whose `WalkInv` says that
a module on the walk has had the imports before its place spliced); and each entry of a
table leads to a declaration its file really makes or to a label some file on the
way imports by name, and no finished module declares a name twice unless all are
macros (`GroundInv`). `ItemsCount` then counts the items of a flattened
module, and `OneOfEach` what is left of imported labels after the duplicates go.
To be reasoned about, `Visible` had to be stated by closure instead of by recursion
over visited files, and `Items` and `OneExternEach` by selection; the instance's
result is the same.

**Packer** (`StreamSpaceAssumption`: a stream is a sequence of values, their
expressions sequences of nodes in order; `NoNumberAssumption`). The invariant says
of the first pass that every width is what the types alone give and every offset
the sum of those before (`Measured`), of the second where it is (`Placed`) and that the image ends at the offset of the entry
that comes next (`Matched`, while no value is empty; see *Disagreements*), that what
was packed is in order and what is refused is not well-formed
(`Sorted`), and how far the padding has come (`Padding`). `PacksWhenWellFormed` is
`Sorted` with `WellFormed` stated without resolving anything: an expression is in
order when each node of it is, given what its operands mean. That an expression
resolves exactly then (`ExpressionResolves`) is by induction over its nodes, with
an error passing to whatever uses it (`ErrorPasses`).

**Macro runner** (`LimitAssumption`, `NoneAssumption`, `ProgramAssumption`: a program
is a sequence of statements whose labels are `Labels`). `IInv` says of every frame of
`control`, not only the top one, that it is of a shape its function has, that it
runs for the frame below (`Carries`), and that what it saved fits the frames below
(`Saves`, over `ModuleFits` and `TargetFits`). Restoring then re-establishes the
context, whether by a return, a jump or an error; that is `Consistent` without
pending jumps, and holds whatever errors were recovered from. With `Settled`, a
jump under way is met only by frames that let it through to the fold or call it
is for; this is what an error swallowed by a probe can break, and the proof
showed where. For `Aligned`, `Accounted` says that the count is what the driver has
plus what is being delivered plus what every frame on the stack has collected
(`Holds`, a sum over the stack): no step in or out of a call, hook, loop, fold or
tail call loses or doubles a value until a probe's error throws some away. For
`BlamesInnermost`, `Blamed` says that while an error unwinds, either the module it
arose in is blamed or it is still in force. That nothing arises between the two
needs the context to be right, hence the first invariant.

**Types** (`ProgramAssumption`). `TypesPathIsActive`: the path names the aliases being
resolved, each once and in their order, and the aliases marked as being visited
are the plain ones among them. `Spec` is the resolver by itself; `DeclSpec`
implements it (`DeclarationsResolveTypes`), as `Resolution` only restricts when its
steps are taken. That leaving an alias by an error keeps `memo`
and `marks` in step needs the mark to be there, and that marks and frames agree
needs the path to hold no name twice, so the two support each other. `IInv` adds
that a frame which expands is for a generic alias: an unvisited plain alias is
then on no frame, which is why `VisitAlias` needs no check of the path where
`Expand` has one. `PushOther`, `PopOther`, `PushActive` and `PopActive` say how the
relation of path and frames (`Follows`) survives a call and a return.

**Constants** (`ConstProgramAssumption`: the order lists what is declared, and
operands are operands; `DeclarationAssumption`). `ConstInv` says that the
evaluations going on are of different constants, each reading next the one that
is evaluated for it (`Chain`), and are the ones marked (`ConstMarksOK`); that what
is wanted or given is what the innermost reads next (`Awaited`); and that while constants are
valued, those before the one come to have their values (`InTurn`). From `Chain`, a
constant met again closes a circle, and each constant of it reads the next
(`CircleMet`). `BlameIsHome` needs more: that all evaluations going on are of the
file of the constant come to (`AtHome`). An evaluation only begins for a constant
without a value; if it were of another file than its reader, `ImportedFirst` would
put it before all constants of the reader's file, so by `InTurn` it would have one
(`UnvisitedIsHome`). `ImportedFirst` is a hypothesis of the theorem and not an
assumption, since the code does not see to it; the disagreement above is what
happens without it. `Reads` selects with `FlattenSeq`, whose results
`DataInduction` knows (`PlacesChosen`).

**Build driver** (`CommandsAssumption`: a command names its inputs and its output;
`DiskAssumption`: what is on the disk at first is of a known kind), for any number
of processes. The invariant says that two processes that run at once have
different ids and outputs (`Apart`, from what `Start` assumes of the system), that
a compiler that runs on shares its id only with builds in `shadowed` (`Haunted`),
hence that a temporary file read by any other build is the one its own compiler has just
written (`Owned`), that a temporary file is at least what some compiler wrote,
whole or in part (`Dropped`), that what was written is the image of what was read
(`Delivered`), and that without a fault every temporary file is some process's
(`Claimed`).

What only TLC checks:

- liveness: `Terminates`, and that every link ends (`LinkImplementsSpec` beyond
  `LinkRefinesPromise`);
- what needs induction over nested data, or is compared with a definition by
  recursion: `Pack`'s `BytesMean`, `Conforms`,
  `TypesAsMeant`, `ConstantsAsMeant`, `MeansTheSame`, `UnrolledStays`, and all of
  `syntax` and `lint`. `Tree`, `Parser`, `Printer`, `Lint`, `MacroMeaning`, `TypeMeaning`,
  `ConstantMeaning`, `UnrollMeaning` and what extends them declare `RECURSIVE` operators and are for TLC alone;
- `ReportsAreCircles`: its half about constants is `ConstantsCirclesAreReal`; its
  half about types fails for generic aliases applied to themselves (above), and
  that no other program makes a false cycle depends on what arguments lead to,
  over any number of declarations.

## Not modelled

- Of the resolver: inference of generic arguments, const generic parameters,
  loops and conditions in struct bodies, enum payloads, the arithmetic of values
  and their conversions, the `emits` facet, folds of several accumulators in
  macros, and the declarations that macros generate with their symbols: each
  adds data to a recursion that is modelled, or (generated declarations) a
  second table whose ids continue the first.
- `basm expand`'s own table of macros and its rewriting of invocations (it keeps
  the last overload of a name and renames nothing it captures): the printing of
  its result is modelled, and the substitution it shares with unrolling.
- Indentation, the formatter, messages and the rendering of diagnostics, the
  documentation generator (which never deletes a page, though `doc --check` fails
  on a stale one), progress lines: text in and out.
- JSON, the manifest of `pub` labels, the search for the sibling executable.
- The standard library: programs in the language; what the packer knows of
  `std.bitter` is in `Pack`.

## Plan

1. *(done)* Linker with its abstract specification and first proofs; packer;
   loader.
2. *(done)* `MacroRun` and `MacroMeaning`: the driver's passes, the macro runner and
   folds.
3. *(done)* `TypeResolution`, `Constants` and `Resolution`.
4. *(done)* `Build`; `Unroll`; `Syntax` over lexer, parser and printer; `Check` over
   the linter.
5. *(done)* Theorems about the linker and its refinement, the packer, the
   loader and what its names promise, the macro runner, type resolution, the
   constants and the build driver. Left: `TypeResolution`'s part of
   `ReportsAreCircles`.
6. `Generated`: declarations that macros generate, their ids and names.
