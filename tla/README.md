# neoast in TLA+

neoast is a parser generator in C and C++11.  `neoast GRAMMAR OUT.c OUT.h`
reads a grammar file, builds an LALR(1) or CLR(1) table and writes a parser that
links against a small C runtime.  This directory holds TLA+ models of that code,
the TLC configurations that check them and TLAPS proofs about them.

`PROJECT.json` is the index: for every definition the lines of the source it
stands for, for every run its properties, for every property a mutation of the
model that breaks it, the hazards of the code at their lines, the disagreements
found, and the theorems.  Paths below are relative to the repository.

## The system

| Part | Code | State it keeps | Operations |
|---|---|---|---|
| LR parser runtime | `src/lr.c`, `src/parser.c`, `include/neoast.h` | parsing stack, token table, value table, slot of the lookahead, slot of the last reduction | shift, reduce, accept, syntax error, lexer error, unwinding with destructors |
| Generated lexer | `src/codegen/cg_neoast_lexer.cc`, `cg_pattern.cc` | stack of lexer states | next token, skip, push and pop a state, ASCII mapping, lexer error |
| Lexer of grammar files | `compiler_compiler.y` (as generated into `bootstrap/bootstrap.c`) | lexer states, brace buffer and counter | the same, and the actions of its rules |
| Text matcher | `src/lexer/matcher.c`, `container.c`, `include/lexer/*.h` | text buffer with token start and end, line and column counters, tab stops, lookaheads | scan, text, get, peek, shift and grow the buffer |
| Input sources | `src/lexer/input.c` | memory or file cursor, encoding, carried over UTF-8 bytes | open, get |
| FIRST sets | `src/parsergen/canonical_collection.cc` | a bit vector and option bits per nonterminal | recursive descent |
| Collection of states | `canonical_collection.cc`, `derivation.cc` | set of states, ids, transitions | add_state, resolve, closure |
| LALR(1) merge | `canonical_collection.cc`, `derivation.*` | ids, row pointers, states merged into states | merge, renumber |
| Parsing table | `derivation.cc`, `codegen.cc` | a row of masks and numbers, conflict counters, precedence table | fill, report |
| Code generator | `codegen.cc`, `cg_grammar.cc`, `codegen_template.cc`, `cg_util.cc`, `regex.cc` | token ids, precedence, order of rules, macros, options | two rounds over the header, rules, expansion, output |
| Grammar file reader | `compiler_compiler.y`, `compiler.c`, `common.c` | lexer states, brace counter and buffer, lists of the grammar | read, build lists, free them on errors |
| Driver and diagnostics | `main.cc`, `input_file.cc` | error and warning counters, recorded lines | run the phases, report, write |
| Dumps | `src/util/*`, `debug.cc` | none | formatting |
| Bootstrap | `src/codegen/bootstrap/*` | none | generated or no longer built |

The generated parser calls `parser_parse_lr`, which calls the generated lexer
for one token at a time and tells it the slot to fill.  The lexer runs the
matcher's automaton for the state on top of its stack until an action returns a
token; the matcher pulls text from the input source.  At generation time the
reader (itself a parser made by neoast) hands lists to the code generator, which
numbers tokens and rules, builds FIRST sets, the collection of states and the
table, and prints everything into a template.  Errors are counted in one place
and looked at between the phases.

### What is hard here

Nothing runs concurrently and nothing is persisted.  What a test hardly reaches:

* **Long sequences over reused storage.**  The runtime has no stack of values.
  The parsing stack holds indices ("slots") of two tables; a reduction writes its
  result over the first slot it pops and slides the lookahead down behind it.
  Whether a value is still there when an action reads it depends on the whole
  sequence of shifts and reductions before.
* **Order of a hash table.**  FIRST, closure, merge and fill iterate over
  `unordered_map` and `unordered_set`.  The table must not depend on it.
* **Worklists with shortcuts.**  The closure stops merging lookaheads at the
  first change of a pass; FIRST stops recursing at a token being visited; the
  merge renumbers states while it iterates over them.
* **Memory nobody wrote.**  Slots, positions and the precedence table come from
  `malloc` and `new[]` without initialisation.
* **Errors in the middle.**  A syntax error frees the lookahead, then the stack,
  and every value must be freed once, although reductions leave copies behind.

### What makes each part correct

* Runtime: live values never share a slot; no assert fails; every action gets
  the values of the symbols it reduces; an accepted value is built from the whole
  input; a failed parse frees each value once; every parse ends.
* FIRST: no vector holds too much at any time; it is FIRST at the end.
* Closure: the least closed item set over the kernel, in every order.
* Merge: ids stay the row numbers of a dense table, states share a row exactly
  when they have the same LR(0) items, and the row has all their lookaheads.
* Table: conflicts are reported if and only if there are some; a column without
  one does not depend on the order of the items.
* Matcher: the texts of the tokens, put together, are the input, whatever the
  sizes of the chunks; line and column are those of the token.
* Input: the bytes of the decoded text, each once, whatever the sizes asked for.
* Reader and generator: no declaration is lost, rule 0 is the augment rule, a
  number printed for an action is the number in the table.
* Driver: with errors nothing is generated, and the status says so; an output is
  whole when it says success, unless its stream failed, which nobody notices.

## The modules

| Module | Models | State | Actions |
|---|---|---|---|
| `LRParser` | `lr.c`, `parser.c` | the locals of `parser_parse_lr` under their names, `stack`, `token_table`, `value_table`; histories `input`, `freed`, `parses`; `report` | `Start` (reset and first lexer call), `Shift`, `Reduce` (all of `g_lr_reduce` and the move of the lookahead), `Accept`, `LexError`, `SyntaxError`, `Unwind` (one turn of `parser_run_destructors`), `Reject` |
| `LRMachine` | nothing: the abstract specification | a stack of symbols with states and values | the textbook LR machine |
| `LRParserProps` | properties of `LRParser`, and the refinement mapping | | |
| `TableGen` | what the generator makes of a grammar, put together from what its parts are shown to compute | none: operators | |
| `Language` | nothing: words of a grammar and what they begin with | none: operators | |
| `FirstSets` | constructor of `CanonicalCollection`, `lr_1_firstof_impl` | vectors, option bits, `frames`: the recursion | one action per branch of the loop over productions, `Recurse`, `Return` |
| `Closure` | `GrammarState::apply_closure`, `LR1::merge_next_lookaheads` | items with lookaheads, the two dirty lists, `expanded_rules` | `Pass`, `MergeLookaheads`, `Expand`, `NextRound`, `MergePass`, `LastPass` |
| `Collection` | `CanonicalCollection::add_state`, both `resolve` | `states_`, ids, `dfa`, `stack`: the recursion; the state being closed, as in `Closure` | `ApplyClosure` (the actions of `Closure`), `AddHead`, `MakeState`, `AddState`, `Visit`, `Return` |
| `Automaton` | nothing: the abstract specification of `Collection` | states found, edges drawn | `Draw` |
| `LalrMerge` | LALR(1) half of `CanonicalCollection::resolve`, `set_id`, `lalr_merge` | `state_id`, `state_id_to_ptr_`, `state_n_`, `merged_states` | `Visit`: insert or merge one state |
| `StateClasses` | nothing: the abstract specification of the merge | classes of states with their lookaheads | `Join` |
| `FillTable` | `GrammarState::fill_table`, the result of `generate`, the precedence table of `init_cc` | one row, the counters | `Final`: one final item |
| `Matcher` | `matcher.c`, `matcher_priv.h`, `matcher_fsm.h`, the code `cg_pattern.cc` and `cg_neoast_lexer.cc` write | `m`: the fields of `NeoastMatcher`; the text, the state of the automaton, the token, `user`: what the actions work on | start of a scan, one state of the automaton (with reading, shifting and growing), end of a scan with indents and dedents, delivery of a token |
| `Scanner` | nothing: the abstract specification of `Matcher` | a cursor over the text | cut the longest match off |
| `MetaLexer` | the patterns and actions of `compiler_compiler.y`, with the automata of `bootstrap.c` | none: values for the constants of `Matcher` | |
| `GrammarLexer` | `neoast_lexer_next` of `bootstrap.c` | none: `MetaLexer` and `Matcher` together, what the actions rely on and what the stack and the brace buffer keep to | |
| `IndentLexer` | what `gencode_dfa` writes of five rules with `\i` and `\j` | none: values for the constants of `Matcher`, and what the indents and dedents keep to | |
| `FileInput` | `input.c` | the file and its cursor, `utf8_` with `ulen_` and `uidx_`, the request | open, ask, hand out what is carried, decode one character, answer |
| `ByteStream` | nothing: the abstract specification of `FileInput` | the bytes given | give some, end |
| `GrammarReader` | the reductions of `compiler_compiler.y`, `compiler.c`, `common.c`, the reader half of `input_file.cc` | the section, the value stack, a heap of declarations with `next` and `back`, the lists, `err_n` | one action per kind of reduction, `SyntaxError` |
| `Generator` | `codegen.cc`, `cg_grammar.cc`, the states of `cg_neoast_lexer.cc`, `regex.cc`, what `codegen_template.cc` writes, `main.cc` | tokens and ids, mappings, macros, rules and their table, the two outputs and whether their streams failed, the status | one action per element of each loop, per phase of `main` |
| `MC*` | instances for TLC and properties that need them | | |
| `*Proofs` | theorems | | |

`Generator` extends `GrammarReader`, `GrammarLexer` puts `MetaLexer` on `Matcher`
and `IndentLexer` a lexer with indents,
`Collection` instantiates `Closure`, and `MCLRParser` runs `LRParser` on tables that
are written out, so that they can be read, and that TLC finds to be the ones
`TableGen` makes of the grammars, up to the numbers of the states
(`GeneratedAssumption`).

How the models stand for the code:

* A value of the runtime is opaque to it; in the runs it is the sequence of input
  tokens it was built from, so what reaches an action, a destructor or the caller
  can be compared with the input.  `Garbage` is memory nobody wrote.
* A failed `assert` stops the program: the action's guard has the assert, and
  `AssertsHold` says it is never what blocks it.
* The lexer of `LRParser` is nondeterministic: any token, end of input or an error
  at each call.  At end of input the generated lexer writes no value, and a
  position only if it had text to scan; both outcomes are in `CallLexer`.
* Bit vectors are sets, item sets are functions from LR(0) items to lookaheads.
  An iteration over a hash table is a choice of the next element.
* The descent for FIRST is a stack of frames, so that a call that returns at once
  because its token is being visited merges what is there at that moment.  The
  recursion of `resolve` is one too.
* In `Closure` a pass of the second phase is one step: it merges into the first
  item that gains something, and nothing more.
* `TableGen` has no steps: it takes the closed item sets, their automaton, the
  classes and the entries that the other modules show the code to compute in every
  order, and numbers the rows somehow.  It is what those properties are for.
* A text is a sequence of classes of characters: only those the automata or the
  matcher tell apart.  Positions in the buffer are indices, as differences of
  pointers are in the code.
* A pattern is an automaton: states, accepted rules, edges, metas.  The automata of
  the grammar file lexer are those printed in `bootstrap.c`, state by state; RE/flex,
  which makes them, is not in the repository.
* A grammar file is what its sections say: declarations, lexer rules, productions.
  An error report takes the section it is about, because `get_line` throws if no
  line of it has been recorded, and so does a warning.  `crashed` is a null pointer
  used or an exception nobody catches.
* Each output may fail when it is opened, written or closed.  `failed` holds the streams
  that did, which the code never asks for; such a stream writes nothing any more, and
  its file is left as it was or cut (`out_h`, `out_c`).
* `InitCC` reports what the collection and the table find: any number up to a bound.
  Their own modules say when they do.

## The runs

| Run | Instance | Shows |
|---|---|---|
| `lr_parser` | the table of an expression grammar of five rules: precedence, parentheses, a rule without action, an empty program; every input of up to five tokens, two parses over the same buffers (32 233 states) | `RecognizesTheGrammar`: generator and runtime together accept the language of the grammar and find an error at the first wrong token; `SlotDiscipline`, `AssertsHold`, `AcceptedValueIsWholeInput`, `FailureFreesEachValueOnce`, `EveryParseEnds`, and `ImplementsMachine`: the slots implement the stack of values of `LRMachine` |
| `lr_list` | `L -> L x \| (nothing)` | **violated** `AcceptedValueIsWholeInput` |
| `first_sets` | 1 872 grammars of three nonterminals, all orders | `FirstSound`, `FirstComplete`, `DescentEnds` |
| `closure` | every kernel of the states of an expression grammar behind an optional list | `ClosureComplete`, `ClosureIsLeast`, `ClosureEnds` |
| `collection` | `P -> ( P ) \| n`: states that differ in lookaheads only, one that moves to itself, all orders (128 383 states) | `ImplementsAutomaton`: the recursion builds the automaton of the closed item sets, whole and once; `UnresolvedAreAwaited`: no state is passed over that nobody comes back to; `IdsAreDense` |
| `lalr_merge` | six states, every distribution of LR(0) item sets, every order | `IdsConsistent`, `RowsAreCores`, and `Quotient`: the merge implements `StateClasses` |
| `fill_table` | every row of two columns, two rules and the augment rule, every precedence table | `ConflictsReported`, `RowDetermined` |
| `matcher` | the grammar file lexer on every text of up to three letters behind eight beginnings, a buffer of four characters that grows by two | `ImplementsScanner`: tokens, lines and columns are those of a cursor over the text; `BufferIsText`; `SectionsDoNotNest`, `BraceHasRoom` |
| `matcher_indent` | a lexer with indents and dedents on every text of up to three lines of six kinds | `DentsBalance`, `StopsFollowTheLine`, `BeginOfLineKnown`, `EveryTextIsLexed` |
| `input` | files of up to two characters in every encoding with a mark, plain files of three bytes, texts in memory; requests of one to five bytes in every sequence | `ImplementsStream`, `CarryInside`, `StreamEnds` |
| `front_end` | every grammar file that differs from a good one in up to two of fifteen places, with outputs that may fail (111 861 states) | `HeaderIsRead`, `NodesFreedOnce`, `TokensAreNumbered`, `GrammarIsPassedOn`, `MacrosAreExpanded`, `FaultyFilesStop`, `GoodFilesAreAnswered`, `ExitTellsOfErrors` |
| `rule_order` | the same | **violated** `FirstRuleAccepts` |

### Bounds, and why they are enough

* `MaxLexed` (6 calls of the lexer in a parse) and `MaxParses` (2).  Five tokens
  reach both reductions of the left associative operator, parentheses inside an
  operand and errors at every depth of the stack; a slot is reused by the second
  reduction.  The second parse is what stale slots of the first can hurt; a third
  starts from the same states as the second.  The operator and the parentheses make
  states with equal items and different lookaheads, which have to be merged.
* FIRST: the calls nest, return at once, find a token done, and find one without
  rules within three nonterminals with two productions each.
* Closure: the grammar has left recursion in two levels, so lookaheads travel
  through an item back into itself, an empty list before a symbol, and nested
  kernels.  The kernels are computed from the grammar, not chosen.
* Collection: ten states.  Two of them are reached from two states, one by an edge of
  its own, so a state is looked up while it is being resolved and when it is done.
* Merge: four states are needed for a state to take over an id and then be merged
  itself, and six let it carry two others along.
* Fill: entries of different columns do not interact except in the counters; two
  columns let one column's conflict hide behind the other's report.
* `Block` (2) is `CONST_BLOCK`, the buffer is twice that; texts of up to eight
  characters shift it and enlarge it inside a token, before and behind the place of
  the terminator.  `BraceBlock` (2) is the first size of the brace buffer, and
  `TabSize` (2) the width of a tab.
* `MaxAsk` (5): the longest character in UTF-8 has four bytes, the replacement of an
  invalid one five, so an answer ends inside and between characters.
* `MaxChanges` (2): two mistakes at once, each of which may hide the other or keep a
  phase from being reached.
* `MaxConflicts` (2): none, one and more than one report of the collection and the
  table.  What follows asks only whether the count of errors is 0, up to 255.

### Fairness

Weak fairness of the whole next-state relation of a loop (`Step` for the parser,
without `Start`: nobody need parse anything).  Each loop is sequential code that
waits for nothing, so it keeps stepping as long as it can; the lexer and the input
return.  In `FileInput` the caller keeps asking until it is told the end, as the
matcher does.  Nothing stronger is assumed: no choice of an order is ever favoured.

Deadlock checking is off where an instance has a natural end: loops are finite and
the number of parses is bounded.  In `matcher`, `matcher_indent` and `input` it is
on; there the end is a step that stays where it is.

## What the code does not keep

Two statements of the repository are violated by a run; the details are under
`findings` in `PROJECT.json`.

* **Empty rules reuse a slot in use** (`lr.c:52`).  A rule without symbols has no
  slot of its own and takes that of the last reduction.  That can be the slot of
  the lookahead, whose value is lost (`lr_list`), or that of a value still on the
  stack, over which the lookahead then slides; later the assert on the lookahead
  fails.
* **Rule 0 need not be the augment rule** (`cg_grammar.cc:188`).  Rules are numbered
  in the order of the names; a `%type` that starts with a capital letter in front of
  `TOK_AUGMENT` takes its place (`rule_order`).

More statements are refuted when they are added to a run.  To reproduce one, put
the property into the configuration named:

| Property | Configuration | Refuted because |
|---|---|---|
| `AssertsHold` | `MCLRParserList.cfg` with `Table <- TailTable`, `Rules <- TailRules`, `TokenN = 7`, `ActionTokenN = 4`, `StateN = 7`, `ActionRules = {1, 2, 3}` | the assert of `lr.c:282`, after an empty rule at the end of another |
| `ResultHasFirstPosition` | `MCLRParserCalc.cfg` | the position is completed in a copy after the result has been stored (`lr.c:79`) |
| `MergesInitialized` | `MCFirstSets.cfg` | a half-built vector is merged when its call is still running, and the copy is final (`canonical_collection.cc:122`) |
| `KernelKept` | `MCClosure.cfg` with `Rules <- NestRules`, `FirstOfs <- NestFirstOfs`, `Actions = {"$", "p", "x", "y", "z"}`, `HasEmpty = {}` | closing a state enlarges the lookaheads of its kernel (`derivation.cc:92`), so CLR(1) tables are not made from LR(1) states |
| `FilledIsConflict` | `MCFillTable.cfg` with `Memory = {"none"}` | ACCEPT is replaced without a report (`derivation.cc:276`) |
| `SwitchesSolve` | `MCFillTable.cfg` | the precedence table is not initialised (`codegen.cc:243`) |
| `SuccessMeansWritten` | `MCGenerator.cfg` with `MaxChanges = 1` | nobody asks the output streams whether they could be opened, written and closed (`main.cc:44`): with a path that cannot be opened or a full disk the exit status is 0, and the build goes on with an old or a cut file, which `cmake/neoast.cmake:21` has as the output of the command |
| `ImplementsScanner` | `MCMatcher.cfg` with `Letters <- HighLetters`, `MaxRest = 4` | a buffered character comes back as a signed char (`matcher_priv.h:155`) |
| `NothingInBetween` | `MCFileInput.cfg` | a character cut by the end of the buffer is carried with its whole length (`input.c:144`) |

### Known gaps

Met while modelling; where a property would fail on one, its text or the instance
names the exception.

* Matcher.  Characters above 127 are read signed or unsigned depending on where the
  buffer ended, and index the ASCII map of the generated lexer.  Memory behind the
  text of a chunk is only known to be zero in the first buffer (half a megabyte of fresh
  pages): `Fresh = "nul"`, `ShortReads = FALSE`.  A dedent of a line the buffer was
  shifted to loses the begin of line.  Stops are not adjusted when a dedent drops
  them all.  `lap_`, a vector of `int`, is read as one of `size_t`.  The code of
  nested metas names `m.FSM_META_...`, which C does not have (`cg_pattern.cc:298`).
* Grammar file lexer.  The brace buffer doubles once for a text and not at all for a
  nested brace.  A file that ends in a comment or an action ends silently.
* Input.  The encoding parameter is ignored (`input.h:134`), so latin and the code pages
  cannot be had.  An invalid character cut in front of its last byte reads one byte behind
  `utf8_`.  A file that is nothing but the mark of UTF-16LE is taken for plain; one
  that begins with two zeros and ends behind one more byte loses it (`input.c:415`).
* Reader.  Of the last declaration all tokens but the first are lost and never
  freed (`compiler_compiler.y:329`).  A reserved name in the middle of a list, or an ascii
  token first in a typed one, crashes the reader (`compiler.c:54`), and
  `ll_handle_ascii` hands the context to `emit_error` as a position.
* Diagnostics.  An error or a warning on a line without a newline throws what nobody
  catches (`input_file.cc:286`).  The exit status is the number of errors modulo 256.  A token without
  productions is reported only where it is the first symbol of one
  (`canonical_collection.cc:102`).  The position of a syntax error at the end of the input may
  be an old one of the slot (`lr.c:241`).
* Generator.  A file without `%union` crashes after the outputs have been emptied
  (`codegen_template.cc:53`), and they are emptied before errors are looked at
  (`main.cc:44`).  An output that fails is not noticed: the status tells of errors only,
  and `ExitTellsOfErrors` asks no more of it.  A macro used before its definition
  disappears (`regex.cc:76`).
  `in_redzone` (`cg_util.cc:237`) is never true, so `$1` in a string or comment of an
  action is replaced too.

## What is proved

TLAPS checks these for every value of the constants, under the named assumptions
of the modules (`SizeAssumption`, `RuleAssumption`, `TableAssumption`,
`GrammarAssumption`, `ClosureAssumption`, `KernelAssumption`,
`CollectionAssumption`, `LalrAssumption`, `FillAssumption`, `TextAssumption`,
`BlockAssumption`, `TabAssumption`, `FlagAssumption`, `BraceAssumption`, `PatternAssumption`,
`FilesAssumption`, `AskAssumption`, `NamesAssumption`, `SortedAssumption`,
`ConflictsAssumption`); TLC
evaluates the assumptions on every run.  What a theorem asks beyond them is in its
ASSUME.  No theorem uses `GeneratedAssumption`, `TheoremsApplyAssumption` and
`ProductionsAssumption`, which are about the instances of `MCLRParser`: the last two
have TLC find that the generated tables of small grammars are what the theorems ask
for.

**The parser** (`LRParserProofs`).

* `TypeCorrect`.  Well-typedness needs to know that what a reduction pops as a slot
  is one: the parsing stack has odd length and alternates states and slots, and all
  its slots and the lookahead's lie in the tables (`ShapeInv`).  The bound on slots
  comes from counting: a slot in use is below the number of lexer calls of the
  parse.  Holds with empty rules too.
* `SlotsDisciplined`, for grammars without empty rules (`NoEmptyRule`).  The
  inductive invariant (`SlotInv`) is stronger than `SlotDiscipline`: with the
  lookahead in slot i the stack holds exactly i symbols, the k-th in slot k - 1, at
  end of input too, and slot i holds the lookahead's token.  `lr_list` and the table
  of `TailTable` show that the assumption on the rules is needed.
* `AssertsNeverFail`, if moreover some function counts the symbols in front of the
  dot of every state (`CountsDots`), as the kernel of an LR(0) state does.
  Invariant (`DotsInv`): the state at height k of the stack counts at most k.
  So a reduction finds its arguments, and the assert on the lookahead follows
  from `SlotInv`.
* `RuntimeImplementsMachine`: the whole of `ImplementsMachine`, step by step.  A shift,
  a reduction, an acceptance and each kind of failure is that step of
  `LRMachine`; `Unwind` and the rest of an error are stutters.  Beyond the above it
  needs that ACCEPT stands only in states entered by a goto (`AcceptsByGoto`): what
  is returned is the slot of the last reduction, which is the top of the stack
  only there (`RunInv`).
* `FailureFreesAll`: `FailureFreesEachValueOnce`.  To say where a value goes, a value is
  the sequence of the tokens it was built from (`ValuesAreTokens`: a leaf is its
  token, an action joins its arguments, a rule without an action has one symbol),
  and every token has a destructor.  Invariant while a parse runs (`HeldInv`): the
  slots of the stack hold consecutive pieces of what was lexed before the
  lookahead, none of them empty.  A reduction leaves copies of the values it
  moves in the slots above; none of them is below the lookahead.  While the stack
  is unwound (`FreedInv`): what is left on it are the first tokens, and what has
  been freed are the others, from the last one down.
* `AcceptedIsWhole`: `AcceptedValueIsWholeInput`.  Beyond `HeldInv` it needs that one
  symbol is left when the parser accepts.  `HasItems` asks for the items with the
  dot behind a symbol, as an LR(0) kernel has them; then (`PathInv`) an item with
  the dot behind n symbols was begun n symbols further down, by a state with a
  goto on its token, so that every reduction finds its goto, and every state on
  the stack is led to by the one below it.  `AcceptsAtEnd` asks that nothing leads
  back to state 0 and that only state 0 leads to the state that accepts.

* `ParserReadsSentences`, for every grammar, with empty rules and with conflicts
  solved by precedence too: what is accepted is a sentence of the grammar, and what has
  been shifted is the begin of one at every moment, so an error is reported no later
  than at the first token that cannot follow.  `Derives` says what a word of the grammar
  is without recursion: one that is in all families of sets closed under the
  productions.  Invariant (`ReadInv`): each state on the stack holds items; one with the
  dot behind d symbols was begun d states further down, and what was read since then is
  derived by those d symbols (`Reading`).  That what is read begins a sentence goes
  through the stack from the top down: an item can be completed because every token
  has a word, and what completes a production begun at some height completes one begun
  at or below it, until production 0 at the bottom.  `Describes` is what this asks of the
  table: its states hold items of the productions (`HasProductions`), those with the dot
  at the begin only where others call for them (`Grounded`), and every token has a word
  (`Productive`).  That conversely no sentence is refused needs a table without conflicts
  whose lookaheads are complete; `RecognizesTheGrammar` has TLC check it.

That the tables the generator makes have `CountsDots`, `HasItems`, `AcceptsByGoto`,
`AcceptsAtEnd` and `Describes` is not proved.  `ProductionsAssumption` of `MCLRParser` has
TLC check the last for the generated tables of four grammars, two of them with empty
rules, and `TheoremsApplyAssumption` the others for the table of a grammar of four
rules, which `TableGen` says is the generated one, together with `ValuesAreTokens` of the
values of the runs.  `lr_list` shows that `AcceptedIsWhole` is false without `NoEmptyRule`.

**The table.**

* `FirstSetsProofs!FirstSetsSound`.  Invariant: what is still to be read in each
  frame are productions of its token (`OwnProductions`), and everything selected
  so far follows from the equations.
* `FirstSetsProofs!FirstSetsComplete`: `FirstComplete`, for every grammar and in every
  order, where it can hold (`WithinReach`: no two tokens lead to each other, and the
  first symbol of a longer production is not empty).  Invariant: of a token that is
  done, and of the productions a frame has handled, everything the equations ask for
  is there; each call on the stack is led to by the one below it, so a token whose
  vector is merged is never still being visited, except by itself.
* `ClosureProofs!ClosureIsComplete` and `ClosureIsSound`.  Invariant for the
  first: every item that expects a token and is no longer dirty has had its token
  expanded, and an expanded token's initial items are there (`Worked`, `Added`);
  the guard of the last pass gives the lookaheads.  For the second: what
  `NextLookaheads` gives is monotone, so every step stays below any closed item
  set over the kernel.  Together: the result is the least one, for every order.
  `ClosureIsLeastClosed` names it: rounds over all items at once stop changing anything
  within `Bound`, because each round before adds an item or a lookahead (`SizeGrows`),
  and what they stop at is the closure.
* `CollectionProofs!IdsDense`.  Ids are places and no two states are equal, because
  `add_state` looks through the whole table for the very items it then adds; while a
  state is being closed the closure's own invariants hold of it (`ClosureInv`).
* `CollectionProofs!NobodyForgotten`.  `resolve` takes a state with edges for done.
  Invariant (`ResolveInv`): a state has all its edges, or a call of it is on the
  stack, or it has none and a call on the stack has still to visit it.  No
  state is left with a part of its edges, because a call draws all before it visits.
* `CollectionProofs!CollectionImplementsAutomaton` and `CollectionIsComplete`: the safety
  half of `ImplementsAutomaton`, and what its liveness half is for.  Every call of
  `add_state` draws one transition of the canonical LR(1) automaton, whose states
  are defined as least closed sets; this composes with the two theorems about the
  closure, which are applied to each state made.  When the recursion has
  returned none is missing, by `ResolveInv` with an empty stack.
* `LalrMergeProofs!IdsAreRows`, `RowsMatchCores`, `MergeImplementsClasses`.
  `IdsConsistent` is inductive only with the facts that a state the loop has not
  met is alone in its class (`Alone`) and that every core met is represented
  (`Met`).  The hard part is `Tree`: what `set_id` reaches after a merge is the
  union of two classes, because the trees of different ids are disjoint.
* `CollectionProofs!RowReports`, `RowIsDetermined`.  Invariant (`RowInv`): what a column holds
  in terms of the items already visited (`Written`), and that silence so far means
  no two of them competed (`Silent`).

**The text.**

* `MatcherProofs!BufferHoldsText` and `MatcherStaysInside`, for every text, automaton
  and size of a block, when memory nobody has written is zero and the input delivers
  all it is asked for (`Fresh = "nul"`, `ShortReads = FALSE`, see the known gaps: with
  other values there are texts that are lost).  The invariant (`Good`) has three
  parts: the positions are ordered inside the text of the buffer (`Fit`); the buffer
  with the saved character put back is the text (`Holds`); the terminator of yytext
  never takes the last place of the buffer, and where it stands behind all that was
  read there is nothing left to read (`ChrOk`).  It is inductive because a read fills
  the buffer or exhausts the text (`Full`), and no read writes the last place.
* `MatcherProofs!SectionsNeverNest`, `BraceBufferHasRoom`, `FiveStatesSuffice`,
  `SwitchKnowsRule`: the lexer of grammar files, on every text and for every size of
  the matcher's buffer and of the brace buffer (`IsGrammarLexer` gives the constants of
  `Matcher` the values of `MetaLexer`, as `MCMatcher.cfg` does).  The stack and the
  brace buffer are only as good as the rule that reaches an action, so the invariant
  (`LexerInv`) follows the rule through a scan: the automaton is in one of its states
  (`InPattern`), and `cap_` is 0 or a rule the switch of the lexer state has a case for
  (`RuleKnown`); reads, shifts and the terminator leave it alone.  That the six automata
  only go to their own states and accept only such rules is a finite fact about tables,
  `PatternAssumption` of `GrammarLexer`, which TLC evaluates.  What is added to the
  brace buffer is a piece of the text (`PartOfText`), which needs the invariant of the
  buffer.  `FiveStatesSuffice` is about `matcher.c:67`, the 32 places that
  `NEOAST_STACK_PUSH` fills unchecked.
* `MatcherProofs!MatcherIsCursor`: the matcher implements `Scanner`, step by step, for
  every text, every size of the buffer and every lexer whose automata go to their own
  states and leave the margin alone (`Serves`; the dedents of `IndentLexer` are not those of a
  cursor).  The end of a scan, its reads, shifts and enlargements are stutters; `Deliver` is
  a match of the cursor or its failure.  Invariant (`CursorInv`) on top of that of the
  buffer: `lno_` and `cno_` are the line and column of the place in the text that `lpb_`
  points to (`Counts`), which a shift may not lose; while the automaton runs it is in the
  state that the text read since the begin of the match leads to (`Running`), and `cap_`
  and `cur_` are the rule and the end of the longest part of it that is accepted (`Best`);
  when it has halted no longer text leads anywhere (`Halted`).  The recursions of `Scanner`
  over a text are unrolled by `Recursion`, which builds a function from its values by
  choosing the least place where one is missing.  It asks that the characters of
  the texts are those `matcher_get` returns (`PlainTexts`): with a signed char and text
  outside ASCII the property is refuted (above).  `GrammarLexerIsCursor`: the lexer of
  grammar files is such a lexer, on every file, by `LexerInv`.
* `MatcherProofs!DentsAreBalanced`, `LineBeginIsKnown`, `StopsAreThoseOfLine`: the lexer
  with indents, on every text and for every size of the buffer (`IsIndentLexer` gives the
  constants of `Matcher` the values of `IndentLexer`, as `MCIndent.cfg` does).
  For the first, what is owed (`Owes`) counts the match that has still to be delivered;
  the invariant (`DentInv`) says on what the automaton can have halted (`DentHalted`):
  on a pending dedent, on what moves no stop, on an indent, or on a dedent.  Only the
  last may have the line scanned again, and an indent is never met in a second scan.
  `LineBeginIsKnown` asks that no character is the mark of the begin of the buffer
  (`NoBob`).  Its invariant (`BeginInv`) is that `got_` is the character in front of the
  match that comes next, which is lost only by an empty match at the front of the buffer,
  and only a dedent may be empty (`ScanEndPlaces`).
  `StopsAreThoseOfLine` asks moreover that no byte is read as EOF (`LineTexts`; 0xFF is, as a
  signed char).  Invariant (`LineInv`), in places of the text: while a margin is read
  from the begin of a line, `col_` is the column of the place it has been read to, one
  behind the characters that have been read (`LineState`, by `NewlineSpace`); when the
  automaton has halted behind a margin, `col_` is the column of its end (`LineHalted`);
  so the last stop is that column whenever something follows that is not blank
  (`Known`).  Where dedents are pending, or a line is scanned again, no margin is ahead
  (`Ahead`): a second scan looks at none, and there is none left to look at.
* `FileInputProofs!CarryStaysInside`.  Inductive only with the facts that nothing is
  carried while a call reads unless its answer is full (`CallOk`), and that a
  character of UTF-8 has one to five bytes and one if it is below 128 (`Utf8Facts`).
  The exception of `CarryInside`, a replacement cut in front of its last byte, is
  reached.
* `FileInputProofs!AnswersAreBytes`: no answer is longer than the request, and what is
  read behind `utf8_` in that exception is only ever the surplus.
* `FileInputProofs!TextIsPassedOn`: for plain files, UTF-8 and texts in memory, what is
  delivered is the begin of the text, whole at the end, with no surplus.  Invariant
  (`Passed`): delivered, carried and unread bytes together are the text.  The two
  kinds of files of three bytes that lose one (`Lossy`) are excluded.

**The front end** (`GeneratorProofs`), for grammar files of any length whose header
has at least one declaration, as the grammar of `compiler_compiler.y` asks.

* `HeaderIsReadInOrder` and `NodesAreFreedOnce`: `HeaderIsRead` and `NodesFreedOnce`.
  The declarations are shifted from the first to the last and linked from the last to the
  first.  Invariant (`ReaderInv`): the phase goes with the section that is being read
  (`Control`); the nodes of each declaration lie in a piece of the heap of their own,
  each linked to the one in front of it (`Heap`), where `NodesBefore` counts from the
  file alone; while the header is read, the value stack holds the first node of each
  declaration that is not linked yet (`Stacked`), and from the head of the list on the
  pieces are linked in the order of the file (`Linked` in the end).  Of the last
  declaration the head is its first node, of the others the last, which is why
  the rest of the last one is lost unless it is the only one.  After a syntax error
  the stack is freed from `back` of each node on, so what is known of it has to reach
  every node shifted.  Nothing is asked of a state in which the process has died.
* `TokensHaveTheirNumbers`: `TokensAreNumbered`.  Invariant (`NumbersInv`): as long as no
  error was reported the tokens are numbered without gaps in the order they were added.
  A token that is rejected as a duplicate leaves a gap (`codegen.cc:309`), but an error as
  well, after which the numbers are not used.
* `ErrorsBelow256AreTold`: `ExitTellsOfErrors` as long as fewer than 256 errors were
  counted, whichever opens and writes fail.  Invariant (`StatusInv`): without errors each
  output is complete or its stream has failed; the source is complete only when `err_n`
  is 0 behind the checks of the actions.  The lists the errors are counted in are
  finite.  The bound is the code's: `main.cc:68` returns the number of errors, of which
  a process passes on one byte, so 256 of them are success.  Of streams that fail the
  theorem says nothing, as the status does not.

The type invariants of these modules are part of the inductive invariants, so the
runs do not repeat them.

Only model-checked:

* Everything temporal, which the prover does not do: `EveryParseEnds`, `DescentEnds`,
  `ClosureEnds`, `EveryTextIsLexed`, `StreamEnds`, `GoodFilesAreAnswered`, the
  fairness part of `Quotient` and of `ImplementsAutomaton`.
* What compares with a reference computed by recursion: `RecognizesTheGrammar` (the
  parts of it that are in `ParserReadsSentences` are proved over `Derives`) and
  `ImplementsStream` for UTF-16 and UTF-32.
* Of the front end `GrammarIsPassedOn`, `MacrosAreExpanded` and `FaultyFilesStop`.

## Not modelled

* Sizes of the parser's buffers: `max_tokens` and `parsing_stack_size` are the
  grammar author's, and nothing checks them.  The models give enough.
* Matcher: lookahead (`lap_`), `CONST_REDO`, the metas of word boundaries and of ends of
  lines, which no pattern of the repository uses; the branches under `WITH_SPAN`,
  which is not defined; failing allocations.
* Input: the branches no constructor can select; `CustomInput`, which is the caller's.
* The text of diagnostics and of the generated code, dumps, licence headers.
* RE/flex (the automata of patterns, regular expressions of macros): not in the
  repository.
* `bootstrap.c` beyond its lexer and reductions (output of neoast; its tables are data)
  and `legacy/` (not built).

## What could follow

1. Proofs: `GrammarIsPassedOn`; that `TableGen`'s tables have `CountsDots`,
   `HasItems`, `AcceptsByGoto`, `AcceptsAtEnd` and `Describes`.
2. `ImplementsStream` for the encodings that are decoded, over a text that is given
   character by character instead of being computed.
3. Grammars with several levels of nonterminals through `TableGen`, and its table
   for the grammar of grammar files.
