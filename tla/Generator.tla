------------------------------ MODULE Generator ------------------------------
(***************************************************************************)
(* The code generator and the program around it: src/src/codegen/codegen.cc,*)
(* cg_grammar.cc, the states of cg_neoast_lexer.cc, regex.cc, what          *)
(* codegen_template.cc writes, and main.cc.                                 *)
(*                                                                         *)
(* Phases: header (round 1 over the declarations), round2, lexer, grammar, *)
(* cc (the collection and the table), open, write_header, write_source,    *)
(* report, done.  A file is reported on and no phase follows if there are   *)
(* errors at the end of one.                                               *)
(***************************************************************************)
EXTENDS GrammarReader

CONSTANTS Sorted,         \* all names, in the order std::map has them
          MaxConflicts    \* bound: reports of the collection and the table

ASSUME SortedAssumption    == IsSequence(Sorted)
ASSUME ConflictsAssumption == MaxConflicts \in Nat

NEOAST_ASCII_MAX == 256

VARIABLES
    iter,            \* the declaration or rule a loop stands at
    action_id,
    action_tokens, grammar_tokens,
    tokens,          \* names by id: what the enum of the parser is printed from
    ascii_mappings,
    codes,           \* what of %top, %bottom, %union and %include has been given
    precedence_mapping, macros, start, destructors, lalr,
    lexer,           \* the lexer's states with their number of rules
    table, rules_cg, \* numbers of the tokens of all productions; rules by name
    rules,           \* the productions as the collection is given them
    out_h, out_c,    \* the output files: "old" until opened, "cut" when emptied
                     \* and not whole, "with holes", "complete"
    failed,          \* the streams whose failbit is set, of "h" and "c"
    status           \* of the process; "none" until it exits

tokenVars == <<iter, action_id, action_tokens, grammar_tokens, tokens,
               ascii_mappings>>
headerVars == <<codes, precedence_mapping, macros, start, destructors, lalr>>
ruleVars == <<lexer, table, rules_cg, rules>>
outVars == <<out_h, out_c, failed, status>>
vars == <<vars0, tokenVars, headerVars, ruleVars, outVars>>

NoFunction == [x \in {} |-> x]

\* A std::map after map[key] = value.
Put(map, key, value) ==
    [x \in DOMAIN map \cup {key} |-> IF x = key THEN value ELSE map[x]]

Running(p) == phase = p /\ ~crashed
Node == kv[iter]

-----------------------------------------------------------------------------
(* Tokens.                                                                 *)

Names(s) == {s[i].name : i \in DOMAIN s}

\* get_token
Known(name) == name \in Names(action_tokens) \cup Names(grammar_tokens)
Token(name) == LET all == action_tokens \o grammar_tokens
               IN  all[CHOOSE i \in DOMAIN all : all[i].name = name]
IsAction(name) == name \in Names(action_tokens)

Init ==
    /\ ReaderInit
    /\ iter = NULL /\ action_id = 1
    /\ action_tokens = <<[name |-> "EOF", id |-> 0, type |-> "", ascii |-> FALSE]>>
    /\ grammar_tokens = <<>> /\ tokens = <<>>
    /\ ascii_mappings = NoFunction
    /\ codes = {} /\ precedence_mapping = NoFunction /\ macros = NoFunction
    /\ start = [type |-> "", token |-> ""] /\ destructors = NoFunction /\ lalr = TRUE
    /\ lexer = <<>> /\ table = <<>> /\ rules_cg = NoFunction /\ rules = <<>>
    /\ out_h = "old" /\ out_c = "old" /\ failed = {} /\ status = "none"

-----------------------------------------------------------------------------
(* parse_header.                                                           *)

\* for (iter = header; iter; iter = iter->next): the loop is entered when the
\* reader is done and again for the second round.
StepTo(n) == iter' = Node.next /\ phase' = IF Node.next = NULL THEN n ELSE phase

EnterHeader ==
    /\ Running("header") /\ iter = NULL
    /\ iter' = header
    /\ UNCHANGED <<readerVars, err_n, crashed, phase, action_id, action_tokens,
                   grammar_tokens, tokens, ascii_mappings, headerVars, ruleVars,
                   outVars>>

At(p, types) == Running(p) /\ iter # NULL /\ Node.type \in types

\* %token: its number is taken even if it is rejected.
RegisterAction ==
    /\ At("header", {"token", "token_ascii", "token_type"})
    /\ action_id' = action_id + 1
    /\ IF Known(Node.value)
       THEN Report("header", 1) /\ UNCHANGED <<action_tokens, ascii_mappings>>
       ELSE LET ascii == Node.type = "token_ascii"
            IN  /\ action_tokens' = Append(action_tokens,
                     [name |-> Node.value, id |-> action_id, ascii |-> ascii,
                      type |-> IF Node.type = "token_type" THEN Node.key ELSE ""])
                /\ ascii_mappings' =
                     IF ascii THEN Put(ascii_mappings, Node.value,
                                       action_id + NEOAST_ASCII_MAX)
                     ELSE ascii_mappings
                /\ UNCHANGED <<err_n, crashed>>
    /\ StepTo("round2")
    /\ UNCHANGED <<readerVars, grammar_tokens, tokens, headerVars, ruleVars, outVars>>

\* %type: the number is given later.
GrammarToken(name, type) == [name |-> name, id |-> 0, type |-> type, ascii |-> FALSE]

RegisterGrammar ==
    /\ At("header", {"type"})
    /\ IF Known(Node.value)
       THEN Report("header", 1) /\ UNCHANGED grammar_tokens
       ELSE /\ grammar_tokens' = Append(grammar_tokens,
                                        GrammarToken(Node.value, Node.key))
            /\ UNCHANGED <<err_n, crashed>>
    /\ StepTo("round2")
    /\ UNCHANGED <<readerVars, action_id, action_tokens, tokens, ascii_mappings,
                   headerVars, ruleVars, outVars>>

\* %top, %bottom, %union, %include, %option; the rest waits for round 2.
SingleTypes == {"top", "bottom", "union", "include"}

\* Options::handle: a wrong type of parser is an error, what else it does not
\* know a warning.
ParserTypes == {"LALR(1)", "CLR(1)"}
OptionKeys  == {"parser_type", "track_position_type", "annotate_line", "debug_ids",
                "prefix", "parsing_stack_size", "parsing_error_cb", "lexing_error_cb"}
Booleans    == {"TRUE", "true", "True", "1", "FALSE", "false", "False", "0"}

WrongParser(p) == p.key = "parser_type" /\ p.value \notin ParserTypes
IgnoredOption(p) == \/ p.key \notin OptionKeys
                    \/ p.key = "annotate_line" /\ p.value \notin Booleans

HeaderCode ==
    /\ At("header", SingleTypes \cup {"option"})
    /\ IF Node.type = "option" /\ IgnoredOption(Node) THEN Warn("header")
       ELSE Report("header", IF Node.type \in codes
                                \/ (Node.type = "option" /\ WrongParser(Node))
                             THEN 1 ELSE 0)
    /\ codes' = codes \cup ({Node.type} \cap SingleTypes)
    /\ lalr' = IF Node.type = "option" /\ Node.key = "parser_type"
                  /\ Node.value \in ParserTypes
               THEN Node.value = "LALR(1)" ELSE lalr
    /\ StepTo("round2")
    /\ UNCHANGED <<readerVars, action_id, action_tokens, grammar_tokens, tokens,
                   ascii_mappings, precedence_mapping, macros, start, destructors,
                   ruleVars, outVars>>

Round1Types == SingleTypes \cup {"option", "type", "token", "token_ascii",
                                 "token_type"}
Round2Types == {"left", "right", "macro", "start", "destructor"}

SkipDeclaration ==
    /\ \/ At("header", Round2Types) /\ StepTo("round2")
       \/ At("round2", Round1Types) /\ StepTo("ids")
    /\ UNCHANGED <<readerVars, err_n, crashed, action_id, action_tokens,
                   grammar_tokens, tokens, ascii_mappings, headerVars, ruleVars,
                   outVars>>

EnterRound2 ==
    /\ Running("round2") /\ iter = NULL
    /\ iter' = header
    /\ UNCHANGED <<readerVars, err_n, crashed, phase, action_id, action_tokens,
                   grammar_tokens, tokens, ascii_mappings, headerVars, ruleVars,
                   outVars>>

\* Mutant: a token of %type may have a precedence too.
PrecedenceOfAny ==
    /\ At("round2", {"left", "right"})
    /\ IF \/ ~Known(Node.value)
          \/ Token(Node.value).id \in DOMAIN precedence_mapping
       THEN Report("header", 1) /\ UNCHANGED precedence_mapping
       ELSE /\ precedence_mapping' =
                 Put(precedence_mapping, Token(Node.value).id, Node.type)
            /\ UNCHANGED <<err_n, crashed>>
    /\ StepTo("ids")
    /\ UNCHANGED <<readerVars, action_id, action_tokens, grammar_tokens, tokens,
                   ascii_mappings, codes, macros, start, destructors, lalr,
                   ruleVars, outVars>>

\* %left and %right
Precedence ==
    /\ At("round2", {"left", "right"})
    /\ IF \/ ~IsAction(Node.value)
          \/ Token(Node.value).id \in DOMAIN precedence_mapping
       THEN Report("header", 1) /\ UNCHANGED precedence_mapping
       ELSE /\ precedence_mapping' =
                 Put(precedence_mapping, Token(Node.value).id, Node.type)
            /\ UNCHANGED <<err_n, crashed>>
    /\ StepTo("ids")
    /\ UNCHANGED <<readerVars, action_id, action_tokens, grammar_tokens, tokens,
                   ascii_mappings, codes, macros, start, destructors, lalr,
                   ruleVars, outVars>>

\* Mutant: add keeps the text as it is.
Unexpanded(pattern) == pattern

\* MacroEngine::expand: a name that is not defined yet is dropped.  A pattern is
\* a sequence of texts and names of macros.
Expand(pattern) ==
    FlattenSeq([i \in DOMAIN pattern |->
      IF pattern[i].text THEN <<pattern[i]>>
      ELSE IF pattern[i].name \in DOMAIN macros THEN macros[pattern[i].name]
      ELSE <<>>])

AddMacro ==
    /\ At("round2", {"macro"})
    /\ macros' = Put(macros, Node.key, Expand(Node.value))
    /\ StepTo("ids")
    /\ UNCHANGED <<readerVars, err_n, crashed, action_id, action_tokens,
                   grammar_tokens, tokens, ascii_mappings, codes,
                   precedence_mapping, start, destructors, lalr, ruleVars, outVars>>

\* %start overrides with a warning, %destructor overrides with an error.
StartOrDestructor ==
    /\ \/ /\ At("round2", {"start"})
          /\ start' = [type |-> Node.key, token |-> Node.value]
          /\ IF start = [type |-> "", token |-> ""]
             THEN UNCHANGED <<err_n, crashed>> ELSE Warn("header")
          /\ UNCHANGED destructors
       \/ /\ At("round2", {"destructor"})
          /\ Report("header", IF Node.key \in DOMAIN destructors THEN 1 ELSE 0)
          /\ destructors' = Put(destructors, Node.key, Node.value)
          /\ UNCHANGED start
    /\ StepTo("ids")
    /\ UNCHANGED <<readerVars, action_id, action_tokens, grammar_tokens, tokens,
                   ascii_mappings, codes, precedence_mapping, macros, lalr,
                   ruleVars, outVars>>

\* Mutant: the augment token is registered behind the loop.
WithIdsButLast(s) ==
    [i \in DOMAIN s |-> IF i = Len(s) THEN s[i]
                        ELSE [s[i] EXCEPT !.id = action_id + i - 1]]

\* The end of parse_header: the augment token, the numbers of the nonterminals,
\* and the names by number.
WithIds(s) == [i \in DOMAIN s |-> [s[i] EXCEPT !.id = action_id + i - 1]]

NumberTokens ==
    /\ Running("ids")
    /\ Report("nowhere", IF Known("TOK_AUGMENT") THEN 1 ELSE 0)
    /\ grammar_tokens' = WithIds(
         IF Known("TOK_AUGMENT") THEN grammar_tokens
         ELSE Append(grammar_tokens, GrammarToken("TOK_AUGMENT", start.type)))
    /\ tokens' = [i \in DOMAIN action_tokens |-> action_tokens[i].name]
                 \o [i \in DOMAIN grammar_tokens' |-> grammar_tokens'[i].name]
    /\ phase' = IF err_n' > 0 THEN "open" ELSE "lexer"
    /\ iter' = 1
    /\ lexer' = <<[name |-> "LEX_STATE_DEFAULT", rules |-> 0]>>
    /\ UNCHANGED <<readerVars, action_id, action_tokens, ascii_mappings,
                   headerVars, table, rules_cg, rules, outVars>>

-----------------------------------------------------------------------------
(* parse_lexer: the constructor of CGNeoastLexer.  An element of the section *)
(* is a rule of the default state (state = "") or a state with its rules;   *)
(* bad counts those RE/flex does not take.                                  *)

LexerElement ==
    /\ Running("lexer") /\ iter <= Len(lexer_rules)
    /\ LET e == lexer_rules[iter]
       IN  IF e.state = ""
           THEN /\ lexer' = [lexer EXCEPT ![1].rules = @ + e.rules]
                /\ Report("lexer", e.bad)
           ELSE IF e.state \in Names(lexer)
           THEN Report("lexer", 1) /\ UNCHANGED lexer
           ELSE /\ lexer' = Append(lexer, [name |-> e.state, rules |-> e.rules])
                /\ Report("lexer", e.bad)
    /\ iter' = iter + 1
    /\ UNCHANGED <<readerVars, phase, action_id, action_tokens, grammar_tokens,
                   tokens, ascii_mappings, headerVars, table, rules_cg, rules,
                   outVars>>

-----------------------------------------------------------------------------
(* parse_grammar: the constructor of CGGrammars.                           *)

\* The argument an action names: $n, $pn (its position) or none.
NoUse == [of |-> "none", n |-> 0]

\* CGGrammar: an undeclared token is reported and left out.
Declared(names) == SelectSeq(names, Known)
Ids(names) == [i \in DOMAIN names |-> Token(names[i]).id + NEOAST_ASCII_MAX]

CGGrammar(name, p, offset) ==
    LET names == Declared(p.tokens)
    IN  [token |-> Token(name).id + NEOAST_ASCII_MAX,
         offset |-> offset, tok_n |-> Len(names), proto |-> p,
         arguments |-> <<Token(name).type>>
                       \o [i \in DOMAIN names |-> Token(names[i]).type]]

AllTokens(g, n) == FlattenSeq([i \in 1..n |-> Declared(g.rules[i].tokens)])

\* Mutant: the token of %start is not looked up.
UndeclaredInFile(g) ==
    IF g.name = "TOK_AUGMENT" THEN 0
    ELSE Cardinality({p \in PlacesOf(g) : ~Known(g.rules[p[1]].tokens[p[2]])})

Undeclared(g) ==
    Cardinality({p \in PlacesOf(g) : ~Known(g.rules[p[1]].tokens[p[2]])})

AugmentRule == [name  |-> "TOK_AUGMENT",
                rules |-> <<[tokens |-> <<start.token>>, use |-> NoUse,
                             quoted |-> FALSE]>>]

AddRules(g) ==
    /\ rules_cg' = Put(rules_cg, g.name,
         [i \in DOMAIN g.rules |->
            CGGrammar(g.name, g.rules[i], Len(table) + Len(AllTokens(g, i - 1)))])
    /\ table' = table \o Ids(AllTokens(g, Len(g.rules)))

EnterGrammar ==
    /\ Running("lexer") /\ iter > Len(lexer_rules)
    /\ IF err_n > 0 \/ start.token = ""
       THEN /\ Report("nowhere", IF err_n > 0 THEN 0 ELSE 1)
            /\ phase' = "open"
            /\ UNCHANGED <<table, rules_cg>>
       ELSE /\ AddRules(AugmentRule)
            /\ Report("nowhere", Undeclared(AugmentRule))
            /\ phase' = "grammar"
    /\ iter' = 1
    /\ UNCHANGED <<readerVars, action_id, action_tokens, grammar_tokens, tokens,
                   ascii_mappings, headerVars, lexer, rules, outVars>>

GrammarElement ==
    /\ Running("grammar") /\ iter <= Len(grammar_rules)
    /\ LET g == grammar_rules[iter]
       IN  IF ~Known(g.name) \/ IsAction(g.name) \/ g.name \in DOMAIN rules_cg
           THEN Report("grammar", 1) /\ UNCHANGED <<table, rules_cg>>
           ELSE AddRules(g) /\ Report("grammar", Undeclared(g))
    /\ iter' = iter + 1
    /\ UNCHANGED <<readerVars, phase, action_id, action_tokens, grammar_tokens,
                   tokens, ascii_mappings, headerVars, lexer, rules, outVars>>

SumTokN(s) == FoldLeft(LAMBDA n, r : n + r.tok_n, 0, s)

\* The rules in the order of the map, and what a loop over it prints.
RulesOf(name) == IF name \in DOMAIN rules_cg THEN rules_cg[name] ELSE <<>>
RuleOrder ==
    LET upto[i \in 0..Len(Sorted)] ==
          IF i = 0 THEN <<>> ELSE upto[i - 1] \o RulesOf(Sorted[i])
    IN  upto[Len(Sorted)]

\* Mutant: the table is printed as it has been filled.
TableInFileOrder ==
    FlattenSeq([i \in DOMAIN table |-> <<tokens[table[i] - NEOAST_ASCII_MAX + 1]>>])

\* put_table and put_rules: the tokens of the productions one after another,
\* and where each begins.
PrintedTable == FlattenSeq([i \in DOMAIN RuleOrder |-> RuleOrder[i].proto.tokens])
PrintedOffset(k) == SumTokN(SubSeq(RuleOrder, 1, k - 1))

GrammarEnd ==
    /\ Running("grammar") /\ iter > Len(grammar_rules)
    /\ rules' = RuleOrder
    /\ phase' = IF err_n > 0 THEN "open" ELSE "cc"
    /\ UNCHANGED <<readerVars, err_n, crashed, tokenVars, headerVars, lexer,
                   table, rules_cg, outVars>>

-----------------------------------------------------------------------------
(* init_cc: the collection and the table are other modules; they may report *)
(* a nonterminal without productions or conflicts, each at a production.    *)

InitCC ==
    /\ Running("cc")
    /\ \E n \in 0..MaxConflicts : Report("grammar", n)
    /\ phase' = "open"
    /\ UNCHANGED <<readerVars, tokenVars, headerVars, ruleVars, outVars>>

-----------------------------------------------------------------------------
(* main.  Both files are opened before the errors are looked at.  Any of the *)
(* two may fail to open, to be written or to be closed: nobody asks the     *)
(* streams, and a stream that has failed writes nothing any more.           *)

OpenOutputs ==
    /\ Running("open")
    /\ failed' \in SUBSET {"h", "c"}
    /\ out_h' = IF "h" \in failed' THEN out_h ELSE "cut"
    /\ out_c' = IF "c" \in failed' THEN out_c ELSE "cut"
    /\ phase' = IF err_n > 0 THEN "report" ELSE "write_header"
    /\ UNCHANGED <<readerVars, err_n, crashed, tokenVars, headerVars, ruleVars,
                   status>>

MayFail(stream) == failed' \in {failed, failed \cup {stream}}

\* The header needs %union and does not ask whether there is one.
\* Mutant: %include is used like %union.
WriteHeaderAll ==
    /\ Running("write_header")
    /\ crashed' = ~({"union", "include"} \subseteq codes)
    /\ MayFail("h")
    /\ out_h' = IF crashed' \/ "h" \in failed' THEN out_h ELSE "complete"
    /\ phase' = "write_source"
    /\ UNCHANGED <<readerVars, err_n, tokenVars, headerVars, ruleVars, out_c, status>>

WriteHeader ==
    /\ Running("write_header")
    /\ crashed' = ("union" \notin codes)
    /\ MayFail("h")
    /\ out_h' = IF crashed' \/ "h" \in failed' THEN out_h ELSE "complete"
    /\ phase' = "write_source"
    /\ UNCHANGED <<readerVars, err_n, tokenVars, headerVars, ruleVars, out_c, status>>

\* Code::get_complex: $1 and $p1 are replaced, and reported if there is no such
\* argument or $1 has no type.  Whether it stands in a string or a comment is
\* asked the wrong way round, so it makes no difference.
InRedzone(zones, match) ==
    \E i \in DOMAIN zones :
       /\ zones[i][1] > match[1] /\ zones[i][2] < match[2]
       /\ \A j \in 1..i - 1 : zones[j][1] <= match[2]

Replaced(p) == ~InRedzone(IF p.quoted THEN <<<<0, 9>>>> ELSE <<>>, <<4, 6>>)

BadArgument(r) ==
    /\ r.proto.use # NoUse /\ Replaced(r.proto)
    /\ \/ r.proto.use.n \notin 1..r.tok_n
       \/ r.proto.use.of = "value" /\ r.arguments[r.proto.use.n + 1] = ""

\* The code of a destructor has no arguments, only $$.
NamesArgument(code) == code = "$1"

BadActions     == Cardinality({i \in DOMAIN rules : BadArgument(rules[i])})
BadDestructors == Cardinality({k \in DOMAIN destructors :
                                 NamesArgument(destructors[k])})

\* Mutant: a bad argument is a warning.
WriteSourceWarns ==
    /\ Running("write_source")
    /\ MayFail("c")
    /\ out_c' = IF "c" \in failed' THEN out_c
                ELSE IF BadActions > 0 THEN "with holes" ELSE "complete"
    /\ phase' = "report"
    /\ UNCHANGED <<readerVars, err_n, crashed, tokenVars, headerVars, ruleVars,
                   out_h, status>>

\* The actions are put first, the destructors behind them.
WriteSource ==
    /\ Running("write_source")
    /\ crashed' = \/ BadActions > 0 /\ ~Recorded("grammar")
                  \/ BadDestructors > 0 /\ ~Recorded("header")
    /\ err_n' = IF crashed' THEN err_n ELSE err_n + BadActions + BadDestructors
    /\ MayFail("c")
    /\ out_c' = IF crashed' \/ "c" \in failed' THEN out_c
                ELSE IF err_n' > 0 THEN "with holes" ELSE "complete"
    /\ phase' = "report"
    /\ UNCHANGED <<readerVars, tokenVars, headerVars, ruleVars, out_h, status>>

\* put_errors, the exit status, and the destructor of InputFile.
ExitStatus == err_n % 256

Exit ==
    /\ Running("report")
    /\ status' = IF ExitStatus = 0 THEN "success" ELSE "failure"
    /\ freed' = IF header = NULL THEN freed ELSE freed \o KeyValFree(header)
    /\ phase' = "done"
    /\ UNCHANGED <<file, section, unread, values, header, lexer_rules,
                   grammar_rules, kv, err_n, crashed, tokenVars, headerVars,
                   ruleVars, out_h, out_c, failed>>

-----------------------------------------------------------------------------
ReadStep == ReaderNext /\ UNCHANGED <<tokenVars, headerVars, ruleVars, outVars>>

Next ==
    \/ ReadStep
    \/ EnterHeader \/ RegisterAction \/ RegisterGrammar \/ HeaderCode
    \/ SkipDeclaration \/ EnterRound2 \/ Precedence \/ AddMacro
    \/ StartOrDestructor \/ NumberTokens
    \/ LexerElement \/ EnterGrammar \/ GrammarElement \/ GrammarEnd
    \/ InitCC \/ OpenOutputs \/ WriteHeader \/ WriteSource \/ Exit

Spec == Init /\ [][Next]_vars /\ WF_vars(Next)

-----------------------------------------------------------------------------
(* The nodes of a file, from its text alone.                               *)

PairsOf(f) ==
    [i \in DOMAIN f.header |->
       IF f.header[i].type \in ListTypes
       THEN [f.header[i] EXCEPT !.values =
               Taken(TokenList(@), f.header[i].type \in AsciiTypes)]
       ELSE f.header[i]]
Pairs == PairsOf(file)

\* Where the nodes of each declaration are; a declaration without tokens stops
\* the reader (README, known gaps).
NodesBefore(f, i) ==
    LET before[j \in 0..Len(PairsOf(f))] ==
          IF j = 0 THEN 0 ELSE before[j - 1] + Len(PairsOf(f)[j].values)
    IN  before[i - 1]
NodesOf(f, i) ==
    [j \in DOMAIN PairsOf(f)[i].values |-> NodesBefore(f, i) + j]

\* Of the last declaration only the first token is handed on, of the others all,
\* from the last one.
HandedOn(f, i) == IF i = Len(PairsOf(f)) THEN <<NodesOf(f, i)[1]>>
                  ELSE Reverse(NodesOf(f, i))
HandedOnLast(f) ==   \* what the last k declarations hand on
    LET last[k \in 0..Len(PairsOf(f))] ==
          IF k = 0 THEN <<>>
          ELSE HandedOn(f, Len(PairsOf(f)) - k + 1) \o last[k - 1]
    IN  last
HeaderOrder(f) == HandedOnLast(f)[Len(PairsOf(f))]

(***************************************************************************)
(* The reader hands on every token of every declaration, once and in the   *)
(* order of the declarations, the tokens of one backwards; only of the     *)
(* last declaration it loses all but the first (compiler_compiler.y:329).  *)
(***************************************************************************)
HeaderIsRead ==
    (phase = "header" /\ iter = NULL) => Chain(header) = HeaderOrder(file)

(***************************************************************************)
(* When the process ends each node has been freed once, after a syntax     *)
(* error in the middle of the header too; but those the header lost are    *)
(* never freed, unless it is a single declaration, which leads to all.     *)
(***************************************************************************)
Lost == IF file.damaged = "header" \/ Len(Pairs) = 1 THEN {}
        ELSE Range(Tail(NodesOf(file, Len(Pairs))))

NodesFreedOnce ==
    phase = "done" => IsInjective(freed) /\ Range(freed) = (DOMAIN kv) \ Lost

(***************************************************************************)
(* The number of a token is its place in the enum of the parser, terminals *)
(* come first and the augment token last; the lexer's map for characters   *)
(* uses the same numbers.  A file with errors does not get this far.       *)
(***************************************************************************)
TokensAreNumbered ==
    (phase = "cc" \/ (phase = "lexer" /\ iter = 1)) =>
       LET all == action_tokens \o grammar_tokens
       IN  /\ tokens = [i \in DOMAIN all |-> all[i].name]
           /\ \A i \in DOMAIN all : all[i].id = i - 1
           /\ Last(tokens) = "TOK_AUGMENT"
           /\ \A i \in DOMAIN action_tokens :
                 IF action_tokens[i].ascii
                 THEN ascii_mappings[tokens[i]] = NEOAST_ASCII_MAX + i - 1
                 ELSE tokens[i] \notin DOMAIN ascii_mappings

(***************************************************************************)
(* The status tells of the mistakes in the file, whichever phase finds      *)
(* them: with success each output whose stream has not failed is complete,  *)
(* and with two complete outputs it is success.  Of a stream that has failed *)
(* it tells nothing (README).                                               *)
(***************************************************************************)
ExitTellsOfErrors ==
    phase = "done" =>
       /\ status = "success" => /\ out_h = "complete" \/ "h" \in failed
                                /\ out_c = "complete" \/ "c" \in failed
       /\ out_h = "complete" /\ out_c = "complete" => status = "success"
=============================================================================
