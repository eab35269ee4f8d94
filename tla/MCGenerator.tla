----------------------------- MODULE MCGenerator -----------------------------
(***************************************************************************)
(* A grammar file of a few declarations and all files that differ from it  *)
(* in one or two places, and what becomes of each.                         *)
(***************************************************************************)
EXTENDS Generator

CONSTANT MaxChanges   \* bound: places in which a file differs from the base

Pair(t, k, vs) == [type |-> t, key |-> k, values |-> vs]
Use(of, n) == [of |-> of, n |-> n]

\* What each place of a file may hold, the base first.
Places ==
    [tokens |-> <<<<"NUM", "ADD">>, <<"NUM", "+", "ADD">>, <<"NUM", "NUM">>,
                  <<"NUM", "EOF">>, <<"ASCII_CHAR_0x", "NUM">>,
                  <<"NUM", "ADD", "ASCII_CHAR_0x">>, <<"ASCII_CHAR_0x">>>>,
     typed  |-> <<<<"ID">>, <<"ID", "+">>, <<"+", "ID">>, <<"ID", "NUM">>>>,
     types  |-> <<<<"expr", "list">>, <<"expr", "list", "Name">>, <<"expr", "ID">>,
                  <<"expr", "TOK_AUGMENT", "list">>>>,
     prec   |-> <<<<Pair("left", "", <<"ADD", "NUM">>)>>, <<>>,
                  <<Pair("left", "", <<"ADD">>), Pair("right", "", <<"ADD">>)>>,
                  <<Pair("right", "", <<"expr">>)>>, <<Pair("left", "", <<"nope">>)>>,
                  <<Pair("left", "", <<"+">>)>>>>,
     start  |-> <<<<"expr">>, <<>>, <<"Name">>, <<"nope", "expr">>, <<"expr", "nope">>>>,
     codes  |-> <<<<"top", "union">>, <<"union", "include", "bottom">>,
                  <<"union", "top", "top">>, <<"top">>>>,
     more   |-> <<<<>>, <<Pair("destructor", "num", <<"free">>)>>,
                  <<Pair("destructor", "num", <<"free">>),
                    Pair("destructor", "num", <<"free">>)>>,
                  <<Pair("destructor", "num", <<"$1">>)>>,
                  <<Pair("option", "parser_type", <<"CLR(1)">>)>>,
                  <<Pair("option", "annotate_line", <<"maybe">>),
                    Pair("option", "colour", <<"red">>)>>,
                  <<Pair("option", "parser_type", <<"LR(0)">>),
                    Pair("option", "prefix", <<"cc">>)>>>>,
     macros |-> <<<<"digit", "number">>, <<"number", "digit">>,
                  <<"digit", "number", "real">>, <<"number", "digit", "number">>>>,
     last   |-> <<"codes", "tokens", "types", "typed", "alone">>,
     lexer  |-> <<<<<<"", 2, 0>>>>, <<<<"", 1, 0>>, <<"S", 2, 0>>, <<"", 1, 0>>>>,
                  <<<<"S", 1, 0>>, <<"S", 1, 0>>>>, <<<<"LEX_STATE_DEFAULT", 1, 0>>>>,
                  <<<<"", 1, 1>>>>, <<<<"S", 1, 1>>, <<"", 1, 0>>>>>>,
     list   |-> <<<<"list", 0>>, <<"Name", 0>>, <<"list", 1>>, <<"NUM", 0>>,
                  <<"nope", 0>>, <<"expr", 0>>, <<"TOK_AUGMENT", 0>>>>,
     second |-> <<<<"expr", "ADD", "ID">>, <<"expr", "nope">>, <<"list", "+">>,
                  <<"expr", "ASCII_CHAR_0x">>, <<"ASCII_CHAR_0x", "expr">>>>,
     use    |-> <<<<NoUse, FALSE>>, <<Use("value", 3), FALSE>>,
                  <<Use("value", 2), FALSE>>, <<Use("value", 4), FALSE>>,
                  <<Use("value", 4), TRUE>>, <<Use("value", 0), FALSE>>,
                  <<Use("position", 2), FALSE>>, <<Use("position", 4), FALSE>>>>,
     damage |-> <<"none", "header", "lexer", "grammar">>,
     open   |-> <<"nothing", "last line", "only line">>]   \* without a newline

Text == [text |-> TRUE, name |-> ""]
Ref(name) == [text |-> FALSE, name |-> name]
MacroText == [digit |-> <<Text>>, number |-> <<Ref("digit"), Ref("digit")>>,
              real  |-> <<Ref("number"), Text, Ref("digit")>>]

FileOf(c) ==
    LET token == <<Pair("token", "", c.tokens)>>
        typed  == <<Pair("token_type", "num", c.typed)>>
        types  == <<Pair("type", "num", c.types)>>
        code   == [i \in DOMAIN c.codes |-> Pair(c.codes[i], "", <<"code">>)]
        others == c.more
            \o [i \in DOMAIN c.macros |->
                  Pair("macro", c.macros[i], <<MacroText[c.macros[i]]>>)]
            \o [i \in DOMAIN c.start |-> Pair("start", "num", <<c.start[i]>>)]
            \o c.prec
    IN  [header |->
            CASE c.last = "codes"  -> token \o typed \o types \o others \o code
              [] c.last = "tokens" -> typed \o code \o others \o types \o token
              [] c.last = "types"  -> token \o others \o code \o typed \o types
              [] c.last = "typed"  -> code \o types \o token \o others \o typed
              [] c.last = "alone"  -> token,
         lexer |-> [i \in DOMAIN c.lexer |->
                      [state |-> c.lexer[i][1], rules |-> c.lexer[i][2],
                       bad |-> c.lexer[i][3]]],
         grammar |->
           <<[name |-> "expr",
              rules |-> <<[tokens |-> <<"NUM">>, use |-> NoUse, quoted |-> FALSE],
                          [tokens |-> c.second, use |-> c.use[1],
                           quoted |-> c.use[2]]>>],
             [name |-> c.list[1],
              rules |-> <<[tokens |-> IF c.list[2] = 0 THEN <<"expr", "ID">>
                                      ELSE <<>>,
                           use |-> NoUse, quoted |-> FALSE]>>]>>,
         damaged  |-> c.damage,
         recorded |-> CASE c.open = "nothing"   -> {"header", "lexer", "grammar"}
                        [] c.open = "last line" -> {"header", "lexer"}
                        [] c.open = "only line" -> {}]

\* Every file that differs from the base in up to MaxChanges places.
MCFiles ==
    LET base == [place \in DOMAIN Places |-> Places[place][1]]
        Edit(c) == UNION {{[c EXCEPT ![place] = Places[place][i]] :
                             i \in DOMAIN Places[place]} : place \in DOMAIN Places}
        within[n \in 0..MaxChanges] ==
          IF n = 0 THEN {base} ELSE UNION {Edit(c) : c \in within[n - 1]}
    IN  {FileOf(c) : c \in within[MaxChanges]}

MCSorted == <<"+", "ADD", "ASCII_CHAR_0x", "EOF", "ID", "NUM", "Name",
              "TOK_AUGMENT", "expr", "list", "nope">>

-----------------------------------------------------------------------------
(* What a file says, from its text alone.                                  *)

\* Of the last declaration only the first token is read.
SeenValues(i) == IF i = Len(Pairs) THEN <<Pairs[i].values[1]>>
                 ELSE Reverse(Pairs[i].values)
Seen(types) ==
    FlattenSeq([i \in DOMAIN Pairs |->
      IF Pairs[i].type \notin types THEN <<>>
      ELSE [j \in DOMAIN SeenValues(i) |->
              Pair(Pairs[i].type, Pairs[i].key, SeenValues(i)[j])]])
ValuesOf(s) == [i \in DOMAIN s |-> s[i].values]
KeysOf(s)   == [i \in DOMAIN s |-> s[i].key]

ActionNames  == ValuesOf(Seen({"token", "token_type"}))
GrammarNames == ValuesOf(Seen({"type"}))
StartsSeen   == Seen({"start"})
HasUnion     == \E i \in DOMAIN Pairs : Pairs[i].type = "union"
Declarations == <<"EOF", "TOK_AUGMENT">> \o ActionNames \o GrammarNames

RuleNames == [i \in DOMAIN file.grammar |-> file.grammar[i].name]
Productions ==
    FlattenSeq([i \in DOMAIN file.grammar |->
      [j \in DOMAIN file.grammar[i].rules |->
         <<file.grammar[i].name, file.grammar[i].rules[j].tokens>>]])

Repeats(s) == ~IsInjective(s)

\* A file with a mistake.  It is one too to use a reserved name or an ascii
\* token where only names are allowed.
Unreadable ==
    \/ file.damaged # "none"
    \/ \E i \in DOMAIN file.header :
          file.header[i].type \in ListTypes /\ Pairs[i].values # file.header[i].values
    \/ \E i \in DOMAIN file.header :
          file.header[i].type \in ListTypes /\ Reserved \cap Range(file.header[i].values) # {}
    \/ \E p \in Range(Productions) : Reserved \cap Range(p[2]) # {}

Faulty ==
    \/ Unreadable
    \/ Repeats(Declarations)
    \/ \E t \in SingleTypes : Len(Seen({t})) > 1
    \/ Repeats(KeysOf(Seen({"destructor"})))
    \/ \E p \in Range(Seen({"option"})) :
          p.key = "parser_type" /\ p.values \notin ParserTypes
    \/ LET used == ValuesOf(Seen({"left", "right"}))
       IN  Repeats(used) \/ ~(Range(used) \subseteq Range(ActionNames) \cup {"EOF"})
    \/ LET states == SelectSeq([i \in DOMAIN file.lexer |-> file.lexer[i].state],
                               LAMBDA n : n # "")
       IN  Repeats(<<"LEX_STATE_DEFAULT">> \o states)
    \/ \E e \in Range(file.lexer) : e.bad > 0
    \/ StartsSeen = <<>>
    \/ StartsSeen # <<>> /\ Last(StartsSeen).values \notin Range(Declarations)
    \/ Repeats(<<"TOK_AUGMENT">> \o RuleNames)
    \/ ~(Range(RuleNames) \subseteq Range(GrammarNames))
    \/ \E p \in Range(Productions) : ~(Range(p[2]) \subseteq Range(Declarations))

-----------------------------------------------------------------------------
(* Properties.                                                             *)

\* Only a file without a mistake reaches the collection, and only one with a
\* mistake is turned away before; a mistake never goes unnoticed because a
\* later phase is not reached or an earlier one had another.
FaultyFilesStop ==
    [][/\ phase # "cc" /\ phase' = "cc" => ~Faulty
       /\ phase = "read" /\ phase' = "report" => Unreadable
       /\ phase \in {"ids", "lexer", "grammar"} /\ phase' = "open" => Faulty]_vars

\* Each production of the file once and the augment rule, with the numbers of
\* their tokens; and the k-th rule of the printed parser, whose table is printed
\* by another loop, is the k-th rule of the collection.
RulesAreTheProductions ==
    LET Symbols(r) == [i \in 1..r.tok_n |->
                         tokens[table[r.offset + i] - NEOAST_ASCII_MAX + 1]]
        of == [k \in DOMAIN rules |->
                 <<tokens[rules[k].token - NEOAST_ASCII_MAX + 1], Symbols(rules[k])>>]
    IN  /\ Range(of) = Range(Productions)
              \cup {<<"TOK_AUGMENT", <<start.token>>>>}
        /\ Len(of) = Len(Productions) + 1
        /\ \A k \in DOMAIN rules :
              SubSeq(PrintedTable, PrintedOffset(k) + 1,
                     PrintedOffset(k) + rules[k].tok_n) = of[k][2]

\* The precedences of the declarations, under the final numbers of their tokens
\* (codegen.cc:102-125).
PrecedencesAreDeclared ==
    {<<tokens[id + 1], precedence_mapping[id]>> : id \in DOMAIN precedence_mapping}
    = {<<p.values, p.type>> : p \in Range(Seen({"left", "right"}))}

\* The collection gets the grammar of the file, its productions and precedences,
\* in numbers that only the whole header gives (init_cc of codegen.cc).
GrammarIsPassedOn ==
    phase = "cc" => RulesAreTheProductions /\ PrecedencesAreDeclared

\* Whatever a file without a mistake holds, the process comes to its end, if
\* there is a %union and every line ends in a newline.
GoodFilesAreAnswered ==
    (kv = <<>> /\ "grammar" \in file.recorded /\ HasUnion /\ ~Faulty)
      ~> phase = "done"

\* A macro stands for its text with the macros defined in front of it in the
\* place of their names; a name defined behind it is lost (regex.cc:76).
MacrosAreExpanded ==
    phase = "lexer" =>
       LET defs == SelectSeq(file.header, LAMBDA p : p.type = "macro")
           size[k \in 0..Len(defs)] ==   \* pieces of text of the k-th definition
             IF k = 0 THEN 0
             ELSE LET body == MacroText[defs[k].key]
                      piece(r) ==
                        IF r.text THEN 1
                        ELSE size[Max({0} \cup {j \in 1..k - 1 : defs[j].key = r.name})]
                  IN  FoldLeft(LAMBDA n, r : n + piece(r), 0, body)
       IN  \A k \in DOMAIN defs :
              (\A j \in k + 1..Len(defs) : defs[j].key # defs[k].key) =>
                 macros[defs[k].key] = [i \in 1..size[k] |-> Text]

\* The first rule is the augment rule: put_table prints ACCEPT in front of it
\* (cg_grammar.cc:220), and the collection starts from it.
FirstRuleAccepts ==
    phase = "cc" => rules[1].proto = AugmentRule.rules[1]

\* A process that says success has written the source, as the rule that builds
\* a parser counts on (cmake/neoast.cmake:21).
SuccessMeansWritten ==
    phase = "done" /\ status = "success" => out_c = "complete"
=============================================================================
