---------------------------- MODULE GrammarReader ----------------------------
(***************************************************************************)
(* The reader of grammar files behind its lexer: the actions of the rules  *)
(* of src/src/codegen/compiler_compiler.y, the lists src/codegen/compiler.c *)
(* and common.c make of them, and the InputFile they report to.            *)
(*                                                                         *)
(* The rules are right recursive: a section is shifted completely and then *)
(* linked from its last element.  The declarations of the header are nodes *)
(* of a heap, because they are linked by hand in both directions; the      *)
(* other lists are only ever put together from the front.                  *)
(***************************************************************************)
EXTENDS Naturals, Sequences, SequencesExt, FiniteSets

CONSTANTS Files,      \* the grammar files that may be read
          Reserved,   \* names that begin with ASCII_CHAR_0x
          AsciiNames  \* the names ascii tokens get, which the lexer makes

ASSUME NamesAssumption == Reserved \cap AsciiNames = {}

(* A file: its declarations, rules of the lexer and grammar, the section    *)
(* with a syntax error or "none", and the sections whose lines all end in a *)
(* newline.  A declaration: [type, key, values]; only those of ListTypes    *)
(* have more than one value.                                               *)
ListTypes  == {"token", "token_type", "type", "left", "right"}
AsciiTypes == {"token", "left", "right"}   \* %token, %left and %right take '+'

IsSequence(s) == s \in Seq(Range(s))

IsDeclaration(p) ==
    /\ "values" \in DOMAIN p /\ IsSequence(p.values)
    /\ p.type \notin ListTypes => Len(p.values) = 1

IsRule(g) ==
    /\ "rules" \in DOMAIN g /\ IsSequence(g.rules)
    /\ \A r \in Range(g.rules) : "tokens" \in DOMAIN r /\ IsSequence(r.tokens)

\* The rules of the sections; there is no header without a declaration.
ASSUME FilesAssumption ==
  \A f \in Files :
    /\ IsSequence(f.header) /\ f.header # <<>>
    /\ \A p \in Range(f.header) : IsDeclaration(p)
    /\ IsSequence(f.lexer) /\ \A e \in Range(f.lexer) : e.bad \in Nat
    /\ IsSequence(f.grammar) /\ \A g \in Range(f.grammar) : IsRule(g)

VARIABLES
    file,        \* the grammar file
    section,     \* where the reader is: "header", "lexer", "grammar", "program"
    unread,      \* what is left of the section
    values,      \* the parser's value stack: what waits to be linked
    header,      \* the declarations linked so far, File.header in the end
    lexer_rules, grammar_rules,
    kv,          \* the nodes allocated
    freed,       \* the nodes freed, in order
    err_n, crashed,
    phase        \* what the program does: read, then what Generator adds

readerVars == <<file, section, unread, values, header, lexer_rules,
                grammar_rules, kv, freed>>
vars0 == <<readerVars, err_n, crashed, phase>>

NULL == 0

-----------------------------------------------------------------------------
(* Reports.  A message with a position prints the line, and get_line throws *)
(* what nobody catches if the line has not been recorded.                   *)

Recorded(place) == place = "nowhere" \/ place \in file.recorded

Report(place, n) ==
    /\ crashed' = (n > 0 /\ ~Recorded(place))
    /\ err_n' = IF Recorded(place) THEN err_n + n ELSE err_n

\* A warning prints the line too.
Warn(place) == crashed' = ~Recorded(place) /\ UNCHANGED err_n

\* n messages, and then a null pointer is used if "bad".
ReportOrCrash(place, n, bad) ==
    /\ crashed' = (bad \/ (n > 0 /\ ~Recorded(place)))
    /\ err_n' = IF Recorded(place) THEN err_n + n ELSE err_n

-----------------------------------------------------------------------------
(* Lists.                                                                  *)

\* The list of tokens of a declaration or production: build_token gives NULL
\* for a reserved name, which is a short list at its end and is written
\* through anywhere else.
ReservedAt(names) == {i \in DOMAIN names : names[i] \in Reserved}
TokenList(names)  == IF names # <<>> /\ Last(names) \in Reserved
                     THEN Front(names) ELSE names
BrokenList(names) == \E i \in ReservedAt(names) : i < Len(names)

\* tokens_to_kv: every node points to the one before it; the first, which is
\* what the list is known by, points back to the last.
Taken(names, allow_ascii) ==
    LET bad == {i \in DOMAIN names : names[i] \in AsciiNames}
    IN  IF allow_ascii \/ bad = {} THEN names
        ELSE SubSeq(names, 1, (CHOOSE i \in bad : \A j \in bad : i <= j) - 1)

TokensToKv(names, key, type, ascii_type) ==
    [i \in DOMAIN names |->
       [type  |-> IF names[i] \in AsciiNames THEN ascii_type ELSE type,
        key   |-> key,
        value |-> names[i],
        next  |-> IF i = 1 THEN NULL ELSE Len(kv) + i - 1,
        back  |-> IF i = 1 THEN Len(kv) + Len(names) ELSE NULL]]

KeyVal(p) == <<[type |-> p.type, key |-> p.key, value |-> p.values[1],
                next |-> NULL, back |-> NULL]>>

\* The nodes from one on, in the order a loop over next visits them.
Chain(node) ==
    LET after == [n \in 0..Len(kv) |-> IF n = NULL THEN NULL ELSE kv[n].next]
        at[k \in 1..Len(kv)] == IF k = 1 THEN node ELSE after[at[k - 1]]
        visited == {k \in 1..Len(kv) : at[k] # NULL}
    IN  [k \in 1..Cardinality(visited) |-> at[k]]

\* Mutant: back is not looked at.
FreeForward(node) == Chain(node)

\* key_val_free
KeyValFree(node) == Chain(IF kv[node].back # NULL THEN kv[node].back ELSE node)

-----------------------------------------------------------------------------
ReaderInit ==
    /\ file \in Files
    /\ section = "header" /\ unread = file.header
    /\ values = <<>> /\ header = NULL
    /\ lexer_rules = <<>> /\ grammar_rules = <<>>
    /\ kv = <<>> /\ freed = <<>>
    /\ err_n = 0 /\ crashed = FALSE
    /\ phase = "read"

Reading == phase = "read" /\ ~crashed
Shifting(s) == Reading /\ section = s /\ unread # <<>>
Linking(s)  == Reading /\ section = s /\ unread = <<>> /\ file.damaged # s

\* pair: the declare_ function of its keyword.
DeclarePair ==
    /\ Shifting("header")
    /\ LET p == unread[1]
           names == TokenList(p.values)
           taken == Taken(names, p.type \in AsciiTypes)
       IN  IF p.type \in ListTypes
           THEN /\ ReportOrCrash("header",
                       Cardinality(ReservedAt(p.values))
                         + (IF taken # names THEN 1 ELSE 0),
                       BrokenList(p.values) \/ taken = <<>>)
                /\ kv' = kv \o TokensToKv(taken, p.key, p.type,
                                IF p.type = "token" THEN "token_ascii"
                                ELSE p.type)
           ELSE /\ kv' = kv \o KeyVal(p)
                /\ UNCHANGED <<err_n, crashed>>
    /\ values' = Append(values, Len(kv) + 1)
    /\ unread' = Tail(unread)
    /\ UNCHANGED <<file, section, header, lexer_rules, grammar_rules, freed, phase>>

\* header: pair
HeaderLast ==
    /\ Linking("header") /\ header = NULL
    /\ header' = Last(values)
    /\ values' = Front(values)
    /\ UNCHANGED <<file, section, unread, lexer_rules, grammar_rules, kv, freed,
                   err_n, crashed, phase>>

\* Mutant: $$ = $1.
TailOf(p) == p

\* header: pair header
HeadOf(p) == IF kv[p].back # NULL THEN kv[p].back ELSE p

HeaderLink ==
    /\ Linking("header") /\ header # NULL /\ values # <<>>
    /\ header' = HeadOf(Last(values))
    /\ kv' = [kv EXCEPT ![Last(values)].next = header]
    /\ values' = Front(values)
    /\ UNCHANGED <<file, section, unread, lexer_rules, grammar_rules, freed,
                   err_n, crashed, phase>>

HeaderEnd ==
    /\ Linking("header") /\ header # NULL /\ values = <<>>
    /\ section' = "lexer" /\ unread' = file.lexer
    /\ UNCHANGED <<file, values, header, lexer_rules, grammar_rules, kv, freed,
                   err_n, crashed, phase>>

\* lexer_rule: declare_lexer_rule, or declare_state_rule with its own list.
DeclareLexerRule ==
    /\ Shifting("lexer")
    /\ values' = Append(values, unread[1])
    /\ unread' = Tail(unread)
    /\ UNCHANGED <<file, section, header, lexer_rules, grammar_rules, kv, freed,
                   err_n, crashed, phase>>

\* The places of the tokens of all productions.
PlacesOf(g) == UNION {{i} \X DOMAIN g.rules[i].tokens : i \in DOMAIN g.rules}

\* A production and a rule as they are kept.
Single(r) == [r EXCEPT !.tokens = TokenList(@)]
Listed(g) == [g EXCEPT !.rules = [i \in DOMAIN g.rules |-> Single(g.rules[i])]]

\* grammar: declare_grammar with a declare_single_grammar for each production.
DeclareGrammar ==
    /\ Shifting("grammar")
    /\ LET g == unread[1]
           all == {p \in PlacesOf(g) : p[2] \in ReservedAt(g.rules[p[1]].tokens)}
       IN  /\ ReportOrCrash("grammar", Cardinality(all),
                            \E i \in DOMAIN g.rules : BrokenList(g.rules[i].tokens))
           /\ values' = Append(values, Listed(g))
    /\ unread' = Tail(unread)
    /\ UNCHANGED <<file, section, header, lexer_rules, grammar_rules, kv, freed,
                   phase>>

\* lexer_rules and grammars: $$ = $1; $$->next = $2, from the last one on.
LinkRules ==
    /\ values # <<>>
    /\ \/ /\ Linking("lexer")
          /\ lexer_rules' = <<Last(values)>> \o lexer_rules
          /\ UNCHANGED grammar_rules
       \/ /\ Linking("grammar")
          /\ grammar_rules' = <<Last(values)>> \o grammar_rules
          /\ UNCHANGED lexer_rules
    /\ values' = Front(values)
    /\ UNCHANGED <<file, section, unread, header, kv, freed, err_n, crashed, phase>>

LexerEnd ==
    /\ Linking("lexer") /\ values = <<>>
    /\ section' = "grammar" /\ unread' = file.grammar
    /\ UNCHANGED <<file, values, header, lexer_rules, grammar_rules, kv, freed,
                   err_n, crashed, phase>>

\* program: declare_file; the constructor of InputFile is done, and main looks
\* at the errors.
Program ==
    /\ Linking("grammar") /\ values = <<>>
    /\ section' = "program"
    /\ phase' = IF err_n > 0 THEN "report" ELSE "header"
    /\ UNCHANGED <<file, unread, values, header, lexer_rules, grammar_rules, kv,
                   freed, err_n, crashed>>

\* A syntax error: the callback reports it, the destructors free the values on
\* the stack, and the constructor reports that there is no file.
Unlinked == IF section = "header" THEN values
            ELSE <<header>>

SyntaxError ==
    /\ Reading /\ file.damaged = section
    /\ crashed' = ~Recorded(section)
    /\ err_n' = IF crashed' THEN err_n ELSE err_n + 2
    /\ freed' = IF crashed' THEN freed
                ELSE freed \o FlattenSeq([i \in DOMAIN Unlinked |->
                                            KeyValFree(Unlinked[i])])
    /\ header' = NULL /\ values' = <<>> /\ unread' = <<>>
    /\ section' = "none" /\ phase' = "report"
    /\ UNCHANGED <<file, lexer_rules, grammar_rules, kv>>

ReaderNext ==
    \/ DeclarePair \/ HeaderLast \/ HeaderLink \/ HeaderEnd
    \/ DeclareLexerRule \/ LexerEnd
    \/ DeclareGrammar \/ LinkRules \/ Program
    \/ SyntaxError
=============================================================================
