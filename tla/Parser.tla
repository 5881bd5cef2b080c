------------------------------- MODULE Parser -------------------------------
(***************************************************************************)
(* The command parser of CLIRA (web/core/parser.js, parser.types.js) and   *)
(* the command input that runs what it finds (controllers.js).             *)
(*                                                                         *)
(* The user types words.  Every word extends each possible reading of the  *)
(* words before it; readings that make no sense are dropped at the end and *)
(* the one with the highest score is run, unless it lacks an argument.     *)
(* JavaScript parses in one go; here each word is a step, so that the      *)
(* readings of every prefix can be compared with their definition.         *)
(*                                                                         *)
(* A name or a token is a string taken as a whole; Abbreviates says which  *)
(* names a token is a prefix of.                                           *)
(***************************************************************************)
EXTENDS Integers, Sequences, FiniteSets, SequencesExt, Functions

CONSTANTS
    Token,         \* words the user may type
    Abbreviates,   \* the names of arguments each word is a prefix of
    CommandSets,   \* sets of commands that may be loaded, as sequences
    MaxTokens      \* bound: words in an input

\* $.clira.types
Types == {"date-and-time", "device", "empty", "enumeration", "interface", "keyword",
          "location", "lsp", "media-type", "string", "vpn"}

\* An argument; those with enums are of type enumeration.  A command is what it is called,
\* word by word, and the arguments it and its bundles declare.
ArgumentSpec ==
    [name : STRING, type : Types, nokeyword : BOOLEAN, multiple : BOOLEAN,
     mandatory : BOOLEAN, enums : Seq(STRING \ {""})]

CommandSpec == [words : Seq(STRING), arguments : Seq(ArgumentSpec), bundles : Seq(Seq(ArgumentSpec))]

ASSUME ParserAssumption ==
    /\ MaxTokens \in Nat
    /\ Token \subseteq DOMAIN Abbreviates /\ "" \notin Token /\ Token \subseteq STRING
    /\ CommandSets \subseteq Seq(CommandSpec)

VARIABLES
    commands,       \* $.clira.commands
    tokens,         \* the words looked at so far
    possibilities,  \* readings of them, in the order they were found
    parsePhase,     \* "typing", "parsed", "run" or "refused"
    poss            \* the reading the command input has chosen

parserVars == <<commands, tokens, possibilities, parsePhase, poss>>

NoReading == [command |-> 0, matches |-> <<>>, score |-> 0]

-----------------------------------------------------------------------------
(* Commands *)

\* A type is known by whether its arguments need data
NeedsData(type) == type \notin {"keyword", "empty"}

KeywordArgument(name) ==
    [name |-> name, type |-> "keyword", nokeyword |-> FALSE, multiple |-> FALSE,
     mandatory |-> FALSE, enums |-> <<>>]

\* The arguments of a command: its words, those declared, those of its bundles
Arguments(c) ==
    [i \in DOMAIN c.words |-> KeywordArgument(c.words[i])] \o c.arguments
        \o FlattenSeq(c.bundles)

\* What the command files keep to: a command says no word twice, only its words are
\* keywords, and a word that is typed in full is the beginning of itself
ASSUME WordsAssumption ==
    \A cs \in CommandSets : \A c \in Range(cs) :
        /\ IsInjective(c.words)
        /\ \A i \in DOMAIN Arguments(c) : Arguments(c)[i].type = "keyword" => i \in DOMAIN c.words
        /\ \A tok \in Token \cap Range(c.words) : tok \in Abbreviates[tok]

\* And no argument is declared twice; one without a name may have the name of a word, as in
\* "show location", but then has none without a name in between
ASSUME ArgumentsAssumption ==
    \A cs \in CommandSets : \A c \in Range(cs) :
        /\ IsInjective(Arguments(c))
        /\ \A i, j, k \in DOMAIN Arguments(c) :
              /\ k <= j /\ j < i
              /\ Arguments(c)[i].nokeyword /\ Arguments(c)[j].nokeyword
              => Arguments(c)[k].name # Arguments(c)[i].name

-----------------------------------------------------------------------------
(* Readings *)

Seen(p)    == {p.matches[i].arg.name : i \in DOMAIN p.matches}
LastOf(p)  == p.matches[Len(p.matches)]
Waiting(p) == p.matches # <<>> /\ LastOf(p).needsData

\* The words each argument has been given: poss.data
Data(p) ==
    LET Of(name) == SelectSeq(p.matches, LAMBDA m : m.arg.name = name /\ m.data # "")
    IN  [name \in {m \in Seen(p) : Of(m) # <<>>} |->
            [k \in DOMAIN Of(name) |-> Of(name)[k].data]]

NamedMatch(arg)    == [arg |-> arg, data |-> "", needsData |-> NeedsData(arg.type),
                       multiple |-> FALSE, nokeyword |-> FALSE]
DataMatch(arg, d)  == [arg |-> arg, data |-> d, needsData |-> FALSE,
                       multiple |-> arg.multiple, nokeyword |-> FALSE]
NokeyMatch(arg, d) == [DataMatch(arg, d) EXCEPT !.nokeyword = TRUE]

\* $.clira.scoring
TypeScore(arg)             == IF arg.type = "keyword" THEN 15 ELSE 0
NameScore(arg, tok, place) == 5 + (IF arg.name = tok THEN 10 ELSE 0)
                                + (IF place /\ arg.type = "keyword" THEN 5 ELSE 0)

AddPossibility(p, match, score) ==
    [p EXCEPT !.matches = Append(@, match),
              !.score = @ + score + TypeScore(match.arg)]

\* The last argument was named and needs a value: no other reading of the token
Valued(p, tok) ==
    LET arg == LastOf(p).arg
    IN  IF arg.enums = <<>>
        THEN <<AddPossibility(p, DataMatch(arg, tok), 5)>>
        ELSE FlattenSeq([k \in DOMAIN arg.enums |->
                IF arg.enums[k] \in Abbreviates[tok]
                THEN <<AddPossibility(p, DataMatch(arg, arg.enums[k]), 8)>> ELSE <<>>])

\* A mutant: arguments without names may come in any order
MissingPreviousNokeywordsNever(p, args, i) == FALSE

MissingPreviousNokeywords(p, args, i) ==
    \E j \in 1..(i - 1) : /\ args[j].nokeyword /\ args[j].name \notin Seen(p)
                          /\ \A k \in 1..j : args[k].name # args[i].name

Fits(p, args, tok, i) == args[i].name \notin Seen(p) /\ args[i].name \in Abbreviates[tok]

\* The token names an argument,
Named(p, args, tok, n, i) ==
    IF Fits(p, args, tok, i)
    THEN <<AddPossibility(p, NamedMatch(args[i]), NameScore(args[i], tok, i = n))>> ELSE <<>>

\* is the value of one without its name, when it is not the name of this one or one before
Plain(p, args, tok, i) ==
    IF /\ args[i].nokeyword /\ args[i].name \notin Seen(p)
       /\ \A j \in 1..i : ~ Fits(p, args, tok, j)
       /\ ~ MissingPreviousNokeywords(p, args, i)
    THEN <<AddPossibility(p, NokeyMatch(args[i], tok), 2)>> ELSE <<>>

\* or is one more word of the last.
More(p, tok) ==
    IF p.matches # <<>> /\ LastOf(p).multiple
    THEN <<AddPossibility(p, [DataMatch(LastOf(p).arg, tok) EXCEPT !.multiple = TRUE], 0)>>
    ELSE <<>>

NewPossibilities(p, tok, n) ==
    LET args == Arguments(commands[p.command])
    IN  IF Waiting(p) THEN Valued(p, tok)
        ELSE FlattenSeq([i \in DOMAIN args |->
                            Named(p, args, tok, n, i) \o Plain(p, args, tok, i)])
               \o More(p, tok)

-----------------------------------------------------------------------------
(* Sorting them out *)

AllNokeyword(p) == \A i \in DOMAIN p.matches : p.matches[i].arg.nokeyword

\* contentsAreEqual(p.data, q.data).  Objects have no length, so only what p has
\* is compared.
ContentsAreEqual(p, q) == Restrict(Data(q), DOMAIN Data(p) \cap DOMAIN Data(q)) = Data(p)

\* A mutant of AlreadySeen: the data is not looked at
AlreadySeenCommand(kept, p) == \E i \in DOMAIN kept : kept[i].command = p.command

AlreadySeen(kept, p) ==
    \E i \in DOMAIN kept : kept[i].command = p.command /\ ContentsAreEqual(p, kept[i])

\* A mutant of Penalised: words that are missing cost nothing
PenalisedNever(p) == p

Penalised(p) ==
    LET args    == Arguments(commands[p.command])
        missing == {i \in DOMAIN args : args[i].type = "keyword" /\ args[i].name \notin Seen(p)}
    IN  [p EXCEPT !.score = @ - 5 * Cardinality(missing)]

PostProcess(list) ==
    FoldLeft(LAMBDA kept, p : IF AllNokeyword(p) \/ AlreadySeen(kept, p) THEN kept
                              ELSE Append(kept, Penalised(p)),
             <<>>, list)

-----------------------------------------------------------------------------
(* The command input *)

\* buildInitialPossibilities
InitialPossibilities(cs) == [i \in DOMAIN cs |-> [NoReading EXCEPT !.command = i]]

\* The next word of the input.  An argument's place is its position among all words.
NextToken(tok) ==
    /\ parsePhase = "typing" /\ Len(tokens) < MaxTokens
    /\ tokens' = Append(tokens, tok)
    /\ possibilities' = FlattenSeq([k \in DOMAIN possibilities |->
                            NewPossibilities(possibilities[k], tok, Len(tokens'))])
    /\ UNCHANGED <<commands, parsePhase, poss>>

\* Enter: the end of parse()
EndOfInput ==
    /\ parsePhase = "typing" /\ tokens # <<>>
    /\ parsePhase' = "parsed"
    /\ possibilities' = PostProcess(possibilities)
    /\ UNCHANGED <<commands, tokens, poss>>

\* possibilities[0] after the sort by score, which need not be stable
Best == {p \in Range(possibilities) : \A q \in Range(possibilities) : q.score <= p.score}

EmitParseErrors(p) ==
    \E a \in Range(Arguments(commands[p.command])) :
        IF a.name \in Seen(p) THEN NeedsData(a.type) /\ a.name \notin DOMAIN Data(p)
                              ELSE a.mandatory

\* What the loop of parse() finds for a whole input
Readings(ts) ==
    LET step(found, n) == FlattenSeq([k \in DOMAIN found |->
                                        NewPossibilities(found[k], ts[n], n)])
    IN  FoldLeft(step, InitialPossibilities(commands), [n \in DOMAIN ts |-> n])

\* A mutant of MissingToken: what was seen is not looked at
MissingTokenAgain(p, arg) == IF arg.type = "keyword" THEN <<arg.name>> ELSE <<>>

\* emitMissingTokens, of one argument
MissingToken(p, arg) ==
    IF arg.name \in Seen(p) THEN <<>>
    ELSE IF arg.mandatory THEN <<arg.name, arg.name>>
    ELSE IF arg.type = "keyword" THEN <<arg.name>> ELSE <<>>

\* Possibility.render, which becomes the input when the user takes the suggestion:
\* the words of the reading in full, with the keywords and mandatory arguments that
\* are missing up to each of them, and after the last.
Render(p) ==
    LET args     == Arguments(commands[p.command])
        place(k) == CHOOSE i \in DOMAIN args : args[i] = p.matches[k].arg
        seenTo(k) == Max({0} \cup {place(j) : j \in 1..(k - 1)})
        emitMissingTokens(from, to) ==
            FlattenSeq([i \in DOMAIN args |->
                IF i \in from..(to - 1) THEN MissingToken(p, args[i]) ELSE <<>>])
        full(m) == IF m.data = "" THEN m.arg.name ELSE m.data
        commandToken(m) == IF m.nokeyword THEN <<m.arg.name, full(m)>> ELSE <<full(m)>>
    IN  FlattenSeq([k \in DOMAIN p.matches |->
            emitMissingTokens(seenTo(k), place(k)) \o commandToken(p.matches[k])])
          \o emitMissingTokens(seenTo(Len(p.matches) + 1), Len(args) + 1)

\* executeCommand
ExecuteCommand ==
    /\ parsePhase = "parsed"
    /\ IF possibilities = <<>>
       THEN parsePhase' = "refused" /\ UNCHANGED poss
       ELSE \E p \in Best : /\ poss' = p
                            /\ parsePhase' = IF EmitParseErrors(p) THEN "refused" ELSE "run"
    /\ UNCHANGED <<commands, tokens, possibilities>>

ParserInit ==
    /\ commands \in CommandSets
    /\ tokens = <<>>
    /\ possibilities = InitialPossibilities(commands)
    /\ parsePhase = "typing"
    /\ poss = NoReading

ParserNext ==
    \/ \E tok \in Token : NextToken(tok)
    \/ EndOfInput
    \/ ExecuteCommand

-----------------------------------------------------------------------------
(* What the parser promises *)

ParserTypeOK ==
    /\ commands \in CommandSets /\ tokens \in Seq(Token) /\ Len(tokens) <= MaxTokens
    /\ \A p \in Range(possibilities) \cup {poss} :
          /\ p.command \in 0..Len(commands) /\ p.score \in Int
          /\ Len(p.matches) <= Len(tokens)
    /\ parsePhase \in {"typing", "parsed", "run", "refused"}

\* A reading, word by word: which argument the word belongs to, and how
Uses == {"name", "value", "plain", "more"}

Roles(args) ==
    {role \in (DOMAIN args) \X Uses :
        LET arg == args[role[1]]
        IN  CASE role[2] = "name"  -> \E k \in DOMAIN tokens : arg.name \in Abbreviates[tokens[k]]
              [] role[2] = "value" -> NeedsData(arg.type)
              [] role[2] = "plain" -> arg.nokeyword
              [] role[2] = "more"  -> arg.multiple}

IsReading(r, args, ts) ==
    \A k \in DOMAIN ts :
        LET arg       == args[r[k][1]]
            named     == {args[r[j][1]].name : j \in 1..(k - 1)}
            open      == k > 1 /\ r[k - 1][2] = "name" /\ NeedsData(args[r[k - 1][1]].type)
            ofLast    == k > 1 /\ r[k - 1][1] = r[k][1]
            candidate == {i \in DOMAIN args : args[i].name \notin named}
        IN  CASE r[k][2] = "value" ->
                    /\ open /\ ofLast
                    /\ arg.enums # <<>> => Range(arg.enums) \cap Abbreviates[ts[k]] # {}
              [] r[k][2] = "name" ->
                    ~ open /\ r[k][1] \in candidate /\ arg.name \in Abbreviates[ts[k]]
              [] r[k][2] = "plain" ->
                    /\ ~ open /\ r[k][1] \in candidate /\ arg.nokeyword
                    /\ \A i \in candidate : args[i].name \in Abbreviates[ts[k]] => i > r[k][1]
                    /\ \A i \in candidate : args[i].nokeyword => i >= r[k][1]
              [] r[k][2] = "more" ->
                    ofLast /\ r[k - 1][2] # "name" /\ arg.multiple

\* The same of a possibility
Use(p, k) ==
    LET m == p.matches[k]
    IN  IF m.data = "" THEN "name"
        ELSE IF m.nokeyword THEN "plain"
        ELSE IF p.matches[k - 1].data = "" THEN "value" ELSE "more"

ReadingOf(p) ==
    LET args == Arguments(commands[p.command])
    IN  [k \in DOMAIN p.matches |->
            <<CHOOSE i \in DOMAIN args : args[i] = p.matches[k].arg, Use(p, k)>>]

\* The readings that extending word by word finds are all readings there are: no
\* order of words makes parse() miss one or come up with one.
FindsAllReadings ==
    parsePhase = "typing" =>
        \A c \in DOMAIN commands :
            LET args == Arguments(commands[c])
            IN  {ReadingOf(p) : p \in {q \in Range(possibilities) : q.command = c}}
                    = {r \in [DOMAIN tokens -> Roles(args)] : IsReading(r, args, tokens)}

\* What is shown stands for everything found, and nothing is shown twice: a reading
\* with a keyword that is not shown gave no value that one shown does not give, and
\* no two shown are the same command with the same values.  (postProcess; that
\* some are lost although their values differ is in PageClaims.)
KeptStandForAll ==
    [][parsePhase' = "parsed" /\ parsePhase = "typing" =>
          /\ \A i, j \in DOMAIN possibilities' :
                i # j => possibilities'[i].command # possibilities'[j].command \/
                         Data(possibilities'[i]) # Data(possibilities'[j])
          /\ \A p \in Range(possibilities) :
                AllNokeyword(p) \/ \E q \in Range(possibilities') :
                    q.command = p.command /\ ContentsAreEqual(p, q)]_parserVars

\* Taking a suggestion changes nothing: unless a mandatory argument is missing, the
\* text that is shown for a reading can itself be read as the same command with the same
\* values, whatever was abbreviated, left out or out of order in the input.
SuggestionsParse ==
    parsePhase = "parsed" =>
        \A p \in Range(possibilities) :
            (\A a \in Range(Arguments(commands[p.command])) :
                a.mandatory => a.name \in Seen(p)) =>
            \E q \in Range(Readings(Render(p))) : q.command = p.command /\ Data(q) = Data(p)

\* Whoever types all words of a command gets that command, whatever abbreviations,
\* optional arguments and longer commands the words could stand for as well: the
\* constants of $.clira.scoring never outweigh it.
FullySpelledWins ==
    parsePhase \in {"run", "refused"} =>
        ((\E c \in Range(commands) : c.words = tokens) =>
            poss.command # 0 /\ commands[poss.command].words = tokens)

=============================================================================
