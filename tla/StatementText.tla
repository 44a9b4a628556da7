---------------------------- MODULE StatementText -----------------------------
(***************************************************************************)
(* The text of a simple query, read three times: split_statements() of     *)
(* src/src/server/mod.rs cuts it into statements, intercept() of           *)
(* src/src/server/compat.rs looks at the first word of each and rewrites   *)
(* names of pg_catalog in the rest, and the SQL lexer that runs behind them*)
(* decides what was meant.  Only the lexer knows comments and $$ quotes.   *)
(*                                                                         *)
(* The text comes symbol by symbol, each a character or a word, and the    *)
(* state is what the three readers remember of it; texts are of any length.*)
(* Two quotes in a row, an escaped one, close and open again: none of the  *)
(* readers can tell the difference.                                        *)
(***************************************************************************)
EXTENDS Naturals, Sequences

CONSTANT MaxStatements   \* bound: statements of a text

Keywords == {"set", "show"}       \* first words intercept() answers itself
Names == {"word", "pg_type"}      \* any other word; a relation of pg_catalog
Blanks == {"space", "newline"}
Quotes == {"'", "\"", "$$"}
Comments == {"--", "/*"}

\* "pg_catalog.f(" is the qualified name of a function, with its parenthesis.
Symbols == Keywords \cup Names \cup Blanks \cup Quotes \cup Comments
               \cup {"*/", ";", ".", "pg_catalog.f("}

Kinds == Keywords \cup {"query"}

ASSUME StatementTextAssumption == MaxStatements \in Nat
-------------------------------------------------------------------------------
VARIABLES
    in_single,   \* split_statements()
    in_double,
    head,        \* the first word of its current statement
    cut,         \* the kinds of the statements it has cut off
    opening,     \* intercept() on the whole text, as it is prepared
    in_quote,    \* qualify_bare_pg_catalog()
    prev,        \* the last symbol
    mode,        \* the lexer
    token,       \* the first word of its current statement
    dotted,      \* is its last token a dot?
    meant,       \* the kinds of the statements it has seen end
    inner,       \* history: has anything followed a semicolon?
    misled,      \* history: see Misleads
    damage       \* history: what was cut or rewritten in error

textVars == <<in_single, in_double, head, cut, opening, in_quote, prev, mode, token, dotted, meant,
              inner, misled, damage>>

Modes == {"code", "literal", "name", "line", "block", "dollar"}

\* The word, and whether nothing has followed it yet.
FirstWords == [word : Keywords \cup {"none", "other"}, open : BOOLEAN]

NoWord == [word |-> "none", open |-> FALSE]

\* The first word of a whole text, and how the text has gone on: the word may be
\* open, semicolons or blanks behind them are taken off if nothing follows, a blank
\* behind the word closes it.
Openings == [word : Keywords \cup {"none", "other"},
             tail : {"open", "semicolons", "blanks", "closed"}]

NoOpening == [word |-> "none", tail |-> "open"]

TextTypeOK ==
    /\ in_single \in BOOLEAN /\ in_double \in BOOLEAN /\ in_quote \in BOOLEAN
    /\ head \in FirstWords /\ token \in FirstWords
    /\ opening \in Openings
    /\ cut \in Seq(Kinds) /\ meant \in Seq(Kinds)
    /\ prev \in Symbols
    /\ mode \in Modes
    /\ dotted \in BOOLEAN /\ misled \in BOOLEAN
    /\ inner \in {"none", "semicolon", "more"}
    /\ damage \subseteq {"literal", "name"}

TextInit ==
    /\ in_single = FALSE /\ in_double = FALSE /\ in_quote = FALSE
    /\ head = NoWord /\ token = NoWord
    /\ opening = NoOpening
    /\ cut = <<>> /\ meant = <<>>
    /\ prev = "space"
    /\ mode = "code"
    /\ dotted = FALSE /\ misled = FALSE
    /\ inner = "none"
    /\ damage = {}

Kind(w) == IF w.word \in Keywords THEN w.word ELSE "query"

\* A statement that ends; one without a word is none.
Ended(kinds, w) == IF w.word = "none" THEN kinds ELSE Append(kinds, Kind(w))
-------------------------------------------------------------------------------
(***************************************************************************)
(* The gateway.                                                            *)
(***************************************************************************)

\* Variation: a semicolon between double quotes ends a statement.
Cuts_InNames(c) == c = ";" /\ ~in_single

\* split_statements() ends a statement here.
Cuts(c) == c = ";" /\ ~in_single /\ ~in_double

\* A first word, and what becomes of it when something is attached to it.
WordOf(c) == [word |-> IF c \in Keywords THEN c ELSE "other", open |-> c \in Keywords]
Closed(w, attached) ==
    [word |-> IF w.open /\ attached THEN "other" ELSE w.word, open |-> FALSE]

\* The first word goes to the next blank: "SET" is not the first word of "SET'x'".
head_after(c) ==
    IF Cuts(c) THEN NoWord
    ELSE IF head.word # "none" THEN Closed(head, c \notin Blanks)
    ELSE IF c \in Blanks THEN NoWord ELSE WordOf(c)

\* Variation: semicolons at the end stay.
opening_after_Untrimmed(c) ==
    LET First == opening.word = "none" /\ opening.tail = "open"
    IN  CASE opening.tail = "closed" \/ (First /\ c \in Blanks) -> opening
          [] opening.tail = "open" /\ ~First /\ c \in Blanks    -> [opening EXCEPT !.tail = "closed"]
          [] First /\ c \in Keywords                            -> [word |-> c, tail |-> "open"]
          [] OTHER -> [word |-> "other", tail |-> "closed"]

\* Nothing but the semicolons at the end is taken off a text that is not split:
\* the first word of ";SET" and of "SET;SHOW" is none that intercept() answers.
opening_after(c) ==
    LET OnTo(tail) == [opening EXCEPT !.tail = tail]
        Begun == [word |-> WordOf(c).word, tail |-> IF c \in Keywords THEN "open" ELSE "closed"]
        First == opening.word = "none" /\ opening.tail = "open"
    IN  CASE opening.tail = "closed" \/ (First /\ c \in Blanks)       -> opening
          [] opening.tail \in {"open", "semicolons"} /\ c = ";"        -> OnTo("semicolons")
          [] opening.tail \in {"semicolons", "blanks"} /\ c \in Blanks -> OnTo("blanks")
          [] opening.tail = "open" /\ ~First /\ c \in Blanks          -> OnTo("closed")
          [] First /\ c \notin Blanks \cup {";"}                      -> Begun
          [] OTHER -> [word |-> "other", tail |-> "closed"]

\* Variation: a qualified name is not told from a bare one.
Attached_Dotless == prev \in Keywords \cup Names

\* An identifier or a dot comes immediately before.
Attached == prev \in Keywords \cup Names \cup {"."}

\* A statement with a first word of its own is answered without being rewritten.
Rewrites(c) == head.word \notin Keywords /\
    \/ c = "pg_catalog.f("
    \/ c = "pg_type" /\ ~in_quote /\ ~Attached
-------------------------------------------------------------------------------
(***************************************************************************)
(* The lexer.                                                              *)
(***************************************************************************)
Ends(c) == c = ";" /\ mode = "code"

mode_after(c) ==
    CASE mode = "code" ->
            (CASE c = "'"  -> "literal"
               [] c = "\"" -> "name"
               [] c = "$$" -> "dollar"
               [] c = "--" -> "line"
               [] c = "/*" -> "block"
               [] OTHER    -> "code")
      [] mode = "literal" /\ c = "'"  -> "code"
      [] mode = "name" /\ c = "\""    -> "code"
      [] mode = "dollar" /\ c = "$$"  -> "code"
      [] mode = "line" /\ c = "newline" -> "code"
      [] mode = "block" /\ c = "*/"   -> "code"
      [] OTHER -> mode

token_after(c) ==
    IF mode # "code" THEN token
    ELSE IF Ends(c) THEN NoWord
    ELSE IF token.word # "none" THEN
        Closed(token, c \in Keywords \cup Names \cup {".", "pg_catalog.f("})
    ELSE IF c \in Blanks \cup Comments THEN NoWord ELSE WordOf(c)

dotted_after(c) ==
    IF mode = "code" /\ c \notin Blanks \cup Comments THEN c = "." ELSE dotted

\* A name the search path of PostgreSQL would find in pg_catalog.
Bare(c) ==
    /\ mode = "code"
    /\ \/ c = "pg_catalog.f("
       \/ c = "pg_type" /\ ~dotted /\ prev \notin Keywords \cup Names
-------------------------------------------------------------------------------
(***************************************************************************)
(* Texts the gateway reads differently from the lexer, and what comes of   *)
(* it.                                                                     *)
(***************************************************************************)
Misleads(c) ==
    \* quotes, semicolons and names where only the lexer knows they are none
    \/ mode \in {"line", "block", "dollar"} /\ c \in {"'", "\"", ";"}
    \/ mode = "dollar" /\ c \in {"pg_type", "pg_catalog.f("}
    \/ mode = "name" /\ c \in {"'", "pg_type", "pg_catalog.f("}
    \/ mode = "literal" /\ c = "pg_catalog.f("
    \* a comment, or no blank, between SET or SHOW and the rest of the statement
    \/ mode = "code" /\ token.word = "none" /\ head.word # "none" /\ c \in Keywords
    \/ mode = "code" /\ token.open /\ c \in Quotes \cup Comments \cup {"*/"}
    \* a statement of comments only
    \/ Ends(c) /\ token.word = "none" /\ head.word # "none"
    \* a blank between a dot and the name it qualifies
    \/ c = "pg_type" /\ dotted /\ prev # "."

Damages(c) ==
    LET literal == mode \in {"literal", "dollar"}
    IN  {d \in {"literal", "name"} :
            \/ d = "literal" /\ literal /\ (Cuts(c) \/ Rewrites(c))
            \/ /\ d = "name" /\ ~literal /\ mode \notin {"line", "block"}
               /\ c \in {"pg_type", "pg_catalog.f("} /\ head.word \notin Keywords
               /\ ~(Rewrites(c) <=> Bare(c))}

\* pg_type and a function's name are whole words.
Typable(c) ==
    /\ prev = "pg_type" => c \notin Keywords \cup Names \cup {"pg_catalog.f("}
    /\ c = "pg_catalog.f(" => prev \notin Keywords \cup Names \cup {"."}
    /\ c = ";" => Len(cut) < MaxStatements /\ Len(meant) < MaxStatements

Type(c) ==
    /\ Typable(c)
    /\ in_single' = (IF c = "'" /\ ~in_double THEN ~in_single ELSE in_single)
    /\ in_double' = (IF c = "\"" /\ ~in_single THEN ~in_double ELSE in_double)
    /\ head' = head_after(c)
    /\ opening' = opening_after(c)
    /\ cut' = IF Cuts(c) THEN Ended(cut, head) ELSE cut
    /\ in_quote' = IF Cuts(c) THEN FALSE ELSE (IF c = "'" THEN ~in_quote ELSE in_quote)
    /\ prev' = c
    /\ mode' = mode_after(c)
    /\ token' = token_after(c)
    /\ dotted' = dotted_after(c)
    /\ meant' = IF Ends(c) THEN Ended(meant, token) ELSE meant
    /\ inner' = IF inner # "none" /\ c \notin Blanks THEN "more"
                ELSE IF c = ";" THEN "semicolon" ELSE inner
    /\ misled' = (misled \/ Misleads(c))
    /\ damage' = damage \cup Damages(c)

TextNext == \E c \in Symbols : Type(c)

TextSpec == TextInit /\ [][TextNext]_textVars

\* What split_statements() returns, if the text ends here.
Statements == Ended(cut, head)

\* What intercept() takes a text for that is not split.
Unsplit == IF opening.word = "none" THEN "empty" ELSE Kind(opening)

\* What was meant.
Meant == Ended(meant, token)
-------------------------------------------------------------------------------
(***************************************************************************)
(* Properties.                                                             *)
(***************************************************************************)

\* A text that misleads the gateway even if it ends here.
Misled == misled \/ (token.word = "none" /\ head.word # "none")

\* mod.rs:350-353, compat.rs:45-74: of a text without the constructs above the
\* gateway runs, and answers itself, the statements that were meant.  One with nothing
\* behind its semicolon is taken for the same when it is prepared, and not split.
SplitAsMeant ==
    ~Misled => /\ Statements = Meant
               /\ inner # "more" => <<Unsplit>> = (IF Meant = <<>> THEN <<"empty">> ELSE Meant)

\* compat.rs:152-157: in such a text literals keep every character, and exactly
\* the bare names of pg_catalog are qualified.
RewrittenAsMeant == ~misled => damage = {}

\* mod.rs:350-353, for every text: a semicolon inside a string literal does not
\* truncate the query.
LiteralsAreNotCut == mode = "literal" => ~Cuts(";")
===============================================================================
