------------------------- MODULE StatementTextProofs --------------------------
(***************************************************************************)
(* StatementText for texts of any length and any number of statements.     *)
(*                                                                         *)
(* What the gateway reads is what was meant because its three flags for    *)
(* quotes follow the lexer's mode, and the first word of a statement is    *)
(* the lexer's, for as long as nothing has misled it.                      *)
(***************************************************************************)
EXTENDS StatementText, TLAPS

\* The flags for quotes are the lexer's mode.
QuotesAgree ==
    /\ in_single <=> mode = "literal"
    /\ in_double <=> mode = "name"
    /\ in_quote <=> mode = "literal"

\* The first word is the lexer's; only a comment comes before it.
WordsAgree ==
    /\ token.word # "none" => head = token
    /\ token.word = "none" => head.word \in {"none", "other"}
    /\ ~(token.word = "none" /\ head.open)
    /\ mode # "code" => head.word # "none"
    /\ mode \in {"literal", "name", "dollar"} => token.word # "none"

\* A keyword has come to its end before a quote or a comment begins.
ShutOutside == mode # "code" => ~head.open

\* A dot just before a name is one to the lexer.
DotsAgree == mode = "code" /\ prev = "." => dotted

\* What the lexer and the gateway agree on, inductively.
Agree == QuotesAgree /\ WordsAgree /\ ShutOutside /\ DotsAgree /\ cut = meant /\ damage = {}

\* Between quotes, as split_statements() sees them, the first word is complete.
QuotesBegun == in_single \/ in_double => head.word # "none" /\ ~head.open

\* Up to the first semicolon a text that is not split has the first word of its first
\* statement; that one is in a literal, or ends the statement, or there is none.
OpeningAgrees ==
    /\ inner = "none" =>
          /\ cut = <<>>
          /\ opening.word = head.word
          /\ opening.tail = IF head.open \/ head.word = "none" THEN "open" ELSE "closed"
    /\ inner = "semicolon" =>
          \/ /\ cut = <<>> /\ opening.word = head.word /\ opening.tail = "closed"
             /\ head.word # "none" /\ ~head.open
          \/ /\ cut = <<>> /\ head = NoWord
             /\ opening.word = "none" /\ opening.tail \in {"semicolons", "blanks"}
          \/ /\ cut = <<Kind(opening)>> /\ head = NoWord
             /\ opening.word # "none" /\ opening.tail # "open"

TextInv == TextTypeOK /\ QuotesBegun /\ OpeningAgrees /\ (~misled => Agree)

-------------------------------------------------------------------------------
LEMMA EndedType ==
    ASSUME NEW kinds \in Seq(Kinds), NEW w \in FirstWords
    PROVE  /\ Ended(kinds, w) \in Seq(Kinds)
           /\ Len(Ended(kinds, w)) \in {Len(kinds), Len(kinds) + 1}
BY DEF Ended, Kind, Kinds, FirstWords, Keywords

LEMMA WordsType ==
    ASSUME TextTypeOK, NEW c \in Symbols
    PROVE  head_after(c) \in FirstWords /\ token_after(c) \in FirstWords
<1>1. NoWord \in FirstWords /\ WordOf(c) \in FirstWords
    BY DEF NoWord, WordOf, FirstWords
<1>2. ASSUME NEW w \in FirstWords, NEW attached \in BOOLEAN
      PROVE  Closed(w, attached) \in FirstWords
    BY DEF Closed, FirstWords
<1>3. head_after(c) \in FirstWords
    BY <1>1, <1>2 DEF TextTypeOK, head_after
<1> DEFINE attached == c \in Keywords \cup Names \cup {".", "pg_catalog.f("}
<1>4. Closed(token, attached) \in FirstWords
    <2>1. attached \in BOOLEAN
        OBVIOUS
    <2> HIDE DEF attached
    <2> QED BY <1>2, <2>1 DEF TextTypeOK
<1>5. token_after(c) \in FirstWords
    BY <1>1, <1>4 DEF TextTypeOK, token_after
<1> QED BY <1>3, <1>5

LEMMA OpeningType ==
    ASSUME TextTypeOK, NEW c \in Symbols
    PROVE  opening_after(c) \in Openings
<1>1. opening \in Openings
    BY DEF TextTypeOK
<1>2. WordOf(c).word \in Keywords \cup {"none", "other"}
    BY DEF WordOf
<1> QED BY <1>1, <1>2 DEF opening_after, Openings

\* Every symbol keeps the types of what the readers remember.
LEMMA TypeStep ==
    ASSUME TextTypeOK, NEW c \in Symbols, Type(c)
    PROVE  TextTypeOK'
<1>1. in_single' \in BOOLEAN /\ in_double' \in BOOLEAN /\ in_quote' \in BOOLEAN
    BY DEF TextTypeOK, Type
<1>2. head' \in FirstWords /\ token' \in FirstWords /\ opening' \in Openings
    BY WordsType, OpeningType DEF Type
<1>3. cut' \in Seq(Kinds) /\ meant' \in Seq(Kinds)
    BY EndedType DEF TextTypeOK, Type
<1>4. prev' \in Symbols /\ mode' \in Modes
    BY DEF TextTypeOK, Type, mode_after, Modes
<1>5. dotted' \in BOOLEAN /\ misled' \in BOOLEAN
    BY DEF TextTypeOK, Type, dotted_after, Misleads
<1>6. inner' \in {"none", "semicolon", "more"} /\ damage' \subseteq {"literal", "name"}
    BY DEF TextTypeOK, Type, Damages
<1> QED BY <1>1, <1>2, <1>3, <1>4, <1>5, <1>6 DEF TextTypeOK

-------------------------------------------------------------------------------
\* A symbol that misleads nobody leaves the flags for quotes in agreement.
LEMMA QuotesStep ==
    ASSUME TextTypeOK, Agree, NEW c \in Symbols, Type(c), ~Misleads(c)
    PROVE  QuotesAgree'
<1>1. CASE mode = "code"
    BY <1>1 DEF Agree, QuotesAgree, Type, mode_after, Misleads, Cuts
<1>2. CASE mode \in {"literal", "name"}
    BY <1>2 DEF Agree, QuotesAgree, Type, mode_after, Misleads, Cuts
<1>3. CASE mode \in {"line", "block", "dollar"}
    BY <1>3 DEF Agree, QuotesAgree, Type, mode_after, Misleads, Cuts
<1> QED BY <1>1, <1>2, <1>3 DEF TextTypeOK, Modes

\* It ends a statement for both, or for neither.
LEMMA CutsStep ==
    ASSUME TextTypeOK, Agree, NEW c \in Symbols, Type(c), ~Misleads(c)
    PROVE  /\ Cuts(c) <=> Ends(c)
           /\ cut' = meant'
<1>1. Cuts(c) <=> Ends(c)
    BY DEF TextTypeOK, Modes, Agree, QuotesAgree, Cuts, Ends, Misleads
<1>2. ASSUME Ends(c) PROVE Ended(cut, head) = Ended(meant, token)
    BY <1>2 DEF Agree, WordsAgree, Ended, Misleads
<1> QED BY <1>1, <1>2 DEF Agree, Type

\* The first words stay the same.
LEMMA WordsStep ==
    ASSUME TextTypeOK, Agree, NEW c \in Symbols, Type(c), ~Misleads(c)
    PROVE  WordsAgree'
<1>1. Cuts(c) <=> Ends(c)
    BY CutsStep
<1>2. WordsAgree /\ head' = head_after(c) /\ token' = token_after(c) /\ mode' = mode_after(c)
    BY DEF Agree, Type
<1>3. CASE Ends(c)
    BY <1>1, <1>2, <1>3 DEF WordsAgree, head_after, token_after, NoWord, Ends, mode_after
<1>4. CASE ~Ends(c) /\ mode = "code" /\ token.word = "none" /\ head.word = "none"
    <2>1. CASE c \in Blanks
        BY <1>1, <1>2, <1>4, <2>1 DEF WordsAgree, head_after, token_after, NoWord, mode_after,
                Blanks
    <2>2. CASE c \in Comments
        <3>1. head'.word = "other" /\ ~head'.open /\ token' = NoWord
            BY <1>1, <1>2, <1>4, <2>2 DEF head_after, token_after, WordOf, Keywords, Blanks,
                    Comments
        <3>2. mode' \in {"line", "block"}
            BY <1>2, <1>4, <2>2 DEF mode_after, Comments
        <3> QED BY <3>1, <3>2 DEF WordsAgree, NoWord
    <2>3. CASE c \notin Blanks \cup Comments
        <3>1. head' = WordOf(c) /\ token' = WordOf(c)
            BY <1>1, <1>2, <1>4, <2>3 DEF head_after, token_after
        <3> QED BY <3>1 DEF WordsAgree, WordOf, Keywords
    <2> QED BY <2>1, <2>2, <2>3
<1>5. CASE ~Ends(c) /\ mode = "code" /\ token.word = "none" /\ head.word # "none"
    <2>1. head.word = "other" /\ c \notin Keywords
        BY <1>2, <1>5 DEF WordsAgree, Misleads
    <2>2. head'.word = "other" /\ ~head'.open
        BY <1>1, <1>2, <1>5, <2>1 DEF head_after, Closed
    <2>3. token' = NoWord \/ (token'.word = "other" /\ ~token'.open /\ token' = WordOf(c))
        BY <1>2, <1>5, <2>1 DEF token_after, WordOf
    <2>4. mode' \in {"literal", "name", "dollar"} => token' # NoWord
        BY <1>2, <1>5 DEF mode_after, token_after, Blanks, Comments, NoWord, WordOf
    <2>5. token' # NoWord => token' = head'
        BY <1>1, <1>2, <1>5, <2>1, <2>3 DEF WordOf, head_after, Closed
    <2> QED BY <2>2, <2>3, <2>4, <2>5 DEF WordsAgree, NoWord
<1>6. CASE ~Ends(c) /\ mode = "code" /\ token.word # "none"
    <2>1. head = token
        BY <1>2, <1>6 DEF WordsAgree
    <2>2. token.open => (c \notin Blanks <=> c \in Keywords \cup Names \cup {".", "pg_catalog.f("})
        BY <1>6 DEF Misleads, Symbols, Keywords, Names, Blanks, Quotes, Comments, Ends
    <2>3. head' = token'
        BY <1>1, <1>2, <1>6, <2>1, <2>2 DEF head_after, token_after, Closed
    <2>4. token'.word # "none" /\ ~token'.open
        BY <1>2, <1>6 DEF token_after, Closed
    <2> QED BY <2>3, <2>4 DEF WordsAgree
<1>7. CASE mode # "code"
    <2>1. token' = token /\ ~Cuts(c)
        BY <1>1, <1>2, <1>7 DEF token_after, Ends
    <2>2. head.word # "none" /\ head' = Closed(head, c \notin Blanks)
        BY <1>2, <1>7, <2>1 DEF WordsAgree, head_after
    <2>3. head' = [word |-> head.word, open |-> FALSE] \/ head.open
        BY <2>2 DEF Closed
    <2>4. ~head.open
        BY <1>2, <1>7 DEF Agree, ShutOutside
    <2>5. head' = head
        BY <2>3, <2>4 DEF TextTypeOK, FirstWords
    <2>6. mode' \in {"literal", "name", "dollar"} => mode' = mode
        BY <1>2, <1>7 DEF mode_after, TextTypeOK, Modes
    <2> QED BY <1>2, <1>7, <2>1, <2>5, <2>6 DEF WordsAgree
<1> QED BY <1>3, <1>4, <1>5, <1>6, <1>7

\* A keyword is closed before anything but code begins.
LEMMA ShutStep ==
    ASSUME TextTypeOK, Agree, NEW c \in Symbols, Type(c), ~Misleads(c)
    PROVE  ShutOutside'
<1>1. Cuts(c) <=> Ends(c)
    BY CutsStep
<1>2. CASE mode' = "code"
    BY <1>2 DEF ShutOutside
<1>3. CASE mode = "code" /\ mode' # "code"
    <2>1. c \in Quotes \cup Comments
        BY <1>3 DEF Type, mode_after, Quotes, Comments
    <2> QED
        BY <1>1, <1>3, <2>1 DEF Type, head_after, WordOf, Closed, Keywords, Blanks, Quotes,
                Comments, Ends, ShutOutside
<1>4. CASE mode # "code"
    BY <1>1, <1>4 DEF Type, Agree, WordsAgree, head_after, Closed, Ends, ShutOutside
<1> QED BY <1>2, <1>3, <1>4

LEMMA DotsStep ==
    ASSUME TextTypeOK, Agree, NEW c \in Symbols, Type(c)
    PROVE  DotsAgree'
BY DEF Type, DotsAgree, dotted_after, mode_after, Blanks, Comments, TextTypeOK, Modes

\* Nothing is cut or rewritten in error.
LEMMA DamageStep ==
    ASSUME TextTypeOK, Agree, NEW c \in Symbols, Type(c), ~Misleads(c)
    PROVE  damage' = {}
<1>1. ~(mode \in {"literal", "dollar"} /\ (Cuts(c) \/ Rewrites(c)))
    BY DEF Agree, QuotesAgree, Cuts, Rewrites, Misleads
<1>2. ASSUME mode \notin {"literal", "dollar", "line", "block"},
             c \in {"pg_type", "pg_catalog.f("}, head.word \notin Keywords
      PROVE  Rewrites(c) <=> Bare(c)
    <2>1. mode = "code"
        BY <1>2 DEF TextTypeOK, Modes, Misleads
    <2>2. dotted <=> prev = "." \/ (dotted /\ prev # ".")
        BY <2>1 DEF Agree, DotsAgree
    <2> QED BY <1>2, <2>1, <2>2 DEF Rewrites, Bare, Attached, Misleads, Agree, QuotesAgree
<1>3. Damages(c) = {}
    BY <1>1, <1>2 DEF Damages
<1> QED BY <1>3 DEF Type, Agree

-------------------------------------------------------------------------------
\* A quote completes a first word.
LEMMA BegunStep ==
    ASSUME TextTypeOK, QuotesBegun, NEW c \in Symbols, Type(c)
    PROVE  QuotesBegun'
<1>1. in_single' \/ in_double' => in_single \/ in_double \/ c \in {"'", "\""}
    BY DEF Type
<1>2. in_single \/ in_double => ~Cuts(c)
    BY DEF Cuts
<1>3. head' = head_after(c)
    BY DEF Type
<1>4. CASE c \in {"'", "\""}
    <2>1. ~Cuts(c) /\ c \notin Blanks /\ c \notin Keywords
        BY <1>4 DEF Cuts, Blanks, Keywords
    <2> QED BY <1>3, <2>1 DEF QuotesBegun, head_after, Closed, WordOf
<1>5. CASE in_single \/ in_double
    BY <1>2, <1>3, <1>5 DEF QuotesBegun, head_after, Closed
<1> QED BY <1>1, <1>4, <1>5 DEF QuotesBegun

\* The first word of a whole text, symbol by symbol.
LEMMA OpeningStep ==
    ASSUME TextTypeOK, QuotesBegun, OpeningAgrees, NEW c \in Symbols, Type(c)
    PROVE  OpeningAgrees'
<1>1. /\ head' = head_after(c) /\ opening' = opening_after(c)
      /\ cut' = IF Cuts(c) THEN Ended(cut, head) ELSE cut
    BY DEF Type
<1>2. opening \in Openings /\ head \in FirstWords
    BY DEF TextTypeOK
<1>3. ";" \notin Blanks /\ ";" \notin Keywords /\ Blanks \cap Keywords = {} /\ "none" \notin Keywords
    BY DEF Blanks, Keywords
<1>4. CASE inner = "none" /\ c # ";"
    <2>1. inner' = "none" /\ ~Cuts(c) /\ cut' = <<>>
        BY <1>1, <1>4 DEF Type, Cuts, OpeningAgrees
    <2>2. CASE head.word = "none"
        <3>1. opening.word = "none" /\ opening.tail = "open"
            BY <1>4, <2>2 DEF OpeningAgrees
        <3>2. CASE c \in Blanks
            <4>1. head' = NoWord /\ opening' = opening
                BY <1>1, <1>3, <1>4, <2>1, <2>2, <3>1, <3>2 DEF head_after, opening_after
            <4> QED BY <2>1, <3>1, <4>1 DEF OpeningAgrees, NoWord
        <3>3. CASE c \notin Blanks
            <4>1. head' = WordOf(c)
                BY <1>1, <2>1, <2>2, <3>3 DEF head_after
            <4>2. opening' = [word |-> WordOf(c).word,
                              tail |-> IF c \in Keywords THEN "open" ELSE "closed"]
                BY <1>1, <1>4, <3>1, <3>3 DEF opening_after
            <4> QED BY <1>3, <2>1, <4>1, <4>2 DEF OpeningAgrees, WordOf
        <3> QED BY <3>2, <3>3
    <2>3. CASE head.word # "none" /\ head.open
        <3>1. opening.tail = "open" /\ opening.word = head.word
            BY <1>4, <2>3 DEF OpeningAgrees
        <3>2. head' = [word |-> IF c \notin Blanks THEN "other" ELSE head.word, open |-> FALSE]
            BY <1>1, <2>1, <2>3 DEF head_after, Closed
        <3>3. opening'.word = head'.word /\ opening'.tail = "closed"
            <4>1. CASE c \in Blanks
                <5>1. opening' = [opening EXCEPT !.tail = "closed"]
                    BY <1>1, <1>4, <2>3, <3>1, <4>1 DEF opening_after
                <5> QED BY <1>2, <3>1, <3>2, <4>1, <5>1 DEF Openings
            <4>2. CASE c \notin Blanks
                <5>1. opening' = [word |-> "other", tail |-> "closed"]
                    BY <1>1, <1>4, <2>3, <3>1, <4>2 DEF opening_after
                <5> QED BY <3>2, <4>2, <5>1
            <4> QED BY <4>1, <4>2
        <3> QED BY <2>1, <2>3, <3>2, <3>3 DEF OpeningAgrees
    <2>4. CASE head.word # "none" /\ ~head.open
        <3>1. opening.tail = "closed" /\ opening.word = head.word
            BY <1>4, <2>4 DEF OpeningAgrees
        <3>2. opening' = opening
            BY <1>1, <3>1 DEF opening_after
        <3>3. head'.word = head.word /\ ~head'.open
            BY <1>1, <2>1, <2>4 DEF head_after, Closed
        <3> QED BY <2>1, <2>4, <3>1, <3>2, <3>3 DEF OpeningAgrees
    <2> QED BY <2>2, <2>3, <2>4
<1>5. CASE inner = "none" /\ c = ";"
    <2>1. inner' = "semicolon" /\ cut = <<>> /\ opening.word = head.word
        BY <1>5 DEF Type, OpeningAgrees
    <2>2. CASE ~Cuts(c)
        <3>1. head.word # "none" /\ ~head.open
            BY <1>5, <2>2 DEF Cuts, QuotesBegun
        <3>2. opening.tail = "closed" /\ opening' = opening
            BY <1>1, <1>5, <3>1 DEF OpeningAgrees, opening_after
        <3>3. head'.word = head.word /\ ~head'.open
            BY <1>1, <2>2, <3>1 DEF head_after, Closed
        <3> QED BY <1>1, <2>1, <2>2, <3>1, <3>2, <3>3 DEF OpeningAgrees
    <2>3. CASE Cuts(c) /\ head.word = "none"
        <3>1. head' = NoWord /\ cut' = <<>>
            BY <1>1, <2>1, <2>3 DEF head_after, Ended
        <3>2. opening.word = "none" /\ opening.tail = "open"
            BY <1>5, <2>3 DEF OpeningAgrees
        <3>3. opening' = [opening EXCEPT !.tail = "semicolons"]
            BY <1>1, <1>3, <1>5, <3>2 DEF opening_after
        <3>4. opening'.word = "none" /\ opening'.tail = "semicolons"
            BY <1>2, <3>2, <3>3 DEF Openings
        <3> QED BY <2>1, <3>1, <3>4 DEF OpeningAgrees
    <2>4. CASE Cuts(c) /\ head.word # "none"
        <3>1. head' = NoWord /\ cut' = <<Kind(head)>>
            BY <1>1, <2>1, <2>4 DEF head_after, Ended
        <3>2. opening.tail \in {"open", "closed"}
            BY <1>5 DEF OpeningAgrees
        <3>3. opening'.word = opening.word /\ opening'.tail # "open"
            BY <1>1, <1>2, <1>3, <1>5, <3>2 DEF opening_after, Openings
        <3>4. Kind(head) = Kind(opening')
            BY <2>1, <3>3 DEF Kind
        <3>5. cut' = <<Kind(opening')>>
            BY <3>1, <3>4
        <3> QED BY <2>1, <2>4, <3>1, <3>3, <3>5 DEF OpeningAgrees, Kind
    <2> QED BY <2>2, <2>3, <2>4
<1>6. CASE inner = "semicolon" /\ c \in Blanks
    <2>1. inner' = "semicolon" /\ ~Cuts(c) /\ cut' = cut
        BY <1>1, <1>3, <1>6 DEF Type, Cuts
    <2>2. CASE /\ cut = <<>> /\ opening.word = head.word /\ opening.tail = "closed"
               /\ head.word # "none" /\ ~head.open
        <3>1. opening' = opening
            BY <1>1, <2>2 DEF opening_after
        <3>2. head'.word = head.word /\ ~head'.open
            BY <1>1, <2>1, <2>2 DEF head_after, Closed
        <3> QED BY <2>1, <2>2, <3>1, <3>2 DEF OpeningAgrees
    <2>3. CASE /\ cut = <<>> /\ head = NoWord
               /\ opening.word = "none" /\ opening.tail \in {"semicolons", "blanks"}
        <3>1. opening'.word = "none" /\ opening'.tail = "blanks"
            <4>1. opening' = [opening EXCEPT !.tail = "blanks"]
                BY <1>1, <1>3, <1>6, <2>3 DEF opening_after
            <4> QED BY <1>2, <2>3, <4>1 DEF Openings
        <3>2. head' = NoWord
            BY <1>1, <1>6, <2>1, <2>3 DEF head_after, NoWord
        <3> QED BY <2>1, <2>3, <3>1, <3>2 DEF OpeningAgrees
    <2>4. CASE /\ cut = <<Kind(opening)>> /\ head = NoWord
               /\ opening.word # "none" /\ opening.tail # "open"
        <3>1. opening'.word = opening.word /\ opening'.tail # "open"
            BY <1>1, <1>2, <1>3, <1>6, <2>4 DEF opening_after, Openings
        <3>2. head' = NoWord
            BY <1>1, <1>6, <2>1, <2>4 DEF head_after, NoWord
        <3>3. Kind(opening') = Kind(opening)
            BY <3>1 DEF Kind
        <3>4. cut' = <<Kind(opening')>>
            BY <2>1, <2>4, <3>3
        <3> QED BY <2>1, <2>4, <3>1, <3>2, <3>4 DEF OpeningAgrees, Kind
    <2> QED BY <1>6, <2>2, <2>3, <2>4 DEF OpeningAgrees
<1>7. CASE inner = "more" \/ (inner = "semicolon" /\ c \notin Blanks)
    <2>1. inner' = "more"
        BY <1>3, <1>7 DEF Type
    <2> QED BY <2>1 DEF OpeningAgrees
<1> QED BY <1>4, <1>5, <1>6, <1>7 DEF TextTypeOK

-------------------------------------------------------------------------------
LEMMA TextInvInit ==
    ASSUME TextInit
    PROVE  TextInv
<1>1. TextTypeOK
    <2>1. head \in FirstWords /\ token \in FirstWords /\ opening \in Openings
        BY DEF TextInit, NoWord, FirstWords, NoOpening, Openings
    <2>2. cut \in Seq(Kinds) /\ meant \in Seq(Kinds)
        BY DEF TextInit
    <2>3. prev \in Symbols
        BY DEF TextInit, Symbols, Blanks
    <2> QED BY <2>1, <2>2, <2>3 DEF TextInit, TextTypeOK, Modes
<1>2. Agree
    BY DEF TextInit, Agree, QuotesAgree, WordsAgree, ShutOutside, DotsAgree, NoWord
<1>3. QuotesBegun /\ OpeningAgrees
    BY DEF TextInit, QuotesBegun, OpeningAgrees, NoWord, NoOpening
<1> QED BY <1>1, <1>2, <1>3 DEF TextInv

LEMMA TextInvStep ==
    ASSUME TextInv, NEW c \in Symbols, Type(c)
    PROVE  TextInv'
<1>1. TextTypeOK'
    BY TypeStep DEF TextInv
<1>2. ASSUME ~misled' PROVE Agree'
    <2>1. Agree /\ ~Misleads(c)
        BY <1>2 DEF Type, TextInv
    <2> QED
        BY <2>1, QuotesStep, CutsStep, WordsStep, ShutStep, DotsStep, DamageStep
        DEF TextInv, Agree
<1>3. QuotesBegun' /\ OpeningAgrees'
    BY BegunStep, OpeningStep DEF TextInv
<1> QED BY <1>1, <1>2, <1>3 DEF TextInv

LEMMA TextInvStutter ==
    ASSUME TextInv, UNCHANGED textVars
    PROVE  TextInv'
<1>1. TextTypeOK' /\ (~misled => Agree)'
    BY DEF textVars, TextInv, TextTypeOK, Agree, QuotesAgree, WordsAgree, ShutOutside, DotsAgree
<1>2. QuotesBegun' /\ OpeningAgrees'
    BY DEF textVars, TextInv, QuotesBegun, OpeningAgrees, Kind
<1> QED BY <1>1, <1>2 DEF TextInv

\* The agreement holds of every prefix of every text.
THEOREM TextInvariant == TextSpec => []TextInv
<1>1. TextInit => TextInv
    BY TextInvInit
<1>2. TextInv /\ [TextNext]_textVars => TextInv'
    BY TextInvStep, TextInvStutter DEF TextNext
<1> QED BY <1>1, <1>2, PTL DEF TextSpec

\* The state of the three readers keeps its types, whatever is typed.
THEOREM TextTypeCorrect == TextSpec => []TextTypeOK
<1>1. TextInv => TextTypeOK
    BY DEF TextInv
<1> QED BY <1>1, TextInvariant, PTL

\* What is not split is the one statement it would be split into.
LEMMA UnsplitIsSplit ==
    ASSUME OpeningAgrees, TextTypeOK, inner # "more"
    PROVE  <<Unsplit>> = (IF Statements = <<>> THEN <<"empty">> ELSE Statements)
<1>1. CASE inner = "none"
    BY <1>1 DEF OpeningAgrees, Unsplit, Statements, Ended, Kind
<1>2. CASE inner = "semicolon" /\ head.word # "none"
    <2>1. cut = <<>> /\ opening.word = head.word
        BY <1>2 DEF OpeningAgrees, NoWord
    <2>2. Statements = <<Kind(head)>> /\ Unsplit = Kind(opening)
        BY <1>2, <2>1 DEF Statements, Ended, Unsplit
    <2> QED BY <2>1, <2>2 DEF Kind
<1>3. CASE inner = "semicolon" /\ head.word = "none"
    <2>1. Statements = cut
        BY <1>3 DEF Statements, Ended
    <2>2. \/ cut = <<>> /\ opening.word = "none"
          \/ cut = <<Kind(opening)>> /\ opening.word # "none"
        BY <1>3 DEF OpeningAgrees
    <2> QED BY <2>1, <2>2 DEF Unsplit
<1> QED BY <1>1, <1>2, <1>3 DEF TextTypeOK

LEMMA SplitFromInv == TextInv => SplitAsMeant
<1> SUFFICES ASSUME TextInv, ~Misled
             PROVE  /\ Statements = Meant
                    /\ inner # "more" => <<Unsplit>> = (IF Meant = <<>> THEN <<"empty">> ELSE Meant)
    BY DEF SplitAsMeant
<1>1. Statements = Meant
    BY DEF TextInv, Agree, WordsAgree, Misled, Statements, Meant, Ended
<1> QED BY <1>1, UnsplitIsSplit DEF TextInv

LEMMA RewriteFromInv == TextInv => RewrittenAsMeant
BY DEF TextInv, Agree, RewrittenAsMeant

\* mod.rs:350-353, compat.rs:45-74: of every text that does not mislead it the gateway
\* runs the statements that were meant, and takes a prepared one for what it is.
THEOREM TextSplitAsMeant == TextSpec => []SplitAsMeant
BY SplitFromInv, TextInvariant, PTL

\* compat.rs:152-157: in every text that does not mislead it the gateway rewrites
\* exactly the names that are to be.
THEOREM TextRewrittenAsMeant == TextSpec => []RewrittenAsMeant
BY RewriteFromInv, TextInvariant, PTL
===============================================================================
