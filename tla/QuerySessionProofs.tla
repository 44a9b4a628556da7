-------------------------- MODULE QuerySessionProofs --------------------------
(***************************************************************************)
(* QuerySession for every bound, and any number of statements, rows and    *)
(* requests.                                                               *)
(***************************************************************************)
EXTENDS QuerySession, StatementTextProofs, SequenceTheorems

\* A text without a semicolon has one statement at most, and one with nothing
\* but blanks behind its semicolon has none behind it.
OneMeant ==
    /\ inner = "none" => meant = <<>>
    /\ inner = "semicolon" => meant = <<>> \/ (Len(meant) = 1 /\ token.word = "none")

ReadInv ==
    /\ TextInv
    /\ OneMeant
    /\ Len(cut) <= MaxStatements

\* What is still owed, by what was last sent.
OwedInv ==
    /\ last = "ready" <=> request = "none"
    /\ last \in {"ready", "error"} => statements = <<>> /\ responses = <<>>
    /\ request = "prepared" => responses = <<>> /\ last \in {"nothing", "error"}
    /\ request = "console" =>
           /\ last \in {"nothing", "answer", "error"}
           /\ last = "answer" => statements = <<>> /\ responses = <<>>
           /\ Len(statements) + Len(responses) <= 1
    /\ Len(statements) + Len(responses) <= MaxStatements + 1

\* Rows sent and rows to come make up the answer; the console's cursor may have
\* been told to stop.
RowsInv ==
    /\ responses = <<>> => got = 0
    /\ \A i \in 1 .. Len(responses) :
          /\ responses[i].total <= MaxRows
          /\ i # 1 => responses[i].left = responses[i].total
    /\ responses # <<>> =>
          First.left + got \in
              IF request = "console" THEN {First.total, Fetched(First.total)} ELSE {First.total}

ResultInv == AnsweredInFull /\ ConsoleIsHonest

SessionInv == SessionTypeOK /\ ReadInv /\ OwedInv /\ RowsInv /\ ResultInv
-------------------------------------------------------------------------------
(***************************************************************************)
(* The text.                                                               *)
(***************************************************************************)

\* Every step leaves the text alone, starts it over or types a symbol.
LEMMA TextSteps ==
    ASSUME [Next]_vars
    PROVE  \/ UNCHANGED textVars
           \/ TextReset
           \/ \E c \in Symbols : Type(c)
<1>1. CASE UNCHANGED vars
    BY <1>1 DEF vars
<1>2. CASE Typing
    BY <1>2 DEF Typing
<1>3. CASE SimpleQuery \/ Parse \/ Console \/ ConsoleRefuses
    BY <1>3 DEF SimpleQuery, Parse, Console, ConsoleRefuses, Begin
<1>4. CASE DescribeFails \/ ExecuteRefuses \/ Tick
    BY <1>4 DEF DescribeFails, ExecuteRefuses, Tick, Fails
<1>5. CASE Server
    BY <1>5 DEF Server, Execute, Acknowledge, Complete, Answered, ReadyForQuery, ConsoleAnswers,
            Answer, ConsoleTimesOut, ConsoleDone, Fails
<1>6. CASE Engine \/ ConsoleEngine
    BY <1>6 DEF Engine, ConsoleEngine, Plan, PlanFails, Batch, BatchFails, ConsolePlan,
            ConsoleBatch, ConsoleFails, Fails
<1> QED BY <1>1, <1>2, <1>3, <1>4, <1>5, <1>6 DEF Next

LEMMA ReadInit == TextInit => ReadInv
<1> SUFFICES ASSUME TextInit PROVE ReadInv
    OBVIOUS
<1>1. TextInv
    BY TextInvInit
<1>2. OneMeant /\ Len(cut) <= MaxStatements
    BY StatementTextAssumption DEF TextInit, OneMeant
<1> QED BY <1>1, <1>2 DEF ReadInv

\* A symbol keeps what the three readers agree on, and the count of statements.
LEMMA ReadType ==
    ASSUME ReadInv, NEW c \in Symbols, Type(c)
    PROVE  ReadInv'
<1>1. TextInv'
    BY TextInvStep DEF ReadInv
<1>2. TextTypeOK
    BY DEF ReadInv, TextInv
<1>3. Len(cut') <= MaxStatements
    <2>1. CASE ~Cuts(c)
        BY <2>1 DEF ReadInv, Type
    <2>2. CASE Cuts(c)
        <3>1. Len(cut) < MaxStatements /\ Len(cut) \in Nat
            BY <1>2, <2>2, LenProperties DEF Type, Typable, Cuts, TextTypeOK
        <3>2. Len(cut') \in {Len(cut), Len(cut) + 1}
            BY <1>2, <2>2, EndedType DEF Type, TextTypeOK
        <3> QED BY <3>1, <3>2, StatementTextAssumption
    <2> QED BY <2>1, <2>2
<1>4. OneMeant'
    <2>1. CASE inner' = "none"
        <3>1. inner = "none" /\ c # ";"
            BY <1>2, <2>1 DEF Type, TextTypeOK
        <3> QED BY <2>1, <3>1 DEF ReadInv, OneMeant, Type, Ends
    <2>2. CASE inner' = "semicolon" /\ inner = "none"
        <3>1. c = ";" /\ meant = <<>>
            BY <2>2 DEF ReadInv, OneMeant, Type
        <3>2. CASE Ends(c)
            <4>1. meant' = <<>> \/ Len(meant') = 1
                <5>1. meant' = Ended(meant, token) /\ Len(meant) = 0
                    BY <3>1, <3>2 DEF Type
                <5>2. meant' \in Seq(Kinds) /\ Len(meant') \in {0, 1}
                    <6>1. meant \in Seq(Kinds) /\ token \in FirstWords
                        BY <1>2 DEF TextTypeOK
                    <6>2. /\ Ended(meant, token) \in Seq(Kinds)
                          /\ Len(Ended(meant, token)) \in {Len(meant), Len(meant) + 1}
                        BY <6>1, EndedType
                    <6> QED BY <5>1, <6>2
                <5> QED BY <5>2, EmptySeq
            <4>2. token'.word = "none"
                BY <3>2 DEF Type, token_after, Ends, NoWord
            <4> QED BY <2>2, <4>1, <4>2 DEF OneMeant
        <3>3. CASE ~Ends(c)
            BY <2>2, <3>1, <3>3 DEF Type, OneMeant
        <3> QED BY <3>2, <3>3
    <2>3. CASE inner' = "semicolon" /\ inner # "none"
        <3>1. inner = "semicolon" /\ c \in Blanks
            BY <1>2, <2>3 DEF Type, TextTypeOK, Blanks
        <3>2. ~Ends(c) /\ meant' = meant
            BY <3>1 DEF Type, Ends, Blanks
        <3>3. token.word = "none" => token'.word = "none"
            BY <3>1, <3>2 DEF Type, token_after, NoWord
        <3> QED BY <2>3, <3>1, <3>2, <3>3 DEF ReadInv, OneMeant
    <2>4. CASE inner' = "more"
        BY <2>4 DEF OneMeant
    <2> QED BY <1>2, <2>1, <2>2, <2>3, <2>4 DEF Type, TextTypeOK
<1> QED BY <1>1, <1>3, <1>4 DEF ReadInv

LEMMA ReadStep ==
    ASSUME ReadInv, [Next]_vars
    PROVE  ReadInv'
<1>1. CASE UNCHANGED textVars
    BY <1>1, TextInvStutter DEF ReadInv, OneMeant, textVars
<1>2. CASE TextReset
    <2>1. TextInit'
        BY <1>2 DEF TextReset, TextInit
    <2> QED BY <2>1, ReadInit, PTL
<1>3. CASE \E c \in Symbols : Type(c)
    BY <1>3, ReadType
<1> QED BY <1>1, <1>2, <1>3, TextSteps

-------------------------------------------------------------------------------
(***************************************************************************)
(* The request.                                                            *)
(***************************************************************************)
RequestInv == SessionTypeOK /\ OwedInv /\ RowsInv /\ ResultInv

Queue == Kinds \cup {"empty"}

LEMMA StatementsType ==
    ASSUME TextTypeOK, Len(cut) <= MaxStatements
    PROVE  Statements \in Seq(Kinds) /\ Len(Statements) <= MaxStatements + 1
<1>1. cut \in Seq(Kinds) /\ head \in FirstWords
    BY DEF TextTypeOK
<1>2. Statements \in Seq(Kinds) /\ Len(Statements) \in {Len(cut), Len(cut) + 1}
    BY <1>1, EndedType DEF Statements
<1>3. Len(cut) \in Nat
    BY <1>1, LenProperties
<1> QED BY <1>2, <1>3, StatementTextAssumption

\* A new request owes one answer at least, and no more than the text has statements.
LEMMA BeginStep ==
    ASSUME SessionInv, TextTypeOK', NEW ss \in Seq(Queue), Len(ss) <= MaxStatements + 1,
           NEW kind \in {"simple", "prepared", "console"}, Begin(kind, ss),
           kind = "console" => Len(ss) <= 1,
           UNCHANGED <<timeout, responses, got, result>>, cap' \in 0 .. MaxCap
    PROVE  RequestInv'
<1>1. statements' \in Seq(Queue) /\ Len(statements') \in 1 .. MaxStatements + 1
    <2>1. CASE ss = <<>>
        <3>1. statements' = <<"empty">>
            BY <2>1 DEF Begin
        <3> QED BY <3>1, StatementTextAssumption DEF Queue
    <2>2. CASE ss # <<>>
        <3>1. statements' = ss /\ Len(ss) \in Nat \ {0}
            BY <2>2, EmptySeq DEF Begin
        <3> QED BY <3>1, StatementTextAssumption
    <2> QED BY <2>1, <2>2
<1>2. kind = "console" => Len(statements') <= 1
    <2>1. CASE ss = <<>>
        BY <2>1 DEF Begin
    <2>2. CASE ss # <<>>
        BY <2>2 DEF Begin
    <2> QED BY <2>1, <2>2
<1>3. responses = <<>> /\ got = 0 /\ Len(responses) = 0
    BY EmptySeq DEF Begin, SessionInv, OwedInv, RowsInv
<1>4. SessionTypeOK'
    <2>1. request' \in Requests /\ clock' = 0 /\ last' = "nothing"
        BY DEF Begin, Requests
    <2>2. statements' \in Seq(Kinds \cup {"empty"})
        BY <1>1 DEF Queue
    <2>3. 0 \in 0 .. MaxClock
        BY QuerySessionAssumption
    <2> QED BY <2>1, <2>2, <2>3 DEF SessionInv, SessionTypeOK
<1>5. OwedInv'
    BY <1>1, <1>2, <1>3 DEF Begin, OwedInv
<1>6. RowsInv'
    BY <1>3 DEF RowsInv
<1>7. ResultInv'
    BY DEF Begin, ResultInv, AnsweredInFull, ConsoleIsHonest
<1> QED BY <1>4, <1>5, <1>6, <1>7 DEF RequestInv

\* What fails is not answered, and neither is what comes after it.
LEMMA FailsStep ==
    ASSUME SessionInv, TextTypeOK', Fails, request # "none"
    PROVE  RequestInv'
<1>1. SessionTypeOK'
    BY QuerySessionAssumption DEF SessionInv, SessionTypeOK, Fails
<1>2. OwedInv' /\ RowsInv' /\ ResultInv'
    BY EmptySeq, StatementTextAssumption
    DEF SessionInv, Fails, OwedInv, RowsInv, ResultInv, AnsweredInFull, ConsoleIsHonest
<1> QED BY <1>1, <1>2 DEF RequestInv

\* The next request is not taken before all of the last one is answered.
LEMMA DoneStep ==
    ASSUME SessionInv, TextTypeOK', ReadyForQuery \/ ConsoleDone
    PROVE  RequestInv'
<1>1. statements = <<>> /\ responses = <<>> /\ got = 0 /\ request' = "none" /\ last' = "ready"
    BY DEF SessionInv, OwedInv, RowsInv, ReadyForQuery, ConsoleDone
<1>2. UNCHANGED <<timeout, statements, responses, got>> /\ result' = NoResult /\ clock' = 0
    BY DEF ReadyForQuery, ConsoleDone
<1>3. cap' \in 0 .. MaxCap
    BY QuerySessionAssumption DEF ReadyForQuery, ConsoleDone, SessionInv, SessionTypeOK
<1>4. SessionTypeOK'
    BY <1>1, <1>2, <1>3, QuerySessionAssumption
    DEF SessionInv, SessionTypeOK, Requests, NoResult
<1>5. OwedInv' /\ RowsInv' /\ ResultInv'
    BY <1>1, <1>2, EmptySeq, StatementTextAssumption
    DEF OwedInv, RowsInv, ResultInv, AnsweredInFull, ConsoleIsHonest, Wire
<1> QED BY <1>4, <1>5 DEF RequestInv

\* What stays as it was keeps its invariant.
LEMMA SameStep ==
    ASSUME SessionInv, TextTypeOK', UNCHANGED sessionVars
    PROVE  RequestInv'
<1>1. SessionTypeOK'
    BY DEF SessionInv, SessionTypeOK, sessionVars
<1>2. OwedInv'
    BY DEF SessionInv, OwedInv, sessionVars
<1>3. RowsInv'
    BY DEF SessionInv, RowsInv, sessionVars, First, Fetched, Min
<1>4. ResultInv'
    BY DEF SessionInv, ResultInv, AnsweredInFull, ConsoleIsHonest, sessionVars, Wire, Min
<1> QED BY <1>1, <1>2, <1>3, <1>4 DEF RequestInv

LEMMA TickStep ==
    ASSUME SessionInv, TextTypeOK', Tick
    PROVE  RequestInv'
<1>1. SessionTypeOK'
    BY QuerySessionAssumption DEF SessionInv, SessionTypeOK, Tick
<1>2. OwedInv'
    BY DEF SessionInv, OwedInv, Tick
<1>3. RowsInv'
    BY DEF SessionInv, RowsInv, Tick, First, Fetched, Min
<1>4. ResultInv'
    BY DEF SessionInv, ResultInv, AnsweredInFull, ConsoleIsHonest, Tick, Wire, Min
<1> QED BY <1>1, <1>2, <1>3, <1>4 DEF RequestInv

LEMMA ExecuteStep ==
    ASSUME SessionInv, TextTypeOK', Execute
    PROVE  RequestInv'
<1>1. SessionTypeOK'
    BY DEF SessionInv, SessionTypeOK, Execute, Requests
<1>2. OwedInv'
    BY DEF SessionInv, OwedInv, Execute
<1>3. RowsInv'
    BY EmptySeq DEF SessionInv, OwedInv, RowsInv, Execute
<1>4. ResultInv'
    BY DEF SessionInv, OwedInv, ResultInv, AnsweredInFull, ConsoleIsHonest, Execute
<1> QED BY <1>1, <1>2, <1>3, <1>4 DEF RequestInv
-------------------------------------------------------------------------------
(***************************************************************************)
(* Statements and their rows.                                              *)
(***************************************************************************)
LEMMA StartedType ==
    ASSUME SessionTypeOK, NEW k \in Queue, NEW r \in Started(k)
    PROVE  r \in Responses /\ r.left = r.total /\ r.total <= MaxRows
<1>1. Deadline \in SUBSET Nat
    BY QuerySessionAssumption DEF SessionTypeOK, Deadline
<1>2. {} \in SUBSET Nat
    OBVIOUS
<1>3. ASSUME NEW n \in 0 .. MaxRows, NEW d \in SUBSET Nat, r = Response(k, d, n, n)
      PROVE  r \in Responses /\ r.left = r.total /\ r.total <= MaxRows
    BY <1>3, QuerySessionAssumption DEF Response, Responses, Queue
<1>4. 0 \in 0 .. MaxRows /\ 1 \in 0 .. MaxRows
    BY QuerySessionAssumption
<1>5. CASE k \in {"set", "empty"}
    <2>1. r = Response(k, {}, 0, 0)
        BY <1>5 DEF Started
    <2> QED BY <1>2, <1>3, <1>4, <2>1
<1>6. CASE k = "show"
    <2>1. r = Response(k, Deadline, 1, 1)
        BY <1>6 DEF Started
    <2> QED BY <1>1, <1>3, <1>4, <2>1
<1>7. CASE k = "query"
    <2>1. PICK n \in 0 .. MaxRows : r = Response(k, Deadline, n, n)
        BY <1>7 DEF Started
    <2> QED BY <1>1, <1>3, <2>1
<1> QED BY <1>5, <1>6, <1>7 DEF Queue, Kinds, Keywords

\* A statement that starts has all its rows to come.
LEMMA PlanStep ==
    ASSUME SessionInv, TextTypeOK', Plan
    PROVE  RequestInv'
<1>1. statements \in Seq(Queue) /\ statements # <<>> /\ responses \in Seq(Responses)
    BY DEF SessionInv, SessionTypeOK, Plan, Queue
<1>2. /\ Head(statements) \in Queue
      /\ Tail(statements) \in Seq(Queue) /\ Len(Tail(statements)) = Len(statements) - 1
    BY <1>1, HeadTailProperties
<1>3. PICK r \in Started(Head(statements)) : responses' = Append(responses, r)
    BY DEF Plan
<1>4. r \in Responses /\ r.left = r.total /\ r.total <= MaxRows
    BY <1>2, StartedType DEF SessionInv
<1>5. /\ responses' \in Seq(Responses) /\ responses' # <<>>
      /\ Len(responses') = Len(responses) + 1
      /\ \A i \in 1 .. Len(responses) : responses'[i] = responses[i]
      /\ responses'[Len(responses) + 1] = r
    BY <1>1, <1>3, <1>4, AppendProperties
<1>6. statements' = Tail(statements) /\ Wire /\ UNCHANGED <<timeout, request, last, got, clock, cap, result>>
    BY DEF Plan
<1>7. Len(responses) \in Nat /\ Len(statements) \in Nat
    BY <1>1, LenProperties
<1>8. SessionTypeOK'
    BY <1>2, <1>5, <1>6 DEF SessionInv, SessionTypeOK, Queue
<1>9. OwedInv'
    <2>1. last \notin {"ready", "error"}
        BY <1>1 DEF SessionInv, OwedInv
    <2>2. Len(statements') + Len(responses') = Len(statements) + Len(responses)
        BY <1>2, <1>5, <1>6, <1>7
    <2> QED BY <1>6, <2>1, <2>2 DEF SessionInv, OwedInv, Wire
<1>10. RowsInv'
    <2>1. \A i \in 1 .. Len(responses') :
              responses'[i].total <= MaxRows /\ (i # 1 => responses'[i].left = responses'[i].total)
        <3> SUFFICES ASSUME NEW i \in 1 .. Len(responses')
                     PROVE  /\ responses'[i].total <= MaxRows
                            /\ i # 1 => responses'[i].left = responses'[i].total
            OBVIOUS
        <3>1. CASE i = Len(responses) + 1
            BY <1>4, <1>5, <3>1
        <3>2. CASE i \in 1 .. Len(responses)
            BY <1>5, <3>2 DEF SessionInv, RowsInv
        <3> QED BY <1>5, <1>7, <3>1, <3>2
    <2>2. request' # "console"
        BY <1>6 DEF Wire
    <2>3. First'.left + got' = First'.total
        <3>1. CASE responses = <<>>
            <4>1. First' = r /\ got' = 0
                BY <1>5, <1>6, <3>1, EmptySeq DEF First, SessionInv, RowsInv
            <4> QED BY <1>4, <4>1 DEF Responses
        <3>2. CASE responses # <<>>
            <4>1. First' = First
                BY <1>1, <1>5, <3>2, EmptySeq DEF First
            <4> QED BY <1>6, <3>2, <4>1 DEF SessionInv, RowsInv, Wire
        <3> QED BY <3>1, <3>2
    <2> QED BY <1>5, <2>1, <2>2, <2>3 DEF RowsInv
<1>11. ResultInv'
    BY <1>6 DEF SessionInv, ResultInv, AnsweredInFull, ConsoleIsHonest, Wire
<1> QED BY <1>8, <1>9, <1>10, <1>11 DEF RequestInv

\* An answer leaves the next response untouched.
LEMMA AnsweredStep ==
    ASSUME SessionInv, TextTypeOK', Replies,
           NEW r \in [total : Nat, got : Nat, cut : BOOLEAN, cap : Nat],
           r.got = r.total, Answered(r)
    PROVE  RequestInv'
<1>1. responses \in Seq(Responses) /\ responses # <<>> /\ statements = <<>> /\ Wire
    BY DEF SessionInv, SessionTypeOK, Replies
<1>2. /\ responses' \in Seq(Responses) /\ Len(responses') = Len(responses) - 1
      /\ \A i \in 1 .. Len(responses') : responses'[i] = responses[i + 1]
    BY <1>1, HeadTailProperties DEF Answered
<1>3. Len(responses) \in Nat /\ Len(responses') \in Nat
    BY <1>1, <1>2, LenProperties
<1>4. last' = "answer" /\ got' = 0 /\ result' = r /\ UNCHANGED <<timeout, request, statements, clock, cap>>
    BY DEF Answered
<1>5. SessionTypeOK'
    BY <1>2, <1>4, QuerySessionAssumption DEF SessionInv, SessionTypeOK
<1>6. OwedInv'
    BY <1>1, <1>2, <1>3, <1>4, StatementTextAssumption DEF SessionInv, OwedInv, Wire
<1>7. RowsInv'
    <2>1. ASSUME NEW i \in 1 .. Len(responses')
          PROVE  responses'[i].total <= MaxRows /\ responses'[i].left = responses'[i].total
        <3>1. i + 1 \in 1 .. Len(responses) /\ i + 1 # 1
            BY <1>2, <1>3
        <3> QED BY <1>2, <3>1 DEF SessionInv, RowsInv
    <2>2. responses' # <<>> => First'.left + got' = First'.total
        <3> SUFFICES ASSUME responses' # <<>> PROVE First'.left + got' = First'.total
            OBVIOUS
        <3>1. 1 \in 1 .. Len(responses')
            BY <1>2, EmptySeq
        <3>2. First' \in Responses
            BY <1>2, <3>1, ElementOfSeq DEF First
        <3> QED BY <1>4, <2>1, <3>1, <3>2 DEF First, Responses
    <2> QED BY <1>1, <1>4, <2>1, <2>2 DEF RowsInv, Wire
<1>8. ResultInv'
    BY <1>1, <1>4 DEF ResultInv, AnsweredInFull, ConsoleIsHonest, Wire
<1> QED BY <1>5, <1>6, <1>7, <1>8 DEF RequestInv

\* What a step of Acknowledge or Complete reports is complete.
LEMMA AnswerStep ==
    ASSUME SessionInv, TextTypeOK', Acknowledge \/ Complete
    PROVE  RequestInv'
<1>1. CASE Acknowledge
    <2>1. NoResult \in [total : Nat, got : Nat, cut : BOOLEAN, cap : Nat] /\ NoResult.got = NoResult.total
        BY DEF NoResult
    <2> QED BY <1>1, <2>1, AnsweredStep DEF Acknowledge
<1>2. CASE Complete
    <2> DEFINE r == [NoResult EXCEPT !.total = First.total, !.got = got]
    <2>1. responses # <<>> /\ First.left = 0 /\ request # "console"
        BY <1>2 DEF Complete, Replies, Wire
    <2>2. First \in Responses /\ got \in Nat
        <3>1. responses \in Seq(Responses) /\ 1 \in 1 .. Len(responses)
            BY <2>1, EmptySeq DEF SessionInv, SessionTypeOK
        <3> QED BY <3>1, ElementOfSeq, QuerySessionAssumption DEF First, SessionInv, SessionTypeOK
    <2>3. First.total = got
        BY <2>1, <2>2 DEF SessionInv, RowsInv, Responses
    <2>4. r \in [total : Nat, got : Nat, cut : BOOLEAN, cap : Nat] /\ r.got = r.total
        BY <2>2, <2>3 DEF NoResult, Responses
    <2> QED BY <1>2, <2>4, AnsweredStep DEF Complete
<1> QED BY <1>1, <1>2

\* Rows sent are rows the cursor no longer has.
LEMMA BatchStep ==
    ASSUME SessionInv, TextTypeOK', Batch \/ ConsoleBatch
    PROVE  RequestInv'
<1>1. responses \in Seq(Responses) /\ responses # <<>> /\ request \in {"simple", "executed", "console"}
    BY DEF SessionInv, SessionTypeOK, Batch, ConsoleBatch, Replies, Wire
<1>2. PICK n \in 1 .. First.left :
          responses' = [responses EXCEPT ![1].left = First.left - n] /\ got' = got + n
    BY DEF Batch, ConsoleBatch
<1>3. /\ UNCHANGED <<timeout, request, statements, clock, cap, result>>
      /\ last' = IF request = "console" THEN last ELSE "rows"
    BY DEF Batch, ConsoleBatch, Replies, Wire
<1>4. 1 \in 1 .. Len(responses) /\ First \in Responses
    BY <1>1, EmptySeq, ElementOfSeq DEF First
<1> DEFINE e == [First EXCEPT !.left = First.left - n]
<1>5. e \in Responses /\ e.total = First.total /\ e.left = First.left - n
    BY <1>4 DEF Responses
<1>6. /\ responses' \in Seq(Responses) /\ Len(responses') = Len(responses)
      /\ \A i \in 1 .. Len(responses) : responses'[i] = IF i = 1 THEN e ELSE responses[i]
    <2>1. responses' = [responses EXCEPT ![1] = e]
        BY <1>2 DEF First
    <2> QED BY <1>1, <1>4, <1>5, <2>1, ExceptSeq
<1>7. First' = e /\ responses' # <<>>
    BY <1>1, <1>4, <1>6, EmptySeq DEF First
<1>8. got \in Nat /\ First.left + got <= First.total /\ First.total <= MaxRows
    <2>1. got \in Nat /\ First.total <= MaxRows
        BY <1>4, QuerySessionAssumption DEF SessionInv, SessionTypeOK, RowsInv, First
    <2>2. cap \in Nat /\ First.total \in Nat /\ First.left \in Nat
        BY <1>4, QuerySessionAssumption DEF SessionInv, SessionTypeOK, Responses
    <2> QED BY <1>1, <2>1, <2>2 DEF SessionInv, RowsInv, Fetched, Min
<1>9. SessionTypeOK'
    <2>1. got' \in 0 .. MaxRows
        BY <1>2, <1>4, <1>8, QuerySessionAssumption DEF Responses
    <2> QED BY <1>3, <1>6, <2>1 DEF SessionInv, SessionTypeOK
<1>10. OwedInv'
    BY <1>1, <1>3, <1>6, <1>7 DEF SessionInv, OwedInv
<1>11. RowsInv'
    <2>1. First'.left + got' = First.left + got
        BY <1>2, <1>4, <1>5, <1>7, <1>8 DEF Responses
    <2>2. \A i \in 1 .. Len(responses') :
              responses'[i].total <= MaxRows /\ (i # 1 => responses'[i].left = responses'[i].total)
        BY <1>4, <1>5, <1>6, <1>8 DEF SessionInv, RowsInv
    <2> QED BY <1>1, <1>3, <1>5, <1>7, <2>1, <2>2 DEF SessionInv, RowsInv, Fetched, Min
<1>12. ResultInv'
    BY <1>1, <1>3 DEF SessionInv, OwedInv, ResultInv, AnsweredInFull, ConsoleIsHonest, Wire
<1> QED BY <1>9, <1>10, <1>11, <1>12 DEF RequestInv

-------------------------------------------------------------------------------
(***************************************************************************)
(* The console.                                                            *)
(***************************************************************************)
LEMMA ClampType ==
    ASSUME NEW limit \in Limits \cup {NoLimit}
    PROVE  Clamp(limit) \in 1 .. MaxCap
BY QuerySessionAssumption DEF Clamp, Min

LEMMA ConsolePlanStep ==
    ASSUME SessionInv, TextTypeOK', ConsolePlan
    PROVE  RequestInv'
<1>1. request = "console" /\ statements \in Seq(Queue) /\ statements # <<>>
    BY DEF SessionInv, SessionTypeOK, ConsolePlan, Queue
<1>2. Head(statements) \in Queue /\ Len(statements) \in Nat \ {0}
    BY <1>1, HeadTailProperties, EmptySeq
<1>3. responses = <<>> /\ got = 0
    <2>1. Len(responses) \in Nat /\ (responses # <<>> => Len(responses) # 0)
        BY EmptySeq, LenProperties DEF SessionInv, SessionTypeOK
    <2> QED BY <1>1, <1>2, <2>1 DEF SessionInv, OwedInv, RowsInv
<1>4. PICK n \in 0 .. MaxRows :
          \E left \in {n, Fetched(n)} : responses' = <<Response(Head(statements), {}, n, left)>>
    BY DEF ConsolePlan
<1>5. PICK left \in {n, Fetched(n)} : responses' = <<Response(Head(statements), {}, n, left)>>
    BY <1>4
<1>6. /\ statements' = <<>>
      /\ UNCHANGED <<timeout, request, last, got, clock, cap, result>>
    BY DEF ConsolePlan
<1>7. left \in Nat
    BY QuerySessionAssumption DEF SessionInv, SessionTypeOK, Fetched, Min
<1> DEFINE r == Response(Head(statements), {}, n, left)
<1>8. r \in Responses /\ r.total = n /\ r.left = left
    BY <1>2, <1>7, QuerySessionAssumption DEF Response, Responses, Queue
<1> HIDE DEF r
<1>9. responses' \in Seq(Responses) /\ Len(responses') = 1 /\ responses'[1] = r
    BY <1>5, <1>8 DEF r
<1>10. SessionTypeOK'
    BY <1>6, <1>9 DEF SessionInv, SessionTypeOK
<1>11. OwedInv'
    BY <1>1, <1>2, <1>6, <1>9, StatementTextAssumption DEF SessionInv, OwedInv
<1>12. RowsInv'
    <2>1. First' = r
        BY <1>9 DEF First
    <2>2. First'.left + got' \in {First'.total, Min(First'.total, cap' + 1)}
        <3>1. First'.left + got' = left /\ First'.total = n
            BY <1>3, <1>6, <1>7, <1>8, <2>1
        <3> QED BY <1>6, <3>1 DEF Fetched
    <2>3. responses' # <<>>
        BY <1>9
    <2>4. request' = "console" /\ First'.total <= MaxRows
        BY <1>1, <1>6, <1>8, <2>1
    <2> QED BY <1>9, <2>1, <2>2, <2>3, <2>4 DEF RowsInv, Fetched
<1>13. ResultInv'
    BY <1>1, <1>2, <1>6 DEF SessionInv, OwedInv, ResultInv, AnsweredInFull, ConsoleIsHonest, Wire
<1> QED BY <1>10, <1>11, <1>12, <1>13 DEF RequestInv

\* The row past the cap is the only one that is not shown, and tells of the others.
LEMMA ConsoleAnswersStep ==
    ASSUME SessionInv, TextTypeOK', ConsoleAnswers
    PROVE  RequestInv'
<1> DEFINE r == [total |-> First.total, got |-> Min(got, cap), cut |-> got > cap, cap |-> cap]
<1>1. /\ request = "console" /\ responses # <<>> /\ First.left = 0
      /\ last' = "answer" /\ statements' = <<>> /\ responses' = <<>> /\ got' = 0 /\ result' = r
      /\ UNCHANGED <<timeout, request, clock, cap>>
    BY DEF ConsoleAnswers, Answer
<1>2. First \in Responses /\ got \in Nat /\ cap \in Nat
    <2>1. responses \in Seq(Responses) /\ 1 \in 1 .. Len(responses)
        BY <1>1, EmptySeq DEF SessionInv, SessionTypeOK
    <2> QED BY <2>1, ElementOfSeq, QuerySessionAssumption DEF First, SessionInv, SessionTypeOK
<1>3. got \in {First.total, Min(First.total, cap + 1)}
    BY <1>1, <1>2 DEF SessionInv, RowsInv, Fetched, Responses, Min
<1>4. Min(got, cap) \in Nat
    BY <1>2 DEF Min
<1>5. r \in [total : Nat, got : Nat, cut : BOOLEAN, cap : Nat]
    BY <1>2, <1>4 DEF Responses
<1>6. /\ r.total \in Nat /\ r.cap = cap
      /\ r.got = Min(r.total, r.cap)
      /\ r.cut <=> r.total > r.cap
    <2>1. First.total \in Nat
        BY <1>2 DEF Responses
    <2>2. Min(got, cap) = Min(First.total, cap) /\ (got > cap <=> First.total > cap)
        BY <1>2, <1>3, <2>1 DEF Min
    <2> QED BY <2>1, <2>2
<1> HIDE DEF r
<1>7. SessionTypeOK'
    BY <1>1, <1>5, QuerySessionAssumption DEF SessionInv, SessionTypeOK
<1>8. OwedInv' /\ RowsInv'
    BY <1>1, EmptySeq, StatementTextAssumption DEF SessionInv, OwedInv, RowsInv
<1>9. ResultInv'
    BY <1>1, <1>6 DEF ResultInv, AnsweredInFull, ConsoleIsHonest, Wire, Min
<1> QED BY <1>7, <1>8, <1>9 DEF RequestInv

LEMMA ConsoleStep ==
    ASSUME SessionInv, TextTypeOK', Console
    PROVE  RequestInv'
<1>1. PICK limit \in Limits \cup {NoLimit} : cap' = Clamp(limit)
    BY DEF Console
<1>2. cap' \in 0 .. MaxCap
    BY <1>1, ClampType, QuerySessionAssumption
<1>3. Statements \in Seq(Kinds) /\ Statements # <<>>
    BY StatementsType DEF Console, Admits, SessionInv, SessionTypeOK, ReadInv
<1>4. Statements[1] \in Kinds
    BY <1>3, EmptySeq, ElementOfSeq
<1>5. <<Statements[1]>> \in Seq(Queue) /\ Len(<<Statements[1]>>) = 1
    BY <1>4 DEF Queue
<1> DEFINE ss == <<Statements[1]>>
<1>6. /\ Begin("console", ss) /\ UNCHANGED <<timeout, responses, got, result>>
      /\ ss \in Seq(Queue) /\ Len(ss) <= MaxStatements + 1 /\ Len(ss) <= 1
    BY <1>5, StatementTextAssumption DEF Console
<1> HIDE DEF ss
<1> QED
    BY <1>2, <1>6, BeginStep
-------------------------------------------------------------------------------
(***************************************************************************)
(* The theorems.                                                           *)
(***************************************************************************)
LEMMA SessionInvInit ==
    ASSUME SessionInit
    PROVE  SessionInv
<1>1. ReadInv
    BY ReadInit DEF SessionInit
<1>2. SessionTypeOK
    BY <1>1, EmptySeq, QuerySessionAssumption
    DEF SessionInit, SessionTypeOK, Requests, NoResult, ReadInv, TextInv
<1>3. OwedInv /\ RowsInv /\ ResultInv
    BY EmptySeq, StatementTextAssumption
    DEF SessionInit, OwedInv, RowsInv, ResultInv, AnsweredInFull, ConsoleIsHonest
<1> QED BY <1>1, <1>2, <1>3 DEF SessionInv

LEMMA SessionInvStep ==
    ASSUME SessionInv, [Next]_vars
    PROVE  SessionInv'
<1>1. ReadInv'
    BY ReadStep DEF SessionInv
<1>2. TextTypeOK'
    BY <1>1 DEF ReadInv, TextInv
<1> SUFFICES RequestInv'
    BY <1>1 DEF RequestInv, SessionInv
<1>3. Statements \in Seq(Queue) /\ Len(Statements) <= MaxStatements + 1
    BY StatementsType DEF SessionInv, SessionTypeOK, ReadInv, Queue
<1>4. CASE UNCHANGED sessionVars
    BY <1>2, <1>4, SameStep
<1>5. CASE SimpleQuery
    <2>1. UNCHANGED <<timeout, responses, got, cap, result>> /\ Begin("simple", Statements)
        BY <1>5 DEF SimpleQuery
    <2>2. cap' \in 0 .. MaxCap
        BY <2>1 DEF SessionInv, SessionTypeOK
    <2> QED BY <1>2, <1>3, <2>1, <2>2, BeginStep
<1>6. CASE Parse
    <2>1. UNCHANGED <<timeout, responses, got, cap, result>> /\ Begin("prepared", <<Unsplit>>)
        BY <1>6 DEF Parse
    <2>2. cap' \in 0 .. MaxCap
        BY <2>1 DEF SessionInv, SessionTypeOK
    <2>3. Unsplit \in Queue
        BY DEF Unsplit, Kind, Queue, Kinds
    <2> HIDE DEF Unsplit
    <2>4. <<Unsplit>> \in Seq(Queue) /\ Len(<<Unsplit>>) <= MaxStatements + 1
        BY <2>3, StatementTextAssumption
    <2> QED BY <1>2, <2>1, <2>2, <2>4, BeginStep
<1>7. CASE Console
    BY <1>2, <1>7, ConsoleStep
<1>8. CASE Fails /\ request # "none"
    BY <1>2, <1>8, FailsStep
<1>9. CASE Plan \/ Execute \/ Tick
    BY <1>2, <1>9, PlanStep, ExecuteStep, TickStep
<1>10. CASE Acknowledge \/ Complete \/ Batch \/ ConsoleBatch
    BY <1>2, <1>10, AnswerStep, BatchStep
<1>11. CASE ReadyForQuery \/ ConsoleDone
    BY <1>2, <1>11, DoneStep
<1>12. CASE ConsolePlan \/ ConsoleAnswers
    BY <1>2, <1>12, ConsolePlanStep, ConsoleAnswersStep
<1> QED
    BY <1>4, <1>5, <1>6, <1>7, <1>8, <1>9, <1>10, <1>11, <1>12
    DEF vars, Next, Server, Engine, ConsoleEngine, Typing, ConsoleRefuses, PlanFails, BatchFails,
        DescribeFails, ExecuteRefuses, ConsoleFails, ConsoleTimesOut, Replies, Wire

THEOREM SessionInvariant == SessionSpec => []SessionInv
<1>1. SessionInit => SessionInv
    BY SessionInvInit
<1>2. SessionInv /\ [Next]_vars => SessionInv'
    BY SessionInvStep
<1> QED BY <1>1, <1>2, PTL DEF SessionSpec

\* The session's state keeps its types, for every setting and any requests.
THEOREM SessionTypeCorrect == SessionSpec => []SessionTypeOK
<1>1. SessionInv => SessionTypeOK
    BY DEF SessionInv
<1> QED BY <1>1, SessionInvariant, PTL

\* mod.rs:350-353: request after request, the statements run are those meant, unless
\* the text misleads the gateway.
THEOREM SessionSplitAsMeant == SessionSpec => []SplitAsMeant
<1>1. SessionInv => SplitAsMeant
    BY SplitFromInv DEF SessionInv, ReadInv
<1> QED BY <1>1, SessionInvariant, PTL

\* compat.rs:152-157: likewise, the names rewritten are those that are to be.
THEOREM SessionRewrittenAsMeant == SessionSpec => []RewrittenAsMeant
<1>1. SessionInv => RewrittenAsMeant
    BY RewriteFromInv DEF SessionInv, ReadInv
<1> QED BY <1>1, SessionInvariant, PTL

\* mod.rs:84-98: a statement reported complete on the wire has sent every row.
THEOREM SessionAnsweredInFull == SessionSpec => []AnsweredInFull
<1>1. SessionInv => AnsweredInFull
    BY DEF SessionInv, ResultInv
<1> QED BY <1>1, SessionInvariant, PTL

\* http/mod.rs:235-239: the console never runs two statements, whatever the text.
THEOREM SessionConsoleRunsOne == SessionSpec => []ConsoleRunsOne
<1>1. SessionInv => ConsoleRunsOne
    <2> SUFFICES ASSUME SessionInv, Admits PROVE Len(Meant) <= 1
        BY DEF ConsoleRunsOne
    <2>1. TextTypeOK
        BY DEF SessionInv, SessionTypeOK
    <2>2. inner \in {"none", "semicolon"} /\ meant \in Seq(Kinds) /\ token \in FirstWords
        BY <2>1 DEF TextTypeOK, Admits
    <2>3. Len(Meant) \in {Len(meant), Len(meant) + 1}
        BY <2>2, EndedType DEF Meant
    <2>4. token.word = "none" => Meant = meant
        BY DEF Meant, Ended
    <2>5. meant = <<>> \/ (Len(meant) = 1 /\ token.word = "none")
        BY <2>2 DEF SessionInv, ReadInv, OneMeant
    <2>6. CASE meant = <<>>
        <3>1. Len(meant) = 0
            BY <2>6
        <3> QED BY <2>3, <3>1
    <2>7. CASE Len(meant) = 1 /\ token.word = "none"
        <3>1. Meant = meant
            BY <2>4, <2>7
        <3>2. Len(Meant) = 1
            BY <2>7, <3>1, Zenon
        <3> QED BY <3>2
    <2> QED BY <2>5, <2>6, <2>7
<1> QED BY <1>1, SessionInvariant, PTL

\* http/mod.rs:269, 280: the console shows all rows, or its cap and a note.
THEOREM SessionConsoleIsHonest == SessionSpec => []ConsoleIsHonest
<1>1. SessionInv => ConsoleIsHonest
    BY DEF SessionInv, ResultInv
<1> QED BY <1>1, SessionInvariant, PTL
-------------------------------------------------------------------------------
(***************************************************************************)
(* Every step of a session is one of ReplyStream, or none of its own.      *)
(***************************************************************************)
OwedOK ==
    /\ Len(statements) \in Nat /\ Len(responses) \in Nat
    /\ statements # <<>> => Len(statements) > 0
    /\ responses # <<>> => Len(responses) > 0
    /\ Owed \in 0 .. MaxStatements + 1
    /\ Owed > 0 => Sent \in {"nothing", "rows", "answer"}

LEMMA OwedType == SessionInv => OwedOK
<1> SUFFICES ASSUME SessionInv PROVE OwedOK
    OBVIOUS
<1>1. statements \in Seq(Queue) /\ responses \in Seq(Responses)
    BY DEF SessionInv, SessionTypeOK, Queue
<1>2. /\ Len(statements) \in Nat /\ (statements # <<>> => Len(statements) > 0)
      /\ Len(responses) \in Nat /\ (responses # <<>> => Len(responses) > 0)
    BY <1>1, EmptySeq, LenProperties
<1>3. Owed \in 0 .. MaxStatements + 1
    BY <1>2, StatementTextAssumption DEF SessionInv, OwedInv, Owed
<1>4. ASSUME Owed > 0 PROVE Sent \in {"nothing", "rows", "answer"}
    <2>1. request # "console" /\ (statements # <<>> \/ responses # <<>>)
        BY <1>4, EmptySeq DEF Owed
    <2> QED BY <2>1 DEF SessionInv, SessionTypeOK, OwedInv, Sent
<1> QED BY <1>2, <1>3, <1>4 DEF OwedOK

LEMMA FailMaps ==
    ASSUME SessionInv, Fails, request # "console", statements # <<>> \/ responses # <<>>
    PROVE  Replying!Fail
<1>1. Owed > 0
    BY OwedType DEF Owed, OwedOK
<1>2. Owed' = 0 /\ Sent' = "error"
    BY EmptySeq DEF Fails, Owed, Sent
<1> QED BY <1>1, <1>2, OwedType DEF OwedOK, Replying!Fail

LEMMA RequestMaps ==
    ASSUME SessionInv, SessionInv', SimpleQuery \/ Parse
    PROVE  Replying!Request
<1>1. request' \in {"simple", "prepared"} /\ last' = "nothing" /\ request = "none"
    BY DEF SimpleQuery, Parse, Begin
<1>2. Sent = "ready" /\ Sent' = "nothing"
    BY <1>1 DEF Sent, SessionInv, OwedInv
<1>3. statements' # <<>>
    BY DEF SimpleQuery, Parse, Begin
<1>4. Owed' \in 1 .. MaxStatements + 1
    <2>1. OwedOK'
        BY OwedType, PTL
    <2>2. Owed' \in 0 .. MaxStatements + 1 /\ Len(statements') > 0 /\ Len(responses') \in Nat
        BY <1>3, <2>1 DEF OwedOK
    <2> QED BY <1>1, <2>2, StatementTextAssumption DEF Owed
<1> QED BY <1>2, <1>4 DEF Replying!Request

LEMMA AnswerMaps ==
    ASSUME SessionInv, Replies, NEW r, Answered(r)
    PROVE  Replying!Answer
<1>1. responses \in Seq(Responses) /\ responses # <<>> /\ request # "console" /\ statements = <<>>
    BY DEF SessionInv, SessionTypeOK, Replies, Wire
<1>2. Len(responses') = Len(responses) - 1
    BY <1>1, HeadTailProperties DEF Answered
<1>3. Owed > 0 /\ Owed' = Owed - 1 /\ Sent' = "answer"
    BY <1>1, <1>2, OwedType, EmptySeq DEF Answered, Owed, OwedOK, Sent
<1> QED BY <1>3, OwedType DEF OwedOK, Replying!Answer

LEMMA RowsMap ==
    ASSUME SessionInv, SessionInv', Batch
    PROVE  Replying!Rows
<1>1. responses \in Seq(Responses) /\ responses # <<>> /\ request # "console"
    BY DEF SessionInv, SessionTypeOK, Batch, Replies, Wire
<1>2. PICK n \in 1 .. First.left : responses' = [responses EXCEPT ![1].left = First.left - n]
    BY DEF Batch
<1>3. Len(responses') = Len(responses)
    <2>1. responses' \in Seq(Responses)
        BY DEF SessionInv, SessionTypeOK
    <2>2. DOMAIN responses' = DOMAIN responses
        BY <1>2
    <2> QED BY <1>1, <2>1, <2>2, LenProperties
<1>4. Owed > 0 /\ Owed' = Owed /\ Sent' = "rows"
    BY <1>1, <1>3, OwedType DEF Batch, Owed, OwedOK, Sent
<1> QED BY <1>4, OwedType DEF OwedOK, Replying!Rows

LEMMA ReadyMaps ==
    ASSUME SessionInv, ReadyForQuery
    PROVE  Replying!Ready
BY EmptySeq DEF ReadyForQuery, Owed, Sent, Replying!Ready

\* Planning, preparing and all the console does are not seen.
LEMMA SilentSteps ==
    ASSUME SessionInv, SessionInv',
           \/ UNCHANGED sessionVars
           \/ Plan \/ Execute \/ Tick \/ Console \/ ConsoleDone
           \/ request = "console" /\ request' = "console"
    PROVE  UNCHANGED <<Owed, Sent>>
<1>1. CASE UNCHANGED sessionVars
    BY <1>1 DEF sessionVars, Owed, Sent
<1>2. CASE Plan
    <2>1. statements \in Seq(Queue) /\ statements # <<>> /\ responses \in Seq(Responses)
        BY <1>2 DEF SessionInv, SessionTypeOK, Plan, Queue
    <2>2. Len(statements') = Len(statements) - 1
        BY <1>2, <2>1, HeadTailProperties DEF Plan
    <2>3. PICK r \in Started(Head(statements)) : responses' = Append(responses, r)
        BY <1>2 DEF Plan
    <2>4. r \in Responses
        BY <2>1, HeadTailProperties, StartedType DEF SessionInv
    <2>5. Len(responses') = Len(responses) + 1
        BY <2>1, <2>3, <2>4, AppendProperties
    <2> QED BY <1>2, <2>2, <2>5, OwedType DEF Plan, Owed, Sent, OwedOK
<1>3. CASE Execute \/ Tick
    BY <1>3 DEF Execute, Tick, Owed, Sent
<1>4. CASE Console
    BY <1>4, EmptySeq DEF Console, Begin, Owed, Sent, SessionInv, OwedInv
<1>5. CASE ConsoleDone
    BY <1>5, EmptySeq DEF ConsoleDone, Owed, Sent, SessionInv, OwedInv
<1>6. CASE request = "console" /\ request' = "console"
    BY <1>6 DEF Owed, Sent
<1> QED BY <1>1, <1>2, <1>3, <1>4, <1>5, <1>6

LEMMA StepMaps ==
    ASSUME SessionInv, SessionInv', [Next]_vars
    PROVE  [Replying!Next]_<<Owed, Sent>>
<1>1. CASE UNCHANGED vars \/ Typing \/ ConsoleRefuses
    BY <1>1, SilentSteps DEF vars, Typing, ConsoleRefuses
<1>2. CASE SimpleQuery \/ Parse
    BY <1>2, RequestMaps DEF Replying!Next
<1>3. CASE Console \/ Plan \/ Execute \/ Tick \/ ConsoleDone
    BY <1>3, SilentSteps
<1>4. CASE DescribeFails \/ ExecuteRefuses \/ PlanFails
    BY <1>4, FailMaps DEF DescribeFails, ExecuteRefuses, PlanFails, Wire, Replying!Next
<1>5. CASE BatchFails
    BY <1>5, FailMaps DEF BatchFails, Replies, Wire, Replying!Next
<1>6. CASE Acknowledge \/ Complete
    BY <1>6, AnswerMaps DEF Acknowledge, Complete, Replying!Next
<1>7. CASE Batch
    BY <1>7, RowsMap DEF Replying!Next
<1>8. CASE ReadyForQuery
    BY <1>8, ReadyMaps DEF Replying!Next
<1>9. CASE ConsoleAnswers \/ ConsoleTimesOut \/ ConsoleEngine
    BY <1>9, SilentSteps
    DEF ConsoleAnswers, Answer, ConsoleTimesOut, ConsoleEngine, ConsolePlan, ConsoleBatch,
        ConsoleFails, Fails
<1> QED
    BY <1>1, <1>2, <1>3, <1>4, <1>5, <1>6, <1>7, <1>8, <1>9 DEF Next, Server, Engine

\* mod.rs:136-148, 82-110: the replies of the gateway are a ReplyStream, but for the
\* fairness of RepliesInOrder: each statement is answered once and in order, and
\* after an error nothing more is sent.
THEOREM SessionRepliesInOrder ==
    SessionSpec => Replying!Init /\ [][Replying!Next]_<<Owed, Sent>>
<1>1. SessionInit => Replying!Init
    BY EmptySeq DEF SessionInit, Replying!Init, Owed, Sent
<1>2. SessionInv /\ SessionInv' /\ [Next]_vars => [Replying!Next]_<<Owed, Sent>>
    BY StepMaps
<1> QED BY <1>1, <1>2, SessionInvariant, PTL DEF SessionSpec
-------------------------------------------------------------------------------
(***************************************************************************)
(* A request does not go on for ever, nor stop: what EveryRequestAnswered  *)
(* rests on, but for fairness.                                             *)
(***************************************************************************)

\* How far the request is from its end: to be executed, answered or read.
Stage ==
    IF request = "none" THEN 0
    ELSE IF statements = <<>> /\ responses = <<>> THEN 1
    ELSE IF request = "prepared" THEN 3 ELSE 2

Left == IF responses = <<>> THEN 0 ELSE First.left

\* What is left to do, the most significant first.
Work == <<Stage, Len(statements), Len(responses), Left>>

WorkFalls ==
    \E i \in 1 .. 4 : Work'[i] < Work[i] /\ \A j \in 1 .. i - 1 : Work'[j] = Work[j]

\* A request that owes nothing has been answered, or has failed.
EndedInv == request # "none" /\ statements = <<>> /\ responses = <<>> => last \in {"answer", "error"}

WorkInv == SessionInv /\ EndedInv

\* What the guards ask of the actions that go on.
CanExecute == request = "prepared" /\ statements # <<>>
CanPlan == Wire /\ statements # <<>>
CanReply ==
    /\ Replies
    /\ \/ First.kind \in {"set", "empty"}
       \/ First.kind \notin {"set", "empty"} /\ First.left = 0
       \/ First.left > 0
CanCollect ==
    /\ request = "console" /\ last = "nothing"
    /\ \/ statements # <<>>
       \/ responses # <<>> /\ First.left = 0
       \/ responses # <<>> /\ First.left > 0
CanEnd == statements = <<>> /\ responses = <<>> /\ last \in {"answer", "error"}

NoRequestIsStuck ==
    request # "none" => CanExecute \/ CanPlan \/ CanReply \/ CanCollect \/ CanEnd
LEMMA WorkIsNatural ==
    ASSUME SessionInv
    PROVE  Stage \in Nat /\ Len(statements) \in Nat /\ Len(responses) \in Nat /\ Left \in Nat
<1>1. responses # <<>> => First.left \in Nat
    <2> SUFFICES ASSUME responses # <<>> PROVE First.left \in Nat
        OBVIOUS
    <2>1. responses \in Seq(Responses) /\ 1 \in 1 .. Len(responses)
        BY EmptySeq DEF SessionInv, SessionTypeOK
    <2>2. First \in Responses
        BY <2>1, ElementOfSeq DEF First
    <2> QED BY <2>2 DEF Responses
<1> QED BY <1>1, OwedType DEF OwedOK, Stage, Left

\* Where the first of the four that changes falls, the work does.
LEMMA FallsFirst ==
    ASSUME \/ Stage' < Stage
           \/ Stage' = Stage /\ Len(statements)' < Len(statements)
           \/ /\ Stage' = Stage /\ Len(statements)' = Len(statements)
              /\ Len(responses)' < Len(responses)
           \/ /\ Stage' = Stage /\ Len(statements)' = Len(statements)
              /\ Len(responses)' = Len(responses) /\ Left' < Left
    PROVE  WorkFalls
<1>1. CASE Stage' < Stage
    BY <1>1 DEF WorkFalls, Work
<1>2. CASE Stage' = Stage /\ Len(statements)' < Len(statements)
    BY <1>2 DEF WorkFalls, Work
<1>3. CASE /\ Stage' = Stage /\ Len(statements)' = Len(statements)
           /\ Len(responses)' < Len(responses)
    BY <1>3 DEF WorkFalls, Work
<1>4. CASE /\ Stage' = Stage /\ Len(statements)' = Len(statements)
           /\ Len(responses)' = Len(responses) /\ Left' < Left
    BY <1>4 DEF WorkFalls, Work
<1> QED BY <1>1, <1>2, <1>3, <1>4

\* A batch leaves a response in its place, with fewer rows to come.
LEMMA BatchShrinks ==
    ASSUME SessionInv, Batch \/ ConsoleBatch
    PROVE  /\ responses # <<>> /\ responses' # <<>> /\ UNCHANGED statements
           /\ Len(responses') = Len(responses) /\ First'.left < First.left
<1>1. responses \in Seq(Responses) /\ responses # <<>> /\ UNCHANGED statements
    BY DEF SessionInv, SessionTypeOK, Batch, ConsoleBatch, Replies
<1>2. PICK n \in 1 .. First.left : responses' = [responses EXCEPT ![1].left = First.left - n]
    BY DEF Batch, ConsoleBatch
<1>3. 1 \in 1 .. Len(responses) /\ First \in Responses
    BY <1>1, EmptySeq, ElementOfSeq DEF First
<1> DEFINE e == [First EXCEPT !.left = First.left - n]
<1>4. e \in Responses /\ e.left = First.left - n
    BY <1>3 DEF Responses
<1>5. responses' = [responses EXCEPT ![1] = e]
    BY <1>2 DEF First
<1> HIDE DEF e
<1>6. /\ responses' \in Seq(Responses) /\ Len(responses') = Len(responses)
      /\ \A i \in 1 .. Len(responses) : responses'[i] = IF i = 1 THEN e ELSE responses[i]
    BY <1>1, <1>3, <1>4, <1>5, ExceptSeq
<1>7. First' = e /\ responses' # <<>>
    BY <1>1, <1>3, <1>6, EmptySeq DEF First
<1>8. First'.left < First.left
    BY <1>3, <1>4, <1>7 DEF Responses
<1> QED BY <1>1, <1>6, <1>7, <1>8

LEMMA EndedInvStep ==
    ASSUME SessionInv, EndedInv, SessionInv', [Next]_vars
    PROVE  EndedInv'
<1>1. CASE UNCHANGED sessionVars
    BY <1>1 DEF EndedInv, sessionVars
<1>2. CASE SimpleQuery \/ Parse \/ Console
    <2>1. statements' # <<>>
        BY <1>2 DEF SimpleQuery, Parse, Console, Begin
    <2> QED BY <2>1 DEF EndedInv
<1>3. CASE Fails
    BY <1>3 DEF Fails, EndedInv
<1>4. CASE Plan
    <2>1. PICK r \in Started(Head(statements)) : responses' = Append(responses, r)
        BY <1>4 DEF Plan
    <2>2. responses \in Seq(Responses) /\ statements \in Seq(Queue) /\ statements # <<>>
        BY <1>4 DEF SessionInv, SessionTypeOK, Plan, Queue
    <2>3. r \in Responses
        BY <2>2, HeadTailProperties, StartedType DEF SessionInv
    <2>4. responses' # <<>>
        BY <2>1, <2>2, <2>3, AppendProperties
    <2> QED BY <2>4 DEF EndedInv
<1>5. CASE Execute \/ Tick
    BY <1>5 DEF Execute, Tick, EndedInv
<1>6. CASE Acknowledge \/ Complete
    BY <1>6 DEF Acknowledge, Complete, Answered, EndedInv
<1>7. CASE Batch \/ ConsoleBatch
    BY <1>7, BatchShrinks DEF EndedInv
<1>8. CASE ReadyForQuery \/ ConsoleDone
    BY <1>8 DEF ReadyForQuery, ConsoleDone, EndedInv
<1>9. CASE ConsolePlan
    <2>1. responses' # <<>>
        BY <1>9 DEF ConsolePlan
    <2> QED BY <2>1 DEF EndedInv
<1>10. CASE ConsoleAnswers
    BY <1>10 DEF ConsoleAnswers, Answer, EndedInv
<1> QED
    BY <1>1, <1>2, <1>3, <1>4, <1>5, <1>6, <1>7, <1>8, <1>9, <1>10
    DEF vars, Next, Server, Engine, ConsoleEngine, Typing, ConsoleRefuses, PlanFails, BatchFails,
        DescribeFails, ExecuteRefuses, ConsoleFails, ConsoleTimesOut

LEMMA WorkInvariant == SessionSpec => []WorkInv
<1>1. SessionInit => EndedInv
    BY DEF SessionInit, EndedInv
<1>2. SessionInv /\ EndedInv /\ SessionInv' /\ [Next]_vars => EndedInv'
    BY EndedInvStep
<1> QED BY <1>1, <1>2, SessionInvariant, PTL DEF SessionSpec, WorkInv

LEMMA StepCounts ==
    ASSUME WorkInv, WorkInv', Next, request # "none"
    PROVE  (Tick /\ UNCHANGED Work) \/ WorkFalls
<1>1. /\ SessionInv /\ SessionInv' /\ EndedInv /\ EndedInv'
      /\ statements \in Seq(Queue) /\ responses \in Seq(Responses)
      /\ request \in Requests
    BY DEF WorkInv, SessionInv, SessionTypeOK, Queue
<1>2. CASE Tick
    BY <1>2 DEF Tick, Work, Stage, Left, First
<1>3. CASE Fails /\ (statements # <<>> \/ responses # <<>>)
    <2>1. Stage' = 1 /\ Stage \in {2, 3}
        BY <1>3 DEF Fails, Stage
    <2> QED BY <2>1, FallsFirst
<1>4. CASE Execute
    <2>1. Stage' = 2 /\ Stage = 3
        BY <1>4 DEF Execute, Stage
    <2> QED BY <2>1, FallsFirst
<1>5. CASE Plan
    <2>1. statements # <<>> /\ Stage = 2 /\ Len(statements)' < Len(statements)
        BY <1>1, <1>5, HeadTailProperties DEF Plan, Wire, Stage
    <2>2. Stage' \in {1, 2}
        BY <1>5 DEF Plan, Wire, Stage
    <2> QED BY <2>1, <2>2, FallsFirst
<1>6. CASE Acknowledge \/ Complete
    <2>1. /\ responses # <<>> /\ Wire /\ UNCHANGED <<request, statements>>
          /\ responses' = Tail(responses)
        BY <1>6 DEF Acknowledge, Complete, Replies, Answered
    <2>2. Len(responses)' < Len(responses)
        BY <1>1, <2>1, HeadTailProperties
    <2>3. Stage = 2 /\ Stage' \in {1, 2}
        BY <2>1 DEF Wire, Stage
    <2> QED BY <2>1, <2>2, <2>3, FallsFirst
<1>7. CASE Batch \/ ConsoleBatch
    <2>1. /\ responses # <<>> /\ responses' # <<>> /\ UNCHANGED statements
          /\ Len(responses') = Len(responses) /\ First'.left < First.left
        BY <1>1, <1>7, BatchShrinks
    <2>2. UNCHANGED request
        BY <1>7 DEF Batch, ConsoleBatch
    <2>3. Stage' = Stage
        BY <2>1, <2>2 DEF Stage
    <2>4. Left' < Left
        BY <2>1 DEF Left
    <2>5. Len(statements)' = Len(statements) /\ Len(responses)' = Len(responses)
        BY <2>1
    <2> QED BY <2>3, <2>4, <2>5, FallsFirst
<1>8. CASE ReadyForQuery \/ ConsoleDone
    <2>1. Stage' = 0 /\ Stage \in {1, 2, 3}
        BY <1>8 DEF ReadyForQuery, ConsoleDone, Stage
    <2> QED BY <2>1, FallsFirst
<1>9. CASE ConsolePlan
    <2>1. /\ statements # <<>> /\ statements' = <<>> /\ responses' # <<>>
          /\ request = "console" /\ UNCHANGED request
        BY <1>9 DEF ConsolePlan
    <2>2. Stage = 2 /\ Stage' = 2
        BY <2>1 DEF Stage
    <2>3. Len(statements)' < Len(statements)
        BY <1>1, <2>1, OwedType DEF OwedOK
    <2> QED BY <2>2, <2>3, FallsFirst
<1>10. CASE ConsoleAnswers
    <2>1. /\ request = "console" /\ responses # <<>> /\ UNCHANGED request
          /\ statements' = <<>> /\ responses' = <<>>
        BY <1>10 DEF ConsoleAnswers, Answer
    <2>2. Stage = 2 /\ Stage' = 1
        BY <2>1 DEF Stage
    <2> QED BY <2>2, FallsFirst
<1>11. CASE ConsoleFails \/ ConsoleTimesOut
    <2>1. Fails /\ (statements # <<>> \/ responses # <<>>)
        BY <1>1, <1>11 DEF ConsoleFails, ConsoleTimesOut, EndedInv
    <2> QED BY <1>3, <2>1
<1>12. ~(Typing \/ SimpleQuery \/ Parse \/ Console \/ ConsoleRefuses)
    BY DEF Typing, SimpleQuery, Parse, Console, ConsoleRefuses, Begin
<1> QED
    BY <1>2, <1>3, <1>4, <1>5, <1>6, <1>7, <1>8, <1>9, <1>10, <1>11, <1>12
    DEF Next, Server, Engine, ConsoleEngine, PlanFails, BatchFails, DescribeFails, ExecuteRefuses,
        Replies

\* mod.rs:136-148, http/mod.rs:270-296: a request is answered after finitely many
\* steps, however many statements and rows it has: each step but the clock's takes
\* from its work, and none adds to it.
THEOREM EveryReplyCounts ==
    SessionSpec =>
        /\ [](Work \in Nat \X Nat \X Nat \X Nat)
        /\ [][request # "none" => (Tick /\ UNCHANGED Work) \/ WorkFalls]_vars
<1>1. WorkInv => Work \in Nat \X Nat \X Nat \X Nat
    BY WorkIsNatural DEF WorkInv, Work
<1>2. WorkInv /\ WorkInv' /\ [Next]_vars
          => [request # "none" => (Tick /\ UNCHANGED Work) \/ WorkFalls]_vars
    BY StepCounts
<1> QED BY <1>1, <1>2, WorkInvariant, PTL DEF SessionSpec

\* mod.rs:82-110, 350-395: until a request is answered, the gateway or its engine has
\* a step to take: a message all of whose statements are planned has a first reply
\* to send, and one that owes nothing more was told so.
THEOREM NoRequestWaits == SessionSpec => []NoRequestIsStuck
<1>1. WorkInv => NoRequestIsStuck
    <2> SUFFICES ASSUME WorkInv, request # "none"
                 PROVE  CanExecute \/ CanPlan \/ CanReply \/ CanCollect \/ CanEnd
        BY DEF NoRequestIsStuck
    <2>1. /\ SessionInv /\ EndedInv
          /\ request \in {"simple", "prepared", "executed", "console"}
          /\ last \in {"ready", "nothing", "rows", "answer", "error"}
        BY DEF WorkInv, SessionInv, SessionTypeOK, Requests
    <2>2. CASE statements = <<>> /\ responses = <<>>
        BY <2>1, <2>2 DEF EndedInv, CanEnd
    <2>3. CASE request = "prepared" /\ statements # <<>>
        BY <2>3 DEF CanExecute
    <2>4. CASE request \in {"simple", "executed"} /\ statements # <<>>
        BY <2>4 DEF CanPlan, Wire
    <2>5. responses # <<>> => First.left = 0 \/ First.left > 0
        BY <2>1, WorkIsNatural DEF Left
    <2>6. CASE request \in {"simple", "executed"} /\ statements = <<>> /\ responses # <<>>
        BY <2>5, <2>6 DEF CanReply, Replies, Wire
    <2>7. CASE request = "console" /\ (statements # <<>> \/ responses # <<>>)
        <3>1. last = "nothing"
            BY <2>1, <2>7 DEF SessionInv, OwedInv
        <3> QED BY <2>5, <2>7, <3>1 DEF CanCollect
    <2>8. request = "prepared" => responses = <<>>
        BY <2>1 DEF SessionInv, OwedInv
    <2> QED BY <2>1, <2>2, <2>3, <2>4, <2>6, <2>7, <2>8
<1> QED BY <1>1, WorkInvariant, PTL
===============================================================================
