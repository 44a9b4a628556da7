----------------------------- MODULE QuerySession -----------------------------
(***************************************************************************)
(* A query from its text to its last row, the three ways the gateway takes *)
(* one: a simple query and a prepared statement of the wire protocol       *)
(* (src/src/server/mod.rs), and the console of src/src/http/mod.rs.  The   *)
(* text is that of StatementText.                                          *)
(*                                                                         *)
(* All statements of a simple query are planned and started before the     *)
(* first of their rows is sent; a statement's deadline runs from that      *)
(* start, and is looked at when a batch arrives.  The console is cut off by*)
(* a timer.  Cursors yield batches, fail or hang.                          *)
(***************************************************************************)
EXTENDS StatementText

CONSTANTS
    Timeouts,     \* values of server.statement_timeout_secs; 0 is none
    Fallback,     \* FALLBACK_TIMEOUT_SECS
    MaxClock,     \* bound: time a request is given
    MaxRows,      \* bound: rows of a statement
    Limits,       \* bound: values of QueryRequest.limit
    NoLimit,      \* the request has none
    DefaultRows,  \* DEFAULT_ROWS
    MaxCap        \* MAX_ROWS

VARIABLES
    timeout,     \* server.statement_timeout_secs
    request,     \* the kind of the request being answered
    statements,  \* statements not planned yet
    responses,   \* those planned and not answered
    last,        \* what the client was last sent
    got,         \* rows it has of the first response
    clock,       \* time since the request
    cap,         \* rows the console shows
    result       \* history: the last complete answer

sessionVars == <<timeout, request, statements, responses, last, got, clock, cap, result>>
vars == <<textVars, sessionVars>>

ASSUME QuerySessionAssumption ==
    /\ Timeouts \subseteq Nat /\ Fallback \in Nat \ {0}
    /\ MaxClock \in Nat /\ MaxRows \in Nat \ {0}
    /\ Limits \subseteq Nat /\ NoLimit \notin Nat
    /\ DefaultRows \in Nat /\ MaxCap \in Nat \ {0}

Requests == {"none", "simple", "prepared", "executed", "console"}

\* A statement that was started: its rows, those its cursor still has, and the
\* time after which it is cut off, if any.
Responses == [kind : Kinds \cup {"empty"}, deadline : SUBSET Nat, total : Nat, left : Nat]

Response(k, deadline, total, left) ==
    [kind |-> k, deadline |-> deadline, total |-> total, left |-> left]

NoResult == [total |-> 0, got |-> 0, cut |-> FALSE, cap |-> 0]

SessionTypeOK ==
    /\ TextTypeOK
    /\ timeout \in Timeouts
    /\ request \in Requests
    /\ statements \in Seq(Kinds \cup {"empty"})
    /\ responses \in Seq(Responses)
    /\ last \in {"ready", "nothing", "rows", "answer", "error"}
    /\ got \in 0 .. MaxRows
    /\ clock \in 0 .. MaxClock
    /\ cap \in 0 .. MaxCap
    /\ result \in [total : Nat, got : Nat, cut : BOOLEAN, cap : Nat]

SessionInit ==
    /\ TextInit
    /\ timeout \in Timeouts
    /\ request = "none"
    /\ statements = <<>> /\ responses = <<>>
    /\ last = "ready"
    /\ got = 0 /\ clock = 0 /\ cap = 0
    /\ result = NoResult

Min(a, b) == IF a < b THEN a ELSE b
-------------------------------------------------------------------------------
(***************************************************************************)
(* Requests.                                                               *)
(***************************************************************************)
Typing == request = "none" /\ (\E c \in Symbols : Type(c)) /\ UNCHANGED sessionVars

\* The next text starts over.
TextReset ==
    /\ in_single' = FALSE /\ in_double' = FALSE /\ in_quote' = FALSE
    /\ head' = NoWord /\ token' = NoWord /\ opening' = NoOpening
    /\ cut' = <<>> /\ meant' = <<>>
    /\ prev' = "space" /\ mode' = "code" /\ dotted' = FALSE
    /\ inner' = "none" /\ misled' = FALSE /\ damage' = {}

\* One of an empty message is still answered.
Begin(kind, ss) ==
    /\ request = "none"
    /\ request' = kind
    /\ statements' = IF ss = <<>> THEN <<"empty">> ELSE ss
    /\ last' = "nothing"
    /\ clock' = 0
    /\ TextReset

\* SimpleQueryHandler::do_query()
SimpleQuery ==
    /\ Begin("simple", Statements)
    /\ UNCHANGED <<timeout, responses, got, cap, result>>

\* A prepared statement is not split: its first word decides for all of it.
Parse ==
    /\ Begin("prepared", <<Unsplit>>)
    /\ UNCHANGED <<timeout, responses, got, cap, result>>

\* Variation: a request may ask for any number of rows.
Clamp_Asked(limit) == IF limit = NoLimit THEN DefaultRows ELSE limit

Clamp(limit) ==
    LET asked == IF limit = NoLimit THEN DefaultRows ELSE limit
    IN  IF asked < 1 THEN 1 ELSE Min(asked, MaxCap)

\* Variation: semicolons are not looked for.
Admits_Several == Statements # <<>> /\ Statements[1] # "set"

\* query() of the console: one semicolon at the end is dropped, there is no other,
\* and the first word is that of a query.
Admits == inner # "more" /\ Statements # <<>> /\ Statements[1] # "set"

Console ==
    /\ Admits
    /\ \E limit \in Limits \cup {NoLimit} : cap' = Clamp(limit)
    /\ Begin("console", <<Statements[1]>>)
    /\ UNCHANGED <<timeout, responses, got, result>>

\* Any other text, and a first word like INSERT, is refused at once.
ConsoleRefuses == request = "none" /\ TextReset /\ UNCHANGED sessionVars
-------------------------------------------------------------------------------
(***************************************************************************)
(* Planning: run(), and describe() for a prepared statement.               *)
(***************************************************************************)

\* Planning, execution, a cursor or a deadline fails: the rest is not answered.
Fails ==
    /\ last' = "error"
    /\ statements' = <<>> /\ responses' = <<>>
    /\ got' = 0
    /\ UNCHANGED <<textVars, timeout, request, clock, cap, result>>

\* to_row_stream()
Deadline == IF timeout > 0 THEN {clock + timeout} ELSE {}

\* What intercept() answers without a plan; a SHOW has its one row.
Started(k) ==
    CASE k \in {"set", "empty"} -> {Response(k, {}, 0, 0)}
      [] k = "show"            -> {Response(k, Deadline, 1, 1)}
      [] OTHER                 -> {Response(k, Deadline, n, n) : n \in 0 .. MaxRows}

Wire == request \in {"simple", "executed"}

Plan ==
    /\ Wire
    /\ statements # <<>>
    /\ \E r \in Started(Head(statements)) : responses' = Append(responses, r)
    /\ statements' = Tail(statements)
    /\ UNCHANGED <<textVars, timeout, request, last, got, clock, cap, result>>

PlanFails == Wire /\ statements # <<>> /\ Head(statements) = "query" /\ Fails

\* A client may ask what a prepared statement returns; that is planned, too.
DescribeFails == request = "prepared" /\ statements # <<>> /\ Head(statements) = "query" /\ Fails

\* A statement with parameters is refused.
ExecuteRefuses == request = "prepared" /\ statements # <<>> /\ Fails

Execute ==
    /\ request = "prepared"
    /\ statements # <<>>
    /\ request' = "executed"
    /\ UNCHANGED <<textVars, timeout, statements, responses, last, got, clock, cap, result>>
-------------------------------------------------------------------------------
(***************************************************************************)
(* Replies: pgwire takes the responses one after the other.                *)
(***************************************************************************)

\* Nothing is sent before all of the message is planned.
Replies == Wire /\ statements = <<>> /\ responses # <<>>

First == responses[1]

Late == \E t \in First.deadline : clock > t

Answered(r) ==
    /\ last' = "answer"
    /\ responses' = Tail(responses)
    /\ got' = 0
    /\ result' = r
    /\ UNCHANGED <<textVars, timeout, request, statements, clock, cap>>

Acknowledge ==
    Replies /\ First.kind \in {"set", "empty"} /\ Answered(NoResult)

\* Variation: a batch that comes too late is dropped, and the stream goes on.
Batch_Drops ==
    /\ Replies
    /\ \E n \in 1 .. First.left :
          /\ responses' = [responses EXCEPT ![1].left = First.left - n]
          /\ got' = IF Late THEN got ELSE got + n
    /\ last' = "rows"
    /\ UNCHANGED <<textVars, timeout, request, statements, clock, cap, result>>

\* A batch arrives in time, and all its rows are sent.
Batch ==
    /\ Replies
    /\ ~Late
    /\ \E n \in 1 .. First.left :
          /\ responses' = [responses EXCEPT ![1].left = First.left - n]
          /\ got' = got + n
    /\ last' = "rows"
    /\ UNCHANGED <<textVars, timeout, request, statements, clock, cap, result>>

\* Variation: an error ends its statement only.
BatchFails_One ==
    /\ Replies
    /\ First.left > 0
    /\ last' = "error"
    /\ responses' = Tail(responses)
    /\ got' = 0
    /\ UNCHANGED <<textVars, timeout, request, statements, clock, cap, result>>

\* A batch arrives too late, or an error does.
BatchFails == Replies /\ First.left > 0 /\ Fails

\* The end of the stream is not looked at by the clock.
Complete ==
    /\ Replies
    /\ First.kind \notin {"set", "empty"}
    /\ First.left = 0
    /\ Answered([NoResult EXCEPT !.total = First.total, !.got = got])

ReadyForQuery ==
    /\ request \in {"simple", "prepared", "executed"}
    /\ statements = <<>> /\ responses = <<>>
    /\ last \in {"answer", "error"}
    /\ request' = "none"
    /\ last' = "ready"
    /\ clock' = 0
    /\ result' = NoResult
    /\ UNCHANGED <<textVars, timeout, statements, responses, got, cap>>
-------------------------------------------------------------------------------
(***************************************************************************)
(* The console collects the rows, and then shows as many as its cap.       *)
(***************************************************************************)

\* Variation: no more is fetched than is shown.
Fetched_Cap(n) == Min(n, cap)

\* One row past the cap tells that there are more.
Fetched(n) == Min(n, cap + 1)

\* df.limit() is for SELECT and WITH only.
ConsolePlan ==
    /\ request = "console"
    /\ statements # <<>>
    /\ \E n \in 0 .. MaxRows : \E left \in {n, Fetched(n)} :
          responses' = <<Response(Head(statements), {}, n, left)>>
    /\ statements' = <<>>
    /\ UNCHANGED <<textVars, timeout, request, last, got, clock, cap, result>>

ConsoleBatch ==
    /\ request = "console" /\ responses # <<>>
    /\ \E n \in 1 .. First.left :
          /\ responses' = [responses EXCEPT ![1].left = First.left - n]
          /\ got' = got + n
    /\ UNCHANGED <<textVars, timeout, request, statements, last, clock, cap, result>>

Answer(r) ==
    /\ request = "console"
    /\ last = "nothing"
    /\ last' = "answer"
    /\ statements' = <<>> /\ responses' = <<>>
    /\ got' = 0
    /\ result' = r
    /\ UNCHANGED <<textVars, timeout, request, clock, cap>>

ConsoleAnswers ==
    /\ responses # <<>> /\ First.left = 0
    /\ Answer([total |-> First.total, got |-> Min(got, cap), cut |-> got > cap, cap |-> cap])

ConsoleFails == request = "console" /\ last = "nothing" /\ Fails

\* Variation: without statement_timeout_secs there is no timer.
ConsoleLimit_Configured == IF timeout = 0 THEN MaxClock ELSE timeout

ConsoleLimit == IF timeout = 0 THEN Fallback ELSE timeout

ConsoleTimesOut == request = "console" /\ last = "nothing" /\ clock > ConsoleLimit /\ Fails

ConsoleDone ==
    /\ request = "console" /\ last \in {"answer", "error"}
    /\ request' = "none"
    /\ last' = "ready"
    /\ clock' = 0 /\ cap' = 0
    /\ result' = NoResult
    /\ UNCHANGED <<textVars, timeout, statements, responses, got>>
-------------------------------------------------------------------------------
Tick ==
    /\ request # "none"
    /\ clock < MaxClock
    /\ clock' = clock + 1
    /\ UNCHANGED <<textVars, timeout, request, statements, responses, last, got, cap, result>>

\* What the gateway does of its own, clients execute what they prepared, and what
\* it needs a plan or a cursor for.
Server == Execute \/ Acknowledge \/ Complete \/ ReadyForQuery
              \/ ConsoleAnswers \/ ConsoleTimesOut \/ ConsoleDone
Engine == Plan \/ PlanFails \/ Batch \/ BatchFails

ConsoleEngine == ConsolePlan \/ ConsoleBatch \/ ConsoleFails

Next == \/ Typing \/ SimpleQuery \/ Parse \/ Console \/ ConsoleRefuses
        \/ DescribeFails \/ ExecuteRefuses \/ Server \/ Engine \/ ConsoleEngine \/ Tick

\* Tasks are scheduled and time passes.  Cursors are fair on the wire, where nothing
\* else ends a statement; the console needs no fairness of them.
SessionSpec ==
    SessionInit /\ [][Next]_vars /\ WF_vars(Server) /\ WF_vars(Engine) /\ WF_vars(Tick)
-------------------------------------------------------------------------------
(***************************************************************************)
(* Properties.                                                             *)
(***************************************************************************)

\* mod.rs:84-98: a statement reported complete has sent every row; one that ran
\* out of time, or failed, after some of its rows never looks complete.
AnsweredInFull == last = "answer" /\ Wire => result.got = result.total

\* http/mod.rs:235-239: what the console runs is at most one statement, wherever
\* the quotes and comments are.
ConsoleRunsOne == Admits => Len(Meant) <= 1

\* http/mod.rs:269, 280: the console shows the result, or as much of it as its cap
\* with a note that there is more.
ConsoleIsHonest ==
    request = "console" /\ last = "answer" =>
        /\ result.got = Min(result.total, result.cap)
        /\ result.cut <=> result.total > result.cap

\* config.rs:41-42, http/mod.rs:270-296: every request is answered; on the wire as
\* long as cursors go on, in the console even if one hangs.
EveryRequestAnswered == request # "none" ~> request = "none"

\* On the wire a request is a stream of replies.
Owed == IF request = "console" THEN 0 ELSE Len(statements) + Len(responses)
Sent == IF request = "console" THEN "ready" ELSE last

Replying == INSTANCE ReplyStream WITH MaxOwed <- MaxStatements + 1, owed <- Owed, last <- Sent

\* mod.rs:136-148, 82-110: each statement is answered once and in order, and after
\* an error nothing more is sent.
RepliesInOrder == Replying!Spec
===============================================================================
