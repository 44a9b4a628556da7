----------------------------- MODULE ReplyStream ------------------------------
(***************************************************************************)
(* What a client of the wire protocol relies on: each of its requests is   *)
(* answered statement by statement, rows come before the answer that       *)
(* completes them, and after an error nothing comes but readiness for the  *)
(* next request.                                                           *)
(***************************************************************************)
EXTENDS Naturals

CONSTANT MaxOwed   \* bound: statements of a request

VARIABLES
    owed,   \* statements not answered yet
    last    \* what the client was last sent

vars == <<owed, last>>

Init == owed = 0 /\ last = "ready"

Request == last = "ready" /\ owed' \in 1 .. MaxOwed /\ last' = "nothing"

Rows == owed > 0 /\ last \in {"nothing", "rows", "answer"} /\ last' = "rows" /\ UNCHANGED owed

Answer == owed > 0 /\ last \in {"nothing", "rows", "answer"} /\ last' = "answer" /\ owed' = owed - 1

Fail == owed > 0 /\ last \in {"nothing", "rows", "answer"} /\ last' = "error" /\ owed' = 0

Ready == owed = 0 /\ last \in {"answer", "error"} /\ last' = "ready" /\ UNCHANGED owed

Next == Request \/ Rows \/ Answer \/ Fail \/ Ready

Spec == Init /\ [][Next]_vars /\ WF_vars(Rows \/ Answer \/ Fail \/ Ready)
===============================================================================
