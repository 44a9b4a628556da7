------------------------------ MODULE MCPushdown ------------------------------
(***************************************************************************)
(* Pushdown over a collection with an integer column "age", a boolean      *)
(* column "active", an ObjectId column "_id" and an array column "tags".   *)
(***************************************************************************)
EXTENDS Pushdown

One(of, n) == [array |-> FALSE, items |-> {[of |-> of, n |-> n]}]

ArrayOf(ss) == [array |-> TRUE, items |-> ss]

Null == One("null", 0)

AllColumns == {"age", "active", "_id", "tags"}
AllTypes == [age |-> "int", active |-> "bool", _id |-> "oid", tags |-> "list"]

Doc(age, active, id, tags) == [age |-> age, active |-> active, _id |-> id, tags |-> tags]

Tags == ArrayOf({[of |-> "str", n |-> 0]})

\* Every combination of the first two columns, and each way the others differ;
\* the last two hold values inference did not sample.
AllDocs ==
    {Doc(age, active, One("oid", 0), Tags) :
        age \in {Missing, One("num", 0), One("num", 1)},
        active \in {Null, One("bool", 0), One("bool", 1)}}
    \cup {Doc(One("num", 0), One("bool", 0), One("oid", 1), tags) :
             tags \in {Missing, ArrayOf({}), ArrayOf({[of |-> "null", n |-> 0]})}}
    \cup {Doc(age, One("bool", 1), One("oid", 1), Tags) :
             age \in {One("str", 1), ArrayOf({[of |-> "num", n |-> 1]})}}

AllTests == {{0}, {1}}

\* One text column in which numbers and strings were met.
OneText == [score |-> "text"]
OneTextDocs == [{"score"} -> {Null, One("num", 0), One("num", 1), One("str", 1)}]
===============================================================================
