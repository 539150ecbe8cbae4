---------------------------- MODULE MCWeeklyReport ---------------------------
(* Three computers, one of them without data and one silent for long, and   *)
(* two assets that are created later, one of them not a computer.           *)
EXTENDS WeeklyReport

CONSTANTS computer, monitor   \* ids of categories

Asset(id, category, last) == [id |-> id, category |-> category, created |-> 0, last |-> last]

FleetsOfThree ==
    { <<Asset(1, computer, 2), Asset(2, NoCategory, 0), Asset(3, computer, Never)>> }

Later == {[id |-> 4, category |-> computer], [id |-> 5, category |-> monitor]}
=============================================================================
