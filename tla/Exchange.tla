------------------------------ MODULE Exchange ------------------------------
(***************************************************************************)
(* What the test tool promises its user: for everything queued, one result *)
(* is handed over, and the test is declared over only when the stream is   *)
(* closed and every result has been handed over.                           *)
(***************************************************************************)
EXTENDS Integers

VARIABLES
    owed,    \* results that are or will be due
    given,   \* results handed over
    closed,  \* nothing will be queued any more
    over     \* the test has been declared over

exchangeVars == <<owed, given, closed, over>>

ExchangeInit == owed = 0 /\ given = 0 /\ ~closed /\ ~over

Queue ==
    /\ ~closed
    /\ owed' \in Nat /\ owed' >= owed
    /\ UNCHANGED <<given, closed, over>>

Give ==
    /\ given < owed
    /\ ~over
    /\ given' = given + 1
    /\ UNCHANGED <<owed, closed, over>>

Close ==
    /\ closed' = TRUE
    /\ UNCHANGED <<owed, given, over>>

Finish ==
    /\ closed
    /\ given = owed
    /\ over' = TRUE
    /\ UNCHANGED <<owed, given, closed>>

ExchangeNext == Queue \/ Give \/ Close \/ Finish

ExchangeSpec == ExchangeInit /\ [][ExchangeNext]_exchangeVars
=============================================================================
