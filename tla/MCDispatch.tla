------------------------------ MODULE MCDispatch ------------------------------
(***************************************************************************)
(* Small instances of Dispatch for TLC.                                    *)
(***************************************************************************)
EXTENDS Dispatch, TLC

CONSTANTS d1, d2, r1, r2, slow

OneHost == [d \in Deliveries |-> slow]

(* No bound on how long a task holds its row: no run reaches this time.    *)
Unbounded == 1000

NoHeader       == [form |-> "other", value |-> 0]
WaitUntilThree == [form |-> "date", value |-> 3]

Response(status, header) == [kind |-> "response", status |-> status, header |-> header]
Timeout == [kind |-> "timeout", status |-> 0, header |-> NoHeader]

Accepted   == Response(200, NoHeader)
Overloaded == Response(503, NoHeader)
Gone       == Response(410, NoHeader)

TwoAnswers  == {Accepted, Overloaded}
AllAnswers  == {Accepted, Timeout, Gone}
WithDate    == AllAnswers \cup {Response(503, WaitUntilThree)}

Interchangeable == Permutations(Replicas) \cup Permutations(Deliveries)
===============================================================================
