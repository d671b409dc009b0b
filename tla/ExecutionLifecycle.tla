-------------------------- MODULE ExecutionLifecycle --------------------------
(***************************************************************************)
(* What an ExecutionLog row promises its owner, with no process in sight:  *)
(* a proposal is submitted once, traded at most once, and then settled for *)
(* good.  The enum ExecutionStatus gives the states; the keeper's header   *)
(* ("SUBMITTED (o PENDING) -> CONFIRMED / FAILED") gives the last step.    *)
(***************************************************************************)
EXTENDS Naturals

CONSTANT Rows

VARIABLES status, trades

vars == <<status, trades>>

Init == /\ status = [r \in Rows |-> "ABSENT"]
        /\ trades = [r \in Rows |-> 0]

Move(r, from, to) == /\ status[r] \in from
                     /\ status' = [status EXCEPT ![r] = to]
                     /\ UNCHANGED trades

Insert(r) == \E s \in {"DRAFT", "PENDING", "LOGGED_PROPOSAL"} :
                Move(r, {"ABSENT"}, s)

Submit(r) == Move(r, {"DRAFT"}, "SUBMITTED")

Trade(r) == /\ status[r] = "SUBMITTED"
            /\ trades[r] = 0
            /\ trades' = [trades EXCEPT ![r] = 1]
            /\ UNCHANGED status

Confirm(r) == trades[r] = 1 /\ Move(r, {"SUBMITTED"}, "CONFIRMED")

Fail(r) == Move(r, {"SUBMITTED", "PENDING"}, "FAILED")

Next == \E r \in Rows :
            Insert(r) \/ Submit(r) \/ Trade(r) \/ Confirm(r) \/ Fail(r)

Spec == Init /\ [][Next]_vars
================================================================================
