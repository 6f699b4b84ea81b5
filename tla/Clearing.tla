------------------------------ MODULE Clearing ------------------------------
(***************************************************************************)
(* What the engine promises for a settlement once it is due, without rows, *)
(* jobs, hashes or receipts: the vault applies it, and a verdict is given. *)
(* The promise is in the guards: the vault applies a settlement again only *)
(* at the price of a mishap, it no longer moves once the verdict is given, *)
(* "done" is only said of what was applied, and "refused" of what was not, *)
(* but for mishaps.                                                        *)
(***************************************************************************)
EXTENDS Integers

CONSTANT Dues       \* the settlements there may be

VARIABLES
    verdict,    \* verdict[d]: "none" until d is due, then "due", at last "done" or "refused"
    applied,    \* applied[d]: how often the vault has applied d
    mishaps     \* failures of the environment so far

cvars == <<verdict, applied, mishaps>>

ClearingInit ==
    /\ verdict = [d \in Dues |-> "none"]
    /\ applied = [d \in Dues |-> 0]
    /\ mishaps = 0

Order(d) ==
    /\ verdict[d] = "none"
    /\ verdict' = [verdict EXCEPT ![d] = "due"]
    /\ UNCHANGED <<applied, mishaps>>

Apply(d) ==
    /\ verdict[d] = "due"
    /\ applied[d] <= mishaps
    /\ applied' = [applied EXCEPT ![d] = @ + 1]
    /\ UNCHANGED <<verdict, mishaps>>

Confirm(d) ==
    /\ verdict[d] = "due"
    /\ applied[d] > 0
    /\ verdict' = [verdict EXCEPT ![d] = "done"]
    /\ UNCHANGED <<applied, mishaps>>

Refuse(d) ==
    /\ verdict[d] = "due"
    /\ applied[d] <= mishaps
    /\ verdict' = [verdict EXCEPT ![d] = "refused"]
    /\ UNCHANGED <<applied, mishaps>>

Mishap ==
    /\ mishaps' = mishaps + 1
    /\ UNCHANGED <<verdict, applied>>

ClearingNext ==
    \/ \E d \in Dues : Order(d) \/ Apply(d) \/ Confirm(d) \/ Refuse(d)
    \/ Mishap

ClearingSpec == ClearingInit /\ [][ClearingNext]_cvars
=============================================================================
