------------------------------ MODULE Custody ------------------------------
(***************************************************************************)
(* What the vault promises, without addresses, tokens, fees or accounting  *)
(* totals: every account holds a claim, the protocol holds a pool, and     *)
(* value moves only in four ways.  The promise is about what is NOT here:  *)
(* no step takes from one account to pay another, no step pays a profit    *)
(* out of anything but the pool, a loss never exceeds the claim it is      *)
(* charged to, and a frozen vault leaves every claim alone while the pool  *)
(* may still be topped up or drawn down.                                   *)
(***************************************************************************)
EXTENDS Integers

CONSTANT NumAccounts

Accounts == 1..NumAccounts

VARIABLES
    claims,     \* claims[a]: what account a may take out
    pool,       \* the protocol's own money: pays profits, receives losses
    frozen      \* TRUE while claims may not move

cvars == <<claims, pool, frozen>>

CustodyInit ==
    /\ claims = [a \in Accounts |-> 0]
    /\ pool = 0
    /\ frozen = FALSE

\* The claim of a, and no other, takes a new value.
ClaimMoves(a) ==
    /\ ~frozen
    /\ claims' = [claims EXCEPT ![a] = claims'[a]]
    /\ claims'[a] \in Nat
    /\ UNCHANGED frozen

\* An account brings its own money in or takes it out: the pool is untouched.
Pay(a) == ClaimMoves(a) /\ UNCHANGED pool

\* A profit leaves the pool for the claim of a, or a loss leaves the claim of
\* a for the pool: neither creates value and neither overdraws.
Settle(a) ==
    /\ ClaimMoves(a)
    /\ pool' \in Nat
    /\ pool' + claims'[a] = pool + claims[a]

\* The pool is topped up, or drawn down but not below zero.
MovePool ==
    /\ pool' \in Nat
    /\ UNCHANGED <<claims, frozen>>

Freeze ==
    /\ frozen' \in BOOLEAN
    /\ UNCHANGED <<claims, pool>>

CustodyNext ==
    \/ \E a \in Accounts : Pay(a) \/ Settle(a)
    \/ MovePool
    \/ Freeze

CustodySpec == CustodyInit /\ [][CustodyNext]_cvars
=============================================================================
