----------------------------- MODULE MCAccounts -----------------------------
(* The instance of Accounts for TLC.  Arrivals of all kinds share one budget, *)
(* so that behaviours with several requests for a code and behaviours with    *)
(* logins, profile updates and logouts are explored side by side.             *)
EXTENDS Accounts, TLC

CONSTANTS q1, q2, l1, l2, h1, h2

TwoRequests == {q1, q2}
TwoLogins == {l1, l2}
TwoThreads == {h1, h2}

Symmetry == Permutations(TwoRequests) \union Permutations(TwoLogins)
                \union Permutations(TwoThreads)
=============================================================================
