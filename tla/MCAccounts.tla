----------------------------- MODULE MCAccounts -----------------------------
(***************************************************************************)
(* Constants of the model-checking runs of Accounts.                       *)
(***************************************************************************)
EXTENDS Accounts

CONSTANTS w1, w2, n1, n2, p1, p2

TwoWorkers   == {w1, w2}
TwoNames     == {n1, n2}
TwoPasswords == {p1, p2}

Form(digit, n, p) == [digit |-> digit, cgi |-> TRUE, name |-> n, password |-> p]

\* Registrations of one name with two passwords and of another, a login, a
\* form without POST, and an address.
Clients ==
    {Form("3", n1, p1), Form("3", n1, p2), Form("3", n2, p1), Form("2", n1, p1)}
    \cup {[digit |-> d, cgi |-> FALSE, name |-> n1, password |-> p1] : d \in {"0", "3"}}
=============================================================================
