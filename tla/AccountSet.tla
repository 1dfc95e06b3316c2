----------------------------- MODULE AccountSet -----------------------------
(***************************************************************************)
(* What registration promises where the table has no key on the name: an   *)
(* account that is stored stays; a name keeps the password it can log in   *)
(* with until the server is started again, which lets it log in with one   *)
(* of its stored passwords; a client is told only of a stored account, and *)
(* nothing but stored accounts can log in unless queries fail.             *)
(***************************************************************************)
EXTENDS Naturals

CONSTANTS Names, Passwords, NoAccount

VARIABLES
    accounts,  \* the names and passwords that are stored
    login,     \* the password each name logs in with, or NoAccount
    told,      \* the names and passwords clients were told are registered
    fails,     \* queries may fail
    starts     \* how often the server was started again

Stored(n) == {p \in Passwords : <<n, p>> \in accounts}

\* What the server may know after it has read the stored accounts.
Loads ==
    {known \in [Names -> Passwords \cup {NoAccount}] :
        \A n \in Names : IF Stored(n) = {} THEN known[n] = NoAccount
                                            ELSE known[n] \in Stored(n)}

Init ==
    /\ accounts \subseteq Names \X Passwords
    /\ login \in Loads
    /\ told = {} /\ fails \in BOOLEAN /\ starts = 0

Store(n, p) ==
    /\ accounts' = accounts \cup {<<n, p>>}
    /\ UNCHANGED <<login, told, fails, starts>>

\* The first account of a name is the one that logs in.
Admit(n, p) ==
    /\ <<n, p>> \in accounts \/ fails
    /\ login' = [login EXCEPT ![n] = IF @ = NoAccount THEN p ELSE @]
    /\ \/ UNCHANGED told
       \/ <<n, p>> \in accounts /\ told' = told \cup {<<n, p>>}
    /\ UNCHANGED <<accounts, fails, starts>>

Restart ==
    /\ starts' = starts + 1 /\ login' \in Loads
    /\ UNCHANGED <<accounts, told, fails>>

Next == Restart \/ \E n \in Names, p \in Passwords : Store(n, p) \/ Admit(n, p)

Spec == Init /\ [][Next]_<<accounts, login, told, fails, starts>>
=============================================================================
