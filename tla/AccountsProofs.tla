--------------------------- MODULE AccountsProofs ---------------------------
(***************************************************************************)
(* What holds of Accounts for every number of workers, names, passwords    *)
(* and requests.                                                           *)
(***************************************************************************)
EXTENDS Accounts, WellFoundedInduction, TLAPS

(***************************************************************************)
(* The inductive invariant                                                 *)
(***************************************************************************)
\* m_lock belongs to the worker between lock() and unlock().
LockOwned == \A w \in Workers : pc[w] \in {"mysql_query", "insert"} <=> m_lock = w

\* A successful INSERT is in the table when the map is changed.
ResultIsTrue ==
    \A w \in Workers : pc[w] = "insert" /\ res[w] =>
        \E i \in DOMAIN table :
            table[i] = [name |-> job[w].name, password |-> job[w].password]

\* While no query fails every INSERT has succeeded.
ResultIsGood == reliable => \A w \in Workers : pc[w] = "insert" => res[w]

AccountsInv ==
    /\ TypeOK /\ LockOwned /\ ResultIsTrue /\ ResultIsGood
    /\ ToldIsStored /\ StoredIsKnown

(***************************************************************************)
(* initmysql_result()                                                      *)
(***************************************************************************)
\* A set of rows that is not empty has a last one.
LEMMA LastRow ==
    ASSUME table \in Seq(Row), NEW n \in Names, RowsOf(n) # {}
    PROVE  \E i \in RowsOf(n) : \A j \in RowsOf(n) : j <= i
<1> DEFINE T == {Len(table) - i : i \in RowsOf(n)}
<1>1. RowsOf(n) \subseteq 1 .. Len(table) /\ Len(table) \in Nat
  BY DEF RowsOf
<1>2. T \subseteq Nat /\ T # {}
  BY <1>1
<1> DEFINE R == OpToRel(<, Nat)
<1>3. PICK x \in T : \A y \in T : <<y, x>> \notin R
  <2>1. IsWellFoundedOn(R, Nat)
    BY NatLessThanWellFounded
  <2> HIDE DEF T, R
  <2> QED BY <1>2, <2>1, WFMin
<1>4. ASSUME NEW y \in T PROVE x <= y
  <2>1. x \in Nat /\ y \in Nat
    BY <1>2
  <2>2. y < x => <<y, x>> \in R
    BY <2>1 DEF OpToRel
  <2>3. <<y, x>> \notin R
    BY <1>3
  <2> HIDE DEF R
  <2> QED BY <2>1, <2>2, <2>3
<1>5. PICK i \in RowsOf(n) : x = Len(table) - i
  OBVIOUS
<1>6. ASSUME NEW j \in RowsOf(n) PROVE j <= i
  <2>1. Len(table) - j \in T
    BY <1>6
  <2>2. Len(table) - i <= Len(table) - j
    BY <1>4, <1>5, <2>1
  <2>3. i \in Nat /\ j \in Nat /\ Len(table) \in Nat
    BY <1>1, <1>5, <1>6
  <2> QED BY <2>2, <2>3
<1> QED BY <1>5, <1>6

LEMMA LoadedValue ==
    ASSUME table \in Seq(Row), NEW n \in Names
    PROVE  /\ RowsOf(n) = {} => Loaded[n] = NoAccount
           /\ RowsOf(n) # {} => \E i \in RowsOf(n) : Loaded[n] = table[i].password
BY LastRow DEF Loaded

LEMMA RowsTyped ==
    ASSUME table \in Seq(Row)
    PROVE  \A i \in DOMAIN table :
               /\ table[i].name \in Names /\ table[i].password \in Passwords
               /\ table[i] = [name |-> table[i].name, password |-> table[i].password]
<1> SUFFICES ASSUME NEW i \in DOMAIN table
             PROVE  /\ table[i].name \in Names /\ table[i].password \in Passwords
                    /\ table[i] = [name |-> table[i].name, password |-> table[i].password]
  OBVIOUS
<1>1. table[i] \in Row
  OBVIOUS
<1> QED BY <1>1 DEF Row

LEMMA LoadedType ==
    ASSUME table \in Seq(Row)
    PROVE  Loaded \in [Names -> Passwords \cup {NoAccount}]
<1>1. ASSUME NEW n \in Names PROVE Loaded[n] \in Passwords \cup {NoAccount}
  BY <1>1, LoadedValue, RowsTyped DEF RowsOf
<1> QED BY <1>1 DEF Loaded

(***************************************************************************)
(* Types and the lock                                                      *)
(***************************************************************************)
LEMMA JobType ==
    ASSUME TypeOK, NEW w \in Workers
    PROVE  /\ job[w].name \in Names /\ job[w].password \in Passwords
           /\ [name |-> job[w].name, password |-> job[w].password] \in Row
BY AccountsAssumption DEF TypeOK, Request, Row

LEMMA TypeInit == Init => TypeOK
<1> SUFFICES ASSUME Init PROVE TypeOK
  OBVIOUS
<1>1. table \in Seq(Row)
  <2>1. PICK n \in 0 .. MaxRows : table \in [1 .. n -> Row]
    BY DEF Init
  <2> QED BY <2>1, AccountsAssumption
<1>2. users \in [Names -> Passwords \cup {NoAccount}]
  BY <1>1, LoadedType DEF Init
<1>3. (CHOOSE r \in Requests : TRUE) \in Requests
  BY AccountsAssumption
<1> QED BY <1>1, <1>2, <1>3 DEF Init, TypeOK, Pages

LEMMA QueryTable ==
    ASSUME TypeOK, NEW w \in Workers, Query(w)
    PROVE  table' \in Seq(Row)
<1>1. table \in Seq(Row)
  BY DEF TypeOK
<1>2. \E r \in Row : table' = table \/ table' = Append(table, r)
  BY JobType DEF Query, Inserted
<1> QED BY <1>1, <1>2

LEMMA TypeStep == TypeOK /\ [Next]_vars => TypeOK'
<1> SUFFICES ASSUME TypeOK, [Next]_vars PROVE TypeOK'
  OBVIOUS
<1> USE DEF TypeOK, goto, answer, Pages
<1>1. ASSUME NEW w \in Workers, Receive(w) PROVE TypeOK'
  BY <1>1 DEF Receive
<1>2. ASSUME NEW w \in Workers, StaticPage(w) PROVE TypeOK'
  BY <1>2 DEF StaticPage, PageOf
<1>3. ASSUME NEW w \in Workers, Login(w) PROVE TypeOK'
  BY <1>3 DEF Login
<1>4. ASSUME NEW w \in Workers, NameTaken(w) \/ NameFree(w) PROVE TypeOK'
  BY <1>4 DEF NameTaken, NameFree
<1>5. ASSUME NEW w \in Workers, Lock(w) PROVE TypeOK'
  BY <1>5 DEF Lock
<1>6. ASSUME NEW w \in Workers, Query(w) PROVE TypeOK'
  <2>1. table' \in Seq(Row)
    BY <1>6, QueryTable
  <2> QED BY <1>6, <2>1 DEF Query
<1>7. ASSUME NEW w \in Workers, Insert(w) PROVE TypeOK'
  <2>1. job[w].name \in Names /\ job[w].password \in Passwords
    BY JobType
  <2>2. told' \subseteq Names \X Passwords
    BY <1>7, <2>1 DEF Insert, Registered
  <2>3. users' \in [Names -> Passwords \cup {NoAccount}]
    BY <1>7, <2>1 DEF Insert, insert
  <2>4. pc' \in [Workers -> {"idle", "do_requset", "lock", "mysql_query", "insert"}]
        /\ page' \in [Workers -> Pages]
    BY <1>7 DEF Insert, Registered
  <2> QED BY <1>7, <2>2, <2>3, <2>4 DEF Insert, unlock
<1>8. CASE Restart
  <2>1. users' \in [Names -> Passwords \cup {NoAccount}]
    BY <1>8, LoadedType DEF Restart
  <2> QED BY <1>8, <2>1 DEF Restart
<1>9. CASE UNCHANGED vars
  BY <1>9 DEF vars, server
<1> QED
  BY <1>1, <1>2, <1>3, <1>4, <1>5, <1>6, <1>7, <1>8, <1>9 DEF Next, do_requset

\* Steps that change neither accounts nor who is in the locked section.
Aside(w) == Receive(w) \/ StaticPage(w) \/ Login(w) \/ NameTaken(w) \/ NameFree(w)

LEMMA LockOwnedStep == TypeOK /\ LockOwned /\ [Next]_vars => LockOwned'
<1> SUFFICES ASSUME TypeOK, LockOwned, [Next]_vars PROVE LockOwned'
  OBVIOUS
<1>n. NoWorker \notin Workers
  BY AccountsAssumption
<1> USE <1>n DEF TypeOK, LockOwned, goto, answer
<1>1. ASSUME NEW w \in Workers, Aside(w) PROVE LockOwned'
  BY <1>1 DEF Aside, Receive, StaticPage, Login, NameTaken, NameFree, registers
<1>2. ASSUME NEW w \in Workers, Lock(w) PROVE LockOwned'
  BY <1>2 DEF Lock
<1>3. ASSUME NEW w \in Workers, Query(w) PROVE LockOwned'
  BY <1>3 DEF Query
<1>4. ASSUME NEW w \in Workers, Insert(w) PROVE LockOwned'
  BY <1>4 DEF Insert, unlock, Registered
<1>5. CASE Restart
  BY <1>5 DEF Restart
<1>6. CASE UNCHANGED vars
  BY <1>6 DEF vars, server
<1> QED
  BY <1>1, <1>2, <1>3, <1>4, <1>5, <1>6 DEF Next, do_requset, Aside

(***************************************************************************)
(* Table and map                                                           *)
(***************************************************************************)
RowIn(w) == [name |-> job[w].name, password |-> job[w].password]

\* What INSERT does to the table, and what it says.
LEMMA QueryFacts ==
    ASSUME TypeOK, NEW w \in Workers, Query(w)
    PROVE  /\ \A i \in DOMAIN table : i \in DOMAIN table' /\ table'[i] = table[i]
           /\ \A i \in DOMAIN table' : i \in DOMAIN table \/ table'[i] = RowIn(w)
           /\ res'[w] \/ table' # table => \E i \in DOMAIN table' : table'[i] = RowIn(w)
           /\ reliable => res'[w]
<1>1. PICK ok \in BOOLEAN : Inserted(w, ok) /\ res' = [res EXCEPT ![w] = ok]
  BY DEF Query
<1>2. res'[w] = ok
  BY <1>1 DEF TypeOK
<1>3. table \in Seq(Row) /\ RowIn(w) \in Row
  BY JobType DEF TypeOK, RowIn
<1>4. CASE table' = Append(table, RowIn(w)) /\ (ok \/ ~reliable)
  <2>1. DOMAIN table = 1 .. Len(table) /\ DOMAIN table' = 1 .. Len(table) + 1
    BY <1>3, <1>4
  <2>2. /\ \A i \in DOMAIN table : table'[i] = table[i]
        /\ table'[Len(table) + 1] = RowIn(w)
    BY <1>3, <1>4
  <2>3. \A i \in DOMAIN table : i \in DOMAIN table' /\ table'[i] = table[i]
    BY <1>3, <2>1, <2>2
  <2>4. \A i \in DOMAIN table' : i \in DOMAIN table \/ table'[i] = RowIn(w)
    <3>1. \A i \in 1 .. Len(table) + 1 : i \in 1 .. Len(table) \/ i = Len(table) + 1
      BY <1>3
    <3> QED BY <2>1, <2>2, <3>1
  <2>5. \E i \in DOMAIN table' : table'[i] = RowIn(w)
    <3>1. Len(table) + 1 \in 1 .. Len(table) + 1
      BY <1>3
    <3> QED BY <2>1, <2>2, <3>1
  <2> HIDE DEF RowIn
  <2> QED BY <1>2, <1>4, <2>3, <2>4, <2>5
<1>5. CASE ~ok /\ ~reliable /\ table' = table
  BY <1>2, <1>5
<1> QED BY <1>1, <1>4, <1>5 DEF Inserted, RowIn

LEMMA QueryMoves ==
    ASSUME TypeOK, LockOwned, NEW w \in Workers, Query(w)
    PROVE  /\ pc'[w] = "insert"
           /\ \A v \in Workers : v # w => pc[v] # "insert" /\ pc'[v] # "insert"
           /\ job' = job /\ users' = users /\ reliable' = reliable /\ told' = told
BY DEF Query, TypeOK, LockOwned, goto

\* What users.insert() does to the map, and who is left in the section.
LEMMA InsertFacts ==
    ASSUME TypeOK, LockOwned, NEW w \in Workers, Insert(w)
    PROVE  /\ \A n \in Names : users[n] # NoAccount => users'[n] = users[n]
           /\ \A n \in Names : n # job[w].name => users'[n] = users[n]
           /\ users'[job[w].name] # NoAccount
           /\ users[job[w].name] = NoAccount => users'[job[w].name] = job[w].password
           /\ \A v \in Workers : pc'[v] # "insert"
           /\ pc[w] = "insert" /\ table' = table /\ reliable' = reliable
<1>1. job[w].name \in Names /\ job[w].password \in Passwords
  BY JobType
<1>2. \A v \in Workers : pc'[v] # "insert"
  BY DEF Insert, Registered, answer, goto, TypeOK, LockOwned
<1> QED BY <1>1, <1>2, AccountsAssumption DEF Insert, insert, TypeOK

LEMMA AsideFacts ==
    ASSUME TypeOK, NEW w \in Workers, Aside(w) \/ Lock(w)
    PROVE  /\ UNCHANGED <<reliable, table, users, told, res>>
           /\ \A v \in Workers : pc'[v] = "insert" => pc[v] = "insert" /\ job'[v] = job[v]
           /\ \A v \in Workers : pc[v] = "insert" => pc'[v] = "insert" /\ job'[v] = job[v]
BY DEF TypeOK, Aside, Lock, Receive, StaticPage, Login, NameTaken, NameFree, registers, goto, answer

LEMMA RestartFacts ==
    ASSUME TypeOK, Restart
    PROVE  /\ UNCHANGED <<reliable, table, told>>
           /\ \A v \in Workers : pc'[v] # "insert"
           /\ \A n \in Names : RowsOf(n) = {} => users'[n] = NoAccount
           /\ \A n \in Names : RowsOf(n) # {} => \E i \in RowsOf(n) : users'[n] = table[i].password
<1>1. users' = Loaded /\ table \in Seq(Row)
  BY DEF Restart, TypeOK
<1> QED BY <1>1, LoadedValue DEF Restart

LEMMA ResultIsTrueStep ==
    TypeOK /\ LockOwned /\ ResultIsTrue /\ [Next]_vars => ResultIsTrue'
<1> SUFFICES ASSUME TypeOK, LockOwned, ResultIsTrue, [Next]_vars PROVE ResultIsTrue'
  OBVIOUS
<1>1. ASSUME NEW w \in Workers, Aside(w) \/ Lock(w) PROVE ResultIsTrue'
  BY <1>1, AsideFacts DEF ResultIsTrue
<1>2. ASSUME NEW w \in Workers, Query(w) PROVE ResultIsTrue'
  BY <1>2, QueryFacts, QueryMoves DEF ResultIsTrue, RowIn
<1>3. ASSUME NEW w \in Workers, Insert(w) PROVE ResultIsTrue'
  BY <1>3, InsertFacts DEF ResultIsTrue
<1>4. CASE Restart
  BY <1>4, RestartFacts DEF ResultIsTrue
<1>5. CASE UNCHANGED vars
  BY <1>5 DEF vars, server, ResultIsTrue
<1> QED BY <1>1, <1>2, <1>3, <1>4, <1>5 DEF Next, do_requset, Aside

LEMMA ToldIsStoredStep ==
    TypeOK /\ LockOwned /\ ResultIsTrue /\ ToldIsStored /\ [Next]_vars => ToldIsStored'
<1> SUFFICES ASSUME TypeOK, LockOwned, ResultIsTrue, ToldIsStored, [Next]_vars
             PROVE  ToldIsStored'
  OBVIOUS
<1>1. ASSUME NEW w \in Workers, Aside(w) \/ Lock(w) PROVE ToldIsStored'
  BY <1>1, AsideFacts DEF ToldIsStored
<1>2. ASSUME NEW w \in Workers, Query(w) PROVE ToldIsStored'
  BY <1>2, QueryFacts, QueryMoves DEF ToldIsStored
<1>3. ASSUME NEW w \in Workers, Insert(w) PROVE ToldIsStored'
  <2>1. CASE told' = told
    BY <1>3, <2>1, InsertFacts DEF ToldIsStored
  <2>2. CASE res[w] /\ told' = told \cup {<<job[w].name, job[w].password>>}
    <3>1. \E i \in DOMAIN table :
             table[i] = [name |-> job[w].name, password |-> job[w].password]
      BY <1>3, <2>2, InsertFacts DEF ResultIsTrue
    <3> QED BY <1>3, <2>2, <3>1, InsertFacts DEF ToldIsStored
  <2> QED BY <1>3, <2>1, <2>2 DEF Insert, Registered
<1>4. CASE Restart
  BY <1>4, RestartFacts DEF ToldIsStored
<1>5. CASE UNCHANGED vars
  BY <1>5 DEF vars, server, ToldIsStored
<1> QED BY <1>1, <1>2, <1>3, <1>4, <1>5 DEF Next, do_requset, Aside

LEMMA StoredIsKnownStep ==
    TypeOK /\ LockOwned /\ StoredIsKnown /\ [Next]_vars => StoredIsKnown'
<1> SUFFICES ASSUME TypeOK, LockOwned, StoredIsKnown, [Next]_vars PROVE StoredIsKnown'
  OBVIOUS
<1>0. \A i \in DOMAIN table : table[i].name \in Names /\ table[i].password \in Passwords
  BY RowsTyped DEF TypeOK
<1>1. ASSUME NEW w \in Workers, Aside(w) \/ Lock(w) PROVE StoredIsKnown'
  BY <1>1, AsideFacts DEF StoredIsKnown
<1>2. ASSUME NEW w \in Workers, Query(w) PROVE StoredIsKnown'
  <2>1. \A i \in DOMAIN table : users[table[i].name] # NoAccount
    BY <1>2, QueryMoves DEF StoredIsKnown, Query
  <2>2. RowIn(w).name = job[w].name
    BY DEF RowIn
  <2>3. ASSUME NEW i \in DOMAIN table'
        PROVE  users'[table'[i].name] # NoAccount \/ table'[i].name = job[w].name
    BY <1>2, <2>1, <2>2, QueryFacts, QueryMoves
  <2> QED BY <1>2, <2>3, QueryMoves DEF StoredIsKnown
<1>3. ASSUME NEW w \in Workers, Insert(w) PROVE StoredIsKnown'
  <2>1. \A i \in DOMAIN table : users[table[i].name] # NoAccount \/ table[i].name = job[w].name
    BY <1>3, InsertFacts DEF StoredIsKnown, LockOwned
  <2> QED BY <1>0, <1>3, <2>1, InsertFacts DEF StoredIsKnown
<1>4. CASE Restart
  <2>1. ASSUME NEW i \in DOMAIN table PROVE users'[table[i].name] # NoAccount
    <3>1. i \in RowsOf(table[i].name)
      BY <2>1 DEF RowsOf
    <3>2. PICK j \in RowsOf(table[i].name) : users'[table[i].name] = table[j].password
      BY <1>0, <1>4, <3>1, RestartFacts
    <3> QED BY <1>0, <3>2, AccountsAssumption DEF RowsOf
  <2> QED BY <1>4, <2>1, RestartFacts DEF StoredIsKnown
<1>5. CASE UNCHANGED vars
  BY <1>5 DEF vars, server, StoredIsKnown
<1> QED BY <1>1, <1>2, <1>3, <1>4, <1>5 DEF Next, do_requset, Aside

LEMMA ResultIsGoodStep ==
    TypeOK /\ LockOwned /\ ResultIsGood /\ [Next]_vars => ResultIsGood'
<1> SUFFICES ASSUME TypeOK, LockOwned, ResultIsGood, [Next]_vars PROVE ResultIsGood'
  OBVIOUS
<1>1. ASSUME NEW w \in Workers, Aside(w) \/ Lock(w) PROVE ResultIsGood'
  BY <1>1, AsideFacts DEF ResultIsGood
<1>2. ASSUME NEW w \in Workers, Query(w) PROVE ResultIsGood'
  BY <1>2, QueryFacts, QueryMoves DEF ResultIsGood
<1>3. ASSUME NEW w \in Workers, Insert(w) PROVE ResultIsGood'
  BY <1>3, InsertFacts DEF ResultIsGood
<1>4. CASE Restart
  BY <1>4, RestartFacts DEF ResultIsGood
<1>5. CASE UNCHANGED vars
  BY <1>5 DEF vars, server, ResultIsGood
<1> QED BY <1>1, <1>2, <1>3, <1>4, <1>5 DEF Next, do_requset, Aside

LEMMA InvInit == Init => AccountsInv
<1> SUFFICES ASSUME Init PROVE AccountsInv
  OBVIOUS
<1>1. TypeOK
  BY TypeInit
<1>2. LockOwned /\ ResultIsTrue /\ ResultIsGood /\ ToldIsStored
  BY AccountsAssumption DEF Init, LockOwned, ResultIsTrue, ResultIsGood, ToldIsStored
<1>3. users = Loaded /\ table \in Seq(Row)
  BY <1>1 DEF Init, TypeOK
<1>4. StoredIsKnown
  <2>1. ASSUME NEW i \in DOMAIN table PROVE users[table[i].name] # NoAccount
    <3>1. i \in RowsOf(table[i].name) /\ table[i].name \in Names
      BY <1>3, RowsTyped DEF RowsOf
    <3>2. PICK j \in RowsOf(table[i].name) : users[table[i].name] = table[j].password
      BY <1>3, <3>1, LoadedValue
    <3> QED BY <1>3, <3>2, RowsTyped, AccountsAssumption DEF RowsOf
  <2> QED BY <2>1 DEF StoredIsKnown
<1> QED BY <1>1, <1>2, <1>4 DEF AccountsInv

LEMMA InvStep == AccountsInv /\ [Next]_vars => AccountsInv'
BY TypeStep, LockOwnedStep, ResultIsTrueStep, ResultIsGoodStep, ToldIsStoredStep,
   StoredIsKnownStep DEF AccountsInv

\* The invariant holds in every state of the server.
LEMMA Invariant == Spec => []AccountsInv
BY InvInit, InvStep, PTL DEF Spec

\* Every step of a worker and every restart keeps the types.
THEOREM TypeCorrect == Spec => []TypeOK
BY TypeInit, TypeStep, PTL DEF Spec

\* Whatever queries fail and whenever the server is killed, an account a
\* client was told of is in the table.
THEOREM ToldIsStoredHolds == Spec => []ToldIsStored
<1>1. AccountsInv => ToldIsStored
  BY DEF AccountsInv
<1> QED BY <1>1, Invariant, PTL

\* The map has every name of the table, but for the row just added.
THEOREM StoredIsKnownHolds == Spec => []StoredIsKnown
<1>1. AccountsInv => StoredIsKnown
  BY DEF AccountsInv
<1> QED BY <1>1, Invariant, PTL

(***************************************************************************)
(* The refinement of AccountSet                                            *)
(***************************************************************************)
\* The accounts the table keeps.
kept == {<<table[i].name, table[i].password>> : i \in DOMAIN table}

setVars == <<kept, users, told, ~reliable, restarts>>

\* What initmysql_result() loads is what the abstract server may know.
LEMMA LoadedIsLoad ==
    ASSUME table \in Seq(Row)
    PROVE  Loaded \in Set!Loads
<1>1. ASSUME NEW n \in Names
      PROVE  IF Set!Stored(n) = {} THEN Loaded[n] = NoAccount ELSE Loaded[n] \in Set!Stored(n)
  <2>1. CASE RowsOf(n) = {}
    <3>1. Set!Stored(n) = {}
      BY <2>1 DEF Set!Stored, RowsOf
    <3> QED BY <2>1, <3>1, LoadedValue
  <2>2. CASE RowsOf(n) # {}
    <3>1. PICK i \in RowsOf(n) : Loaded[n] = table[i].password
      BY <2>2, LoadedValue
    <3>2. i \in DOMAIN table /\ table[i].name = n /\ table[i].password \in Passwords
      BY RowsTyped DEF RowsOf
    <3>3. Loaded[n] \in Set!Stored(n)
      BY <3>1, <3>2 DEF Set!Stored
    <3> QED BY <3>3
  <2> QED BY <2>1, <2>2
<1> QED BY <1>1, LoadedType DEF Set!Loads

LEMMA SetInit == Init => Set!Init
<1> SUFFICES ASSUME Init PROVE Set!Init
  OBVIOUS
<1>1. table \in Seq(Row) /\ users = Loaded /\ told = {} /\ reliable \in BOOLEAN /\ restarts = 0
  BY TypeInit DEF TypeOK, Init
<1>2. kept \subseteq Names \X Passwords
  BY <1>1, RowsTyped DEF kept
<1>3. users \in Set!Loads
  BY <1>1, LoadedIsLoad
<1> QED BY <1>1, <1>2, <1>3 DEF Set!Init, kept

LEMMA SetStep == AccountsInv /\ [Next]_vars => [Set!Next]_setVars
<1> SUFFICES ASSUME AccountsInv, [Next]_vars PROVE [Set!Next]_setVars
  OBVIOUS
<1>0. TypeOK /\ LockOwned
  BY DEF AccountsInv
<1>1. ASSUME NEW w \in Workers, Aside(w) \/ Lock(w) PROVE UNCHANGED setVars
  <2>1. restarts' = restarts
    BY <1>1 DEF Aside, Lock, Receive, StaticPage, Login, NameTaken, NameFree
  <2> QED BY <1>0, <1>1, <2>1, AsideFacts DEF setVars, kept
<1>2. ASSUME NEW w \in Workers, Query(w) PROVE [Set!Next]_setVars
  <2> DEFINE n == job[w].name
             p == job[w].password
  <2>1. n \in Names /\ p \in Passwords
    BY <1>0, JobType
  <2>2. UNCHANGED <<users, told, reliable, restarts>>
    BY <1>2 DEF Query
  <2>3. CASE table' = table
    BY <2>2, <2>3 DEF setVars, kept
  <2>4. CASE table' # table
    <3>1. RowIn(w).name = n /\ RowIn(w).password = p
      BY DEF RowIn
    <3>2. kept' = kept \cup {<<n, p>>}
      <4>1. kept \cup {<<n, p>>} \subseteq kept'
        BY <1>0, <1>2, <2>4, <3>1, QueryFacts DEF kept
      <4>2. kept' \subseteq kept \cup {<<n, p>>}
        BY <1>0, <1>2, <3>1, QueryFacts DEF kept
      <4> QED BY <4>1, <4>2
    <3>3. (~reliable)' = ~reliable
      BY <2>2
    <3>4. \E a \in Names, b \in Passwords : Set!Store(a, b)
      BY <2>1, <2>2, <3>2, <3>3, Zenon DEF Set!Store, kept
    <3>5. Set!Next
      BY <3>4, Zenon DEF Set!Next
    <3> QED BY <3>5
  <2> QED BY <2>3, <2>4
<1>3. ASSUME NEW w \in Workers, Insert(w) PROVE Set!Next
  <2> DEFINE n == job[w].name
             p == job[w].password
  <2>1. n \in Names /\ p \in Passwords
    BY <1>0, JobType
  <2>2. pc[w] = "insert" /\ UNCHANGED <<table, reliable, restarts>>
    BY <1>3 DEF Insert
  <2>3. users' = [users EXCEPT ![n] = IF @ = NoAccount THEN p ELSE @]
    BY <1>3 DEF Insert, insert
  <2>4. res[w] => <<n, p>> \in kept
    BY <2>2 DEF AccountsInv, ResultIsTrue, kept
  <2>5. <<n, p>> \in kept \/ ~reliable
    BY <2>2, <2>4 DEF AccountsInv, ResultIsGood
  <2>6. told' = told \/ (res[w] /\ told' = told \cup {<<n, p>>})
    BY <1>3 DEF Insert, Registered
  <2>7. Set!Admit(n, p)
    BY <2>2, <2>3, <2>4, <2>5, <2>6 DEF Set!Admit, kept
  <2> QED BY <2>1, <2>7 DEF Set!Next
<1>4. CASE Restart
  <2>1. /\ users' = Loaded /\ restarts' = restarts + 1
        /\ UNCHANGED <<table, told, reliable>>
    BY <1>4 DEF Restart
  <2>2. users' \in Set!Loads
    BY <1>0, <2>1, LoadedIsLoad DEF TypeOK
  <2>3. Set!Restart
    BY <2>1, <2>2 DEF Set!Restart, kept
  <2> QED BY <2>3 DEF Set!Next
<1>5. CASE UNCHANGED vars
  BY <1>5 DEF vars, server, setVars, kept
<1> QED
  BY <1>1, <1>2, <1>3, <1>4, <1>5 DEF Next, do_requset, Aside

\* Whatever queries fail and whenever the server is killed: a stored account
\* stays, a name keeps its password until a restart, and a client is told only
\* of a stored account.  The table needs no key for it.
THEOREM AccountSetImplemented == Spec => AccountSetSpec
<1>1. Init => Set!Init
  BY SetInit
<1>2. AccountsInv /\ [Next]_vars =>
          [Set!Next]_<<{<<table[i].name, table[i].password>> : i \in DOMAIN table},
                       users, told, ~reliable, restarts>>
  BY SetStep DEF setVars, kept
<1> QED BY <1>1, <1>2, Invariant, PTL DEF Spec, AccountSetSpec, Set!Spec
=============================================================================
