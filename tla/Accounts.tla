------------------------------ MODULE Accounts ------------------------------
(***************************************************************************)
(* Registration and login (do_requset in http_conn.cpp): the map users,    *)
(* under m_lock only where it is changed, and the table user in MySQL, as  *)
(* src/myTiny/README.md:30-33 creates it: no column is a key.  The server  *)
(* may be killed at any time and started again.                            *)
(*                                                                         *)
(* users.find() takes no lock.  While another worker is in users.insert()  *)
(* the tree it searches is being rebalanced, and it may miss a name.       *)
(***************************************************************************)
EXTENDS Integers, Sequences, FiniteSets

CONSTANTS
    Workers, Names, Passwords,
    NoAccount,    \* no password: the name is not in the map
    NoWorker,     \* m_lock is free
    Requests,     \* what clients send, a set of Request
    MaxRows,      \* bound: rows of the table at first
    MaxRequests,  \* bound: requests in all
    MaxRestarts   \* bound: how often the server is started again

\* The character after the last "/", "other" for any not treated; POST.
Digits  == {"0", "1", "2", "3", "5", "6", "7", "other"}
Request == [digit : Digits, cgi : BOOLEAN, name : Names, password : Passwords]

ASSUME AccountsAssumption ==
    /\ NoAccount \notin Passwords /\ NoWorker \notin Workers
    /\ Requests \subseteq Request /\ Requests # {}
    /\ MaxRows \in Nat /\ MaxRequests \in Nat /\ MaxRestarts \in Nat

VARIABLES
    reliable,  \* no query fails
    table,     \* rows of the table user, in the order of their insertion
    users, m_lock,
    pc,        \* where each worker is
    job,       \* the request it treats
    res,       \* !res, its mysql_query() succeeded; FALSE where it is not used
    page,      \* the page of its last response
    told,      \* accounts whose registration was answered with log.html
    requests, restarts

server == <<users, m_lock, pc, job, res, page>>
vars == <<reliable, table, server, told, requests, restarts>>

Row == [name : Names, password : Passwords]
Pages == {"none", "register", "log", "welcome", "logError", "registerError",
          "picture", "video", "fans", "url"}

\* Indices of the rows of a name.
RowsOf(n) == {i \in DOMAIN table : table[i].name = n}

\* initmysql_result(): a later row replaces an earlier one.
Loaded ==
    [n \in Names |->
        IF RowsOf(n) = {} THEN NoAccount
        ELSE table[CHOOSE i \in RowsOf(n) : \A j \in RowsOf(n) : j <= i].password]

Init ==
    /\ reliable \in BOOLEAN
    /\ table \in UNION {[1 .. n -> Row] : n \in 0 .. MaxRows}
    /\ users = Loaded /\ m_lock = NoWorker
    /\ pc = [w \in Workers |-> "idle"] /\ res = [w \in Workers |-> FALSE]
    /\ page = [w \in Workers |-> "none"]
    /\ job = [w \in Workers |-> CHOOSE r \in Requests : TRUE]
    /\ told = {} /\ requests = 0 /\ restarts = 0

goto(w, there) == pc' = [pc EXCEPT ![w] = there]

answer(w, p) == goto(w, "idle") /\ page' = [page EXCEPT ![w] = p]

Receive(w) ==
    /\ pc[w] = "idle" /\ requests < MaxRequests
    /\ \E r \in Requests : job' = [job EXCEPT ![w] = r]
    /\ goto(w, "do_requset") /\ page' = [page EXCEPT ![w] = "none"]
    /\ requests' = requests + 1
    /\ UNCHANGED <<reliable, table, users, m_lock, res, told, restarts>>

(***************************************************************************)
(* do_requset()                                                            *)
(***************************************************************************)
\* The form of a request that is about accounts: "2" login, "3" registration.
isCgi(w) == job[w].cgi /\ job[w].digit \in {"2", "3"}

PageOf(digit) ==
    CASE digit = "0" -> "register" [] digit = "1" -> "log"
      [] digit = "5" -> "picture"  [] digit = "6" -> "video" [] digit = "7" -> "fans"
      [] OTHER       -> "url"

StaticPage(w) ==
    /\ pc[w] = "do_requset" /\ ~isCgi(w)
    /\ answer(w, PageOf(job[w].digit))
    /\ UNCHANGED <<reliable, table, users, m_lock, job, res, told, requests, restarts>>

\* The two answers of users.find(name) in worker w.
Finds(w)  == users[job[w].name] # NoAccount
Misses(w) == users[job[w].name] = NoAccount \/ \E v \in Workers \ {w} : pc[v] = "insert"

\* Mutant: only users[name] is asked, which adds a name it does not find.
AddsEmpty(w) ==
    /\ pc[w] = "do_requset" /\ isCgi(w) /\ job[w].digit = "2"
    /\ users' = [users EXCEPT ![job[w].name] = IF @ = NoAccount THEN "" ELSE @]
    /\ answer(w, IF users[job[w].name] = job[w].password THEN "welcome" ELSE "logError")
    /\ UNCHANGED <<reliable, table, m_lock, job, res, told, requests, restarts>>

\* users[name] is taken to find what users.find(name) found.
Login(w) ==
    /\ pc[w] = "do_requset" /\ isCgi(w) /\ job[w].digit = "2"
    /\ \/ /\ Finds(w)
          /\ answer(w, IF users[job[w].name] = job[w].password THEN "welcome" ELSE "logError")
       \/ Misses(w) /\ answer(w, "logError")
    /\ UNCHANGED <<reliable, table, users, m_lock, job, res, told, requests, restarts>>

registers(w) == pc[w] = "do_requset" /\ isCgi(w) /\ job[w].digit = "3"

NameTaken(w) ==
    /\ registers(w) /\ Finds(w)
    /\ answer(w, "registerError")
    /\ UNCHANGED <<reliable, table, users, m_lock, job, res, told, requests, restarts>>

NameFree(w) ==
    /\ registers(w) /\ Misses(w)
    /\ goto(w, "lock")
    /\ UNCHANGED <<reliable, table, users, m_lock, job, res, page, told, requests, restarts>>

Lock(w) ==
    /\ pc[w] = "lock" /\ m_lock = NoWorker
    /\ m_lock' = w
    /\ goto(w, "mysql_query")
    /\ UNCHANGED <<reliable, table, users, job, res, page, told, requests, restarts>>

\* INSERT adds the row and says so; when the database fails it says that it
\* did not, whether the row was added or not.
Inserted(w, ok) ==
    \/ /\ table' = Append(table, [name |-> job[w].name, password |-> job[w].password])
       /\ ok \/ ~reliable
    \/ ~ok /\ ~reliable /\ UNCHANGED table

Query(w) ==
    /\ pc[w] = "mysql_query"
    /\ \E ok \in BOOLEAN : Inserted(w, ok) /\ res' = [res EXCEPT ![w] = ok]
    /\ goto(w, "insert")
    /\ UNCHANGED <<reliable, users, m_lock, job, page, told, requests, restarts>>

\* Mutant: as users[name] = password.
Overwrites(n, p) == users' = [users EXCEPT ![n] = p]

\* map::insert() leaves a name that is there alone.
insert(n, p) == users' = [users EXCEPT ![n] = IF @ = NoAccount THEN p ELSE @]

\* Mutant: unlock() only after a successful query.
UnlocksIfAdded(w) == m_lock' = IF res[w] THEN NoWorker ELSE m_lock

unlock(w) == m_lock' = NoWorker

\* Mutant: log.html whatever the query said.
AlwaysLog(w) ==
    /\ answer(w, "log")
    /\ told' = told \cup {<<job[w].name, job[w].password>>}

\* The page for a client whose name was free.
Registered(w) ==
    \/ res[w] /\ answer(w, "log") /\ told' = told \cup {<<job[w].name, job[w].password>>}
    \/ ~res[w] /\ answer(w, "registerError") /\ UNCHANGED told

\* Mutant: the map is changed only after a successful query.
InsertIfAdded(w) ==
    /\ pc[w] = "insert"
    /\ IF res[w] THEN insert(job[w].name, job[w].password) ELSE UNCHANGED users
    /\ unlock(w)
    /\ Registered(w)
    /\ res' = [res EXCEPT ![w] = FALSE]
    /\ UNCHANGED <<reliable, table, job, requests, restarts>>

Insert(w) ==
    /\ pc[w] = "insert"
    /\ insert(job[w].name, job[w].password)
    /\ unlock(w)
    /\ Registered(w)
    /\ res' = [res EXCEPT ![w] = FALSE]
    /\ UNCHANGED <<reliable, table, job, requests, restarts>>

\* The server is killed and started: initmysql_result().
Restart ==
    /\ restarts < MaxRestarts
    /\ restarts' = restarts + 1
    /\ users' = Loaded /\ m_lock' = NoWorker
    /\ pc' = [w \in Workers |-> "idle"] /\ res' = [w \in Workers |-> FALSE]
    /\ page' = [w \in Workers |-> "none"]
    /\ UNCHANGED <<reliable, table, job, told, requests>>

do_requset(w) ==
    \/ StaticPage(w) \/ Login(w) \/ NameTaken(w) \/ NameFree(w)
    \/ Lock(w) \/ Query(w) \/ Insert(w)

Next == Restart \/ \E w \in Workers : Receive(w) \/ do_requset(w)

Spec == Init /\ [][Next]_vars

\* Workers run, and a mutex that becomes free again and again is got.
FairSpec ==
    Spec /\ \A w \in Workers : WF_vars(do_requset(w)) /\ SF_vars(Lock(w))

(***************************************************************************)
(* Properties                                                              *)
(***************************************************************************)
\* The type invariant.
TypeOK ==
    /\ reliable \in BOOLEAN
    /\ table \in Seq(Row)
    /\ users \in [Names -> Passwords \cup {NoAccount}]
    /\ m_lock \in Workers \cup {NoWorker}
    /\ pc \in [Workers -> {"idle", "do_requset", "lock", "mysql_query", "insert"}]
    /\ job \in [Workers -> Requests]
    /\ res \in [Workers -> BOOLEAN]
    /\ page \in [Workers -> Pages]
    /\ told \subseteq Names \X Passwords
    /\ requests \in Nat /\ restarts \in Nat

\* A client that was shown log.html after it registered has a row in the
\* table, whatever queries fail and whenever the server is killed.
ToldIsStored ==
    \A t \in told : \E i \in DOMAIN table : table[i] = [name |-> t[1], password |-> t[2]]

\* The map knows every name of the table, except one that a worker between
\* mysql_query() and users.insert() has just added (http_conn.cpp:518-519):
\* who looks for a name in the map need not ask the table.
StoredIsKnown ==
    \A i \in DOMAIN table :
        \/ users[table[i].name] # NoAccount
        \/ \E w \in Workers : pc[w] = "insert" /\ job[w].name = table[i].name

\* Registration is safe with any number of threads ("用户注册及多线程注册安全",
\* src/myTiny/CGImysql/README.md:13): where no query fails a name is registered
\* once.  Two workers that register one name at a time both miss it in the map
\* before either takes m_lock (http_conn.cpp:515-517), and both add a row.
RegisteredOnce ==
    reliable => \A i, j \in DOMAIN table : table[i].name = table[j].name => i = j

Set == INSTANCE AccountSet WITH
    accounts <- {<<table[i].name, table[i].password>> : i \in DOMAIN table},
    login <- users, fails <- ~reliable, starts <- restarts

\* With any number of workers, failing queries and restarts: a stored account
\* stays, the password a name logs in with changes only where the server is
\* started again, and is then one of the table's; a client is told only of a
\* stored account; and while no query fails none but stored accounts log in.
AccountSetSpec == Set!Spec

\* A registration ends with a page, and so gives the mutex back
\* (http_conn.cpp:517-528).
EveryRequestGetsAPage ==
    \A w \in Workers : pc[w] = "do_requset" ~> pc[w] = "idle"
=============================================================================
