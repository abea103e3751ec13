------------------------------ MODULE Accounts ------------------------------
(***************************************************************************)
(* The handlers of POST /login and POST /register: IO threads that check a *)
(* form, borrow a connection, and run prepared statements one round trip   *)
(* at a time, each of which may fail, beside other threads that do the     *)
(* same; and the table users, which outlives the process.                  *)
(*                                                                         *)
(* How connections are shared is ConnectionPool.tla; here a thread gets    *)
(* one or none.  A hash is the pair of the salt and the password hashed:   *)
(* SHA-256 is taken to be free of collisions.                              *)
(***************************************************************************)
EXTENDS Integers, Sequences, Functions

CONSTANTS
  Threads,      \* the IO threads
  Usernames,    \* records: key, what the table's collation compares; length; plain
  Passwords,    \* records: text, length
  Salts,        \* what GenerateSalt may return
  Forms,        \* the bodies clients send: sequences of a field and its value
  Seeds,        \* the rows of sql/init.sql: key -> [salt, hash]
  MaxRequests,  \* bound: the requests of all clients together
  None

ASSUME SaltAssumption == Salts # {}
ASSUME RequestAssumption == MaxRequests \in Nat

Keys == {n.key : n \in Usernames}

Rows == [salt : Salts, hash : Salts \X {p.text : p \in Passwords}] \cup {Seeds[k] : k \in DOMAIN Seeds}

Answers == {"empty", "mismatch", "format", "length", "error", "taken", "failed",
            "registered", "welcome", "wrong"}

\* What a field of a form may be given; None is the empty string.
Inputs == [field : {"username"}, value : Usernames \cup {None}]
            \cup [field : {"password", "confirmPassword"}, value : Passwords \cup {None}]

ASSUME NoneAssumption == None \notin Usernames \cup Passwords \cup Rows \cup Answers

\* A password is its text.
ASSUME TextAssumption == \A p, q \in Passwords : p.text = q.text => p = q

ASSUME FormAssumption == Forms \subseteq Seq(Inputs)

VARIABLES
  users,     \* the table: key -> [salt, hash], or None
  thread,    \* thread -> where its handler is, and its local variables
  up,        \* the process is there
  requests,  \* how many have come
  told,      \* history: what clients were told of an account, and what had been
             \* confirmed to others when they asked
  confirmed  \* history: key -> the passwords whose registration was confirmed

accountsVars == <<users, thread, up, requests, told, confirmed>>

Idle == [at |-> "idle", path |-> "none", name |-> None, password |-> None,
         guard |-> FALSE, stmt |-> FALSE, row |-> None, answer |-> "none",
         before |-> {}, lost |-> FALSE]

AccountsInit ==
  /\ users = [k \in Keys |-> IF k \in DOMAIN Seeds THEN Seeds[k] ELSE None]
  /\ thread = [t \in Threads |-> Idle]
  /\ up = TRUE
  /\ requests = 0
  /\ told = {}
  /\ confirmed = [k \in Keys |-> <<>>]

-----------------------------------------------------------------------------
(* Forms and passwords.                                                    *)

\* ParseFormBody and params[name]: the last value given counts, and None stands for
\* the empty string, which is also what a field has that is not given.
Field(form, name) ==
  LET given == {i \in DOMAIN form : form[i].field = name}
  IN  IF given = {} THEN None
      ELSE form[CHOOSE i \in given : \A j \in given : j <= i].value

HashPassword(password, salt) == [salt |-> salt, hash |-> <<salt, password.text>>]

VerifyPassword(password, stored) == HashPassword(password, stored.salt) = stored

\* What a registration asks of its three fields; None if there is nothing to say.
Objection(name, password, confirm) ==
  IF password # confirm THEN "mismatch"
  ELSE IF ~name.plain THEN "format"
  ELSE IF name.length \notin 3 .. 50 \/ password.length \notin 6 .. 100 THEN "length"
  ELSE None

-----------------------------------------------------------------------------
(* A handler, from round trip to round trip.  What a thread does between   *)
(* two of them nobody sees.                                                *)

At(t, where) == up /\ thread[t].at = where

\* The handler goes on with other local variables.
Local(t, record) == thread' = [thread EXCEPT ![t] = record]

Query(t, where) ==
  Local(t, [thread[t] EXCEPT !.at = where, !.stmt = where \in {"execute", "insert"}])

\* resp is set, and what is open is closed; the guard is released afterwards.
Respond(t, answer) ==
  Local(t, [thread[t] EXCEPT !.at = "leave", !.stmt = FALSE, !.row = None, !.answer = answer])

\* A request comes to a thread that waits for one.
Begin(t, path, form) ==
  LET name     == Field(form, "username")
      password == Field(form, "password")
      objection == IF name = None \/ password = None THEN "empty"
                   ELSE IF path = "login" THEN None
                   ELSE Objection(name, password, Field(form, "confirmPassword"))
      request  == [Idle EXCEPT !.path = path, !.name = name, !.password = password]
  IN  /\ At(t, "idle")
      /\ requests < MaxRequests
      /\ requests' = requests + 1
      /\ IF objection # None
         THEN Local(t, [Idle EXCEPT !.at = "leave", !.answer = objection])
         ELSE Local(t, [request EXCEPT !.at = "guard", !.before = Range(confirmed[name.key])])
      /\ UNCHANGED <<users, up, told, confirmed>>

\* DBGuard: a connection, or nullptr, also when there is no pool.
Borrow(t) ==
  /\ At(t, "guard")
  /\ \/ Local(t, [thread[t] EXCEPT !.at = "prepare", !.guard = TRUE])
     \/ Respond(t, "error")
  /\ UNCHANGED <<users, up, requests, told, confirmed>>

\* mysql_stmt_init and mysql_stmt_prepare of a SELECT.
Prepare(t) ==
  /\ At(t, "prepare")
  /\ Query(t, "execute") \/ Respond(t, "error")
  /\ UNCHANGED <<users, up, requests, told, confirmed>>

\* Mutant: the statement stays open on the way out.
ExecuteAndForget(t) ==
  /\ At(t, "execute")
  /\ \/ Local(t, [thread[t] EXCEPT !.at = "fetch", !.row = users[thread[t].name.key]])
     \/ Local(t, [thread[t] EXCEPT !.at = "leave", !.answer = "error"])
  /\ UNCHANGED <<users, up, requests, told, confirmed>>

\* mysql_stmt_execute of a SELECT.  A registration does not look at its result,
\* and goes on to fetch from nothing.
Execute(t) ==
  /\ At(t, "execute")
  /\ \/ Local(t, [thread[t] EXCEPT !.at = "fetch", !.row = users[thread[t].name.key]])
     \/ IF thread[t].path = "login" THEN Respond(t, "error")
        ELSE Local(t, [thread[t] EXCEPT !.at = "fetch", !.row = None])
  /\ UNCHANGED <<users, up, requests, told, confirmed>>

\* mysql_stmt_fetch and mysql_stmt_close.  A row that cannot be fetched is taken for
\* none.
Fetch(t) ==
  /\ At(t, "fetch")
  /\ \E lost \in BOOLEAN :
       LET h     == [thread[t] EXCEPT !.lost = lost, !.stmt = FALSE, !.row = None]
           found == ~lost /\ thread[t].row # None
       IN  Local(t, IF h.path = "login"
                    THEN [h EXCEPT !.at = "leave",
                           !.answer = IF found /\ VerifyPassword(h.password, thread[t].row)
                                      THEN "welcome" ELSE "wrong"]
                    ELSE IF found THEN [h EXCEPT !.at = "leave", !.answer = "taken"]
                    ELSE [h EXCEPT !.at = "hash"])
  /\ UNCHANGED <<users, up, requests, told, confirmed>>

\* Mutant: a salt is stored and another one hashed, as sql/init.sql does.
HashWithTwoSalts(t) ==
  /\ At(t, "hash")
  /\ \E salt, other \in Salts :
       Local(t, [thread[t] EXCEPT !.at = "insert", !.stmt = TRUE,
                   !.row = [HashPassword(thread[t].password, salt) EXCEPT !.salt = other]])
  /\ UNCHANGED <<users, up, requests, told, confirmed>>

\* HashNewPassword, then init and prepare of the INSERT.
Hash(t) ==
  /\ At(t, "hash")
  /\ \/ \E salt \in Salts :
          Local(t, [thread[t] EXCEPT !.at = "insert", !.stmt = TRUE,
                                     !.row = HashPassword(thread[t].password, salt)])
     \/ Respond(t, "error")
  /\ UNCHANGED <<users, up, requests, told, confirmed>>

\* GenerateSalt cannot open /dev/urandom and throws, and nobody catches.
Terminate(t) ==
  /\ At(t, "hash")
  /\ up' = FALSE
  /\ thread' = [u \in Threads |-> Idle]
  /\ UNCHANGED <<users, requests, told, confirmed>>

Inserted(t) == users' = [users EXCEPT ![thread[t].name.key] = thread[t].row]

\* Mutant: REPLACE instead of INSERT.
ReplaceRow(t) ==
  /\ At(t, "insert")
  /\ \/ Inserted(t) /\ \E answer \in {"registered", "failed"} : Respond(t, answer)
     \/ UNCHANGED users /\ Respond(t, "failed")
  /\ UNCHANGED <<up, requests, told, confirmed>>

\* mysql_stmt_execute and close.  The key is UNIQUE; and a row may be in the table
\* though the reply is lost and the handler sees an error.
Insert(t) ==
  /\ At(t, "insert")
  /\ \/ /\ users[thread[t].name.key] = None
        /\ Inserted(t)
        /\ \E answer \in {"registered", "failed"} : Respond(t, answer)
     \/ UNCHANGED users /\ Respond(t, "failed")
  /\ UNCHANGED <<up, requests, told, confirmed>>

\* The answers that say something of an account.
OfAccount == {"registered", "taken", "welcome", "wrong"}

\* ~DBGuard returns the connection, and the response goes out.
Leave(t) ==
  LET h == thread[t]
  IN  /\ At(t, "leave")
      /\ Local(t, Idle)
      /\ told' = IF h.answer \notin OfAccount THEN told
                 ELSE told \cup {[name |-> h.name, password |-> h.password,
                                  answer |-> h.answer, before |-> h.before, lost |-> h.lost]}
      /\ confirmed' = IF h.answer # "registered" THEN confirmed
                      ELSE [confirmed EXCEPT ![h.name.key] = Append(@, h.password)]
      /\ UNCHANGED <<users, up, requests>>

\* The server is started again.
Restart ==
  /\ ~up
  /\ up' = TRUE
  /\ UNCHANGED <<users, thread, requests, told, confirmed>>

-----------------------------------------------------------------------------
HandlerStep(t) ==
  \/ Borrow(t) \/ Prepare(t) \/ Execute(t) \/ Fetch(t) \/ Hash(t) \/ Insert(t) \/ Leave(t)

AccountsNext ==
  \/ \E t \in Threads :
       \/ \E path \in {"login", "register"}, form \in Forms : Begin(t, path, form)
       \/ HandlerStep(t) \/ Terminate(t)
  \/ Restart

AccountsSpec == AccountsInit /\ [][AccountsNext]_accountsVars

-----------------------------------------------------------------------------
(* Properties.                                                             *)

\* Every variable has its type.
AccountsTypeOK ==
  /\ users \in [Keys -> Rows \cup {None}]
  /\ thread \in [Threads ->
       [ at : {"idle", "guard", "prepare", "execute", "fetch", "hash", "insert", "leave"},
         path : {"none", "login", "register"},
         name : Usernames \cup {None}, password : Passwords \cup {None},
         guard : BOOLEAN, stmt : BOOLEAN, row : Rows \cup {None},
         answer : Answers \cup {"none"}, before : SUBSET Passwords, lost : BOOLEAN ]]
  /\ up \in BOOLEAN
  /\ requests \in 0 .. MaxRequests
  /\ told \subseteq [name : Usernames, password : Passwords, answer : OfAccount,
                      before : SUBSET Passwords, lost : BOOLEAN]
  /\ confirmed \in [Keys -> Seq(Passwords)]

\* On every way out of a handler the statement is closed before the guard returns the
\* connection, whose ping would fail beside a result that is not fetched; and no guard
\* outlives its handler.
ConnectionsClean ==
  /\ AccountsTypeOK
  /\ \A t \in Threads :
       /\ thread[t].at \in {"leave", "idle"} => ~thread[t].stmt
       /\ thread[t].stmt => thread[t].guard
       /\ thread[t].guard => thread[t].at # "idle"

\* What clients were told of an account stays true, whatever others register at the
\* same time and however often the process dies: it exists, it has the password that
\* was registered or that opened it, and it was given to one client only.
AnswersTrue ==
  /\ \A a \in told :
       /\ a.answer \in {"registered", "taken", "welcome"} => users[a.name.key] # None
       /\ a.answer \in {"registered", "welcome"} =>
            VerifyPassword(a.password, users[a.name.key])
  /\ \A k \in Keys : Len(confirmed[k]) <= 1

\* Who has been told that an account is registered can log in with its password from
\* then on, unless the database fails, whatever case the name is written in; and the
\* same name is refused to everybody else.
LoginsRight ==
  \A a \in told :
    a.before # {} /\ ~a.lost =>
      /\ a.answer = "wrong" => a.password \notin a.before
      /\ a.answer = "welcome" => a.password \in a.before
      /\ a.answer # "registered"
=============================================================================
