----------------------------- MODULE MCAccounts -----------------------------
(* Accounts with a few names and passwords.                                *)
EXTENDS Accounts

Name(key, length, plain, case) ==
  [key |-> key, length |-> length, plain |-> plain, case |-> case]

Ann    == Name("ann", 3, TRUE, "lower")
ANN    == Name("ann", 3, TRUE, "upper")
Admin  == Name("admin", 5, TRUE, "lower")
Odd    == Name("odd", 50, FALSE, "lower")
Long   == Name("long", 51, TRUE, "lower")

First  == [text |-> "first", length |-> 6]
Second == [text |-> "second", length |-> 100]
Short  == [text |-> "short", length |-> 5]

Names == {Ann, ANN, Admin, Odd, Long}
Words == {First, Second, Short}

Given(field, value) == [field |-> field, value |-> value]

Full(n, p) ==
  <<Given("username", n), Given("password", p), Given("confirmPassword", p)>>

Bodies ==
  { <<Given("password", Short)>> \o Full(Ann, First), Full(ANN, Second), Full(Admin, First),
    Full(Odd, First), Full(Long, First), Full(Ann, Short),
    <<Given("username", Ann)>>,
    <<Given("username", Ann), Given("password", First)>> }

\* As sql/init.sql makes it: the salt stored is not the one that was hashed.
InitSql == [k \in {"admin"} |-> [salt |-> "salt", hash |-> <<"another salt", "first">>]]
=============================================================================
