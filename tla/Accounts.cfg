\* Two threads, and three requests, so that two registrations of a name may
\* overlap and a login follows.
SPECIFICATION AccountsSpec
CONSTANTS
  Threads = {t1, t2}
  Usernames <- Names
  Passwords <- Words
  Salts = {"salt", "pepper"}
  Forms <- Bodies
  Seeds <- InitSql
  MaxRequests = 3
  None = None
INVARIANTS
  ConnectionsClean
  AnswersTrue
  LoginsRight
\* The requests end.
CHECK_DEADLOCK FALSE
