---------------------------- MODULE TimerQueue ----------------------------
(***************************************************************************)
(* What Timer promises the event loop, in one page: each descriptor has at *)
(* most one deadline, Tick fires what is due, each once and the earliest   *)
(* first, leaves nothing due behind, and the loop is told how long it may  *)
(* sleep.                                                                  *)
(*                                                                         *)
(* Timer.tla implements this with a binary heap and an index into it.      *)
(***************************************************************************)
EXTENDS Integers

CONSTANTS Fds,     \* the keys of timers
          Delays,  \* the timeouts that are asked for, in milliseconds
          None

VARIABLES deadline,  \* descriptor -> when its timer expires, or None
          now,       \* the monotonic clock
          limit,     \* the time at which the Tick under way began, or None
          answer     \* what GetNextTick returned

vars == <<deadline, now, limit, answer>>

Pending == {fd \in Fds : deadline[fd] # None}

\* fd has a deadline and no other one is earlier.
Earliest(fd) ==
  /\ fd \in Pending
  /\ \A other \in Pending : deadline[fd] <= deadline[other]

Init == /\ deadline = [fd \in Fds |-> None]
        /\ now = 0
        /\ limit = None
        /\ answer = -1

Set(fd, delay) == /\ deadline' = [deadline EXCEPT ![fd] = now + delay]
                  /\ UNCHANGED <<now, limit, answer>>

Remove(fd) == /\ deadline' = [deadline EXCEPT ![fd] = None]
              /\ UNCHANGED <<now, limit, answer>>

BeginTick == /\ limit = None
             /\ limit' = now
             /\ UNCHANGED <<deadline, now, answer>>

Fire(fd) == /\ limit # None
            /\ Earliest(fd)
            /\ deadline[fd] <= limit
            /\ deadline' = [deadline EXCEPT ![fd] = None]
            /\ UNCHANGED <<now, limit, answer>>

EndTick == /\ limit # None
           /\ \A fd \in Pending : deadline[fd] > limit
           /\ limit' = None
           /\ UNCHANGED <<deadline, now, answer>>

\* -1 is for ever; else the loop wakes up when the earliest timer expires.
Answer == /\ limit = None
          /\ \/ Pending = {} /\ answer' = -1
             \/ \E fd \in Fds :
                  /\ Earliest(fd)
                  /\ answer' = IF deadline[fd] > now THEN deadline[fd] - now ELSE 0
          /\ UNCHANGED <<deadline, now, limit>>

Elapse == /\ now' = now + 1
          /\ UNCHANGED <<deadline, limit, answer>>

Next == \/ \E fd \in Fds, delay \in Delays : Set(fd, delay)
        \/ \E fd \in Fds : Remove(fd) \/ Fire(fd)
        \/ BeginTick \/ EndTick \/ Answer \/ Elapse

Spec == Init /\ [][Next]_vars
=============================================================================
