--------------------------- MODULE FunctorQueue ---------------------------
(***************************************************************************)
(* What EventLoop::QueueInLoop promises its callers, in one page: every    *)
(* functor handed over is run exactly once, in the order in which the      *)
(* functors were handed over, until the loop has stopped; a functor that   *)
(* is still queued then is never run.                                      *)
(*                                                                         *)
(* EventLoop.tla implements this specification with two vectors, a mutex,  *)
(* an eventfd and an edge-triggered epoll set.                             *)
(***************************************************************************)
EXTENDS Sequences

CONSTANT Tasks          \* the functors anybody may hand over

VARIABLES queue,        \* handed over, not run yet
          executed,     \* run, in the order in which they were run
          stopped       \* Loop() has returned

vars == <<queue, executed, stopped>>

Init == /\ queue = <<>>
        /\ executed = <<>>
        /\ stopped = FALSE

\* A thread hands a functor over; this is possible after the stop as well.
Submit(cb) == /\ queue' = Append(queue, cb)
              /\ UNCHANGED <<executed, stopped>>

\* The loop runs the oldest functor.
Run == /\ ~stopped
       /\ queue # <<>>
       /\ executed' = Append(executed, Head(queue))
       /\ queue' = Tail(queue)
       /\ UNCHANGED stopped

Stop == /\ stopped' = TRUE
        /\ UNCHANGED <<queue, executed>>

Next == \/ \E cb \in Tasks : Submit(cb)
        \/ Run
        \/ Stop

Safety == Init /\ [][Next]_vars

Spec == Safety /\ WF_vars(Run)
=============================================================================
