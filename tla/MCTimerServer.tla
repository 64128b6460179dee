---------------------------- MODULE MCTimerServer ----------------------------
(* A small instance of TimerServer: two timers, a grant whose hard limit    *)
(* leaves room for a reset, one that leaves none, and one that is refused.  *)
EXTENDS TimerServer, TLC

MCGrants == {[limit |-> 2, hard |-> 3], [limit |-> 1, hard |-> 1],
             [limit |-> 2, hard |-> 1]}

MCSymmetry == Permutations(Ids)
=============================================================================
