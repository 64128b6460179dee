---------------------------- MODULE RequestReply ----------------------------
(***************************************************************************)
(* What a caller may assume of FetchEx: the call returns, once, with a     *)
(* response only if a handler sent one for this very request, and with an  *)
(* error otherwise.  An answer does not oblige the call to return it: the  *)
(* timer may win the race.                                                 *)
(***************************************************************************)
CONSTANT Calls

VARIABLES
  status,    \* "idle", "active" or how the call returned
  answered   \* a handler has responded to the request

rvars == <<status, answered>>

RInit ==
  /\ status = [c \in Calls |-> "idle"]
  /\ answered = [c \in Calls |-> FALSE]

Issue(c) ==
  /\ status[c] = "idle"
  /\ status' = [status EXCEPT ![c] = "active"]
  /\ UNCHANGED answered

Answer(c) ==
  /\ status[c] # "idle"
  /\ answered' = [answered EXCEPT ![c] = TRUE]
  /\ UNCHANGED status

ReturnReply(c) ==
  /\ status[c] = "active"
  /\ answered[c]
  /\ \E o \in {"reply", "error"} : status' = [status EXCEPT ![c] = o]
  /\ UNCHANGED answered

ReturnFailure(c) ==
  /\ status[c] = "active"
  /\ \E o \in {"timeout", "refused"} : status' = [status EXCEPT ![c] = o]
  /\ UNCHANGED answered

Return(c) == ReturnReply(c) \/ ReturnFailure(c)

RNext == \E c \in Calls : Issue(c) \/ Answer(c) \/ Return(c)

RSpec == RInit /\ [][RNext]_rvars

\* Every call returns, answered or not.
EveryCallReturns ==
  \A c \in Calls : (status[c] = "active") ~> (status[c] # "active")
=============================================================================
