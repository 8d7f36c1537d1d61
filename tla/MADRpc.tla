------------------------------- MODULE MADRpc -------------------------------
(***************************************************************************)
(* What a MAD transactor promises about every request: it is transmitted at *)
(* most 1 + Retries times, it gets exactly one outcome, a reply or a timeout, *)
(* the timeout only when every transmission went unanswered, and a reply   *)
(* that comes later changes nothing.  A request is abandoned without an    *)
(* outcome only when the call that serves it (run() of the scheduler,      *)
(* _execute of a synchronous transactor) ends early.                       *)
(***************************************************************************)
EXTENDS Naturals

CONSTANTS Tid, Retries

VARIABLES running, status, sends
rpcVars == <<running, status, sends>>

Pending == {t \in Tid : status[t] = "pending"}
Answer(S, how) == status' = [t \in Tid |-> IF t \in S THEN how ELSE status[t]]

Init ==
  /\ running = FALSE
  /\ status = [t \in Tid |-> "unused"]
  /\ sends = [t \in Tid |-> 0]

Begin ==
  /\ ~running /\ running'
  /\ Answer(Pending, "dropped")
  /\ UNCHANGED sends

Issue(t) ==
  /\ running /\ status[t] = "unused"
  /\ Answer({t}, "pending")
  /\ sends' = [sends EXCEPT ![t] = 1]
  /\ UNCHANGED running

Resend(t) ==
  /\ running /\ status[t] = "pending" /\ sends[t] <= Retries
  /\ sends' = [sends EXCEPT ![t] = @ + 1]
  /\ UNCHANGED <<running, status>>

Reply(t) ==
  /\ running /\ status[t] = "pending"
  /\ Answer({t}, "reply")
  /\ UNCHANGED <<running, sends>>

TimeOut(t) ==
  /\ running /\ status[t] = "pending" /\ sends[t] = Retries + 1
  /\ Answer({t}, "timeout")
  /\ UNCHANGED <<running, sends>>

End(S) ==
  /\ running /\ ~running'
  /\ Answer(S, "dropped")
  /\ UNCHANGED sends

Next ==
  \/ Begin
  \/ \E t \in Tid : Issue(t) \/ Resend(t) \/ Reply(t) \/ TimeOut(t)
  \/ \E S \in SUBSET Pending : End(S)

Spec == Init /\ [][Next]_rpcVars
=============================================================================
