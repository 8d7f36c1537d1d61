-------------------------- MODULE SATransactorProofs --------------------------
(***************************************************************************)
(* What TLAPS proves of the synchronous transactor on the kernel's device  *)
(* (UMAD), for every set of requests, answers, paths and timeouts, every   *)
(* number of retries, and however the kernel's notices and replies fall;   *)
(* and then of SATransactor over it, for every fabric, every set of paths  *)
(* and gets, whatever the SA's tables hold and whatever is lost, late or   *)
(* retried on the way to it.                                               *)
(***************************************************************************)
EXTENDS SATransactor, SeqLemmas

-----------------------------------------------------------------------------
(* The device: types.                                                      *)

\* What the constants give: the ranges of timers, replies and outcomes.
LEMMA ConstantFacts ==
  /\ \A p \in Path : Timeout[p] \in Nat \ {0} /\ KernelTimeout(Timeout[p]) \in Nat
  /\ \A r \in Request : Answers[r] \subseteq Reply
  /\ ErrorMAD \in Reply /\ Reply \subseteq Outcome
  /\ {NoReply, Raised, None} \subseteq Outcome
  /\ Tid = 1..MaxCalls /\ MaxCalls \in Nat /\ MaxFails \in Nat
  /\ Retries \in Nat /\ Half \in Nat \ {0}
  /\ NoReply \notin Reply /\ Raised \notin Reply
  BY UMADAssumption DEF KernelTimeout, Reply, Outcome, Tid

\* A device that was just opened is well typed.
LEMMA TypeInit == Init => UMADTypeOK
<1> SUFFICES ASSUME Init PROVE UMADTypeOK
  OBVIOUS
<1>1. calls \in Seq(Request \X Path) /\ current = 0 /\ fd \in Seq(MessageType)
  BY DEF Init, current
<1>2. DOMAIN tracked \subseteq 1..current /\ \A t \in DOMAIN tracked : tracked[t] \in Nat
  BY <1>1 DEF Init
<1>3. first \in BOOLEAN
  BY Zenon DEF Init
<1> QED
  BY <1>1, <1>2, <1>3, ConstantFacts DEF Init, UMADTypeOK

\* The latest call has a request and a timeout.
LEMMA CallFacts ==
  ASSUME UMADTypeOK
  PROVE  /\ current \in 0..MaxCalls
         /\ \A t \in 1..current : /\ t \in Tid
                                  /\ calls[t][1] \in Request
                                  /\ Answers[calls[t][1]] \subseteq Reply
         /\ pc # "idle" => /\ current \in Tid /\ current \in 1..current
                           /\ request \in Request /\ ClassOf[request] \in {ClassOf[r] : r \in Request}
                           /\ timeout \in Nat \ {0} /\ KernelTimeout(timeout) \in Nat
<1>1. current \in 0..MaxCalls /\ \A t \in 1..current : calls[t] \in Request \X Path
  BY ConstantFacts DEF UMADTypeOK, current
<1>2. \A t \in 1..current : t \in Tid /\ calls[t][1] \in Request /\ calls[t][2] \in Path
  BY <1>1, ConstantFacts
<1>3. ASSUME pc # "idle" PROVE current \in Tid /\ current \in 1..current
  BY <1>1, <1>3, ConstantFacts DEF UMADTypeOK
<1> QED
  BY <1>1, <1>2, <1>3, ConstantFacts DEF request, timeout

\* The first message to be read, when there is one.
LEMMA HeadFacts ==
  ASSUME UMADTypeOK, fd # <<>>
  PROVE  Head(fd) \in MessageType /\ Tail(fd) \in Seq(MessageType)
  BY DEF UMADTypeOK

\* A notice or reply of a tracked request is a message.
LEMMA MessageFacts ==
  ASSUME UMADTypeOK, NEW t \in DOMAIN tracked, NEW kind \in {"reply", "timeout", "failed"},
         NEW body \in Reply \cup {None}
  PROVE  /\ Message(kind, t, body) \in MessageType
         /\ Append(fd, Message(kind, t, body)) \in Seq(MessageType)
<1>1. t \in Tid
  BY CallFacts DEF UMADTypeOK
<1>2. Message(kind, t, body) \in MessageType
  BY <1>1 DEF Message, MessageType
<1> QED
  BY <1>2 DEF UMADTypeOK

\* Every step of the program keeps the types.
LEMMA TypeProgram ==
  ASSUME UMADTypeOK, (\E r \in Request, p \in Path : _execute(r, p)) \/ UMADStep \/ Returned
  PROVE  UMADTypeOK'
<1> USE ConstantFacts, CallFacts
<1>1. ASSUME NEW r \in Request, NEW p \in Path, _execute(r, p) PROVE UMADTypeOK'
  <2>1. calls' \in Seq(Request \X Path) /\ current' = current + 1
    BY <1>1 DEF _execute, UMADTypeOK, current
  <2>2. DOMAIN tracked' \subseteq 1..current' /\ \A t \in DOMAIN tracked' : tracked'[t] \in Nat
    BY <1>1, <2>1 DEF _execute, UMADTypeOK
  <2>3. pc' \in {"register", "send"} /\ retries' \in 0..Retries /\ current' \in 1..MaxCalls
    BY <1>1, <2>1 DEF _execute
  <2> QED
    BY <1>1, <2>1, <2>2, <2>3 DEF _execute, UMADTypeOK, rpcHistory
<1>2. CASE register_client
  BY <1>2 DEF register_client, UMADTypeOK, rpcHistory, current
<1>3. CASE SystemCallFails
  BY <1>3 DEF SystemCallFails, Raises, UMADTypeOK, rpcHistory, current
<1>4. CASE sendto
  <2>1. current \in Tid /\ pc # "idle"
    BY <1>4 DEF sendto, Issued, Resent
  <2>2. DOMAIN tracked' = DOMAIN tracked \cup {current} /\ \A t \in DOMAIN tracked' : tracked'[t] \in Nat
    BY <1>4, <2>1 DEF sendto, UMADTypeOK
  <2>3. /\ status' \in [Tid -> {"unused", "pending", "reply", "timeout", "dropped"}]
        /\ sends' \in [Tid -> Nat]
    <3>1. CASE Issued
      BY <3>1, <2>1 DEF Issued, UMADTypeOK
    <3>2. CASE Resent(TRUE)
      BY <3>2, <2>1 DEF Resent, UMADTypeOK
    <3> QED
      BY <1>4, <3>1, <3>2 DEF sendto
  <2> QED
    BY <1>4, <2>1, <2>2, <2>3 DEF sendto, recvfrom, UMADTypeOK, current
<1>5. CASE Refused
  BY <1>5 DEF Refused, Issued, UMADTypeOK, current
<1>6. CASE RetryRefused
  <2>1. current \in Tid /\ pc # "idle"
    BY <1>6 DEF RetryRefused, Resent
  <2>2. sends' \in [Tid -> Nat]
    BY <1>6, <2>1 DEF RetryRefused, Resent, UMADTypeOK
  <2> QED
    BY <1>6, <2>1, <2>2 DEF RetryRefused, Resent, recvfrom, UMADTypeOK, current
<1>7. CASE _gen_error
  BY <1>7 DEF _gen_error, Ends, UMADTypeOK, current
<1>8. CASE ReadShort
  BY <1>8 DEF ReadShort, Regrown, UMADTypeOK, rpcHistory, current
<1>9. CASE ReadTimeoutNotice
  BY <1>9, HeadFacts DEF ReadTimeoutNotice, Took, PollsAgain, UMADTypeOK, rpcHistory, current
<1>10. CASE ReadFailureNotice
  BY <1>10, HeadFacts DEF ReadFailureNotice, Took, Raises, UMADTypeOK, rpcHistory, current
<1>11. CASE ReadReply
  <2>1. Head(fd).body \in Reply \cup {None} /\ Tail(fd) \in Seq(MessageType)
    BY <1>11, HeadFacts DEF ReadReply, Took, MessageType
  <2> QED
    BY <1>11, <2>1 DEF ReadReply, Took, Ends, UMADTypeOK, current
<1>12. CASE ReadUnexpected
  BY <1>12, HeadFacts DEF ReadUnexpected, Took, recvfrom, UMADTypeOK, rpcHistory, current
<1>13. CASE ReadNothing
  BY <1>13 DEF ReadNothing, UMADTypeOK, rpcHistory, current
<1>14. CASE PollWakes
  BY <1>14 DEF PollWakes, UMADTypeOK, rpcHistory, current
<1>15. CASE PollExpires
  BY <1>15 DEF PollExpires, UMADTypeOK, rpcHistory, current
<1>16. CASE Retry
  BY <1>16 DEF Retry, LastTry, UMADTypeOK, rpcHistory, current
<1>17. CASE GiveUp
  BY <1>17 DEF GiveUp, Ends, UMADTypeOK, current
<1>18. CASE Returned
  BY <1>18 DEF Returned, UMADTypeOK, current
<1> QED
  BY <1>1, <1>2, <1>3, <1>4, <1>5, <1>6, <1>7, <1>8, <1>9, <1>10, <1>11, <1>12, <1>13, <1>14,
     <1>15, <1>16, <1>17, <1>18 DEF UMADStep

\* So does every step of the kernel and of the clock.
LEMMA TypeKernel ==
  ASSUME UMADTypeOK, KernelStep
  PROVE  UMADTypeOK'
<1> USE ConstantFacts, CallFacts
<1>1. ASSUME NEW t \in Tid, Deliver(t) PROVE UMADTypeOK'
  <2>1. PICK body \in Answers[calls[t][1]] : Queue("reply", t, body)
    BY <1>1 DEF Deliver
  <2>2. fd' \in Seq(MessageType)
    BY <1>1, <2>1, MessageFacts DEF Deliver, Queue, UMADTypeOK
  <2> QED
    BY <1>1, <2>1, <2>2 DEF Deliver, Queue, Forget, UMADTypeOK, programVars, rpcHistory, current
<1>2. ASSUME NEW t \in Tid, SendFails(t) PROVE UMADTypeOK'
  <2>1. fd' \in Seq(MessageType)
    BY <1>2, MessageFacts DEF SendFails, Queue
  <2>2. fails' \in 0..MaxFails
    BY <1>2 DEF SendFails, UMADTypeOK
  <2>3. DOMAIN tracked' \subseteq 1..current /\ \A u \in DOMAIN tracked' : tracked'[u] \in Nat
    BY <1>2 DEF SendFails, Forget, UMADTypeOK
  <2> QED
    BY <1>2, <2>1, <2>2, <2>3 DEF SendFails, Queue, UMADTypeOK, programVars, rpcHistory, current
<1>3. ASSUME NEW t \in Tid, LetGo(t) PROVE UMADTypeOK'
  <2>1. fd' \in Seq(MessageType)
    BY <1>3, MessageFacts DEF LetGo, Queue
  <2> QED
    BY <1>3, <2>1 DEF LetGo, Queue, Forget, UMADTypeOK, programVars, rpcHistory, current
<1>4. CASE Tick
  <2>1. DOMAIN tracked' = DOMAIN tracked /\ \A t \in DOMAIN tracked' : tracked'[t] \in Nat
    BY <1>4 DEF Tick, UMADTypeOK
  <2>2. left' \in Nat
    BY <1>4 DEF Tick, UMADTypeOK
  <2>3. /\ UNCHANGED <<calls, pc, agents, first, room, retries, got, fd, fails, status, sends>>
        /\ current' = current
    BY <1>4, ZenonT(30) DEF Tick, rpcHistory, current
  <2> QED
    BY <2>1, <2>2, <2>3 DEF UMADTypeOK
<1> QED
  BY <1>1, <1>2, <1>3, <1>4 DEF KernelStep, Clock

\* Every step keeps the device well typed.
LEMMA TypeInductive == UMADTypeOK /\ [Next]_umadVars => UMADTypeOK'
<1>1. UMADTypeOK /\ UNCHANGED umadVars => UMADTypeOK'
  BY DEF UMADTypeOK, umadVars, programVars, rpcHistory, current
<1> QED
  BY <1>1, TypeProgram, TypeKernel DEF Next

\* The device's state is well typed.
THEOREM UMADTyped == Spec => []UMADTypeOK
  BY TypeInit, TypeInductive, PTL DEF Spec
-----------------------------------------------------------------------------
(* recvfrom.  A read that follows one that found nothing is made only for  *)
(* what poll has seen, and nothing but the program takes it away.          *)

PolledFirst == /\ pc # "eagain"
               /\ pc = "read" /\ ~first => fd # <<>>

LEMMA PolledProgram ==
  ASSUME UMADTypeOK, PolledFirst,
         (\E r \in Request, p \in Path : _execute(r, p)) \/ UMADStep \/ Returned
  PROVE  PolledFirst'
<1>1. ASSUME NEW r \in Request, NEW p \in Path, _execute(r, p) PROVE PolledFirst'
  BY <1>1 DEF _execute, PolledFirst
<1>2. CASE register_client \/ SystemCallFails \/ Refused
  BY <1>2 DEF register_client, SystemCallFails, Raises, Refused, PolledFirst
<1>3. CASE sendto \/ RetryRefused \/ ReadUnexpected
  BY <1>3, Zenon DEF sendto, RetryRefused, ReadUnexpected, recvfrom, PolledFirst
<1>4. CASE _gen_error \/ ReadReply \/ GiveUp
  BY <1>4 DEF _gen_error, ReadReply, GiveUp, Ends, PolledFirst
<1>5. CASE ReadShort
  BY <1>5 DEF ReadShort, PolledFirst
<1>6. CASE ReadTimeoutNotice
  BY <1>6 DEF ReadTimeoutNotice, Took, PollsAgain, PolledFirst
<1>7. CASE ReadFailureNotice
  BY <1>7 DEF ReadFailureNotice, Raises, PolledFirst
<1>8. CASE ReadNothing
  BY <1>8 DEF ReadNothing, PolledFirst
<1>9. CASE PollWakes \/ PollExpires \/ Retry \/ Returned
  BY <1>9 DEF PollWakes, PollExpires, Retry, Returned, PolledFirst
<1> QED
  BY <1>1, <1>2, <1>3, <1>4, <1>5, <1>6, <1>7, <1>8, <1>9 DEF UMADStep

\* What the kernel does takes nothing from the queue.
LEMMA PolledKernel ==
  ASSUME UMADTypeOK, PolledFirst, KernelStep
  PROVE  PolledFirst'
<1>1. ASSUME NEW t \in Tid, NEW kind, NEW body, Queue(kind, t, body) PROVE PolledFirst'
  <2>1. Append(fd, Message(kind, t, body)) # <<>>
    BY DEF UMADTypeOK
  <2> QED
    BY <1>1, <2>1 DEF Queue, PolledFirst, programVars
<1>2. CASE Tick
  BY <1>2 DEF Tick, PolledFirst
<1> QED
  BY <1>1, <1>2 DEF KernelStep, Clock, Deliver, SendFails, LetGo

\* When a read is not the first try, something is queued.
LEMMA PolledInductive ==
  /\ Init => PolledFirst
  /\ UMADTypeOK /\ PolledFirst /\ [Next]_umadVars => PolledFirst'
<1>1. Init => PolledFirst
  BY DEF Init, PolledFirst
<1>2. PolledFirst /\ UNCHANGED umadVars => PolledFirst'
  BY DEF PolledFirst, umadVars, programVars
<1> QED
  BY <1>1, <1>2, PolledProgram, PolledKernel DEF Next

\* NeverEAGAIN: the EAGAIN of umad.py:273 is never raised, whatever notices and
\* replies come between the reads.
THEOREM ReadsWhatWasPolled == Spec => []NeverEAGAIN
<1>1. Init => UMADTypeOK /\ PolledFirst
  BY TypeInit, PolledInductive
<1>2. UMADTypeOK /\ PolledFirst /\ [Next]_umadVars => UMADTypeOK' /\ PolledFirst'
  BY TypeInductive, PolledInductive
<1>3. PolledFirst => NeverEAGAIN
  BY DEF PolledFirst, NeverEAGAIN
<1> QED
  BY <1>1, <1>2, <1>3, PTL DEF Spec

-----------------------------------------------------------------------------
(* The kernel's timer.  While recvfrom waits, the kernel has less time     *)
(* left for the request than the program, where umad.py:233 makes it so.   *)

SoonerLetGo ==
  pc # "idle" /\ LetsGoFirst(timeout) =>
    /\ Waits /\ current \in DOMAIN tracked => tracked[current] < left
    /\ pc \in {"expired", "resend"} => current \notin DOMAIN tracked

\* max(500, mad_timeout - 500) is less than a mad_timeout of more than half a second.
LEMMA KernelIsSooner ==
  ASSUME NEW t \in Nat, LetsGoFirst(t)
  PROVE  KernelTimeout(t) < t
  BY ConstantFacts DEF LetsGoFirst, KernelTimeout

\* The program's steps keep its deadline behind the kernel's.
LEMMA SoonerProgram ==
  ASSUME UMADTypeOK, SoonerLetGo,
         (\E r \in Request, p \in Path : _execute(r, p)) \/ UMADStep \/ Returned
  PROVE  SoonerLetGo'
<1>1. ASSUME NEW r \in Request, NEW p \in Path, _execute(r, p) PROVE SoonerLetGo'
  BY <1>1 DEF _execute, SoonerLetGo, Waits
<1>2. CASE register_client \/ SystemCallFails \/ Refused
  BY <1>2 DEF register_client, SystemCallFails, Raises, Refused, SoonerLetGo, Waits
<1>3. CASE sendto
  <2>1. pc # "idle" /\ timeout \in Nat
    BY <1>3, CallFacts DEF sendto, Issued, Resent
  <2>2. tracked'[current] = KernelTimeout(timeout) /\ left' = timeout
    BY <1>3 DEF sendto
  <2>3. timeout' = timeout /\ current' = current
    BY <1>3 DEF sendto, timeout, current
  <2>4. pc' = "read"
    BY <1>3 DEF sendto, recvfrom
  <2> QED
    BY <2>1, <2>2, <2>3, <2>4, KernelIsSooner DEF SoonerLetGo, LetsGoFirst
<1>4. CASE RetryRefused
  <2>1. ~LetsGoFirst(timeout)
    BY <1>4 DEF RetryRefused, Resent, SoonerLetGo
  <2> QED
    BY <1>4, <2>1 DEF RetryRefused, SoonerLetGo, timeout, current, LetsGoFirst
<1>5. CASE _gen_error \/ ReadReply \/ GiveUp
  BY <1>5 DEF _gen_error, ReadReply, GiveUp, Ends, SoonerLetGo, Waits
<1>6. CASE ReadShort
  BY <1>6 DEF ReadShort, SoonerLetGo, Waits, timeout, current, LetsGoFirst
<1>7. CASE ReadTimeoutNotice
  BY <1>7 DEF ReadTimeoutNotice, Took, SoonerLetGo, Waits, timeout, current, LetsGoFirst
<1>8. CASE ReadFailureNotice
  BY <1>8 DEF ReadFailureNotice, Raises, SoonerLetGo, Waits
<1>9. CASE ReadUnexpected
  BY <1>9 DEF ReadUnexpected, Took, recvfrom, SoonerLetGo, Waits, timeout, current, LetsGoFirst
<1>10. CASE ReadNothing
  <2>1. pc = "read" /\ left = 0 /\ LetsGoFirst(timeout) => current \notin DOMAIN tracked
    BY DEF SoonerLetGo, Waits, UMADTypeOK
  <2> QED
    BY <1>10, <2>1 DEF ReadNothing, SoonerLetGo, Waits, timeout, current, LetsGoFirst
<1>11. CASE PollWakes
  BY <1>11 DEF PollWakes, SoonerLetGo, Waits, timeout, current, LetsGoFirst
<1>12. CASE PollExpires
  <2>1. pc = "poll" /\ left = 0 /\ LetsGoFirst(timeout) => current \notin DOMAIN tracked
    BY DEF SoonerLetGo, Waits, UMADTypeOK
  <2> QED
    BY <1>12, <2>1 DEF PollExpires, SoonerLetGo, Waits, timeout, current, LetsGoFirst
<1>13. CASE Retry
  BY <1>13 DEF Retry, SoonerLetGo, Waits, timeout, current, LetsGoFirst
<1>14. CASE Returned
  BY <1>14 DEF Returned, SoonerLetGo
<1> QED
  BY <1>1, <1>2, <1>3, <1>4, <1>5, <1>6, <1>7, <1>8, <1>9, <1>10, <1>11, <1>12, <1>13, <1>14
     DEF UMADStep

\* So do the kernel's.
LEMMA SoonerKernel ==
  ASSUME UMADTypeOK, SoonerLetGo, KernelStep
  PROVE  SoonerLetGo'
<1>1. ASSUME NEW t \in Tid, NEW kind, NEW body, Queue(kind, t, body), Forget(t)
      PROVE  SoonerLetGo'
  BY <1>1 DEF Queue, Forget, SoonerLetGo, Waits, timeout, current, LetsGoFirst, programVars
<1>2. CASE Tick
  <2>1. current \in DOMAIN tracked => tracked[current] \in Nat \ {0}
    BY <1>2 DEF Tick, UMADTypeOK
  <2>2. left \in Nat
    BY DEF UMADTypeOK
  <2>3. current \in DOMAIN tracked /\ tracked[current] < left =>
          tracked'[current] < left' /\ left' = left - 1
    BY <1>2, <2>1, <2>2 DEF Tick
  <2>4. DOMAIN tracked' = DOMAIN tracked
    BY <1>2 DEF Tick
  <2> QED
    BY <1>2, <2>3, <2>4 DEF Tick, SoonerLetGo, Waits, timeout, current, LetsGoFirst
<1> QED
  BY <1>1, <1>2 DEF KernelStep, Clock, Deliver, SendFails, LetGo

\* The kernel lets go of a request before the program retries it.
LEMMA SoonerInductive ==
  /\ Init => SoonerLetGo
  /\ UMADTypeOK /\ SoonerLetGo /\ [Next]_umadVars => SoonerLetGo'
<1>1. Init => SoonerLetGo
  BY DEF Init, SoonerLetGo
<1>2. SoonerLetGo /\ UNCHANGED umadVars => SoonerLetGo'
  BY DEF SoonerLetGo, umadVars, programVars, Waits, timeout, current, LetsGoFirst
<1> QED
  BY <1>1, <1>2, SoonerProgram, SoonerKernel DEF Next

\* RetryUnblocked: a request the kernel is to let go of first is never refused
\* when it is retransmitted (the comment at umad.py:227-233).
THEOREM RetransmissionsGoOut == Spec => []RetryUnblocked
<1>1. Init => UMADTypeOK /\ SoonerLetGo
  BY TypeInit, SoonerInductive
<1>2. UMADTypeOK /\ SoonerLetGo /\ [Next]_umadVars => UMADTypeOK' /\ SoonerLetGo'
  BY TypeInductive, SoonerInductive
<1>3. SoonerLetGo => RetryUnblocked
  BY DEF SoonerLetGo, RetryUnblocked
<1> QED
  BY <1>1, <1>2, <1>3, PTL DEF Spec

-----------------------------------------------------------------------------
(* Matching.  A reply that waits to be read answers the request that had   *)
(* its transaction ID, however long ago that was.                          *)

MessagesAnswer ==
  \A i \in 1..Len(fd) : fd[i].kind = "reply" =>
    fd[i].tid \in 1..current /\ fd[i].body \in Answers[calls[fd[i].tid][1]]

Answered == MessagesAnswer /\ OwnAnswer

\* What is left to be read after the first message still answers.
LEMMA AnsweredTail ==
  ASSUME UMADTypeOK, MessagesAnswer, fd # <<>>, fd' = Tail(fd), calls' = calls
  PROVE  /\ MessagesAnswer'
         /\ Head(fd).kind = "reply" => Head(fd).body \in Answers[calls[Head(fd).tid][1]]
<1>1. /\ Len(fd) \in Nat \ {0} /\ Len(fd') = Len(fd) - 1 /\ Head(fd) = fd[1]
      /\ \A i \in 1..Len(fd') : fd'[i] = fd[i + 1] /\ i + 1 \in 1..Len(fd)
  BY DEF UMADTypeOK
<1> QED
  BY <1>1 DEF MessagesAnswer, current

\* The program's steps queue no reply and reuse no number.
LEMMA AnsweredProgram ==
  ASSUME UMADTypeOK, Answered,
         (\E r \in Request, p \in Path : _execute(r, p)) \/ UMADStep \/ Returned
  PROVE  Answered'
<1>1. ASSUME NEW r \in Request, NEW p \in Path, _execute(r, p) PROVE Answered'
  <2>1. current' = current + 1 /\ \A t \in 1..current : calls'[t] = calls[t] /\ t \in 1..current'
    BY <1>1, CallFacts DEF _execute, current, UMADTypeOK
  <2>2. fd' = fd /\ pc' # "returned"
    BY <1>1 DEF _execute
  <2> QED
    BY <2>1, <2>2 DEF Answered, MessagesAnswer, OwnAnswer
<1>2. CASE fd' = fd /\ calls' = calls /\ pc' # "returned"
  BY <1>2 DEF Answered, MessagesAnswer, OwnAnswer, current
<1>3. CASE ReadShort
  BY <1>3 DEF ReadShort, Answered, MessagesAnswer, OwnAnswer, current
<1>4. CASE SystemCallFails \/ _gen_error \/ GiveUp
  BY <1>4 DEF SystemCallFails, Raises, _gen_error, GiveUp, Ends, Answered, MessagesAnswer,
              OwnAnswer, current
<1>5. CASE ReadTimeoutNotice \/ ReadUnexpected
  BY <1>5, AnsweredTail DEF ReadTimeoutNotice, ReadUnexpected, Took, recvfrom, Answered, OwnAnswer
<1>6. CASE ReadFailureNotice
  BY <1>6, AnsweredTail DEF ReadFailureNotice, Took, Raises, Answered, OwnAnswer
<1>7. CASE ReadReply
  <2>1. MessagesAnswer' /\ Head(fd).body \in Answers[request]
    BY <1>7, AnsweredTail DEF ReadReply, Took, Matches, Answered, request
  <2> QED
    BY <1>7, <2>1 DEF ReadReply, Took, Ends, Answered, OwnAnswer, request, current
<1> QED
  BY <1>1, <1>2, <1>3, <1>4, <1>5, <1>6, <1>7
     DEF UMADStep, register_client, sendto, recvfrom, Refused, RetryRefused, ReadNothing,
         PollWakes, PollExpires, Retry, Returned

\* What the kernel queues answers a request that was sent.
LEMMA AnsweredKernel ==
  ASSUME UMADTypeOK, Answered, KernelStep
  PROVE  Answered'
<1>1. ASSUME NEW t \in 1..current, NEW kind, NEW body, Queue(kind, t, body),
             kind = "reply" => body \in Answers[calls[t][1]]
      PROVE  Answered'
  <2>1. /\ Len(fd') = Len(fd) + 1 /\ fd'[Len(fd) + 1] = Message(kind, t, body)
        /\ \A i \in 1..Len(fd) : fd'[i] = fd[i]
        /\ Len(fd) \in Nat
    BY <1>1 DEF Queue, UMADTypeOK
  <2>2. MessagesAnswer'
    <3> SUFFICES ASSUME NEW i \in 1..Len(fd'), fd'[i].kind = "reply"
                 PROVE  fd'[i].tid \in 1..current /\ fd'[i].body \in Answers[calls[fd'[i].tid][1]]
      BY <1>1 DEF Queue, programVars, MessagesAnswer, current
    <3>1. CASE i = Len(fd) + 1
      BY <1>1, <2>1, <3>1 DEF Message
    <3>2. CASE i \in 1..Len(fd)
      BY <2>1, <3>2 DEF Answered, MessagesAnswer
    <3> QED
      BY <2>1, <3>1, <3>2
  <2> QED
    BY <1>1, <2>2 DEF Queue, programVars, Answered, OwnAnswer, request, current
<1>2. CASE Tick
  BY <1>2 DEF Tick, Answered, MessagesAnswer, OwnAnswer, request, current
<1>3. \A t \in DOMAIN tracked : t \in 1..current
  BY DEF UMADTypeOK
<1> QED
  BY <1>1, <1>2, <1>3 DEF KernelStep, Clock, Deliver, SendFails, LetGo

\* Every queued reply answers the request with its number.
LEMMA AnsweredInductive ==
  /\ Init => Answered
  /\ UMADTypeOK /\ Answered /\ [Next]_umadVars => Answered'
<1>1. Init => Answered
  BY DEF Init, Answered, MessagesAnswer, OwnAnswer
<1>2. Answered /\ UNCHANGED umadVars => Answered'
  BY DEF Answered, MessagesAnswer, OwnAnswer, umadVars, programVars, request, current
<1> QED
  BY <1>1, <1>2, AnsweredProgram, AnsweredKernel DEF Next

\* OwnAnswer: no call of _execute is given a late reply to another.
THEOREM RepliesMatch == Spec => []OwnAnswer
<1>1. Init => UMADTypeOK /\ Answered
  BY TypeInit, AnsweredInductive
<1>2. UMADTypeOK /\ Answered /\ [Next]_umadVars => UMADTypeOK' /\ Answered'
  BY TypeInductive, AnsweredInductive
<1>3. Answered => OwnAnswer
  BY DEF Answered
<1> QED
  BY <1>1, <1>2, <1>3, PTL DEF Spec

-----------------------------------------------------------------------------
(* MADRpc.  Only the latest transaction ID can be pending, and until it    *)
(* has its outcome sends counts the transmissions retries leaves; it can   *)
(* because no retransmission the kernel has let go of is refused.          *)

Sent == pc \in {"refused", "read", "poll", "expired", "resend"}

Counted ==
  /\ \A t \in Tid : t > current => status[t] = "unused"
  /\ \A t \in Tid : status[t] = "pending" => t = current /\ (Sent \/ pc = "returned")
  /\ pc \in {"register", "send"} => status[current] = "unused"
  /\ Sent => status[current] = "pending"
  /\ pc \in {"register", "send", "refused"} => retries = Retries
  /\ pc \in {"refused", "read", "poll", "expired"} => sends[current] = Retries - retries + 1
  /\ pc = "resend" => sends[current] = Retries - retries

LEMMA CountedProgram ==
  ASSUME UMADTypeOK, SoonerLetGo, PolledFirst, Counted,
         (\E r \in Request, p \in Path : _execute(r, p)) \/ UMADStep \/ Returned
  PROVE  Counted'
<1> USE ConstantFacts
<1>0. current \in 0..MaxCalls /\ (pc # "idle" => current \in Tid)
  BY CallFacts
<1>1. ASSUME NEW r \in Request, NEW p \in Path, _execute(r, p) PROVE Counted'
  <2>1. current' = current + 1 /\ current' \in Tid
    BY <1>0, <1>1 DEF _execute, current, UMADTypeOK
  <2> QED
    BY <1>0, <1>1, <2>1 DEF _execute, Counted, Sent, rpcHistory
<1>2. CASE register_client
  BY <1>2 DEF register_client, Counted, Sent, rpcHistory, current
<1>3. CASE SystemCallFails
  BY <1>3 DEF SystemCallFails, Raises, Counted, Sent, rpcHistory, current
<1>4. ASSUME Issued, retries' = retries, calls' = calls,
             pc' \in {"read", "refused"}
      PROVE  Counted'
  BY <1>0, <1>4 DEF Issued, Counted, Sent, current, UMADTypeOK
<1>5. ASSUME NEW accepted \in BOOLEAN, Resent(accepted), accepted \/ ~LetsGoFirst(timeout),
             retries' = retries, calls' = calls, pc' = "read"
      PROVE  Counted'
  BY <1>0, <1>5 DEF Resent, Counted, Sent, current, UMADTypeOK
<1>6. CASE sendto
  BY <1>4, <1>5, <1>6 DEF sendto, recvfrom
<1>7. CASE Refused
  BY <1>4, <1>7 DEF Refused
<1>8. CASE RetryRefused
  <2>1. ~LetsGoFirst(timeout)
    BY <1>8 DEF RetryRefused, Resent, SoonerLetGo
  <2> QED
    BY <1>5, <1>8, <2>1 DEF RetryRefused, recvfrom
<1>9. CASE _gen_error \/ ReadReply \/ GiveUp
  <2>1. PICK reply : Ends(reply)
    BY <1>9 DEF _gen_error, ReadReply, GiveUp
  <2>2. calls' = calls /\ Sent
    BY <1>9 DEF _gen_error, ReadReply, Took, GiveUp, Sent
  <2> QED
    BY <1>0, <2>1, <2>2 DEF Ends, Counted, Sent, current, UMADTypeOK
<1>10. CASE ReadShort
  BY <1>10 DEF ReadShort, Counted, Sent, rpcHistory, current
<1>11. CASE ReadTimeoutNotice
  BY <1>11 DEF ReadTimeoutNotice, Took, Counted, Sent, rpcHistory, current
<1>12. CASE ReadFailureNotice
  BY <1>12 DEF ReadFailureNotice, Took, Raises, Counted, Sent, rpcHistory, current
<1>13. CASE ReadUnexpected
  BY <1>13 DEF ReadUnexpected, Took, recvfrom, Counted, Sent, rpcHistory, current
<1>14. CASE ReadNothing
  BY <1>14 DEF ReadNothing, Counted, Sent, rpcHistory, current, PolledFirst
<1>15. CASE PollWakes
  BY <1>15 DEF PollWakes, Counted, Sent, rpcHistory, current
<1>16. CASE PollExpires
  BY <1>16 DEF PollExpires, Counted, Sent, rpcHistory, current
<1>17. CASE Retry
  BY <1>0, <1>17 DEF Retry, Counted, Sent, rpcHistory, current, UMADTypeOK
<1>18. CASE Returned
  BY <1>0, <1>18 DEF Returned, Counted, Sent, current, UMADTypeOK
<1> QED
  BY <1>1, <1>2, <1>3, <1>6, <1>7, <1>8, <1>9, <1>10, <1>11, <1>12, <1>13, <1>14, <1>15, <1>16,
     <1>17, <1>18 DEF UMADStep

\* A request was sent once and once more for every retry used.
LEMMA CountedInductive ==
  /\ Init => Counted
  /\ UMADTypeOK /\ SoonerLetGo /\ PolledFirst /\ Counted /\ [Next]_umadVars => Counted'
<1>1. Init => Counted
  BY DEF Init, Counted, Sent
<1>2. ASSUME Counted, UNCHANGED <<programVars, rpcHistory>> \/ Tick PROVE Counted'
  BY <1>2 DEF Counted, Sent, programVars, rpcHistory, current, Tick
<1>3. ASSUME KernelStep PROVE UNCHANGED <<programVars, rpcHistory>> \/ Tick
  BY <1>3 DEF KernelStep, Clock, Deliver, SendFails, LetGo, Queue
<1> QED
  BY <1>1, <1>2, <1>3, CountedProgram DEF Next, umadVars

-----------------------------------------------------------------------------
(* Every step is a step of MADRpc, or changes nothing it sees.             *)

Unseen == UNCHANGED <<pc # "idle", status, sends>>

LEMMA StepsRefine ==
  ASSUME UMADTypeOK, SoonerLetGo, Answered, Counted,
         (\E r \in Request, p \in Path : _execute(r, p)) \/ UMADStep \/ Returned
  PROVE  Rpc!Next \/ Unseen
<1> USE ConstantFacts
<1>0. pc # "idle" => current \in Tid
  BY CallFacts
<1>1. ASSUME NEW r \in Request, NEW p \in Path, _execute(r, p) PROVE Rpc!Begin
  <2>1. Rpc!Pending = {}
    BY <1>1 DEF _execute, Counted, Sent, Rpc!Pending
  <2>2. status' = [t \in Tid |-> status[t]]
    BY <1>1 DEF _execute, rpcHistory, UMADTypeOK
  <2> QED
    BY <1>1, <2>1, <2>2 DEF _execute, rpcHistory, Rpc!Begin, Rpc!Answer
<1>2. ASSUME Issued, pc' # "idle" PROVE Rpc!Issue(current)
  BY <1>0, <1>2 DEF Issued, Counted, Rpc!Issue, Rpc!Answer, UMADTypeOK
<1>3. ASSUME NEW accepted \in BOOLEAN, Resent(accepted), accepted \/ ~LetsGoFirst(timeout),
             pc' = "read"
      PROVE  Rpc!Resend(current)
  BY <1>0, <1>3 DEF Resent, Counted, Sent, Rpc!Resend, UMADTypeOK
<1>4. ASSUME NEW reply \in Reply, Ends(reply), Sent PROVE Rpc!Reply(current)
  BY <1>0, <1>4 DEF Ends, Counted, Sent, Rpc!Reply, Rpc!Answer, UMADTypeOK
<1>5. CASE sendto
  <2>1. current \in Tid
    BY <1>0, <1>5 DEF sendto, Issued, Resent
  <2> QED
    BY <1>2, <1>3, <1>5, <2>1 DEF sendto, recvfrom, Rpc!Next
<1>6. CASE Refused
  <2>1. Issued /\ current \in Tid /\ pc' # "idle"
    BY <1>0, <1>6 DEF Refused, Issued
  <2> QED
    BY <1>2, <2>1 DEF Rpc!Next
<1>7. CASE RetryRefused
  <2>1. ~LetsGoFirst(timeout) /\ current \in Tid
    BY <1>0, <1>7 DEF RetryRefused, Resent, SoonerLetGo
  <2> QED
    BY <1>3, <1>7, <2>1 DEF RetryRefused, recvfrom, Rpc!Next
<1>8. CASE _gen_error \/ ReadReply
  <2>1. PICK reply \in Reply : Ends(reply)
    <3>1. CASE _gen_error
      BY <3>1 DEF _gen_error
    <3>2. CASE ReadReply
      <4>1. Head(fd) = fd[1] /\ 1 \in 1..Len(fd)
        BY <3>2 DEF ReadReply, Took, UMADTypeOK
      <4>2. Head(fd).body \in Reply
        BY <3>2, <4>1, CallFacts DEF ReadReply, Answered, MessagesAnswer
      <4> QED
        BY <3>2, <4>2 DEF ReadReply
    <3> QED
      BY <1>8, <3>1, <3>2
  <2>2. Sent /\ current \in Tid
    BY <1>0, <1>8 DEF _gen_error, ReadReply, Took, Sent
  <2> QED
    BY <1>4, <2>1, <2>2 DEF Rpc!Next
<1>9. CASE GiveUp
  <2>1. current \in Tid /\ sends[current] = Retries + 1
    BY <1>0, <1>9 DEF GiveUp, LastTry, Counted
  <2>2. Rpc!TimeOut(current)
    BY <1>9, <2>1 DEF GiveUp, Ends, Counted, Sent, Rpc!TimeOut, Rpc!Answer, UMADTypeOK
  <2> QED
    BY <2>1, <2>2 DEF Rpc!Next
<1>10. CASE Returned
  <2>1. Rpc!Pending \in SUBSET Rpc!Pending /\ Rpc!End(Rpc!Pending)
    BY <1>10 DEF Returned, Rpc!End, Rpc!Answer, Rpc!Pending
  <2> QED
    BY <2>1 DEF Rpc!Next
<1>11. CASE register_client \/ SystemCallFails
  BY <1>11 DEF register_client, SystemCallFails, Raises, Unseen, rpcHistory
<1>12. CASE ReadShort \/ ReadTimeoutNotice \/ ReadFailureNotice \/ ReadUnexpected
  BY <1>12 DEF ReadShort, ReadTimeoutNotice, ReadFailureNotice, ReadUnexpected, Took, Raises,
               recvfrom, Unseen, rpcHistory
<1>13. CASE ReadNothing \/ PollWakes \/ PollExpires \/ Retry
  BY <1>13 DEF ReadNothing, PollWakes, PollExpires, Retry, Unseen, rpcHistory
<1> QED
  BY <1>1, <1>5, <1>6, <1>7, <1>8, <1>9, <1>10, <1>11, <1>12, <1>13 DEF UMADStep, Rpc!Next

\* Exchanges: every call of _execute is one exchange of MADRpc.
THEOREM DeviceImplementsMADRpc == Spec => Exchanges
<1> DEFINE Inv == UMADTypeOK /\ PolledFirst /\ SoonerLetGo /\ Answered /\ Counted
<1>1. Init => Inv /\ Rpc!Init
  BY TypeInit, PolledInductive, SoonerInductive, AnsweredInductive, CountedInductive
     DEF Init, Rpc!Init
<1>2. Inv /\ [Next]_umadVars => Inv'
  BY TypeInductive, PolledInductive, SoonerInductive, AnsweredInductive, CountedInductive
<1>3. Inv /\ [Next]_umadVars => [Rpc!Next]_(Rpc!rpcVars)
  <2>1. KernelStep \/ UNCHANGED umadVars => Unseen
    BY DEF KernelStep, Clock, Deliver, SendFails, LetGo, Queue, Tick, programVars, rpcHistory,
           umadVars, Unseen
  <2> QED
    BY <2>1, StepsRefine DEF Next, Unseen, Rpc!rpcVars
<1> QED
  BY <1>1, <1>2, <1>3, PTL DEF Spec, Exchanges, Rpc!Spec

-----------------------------------------------------------------------------
(* Routes.                                                                 *)

\* Route is the function its definition asks for: one exists, since it can be
\* extended link by link.
LEMMA RouteFacts ==
  ASSUME NEW p \in Path
  PROVE  /\ Len(Hops[p]) \in Nat
         /\ Route(p)[0] = StartLid(p)
         /\ \A i \in 1..Len(Hops[p]) : Route(p)[i] = Link[<<Route(p)[i - 1], Hops[p][i]>>][1]
<1> DEFINE Walks(n, f) == f = [i \in 0..n |-> IF i = 0 THEN StartLid(p)
                                              ELSE Link[<<f[i - 1], Hops[p][i]>>][1]]
           S == {n \in Nat : \E f : Walks(n, f)}
<1>1. Len(Hops[p]) \in Nat
  BY SAAssumption
<1>2. 0 \in S
  <2> DEFINE f == [i \in {0} |-> StartLid(p)]
  <2>1. Walks(0, f)
    OBVIOUS
  <2> QED
    BY <2>1
<1>3. ASSUME NEW n \in Nat, n \in S PROVE n + 1 \in S
  <2>1. PICK f : Walks(n, f)
    BY <1>3
  <2> DEFINE next == Link[<<f[n], Hops[p][n + 1]>>][1]
             g == [i \in 0..(n + 1) |-> IF i = n + 1 THEN next ELSE f[i]]
  <2>2. /\ \A i \in 0..n : g[i] = f[i]
        /\ g[n + 1] = next
        /\ \A i \in 0..(n + 1) : i # n + 1 => i \in 0..n
        /\ \A i \in 0..n : i # 0 => i - 1 \in 0..n
        /\ n + 1 # 0 /\ n + 1 - 1 = n /\ n \in 0..n
    OBVIOUS
  <2>3. \A i \in 0..n : f[i] = IF i = 0 THEN StartLid(p) ELSE Link[<<f[i - 1], Hops[p][i]>>][1]
    BY <2>1
  <2>4. \A i \in 0..(n + 1) : g[i] = IF i = 0 THEN StartLid(p) ELSE Link[<<g[i - 1], Hops[p][i]>>][1]
    <3> HIDE DEF g
    <3> TAKE i \in 0..(n + 1)
    <3>1. CASE i = n + 1
      <4>1. g[i - 1] = f[n]
        BY <2>2, <3>1
      <4> QED
        BY <2>2, <3>1, <4>1
    <3>2. CASE i \in 0..n
      BY <2>2, <2>3, <3>2
    <3> QED
      BY <2>2, <3>1, <3>2
  <2>5. Walks(n + 1, g)
    <3>1. g = [i \in 0..(n + 1) |-> g[i]]
      OBVIOUS
    <3> HIDE DEF g
    <3> QED
      BY <2>4, <3>1, Zenon
  <2> HIDE DEF g
  <2>6. \E h : Walks(n + 1, h)
    <3> HIDE DEF Walks
    <3> QED
      BY <2>5
  <2> QED
    BY <2>6
<1>4. Nat \subseteq S
  BY <1>2, <1>3, SetInduction
<1>5. Walks(Len(Hops[p]), Route(p))
  BY <1>1, <1>4, ZenonT(30) DEF Route
<1> PICK n : n = Len(Hops[p])
  OBVIOUS
<1> PICK f : f = Route(p)
  OBVIOUS
<1>6. f = [i \in 0..n |-> IF i = 0 THEN StartLid(p) ELSE Link[<<f[i - 1], Hops[p][i]>>][1]]
  BY <1>5
<1>7. n \in Nat /\ 0 \in 0..n /\ \A i \in 1..n : i \in 0..n /\ i # 0
  BY <1>1
<1>8. f[0] = StartLid(p) /\ \A i \in 1..n : f[i] = Link[<<f[i - 1], Hops[p][i]>>][1]
  BY <1>6, <1>7
<1> QED
  BY <1>1, <1>8

\* What the constants give of the LIDs of a path and of the cables.
LEMMA LidFacts ==
  /\ Lids \subseteq Nat /\ None \notin Lids /\ SAPath \in Path /\ PortSAPath \in Path
  /\ \A p \in Path :
       /\ StartLid(p) \in Lids
       /\ DLID[p] \in Lids \cup {Permissive} /\ drDLID[p] \in Lids \cup {Permissive, None}
       /\ ~IsDirected(p) => DLID[p] \in Lids /\ Hops[p] = <<>> /\ StartLid(p) = DLID[p]
  /\ \A w \in DOMAIN Link : Link[w][1] \in Lids
<1>1. \A p \in Path : DLID[p] # None /\ (~IsDirected(p) => DLID[p] # Permissive /\ Hops[p] = <<>>)
  BY SAAssumption
<1>2. \A p \in Path : DLID[p] \in Lids \cup {Permissive} /\ drDLID[p] \in Lids \cup {Permissive, None}
  BY <1>1 DEF Lids
<1>3. LocalLid \in Lids /\ Lids \subseteq Nat /\ SAPath \in Path /\ PortSAPath \in Path
  BY SAAssumption
<1>4. \A w \in DOMAIN Link : Link[w][1] \in Lids
  BY SAAssumption
<1> QED
  BY <1>1, <1>2, <1>3, <1>4 DEF StartLid, Lids

\* Where paths lead that have no links to follow.
LEMMA LeadsToFacts ==
  ASSUME NEW p \in Path
  PROVE  /\ ~IsDirected(p) => LeadsTo(p) = DLID[p]
         /\ IsDirected(p) /\ drDLID[p] # Permissive => LeadsTo(p) = drDLID[p] /\ drDLID[p] \in Lids
         /\ IsDirected(p) /\ drDLID[p] = Permissive => LeadsTo(p) = Route(p)[Len(Hops[p])]
         /\ IsDirected(p) /\ drDLID[p] = Permissive /\ Hops[p] = <<>> => LeadsTo(p) = StartLid(p)
  BY RouteFacts, LidFacts DEF LeadsTo, IsDirected

-----------------------------------------------------------------------------
(* The SA's answers.                                                       *)

Outcomes(r) == Answers[r] \cup {ErrorMAD, NoReply, Raised}

\* An answer is the SA's or it is an error, and then the get raises.
LEMMA AnswerFacts ==
  ASSUME NEW r \in Request, NEW g, NEW reply \in Outcomes(r)
  PROVE  Completed(g, reply) \in {Completed(g, Lookup(r)), Raised}
<1>1. reply \in {Lookup(r), Busted, NoReply, Raised}
  BY SAAssumption DEF Outcomes, SAAnswers
<1>2. Completed(g, Busted) = Raised
  BY ZenonT(30) DEF Completed, Busted, NoRecords, MAD, _sa_error
<1> QED
  BY <1>1, <1>2 DEF Completed

\* A link record is of the cable asked about.
LEMMA LinkAnswer ==
  ASSUME NEW l, NEW n, NEW g, g.attribute = "LinkRecord",
         Record("LinkRecord", l, n) \in Request,
         NEW reply \in Outcomes(Record("LinkRecord", l, n)),
         Completed(g, reply) # Raised
  PROVE  <<l, n>> \in DOMAIN Link /\ Completed(g, reply)[2] = Link[<<l, n>>][1]
<1> DEFINE r == Record("LinkRecord", l, n)
<1>1. Completed(g, reply) = Completed(g, Lookup(r))
  BY AnswerFacts
<1>2. Lookup(r) = IF <<l, n>> \in DOMAIN Link
                  THEN MAD("record", Record("LinkRecord", Link[<<l, n>>][1], Link[<<l, n>>][2]))
                  ELSE NoRecords
  <2>1. r[1] = "LinkRecord" /\ r[2] = l /\ r[3] = n
    BY DEF Record
  <2>2. r[1] \notin NodeRecord \cup {"PortInfoTable", "PortInfo"}
    BY <2>1 DEF NodeRecord
  <2> HIDE DEF r
  <2> QED
    BY <2>1, <2>2 DEF Lookup
<1>3. Completed(g, NoRecords) = Raised
  BY ZenonT(30) DEF Completed, NoRecords, MAD, _sa_error, Tolerated
<1>4. \A v : Completed(g, MAD("record", v)) \in {v, Raised}
  BY DEF Completed, MAD
<1> QED
  BY <1>1, <1>2, <1>3, <1>4 DEF Record

\* The record of the attribute itself, when there is one.
LEMMA OtherAnswer ==
  ASSUME NEW g \in Gets, NEW l, NEW n, Record(g.attribute, l, n) \in Request,
         NEW reply \in Outcomes(Record(g.attribute, l, n))
  PROVE  LET r == Record(g.attribute, l, n)
         IN Completed(g, reply) \in {Raised, Brought(g.attribute, l, n)}
<1> DEFINE r == Record(g.attribute, l, n)
<1>0. SUFFICES Completed(g, reply) \in {Raised, IF g.attribute \in Tolerated /\ r \notin Recorded THEN Zero ELSE r}
  BY DEF Brought
<1>1. Completed(g, reply) \in {Completed(g, Lookup(r)), Raised}
  BY AnswerFacts
<1>2. g.attribute \notin {"LinkRecord", "PortInfoTable", "PKeyTableOfAnyPort"}
  BY SAAssumption
<1>3. Completed(g, MAD("record", r)) \in {r, Raised}
  BY DEF Completed, MAD
<1>4. Completed(g, NoRecords) \in {Raised, IF g.attribute \in Tolerated THEN Zero ELSE Raised}
  BY ZenonT(30) DEF Completed, NoRecords, MAD, _sa_error
<1>5. CASE g.attribute \in NodeRecord
  <2>1. Lookup(r) = MAD("record", r) /\ g.attribute \notin Tolerated
    BY <1>5 DEF Lookup, Record, NodeRecord, Tolerated
  <2> QED
    BY <1>1, <1>3, <2>1
<1>6. CASE g.attribute = "PortInfo"
  <2>1. Lookup(r) \in {MAD("record", r), NoRecords} /\ g.attribute \notin Tolerated
    BY <1>6 DEF Lookup, Record, NodeRecord, Tolerated
  <2> QED
    BY <1>1, <1>3, <1>4, <2>1
<1>7. CASE g.attribute \notin NodeRecord \cup {"PortInfo"}
  <2>1. Lookup(r) = IF r \in Recorded THEN MAD("record", r) ELSE NoRecords
    <3>1. r[1] \notin {"LinkRecord", "PortInfoTable", "PKeyTableOfAnyPort", "PortInfo"} \cup NodeRecord
      BY <1>2, <1>7 DEF Record
    <3> HIDE DEF r
    <3> QED
      BY <3>1 DEF Lookup
  <2> QED
    BY <1>1, <1>3, <1>4, <2>1
<1> QED
  BY <1>5, <1>6, <1>7

\* A PKeyTable asked for without a port: the block the records have of the LID, or none.
LEMMA PKeyAnswer ==
  ASSUME NEW g, g.attribute = "PKeyTable", NEW l, NEW n, Record("PKeyTableOfAnyPort", l, n) \in Request,
         NEW reply \in Outcomes(Record("PKeyTableOfAnyPort", l, n))
  PROVE  \/ Completed(g, reply) = Raised
         \/ Completed(g, reply) = Zero /\ PKeyBlocks(l, n) = {}
         \/ Completed(g, reply) \in PKeyBlocks(l, n)
<1> DEFINE r == Record("PKeyTableOfAnyPort", l, n)
<1>1. Completed(g, reply) \in {Completed(g, Lookup(r)), Raised}
  BY AnswerFacts
<1>2. Lookup(r) = Only(PKeyBlocks(l, n))
  <2>1. r[1] = "PKeyTableOfAnyPort" /\ r[2] = l /\ r[3] = n
    BY DEF Record
  <2>2. r[1] \notin NodeRecord \cup {"LinkRecord", "PortInfoTable", "PortInfo"}
    BY <2>1 DEF NodeRecord
  <2> HIDE DEF r
  <2> QED
    BY <2>1, <2>2 DEF Lookup
<1>3. Completed(g, NoRecords) \in {Zero, Raised} /\ Completed(g, Busted) = Raised
  <2>1. Completed(g, NoRecords) \in {Zero, Raised}
    BY ZenonT(30) DEF Completed, NoRecords, MAD, _sa_error
  <2>2. Completed(g, Busted) = Raised
    BY ZenonT(30) DEF Completed, Busted, NoRecords, MAD, _sa_error
  <2> QED
    BY <2>1, <2>2
<1>4. \A s : Completed(g, MAD("record", s)) \in {s, Raised}
  BY DEF Completed, MAD
<1>5. \/ PKeyBlocks(l, n) = {} /\ Only(PKeyBlocks(l, n)) = NoRecords
      \/ \E s \in PKeyBlocks(l, n) : Only(PKeyBlocks(l, n)) = MAD("record", s)
      \/ Only(PKeyBlocks(l, n)) = Busted
  BY DEF Only
<1> QED
  BY <1>1, <1>2, <1>3, <1>4, <1>5

\* At a node that is no switch they are the block of its own port.
LEMMA OwnBlocks ==
  ASSUME NEW l, l \notin Switches, NEW n
  PROVE  PKeyBlocks(l, n) = {Record("PKeyTable", l, <<This(l), n>>)} \cap Recorded
<1> DEFINE own == Record("PKeyTable", l, <<This(l), n>>)
<1>1. ASSUME NEW s \in PKeyBlocks(l, n) PROVE s = own /\ s \in Recorded
  <2>1. s \in Recorded /\ s[1] = "PKeyTable" /\ s[2] = l /\ s[3][2] = n
    BY <1>1 DEF PKeyBlocks
  <2>2. s = Record("PKeyTable", l, Own("PKeyTable", l, s[3]))
    BY <2>1, SAAssumption DEF PortTables
  <2>3. Own("PKeyTable", l, s[3]) = <<This(l), n>>
    BY <2>1 DEF Own
  <2> QED
    BY <2>1, <2>2, <2>3
<1>2. own[1] = "PKeyTable" /\ own[2] = l /\ own[3][2] = n
  BY DEF Record
<1>3. own \in Recorded => own \in PKeyBlocks(l, n)
  BY <1>2 DEF PKeyBlocks
<1> QED
  BY <1>1, <1>3

\* A PortInfo record is of a port there is.
LEMMA PortAnswer ==
  ASSUME NEW g, g.attribute = "PortInfo", NEW l, NEW n, Record("PortInfo", l, n) \in Request,
         NEW reply \in Outcomes(Record("PortInfo", l, n)),
         Completed(g, reply) # Raised
  PROVE  n \in Ports(l)
<1> DEFINE r == Record("PortInfo", l, n)
<1>1. Completed(g, reply) = Completed(g, Lookup(r))
  BY AnswerFacts
<1>2. Lookup(r) = IF n \in Ports(l) THEN MAD("record", r) ELSE NoRecords
  <2>1. r[1] = "PortInfo" /\ r[2] = l /\ r[3] = n
    BY DEF Record
  <2>2. r[1] \notin NodeRecord \cup {"PortInfoTable", "LinkRecord"}
    BY <2>1 DEF NodeRecord
  <2> HIDE DEF r
  <2> QED
    BY <2>1, <2>2 DEF Lookup
<1>3. Completed(g, NoRecords) = Raised
  BY ZenonT(30) DEF Completed, NoRecords, MAD, _sa_error, Tolerated
<1> QED
  BY <1>1, <1>2, <1>3

\* PortInfo of port 0, asked as a table: what "this port" of the LID is.
LEMMA TableAnswer ==
  ASSUME NEW g \in Gets, g.attribute = "PortInfo", g.modifier = 0, NEW l,
         l = LeadsTo(g.path), Record("PortInfoTable", l, 0) \in Request,
         NEW reply \in Outcomes(Record("PortInfoTable", l, 0))
  PROVE  Completed(g, reply) \in {Direct(g), Raised}
<1> DEFINE r == Record("PortInfoTable", l, 0)
           records == {Record("PortInfo", l, port) : port \in Ports(l)}
           here == This(l)
<1>1. Completed(g, reply) \in {Completed(g, Lookup(r)), Raised}
  BY AnswerFacts
<1>2. Lookup(r) = MAD("table", records)
  BY DEF Lookup, Record, NodeRecord
<1>3. Completed(g, MAD("table", records)) \in {_finish_port_info_attr0(records), Raised}
  BY DEF Completed, MAD
<1>4. Direct(g) = Record("PortInfo", l, here)
  BY DEF Direct, Brought, Tolerated, PortTables
<1>5. _finish_port_info_attr0(records) \in {Record("PortInfo", l, here), Raised}
  <2>1. CASE 0 \in Ports(l)
    <3>1. \A s \in records : s[3] = 0 <=> s = Record("PortInfo", l, 0)
      BY DEF Record
    <3>2. Record("PortInfo", l, 0) \in records
      BY <2>1
    <3> HIDE DEF records
    <3>3. (CHOOSE s \in records : s[3] = 0) = Record("PortInfo", l, 0)
      BY <3>1, <3>2
    <3>4. here = 0
      BY <2>1 DEF This
    <3> HIDE DEF here
    <3> QED
      BY <2>1, <3>1, <3>2, <3>3, <3>4 DEF _finish_port_info_attr0
  <2>2. CASE 0 \notin Ports(l) /\ Ports(l) # {}
    <3>1. l \notin Switches
      BY <2>2 DEF Ports
    <3>2. \A m, n \in Ports(l) : m = n
      <4>1. ASSUME NEW m \in Ports(l) PROVE \E v \in DOMAIN Link : v[1] = l /\ v[2] = m
        BY <3>1 DEF Ports
      <4> QED
        BY <3>1, <4>1, SAAssumption
    <3>3. PICK n : Ports(l) = {n}
      BY <2>2, <3>2
    <3>4. n # 0 /\ here = n /\ records = {Record("PortInfo", l, n)}
      BY <2>2, <3>3 DEF This
    <3>5. \A s \in records : s[3] # 0
      BY <3>4 DEF Record
    <3> HIDE DEF records, here
    <3> QED
      BY <3>4, <3>5 DEF _finish_port_info_attr0
  <2>3. CASE Ports(l) = {}
    <3>1. records = {}
      BY <2>3
    <3> HIDE DEF records
    <3> QED
      BY <3>1 DEF _finish_port_info_attr0
  <2> QED
    BY <2>1, <2>2, <2>3
<1> HIDE DEF records, here, r
<1> QED
  BY <1>1, <1>2, <1>3, <1>4, <1>5

-----------------------------------------------------------------------------
(* The inductive invariant: the paths keep only LIDs they lead to, lid is  *)
(* where the links followed so far lead, and the call of _execute under    *)
(* way asks what the get is at.                                            *)

Asked ==
  CASE Following -> Record("LinkRecord", lid, Hops[get.path][hop])
    [] ~Following /\ get.attribute \in SAAttributes -> Queried(get)
    [] OTHER -> Record(get.attribute, LeadsTo(get.path), get.modifier)

ResolvedThere ==
  \A p \in Path : resolved[p] # None => resolved[p] \in Lids /\ resolved[p] = LeadsTo(p)

UnderWay ==
  get # None =>
    /\ lid \in Lids
    /\ hop \in 1..(Len(Hops[get.path]) + 1)
    /\ Following => /\ get.attribute \in SAAttributes
                    /\ IsDirected(get.path) /\ drDLID[get.path] = Permissive
                    /\ lid = Route(get.path)[hop - 1]
    /\ ~Following /\ get.attribute \in SAAttributes => lid = LeadsTo(get.path)

InFlight == pc # "idle" => get # None /\ request = Asked

\* Only the SA's path is ever given a node type that is not its own node's.
TypesNoted == \A p \in Path \ {SAPath} : nodeType[p] \in {None, TypeOf(LeadsTo(p))}

SAInv == TypeOK /\ Answered /\ ResolvedThere /\ UnderWay /\ InFlight /\ TypesNoted /\ AsDirect

\* A get, its path and its links.
LEMMA GetFacts ==
  ASSUME NEW g \in Gets
  PROVE  /\ g.path \in Path /\ g.modifier \in Nat
         /\ g.attribute \notin {"LinkRecord", "PortInfoTable", "PKeyTableOfAnyPort"}
         /\ Hops[g.path] \in Seq(Nat) /\ Len(Hops[g.path]) \in Nat
  BY SAAssumption

\* The get under way is one of the program's requests.
LEMMA AskedFacts ==
  ASSUME TypeOK, UnderWay, get # None
  PROVE  Asked \in Request
<1>1. get \in Gets
  BY DEF TypeOK
<1>2. lid \in Lids
  BY DEF UnderWay
<1>3. CASE Following
  <2>1. hop \in DOMAIN Hops[get.path] /\ get.path \in Path
    BY <1>1, <1>3, GetFacts DEF UnderWay, Following
  <2>2. Asked = Record("LinkRecord", lid, Hops[get.path][hop])
    BY <1>3 DEF Asked
  <2> QED
    BY <1>2, <2>1, <2>2, SAAssumption
<1>4. CASE ~Following /\ get.attribute \in SAAttributes
  <2>1. Asked = Queried(get)
    BY <1>4 DEF Asked
  <2>2. nodeType[get.path] \in {"CA", "Switch", None}
    BY <1>1, GetFacts DEF TypeOK
  <2>3. Query(get, lid, nodeType[get.path]) \in Request
    BY <1>1, <1>2, <2>2, SAAssumption
  <2> QED
    BY <2>1, <2>3 DEF Queried
<1>5. CASE ~Following /\ get.attribute \notin SAAttributes
  <2>1. Asked = Record(get.attribute, LeadsTo(get.path), get.modifier)
    BY <1>5 DEF Asked
  <2> QED
    BY <1>1, <1>5, <2>1, SAAssumption
<1> QED
  BY <1>3, <1>4, <1>5

\* Both ways to go on with a get execute what it is at.
LEMMA ExecutesAsked ==
  ASSUME TypeOK, UnderWay, FollowLink \/ QuerySA
  PROVE  \E p \in Path : Asked \in Request /\ _execute(Asked, p)
<1>1. get # None /\ get \in Gets
  BY DEF FollowLink, QuerySA, Following, TypeOK
<1>2. Asked \in Request /\ get.path \in Path
  BY <1>1, AskedFacts, GetFacts
<1>3. CASE FollowLink
  BY <1>2, <1>3, LidFacts DEF FollowLink, Asked
<1>4. CASE QuerySA
  BY <1>1, <1>2, <1>4, LidFacts DEF QuerySA, Asked
<1> QED
  BY <1>3, <1>4

\* Every step is one of the device's, or none of its.
LEMMA StepsAreUMADs ==
  ASSUME TypeOK, UnderWay, [SANext]_vars
  PROVE  [Next]_umadVars
<1>1. CASE FollowLink \/ QuerySA
  BY <1>1, ExecutesAsked DEF Next
<1>2. CASE LinkFollowed \/ QueryAnswered
  BY <1>2 DEF LinkFollowed, QueryAnswered, Next
<1>3. ASSUME NEW g \in Gets, SubnGet(g) PROVE UNCHANGED umadVars
  BY <1>3 DEF SubnGet
<1> QED
  BY <1>1, <1>2, <1>3 DEF SANext, Program, Next, vars

\* The query of a get that is no PKeyTable brings what Gives says.
LEMMA GivesOther ==
  ASSUME NEW g \in Gets, g.attribute # "PKeyTable", NEW l, l = LeadsTo(g.path), NEW type, NEW kept,
         Query(g, l, type) \in Request, NEW reply \in Outcomes(Query(g, l, type))
  PROVE  Completed(g, reply) \in Gives(g, kept) \cup {Raised}
<1> DEFINE there == Components(g.attribute, g.modifier)
           moved == <<Bits(g.modifier, 12, 4), Bits(g.modifier, 0, 9)>>
<1>0. ~TypeMistaken(g, kept)
  BY DEF TypeMistaken
<1>1. CASE g.attribute = "PortInfo" /\ g.modifier = 0 /\ type # "Switch"
  <2>1. Query(g, l, type) = Record("PortInfoTable", l, 0)
    BY <1>1 DEF Query
  <2>2. Completed(g, reply) \in {Direct(g), Raised}
    BY <1>1, <2>1, TableAnswer
  <2>3. ~OtherPosition(g) /\ ~OtherPort(g, kept)
    BY <1>1 DEF OtherPosition, OtherPort, PortTables
  <2>4. Gives(g, kept) = {Direct(g)}
    BY <1>0, <2>3 DEF Gives
  <2> QED
    BY ONLY <2>2, <2>4
<1>2. CASE g.attribute = "MulticastForwardingTable"
  <2>1. Query(g, l, type) = Record(g.attribute, l, moved)
    BY <1>2 DEF Query
  <2>2. Completed(g, reply) \in {Raised, Brought(g.attribute, l, moved)}
    BY <2>1, OtherAnswer
  <2>3. CASE OtherPosition(g)
    <3>1. ~OtherPort(g, kept)
      BY <1>2 DEF OtherPort, PortTables
    <3>2. Gives(g, kept) = {Brought(g.attribute, l, moved)}
      BY <1>0, <2>3, <3>1 DEF Gives
    <3> QED
      BY ONLY <2>2, <3>2
  <2>4. CASE ~OtherPosition(g)
    <3>1. moved = there
      BY <1>2, <2>4, Zenon DEF OtherPosition, Components
    <3>2. Direct(g) = Brought(g.attribute, l, there)
      BY <1>2 DEF Direct, Named, PortTables
    <3>3. ~OtherPort(g, kept)
      BY <1>2 DEF OtherPort, PortTables
    <3>4. Gives(g, kept) = {Direct(g)}
      BY <1>0, <2>4, <3>3 DEF Gives
    <3> QED
      BY ONLY <2>2, <3>1, <3>2, <3>4
  <2> QED
    BY <2>3, <2>4
<1>3. CASE /\ ~(g.attribute = "PortInfo" /\ g.modifier = 0 /\ type # "Switch")
           /\ g.attribute # "MulticastForwardingTable"
  <2>0. Query(g, l, type) = Record(g.attribute, l, there)
    BY <1>3 DEF Query
  <2>1. Completed(g, reply) \in {Raised, Brought(g.attribute, l, there)}
    BY <2>0, OtherAnswer
  <2>2. ~OtherPosition(g)
    BY <1>3 DEF OtherPosition
  <2>3. CASE g.attribute = "PortInfo" /\ g.modifier = 0
    <3>1. there = 0
      BY <2>3 DEF Components
    <3>2. Completed(g, reply) # Raised => 0 \in Ports(l)
      BY <2>0, <2>3, <3>1, PortAnswer
    <3>3. 0 \in Ports(l) => This(l) = 0
      BY DEF This
    <3>4. Direct(g) = Brought(g.attribute, l, This(l))
      BY <2>3 DEF Direct, PortTables
    <3>5. Gives(g, kept) = {Direct(g)}
      BY <1>0, <2>2, <2>3 DEF Gives, OtherPort, PortTables
    <3> HIDE DEF there
    <3> QED
      BY ONLY <2>1, <3>1, <3>2, <3>3, <3>4, <3>5
  <2>4. CASE g.attribute \in PortTables /\ l \notin Switches
    <3>1. Direct(g) = Brought(g.attribute, l, Own(g.attribute, l, there))
      BY <2>4 DEF Direct, Named, PortTables
    <3>2. CASE there = Own(g.attribute, l, there)
      <4>1. ~OtherPort(g, kept)
        BY <3>2 DEF OtherPort, Named
      <4>2. Gives(g, kept) = {Direct(g)}
        BY <1>0, <2>2, <4>1 DEF Gives
      <4> QED
        BY ONLY <2>1, <3>1, <3>2, <4>2
    <3>3. CASE there # Own(g.attribute, l, there)
      <4>1. OtherPort(g, kept)
        BY <2>4, <3>3 DEF OtherPort, Named
      <4>2. Gives(g, kept) = {Zero}
        BY <1>0, <2>2, <4>1 DEF Gives
      <4>3. Record(g.attribute, l, there) \notin Recorded
        <5>1. SUFFICES ASSUME Record(g.attribute, l, there) \in Recorded PROVE FALSE
          OBVIOUS
        <5> DEFINE r == Record(g.attribute, l, there)
        <5>2. r[1] = g.attribute /\ r[2] = l /\ r[3] = there
          BY DEF Record
        <5>3. r = Record(g.attribute, l, Own(g.attribute, l, there))
          BY <2>4, <5>1, <5>2, SAAssumption
        <5>4. Record(g.attribute, l, Own(g.attribute, l, there))[3] = Own(g.attribute, l, there)
          BY DEF Record
        <5> QED
          BY ONLY <3>3, <5>2, <5>3, <5>4
      <4>4. g.attribute \in Tolerated
        BY <2>4 DEF PortTables, Tolerated
      <4>5. Brought(g.attribute, l, there) = Zero
        BY <4>3, <4>4, Zenon DEF Brought
      <4> QED
        BY ONLY <2>1, <4>2, <4>5
    <3> QED
      BY ONLY <3>2, <3>3
  <2>5. CASE /\ ~(g.attribute = "PortInfo" /\ g.modifier = 0)
             /\ ~(g.attribute \in PortTables /\ l \notin Switches)
    <3>1. Direct(g) = Brought(g.attribute, l, there)
      BY <2>5 DEF Direct, Named
    <3>2. ~OtherPort(g, kept)
      BY <2>5 DEF OtherPort
    <3>3. Gives(g, kept) = {Direct(g)}
      BY <1>0, <2>2, <3>2 DEF Gives
    <3> QED
      BY ONLY <2>1, <3>1, <3>3
  <2> QED
    BY ONLY <2>3, <2>4, <2>5
<1> QED
  BY ONLY <1>1, <1>2, <1>3

\* Nor does the query of a PKeyTable bring anything else, where the node type is that of
\* the node or the path is the SA's.
LEMMA GivesPKeys ==
  ASSUME NEW g \in Gets, g.attribute = "PKeyTable", NEW l, l = LeadsTo(g.path), NEW type,
         type \in {"CA", "Switch", None},
         g.path = SAPath \/ type \in {None, TypeOf(l)},
         Query(g, l, type) \in Request, NEW reply \in Outcomes(Query(g, l, type))
  PROVE  Completed(g, reply) \in Gives(g, type) \cup {Raised}
<1> DEFINE there == Components(g.attribute, g.modifier)
           block == Bits(g.modifier, 0, 16)
<1>0. there[2] = block /\ ~OtherPosition(g) /\ g.attribute \in Tolerated /\ g.attribute \in PortTables
  BY DEF Components, OtherPosition, Tolerated, PortTables
<1>1. Own(g.attribute, l, there) = <<This(l), block>>
  BY <1>0 DEF Own
<1>2. CASE type = "CA"
  <2>1. type \notin {None, "Switch"}
    BY <1>2, SAAssumption
  <2>2. Query(g, l, type) = Record("PKeyTableOfAnyPort", l, block)
    BY <2>1 DEF Query
  <2>3. \/ Completed(g, reply) = Raised
        \/ Completed(g, reply) = Zero /\ PKeyBlocks(l, block) = {}
        \/ Completed(g, reply) \in PKeyBlocks(l, block)
    BY <2>2, PKeyAnswer
  <2>4. ~OtherPort(g, type)
    BY <1>2 DEF OtherPort
  <2>5. CASE l \in Switches
    <3>1. TypeMistaken(g, type)
      BY <1>2, <2>5, SAAssumption DEF TypeMistaken, TypeOf
    <3>2. Gives(g, type) = {Zero} \cup PKeyBlocks(l, block)
      BY <1>0, <2>4, <3>1 DEF Gives
    <3> QED
      BY ONLY <2>3, <3>2
  <2>6. CASE l \notin Switches
    <3>1. ~TypeMistaken(g, type)
      BY <2>6 DEF TypeMistaken
    <3>2. Gives(g, type) = {Direct(g)}
      BY <1>0, <2>4, <3>1 DEF Gives
    <3>3. Direct(g) = Brought(g.attribute, l, <<This(l), block>>)
      BY <1>0, <1>1, <2>6 DEF Direct, Named
    <3> DEFINE own == Record("PKeyTable", l, <<This(l), block>>)
    <3>4. PKeyBlocks(l, block) = {own} \cap Recorded
      BY <2>6, OwnBlocks
    <3>5. Brought(g.attribute, l, <<This(l), block>>) = IF own \notin Recorded THEN Zero ELSE own
      BY <1>0 DEF Brought
    <3> HIDE DEF own
    <3> QED
      BY ONLY <2>3, <3>2, <3>3, <3>4, <3>5
  <2> QED
    BY ONLY <2>5, <2>6
<1>3. CASE type # "CA"
  <2>1. Query(g, l, type) = Record(g.attribute, l, there)
    BY <1>3 DEF Query
  <2>2. Completed(g, reply) \in {Raised, Brought(g.attribute, l, there)}
    BY <2>1, OtherAnswer
  <2>3. ~TypeMistaken(g, type)
    BY <1>3 DEF TypeMistaken
  <2>4. CASE l \in Switches
    <3>1. Direct(g) = Brought(g.attribute, l, there) /\ ~OtherPort(g, type)
      BY <2>4 DEF Direct, Named, OtherPort
    <3>2. Gives(g, type) = {Direct(g)}
      BY <1>0, <2>3, <3>1 DEF Gives
    <3> QED
      BY ONLY <2>2, <3>1, <3>2
  <2>5. CASE l \notin Switches /\ there = Own(g.attribute, l, there)
    <3>1. Direct(g) = Brought(g.attribute, l, there)
      BY <1>0, <2>5 DEF Direct, Named
    <3>2. ~OtherPort(g, type)
      BY <2>5 DEF OtherPort, Named
    <3>3. Gives(g, type) = {Direct(g)}
      BY <1>0, <2>3, <3>2 DEF Gives
    <3> QED
      BY ONLY <2>2, <3>1, <3>3
  <2>6. CASE l \notin Switches /\ there # Own(g.attribute, l, there)
    <3>1. OtherPort(g, type)
      BY <1>0, <1>3, <2>6 DEF OtherPort, Named
    <3>2. Gives(g, type) = {Zero}
      BY <1>0, <2>3, <3>1 DEF Gives
    <3>3. Record(g.attribute, l, there) \notin Recorded
      <4>1. SUFFICES ASSUME Record(g.attribute, l, there) \in Recorded PROVE FALSE
        OBVIOUS
      <4> DEFINE r == Record(g.attribute, l, there)
      <4>2. r[1] = g.attribute /\ r[2] = l /\ r[3] = there
        BY DEF Record
      <4>3. r = Record(g.attribute, l, Own(g.attribute, l, there))
        BY <1>0, <2>6, <4>1, <4>2, SAAssumption
      <4>4. Record(g.attribute, l, Own(g.attribute, l, there))[3] = Own(g.attribute, l, there)
        BY DEF Record
      <4> QED
        BY ONLY <2>6, <4>2, <4>3, <4>4
    <3>4. Brought(g.attribute, l, there) = Zero
      BY <1>0, <3>3, Zenon DEF Brought
    <3> QED
      BY ONLY <2>2, <3>2, <3>4
  <2> QED
    BY ONLY <2>4, <2>5, <2>6
<1> QED
  BY ONLY <1>2, <1>3

\* What a get that is answered gives is what the SMP would have brought, but for the
\* cases of Gives; the type its own answer puts into the path is of no account.
LEMMA AnswersDirect ==
  ASSUME SAInv, pc = "returned", get # None, ~Following,
         NEW kept, kept = nodeType[get.path] \/ get.attribute \in NodeRecord
  PROVE  Completed(get, got) \in Gives(get, kept) \cup {Raised}
<1> DEFINE l == LeadsTo(get.path)
           type == nodeType[get.path]
           r == Record(get.attribute, l, get.modifier)
<1>1. get \in Gets /\ Asked \in Request
  BY AskedFacts DEF SAInv, TypeOK
<1>2. got \in Outcomes(Asked)
  BY DEF SAInv, Answered, OwnAnswer, InFlight, Outcomes
<1>3. CASE get.attribute \in SAAttributes
  <2>1. Asked = Query(get, l, type)
    BY <1>3 DEF Asked, Queried, SAInv, UnderWay
  <2>2. type \in {"CA", "Switch", None} /\ (get.path = SAPath \/ type \in {None, TypeOf(l)})
    BY <1>1, GetFacts DEF SAInv, TypeOK, TypesNoted
  <2>3. CASE get.attribute = "PKeyTable"
    <3>1. kept = type
      BY <2>3 DEF NodeRecord
    <3> HIDE DEF type, l
    <3>2. l = LeadsTo(get.path)
      BY DEF l
    <3>3. Completed(get, got) \in Gives(get, type) \cup {Raised}
      BY <1>1, <1>2, <2>1, <2>2, <2>3, <3>2, GivesPKeys
    <3> QED
      BY ONLY <3>1, <3>3
  <2>4. CASE get.attribute # "PKeyTable"
    BY <1>1, <1>2, <2>1, <2>4, GivesOther
  <2> QED
    BY ONLY <2>3, <2>4
<1>4. CASE get.attribute \notin SAAttributes
  <2>1. Asked = r
    BY <1>4 DEF Asked
  <2>2. Completed(get, got) \in {Raised, Brought(get.attribute, l, get.modifier)}
    BY <1>1, <1>2, <2>1, OtherAnswer
  <2>3. get.attribute \notin PortTables \cup Tolerated \cup {"NodeInfo", "NodeDescription", "SMInfo", "SwitchInfo", "PortInfo"}
    BY <1>4 DEF SAAttributes, PortTables, Tolerated, NodeRecord
  <2>4. Named(get) = get.modifier
    BY <2>3 DEF Named, Components, PortTables, Tolerated
  <2>5. Direct(get) = Brought(get.attribute, l, get.modifier)
    BY <2>3, <2>4 DEF Direct
  <2>6. Gives(get, kept) = {Direct(get)}
    BY <2>3 DEF Gives, OtherPosition, OtherPort, TypeMistaken, PortTables, Tolerated
  <2> QED
    BY ONLY <2>2, <2>5, <2>6
<1> QED
  BY ONLY <1>3, <1>4

\* A link record that arrives leads one link further along the route.
LEMMA LinkLeadsOn ==
  ASSUME SAInv, pc = "returned", Following
  PROVE  LET link == Completed([get EXCEPT !.attribute = "LinkRecord"], got)
         IN link # Raised => link[2] \in Lids /\ link[2] = Route(get.path)[hop]
<1> DEFINE g == [get EXCEPT !.attribute = "LinkRecord"]
           n == Hops[get.path][hop]
<1>1. get \in Gets /\ get # None /\ Asked \in Request
  BY AskedFacts DEF SAInv, TypeOK, Following
<1>2. got \in Outcomes(Asked) /\ Asked = Record("LinkRecord", lid, n)
  BY DEF SAInv, Answered, OwnAnswer, InFlight, Outcomes, Asked
<1>3. g.attribute = "LinkRecord"
  BY <1>1, SAAssumption
<1>4. Completed(g, got) # Raised => <<lid, n>> \in DOMAIN Link /\ Completed(g, got)[2] = Link[<<lid, n>>][1]
  <2> HIDE DEF g
  <2> QED
    BY <1>1, <1>2, <1>3, LinkAnswer
<1>5. lid = Route(get.path)[hop - 1] /\ hop \in 1..Len(Hops[get.path])
  BY <1>1, GetFacts DEF SAInv, UnderWay, Following
<1>6. Route(get.path)[hop] = Link[<<lid, n>>][1]
  BY <1>1, <1>5, GetFacts, RouteFacts
<1>7. Completed(g, got) # Raised => Completed(g, got)[2] \in Lids /\ Completed(g, got)[2] = Route(get.path)[hop]
  <2> HIDE DEF g, n
  <2> QED
    BY <1>4, <1>6, LidFacts
<1> QED
  BY <1>7

-----------------------------------------------------------------------------
(* Every step keeps it.                                                    *)

LEMMA InvSubnGet ==
  ASSUME SAInv, NEW g \in Gets, SubnGet(g), UMADTypeOK', Answered'
  PROVE  SAInv'
<1> DEFINE p == g.path
           n == Len(Hops[p])
<1>1. p \in Path /\ n \in Nat /\ (n = 0 <=> Hops[p] = <<>>)
  BY GetFacts
<1>2. /\ get' = g /\ result' = None /\ pc' = "idle" /\ nodeType' = nodeType
      /\ IF g.attribute \in SAAttributes /\ Unresolved(p)
         THEN lid' = StartLid(p) /\ hop' = 1
         ELSE lid' = KnownLid(p) /\ hop' = n + 1
      /\ \/ resolved' = resolved
         \/ /\ IsDirected(p) /\ drDLID[p] = Permissive /\ Hops[p] = <<>>
            /\ resolved' = [resolved EXCEPT ![p] = StartLid(p)]
  BY DEF SubnGet, umadVars, programVars
<1>3. resolved' \in [Path -> Nat \cup {None}] /\ ResolvedThere'
  <2>1. resolved \in [Path -> Nat \cup {None}] /\ ResolvedThere
    BY DEF SAInv, TypeOK
  <2>2. CASE resolved' = resolved
    BY ONLY <2>1, <2>2, Zenon DEF ResolvedThere
  <2>3. CASE /\ IsDirected(p) /\ drDLID[p] = Permissive /\ Hops[p] = <<>>
             /\ resolved' = [resolved EXCEPT ![p] = StartLid(p)]
    <3>1. StartLid(p) \in Lids /\ StartLid(p) \in Nat /\ StartLid(p) = LeadsTo(p)
      BY <1>1, <2>3, LidFacts, LeadsToFacts
    <3>2. resolved' \in [Path -> Nat \cup {None}]
      BY ONLY <1>1, <2>1, <2>3, <3>1
    <3>3. \A q \in Path : resolved'[q] # None => resolved'[q] \in Lids /\ resolved'[q] = LeadsTo(q)
      <4> TAKE q \in Path
      <4>1. CASE q = p
        BY ONLY <1>1, <2>1, <2>3, <3>1, <4>1
      <4>2. CASE q # p
        <5>1. resolved'[q] = resolved[q]
          BY ONLY <2>1, <2>3, <4>2
        <5> QED
          BY <2>1, <5>1, Zenon DEF ResolvedThere
      <4> QED
        BY ONLY <4>1, <4>2
    <3> QED
      BY ONLY <3>2, <3>3, Zenon DEF ResolvedThere
  <2> QED
    BY <1>2, <2>2, <2>3
<1>4. get' # None => (Following' <=> hop' <= n)
  BY <1>2 DEF Following
<1>7. get' \in Gets \cup {None} /\ InFlight' /\ AsDirect' /\ TypesNoted'
  BY <1>2 DEF InFlight, AsDirect, TypesNoted, SAInv
<1>5. CASE g.attribute \in SAAttributes /\ Unresolved(p)
  <2>1. IsDirected(p) /\ drDLID[p] = Permissive /\ n > 0
    BY <1>1, <1>5 DEF Unresolved
  <2>2. lid' \in Lids /\ lid' = Route(p)[hop' - 1] /\ hop' = 1
    BY <1>1, <1>2, <1>5, LidFacts, RouteFacts
  <2>3. UnderWay'
    BY <1>1, <1>2, <1>4, <1>5, <2>1, <2>2 DEF UnderWay
  <2> QED
    BY <1>2, <1>3, <1>7, <2>2, <2>3, LidFacts DEF SAInv, TypeOK
<1>6. CASE ~(g.attribute \in SAAttributes /\ Unresolved(p))
  <2>1. lid' = KnownLid(p) /\ hop' = n + 1
    BY <1>2, <1>6
  <2>2. KnownLid(p) \in Lids
    BY <1>1, LidFacts DEF KnownLid, IsDirected, SAInv, ResolvedThere
  <2>3. ~Unresolved(p) => KnownLid(p) = LeadsTo(p)
    BY <1>1, LidFacts, LeadsToFacts DEF KnownLid, Unresolved, SAInv, ResolvedThere
  <2>4. UnderWay'
    BY <1>1, <1>2, <1>4, <1>6, <2>1, <2>2, <2>3 DEF UnderWay
  <2>5. lid' \in Nat /\ hop' \in Nat \ {0}
    <3>1. Lids \subseteq Nat
      BY LidFacts
    <3>2. lid' \in Nat
      BY <2>1, <2>2, <3>1, Zenon
    <3> HIDE DEF n
    <3>3. hop' \in Nat \ {0}
      BY <1>1, <2>1
    <3> QED
      BY <3>2, <3>3
  <2> QED
    BY <1>2, <1>3, <1>7, <2>4, <2>5 DEF SAInv, TypeOK
<1> QED
  BY <1>5, <1>6

\* The transactor hands a request to the device.
LEMMA InvExecutes ==
  ASSUME SAInv, FollowLink \/ QuerySA, UMADTypeOK', Answered'
  PROVE  SAInv'
<1>1. get # None /\ UNCHANGED satVars
  BY DEF FollowLink, QuerySA, Following
<1>2. PICK p \in Path : Asked \in Request /\ _execute(Asked, p)
  BY ExecutesAsked DEF SAInv
<1>3. Asked' = Asked
  BY <1>1 DEF Asked, Following, satVars, Queried
<1>4. request' = Asked
  BY <1>2 DEF _execute, request, current, SAInv, TypeOK, UMADTypeOK
<1> QED
  BY <1>1, <1>3, <1>4 DEF SAInv, TypeOK, ResolvedThere, UnderWay, InFlight, TypesNoted, AsDirect, Following, satVars

\* A LinkRecord arrives, or its query fails.
LEMMA InvLinkFollowed ==
  ASSUME SAInv, LinkFollowed, UMADTypeOK', Answered'
  PROVE  SAInv'
<1> DEFINE link == Completed([get EXCEPT !.attribute = "LinkRecord"], got)
           n == Len(Hops[get.path])
<1>1. /\ get \in Gets /\ get # None /\ get.path \in Path /\ n \in Nat
      /\ hop \in 1..n /\ get.attribute \in SAAttributes
      /\ IsDirected(get.path) /\ drDLID[get.path] = Permissive
  BY GetFacts DEF LinkFollowed, Following, SAInv, TypeOK, UnderWay
<1>2. link # Raised => link[2] \in Lids /\ link[2] = Route(get.path)[hop]
  BY LinkLeadsOn DEF LinkFollowed, Returned
<1> HIDE DEF link
<1>3. pc' = "idle" /\ nodeType' = nodeType
  BY DEF LinkFollowed, Returned
<1>4. CASE link = Raised
  <2>1. Finish(Raised) /\ resolved' = resolved
    BY <1>4 DEF LinkFollowed, link
  <2> QED
    BY <1>1, <1>3, <2>1 DEF Finish, SAInv, TypeOK, ResolvedThere, UnderWay, InFlight, TypesNoted, AsDirect
<1>5. CASE link # Raised
  <2>1. /\ lid' = link[2] /\ hop' = hop + 1 /\ get' = get /\ result' = result
        /\ resolved' = IF hop = n THEN [resolved EXCEPT ![get.path] = link[2]] ELSE resolved
    BY <1>5 DEF LinkFollowed, link
  <2>2. hop = n => link[2] = LeadsTo(get.path)
    BY <1>1, <1>2, <1>5, LeadsToFacts
  <2>3. ResolvedThere' /\ resolved' \in [Path -> Nat \cup {None}]
    BY <1>1, <1>2, <1>5, <2>1, <2>2, LidFacts DEF SAInv, TypeOK, ResolvedThere
  <2>4. Following' <=> hop + 1 <= n
    BY <1>1, <2>1 DEF Following
  <2>5. UnderWay'
    BY <1>1, <1>2, <1>5, <2>1, <2>2, <2>4 DEF UnderWay
  <2>6. lid' \in Nat /\ hop' \in Nat \ {0}
    <3>1. lid' \in Lids /\ Lids \subseteq Nat
      BY <1>2, <1>5, <2>1, LidFacts
    <3>2. hop' \in Nat \ {0}
      BY <1>1, <2>1
    <3> QED
      BY <3>1, <3>2
  <2> QED
    BY <1>3, <2>1, <2>3, <2>5, <2>6 DEF SAInv, TypeOK, InFlight, TypesNoted, AsDirect
<1> QED
  BY <1>4, <1>5

\* The record asked for arrives, or its query fails.
LEMMA InvQueryAnswered ==
  ASSUME SAInv, QueryAnswered, UMADTypeOK', Answered'
  PROVE  SAInv'
<1> DEFINE value == Completed(get, got)
           kept == nodeType'[get.path]
<1>1. get \in Gets /\ get # None /\ pc = "returned" /\ pc' = "idle" /\ ~Following /\ get.path \in Path
  BY GetFacts DEF QueryAnswered, Returned, SAInv, TypeOK
<1>2. Finish(value) /\ resolved' = resolved
  BY DEF QueryAnswered
<1>3. /\ nodeType' \in [Path -> {"CA", "Switch", None}]
      /\ \A p \in Path \ {SAPath} : nodeType'[p] = nodeType[p]
  BY DEF QueryAnswered, SAInv, TypeOK, TypeOf
<1>4. kept = nodeType[get.path] \/ get.attribute \in NodeRecord
  BY DEF QueryAnswered
<1>5. value \in Gives(get, kept) \cup {Raised}
  <2> HIDE DEF kept
  <2> QED
    BY <1>1, <1>4, AnswersDirect
<1> HIDE DEF value
<1>6. result' = [get |-> get, value |-> value] /\ get' = None /\ lid' = 0 /\ hop' = 1
  BY <1>2 DEF Finish
<1>7. result'.get = get /\ result'.value = value
  BY ONLY <1>6
<1>8. AsDirect'
  BY <1>5, <1>7, Zenon DEF AsDirect
<1>9. TypesNoted'
  BY <1>3 DEF TypesNoted, SAInv
<1>10. TypeOK'
  BY <1>1, <1>2, <1>3, <1>6, <1>7 DEF SAInv, TypeOK
<1> QED
  BY <1>1, <1>2, <1>6, <1>8, <1>9, <1>10 DEF SAInv, ResolvedThere, UnderWay, InFlight

\* The device and the kernel leave the get and the latest request alone.
LEMMA InvDevice ==
  ASSUME SAInv, UMADStep \/ KernelStep \/ UNCHANGED umadVars, UNCHANGED satVars,
         UMADTypeOK', Answered'
  PROVE  SAInv'
<1>1. calls' = calls /\ (pc' # "idle" => pc # "idle")
  <2>1. CASE UMADStep
    BY <2>1
       DEF UMADStep, register_client, SystemCallFails, Raises, sendto, Issued, Resent, Refused,
           RetryRefused, _gen_error, Ends, ReadShort, ReadTimeoutNotice, ReadFailureNotice,
           ReadReply, ReadUnexpected, ReadNothing, PollWakes, PollExpires, Retry, GiveUp, Took
  <2>2. CASE KernelStep
    BY <2>2 DEF KernelStep, Clock, Deliver, SendFails, LetGo, Queue, Tick, programVars
  <2> QED
    BY <2>1, <2>2 DEF umadVars, programVars
<1>2. Asked' = Asked
  BY DEF Asked, Following, satVars, Queried
<1>3. request' = request
  BY <1>1 DEF request, current
<1> QED
  BY <1>1, <1>2, <1>3 DEF SAInv, TypeOK, ResolvedThere, UnderWay, InFlight, TypesNoted, AsDirect, Following, satVars

\* Nothing is asked for at first, and no path is resolved wrongly.
LEMMA InvInit == SAInit => SAInv
<1> SUFFICES ASSUME SAInit PROVE SAInv
  OBVIOUS
<1>1. UMADTypeOK /\ Answered
  BY TypeInit, AnsweredInductive DEF SAInit
<1>2. nodeType \in [Path -> {"CA", "Switch", None}] /\ resolved \in [Path -> Nat \cup {None}]
  BY DEF SAInit, TypeOf
<1> QED
  BY <1>1, <1>2 DEF SAInit, Init, SAInv, TypeOK, ResolvedThere, UnderWay, InFlight, TypesNoted, AsDirect

\* Every step of the transactor keeps SAInv.
LEMMA InvInductive == SAInv /\ [SANext]_vars => SAInv'
<1> SUFFICES ASSUME SAInv, [SANext]_vars PROVE SAInv'
  OBVIOUS
<1>1. UMADTypeOK' /\ Answered'
  BY StepsAreUMADs, TypeInductive, AnsweredInductive DEF SAInv, TypeOK
<1> QED
  BY <1>1, InvSubnGet, InvExecutes, InvLinkFollowed, InvQueryAnswered, InvDevice
     DEF SANext, Program, vars

\* TypeOK: the transactor's state, the device's included, keeps its types.
THEOREM SATyped == SASpec => []TypeOK
<1>1. SAInv => TypeOK
  BY DEF SAInv
<1> QED
  BY <1>1, InvInit, InvInductive, PTL DEF SASpec

\* AsDirect: what a SubnGet through the SA gives is what the SMP would have brought
\* (satransactor.py:9-11), or it raises, or it is one of the three cases of Gives: a
\* multicast table of another position than 0 (satransactor.py:146), a port's table asked
\* for at a CA under a port not its own, which for a PKeyTable takes a path without the
\* node's type (167-169), and the SA's own path holding the type of another node (113, 116).
THEOREM GetsAreDirect == SASpec => []AsDirect
<1>1. SAInv => AsDirect
  BY DEF SAInv
<1> QED
  BY <1>1, InvInit, InvInductive, PTL DEF SASpec

\* SATransactor uses the device as a program does: its steps are steps of UMAD, so
\* what is proved of UMAD holds of the composition.
THEOREM UsesTheDevice == SASpec => Spec
<1>1. SAInit => Init
  BY DEF SAInit
<1>2. SAInv /\ [SANext]_vars => [Next]_umadVars
  BY StepsAreUMADs DEF SAInv
<1> QED
  BY <1>1, <1>2, InvInit, InvInductive, PTL DEF SASpec, Spec

\* NeverEAGAIN, however gets follow each other.
THEOREM GetsReadWhatWasPolled == SASpec => []NeverEAGAIN
  BY UsesTheDevice, ReadsWhatWasPolled

\* Exchanges: each query and each link record is one exchange of MADRpc.
THEOREM GetsAreExchanges == SASpec => Exchanges
  BY UsesTheDevice, DeviceImplementsMADRpc
=============================================================================
