-------------------------- MODULE MADScheduleProofs --------------------------
(***************************************************************************)
(* What TLAPS proves of the MAD scheduler for every window, retry count,   *)
(* number of contexts, requests, nested activations and runs: its types    *)
(* and its window; that no context is lost, none is scheduled twice and no *)
(* wake-up is missed; and what comes of a run: one that exits at its loop  *)
(* test leaves only contexts blocked on unfinished ones, every request is  *)
(* one exchange of MADRpc, and a generator is resumed with the answer to   *)
(* what it last yielded.                                                   *)
(***************************************************************************)
EXTENDS MADSchedule, SeqLemmas, FiniteSetTheorems

-----------------------------------------------------------------------------
(* Types.  TypeOK alone is not inductive: _do_timeout and the dispatch of  *)
(* a reply enter the context stored with the request, so every request in  *)
(* the tables must belong to one.                                          *)

Owned == \A t \in keys \cup timeouts \cup due : owner[t] \in Ctx
TypeInv == TypeOK /\ Owned

(* Identifiers are positive numbers; the next free one is in range.        *)
LEMMA IdFacts ==
  /\ Ctx \subseteq Nat /\ Tid \subseteq Nat /\ 0 \notin Ctx /\ 0 \notin Tid
  /\ \A n \in 1..(MaxCtx + 1) : n <= MaxCtx => n \in Ctx /\ n + 1 \in 1..(MaxCtx + 1)
  /\ \A n \in 1..(MaxTid + 1) : n <= MaxTid => n \in Tid /\ n + 1 \in 1..(MaxTid + 1)
  BY MADScheduleAssumption DEF Ctx, Tid

(* The results and points of suspension the actions assign.                *)
LEMMA PairFacts ==
  /\ Nothing \in Result /\ <<"value", 0>> \in Result
  /\ \A n \in Nat : <<"reply", n>> \in Result /\ <<"child", n>> \in Result
  /\ <<"start", 0>> \in Point /\ <<"none", 0>> \in Point /\ <<"call", 0>> \in Point
  /\ <<"running", 0>> \in Point
  /\ \A n \in Nat : <<"mad", n>> \in Point /\ <<"ctx", n>> \in Point /\ <<"spawn", n>> \in Point
  BY DEF Nothing, Result, Point

(* A new scheduler is well typed.                                          *)
LEMMA TypeInit == Init => TypeInv
<1> SUFFICES ASSUME Init PROVE TypeInv
  OBVIOUS
<1>1. RunType
  BY MADScheduleAssumption DEF Init, RunType
<1>6. CallType
  <2>1. stack \in Seq(Ctx)
    BY DEF Init
  <2>2. testing \in BOOLEAN
    BY Zenon DEF Init
  <2> QED BY <2>1, <2>2 DEF CallType
<1>2. TableType
  BY PairFacts DEF Init, TableType
<1>3. CtxType
  BY PairFacts, MADScheduleAssumption DEF Init, CtxType
<1>4. RequestType
  BY MADScheduleAssumption DEF Init, RequestType
<1>5. Owned
  BY DEF Init, Owned
<1> QED
  BY <1>1, <1>2, <1>3, <1>4, <1>5, <1>6 DEF TypeInv, TypeOK

(* A new context is in range and starts with no children.                  *)
LEMMA NewContextType ==
  ASSUME CtxType, NEW gen \in BOOLEAN, NEW p \in Ctx \cup {0}, NewContext(gen, p)
  PROVE  /\ nextCtx \in Ctx /\ nextCtx' \in 1..(MaxCtx + 1)
         /\ isGen' \in [Ctx -> BOOLEAN] /\ parent' \in [Ctx -> Ctx \cup {0}]
         /\ children' \in [Ctx -> SUBSET Ctx]
<1>1. nextCtx \in Ctx /\ nextCtx' \in 1..(MaxCtx + 1)
  BY IdFacts DEF CtxType, NewContext
<1>2. isGen' \in [Ctx -> BOOLEAN] /\ parent' \in [Ctx -> Ctx \cup {0}]
  BY <1>1 DEF CtxType, NewContext
<1>3. children' \in [Ctx -> SUBSET Ctx]
  BY <1>1 DEF CtxType, NewContext
<1> QED BY <1>1, <1>2, <1>3

(* Entering and leaving an activation.                                     *)
LEMMA EnterType ==
  ASSUME CallType, NEW c \in Ctx, Enter(c)
  PROVE  CallType' /\ stack' # <<>> /\ Len(stack') = Len(stack) + 1 /\ testing'
  BY AppendFacts DEF CallType, Enter

(* An activation of _step returns to the one that called it.               *)
LEMMA LeaveType ==
  ASSUME CallType, stack # <<>>, Leave
  PROVE  CallType' /\ Len(stack') = Len(stack) - 1 /\ ~testing'
  BY FrontFacts DEF CallType, Leave

(* What a transmission changes.                                            *)
LEMMA TransmitType ==
  ASSUME TableType, RequestType, NEW t \in Tid, Transmit(t)
  PROVE  /\ sends' \in [Tid -> Nat] /\ wire' \in [Tid -> Nat]
         /\ replyqueue' \in Seq(Tid)
<1>1. sends' \in [Tid -> Nat]
  BY DEF RequestType, Transmit
<1>2. CASE wire' = [wire EXCEPT ![t] = @ + 1] /\ UNCHANGED replyqueue
  BY <1>1, <1>2 DEF RequestType, TableType
<1>3. CASE replyqueue' = Append(replyqueue, t) /\ UNCHANGED wire
  <2>1. replyqueue' \in Seq(Tid)
    BY <1>3, AppendFacts DEF TableType
  <2> QED BY <1>1, <1>3, <2>1 DEF RequestType
<1> QED BY <1>2, <1>3 DEF Transmit

(* What finishing a context changes.                                       *)
LEMMA FinishType ==
  ASSUME TableType, CtxType, NEW c \in Ctx, Finish(c)
  PROVE  /\ done' \in [Ctx -> BOOLEAN] /\ children' \in [Ctx -> SUBSET Ctx]
         /\ waiters' \in [Ctx -> Seq(Ctx)] /\ mqueue' \in Seq(Ctx)
<1>1. done' \in [Ctx -> BOOLEAN] /\ children' \in [Ctx -> SUBSET Ctx]
  BY DEF CtxType, Finish
<1>2. waiters' \in [Ctx -> Seq(Ctx)]
  BY DEF TableType, Finish, ForgetWaiters
<1>3. \A d : WaitersOf(d, Complete(c)) \in Seq(Ctx)
  <2> SUFFICES ASSUME NEW d PROVE WaitersOf(d, Complete(c)) \in Seq(Ctx)
    OBVIOUS
  <2>1. CASE d \in Complete(c)
    <3>1. d \in Ctx
      BY <2>1 DEF Complete
    <3>2. waiters[d] \in Seq(Ctx)
      BY <3>1 DEF TableType
    <3> QED BY <2>1, <3>2, ReverseFacts DEF WaitersOf
  <2>2. CASE d \notin Complete(c)
    BY <2>2 DEF WaitersOf
  <2> QED BY <2>1, <2>2
<1>4. mqueue' \in Seq(Ctx)
  BY <1>3, ConcatFacts DEF TableType, Finish
<1> QED BY <1>1, <1>2, <1>4

(* Fields that do not change keep their types.                             *)
LEMMA TypeUnchanged ==
  ASSUME TypeInv
  PROVE  /\ UNCHANGED runVars => RunType'
         /\ UNCHANGED callVars => CallType'
         /\ UNCHANGED <<mqueue, keys, timeouts, replyqueue, waiters, result>> => TableType'
         /\ UNCHANGED ctxVars => CtxType'
         /\ UNCHANGED reqVars => RequestType'
         /\ UNCHANGED <<keys, timeouts, due, owner>> => Owned'
  BY DEF TypeInv, TypeOK, RunType, CallType, TableType, CtxType, RequestType, Owned,
         runVars, callVars, ctxVars, reqVars

(* A request sent, or refused by _execute.                                 *)
LEMMA TypeYieldMAD ==
  ASSUME TypeInv, NEW c \in Ctx, YieldMAD(c)
  PROVE  TypeInv'
<1> USE IdFacts, PairFacts DEF TypeInv, TypeOK
<1>1. nextTid \in Tid /\ nextTid' \in 1..(MaxTid + 1)
  BY DEF YieldMAD, RequestType
<1>2. RunType'
  BY TypeUnchanged DEF YieldMAD
<1>3. at' \in [Ctx -> Point]
  BY <1>1 DEF YieldMAD, CtxType
<1> DEFINE Sent == /\ Transmit(nextTid)
                   /\ keys' = keys \cup {nextTid}
                   /\ timeouts' = timeouts \cup {nextTid}
                   /\ owner' = [owner EXCEPT ![nextTid] = c]
                   /\ rmatch' = [rmatch EXCEPT ![c] = nextTid]
                   /\ retries' = [retries EXCEPT ![c] = Retries]
                   /\ Leave
                   /\ UNCHANGED exc
           Refused == /\ exc' = [exc EXCEPT ![c] = TRUE]
                      /\ LoopAgain
                      /\ UNCHANGED <<keys, timeouts, replyqueue, owner, rmatch, retries,
                                     wire, sends>>
<1>4. CASE Sent
  <2>1. CallType'
    BY <1>4, LeaveType DEF YieldMAD, InBody
  <2>2. replyqueue' \in Seq(Tid) /\ sends' \in [Tid -> Nat] /\ wire' \in [Tid -> Nat]
    BY <1>1, <1>4, TransmitType
  <2>3. keys' \in SUBSET Tid /\ timeouts' \in SUBSET Tid
    BY <1>1, <1>4 DEF TableType
  <2>4. TableType'
    BY <2>2, <2>3 DEF YieldMAD, TableType
  <2>5. rmatch' \in [Ctx -> Tid \cup {0}] /\ retries' \in [Ctx -> Nat]
    BY <1>1, <1>4, MADScheduleAssumption DEF CtxType
  <2>6. CtxType'
    BY <1>3, <1>4, <2>5 DEF YieldMAD, CtxType
  <2>7. owner' \in [Tid -> Ctx \cup {0}]
    BY <1>1, <1>4 DEF RequestType
  <2>8. RequestType'
    BY <1>1, <2>2, <2>7 DEF YieldMAD, RequestType
  <2>9. Owned'
    BY <1>1, <1>4 DEF YieldMAD, Owned, RequestType, runVars
  <2> QED BY <1>2, <2>1, <2>4, <2>6, <2>8, <2>9
<1>5. CASE Refused
  <2>1. CallType' /\ TableType' /\ Owned'
    BY <1>5, TypeUnchanged DEF YieldMAD, LoopAgain, CallType, runVars
  <2>2. exc' \in [Ctx -> BOOLEAN]
    BY <1>5 DEF CtxType
  <2>3. CtxType'
    BY <1>3, <1>5, <2>2 DEF YieldMAD, CtxType
  <2>4. RequestType'
    BY <1>1, <1>5 DEF YieldMAD, RequestType
  <2> QED BY <1>2, <2>1, <2>3, <2>4
<1> QED BY <1>4, <1>5 DEF YieldMAD, SendMAD

(* A step of an activation of _step preserves the types.                   *)
LEMMA TypeActivation ==
  ASSUME TypeInv, NEW c \in Ctx, Resume(c) \/ Park(c) \/ Body(c)
  PROVE  TypeInv'
<1> USE IdFacts, PairFacts DEF TypeInv, TypeOK
<1>1. CASE Resume(c)
  <2>1. RunType' /\ TableType' /\ RequestType' /\ Owned'
    BY <1>1, TypeUnchanged DEF Resume, runVars, reqVars
  <2>2. CallType'
    BY <1>1, TypeUnchanged DEF Resume, CallType
  <2>3. CtxType'
    BY <1>1, TypeUnchanged DEF Resume, CtxType, TakeInbox
  <2> QED BY <2>1, <2>2, <2>3
<1>2. CASE Park(c)
  <2>1. RunType' /\ CtxType' /\ RequestType' /\ Owned'
    BY <1>2, TypeUnchanged DEF Park, runVars, reqVars
  <2>2. CallType'
    BY <1>2, LeaveType DEF Park, AtTest
  <2>3. TableType'
    BY <1>2, AppendFacts DEF Park, TableType
  <2> QED BY <2>1, <2>2, <2>3
<1>3. ASSUME NEW gen \in BOOLEAN, Queue(c, gen)
      PROVE  TypeInv'
  <2>1. RunType' /\ TableType' /\ RequestType' /\ Owned'
    BY <1>3, TypeUnchanged DEF Queue, runVars, reqVars
  <2>2. CallType'
    BY <1>3, EnterType, NewContextType DEF Queue
  <2>3. CtxType'
    BY <1>3, NewContextType DEF Queue, CtxType
  <2> QED BY <2>1, <2>2, <2>3
<1>4. CASE SetResult(c)
  <2>1. RunType' /\ CallType' /\ CtxType' /\ RequestType' /\ Owned'
    BY <1>4, TypeUnchanged DEF SetResult, runVars, reqVars
  <2>2. TableType'
    BY <1>4, TypeUnchanged DEF SetResult, TableType
  <2> QED BY <2>1, <2>2
<1>5. CASE YieldMAD(c)
  <2>1. TypeInv'
    BY <1>5, TypeYieldMAD DEF YieldMAD
  <2> QED BY <2>1
<1>6. ASSUME NEW d \in base..(nextCtx - 1), YieldContext(c, d)
      PROVE  TypeInv'
  <2>1. RunType' /\ RequestType' /\ Owned'
    BY <1>6, TypeUnchanged DEF YieldContext, runVars, reqVars
  <2>2. CallType'
    BY <1>6, LeaveType DEF YieldContext, InBody, LoopAgain, CallType
  <2>3. d \in Ctx /\ d \in Nat
    BY <1>6, MADScheduleAssumption DEF YieldContext, RunType, CtxType, Ctx
  <2>4. Append(waiters[d], c) \in Seq(Ctx)
    BY <1>6, <2>3, AppendFacts DEF YieldContext, TableType
  <2>5. TableType'
    BY <1>6, <2>3, <2>4 DEF YieldContext, TableType
  <2>6. CtxType'
    BY <1>6, <2>3 DEF YieldContext, CtxType
  <2> QED BY <2>1, <2>2, <2>3, <2>4, <2>5, <2>6
<1>7. CASE YieldNone(c)
  <2>1. RunType' /\ RequestType' /\ Owned'
    BY <1>7, TypeUnchanged DEF YieldNone, runVars, reqVars
  <2>2. CallType'
    BY <1>7, TypeUnchanged DEF YieldNone, LoopAgain, CallType
  <2>3. TableType'
    BY <1>7, TypeUnchanged DEF YieldNone, TableType
  <2>4. CtxType'
    BY <1>7, TypeUnchanged DEF YieldNone, CtxType, TableType
  <2> QED BY <2>1, <2>2, <2>3, <2>4
<1>8. CASE YieldCall(c)
  <2>1. RunType' /\ TableType' /\ RequestType' /\ Owned'
    BY <1>8, TypeUnchanged DEF YieldCall, runVars, reqVars
  <2>2. CallType'
    BY <1>8, TypeUnchanged DEF YieldCall, LoopAgain, CallType
  <2>3. CtxType'
    <3>1. depth' \in [Ctx -> Nat]
      BY <1>8 DEF YieldCall, CtxType
    <3>2. at' \in [Ctx -> Point]
      BY <1>8 DEF YieldCall, CtxType
    <3> QED BY <1>8, <3>1, <3>2 DEF YieldCall, CtxType
  <2> QED BY <2>1, <2>2, <2>3
<1>9. CASE YieldSpawn(c)
  <2>1. RunType' /\ RequestType' /\ Owned'
    BY <1>9, TypeUnchanged DEF YieldSpawn, runVars, reqVars
  <2>2. CallType'
    BY <1>9, FrontFacts, AppendFacts, NewContextType DEF YieldSpawn, InBody, CallType
  <2>3. TableType'
    BY <1>9, AppendFacts DEF YieldSpawn, TableType
  <2>4. CtxType'
    BY <1>9, NewContextType DEF YieldSpawn, CtxType
  <2> QED BY <2>1, <2>2, <2>3, <2>4
<1>10. CASE ReturnToCaller(c)
  <2>1. RunType' /\ RequestType' /\ Owned'
    BY <1>10, TypeUnchanged DEF ReturnToCaller, runVars, reqVars
  <2>2. CallType'
    BY <1>10, TypeUnchanged DEF ReturnToCaller, LoopAgain, CallType
  <2>3. TableType'
    BY <1>10, TypeUnchanged DEF ReturnToCaller, TableType
  <2>4. CtxType'
    <3>1. depth' \in [Ctx -> Nat]
      BY <1>10 DEF ReturnToCaller, CtxType
    <3>2. at' \in [Ctx -> Point] /\ inbox' \in [Ctx -> Result]
      BY <1>10 DEF ReturnToCaller, CtxType, TableType
    <3> QED BY <1>10, <3>1, <3>2 DEF ReturnToCaller, CtxType
  <2> QED BY <2>1, <2>2, <2>3, <2>4
<1>11. CASE Return(c)
  <2>1. RunType' /\ RequestType' /\ Owned'
    BY <1>11, TypeUnchanged DEF Return, runVars, reqVars
  <2>2. CallType'
    BY <1>11, LeaveType DEF Return, InBody
  <2>3. TableType'
    BY <1>11, FinishType DEF Return, TableType
  <2>4. CtxType'
    BY <1>11, FinishType DEF Return, CtxType
  <2> QED BY <2>1, <2>2, <2>3, <2>4
<1>12. CASE RaiseToCaller(c)
  <2>1. RunType' /\ TableType' /\ RequestType' /\ Owned'
    BY <1>12, TypeUnchanged DEF RaiseToCaller, runVars, reqVars
  <2>2. CallType'
    BY <1>12, TypeUnchanged DEF RaiseToCaller, LoopAgain, CallType
  <2>3. CtxType'
    <3>1. depth' \in [Ctx -> Nat]
      BY <1>12 DEF RaiseToCaller, CtxType
    <3>2. at' \in [Ctx -> Point] /\ exc' \in [Ctx -> BOOLEAN]
      BY <1>12 DEF RaiseToCaller, CtxType
    <3> QED BY <1>12, <3>1, <3>2 DEF RaiseToCaller, CtxType
  <2> QED BY <2>1, <2>2, <2>3
<1>13. CASE Raise(c)
  <2>1. RunType'
    BY <1>13, TypeUnchanged DEF Raise, RunType, RunEnds
  <2>2. RequestType'
    BY <1>13, TypeUnchanged DEF Raise
  <2>3. Owned'
    BY <1>13, TypeUnchanged DEF Raise, Owned, RunEnds, reqVars, runVars
  <2>4. CallType'
    BY <1>13, LeaveType DEF Raise, InBody
  <2>5. TableType'
    BY <1>13, FinishType DEF Raise, TableType
  <2>6. CtxType'
    BY <1>13, FinishType DEF Raise, CtxType
  <2> QED BY <2>1, <2>2, <2>3, <2>4, <2>5, <2>6
<1> QED
  BY <1>1, <1>2, <1>3, <1>4, <1>5, <1>6, <1>7, <1>8, <1>9, <1>10, <1>11, <1>12, <1>13 DEF Body

(* The dispatch of a reply.                                                *)
LEMMA TypeDispatch ==
  ASSUME TypeInv, NEW t \in keys, Dispatch(t)
  PROVE  RunType' /\ CallType' /\ CtxType' /\ Owned'
         /\ keys' \in SUBSET Tid /\ timeouts' \in SUBSET Tid
         /\ outcome' \in [Tid -> {"none", "reply", "timeout"}]
<1> USE IdFacts, PairFacts DEF TypeInv, TypeOK
<1>1. t \in Tid /\ owner[t] \in Ctx /\ <<"reply", t>> \in Result
  <2>1. t \in Tid /\ owner[t] \in Ctx
    BY DEF Owned, TableType
  <2> QED BY <2>1
<1>2. RunType'
  BY TypeUnchanged DEF Dispatch
<1>3. CallType'
  BY <1>1, EnterType DEF Dispatch
<1>4. inbox' \in [Ctx -> Result] /\ exc' \in [Ctx -> BOOLEAN]
  <2>1. CASE inbox' = [inbox EXCEPT ![owner[t]] = <<"reply", t>>] /\ UNCHANGED exc
    BY <1>1, <2>1 DEF CtxType
  <2>2. CASE exc' = [exc EXCEPT ![owner[t]] = TRUE] /\ UNCHANGED inbox
    BY <1>1, <2>2 DEF CtxType
  <2> QED BY <2>1, <2>2 DEF Dispatch
<1>5. CtxType'
  BY <1>4 DEF Dispatch, CtxType
<1>6. keys' \in SUBSET Tid /\ timeouts' \in SUBSET Tid /\ Owned'
  BY DEF Dispatch, Forget, TableType, Owned, runVars
<1>7. outcome' \in [Tid -> {"none", "reply", "timeout"}]
  BY <1>1 DEF Dispatch, RequestType
<1> QED BY <1>2, <1>3, <1>5, <1>6, <1>7

(* A queued reply is taken, for a request in _keys or for none.            *)
LEMMA TypeTakeQueuedReply ==
  ASSUME TypeInv, TakeQueuedReply
  PROVE  TypeInv'
<1> USE DEF TypeInv, TypeOK
<1>1. replyqueue' \in Seq(Tid)
  BY FrontFacts DEF TakeQueuedReply, TableType
<1>2. CASE Last(replyqueue) \in keys
  <2>1. Dispatch(Last(replyqueue))
    BY <1>2 DEF TakeQueuedReply
  <2>2. TableType'
    BY <1>1, <1>2, <2>1, TypeDispatch DEF Dispatch, TableType
  <2>3. RequestType'
    BY <1>2, <2>1, TypeDispatch DEF TakeQueuedReply, Dispatch, RequestType
  <2> QED BY <1>2, <2>1, <2>2, <2>3, TypeDispatch
<1>3. CASE Last(replyqueue) \notin keys
  <2>1. Unexpected /\ UNCHANGED wire
    BY <1>3 DEF TakeQueuedReply
  <2>2. RunType' /\ CallType' /\ CtxType' /\ RequestType' /\ Owned'
    BY <2>1, TypeUnchanged DEF Unexpected, reqVars, runVars
  <2>3. TableType'
    BY <1>1, <2>1 DEF Unexpected, TableType
  <2> QED BY <2>2, <2>3
<1> QED BY <1>2, <1>3

(* A reply arrives, for a request of this run or of none.                  *)
LEMMA TypeReceive ==
  ASSUME TypeInv, NEW t \in Tid, Receive(t)
  PROVE  TypeInv'
<1> USE DEF TypeInv, TypeOK
<1>1. wire' \in [Tid -> Nat]
  BY DEF Receive, RequestType
<1>2. CASE t \in keys
  <2>1. Dispatch(t)
    BY <1>2 DEF Receive
  <2>2. TableType'
    BY <1>2, <2>1, TypeDispatch DEF Receive, Dispatch, TableType
  <2>3. RequestType'
    BY <1>1, <1>2, <2>1, TypeDispatch DEF Dispatch, RequestType
  <2> QED BY <1>2, <2>1, <2>2, <2>3, TypeDispatch
<1>3. CASE t \notin keys
  <2>1. Unexpected /\ UNCHANGED replyqueue
    BY <1>3 DEF Receive
  <2>2. RunType' /\ CallType' /\ TableType' /\ CtxType' /\ Owned'
    BY <2>1, TypeUnchanged DEF Unexpected, runVars
  <2>3. RequestType'
    BY <1>1, <2>1 DEF Unexpected, RequestType
  <2> QED BY <2>2, <2>3
<1> QED BY <1>2, <1>3

(* A due entry that is sent again, or whose retransmission raises.         *)
LEMMA TypeTimeoutRetries ==
  ASSUME TypeInv, NEW t \in Tid, TimeoutRetries(t)
  PROVE  TypeInv'
<1> USE DEF TypeInv, TypeOK
<1>1. owner[t] \in Ctx
  BY DEF TimeoutRetries, Purging, Owned
<1>2. retries' \in [Ctx -> Nat]
  BY <1>1 DEF TimeoutRetries, OutOfRetries, CtxType
<1>3. CtxType'
  BY <1>2 DEF TimeoutRetries, CtxType
<1>4. CallType'
  BY TypeUnchanged DEF TimeoutRetries
<1>5. CASE Transmit(t) /\ Reinsert(t) /\ UNCHANGED <<pc, exit, runs, base>>
  <2>1. RunType'
    BY <1>5 DEF Reinsert, RunType
  <2>2. TableType'
    BY <1>5, TransmitType DEF TimeoutRetries, Reinsert, TableType
  <2>3. RequestType'
    BY <1>5, TransmitType DEF TimeoutRetries, RequestType
  <2>4. Owned'
    BY <1>5 DEF TimeoutRetries, Reinsert, Owned
  <2> QED BY <1>3, <1>4, <2>1, <2>2, <2>3, <2>4
<1>6. CASE /\ timeouts' = timeouts \ {t}
           /\ keys' = keys \ {rmatch[owner[t]]}
           /\ RunEnds("senderror")
           /\ UNCHANGED <<replyqueue, wire, sends>>
  <2>1. RunType'
    BY <1>6 DEF RunEnds, RunType
  <2>2. TableType'
    BY <1>6 DEF TimeoutRetries, TableType
  <2>3. RequestType'
    BY <1>6 DEF TimeoutRetries, RequestType
  <2>4. Owned'
    BY <1>6 DEF TimeoutRetries, RunEnds, Owned
  <2> QED BY <1>3, <1>4, <2>1, <2>2, <2>3, <2>4
<1> QED BY <1>5, <1>6 DEF TimeoutRetries

(* A step of run() preserves the types.                                    *)
LEMMA TypeRun ==
  ASSUME TypeInv, Run \/ \E t \in Tid : Receive(t)
  PROVE  TypeInv'
<1> USE IdFacts, PairFacts DEF TypeInv, TypeOK
<1>1. ASSUME NEW gen \in BOOLEAN, StartWork(gen)
      PROVE  TypeInv'
  <2>1. RunType'
    BY <1>1, TypeUnchanged DEF StartWork, RunType
  <2>2. TableType' /\ RequestType' /\ Owned'
    BY <1>1, TypeUnchanged DEF StartWork, runVars, reqVars
  <2>3. CallType'
    BY <1>1, EnterType, NewContextType DEF StartWork
  <2>4. CtxType'
    BY <1>1, NewContextType DEF StartWork, CtxType
  <2> QED BY <2>1, <2>2, <2>3, <2>4
<1>2. CASE BeginLoop
  <2>1. RunType'
    BY <1>2, TypeUnchanged DEF BeginLoop, RunType
  <2>2. CallType' /\ TableType' /\ CtxType' /\ RequestType' /\ Owned'
    BY <1>2, TypeUnchanged DEF BeginLoop, reqVars
  <2> QED BY <2>1, <2>2
<1>3. CASE StepQueued
  <2>1. RunType' /\ CtxType' /\ RequestType' /\ Owned'
    BY <1>3, TypeUnchanged DEF StepQueued, runVars, reqVars
  <2>2. CallType'
    BY <1>3, FrontFacts, EnterType DEF StepQueued, TableType
  <2>3. TableType'
    BY <1>3, FrontFacts DEF StepQueued, TableType
  <2> QED BY <2>1, <2>2, <2>3
<1>4. CASE TakeQueuedReply
  <2>1. TypeInv'
    BY <1>4, TypeTakeQueuedReply DEF TakeQueuedReply
  <2> QED BY <2>1
<1>5. ASSUME NEW t \in Tid, Receive(t)
      PROVE  TypeInv'
  <2>1. TypeInv'
    BY <1>5, TypeReceive DEF Receive
  <2> QED BY <2>1
<1>6. ASSUME NEW S \in SUBSET timeouts, Wake(S)
      PROVE  TypeInv'
  <2>1. RunType'
    BY <1>6, TypeUnchanged DEF Wake, RunType, TableType
  <2>2. CallType' /\ TableType' /\ CtxType' /\ RequestType'
    BY <1>6, TypeUnchanged DEF Wake
  <2>3. Owned'
    BY <1>6, TypeUnchanged DEF Wake, Owned, reqVars
  <2> QED BY <2>1, <2>2, <2>3
<1>7. ASSUME NEW t \in Tid, TimeoutFails(t)
      PROVE  TypeInv'
  <2>1. owner[t] \in Ctx
    BY <1>7, TypeUnchanged DEF TimeoutFails, Purging, Owned
  <2>2. RunType'
    BY <1>7, TypeUnchanged DEF TimeoutFails, RunType
  <2>3. CallType'
    BY <1>7, EnterType, <2>1 DEF TimeoutFails
  <2>4. TableType'
    BY <1>7, TypeUnchanged DEF TimeoutFails, TableType
  <2>5. CtxType'
    BY <1>7, <2>1 DEF TimeoutFails, CtxType
  <2>6. RequestType'
    BY <1>7, TypeUnchanged DEF TimeoutFails, RequestType
  <2>7. Owned'
    BY <1>7, TypeUnchanged DEF TimeoutFails, Owned
  <2> QED BY <2>1, <2>2, <2>3, <2>4, <2>5, <2>6, <2>7
<1>8. ASSUME NEW t \in Tid, TimeoutRetries(t)
      PROVE  TypeInv'
  <2>1. TypeInv'
    BY <1>8, TypeTimeoutRetries DEF TimeoutRetries
  <2> QED BY <2>1
<1>9. ASSUME NEW t \in Tid, TimeoutKeyError(t)
      PROVE  TypeInv'
  <2>1. RunType'
    BY <1>9, TypeUnchanged DEF TimeoutKeyError, RunType, RunEnds
  <2>2. CallType' /\ CtxType' /\ RequestType'
    BY <1>9, TypeUnchanged DEF TimeoutKeyError
  <2>3. TableType'
    BY <1>9, TypeUnchanged DEF TimeoutKeyError, TableType
  <2>4. Owned'
    BY <1>9, TypeUnchanged DEF TimeoutKeyError, Owned, RunEnds, reqVars
  <2> QED BY <2>1, <2>2, <2>3, <2>4
<1>10. CASE FinishRun
  <2>1. RunType'
    BY <1>10, TypeUnchanged DEF FinishRun, RunType, RunEnds
  <2>2. CallType' /\ TableType' /\ CtxType' /\ RequestType'
    BY <1>10, TypeUnchanged DEF FinishRun
  <2>3. Owned'
    BY <1>10, TypeUnchanged DEF FinishRun, Owned, RunEnds, reqVars
  <2> QED BY <2>1, <2>2, <2>3
<1> QED
  BY <1>1, <1>2, <1>3, <1>4, <1>5, <1>6, <1>7, <1>8, <1>9, <1>10 DEF Run

(* Every step keeps the scheduler well typed.                              *)
LEMMA TypeNext == TypeInv /\ [Next]_vars => TypeInv'
<1> SUFFICES ASSUME TypeInv, [Next]_vars PROVE TypeInv'
  OBVIOUS
<1>1. CASE StartRun
  <2> USE <1>1 DEF StartRun, TypeInv, TypeOK
  <2>1. RunType'
    BY DEF RunType, CtxType
  <2>2. CallType' /\ CtxType' /\ RequestType'
    BY TypeUnchanged
  <2>3. TableType'
    BY DEF TableType
  <2>4. Owned'
    BY DEF Owned, reqVars
  <2> QED BY <2>1, <2>2, <2>3, <2>4
<1>2. CASE Run \/ \E t \in Tid : Receive(t)
  BY <1>2, TypeRun
<1>3. ASSUME NEW c \in Ctx, Resume(c) \/ Park(c) \/ Body(c) PROVE TypeInv'
  BY <1>3, TypeActivation
<1>4. CASE UNCHANGED vars
  BY <1>4, TypeUnchanged DEF TypeInv, TypeOK, vars, runVars, reqVars
<1> QED BY <1>1, <1>2, <1>3, <1>4 DEF Next, Scheduler, Thread

(* The tables, the attributes and the bookkeeping of run() have the types  *)
(* sched.py relies on in every state of every run.                         *)
THEOREM TypeCorrect == Spec => []TypeOK
<1>1. TypeInv => TypeOK
  BY DEF TypeInv
<1> QED BY <1>1, TypeInit, TypeNext, PTL DEF Spec

-----------------------------------------------------------------------------
(* The window.  Only the while test of _step looks at the number of keys,  *)
(* so every activation that is inside a body may still add one: the bound  *)
(* that steps preserve counts those bodies with the keys.                  *)

OpenBodies == IF testing THEN Len(stack) - 1 ELSE Len(stack)
WindowInv ==
  /\ IsFiniteSet(keys)
  /\ testing => stack # <<>>
  /\ Len(stack) <= MaxNest
  /\ Cardinality(keys) + OpenBodies <= MaxOutstanding + MaxNest - 1

LEMMA WindowUnchanged ==
  ASSUME WindowInv, UNCHANGED callVars, UNCHANGED keys
  PROVE  WindowInv'
  BY DEF WindowInv, OpenBodies, callVars

(* Removing keys keeps the bound.                                          *)
LEMMA FewerKeys ==
  ASSUME IsFiniteSet(keys), keys' \subseteq keys
  PROVE  /\ IsFiniteSet(keys') /\ Cardinality(keys') \in Nat /\ Cardinality(keys) \in Nat
         /\ Cardinality(keys') <= Cardinality(keys)
  BY FS_Subset, FS_CardinalityType

(* The depth of the calls of _step is a number.                            *)
LEMMA LenFacts ==
  ASSUME CallType
  PROVE  Len(stack) \in Nat /\ (stack # <<>> => Len(stack) > 0) /\ Len(<<>>) = 0
  BY DEF CallType

(* A body that tests again, or leaves, without a new key.                  *)
LEMMA WindowCloses ==
  ASSUME TypeInv, WindowInv, stack # <<>>, keys' \subseteq keys,
         LoopAgain \/ Leave \/ (Len(stack') = Len(stack) /\ stack' # <<>> /\ testing' = TRUE)
  PROVE  WindowInv'
<1> USE MADScheduleAssumption DEF TypeInv, TypeOK
<1>1. IsFiniteSet(keys') /\ Cardinality(keys') \in Nat /\ Cardinality(keys) \in Nat
      /\ Cardinality(keys') <= Cardinality(keys)
  BY FewerKeys DEF WindowInv
<1>2. CASE LoopAgain
  BY <1>1, <1>2, LenFacts DEF WindowInv, OpenBodies, LoopAgain
<1>3. CASE Leave
  <2>1. Len(stack') = Len(stack) - 1 /\ ~testing'
    BY <1>3, LeaveType
  <2> QED BY <1>1, <2>1, LenFacts DEF WindowInv, OpenBodies
<1>4. CASE Len(stack') = Len(stack) /\ stack' # <<>> /\ testing' = TRUE
  BY <1>1, <1>4, LenFacts DEF WindowInv, OpenBodies
<1> QED BY <1>2, <1>3, <1>4

(* A new activation from a body or from run(), without a new key.          *)
LEMMA WindowEnters ==
  ASSUME TypeInv, WindowInv, ~testing, Len(stack) < MaxNest, keys' \subseteq keys,
         NEW c \in Ctx, Enter(c)
  PROVE  WindowInv'
<1> USE MADScheduleAssumption DEF TypeInv, TypeOK
<1>1. IsFiniteSet(keys') /\ Cardinality(keys') \in Nat /\ Cardinality(keys) \in Nat
      /\ Cardinality(keys') <= Cardinality(keys)
  BY FewerKeys DEF WindowInv
<1>2. stack' # <<>> /\ Len(stack') = Len(stack) + 1 /\ testing'
  BY EnterType
<1> QED BY <1>1, <1>2, LenFacts DEF WindowInv, OpenBodies

(* The steps of an activation of _step.                                    *)
LEMMA WindowActivation ==
  ASSUME TypeInv, WindowInv, NEW c \in Ctx, Resume(c) \/ Park(c) \/ Body(c)
  PROVE  WindowInv'
<1> USE DEF TypeInv, TypeOK
<1>1. CASE Resume(c)
  <2>1. Cardinality(keys) \in Nat
    BY FS_CardinalityType DEF WindowInv
  <2>2. testing /\ stack # <<>> /\ Cardinality(keys) < MaxOutstanding
        /\ testing' = FALSE /\ UNCHANGED <<stack, keys>>
    BY <1>1 DEF Resume, AtTest, HasRoom
  <2> QED BY <2>1, <2>2, LenFacts, MADScheduleAssumption DEF WindowInv, OpenBodies
<1>2. CASE Park(c)
  <2>1. testing /\ stack # <<>> /\ UNCHANGED keys
    BY <1>2 DEF Park, AtTest
  <2>2. Len(stack') = Len(stack) - 1 /\ ~testing'
    BY <1>2, <2>1, LeaveType DEF Park
  <2> QED BY <2>1, <2>2, LenFacts, MADScheduleAssumption DEF WindowInv, OpenBodies
<1>3. ASSUME NEW gen \in BOOLEAN, Queue(c, gen)
      PROVE  WindowInv'
  <2>1. nextCtx \in Ctx
    BY <1>3, NewContextType, IdFacts DEF Queue
  <2> QED BY <1>3, <2>1, WindowEnters DEF Queue, InBody
<1>4. CASE SetResult(c)
  BY <1>4, WindowUnchanged DEF SetResult
<1>5. CASE YieldMAD(c)
  <2>1. CASE keys' = keys \cup {nextTid} /\ Leave
    <3>1. stack # <<>> /\ ~testing
      BY <1>5 DEF YieldMAD, InBody
    <3>2. Len(stack') = Len(stack) - 1 /\ ~testing'
      BY <2>1, <3>1, LeaveType
    <3>3. /\ IsFiniteSet(keys') /\ Cardinality(keys') \in Nat /\ Cardinality(keys) \in Nat
          /\ Cardinality(keys') <= Cardinality(keys) + 1
      <4>1. /\ IsFiniteSet(keys \cup {nextTid})
            /\ \/ Cardinality(keys \cup {nextTid}) = Cardinality(keys)
               \/ Cardinality(keys \cup {nextTid}) = Cardinality(keys) + 1
        BY FS_AddElement DEF WindowInv
      <4>2. Cardinality(keys) \in Nat
        BY FS_CardinalityType DEF WindowInv
      <4> QED BY <2>1, <4>1, <4>2
    <3> QED BY <3>1, <3>2, <3>3, LenFacts, MADScheduleAssumption DEF WindowInv, OpenBodies
  <2>2. CASE LoopAgain /\ UNCHANGED keys
    BY <1>5, <2>2, WindowCloses DEF YieldMAD, InBody
  <2> QED BY <1>5, <2>1, <2>2 DEF YieldMAD, SendMAD
<1>6. ASSUME NEW d \in base..(nextCtx - 1), YieldContext(c, d)
      PROVE  WindowInv'
  BY <1>6, WindowCloses DEF YieldContext, InBody
<1>7. CASE YieldNone(c)
  BY <1>7, WindowCloses DEF YieldNone, InBody
<1>8. CASE YieldCall(c)
  BY <1>8, WindowCloses DEF YieldCall, InBody
<1>9. CASE YieldSpawn(c)
  <2>1. nextCtx \in Ctx
    BY <1>9, NewContextType, IdFacts DEF YieldSpawn
  <2>2. stack # <<>> /\ UNCHANGED keys /\ testing' = TRUE
    BY <1>9 DEF YieldSpawn, InBody
  <2>3. Front(stack) \in Seq(Ctx) /\ Len(Front(stack)) = Len(stack) - 1 /\ Len(stack) \in Nat
    BY <2>2, FrontFacts DEF CallType
  <2>4. Len(stack') = Len(stack) /\ stack' # <<>>
    BY <1>9, <2>1, <2>3, AppendFacts DEF YieldSpawn
  <2> QED BY <2>2, <2>4, WindowCloses
<1>10. CASE ReturnToCaller(c)
  BY <1>10, WindowCloses DEF ReturnToCaller, InBody
<1>11. CASE Return(c)
  BY <1>11, WindowCloses DEF Return, InBody
<1>12. CASE RaiseToCaller(c)
  BY <1>12, WindowCloses DEF RaiseToCaller, InBody
<1>13. CASE Raise(c)
  BY <1>13, WindowCloses DEF Raise, InBody
<1> QED
  BY <1>1, <1>2, <1>3, <1>4, <1>5, <1>6, <1>7, <1>8, <1>9, <1>10, <1>11, <1>12, <1>13
  DEF Body

(* The steps of run() itself.                                              *)
LEMMA WindowRun ==
  ASSUME TypeInv, WindowInv, Run \/ \E t \in Tid : Receive(t)
  PROVE  WindowInv'
<1> USE DEF TypeInv, TypeOK
<1>1. ASSUME stack = <<>> PROVE ~testing /\ Len(stack) < MaxNest
  BY <1>1, LenFacts, MADScheduleAssumption DEF WindowInv
<1>2. ASSUME NEW t \in keys, Dispatch(t), stack = <<>> PROVE WindowInv'
  <2>1. owner[t] \in Ctx
    BY DEF Owned
  <2> QED BY <1>1, <1>2, <2>1, WindowEnters DEF Dispatch, Forget
<1>3. ASSUME NEW gen \in BOOLEAN, StartWork(gen)
      PROVE  WindowInv'
  <2>1. nextCtx \in Ctx
    BY <1>3, NewContextType, IdFacts DEF StartWork
  <2> QED BY <1>1, <1>3, <2>1, WindowEnters DEF StartWork
<1>4. CASE BeginLoop
  BY <1>4, WindowUnchanged DEF BeginLoop
<1>5. CASE StepQueued
  <2>1. Last(mqueue) \in Ctx
    BY <1>5, FrontFacts DEF StepQueued, TableType
  <2> QED BY <1>1, <1>5, <2>1, WindowEnters DEF StepQueued, Looping
<1>6. CASE TakeQueuedReply
  BY <1>2, <1>6, WindowUnchanged DEF TakeQueuedReply, ReadyForReply, Looping, Unexpected
<1>7. ASSUME NEW t \in Tid, Receive(t)
      PROVE  WindowInv'
  BY <1>2, <1>7, WindowUnchanged DEF Receive, ReadyForReply, Looping, Unexpected
<1>8. ASSUME NEW S \in SUBSET timeouts, Wake(S)
      PROVE  WindowInv'
  BY <1>8, WindowUnchanged DEF Wake
<1>9. ASSUME NEW t \in Tid, TimeoutFails(t)
      PROVE  WindowInv'
  <2>1. owner[t] \in Ctx
    BY <1>9 DEF TimeoutFails, Purging, Owned
  <2> QED BY <1>1, <1>9, <2>1, WindowEnters DEF TimeoutFails, Purging
<1>10. ASSUME NEW t \in Tid, TimeoutRetries(t)
       PROVE  WindowInv'
  <2>1. UNCHANGED callVars /\ keys' \subseteq keys
    BY <1>10 DEF TimeoutRetries, Reinsert
  <2>2. /\ IsFiniteSet(keys') /\ Cardinality(keys') \in Nat /\ Cardinality(keys) \in Nat
        /\ Cardinality(keys') <= Cardinality(keys)
    BY <2>1, FewerKeys DEF WindowInv
  <2> QED BY <2>1, <2>2, LenFacts, MADScheduleAssumption DEF WindowInv, OpenBodies, callVars
<1>11. ASSUME NEW t \in Tid, TimeoutKeyError(t)
       PROVE  WindowInv'
  BY <1>11, WindowUnchanged DEF TimeoutKeyError
<1>12. CASE FinishRun
  BY <1>12, WindowUnchanged DEF FinishRun
<1> QED
  BY <1>3, <1>4, <1>5, <1>6, <1>7, <1>8, <1>9, <1>10, <1>11, <1>12 DEF Run

(* Whatever the coroutines do, MADs in flight never exceed the window by   *)
(* more than the nesting of queue() and mqueue() calls (sched.py _step).   *)
THEOREM WindowBounded == Spec => []WindowBound
<1>1. Init => WindowInv
  <2> SUFFICES ASSUME Init PROVE WindowInv
    OBVIOUS
  <2>1. keys = {} /\ stack = <<>> /\ ~testing
    BY DEF Init
  <2>2. IsFiniteSet({}) /\ Cardinality({}) = 0
    BY FS_EmptySet
  <2> QED BY <2>1, <2>2, MADScheduleAssumption DEF WindowInv, OpenBodies
<1>2. TypeInv /\ WindowInv /\ [Next]_vars => WindowInv'
  <2> SUFFICES ASSUME TypeInv, WindowInv, [Next]_vars PROVE WindowInv'
    OBVIOUS
  <2>1. CASE StartRun
    <3>1. keys' = {} /\ keys' \subseteq keys /\ UNCHANGED callVars
      BY <2>1 DEF StartRun
    <3>2. IsFiniteSet(keys') /\ Cardinality(keys') \in Nat /\ Cardinality(keys) \in Nat
          /\ Cardinality(keys') <= Cardinality(keys)
      BY <3>1, FewerKeys DEF WindowInv
    <3> QED
      BY <3>1, <3>2, LenFacts, MADScheduleAssumption
      DEF WindowInv, OpenBodies, callVars, TypeInv, TypeOK
  <2>2. CASE Run \/ \E t \in Tid : Receive(t)
    BY <2>2, WindowRun
  <2>3. ASSUME NEW c \in Ctx, Resume(c) \/ Park(c) \/ Body(c) PROVE WindowInv'
    BY <2>3, WindowActivation
  <2>4. CASE UNCHANGED vars
    BY <2>4, WindowUnchanged DEF vars
  <2> QED BY <2>1, <2>2, <2>3, <2>4 DEF Next, Scheduler, Thread
<1>3. TypeInv /\ WindowInv => WindowBound
  <2> SUFFICES ASSUME TypeInv, WindowInv PROVE WindowBound
    OBVIOUS
  <2>1. Cardinality(keys) \in Nat
    BY FS_CardinalityType DEF WindowInv
  <2>2. OpenBodies >= 0 /\ OpenBodies \in Int
    BY LenFacts DEF WindowInv, OpenBodies, TypeInv, TypeOK
  <2> QED BY <2>1, <2>2, MADScheduleAssumption DEF WindowInv, WindowBound
<1> QED BY <1>1, <1>2, <1>3, TypeInit, TypeNext, PTL DEF Spec

-----------------------------------------------------------------------------
(* Every context in the tables belongs to the current run, every request   *)
(* was handed out, and a context not created yet is not finished.          *)
Numbered ==
  /\ base <= nextCtx
  /\ Homes \subseteq ThisRun
  /\ keys \cup timeouts \cup due \subseteq 1..(nextTid - 1)
  /\ \A t \in timeouts : owner[t] < nextCtx
  /\ \A c \in Ctx : rmatch[c] < nextTid
  /\ \A c \in Ctx : c >= nextCtx => ~done[c]

(* Parents are older than their children.                                  *)
Family ==
  /\ \A c \in Ctx : parent[c] < c
  /\ \A c \in Ctx : \A e \in children[c] : parent[e] = c /\ e < nextCtx

(* Between runs nothing is half done.                                      *)
Quiet ==
  /\ pc = "idle" => stack = <<>> /\ due = {}
  /\ pc # "idle" => exit = "none"

(* A context knows the one request it has in flight.                       *)
Timers ==
  /\ due \subseteq timeouts
  /\ \A t \in keys : rmatch[owner[t]] = t
  /\ \A c \in Ctx : rmatch[c] # 0 => owner[rmatch[c]] = c
  /\ TimerPerKey

HomeInv == Numbered /\ Family /\ Quiet /\ Timers /\ OneHome /\ NoLostWakeup

-----------------------------------------------------------------------------
(* What the moves between homes do to the four sets.                       *)

LEMMA LeaveSets ==
  ASSUME CallType, stack # <<>>, IsInjective(stack), Leave
  PROVE  /\ Last(stack) \in ToSet(stack)
         /\ ToSet(stack') = ToSet(stack) \ {Last(stack)}
         /\ IsInjective(stack')
  BY FrontFacts DEF CallType, Leave

(* An activation of _step begins for a context that has none.              *)
LEMMA EnterSets ==
  ASSUME CallType, IsInjective(stack), NEW c \in Ctx, c \notin ToSet(stack), Enter(c)
  PROVE  ToSet(stack') = ToSet(stack) \cup {c} /\ IsInjective(stack')
  BY AppendFacts DEF CallType, Enter

(* A request is sent: its context is in flight, as no other is.            *)
LEMMA InFlightAdds ==
  ASSUME NEW n \in Tid, NEW c \in Ctx, RequestType, TableType, n \notin keys, c \notin InFlight,
         \A t, u \in keys : owner[t] = owner[u] => t = u,
         keys' = keys \cup {n}, owner' = [owner EXCEPT ![n] = c]
  PROVE  /\ InFlight' = InFlight \cup {c}
         /\ (\A t, u \in keys : owner[t] = owner[u] => t = u)'
<1>1. /\ owner'[n] = c
      /\ \A t \in keys : owner'[t] = owner[t] /\ owner[t] # c
  BY DEF RequestType, TableType, InFlight
<1>2. InFlight' = InFlight \cup {c}
  BY <1>1 DEF InFlight
<1> QED BY <1>1, <1>2

(* A request is dropped from _keys: its context is not in flight.          *)
LEMMA InFlightLoses ==
  ASSUME NEW t \in keys, UNCHANGED owner, keys' = keys \ {t},
         \A v, u \in keys : owner[v] = owner[u] => v = u
  PROVE  /\ owner[t] \in InFlight /\ InFlight' = InFlight \ {owner[t]}
         /\ (\A v, u \in keys : owner[v] = owner[u] => v = u)'
  BY DEF InFlight

(* A context begins to wait for another.                                   *)
LEMMA WaitingAdds ==
  ASSUME TableType, NEW c \in Ctx, NEW d \in Ctx, c \notin Waiting,
         \A b \in Ctx : IsInjective(waiters[b]),
         \A b, e \in Ctx : b # e => ToSet(waiters[b]) \cap ToSet(waiters[e]) = {},
         waiters' = [waiters EXCEPT ![d] = Append(@, c)]
  PROVE  /\ Waiting' = Waiting \cup {c}
         /\ (\A b \in Ctx : IsInjective(waiters[b]))'
         /\ (\A b, e \in Ctx : b # e => ToSet(waiters[b]) \cap ToSet(waiters[e]) = {})'
<1>1. \A b \in Ctx : waiters[b] \in Seq(Ctx) /\ c \notin ToSet(waiters[b])
  BY DEF TableType, Waiting
<1>2. /\ waiters'[d] = Append(waiters[d], c)
      /\ \A b \in Ctx \ {d} : waiters'[b] = waiters[b]
  BY DEF TableType
<1>3. ToSet(waiters'[d]) = ToSet(waiters[d]) \cup {c} /\ IsInjective(waiters'[d])
  BY <1>1, <1>2, AppendFacts
<1>4. Waiting' = Waiting \cup {c}
  <2>1. Waiting' = UNION {ToSet(waiters'[b]) : b \in Ctx}
    BY DEF Waiting
  <2>2. \A x : x \in Waiting' <=> \E b \in Ctx : x \in ToSet(waiters'[b])
    BY <2>1
  <2>3. \A x : x \in Waiting <=> \E b \in Ctx : x \in ToSet(waiters[b])
    BY DEF Waiting
  <2>4. \A x : x \in Waiting' <=> x \in Waiting \/ x = c
    BY <1>2, <1>3, <2>2, <2>3
  <2> QED BY <2>4
<1>5. \A b \in Ctx : IsInjective(waiters'[b])
  BY <1>2, <1>3
<1>6. \A b, e \in Ctx : b # e => ToSet(waiters'[b]) \cap ToSet(waiters'[e]) = {}
  <2> SUFFICES ASSUME NEW b \in Ctx, NEW e \in Ctx, b # e
               PROVE  ToSet(waiters'[b]) \cap ToSet(waiters'[e]) = {}
    OBVIOUS
  <2>1. ToSet(waiters[b]) \cap ToSet(waiters[e]) = {}
    OBVIOUS
  <2>2. CASE b = d
    BY <1>1, <1>2, <1>3, <2>1, <2>2
  <2>3. CASE e = d
    BY <1>1, <1>2, <1>3, <2>1, <2>3
  <2>4. CASE b # d /\ e # d
    BY <1>2, <2>1, <2>4
  <2> QED BY <2>2, <2>3, <2>4
<1> QED BY <1>4, <1>5, <1>6

(* _finish_ctx moves waiters to _mqueue and loses none of them.            *)
LEMMA FinishMoves ==
  ASSUME TableType, CtxType, NEW c \in Ctx, parent[c] # c, Finish(c),
         IsInjective(mqueue), ToSet(mqueue) \cap Waiting = {},
         \A b \in Ctx : IsInjective(waiters[b]),
         \A b, e \in Ctx : b # e => ToSet(waiters[b]) \cap ToSet(waiters[e]) = {}
  PROVE  /\ ToSet(mqueue') \cup Waiting' = ToSet(mqueue) \cup Waiting
         /\ ToSet(mqueue') \cap Waiting' = {}
         /\ IsInjective(mqueue')
         /\ (\A b \in Ctx : IsInjective(waiters[b]))'
         /\ (\A b, e \in Ctx : b # e => ToSet(waiters[b]) \cap ToSet(waiters[e]) = {})'
<1> DEFINE S == Complete(c)
           own == WaitersOf(c, S)
           up == WaitersOf(parent[c], S)
           moved == ToSet(own) \cup ToSet(up)
<1>1. S \subseteq Ctx /\ \A d \in S : d = c \/ d = parent[c]
  BY DEF Complete
<1>2. \A d \in Ctx : waiters[d] \in Seq(Ctx)
  BY DEF TableType
<1>3. \A d \in Ctx : waiters'[d] = IF d \in S THEN <<>> ELSE waiters[d]
  BY DEF Finish, ForgetWaiters
<1>4. ASSUME NEW d
      PROVE  /\ WaitersOf(d, S) \in Seq(Ctx) /\ IsInjective(WaitersOf(d, S))
             /\ ToSet(WaitersOf(d, S)) = IF d \in S THEN ToSet(waiters[d]) ELSE {}
  <2>1. CASE d \in S
    BY <1>1, <1>2, <2>1, ReverseFacts DEF WaitersOf
  <2>2. CASE d \notin S
    BY <2>2, EmptyFacts DEF WaitersOf
  <2> QED BY <2>1, <2>2
<1> HIDE DEF S
<1>5. /\ own \in Seq(Ctx) /\ IsInjective(own)
      /\ ToSet(own) = IF c \in S THEN ToSet(waiters[c]) ELSE {}
  BY <1>4
<1>6. /\ up \in Seq(Ctx) /\ IsInjective(up)
      /\ ToSet(up) = IF parent[c] \in S THEN ToSet(waiters[parent[c]]) ELSE {}
  BY <1>4
<1>7. ToSet(own) \cap ToSet(up) = {}
  BY <1>1, <1>5, <1>6
<1>8. \A x : x \in moved <=> \E d \in S : x \in ToSet(waiters[d])
  BY <1>1, <1>5, <1>6
<1>9. \A x : x \in Waiting <=> \E d \in Ctx : x \in ToSet(waiters[d])
  BY DEF Waiting
<1>10. \A x : x \in Waiting' <=> \E d \in Ctx : x \in ToSet(waiters'[d])
  BY DEF Waiting
<1>11. \A x : x \in Waiting' <=> x \in Waiting /\ x \notin moved
  <2> HIDE DEF moved
  <2>1. ASSUME NEW x \in Waiting' PROVE x \in Waiting /\ x \notin moved
    <3>1. PICK d \in Ctx : x \in ToSet(waiters'[d])
      BY <1>10
    <3>2. d \notin S /\ x \in ToSet(waiters[d])
      BY <1>3, <3>1, EmptyFacts
    <3>3. \A e \in S : x \notin ToSet(waiters[e])
      BY <1>1, <3>2
    <3> QED BY <1>8, <1>9, <3>2, <3>3
  <2>2. ASSUME NEW x \in Waiting, x \notin moved PROVE x \in Waiting'
    <3>1. PICK d \in Ctx : x \in ToSet(waiters[d])
      BY <1>9
    <3>2. d \notin S
      BY <1>8, <2>2, <3>1
    <3> QED BY <1>3, <1>10, <3>1, <3>2
  <2> QED BY <2>1, <2>2
<1>12. moved \subseteq Waiting
  BY <1>1, <1>8, <1>9
<1>13. mqueue' = own \o up \o mqueue
  BY DEF Finish, S
<1> HIDE DEF own, up
<1>14. /\ own \o up \in Seq(Ctx) /\ ToSet(own \o up) = moved /\ IsInjective(own \o up)
  BY <1>5, <1>6, <1>7, ConcatFacts
<1>15. ToSet(mqueue') = moved \cup ToSet(mqueue) /\ IsInjective(mqueue')
  <2>1. mqueue \in Seq(Ctx) /\ ToSet(own \o up) \cap ToSet(mqueue) = {}
    BY <1>12, <1>14 DEF TableType
  <2>2. /\ ToSet((own \o up) \o mqueue) = ToSet(own \o up) \cup ToSet(mqueue)
        /\ IsInjective((own \o up) \o mqueue)
    <3> DEFINE both == own \o up
    <3>1. both \in Seq(Ctx) /\ IsInjective(both) /\ ToSet(both) \cap ToSet(mqueue) = {}
      BY <1>14, <2>1
    <3> HIDE DEF both
    <3>2. ToSet(both \o mqueue) = ToSet(both) \cup ToSet(mqueue) /\ IsInjective(both \o mqueue)
      BY <2>1, <3>1, ConcatFacts
    <3> QED BY <3>2 DEF both
  <2> QED BY <1>13, <1>14, <2>2
<1>16. ToSet(mqueue') \cup Waiting' = ToSet(mqueue) \cup Waiting
  BY <1>11, <1>12, <1>15
<1>17. ToSet(mqueue') \cap Waiting' = {}
  BY <1>11, <1>15
<1>18. /\ \A b \in Ctx : IsInjective(waiters'[b])
       /\ \A b, e \in Ctx : b # e => ToSet(waiters'[b]) \cap ToSet(waiters'[e]) = {}
  BY <1>3, EmptyFacts
<1> QED BY <1>15, <1>16, <1>17, <1>18

-----------------------------------------------------------------------------
(* Steps that move no context.                                             *)

LEMMA HomeKept ==
  ASSUME HomeInv
  PROVE  /\ UNCHANGED <<base, nextCtx, nextTid, stack, mqueue, keys, timeouts, due, waiters,
                        owner, rmatch, done>> => Numbered'
         /\ UNCHANGED <<nextCtx, parent, children>> => Family'
         /\ UNCHANGED <<pc, exit, stack, due>> => Quiet'
         /\ UNCHANGED <<due, timeouts, keys, rmatch, owner, base>> => Timers'
         /\ UNCHANGED <<stack, mqueue, keys, owner, waiters, exit, base, nextCtx, done>>
              => OneHome'
         /\ UNCHANGED <<waiters, done, children>> => NoLostWakeup'
<1> USE DEF HomeInv
<1>1. ASSUME UNCHANGED <<stack, mqueue, keys, owner, waiters>>
      PROVE  Homes' = Homes /\ (HomesApart => HomesApart') /\ (NoneTwice => NoneTwice')
  <2>1. InFlight' = InFlight /\ Waiting' = Waiting
    BY <1>1 DEF InFlight, Waiting
  <2>2. ToSet(stack') = ToSet(stack) /\ ToSet(mqueue') = ToSet(mqueue)
    BY <1>1
  <2>3. NoneTwice => NoneTwice'
    BY <1>1 DEF NoneTwice
  <2> QED BY <2>1, <2>2, <2>3 DEF Homes, HomesApart
<1>2. ASSUME UNCHANGED <<base, nextCtx, nextTid, stack, mqueue, keys, timeouts, due, waiters,
                         owner, rmatch, done>>
      PROVE  Numbered'
  BY <1>1, <1>2 DEF Numbered, ThisRun
<1>3. ASSUME UNCHANGED <<stack, mqueue, keys, owner, waiters, exit, base, nextCtx, done>>
      PROVE  OneHome'
  BY <1>1, <1>3 DEF OneHome, ThisRun
<1>4. UNCHANGED <<nextCtx, parent, children>> => Family'
  BY DEF Family
<1>5. UNCHANGED <<pc, exit, stack, due>> => Quiet'
  BY DEF Quiet
<1>6. UNCHANGED <<due, timeouts, keys, rmatch, owner, base>> => Timers'
  BY DEF Timers, TimerPerKey
<1>7. UNCHANGED <<waiters, done, children>> => NoLostWakeup'
  BY DEF NoLostWakeup
<1> QED BY <1>2, <1>3, <1>4, <1>5, <1>6, <1>7

(* A step that moves no context.                                           *)
LEMMA HomeSilent ==
  ASSUME HomeInv,
         UNCHANGED <<pc, exit, base, due, stack, mqueue, keys, timeouts, waiters, nextCtx,
                     parent, children, done, rmatch, nextTid, owner>>
  PROVE  HomeInv'
  BY HomeKept DEF HomeInv

(* The context on top of the stack is nowhere else.                        *)
LEMMA TopFacts ==
  ASSUME TypeInv, HomeInv, stack # <<>>
  PROVE  /\ Last(stack) \in Ctx /\ Last(stack) \in ThisRun /\ ~done[Last(stack)]
         /\ Last(stack) \in ToSet(stack)
         /\ Last(stack) \notin ToSet(mqueue) /\ Last(stack) \notin InFlight
         /\ Last(stack) \notin Waiting
         /\ pc # "idle" /\ exit = "none"
         /\ Homes = {c \in ThisRun : ~done[c]} /\ HomesApart /\ NoneTwice
<1>1. Last(stack) \in Ctx /\ Last(stack) \in ToSet(stack)
  BY FrontFacts DEF TypeInv, TypeOK, CallType
<1>2. pc # "idle" /\ exit = "none"
  BY DEF HomeInv, Quiet
<1>3. Homes = {c \in ThisRun : ~done[c]} /\ HomesApart /\ NoneTwice
  BY <1>2 DEF HomeInv, OneHome
<1> QED BY <1>1, <1>2, <1>3 DEF Homes, HomesApart

(* In a run the homes hold every context that is not finished.             *)
LEMMA RunningFacts ==
  ASSUME HomeInv, pc # "idle"
  PROVE  exit = "none" /\ Homes = {c \in ThisRun : ~done[c]} /\ HomesApart /\ NoneTwice
  BY DEF HomeInv, Quiet, OneHome

(* A new context is in no home yet.                                        *)
LEMMA NewContextFacts ==
  ASSUME TypeInv, HomeInv, NEW gen \in BOOLEAN, NEW p \in Ctx \cup {0}, p < nextCtx,
         NewContext(gen, p), UNCHANGED base
  PROVE  /\ nextCtx \in Ctx /\ nextCtx \notin Homes /\ ~done[nextCtx]
         /\ ThisRun' = ThisRun \cup {nextCtx} /\ nextCtx \notin ThisRun
         /\ Family'
         /\ UNCHANGED <<waiters, done>> => NoLostWakeup'
<1> USE DEF TypeInv, TypeOK
<1>1. nextCtx \in Ctx /\ nextCtx \in Nat /\ nextCtx' = nextCtx + 1 /\ base \in Nat /\ base <= nextCtx
  BY NewContextType, IdFacts, MADScheduleAssumption
     DEF NewContext, RunType, CtxType, HomeInv, Numbered
<1>2. ThisRun' = ThisRun \cup {nextCtx} /\ nextCtx \notin ThisRun
  BY <1>1 DEF ThisRun
<1>3. nextCtx \notin Homes /\ ~done[nextCtx]
  BY <1>1, <1>2 DEF HomeInv, Numbered
<1>4. \A c \in Ctx : children'[c] = IF c = p THEN children[c] \cup {nextCtx} ELSE children[c]
  BY DEF NewContext
<1>5. \A c \in Ctx : parent'[c] = IF c = nextCtx THEN p ELSE parent[c]
  BY <1>1 DEF NewContext, CtxType
<1>6. \A c \in Ctx : c \in Nat
  BY IdFacts
<1>7. \A c \in Ctx : parent'[c] < c
  BY <1>5 DEF HomeInv, Family
<1>8. ASSUME NEW c \in Ctx, NEW e \in children'[c] PROVE parent'[e] = c /\ e < nextCtx'
  <2>1. CASE e \in children[c]
    <3>1. parent[e] = c /\ e < nextCtx /\ e \in Ctx /\ e \in Nat
      BY <2>1, <1>6 DEF HomeInv, Family, CtxType
    <3> QED BY <3>1, <1>1, <1>5
  <2>2. CASE c = p /\ e = nextCtx
    BY <2>2, <1>1, <1>5
  <2> QED BY <1>4, <2>1, <2>2
<1>9. ASSUME UNCHANGED <<waiters, done>> PROVE NoLostWakeup'
  BY <1>4, <1>9 DEF NewContext, HomeInv, NoLostWakeup
<1> QED BY <1>1, <1>2, <1>3, <1>7, <1>8, <1>9 DEF Family

-----------------------------------------------------------------------------
(* Steps that move contexts.                                               *)

(* What is left to show when the contexts only change homes.               *)
LEMMA HomesMoved ==
  ASSUME TypeInv, HomeInv, exit = "none", NoneTwice, Homes = {c \in ThisRun : ~done[c]},
         Homes' = Homes, HomesApart', NoneTwice',
         UNCHANGED <<base, nextCtx, done>>
  PROVE  OneHome' /\ Homes' \subseteq ThisRun'
  BY DEF OneHome, ThisRun, HomeInv, Numbered

(* A context is parked on _mqueue while the window is full.                *)
LEMMA HomePark ==
  ASSUME TypeInv, HomeInv, NEW c \in Ctx, Park(c)
  PROVE  HomeInv'
<1> USE DEF TypeInv, TypeOK
<1>1. stack # <<>> /\ c = Last(stack) /\ Leave /\ mqueue' = Append(mqueue, c)
  BY DEF Park, AtTest
<1>2. UNCHANGED <<runVars, keys, timeouts, waiters, ctxVars, reqVars>>
  BY DEF Park
<1>3. ToSet(stack') = ToSet(stack) \ {c} /\ IsInjective(stack')
  BY <1>1, TopFacts, LeaveSets DEF NoneTwice
<1>4. ToSet(mqueue') = ToSet(mqueue) \cup {c} /\ IsInjective(mqueue')
  BY <1>1, TopFacts, AppendFacts DEF NoneTwice, TableType
<1>5. InFlight' = InFlight /\ Waiting' = Waiting
  BY <1>2 DEF InFlight, Waiting, reqVars
<1>6. Homes' = Homes /\ HomesApart'
  BY <1>1, <1>3, <1>4, <1>5, TopFacts DEF Homes, HomesApart
<1>7. NoneTwice'
  BY <1>1, <1>2, <1>3, <1>4, TopFacts DEF NoneTwice, reqVars
<1>8. OneHome' /\ Homes' \subseteq ThisRun'
  BY <1>1, <1>2, <1>6, <1>7, TopFacts, HomesMoved DEF runVars, ctxVars
<1>9. Numbered'
  BY <1>2, <1>8 DEF HomeInv, Numbered, runVars, ctxVars, reqVars
<1>10. Family' /\ Timers' /\ NoLostWakeup'
  BY <1>2, HomeKept DEF runVars, ctxVars, reqVars
<1>11. Quiet'
  BY <1>1, <1>2, TopFacts DEF Quiet, runVars
<1> QED BY <1>8, <1>9, <1>10, <1>11 DEF HomeInv

(* Requests in the tables are older than the next transaction ID.          *)
LEMMA TidFacts ==
  ASSUME TypeInv, HomeInv
  PROVE  /\ nextTid \in Nat
         /\ \A d \in Ctx : rmatch[d] \in Nat /\ rmatch[d] < nextTid
         /\ \A n \in Nat : n >= nextTid => keys \cup timeouts \cup due \subseteq 1..n
         /\ keys \cup timeouts \cup due \subseteq 1..(nextTid - 1)
<1>1. nextTid \in Nat
  BY MADScheduleAssumption DEF TypeInv, TypeOK, RequestType
<1>2. ASSUME NEW d \in Ctx PROVE rmatch[d] \in Nat /\ rmatch[d] < nextTid
  <2>1. rmatch[d] \in Tid \cup {0}
    BY DEF TypeInv, TypeOK, CtxType
  <2>2. rmatch[d] \in Nat
    BY <2>1 DEF Tid
  <2> QED BY <2>2 DEF HomeInv, Numbered
<1>3. keys \cup timeouts \cup due \subseteq 1..(nextTid - 1)
  BY DEF HomeInv, Numbered
<1>4. ASSUME NEW n \in Nat, n >= nextTid PROVE 1..(nextTid - 1) \subseteq 1..n
  BY <1>1, <1>4
<1> QED BY <1>1, <1>2, <1>3, <1>4

(* A generator yields a MAD, which is sent.                                *)
LEMMA HomeYieldMAD ==
  ASSUME TypeInv, HomeInv, NEW c \in Ctx, YieldMAD(c)
  PROVE  HomeInv'
<1> USE DEF TypeInv, TypeOK
<1>1. /\ stack # <<>> /\ c = Last(stack) /\ nextTid \in Tid /\ nextTid' = nextTid + 1
      /\ nextTid \in Nat
      /\ UNCHANGED <<runVars, mqueue, waiters, nextCtx, parent, children, done>>
  BY IdFacts DEF YieldMAD, InBody, RequestType
<1>2. CASE /\ keys' = keys \cup {nextTid}
           /\ timeouts' = timeouts \cup {nextTid}
           /\ owner' = [owner EXCEPT ![nextTid] = c]
           /\ rmatch' = [rmatch EXCEPT ![c] = nextTid]
           /\ Leave
  <2>1. ToSet(stack') = ToSet(stack) \ {c} /\ IsInjective(stack')
    BY <1>1, <1>2, TopFacts, LeaveSets DEF NoneTwice
  <2>2. nextTid \notin keys \cup timeouts \cup due
    BY <1>1 DEF HomeInv, Numbered
  <2>3. InFlight' = InFlight \cup {c} /\ (\A t, u \in keys : owner[t] = owner[u] => t = u)'
    BY <1>1, <1>2, <2>2, TopFacts, InFlightAdds DEF NoneTwice
  <2>4. ToSet(mqueue') = ToSet(mqueue) /\ Waiting' = Waiting
    BY <1>1 DEF Waiting
  <2>5. Homes' = Homes /\ HomesApart'
    BY <1>1, <2>1, <2>3, <2>4, TopFacts DEF Homes, HomesApart
  <2>6. NoneTwice'
    BY <1>1, <2>1, <2>3, TopFacts DEF NoneTwice
  <2>7. OneHome' /\ Homes' \subseteq ThisRun'
    BY <1>1, <2>5, <2>6, TopFacts, HomesMoved DEF runVars
  <2>8. /\ owner'[nextTid] = c
        /\ \A t \in Tid : t # nextTid => owner'[t] = owner[t]
        /\ rmatch'[c] = nextTid
        /\ \A d \in Ctx : d # c => rmatch'[d] = rmatch[d]
    BY <1>1, <1>2 DEF RequestType, CtxType
  <2>9. c < nextCtx /\ c >= base
    BY <1>1, TopFacts, IdFacts, MADScheduleAssumption DEF ThisRun, CtxType, RunType
  <2>10. Numbered'
    <3>1. (keys \cup timeouts \cup due)' \subseteq 1..(nextTid' - 1)
      <4>1. keys \cup timeouts \cup due \subseteq 1..(nextTid' - 1)
        BY <1>1, TidFacts
      <4>2. nextTid \in 1..(nextTid' - 1)
        BY <1>1, IdFacts
      <4> QED BY <1>1, <1>2, <4>1, <4>2 DEF runVars
    <3>2. \A t \in timeouts' : owner'[t] < nextCtx'
      BY <1>1, <1>2, <2>8, <2>9 DEF HomeInv, Numbered, TableType
    <3>3. \A d \in Ctx : rmatch'[d] < nextTid'
      <4>1. \A d \in Ctx : rmatch[d] < nextTid /\ rmatch[d] \in Nat
        BY TidFacts
      <4> QED BY <1>1, <2>8, <4>1
    <3> QED BY <1>1, <2>7, <3>1, <3>2, <3>3 DEF HomeInv, Numbered, runVars
  <2>11. Timers'
    <3>1. due' \subseteq timeouts'
      BY <1>1, <1>2 DEF HomeInv, Timers, runVars
    <3>2. \A t \in keys' : rmatch'[owner'[t]] = t
      <4>1. \A t \in keys : t \in Tid /\ t # nextTid /\ owner[t] \in Ctx /\ owner[t] # c
        BY <1>1, <2>2, TopFacts DEF TableType, Owned, InFlight
      <4>2. \A t \in keys : rmatch[owner[t]] = t
        BY DEF HomeInv, Timers
      <4> QED BY <1>2, <2>8, <4>1, <4>2
    <3>3. \A d \in Ctx : rmatch'[d] # 0 => owner'[rmatch'[d]] = d
      <4>1. \A d \in Ctx : rmatch[d] # nextTid /\ rmatch[d] \in Tid \cup {0}
        BY <1>1, IdFacts DEF HomeInv, Numbered, CtxType
      <4>2. \A d \in Ctx : rmatch[d] # 0 => owner[rmatch[d]] = d
        BY DEF HomeInv, Timers
      <4> QED BY <2>8, <4>1, <4>2
    <3>4. TimerPerKey'
      <4>1. keys = {t \in timeouts : owner[t] >= base}
        BY DEF HomeInv, Timers, TimerPerKey
      <4>2. \A t \in timeouts : t \in Tid /\ t # nextTid
        BY <2>2 DEF TableType
      <4>3. keys' = {t \in timeouts' : owner'[t] >= base}
        BY <1>2, <2>8, <2>9, <4>1, <4>2
      <4> QED BY <1>1, <4>3 DEF TimerPerKey, runVars
    <3> QED BY <3>1, <3>2, <3>3, <3>4 DEF Timers
  <2>12. Family' /\ NoLostWakeup'
    BY <1>1, HomeKept
  <2>13. Quiet'
    BY <1>1, TopFacts DEF Quiet, runVars
  <2> QED BY <2>7, <2>10, <2>11, <2>12, <2>13 DEF HomeInv
<1>3. CASE LoopAgain /\ UNCHANGED <<keys, timeouts, owner, rmatch>>
  <2>1. Numbered'
    <3>1. Homes' = Homes
      BY <1>1, <1>3 DEF Homes, InFlight, Waiting, LoopAgain
    <3>2. nextTid < nextTid'
      BY <1>1
    <3>3. 1..(nextTid - 1) \subseteq 1..(nextTid' - 1)
      BY <1>1
    <3>4. \A d \in Ctx : rmatch[d] < nextTid'
      BY <1>1, TidFacts
    <3> QED BY <1>1, <1>3, <3>1, <3>3, <3>4 DEF HomeInv, Numbered, ThisRun, runVars
  <2>2. Family' /\ Quiet' /\ Timers' /\ OneHome' /\ NoLostWakeup'
    BY <1>1, <1>3, HomeKept DEF LoopAgain, runVars
  <2> QED BY <2>1, <2>2 DEF HomeInv
<1> QED BY <1>2, <1>3 DEF YieldMAD, SendMAD

(* A generator yields a context, and waits for it.                         *)
LEMMA HomeYieldContext ==
  ASSUME TypeInv, HomeInv, NEW c \in Ctx, NEW d \in base..(nextCtx - 1), YieldContext(c, d)
  PROVE  HomeInv'
<1> USE DEF TypeInv, TypeOK
<1>1. /\ stack # <<>> /\ c = Last(stack)
      /\ UNCHANGED <<runVars, mqueue, keys, timeouts, nextCtx, parent, children, done, rmatch,
                     reqVars>>
  BY DEF YieldContext, InBody
<1>2. d \in Ctx
  BY MADScheduleAssumption DEF RunType, CtxType, Ctx
<1>3. CASE LoopAgain /\ UNCHANGED waiters
  BY <1>1, <1>3, HomeSilent DEF LoopAgain, runVars, reqVars
<1>4. CASE MustWait(d) /\ waiters' = [waiters EXCEPT ![d] = Append(@, c)] /\ Leave
  <2>1. ToSet(stack') = ToSet(stack) \ {c} /\ IsInjective(stack')
    BY <1>1, <1>4, TopFacts, LeaveSets DEF NoneTwice
  <2>2. /\ Waiting' = Waiting \cup {c}
        /\ (\A b \in Ctx : IsInjective(waiters[b]))'
        /\ (\A b, e \in Ctx : b # e => ToSet(waiters[b]) \cap ToSet(waiters[e]) = {})'
    BY <1>1, <1>2, <1>4, TopFacts, WaitingAdds DEF NoneTwice
  <2>3. ToSet(mqueue') = ToSet(mqueue) /\ InFlight' = InFlight
    BY <1>1 DEF InFlight, reqVars
  <2>4. Homes' = Homes /\ HomesApart'
    BY <1>1, <2>1, <2>2, <2>3, TopFacts DEF Homes, HomesApart
  <2>5. NoneTwice'
    BY <1>1, <2>1, <2>2, TopFacts DEF NoneTwice, reqVars
  <2>6. OneHome' /\ Homes' \subseteq ThisRun'
    BY <1>1, <2>4, <2>5, TopFacts, HomesMoved DEF runVars
  <2>7. Numbered'
    BY <1>1, <2>6 DEF HomeInv, Numbered, runVars, reqVars
  <2>8. Family' /\ Timers'
    BY <1>1, HomeKept DEF runVars, reqVars
  <2>9. Quiet'
    BY <1>1, TopFacts DEF Quiet, runVars
  <2>10. NoLostWakeup'
    BY <1>1, <1>2, <1>4 DEF HomeInv, NoLostWakeup, MustWait, TableType
  <2> QED BY <2>6, <2>7, <2>8, <2>9, <2>10 DEF HomeInv
<1> QED BY <1>3, <1>4 DEF YieldContext

(* queue(), mqueue() and the arguments of run(): a new context starts.     *)
LEMMA HomeNewActivation ==
  ASSUME TypeInv, HomeInv, pc # "idle", pc' # "idle", NEW gen \in BOOLEAN,
         NewContext(gen, 0), Enter(nextCtx),
         UNCHANGED <<due, exit, base, mqueue, keys, timeouts, waiters, done, rmatch, nextTid,
                     owner>>
  PROVE  HomeInv'
<1> USE DEF TypeInv, TypeOK
<1>1. nextCtx \in Nat /\ 0 < nextCtx /\ nextCtx' = nextCtx + 1
  BY MADScheduleAssumption DEF CtxType, NewContext
<1>2. /\ nextCtx \in Ctx /\ nextCtx \notin Homes /\ ~done[nextCtx]
      /\ ThisRun' = ThisRun \cup {nextCtx} /\ nextCtx \notin ThisRun
      /\ Family' /\ NoLostWakeup'
  BY <1>1, NewContextFacts
<1>3. ToSet(stack') = ToSet(stack) \cup {nextCtx} /\ IsInjective(stack')
  BY <1>2, EnterSets, RunningFacts DEF NoneTwice, Homes
<1>4. ToSet(mqueue') = ToSet(mqueue) /\ InFlight' = InFlight /\ Waiting' = Waiting
  BY DEF InFlight, Waiting
<1>5. Homes' = Homes \cup {nextCtx} /\ HomesApart'
  BY <1>2, <1>3, <1>4, RunningFacts DEF Homes, HomesApart
<1>6. NoneTwice'
  BY <1>3, RunningFacts DEF NoneTwice
<1>7. OneHome'
  BY <1>2, <1>5, <1>6, RunningFacts DEF OneHome
<1>8. Numbered'
  <2>1. Homes' \subseteq ThisRun'
    BY <1>2, <1>5 DEF HomeInv, Numbered
  <2>2. /\ base' <= nextCtx'
        /\ \A t \in timeouts : owner[t] < nextCtx'
        /\ \A c \in Ctx : c >= nextCtx' => ~done[c]
    <3>1. base \in Nat /\ \A c \in Ctx : c \in Nat
      BY IdFacts, MADScheduleAssumption DEF RunType
    <3>2. \A t \in timeouts : owner[t] \in Ctx
      BY DEF Owned
    <3> QED BY <1>1, <3>1, <3>2 DEF HomeInv, Numbered
  <2> QED BY <2>1, <2>2 DEF HomeInv, Numbered
<1>9. Timers'
  BY HomeKept
<1>10. Quiet'
  BY RunningFacts DEF Quiet
<1> QED BY <1>2, <1>7, <1>8, <1>9, <1>10 DEF HomeInv

(* A generator yields another, which becomes its child and runs first.     *)
LEMMA HomeYieldSpawn ==
  ASSUME TypeInv, HomeInv, NEW c \in Ctx, YieldSpawn(c)
  PROVE  HomeInv'
<1> USE DEF TypeInv, TypeOK
<1>1. /\ stack # <<>> /\ c = Last(stack) /\ NewContext(FALSE, c)
      /\ mqueue' = Append(mqueue, c) /\ stack' = Append(Front(stack), nextCtx)
      /\ UNCHANGED <<runVars, keys, timeouts, waiters, done, rmatch, reqVars>>
  BY DEF YieldSpawn, InBody
<1>2. c < nextCtx /\ nextCtx \in Nat /\ base \in Nat
  <2>1. nextCtx \in Nat /\ base \in Nat
    BY IdFacts, MADScheduleAssumption DEF CtxType, RunType
  <2>2. c \in base..(nextCtx - 1)
    BY <1>1, TopFacts DEF ThisRun
  <2> QED BY <2>1, <2>2
<1>3. /\ nextCtx \in Ctx /\ nextCtx \notin Homes /\ ~done[nextCtx]
      /\ ThisRun' = ThisRun \cup {nextCtx} /\ nextCtx \notin ThisRun
      /\ Family' /\ NoLostWakeup'
  BY <1>1, <1>2, NewContextFacts DEF runVars
<1>4. /\ Front(stack) \in Seq(Ctx) /\ IsInjective(Front(stack))
      /\ ToSet(Front(stack)) = ToSet(stack) \ {c}
  BY <1>1, TopFacts, FrontFacts DEF CallType, NoneTwice
<1>5. nextCtx \notin ToSet(stack)
  BY <1>3 DEF Homes
<1>6. /\ ToSet(stack') = (ToSet(stack) \ {c}) \cup {nextCtx} /\ IsInjective(stack')
      /\ stack' # <<>>
  BY <1>1, <1>3, <1>4, <1>5, AppendFacts
<1>7. ToSet(mqueue') = ToSet(mqueue) \cup {c} /\ IsInjective(mqueue')
  BY <1>1, TopFacts, AppendFacts DEF NoneTwice, TableType
<1>8. InFlight' = InFlight /\ Waiting' = Waiting
  BY <1>1 DEF InFlight, Waiting, reqVars
<1>9. Homes' = Homes \cup {nextCtx}
  BY <1>1, <1>6, <1>7, <1>8, TopFacts DEF Homes
<1>10. HomesApart'
  BY <1>1, <1>3, <1>6, <1>7, <1>8, TopFacts DEF Homes, HomesApart
<1>11. NoneTwice'
  BY <1>1, <1>6, <1>7, TopFacts DEF NoneTwice, reqVars
<1>12. OneHome'
  BY <1>1, <1>3, <1>9, <1>10, <1>11, TopFacts DEF OneHome, runVars
<1>13. Numbered'
  <2>1. Homes' \subseteq ThisRun'
    BY <1>3, <1>9 DEF HomeInv, Numbered
  <2>2. nextCtx' = nextCtx + 1
    BY <1>1 DEF NewContext
  <2>3. \A t \in timeouts : owner[t] < nextCtx'
    <3>1. \A t \in timeouts : owner[t] \in Nat /\ owner[t] < nextCtx
      BY IdFacts DEF HomeInv, Numbered, Owned
    <3> QED BY <1>2, <2>2, <3>1
  <2>4. \A d \in Ctx : d >= nextCtx' => ~done[d]
    BY <1>2, <2>2, IdFacts DEF HomeInv, Numbered
  <2>5. base <= nextCtx'
    BY <1>2, <2>2 DEF HomeInv, Numbered
  <2> QED BY <1>1, <2>1, <2>3, <2>4, <2>5 DEF HomeInv, Numbered, runVars, reqVars
<1>14. Timers'
  BY <1>1, HomeKept DEF runVars, reqVars
<1>15. Quiet'
  BY <1>1, TopFacts DEF Quiet, runVars
<1> QED BY <1>3, <1>12, <1>13, <1>14, <1>15 DEF HomeInv

(* A context that returns or raises out of its last generator.  When it    *)
(* raises out of the outermost activation the run ends.                    *)
LEMMA HomeFinish ==
  ASSUME TypeInv, HomeInv, NEW c \in Ctx, stack # <<>>, c = Last(stack), Finish(c), Leave,
         \/ UNCHANGED <<pc, exit, due>>
         \/ Len(stack) = 1 /\ pc' = "idle" /\ exit' = "raised" /\ due' = {},
         UNCHANGED <<base, keys, timeouts, nextCtx, parent, rmatch, reqVars>>
  PROVE  HomeInv'
<1> USE DEF TypeInv, TypeOK
<1>1. parent[c] # c
  BY IdFacts DEF HomeInv, Family
<1>2. /\ ToSet(mqueue') \cup Waiting' = ToSet(mqueue) \cup Waiting
      /\ ToSet(mqueue') \cap Waiting' = {}
      /\ IsInjective(mqueue')
      /\ (\A b \in Ctx : IsInjective(waiters[b]))'
      /\ (\A b, e \in Ctx : b # e => ToSet(waiters[b]) \cap ToSet(waiters[e]) = {})'
  <2>1. /\ IsInjective(mqueue)
        /\ \A b \in Ctx : IsInjective(waiters[b])
        /\ \A b, e \in Ctx : b # e => ToSet(waiters[b]) \cap ToSet(waiters[e]) = {}
    BY TopFacts DEF NoneTwice
  <2>2. ToSet(mqueue) \cap Waiting = {}
    BY TopFacts DEF HomesApart
  <2> QED BY <1>1, <2>1, <2>2, FinishMoves
<1>3. ToSet(stack') = ToSet(stack) \ {c} /\ IsInjective(stack')
  BY TopFacts, LeaveSets DEF NoneTwice
<1>4. InFlight' = InFlight
  BY DEF InFlight, reqVars
<1>5. Homes' = Homes \ {c}
  BY <1>2, <1>3, <1>4, TopFacts DEF Homes
<1>6. HomesApart'
  BY <1>2, <1>3, <1>4, TopFacts DEF HomesApart
<1>7. NoneTwice'
  BY <1>2, <1>3, TopFacts DEF NoneTwice, reqVars
<1>8. \A d \in Ctx : done'[d] = (d = c \/ done[d])
  BY DEF Finish, CtxType
<1>9. OneHome' /\ Homes' \subseteq ThisRun'
  <2>1. ThisRun' = ThisRun /\ ThisRun \subseteq Ctx
    BY MADScheduleAssumption DEF ThisRun, RunType, CtxType, Ctx
  <2>2. Homes' = {d \in ThisRun' : ~done'[d]}
    BY <1>5, <1>8, <2>1, TopFacts
  <2> QED BY <1>6, <1>7, <2>1, <2>2 DEF OneHome
<1>10. Numbered'
  <2>1. \A d \in Ctx : d >= nextCtx => ~done'[d]
    <3>1. c < nextCtx
      BY TopFacts, IdFacts, MADScheduleAssumption, SMTT(60) DEF ThisRun, CtxType, RunType
    <3>2. nextCtx \in Nat /\ \A d \in Ctx : d \in Nat
      BY IdFacts, MADScheduleAssumption DEF CtxType
    <3>3. \A d \in Ctx : d >= nextCtx => ~done[d] /\ d # c
      BY <3>1, <3>2 DEF HomeInv, Numbered
    <3> QED BY <1>8, <3>3
  <2>2. keys \cup timeouts \cup due' \subseteq 1..(nextTid - 1)
    BY DEF HomeInv, Numbered
  <2> QED BY <1>9, <2>1, <2>2 DEF HomeInv, Numbered, reqVars
<1>11. Family'
  BY DEF HomeInv, Family, Finish, CtxType
<1>12. Quiet'
  <2>1. CASE UNCHANGED <<pc, exit, due>>
    BY <2>1, TopFacts DEF Quiet
  <2>2. CASE Len(stack) = 1 /\ pc' = "idle" /\ exit' = "raised" /\ due' = {}
    <3>1. stack' \in Seq(Ctx) /\ Len(stack') = 0
      BY <2>2, LeaveType DEF CallType
    <3>2. stack' = <<>>
      BY <3>1
    <3> QED BY <2>2, <3>2 DEF Quiet
  <2> QED BY <2>1, <2>2
<1>13. Timers'
  BY DEF HomeInv, Timers, TimerPerKey, reqVars
<1>14. NoLostWakeup'
  <2> SUFFICES ASSUME NEW d \in Ctx, waiters'[d] # <<>>, done'[d], children'[d] = {}
               PROVE  FALSE
    BY DEF NoLostWakeup
  <2>1. children'[d] = children[d] \ {c}
    BY DEF Finish, CtxType
  <2>2. waiters'[d] = IF d \in Complete(c) THEN <<>> ELSE waiters[d]
    BY DEF Finish, ForgetWaiters
  <2>3. d \notin Complete(c) /\ waiters[d] # <<>>
    BY <2>2
  <2>4. CASE d = c
    <3>1. c \notin children[c]
      BY <1>1 DEF HomeInv, Family
    <3> QED BY <2>1, <2>3, <2>4, <3>1 DEF Complete
  <2>5. CASE d # c
    <3>1. done[d]
      BY <1>8, <2>5
    <3>2. children[d] # {}
      BY <2>3, <3>1 DEF HomeInv, NoLostWakeup
    <3>3. children[d] = {c}
      BY <2>1, <3>2
    <3>4. parent[c] = d /\ d # 0
      BY <3>3, IdFacts DEF HomeInv, Family
    <3> QED BY <2>3, <3>1, <3>3, <3>4 DEF Complete, ParentFinishes
  <2> QED BY <2>4, <2>5
<1> QED BY <1>9, <1>10, <1>11, <1>12, <1>13, <1>14 DEF HomeInv

(* The steps of an activation of _step.                                    *)
LEMMA HomeActivation ==
  ASSUME TypeInv, HomeInv, NEW c \in Ctx, Resume(c) \/ Park(c) \/ Body(c)
  PROVE  HomeInv'
<1>1. CASE Resume(c)
  BY <1>1, HomeSilent DEF Resume, runVars, reqVars
<1>2. CASE Park(c)
  BY <1>2, HomePark
<1>3. ASSUME NEW gen \in BOOLEAN, Queue(c, gen) PROVE HomeInv'
  BY <1>3, TopFacts, HomeNewActivation DEF Queue, InBody, runVars, reqVars
<1>4. CASE SetResult(c)
  BY <1>4, HomeSilent DEF SetResult, runVars, callVars, ctxVars, reqVars
<1>5. CASE YieldMAD(c)
  BY <1>5, HomeYieldMAD
<1>6. ASSUME NEW d \in base..(nextCtx - 1), YieldContext(c, d) PROVE HomeInv'
  BY <1>6, HomeYieldContext
<1>7. CASE YieldNone(c)
  BY <1>7, HomeSilent DEF YieldNone, LoopAgain, runVars, reqVars
<1>8. CASE YieldCall(c)
  BY <1>8, HomeSilent DEF YieldCall, LoopAgain, runVars, reqVars
<1>9. CASE YieldSpawn(c)
  BY <1>9, HomeYieldSpawn
<1>10. CASE ReturnToCaller(c)
  BY <1>10, HomeSilent DEF ReturnToCaller, LoopAgain, runVars, reqVars
<1>11. CASE Return(c)
  BY <1>11, HomeFinish DEF Return, InBody, runVars
<1>12. CASE RaiseToCaller(c)
  BY <1>12, HomeSilent DEF RaiseToCaller, LoopAgain, runVars, reqVars
<1>13. CASE Raise(c)
  BY <1>13, HomeFinish DEF Raise, InBody, RunEnds, runVars
<1> QED
  BY <1>1, <1>2, <1>3, <1>4, <1>5, <1>6, <1>7, <1>8, <1>9, <1>10, <1>11, <1>12, <1>13
  DEF Body

(* A reply or a timeout takes the request out of the tables and resumes    *)
(* its context.                                                            *)
LEMMA HomeAnswered ==
  ASSUME TypeInv, HomeInv, pc = "looping", stack = <<>>, NEW t \in keys, Enter(owner[t]),
         keys' = keys \ {t}, timeouts' = timeouts \ {t}, due' \subseteq due \ {t},
         UNCHANGED <<pc, exit, base, mqueue, waiters, nextCtx, parent, children, done, rmatch,
                     nextTid, owner>>
  PROVE  HomeInv'
<1> USE DEF TypeInv, TypeOK
<1>1. owner[t] \in InFlight /\ InFlight' = InFlight \ {owner[t]}
      /\ (\A v, u \in keys : owner[v] = owner[u] => v = u)'
  BY RunningFacts, InFlightLoses DEF NoneTwice
<1>2. owner[t] \in Ctx
  BY DEF Owned
<1>3. ToSet(stack') = ToSet(stack) \cup {owner[t]} /\ IsInjective(stack') /\ stack' # <<>>
  BY <1>1, <1>2, RunningFacts, EnterSets, EnterType DEF NoneTwice, HomesApart
<1>4. ToSet(mqueue') = ToSet(mqueue) /\ Waiting' = Waiting
  BY DEF Waiting
<1>5. Homes' = Homes
  BY <1>1, <1>3, <1>4 DEF Homes
<1>6. HomesApart'
  BY <1>1, <1>3, <1>4, RunningFacts DEF HomesApart
<1>7. NoneTwice'
  BY <1>1, <1>3, RunningFacts DEF NoneTwice
<1>8. OneHome' /\ Homes' \subseteq ThisRun'
  BY <1>5, <1>6, <1>7, RunningFacts, HomesMoved
<1>9. Numbered'
  BY <1>8 DEF HomeInv, Numbered
<1>10. Timers'
  BY DEF HomeInv, Timers, TimerPerKey
<1>11. Quiet'
  BY RunningFacts DEF Quiet
<1>12. Family' /\ NoLostWakeup'
  BY HomeKept
<1> QED BY <1>8, <1>9, <1>10, <1>11, <1>12 DEF HomeInv

(* A reply is given to the context that waits for it.                      *)
LEMMA HomeDispatch ==
  ASSUME TypeInv, HomeInv, Looping, NEW t \in keys, Dispatch(t)
  PROVE  HomeInv'
  BY HomeAnswered DEF Looping, Dispatch, Forget, runVars

(* A parked context is stepped.                                            *)
LEMMA HomeStepQueued ==
  ASSUME TypeInv, HomeInv, StepQueued
  PROVE  HomeInv'
<1> USE DEF TypeInv, TypeOK
<1> DEFINE c == Last(mqueue)
<1>1. /\ pc = "looping" /\ mqueue # <<>> /\ Enter(c) /\ mqueue' = Front(mqueue)
      /\ UNCHANGED <<runVars, keys, timeouts, waiters, ctxVars, reqVars>>
  BY DEF StepQueued, Looping
<1>2. exit = "none" /\ Homes = {d \in ThisRun : ~done[d]} /\ HomesApart /\ NoneTwice
  BY <1>1, RunningFacts
<1>3. /\ c \in Ctx /\ c \in ToSet(mqueue) /\ IsInjective(mqueue')
      /\ ToSet(mqueue') = ToSet(mqueue) \ {c}
  <2>1. mqueue \in Seq(Ctx) /\ mqueue # <<>> /\ IsInjective(mqueue)
    BY <1>1, <1>2 DEF NoneTwice, TableType
  <2> QED BY <1>1, <2>1, FrontFacts
<1> HIDE DEF c
<1>4. ToSet(stack') = ToSet(stack) \cup {c} /\ IsInjective(stack')
  BY <1>1, <1>2, <1>3, EnterSets DEF NoneTwice, HomesApart
<1>5. InFlight' = InFlight /\ Waiting' = Waiting
  BY <1>1 DEF InFlight, Waiting, reqVars
<1>6. Homes' = Homes
  BY <1>3, <1>4, <1>5 DEF Homes
<1>7. HomesApart'
  BY <1>2, <1>3, <1>4, <1>5 DEF HomesApart
<1>8. NoneTwice'
  BY <1>1, <1>2, <1>3, <1>4 DEF NoneTwice, reqVars
<1>9. OneHome' /\ Homes' \subseteq ThisRun'
  BY <1>1, <1>2, <1>6, <1>7, <1>8, HomesMoved DEF runVars, ctxVars
<1>10. Numbered'
  BY <1>1, <1>9 DEF HomeInv, Numbered, runVars, ctxVars, reqVars
<1>11. Family' /\ Timers' /\ NoLostWakeup'
  BY <1>1, HomeKept DEF runVars, ctxVars, reqVars
<1>12. Quiet'
  BY <1>1, <1>2 DEF Quiet, runVars
<1> QED BY <1>9, <1>10, <1>11, <1>12 DEF HomeInv

(* The request a due entry stands for: the entry's own, when its context   *)
(* belongs to this run, and none otherwise.                                *)
LEMMA DueFacts ==
  ASSUME TypeInv, HomeInv, NEW t \in due, rmatch[owner[t]] \in keys
  PROVE  rmatch[owner[t]] = t /\ t \in keys
<1>1. owner[t] \in Ctx /\ t \in timeouts
  BY DEF TypeInv, Owned, HomeInv, Timers
<1>2. rmatch[owner[t]] # 0
  BY IdFacts DEF TypeInv, TypeOK, TableType
<1>3. owner[rmatch[owner[t]]] = owner[t]
  BY <1>1, <1>2 DEF HomeInv, Timers
<1>4. owner[t] >= base
  BY <1>3 DEF HomeInv, Timers, TimerPerKey
<1>5. t \in keys
  BY <1>1, <1>4 DEF HomeInv, Timers, TimerPerKey
<1> QED BY <1>5 DEF HomeInv, Timers

(* A request that timed out is sent again.                                 *)
LEMMA HomeTimeoutRetries ==
  ASSUME TypeInv, HomeInv, NEW t \in Tid, TimeoutRetries(t)
  PROVE  HomeInv'
<1>1. /\ pc = "looping" /\ stack = <<>> /\ t \in due /\ rmatch[owner[t]] = t /\ t \in keys
      /\ UNCHANGED <<callVars, mqueue, waiters, nextCtx, parent, children, done, rmatch,
                     nextTid, owner>>
  BY DueFacts DEF TimeoutRetries, Purging
<1>2. CASE Reinsert(t) /\ UNCHANGED <<pc, exit, runs, base>>
  <2>1. Family' /\ OneHome' /\ NoLostWakeup'
    BY <1>1, <1>2, HomeKept DEF Reinsert, callVars
  <2>2. Quiet' /\ Timers'
    BY <1>1, <1>2 DEF HomeInv, Quiet, Timers, TimerPerKey, Reinsert, callVars
  <2>3. Homes' = Homes
    BY <1>1, <1>2 DEF Homes, InFlight, Waiting, Reinsert, callVars
  <2>4. Numbered'
    BY <1>1, <1>2, <2>3 DEF HomeInv, Numbered, ThisRun, Reinsert
  <2> QED BY <2>1, <2>2, <2>4 DEF HomeInv
<1>3. CASE /\ timeouts' = timeouts \ {t}
           /\ keys' = keys \ {rmatch[owner[t]]}
           /\ RunEnds("senderror")
  <2>1. keys' = keys \ {t} /\ timeouts' = timeouts \ {t}
        /\ pc' = "idle" /\ exit' = "senderror" /\ due' = {} /\ base' = base
    BY <1>1, <1>3 DEF RunEnds
  <2>2. Family' /\ NoLostWakeup'
    BY <1>1, HomeKept
  <2>3. Quiet' /\ Timers' /\ OneHome'
    BY <1>1, <2>1 DEF HomeInv, Quiet, Timers, TimerPerKey, OneHome, callVars
  <2>4. Homes' \subseteq Homes
    BY <1>1, <2>1 DEF Homes, InFlight, Waiting, callVars
  <2>5. Numbered'
    BY <1>1, <2>1, <2>4 DEF HomeInv, Numbered, ThisRun
  <2> QED BY <2>2, <2>3, <2>5 DEF HomeInv
<1> QED BY <1>2, <1>3 DEF TimeoutRetries

(* A due entry whose request is gone.                                      *)
LEMMA HomeTimeoutKeyError ==
  ASSUME TypeInv, HomeInv, NEW t \in Tid, TimeoutKeyError(t)
  PROVE  HomeInv'
<1>1. /\ pc = "looping" /\ stack = <<>> /\ t \in due /\ rmatch[owner[t]] \notin keys
      /\ timeouts' = timeouts \ {t} /\ pc' = "idle" /\ exit' = "keyerror" /\ due' = {}
      /\ UNCHANGED <<base, callVars, mqueue, keys, waiters, ctxVars, reqVars>>
  BY DEF TimeoutKeyError, Purging, RunEnds
<1>2. t \notin keys
  BY <1>1 DEF HomeInv, Timers
<1>3. Family' /\ NoLostWakeup'
  BY <1>1, HomeKept DEF ctxVars
<1>4. Homes' = Homes /\ HomesApart' /\ NoneTwice'
  <2>1. HomesApart /\ NoneTwice
    BY <1>1, RunningFacts
  <2>2. InFlight' = InFlight /\ Waiting' = Waiting /\ UNCHANGED <<stack, mqueue>>
    BY <1>1 DEF InFlight, Waiting, reqVars, callVars
  <2> QED BY <1>1, <2>1, <2>2 DEF Homes, HomesApart, NoneTwice, reqVars
<1>5. OneHome' /\ Homes' \subseteq ThisRun'
  BY <1>1, <1>4, RunningFacts, HomesMoved DEF ctxVars
<1>6. Quiet'
  BY <1>1 DEF Quiet, callVars
<1>7. Timers'
  BY <1>1, <1>2 DEF HomeInv, Timers, TimerPerKey, ctxVars, reqVars
<1>8. Numbered'
  BY <1>1, <1>5 DEF HomeInv, Numbered, ctxVars, reqVars
<1> QED BY <1>3, <1>5, <1>6, <1>7, <1>8 DEF HomeInv

(* run() returns.                                                          *)
LEMMA HomeFinishRun ==
  ASSUME TypeInv, HomeInv, FinishRun
  PROVE  HomeInv'
<1>1. /\ pc = "looping" /\ stack = <<>> /\ due = {} /\ pc' = "idle" /\ exit' = "clean"
      /\ due' = {} /\ UNCHANGED <<base, callVars, mqueue, keys, timeouts, waiters, ctxVars,
                                  reqVars>>
  BY DEF FinishRun, Looping, RunEnds
<1>2. Numbered' /\ Family' /\ Timers' /\ NoLostWakeup'
  BY <1>1, HomeKept DEF callVars, ctxVars, reqVars
<1>3. Quiet'
  BY <1>1 DEF Quiet, callVars
<1>4. OneHome'
  <2>1. Homes = {c \in ThisRun : ~done[c]} /\ HomesApart /\ NoneTwice
    BY <1>1, RunningFacts
  <2>2. InFlight' = InFlight /\ Waiting' = Waiting /\ UNCHANGED <<stack, mqueue>>
    BY <1>1 DEF InFlight, Waiting, reqVars, callVars
  <2> QED
    BY <1>1, <2>1, <2>2
    DEF OneHome, Homes, HomesApart, NoneTwice, ThisRun, ctxVars, reqVars
<1> QED BY <1>2, <1>3, <1>4 DEF HomeInv

(* The steps of run() itself.                                              *)
LEMMA HomeRun ==
  ASSUME TypeInv, HomeInv, Run \/ \E t \in Tid : Receive(t)
  PROVE  HomeInv'
<1>1. ASSUME NEW gen \in BOOLEAN, StartWork(gen) PROVE HomeInv'
  BY <1>1, HomeNewActivation DEF StartWork, reqVars
<1>2. CASE BeginLoop
  <2>1. /\ pc = "starting" /\ pc' = "looping"
        /\ UNCHANGED <<due, exit, base, callVars, mqueue, keys, timeouts, waiters, ctxVars,
                       reqVars>>
    BY <1>2 DEF BeginLoop
  <2>2. Numbered' /\ Family' /\ Timers' /\ OneHome' /\ NoLostWakeup'
    BY <2>1, HomeKept DEF callVars, ctxVars, reqVars
  <2>3. Quiet'
    BY <2>1, RunningFacts DEF Quiet
  <2> QED BY <2>2, <2>3 DEF HomeInv
<1>3. CASE StepQueued
  BY <1>3, HomeStepQueued
<1>4. CASE TakeQueuedReply
  BY <1>4, HomeDispatch, HomeSilent
  DEF TakeQueuedReply, ReadyForReply, Unexpected, runVars, callVars, ctxVars
<1>5. ASSUME NEW t \in Tid, Receive(t) PROVE HomeInv'
  BY <1>5, HomeDispatch, HomeSilent
  DEF Receive, ReadyForReply, Unexpected, runVars, callVars, ctxVars
<1>6. ASSUME NEW S \in SUBSET timeouts, Wake(S) PROVE HomeInv'
  <2>1. /\ pc # "idle" /\ due' = S
        /\ UNCHANGED <<pc, exit, base, callVars, mqueue, keys, timeouts, waiters, ctxVars,
                       reqVars>>
    BY <1>6 DEF Wake, ReadyForReply, Looping
  <2>2. Family' /\ OneHome' /\ NoLostWakeup'
    BY <2>1, HomeKept DEF callVars, ctxVars, reqVars
  <2>3. Homes' = Homes
    BY <2>1 DEF Homes, InFlight, Waiting, callVars, reqVars
  <2>4. Numbered'
    BY <2>1, <2>3 DEF HomeInv, Numbered, ThisRun, ctxVars, reqVars
  <2>5. Timers'
    BY <2>1 DEF HomeInv, Timers, TimerPerKey, ctxVars, reqVars
  <2>6. Quiet'
    BY <2>1, RunningFacts DEF Quiet
  <2> QED BY <2>2, <2>4, <2>5, <2>6 DEF HomeInv
<1>7. ASSUME NEW t \in Tid, TimeoutFails(t) PROVE HomeInv'
  <2>1. pc = "looping" /\ stack = <<>> /\ t \in due /\ rmatch[owner[t]] \in keys
    BY <1>7 DEF TimeoutFails, Purging
  <2>2. rmatch[owner[t]] = t /\ t \in keys
    BY <2>1, DueFacts
  <2> QED BY <1>7, <2>1, <2>2, HomeAnswered DEF TimeoutFails
<1>8. ASSUME NEW t \in Tid, TimeoutRetries(t) PROVE HomeInv'
  BY <1>8, HomeTimeoutRetries
<1>9. ASSUME NEW t \in Tid, TimeoutKeyError(t) PROVE HomeInv'
  BY <1>9, HomeTimeoutKeyError
<1>10. CASE FinishRun
  BY <1>10, HomeFinishRun
<1> QED BY <1>1, <1>2, <1>3, <1>4, <1>5, <1>6, <1>7, <1>8, <1>9, <1>10 DEF Run

(* run() starts from empty tables, except _timeouts, whose entries belong  *)
(* to contexts of earlier runs.                                            *)
LEMMA HomeStartRun ==
  ASSUME TypeInv, HomeInv, StartRun
  PROVE  HomeInv'
<1> USE DEF TypeInv, TypeOK
<1>1. /\ pc = "idle" /\ pc' = "starting" /\ exit' = "none" /\ base' = nextCtx
      /\ waiters' = [c \in Ctx |-> <<>>] /\ keys' = {} /\ mqueue' = <<>>
      /\ UNCHANGED <<due, callVars, timeouts, ctxVars, reqVars>>
  BY DEF StartRun
<1>2. stack' = <<>> /\ due' = {}
  BY <1>1 DEF HomeInv, Quiet, callVars
<1>3. /\ ToSet(stack') = {} /\ ToSet(mqueue') = {} /\ IsInjective(stack') /\ IsInjective(mqueue')
      /\ \A c \in Ctx : ToSet(waiters'[c]) = {} /\ IsInjective(waiters'[c])
  BY <1>1, <1>2, EmptyFacts
<1>4. InFlight' = {} /\ Waiting' = {}
  BY <1>1, <1>3 DEF InFlight, Waiting
<1>5. Homes' = {} /\ HomesApart'
  BY <1>3, <1>4 DEF Homes, HomesApart
<1>6. NoneTwice'
  BY <1>1, <1>3 DEF NoneTwice
<1>7. ThisRun' = {}
  BY <1>1, MADScheduleAssumption DEF ThisRun, CtxType, ctxVars
<1>8. OneHome'
  BY <1>5, <1>6, <1>7 DEF OneHome
<1>9. Numbered'
  <2>1. nextCtx' = nextCtx /\ nextCtx \in Nat
    BY <1>1, MADScheduleAssumption DEF CtxType, ctxVars
  <2> QED
    BY <1>1, <1>2, <1>5, <2>1 DEF HomeInv, Numbered, ctxVars, reqVars
<1>10. Family'
  BY <1>1, HomeKept DEF ctxVars
<1>11. Quiet'
  BY <1>1 DEF Quiet
<1>12. Timers'
  <2>1. \A t \in timeouts : ~(owner[t] >= nextCtx)
    <3>1. \A t \in timeouts : owner[t] \in Nat /\ owner[t] < nextCtx /\ nextCtx \in Nat
      <4>1. nextCtx \in Nat
        BY MADScheduleAssumption DEF CtxType
      <4>2. \A t \in timeouts : owner[t] \in Ctx /\ owner[t] < nextCtx
        BY DEF HomeInv, Numbered, Owned
      <4> QED BY <4>1, <4>2, IdFacts
    <3> QED BY <3>1
  <2>2. TimerPerKey'
    BY <1>1, <2>1 DEF TimerPerKey, reqVars
  <2> QED BY <1>1, <1>2, <2>2 DEF HomeInv, Timers, ctxVars, reqVars
<1>13. NoLostWakeup'
  BY <1>1 DEF NoLostWakeup
<1> QED BY <1>8, <1>9, <1>10, <1>11, <1>12, <1>13 DEF HomeInv

(* A new scheduler has no context anywhere.                                *)
LEMMA HomeInit == Init => HomeInv
<1> SUFFICES ASSUME Init PROVE HomeInv
  OBVIOUS
<1>1. /\ pc = "idle" /\ due = {} /\ base = 1 /\ nextCtx = 1 /\ nextTid = 1
      /\ stack = <<>> /\ mqueue = <<>> /\ keys = {} /\ timeouts = {}
      /\ waiters = [c \in Ctx |-> <<>>] /\ parent = [c \in Ctx |-> 0]
      /\ children = [c \in Ctx |-> {}] /\ rmatch = [c \in Ctx |-> 0]
  BY DEF Init
<1>2. \A c \in Ctx : done[c] = FALSE
  BY DEF Init
<1>3. /\ ToSet(stack) = {} /\ ToSet(mqueue) = {} /\ IsInjective(stack) /\ IsInjective(mqueue)
      /\ \A c \in Ctx : ToSet(waiters[c]) = {} /\ IsInjective(waiters[c])
  BY <1>1, EmptyFacts
<1>4. InFlight = {} /\ Waiting = {}
  BY <1>1, <1>3 DEF InFlight, Waiting
<1>5. Homes = {} /\ HomesApart /\ NoneTwice /\ ThisRun = {}
  BY <1>1, <1>3, <1>4 DEF Homes, HomesApart, NoneTwice, ThisRun
<1>6. Numbered /\ OneHome
  BY <1>1, <1>2, <1>5, IdFacts DEF Numbered, OneHome
<1>7. Family /\ Quiet /\ Timers /\ NoLostWakeup
  BY <1>1, IdFacts DEF Family, Quiet, Timers, TimerPerKey, NoLostWakeup, Ctx
<1> QED BY <1>6, <1>7 DEF HomeInv

(* Every step leaves every context one home.                               *)
LEMMA HomeNext == TypeInv /\ HomeInv /\ [Next]_vars => HomeInv'
<1> SUFFICES ASSUME TypeInv, HomeInv, [Next]_vars PROVE HomeInv'
  OBVIOUS
<1>1. CASE StartRun
  BY <1>1, HomeStartRun
<1>2. CASE Run \/ \E t \in Tid : Receive(t)
  BY <1>2, HomeRun
<1>3. ASSUME NEW c \in Ctx, Resume(c) \/ Park(c) \/ Body(c) PROVE HomeInv'
  BY <1>3, HomeActivation
<1>4. CASE UNCHANGED vars
  BY <1>4, HomeSilent DEF vars, runVars, callVars, ctxVars, reqVars
<1> QED BY <1>1, <1>2, <1>3, <1>4 DEF Next, Scheduler, Thread

-----------------------------------------------------------------------------
(* No unfinished context is lost and none is scheduled from two places     *)
(* (_mqueue, _keys, _ctx_waiters and the activations of _step).            *)
THEOREM ContextsHaveOneHome == Spec => []OneHome
<1>1. HomeInv => OneHome
  BY DEF HomeInv
<1> QED BY <1>1, HomeInit, HomeNext, TypeInit, TypeNext, PTL DEF Spec

(* Every request of the current run in _keys has its entry in _timeouts,   *)
(* and the other entries are those earlier runs left behind.               *)
THEOREM EveryKeyHasItsTimer == Spec => []TimerPerKey
<1>1. HomeInv => TimerPerKey
  BY DEF HomeInv, Timers
<1> QED BY <1>1, HomeInit, HomeNext, TypeInit, TypeNext, PTL DEF Spec

(* _finish_ctx leaves no context waiting on a complete one.                *)
THEOREM NoWakeupIsLost == Spec => []NoLostWakeup
<1>1. HomeInv => NoLostWakeup
  BY DEF HomeInv
<1> QED BY <1>1, HomeInit, HomeNext, TypeInit, TypeNext, PTL DEF Spec

-----------------------------------------------------------------------------
(* CleanRunCompletes.                                                      *)

(* Children are unfinished contexts, and nobody waits on a context of an   *)
(* earlier run.                                                            *)
CompletionInv ==
  /\ \A d \in Ctx : \A e \in children[d] : ~done[e]
  /\ \A d \in Ctx : waiters[d] # <<>> => d \in ThisRun
  /\ CleanRunCompletes

LEMMA CompletionKept ==
  ASSUME CompletionInv, UNCHANGED <<children, done, waiters, base, nextCtx>>, exit' # "clean"
  PROVE  CompletionInv'
  BY DEF CompletionInv, ThisRun, CleanRunCompletes

(* A new context is unfinished and has no waiters.                         *)
LEMMA CompletionNewContext ==
  ASSUME TypeInv, HomeInv, CompletionInv, NEW gen \in BOOLEAN, NEW p \in Ctx \cup {0},
         p < nextCtx, NewContext(gen, p), UNCHANGED <<done, waiters, base>>, exit' # "clean"
  PROVE  CompletionInv'
<1>1. ~done[nextCtx] /\ ThisRun' = ThisRun \cup {nextCtx}
  BY NewContextFacts
<1>2. \A d \in Ctx : children'[d] \subseteq children[d] \cup {nextCtx}
  BY DEF NewContext
<1> QED BY <1>1, <1>2 DEF CompletionInv, CleanRunCompletes

(* A context finishes, and is nobody's child any more.                     *)
LEMMA CompletionFinish ==
  ASSUME TypeInv, CompletionInv, NEW c \in Ctx, Finish(c), UNCHANGED <<base, nextCtx>>,
         exit' # "clean"
  PROVE  CompletionInv'
<1>1. /\ \A d \in Ctx : children'[d] = children[d] \ {c}
      /\ \A d \in Ctx : d # c => done'[d] = done[d]
      /\ \A d \in Ctx : waiters'[d] = <<>> \/ waiters'[d] = waiters[d]
      /\ \A d \in Ctx : children[d] \subseteq Ctx
  BY DEF Finish, ForgetWaiters, TypeInv, TypeOK, CtxType
<1>2. ASSUME NEW d \in Ctx, NEW e \in children'[d] PROVE ~done'[e]
  <2>1. e \in children[d] /\ e # c /\ e \in Ctx
    BY <1>1
  <2> QED BY <1>1, <2>1 DEF CompletionInv
<1>3. ASSUME NEW d \in Ctx, waiters'[d] # <<>> PROVE d \in ThisRun'
  BY <1>1, <1>3 DEF CompletionInv, ThisRun
<1> QED BY <1>2, <1>3 DEF CompletionInv, CleanRunCompletes

(* The steps of an activation of _step.                                    *)
LEMMA CompletionActivation ==
  ASSUME TypeInv, HomeInv, CompletionInv, NEW c \in Ctx, Resume(c) \/ Park(c) \/ Body(c)
  PROVE  CompletionInv'
<1> USE DEF TypeInv, TypeOK
<1>1. stack # <<>> /\ c = Last(stack)
  BY DEF Resume, Park, Body, AtTest, InBody, Queue, SetResult, YieldMAD, YieldContext, YieldNone,
         YieldCall, YieldSpawn, ReturnToCaller, Return, RaiseToCaller, Raise
<1>2. exit = "none"
  BY <1>1, TopFacts
<1>3. c < nextCtx /\ 0 < nextCtx
  BY <1>1, TopFacts, IdFacts, MADScheduleAssumption, SMTT(60) DEF ThisRun, RunType, CtxType
<1>4. CASE Resume(c) \/ Park(c) \/ SetResult(c) \/ YieldMAD(c) \/ YieldNone(c) \/ YieldCall(c)
             \/ ReturnToCaller(c) \/ RaiseToCaller(c)
  <2>1. UNCHANGED <<children, done, waiters, base, nextCtx, exit>>
    BY <1>4 DEF Resume, Park, SetResult, YieldMAD, YieldNone, YieldCall, ReturnToCaller,
                RaiseToCaller, ctxVars, runVars
  <2> QED BY <1>2, <2>1, CompletionKept
<1>5. ASSUME NEW gen \in BOOLEAN, Queue(c, gen) PROVE CompletionInv'
  BY <1>2, <1>3, <1>5, CompletionNewContext DEF Queue, runVars
<1>6. ASSUME NEW d \in base..(nextCtx - 1), YieldContext(c, d) PROVE CompletionInv'
  <2>1. /\ \A b \in Ctx : b # d => waiters'[b] = waiters[b]
        /\ UNCHANGED <<children, done, base, nextCtx, exit>>
    BY <1>6 DEF YieldContext, runVars, TableType
  <2> QED BY <1>2, <2>1 DEF CompletionInv, ThisRun, CleanRunCompletes
<1>7. CASE YieldSpawn(c)
  BY <1>2, <1>3, <1>7, CompletionNewContext DEF YieldSpawn, runVars
<1>8. CASE Return(c)
  BY <1>2, <1>8, CompletionFinish DEF Return, runVars
<1>9. CASE Raise(c)
  BY <1>2, <1>9, CompletionFinish DEF Raise, RunEnds, runVars
<1> QED BY <1>4, <1>5, <1>6, <1>7, <1>8, <1>9 DEF Body

(* run() returns with nothing queued and nothing in flight.                *)
LEMMA CompletionFinishRun ==
  ASSUME TypeInv, HomeInv, CompletionInv, FinishRun
  PROVE  CompletionInv'
<1>1. /\ pc = "looping" /\ stack = <<>> /\ keys = {} /\ mqueue = <<>>
      /\ UNCHANGED <<base, nextCtx, waiters, children, done>>
  BY DEF FinishRun, Looping, RunEnds, ctxVars
<1>2. Homes = {c \in ThisRun : ~done[c]}
  BY <1>1, RunningFacts
<1>3. Homes = Waiting
  BY <1>1, EmptyFacts DEF Homes, InFlight
<1>4. ASSUME NEW c \in ThisRun, ~done[c] PROVE Blocked(c)
  <2>1. c \in Waiting
    BY <1>2, <1>3, <1>4
  <2>2. PICK d \in Ctx : c \in ToSet(waiters[d])
    BY <2>1 DEF Waiting
  <2>3. waiters[d] # <<>>
    BY <2>2, EmptyFacts
  <2>4. d \in ThisRun /\ (~done[d] \/ children[d] # {})
    BY <2>3 DEF CompletionInv, HomeInv, NoLostWakeup
  <2>5. CASE ~done[d]
    BY <2>2, <2>4, <2>5 DEF Blocked
  <2>6. CASE children[d] # {}
    <3>1. PICK e \in children[d] : ~done[e]
      BY <2>6 DEF CompletionInv
    <3>2. /\ e \in Ctx /\ e < nextCtx /\ d < e
          /\ d \in Nat /\ e \in Nat /\ base \in Nat /\ nextCtx \in Nat
      BY IdFacts, MADScheduleAssumption
         DEF HomeInv, Family, TypeInv, TypeOK, CtxType, RunType
    <3>3. e \in ThisRun
      BY <2>4, <3>2 DEF ThisRun
    <3> QED BY <2>2, <2>4, <3>1, <3>3 DEF Blocked
  <2> QED BY <2>4, <2>5, <2>6
<1>5. Completed'
  BY <1>1, <1>4 DEF Completed, Blocked, ThisRun
<1> QED BY <1>1, <1>5 DEF CompletionInv, CleanRunCompletes, ThisRun

(* The steps of run() itself.                                              *)
LEMMA CompletionRun ==
  ASSUME TypeInv, HomeInv, CompletionInv, Run \/ \E t \in Tid : Receive(t)
  PROVE  CompletionInv'
<1>1. pc # "idle"
  BY DEF Run, StartWork, BeginLoop, StepQueued, TakeQueuedReply, Receive, Wake, TimeoutFails,
         TimeoutRetries, TimeoutKeyError, FinishRun, ReadyForReply, Looping, Purging
<1>2. exit = "none"
  BY <1>1, RunningFacts
<1>3. ASSUME NEW gen \in BOOLEAN, StartWork(gen) PROVE CompletionInv'
  <2>1. 0 < nextCtx
    BY MADScheduleAssumption DEF TypeInv, TypeOK, CtxType
  <2> QED BY <1>2, <1>3, <2>1, CompletionNewContext DEF StartWork
<1>4. CASE FinishRun
  BY <1>4, CompletionFinishRun
<1>5. ASSUME NEW t \in Tid, \/ Receive(t) \/ TimeoutFails(t) \/ TimeoutRetries(t)
                            \/ TimeoutKeyError(t)
      PROVE  CompletionInv'
  <2>1. UNCHANGED <<children, done, waiters, base, nextCtx>> /\ exit' # "clean"
    BY <1>2, <1>5 DEF Receive, TimeoutFails, TimeoutRetries, TimeoutKeyError, Dispatch,
                      Unexpected, RunEnds, ctxVars, runVars
  <2> QED BY <2>1, CompletionKept
<1>6. CASE BeginLoop \/ StepQueued \/ TakeQueuedReply \/ \E S \in SUBSET timeouts : Wake(S)
  <2>1. UNCHANGED <<children, done, waiters, base, nextCtx, exit>>
    BY <1>6 DEF BeginLoop, StepQueued, TakeQueuedReply, Wake, Dispatch, Unexpected, ctxVars,
                runVars
  <2> QED BY <1>2, <2>1, CompletionKept
<1> QED BY <1>3, <1>4, <1>5, <1>6 DEF Run

(* Every step keeps CompletionInv.                                         *)
LEMMA CompletionNext == TypeInv /\ HomeInv /\ CompletionInv /\ [Next]_vars => CompletionInv'
<1> SUFFICES ASSUME TypeInv, HomeInv, CompletionInv, [Next]_vars PROVE CompletionInv'
  OBVIOUS
<1>1. CASE StartRun
  BY <1>1 DEF StartRun, CompletionInv, CleanRunCompletes, ctxVars
<1>2. CASE Run \/ \E t \in Tid : Receive(t)
  BY <1>2, CompletionRun
<1>3. ASSUME NEW c \in Ctx, Resume(c) \/ Park(c) \/ Body(c) PROVE CompletionInv'
  BY <1>3, CompletionActivation
<1>4. CASE UNCHANGED vars
  BY <1>4 DEF CompletionInv, CleanRunCompletes, Completed, Blocked, ThisRun, vars, runVars,
              ctxVars
<1> QED BY <1>1, <1>2, <1>3, <1>4 DEF Next, Scheduler, Thread

(* When run() exits at its loop test, every context is finished or blocked *)
(* on an unfinished one.                                                   *)
THEOREM CleanRunsComplete == Spec => []CleanRunCompletes
<1>1. Init => CompletionInv
  BY DEF Init, CompletionInv, CleanRunCompletes
<1>2. CompletionInv => CleanRunCompletes
  BY DEF CompletionInv
<1> QED
  BY <1>1, <1>2, CompletionNext, HomeInit, HomeNext, TypeInit, TypeNext, PTL DEF Spec

-----------------------------------------------------------------------------
(* MADSchedule implements MADRpc.                                          *)

(* A request in flight has no outcome yet and its context counts down the  *)
(* transmissions left; a transaction ID not handed out is unused.          *)
RpcInv ==
  /\ \A t \in keys : /\ outcome[t] = "none" /\ sends[t] > 0
                     /\ sends[t] + retries[owner[t]] = Retries + 1
  /\ \A t \in Tid : t >= nextTid => sends[t] = 0 /\ outcome[t] = "none"

(* The mapped status of a request, by cases.                               *)
LEMMA StatusFacts ==
  ASSUME TypeInv, RpcInv
  PROVE  /\ status = [t \in Tid |-> status[t]]
         /\ \A t \in Tid : status[t] = "pending" <=> t \in keys
         /\ \A t \in Tid : outcome[t] # "none" => status[t] = outcome[t]
         /\ \A t \in Tid : outcome[t] = "none" /\ t \notin keys =>
              status[t] = IF sends[t] > 0 THEN "dropped" ELSE "unused"
  BY DEF status, RpcInv, TypeInv, TypeOK, RequestType

(* The status that the refinement mapping reads is a function.             *)
LEMMA StatusFunction == status' = [t \in Tid |-> status'[t]]
  BY DEF status

(* It changes only with what it is read off.                               *)
LEMMA StatusKept ==
  ASSUME UNCHANGED <<keys, outcome, sends>>
  PROVE  status' = status
  BY DEF status

(* Steps that leave the requests alone, but for the transaction ID of one  *)
(* that is never sent.                                                     *)
LEMMA RpcSilent ==
  ASSUME TypeInv, RpcInv, UNCHANGED <<keys, outcome, sends>>,
         nextTid' = nextTid \/ nextTid' = nextTid + 1,
         \A t \in keys : owner'[t] = owner[t] /\ retries'[owner[t]] = retries[owner[t]]
  PROVE  RpcInv' /\ UNCHANGED <<status, sends>>
<1>1. status' = status
  BY StatusKept
<1>2. \A t \in Tid : t \in Nat
  BY IdFacts
<1>3. nextTid \in Nat
  BY MADScheduleAssumption DEF TypeInv, TypeOK, RequestType
<1>4. \A t \in Tid : t >= nextTid' => t >= nextTid
  BY <1>2, <1>3
<1> QED BY <1>1, <1>4 DEF RpcInv

(* A step that sends and ends nothing is none of MADRpc.                   *)
LEMMA StutterStep ==
  ASSUME UNCHANGED <<status, sends>>, (pc # "idle") = (pc' # "idle")
  PROVE  [Rpc!Next]_(Rpc!rpcVars)
  BY DEF Rpc!rpcVars

(* A run that ends without losing a request.                               *)
LEMMA EndStep ==
  ASSUME TypeInv, RpcInv, UNCHANGED <<status, sends>>, pc # "idle", pc' = "idle"
  PROVE  Rpc!Next
<1>1. status' = [t \in Tid |-> IF t \in {} THEN "dropped" ELSE status[t]]
  BY StatusFacts
<1>2. Rpc!End({})
  BY <1>1 DEF Rpc!End, Rpc!Answer
<1> QED BY <1>2 DEF Rpc!Next

(* A step that changes the status of one request.                          *)
LEMMA StatusChanges ==
  ASSUME TypeInv, RpcInv, NEW t \in Tid, NEW how, status'[t] = how,
         \A u \in Tid \ {t} : /\ outcome'[u] = outcome[u]
                              /\ u \in keys' <=> u \in keys
                              /\ sends'[u] = sends[u]
  PROVE  status' = [u \in Tid |-> IF u \in {t} THEN how ELSE status[u]]
<1>1. \A u \in Tid \ {t} : status'[u] = status[u]
  BY DEF status
<1> QED BY <1>1, StatusFunction

(* A MAD that is yielded is an Issue of MADRpc.                            *)
LEMMA RefineYieldMAD ==
  ASSUME TypeInv, HomeInv, RpcInv, NEW c \in Ctx, YieldMAD(c)
  PROVE  RpcInv' /\ [Rpc!Next]_(Rpc!rpcVars)
<1> USE DEF TypeInv, TypeOK
<1>1. /\ stack # <<>> /\ c = Last(stack) /\ nextTid \in Tid /\ nextTid \in Nat
      /\ nextTid' = nextTid + 1 /\ UNCHANGED <<runVars, outcome>>
  BY IdFacts DEF YieldMAD, InBody, RequestType
<1>2. pc # "idle" /\ c \notin InFlight /\ UNCHANGED pc
  BY <1>1, TopFacts DEF runVars
<1>3. CASE SendMAD(c)
  <2>1. nextTid \notin keys
    BY <1>1, TidFacts
  <2>2. sends[nextTid] = 0 /\ outcome[nextTid] = "none"
    BY <1>1 DEF RpcInv
  <2>3. /\ sends' = [sends EXCEPT ![nextTid] = 1]
        /\ sends'[nextTid] = 1 /\ \A t \in Tid \ {nextTid} : sends'[t] = sends[t]
    BY <1>1, <1>3, <2>2 DEF SendMAD, Transmit, RequestType
  <2>4. /\ keys' = keys \cup {nextTid} /\ owner'[nextTid] = c /\ retries'[c] = Retries
        /\ \A t \in Tid \ {nextTid} : owner'[t] = owner[t]
        /\ \A d \in Ctx \ {c} : retries'[d] = retries[d]
    BY <1>1, <1>3 DEF SendMAD, RequestType, CtxType
  <2>5. RpcInv'
    <3>1. ASSUME NEW t \in keys
          PROVE  /\ outcome'[t] = "none" /\ sends'[t] > 0
                 /\ sends'[t] + retries'[owner'[t]] = Retries + 1
      <4>1. t \in Tid /\ t # nextTid /\ owner[t] \in Ctx /\ owner[t] # c
        BY <1>2, <2>1 DEF TableType, Owned, InFlight
      <4> QED BY <1>1, <2>3, <2>4, <4>1 DEF RpcInv
    <3>2. /\ outcome'[nextTid] = "none" /\ sends'[nextTid] > 0
          /\ sends'[nextTid] + retries'[owner'[nextTid]] = Retries + 1
      BY <1>1, <2>2, <2>3, <2>4, MADScheduleAssumption
    <3>3. \A t \in Tid : t >= nextTid' => sends'[t] = 0 /\ outcome'[t] = "none"
      <4>1. \A t \in Tid : t >= nextTid' => t >= nextTid /\ t # nextTid
        BY <1>1, IdFacts
      <4> QED BY <1>1, <2>3, <4>1 DEF RpcInv
    <3> QED BY <2>4, <3>1, <3>2, <3>3 DEF RpcInv
  <2>6. status[nextTid] = "unused" /\ status'[nextTid] = "pending"
    <3>1. status[nextTid] = "unused"
      BY <1>1, <2>1, <2>2, StatusFacts
    <3>2. status'[nextTid] = "pending"
      BY <1>1, <2>2, <2>4 DEF status
    <3> QED BY <3>1, <3>2
  <2>7. status' = [t \in Tid |-> IF t \in {nextTid} THEN "pending" ELSE status[t]]
    BY <1>1, <2>3, <2>4, <2>6, StatusChanges
  <2>8. Rpc!Issue(nextTid)
    BY <1>2, <2>3, <2>6, <2>7 DEF Rpc!Issue, Rpc!Answer
  <2> QED BY <1>1, <2>5, <2>8 DEF Rpc!Next
<1>4. CASE UNCHANGED <<keys, owner, retries, sends>>
  BY <1>1, <1>2, <1>4, RpcSilent, StutterStep
<1> QED BY <1>3, <1>4 DEF YieldMAD

(* A context steps without touching the requests.                          *)
LEMMA RefineActivation ==
  ASSUME TypeInv, HomeInv, RpcInv, NEW c \in Ctx, Resume(c) \/ Park(c) \/ Body(c)
  PROVE  RpcInv' /\ [Rpc!Next]_(Rpc!rpcVars)
<1>1. CASE YieldMAD(c)
  BY <1>1, RefineYieldMAD
<1>2. CASE Raise(c)
  <2>1. RpcInv' /\ UNCHANGED <<status, sends>>
    BY <1>2, RpcSilent DEF Raise, reqVars
  <2>2. pc # "idle"
    BY <1>2, TopFacts DEF Raise, InBody
  <2>3. CASE pc' = "idle"
    BY <2>1, <2>2, <2>3, EndStep
  <2>4. CASE UNCHANGED pc
    BY <2>1, <2>4, StutterStep
  <2> QED BY <1>2, <2>1, <2>3, <2>4 DEF Raise, RunEnds, runVars
<1>3. CASE \/ Resume(c) \/ Park(c) \/ (\E gen \in BOOLEAN : Queue(c, gen)) \/ SetResult(c)
           \/ (\E d \in base..(nextCtx - 1) : YieldContext(c, d))
           \/ YieldNone(c) \/ YieldCall(c) \/ YieldSpawn(c) \/ ReturnToCaller(c) \/ Return(c)
           \/ RaiseToCaller(c)
  <2>1. UNCHANGED <<pc, keys, owner, retries, reqVars>>
    BY <1>3 DEF Resume, Park, Queue, SetResult, YieldContext, YieldNone, YieldCall, YieldSpawn,
                ReturnToCaller, Return, RaiseToCaller, runVars, ctxVars, reqVars
  <2> QED BY <2>1, RpcSilent, StutterStep DEF reqVars
<1> QED BY <1>1, <1>2, <1>3 DEF Body

(* An answer: the request leaves the tables with its outcome.              *)
LEMMA RefineAnswered ==
  ASSUME TypeInv, HomeInv, RpcInv, pc # "idle", UNCHANGED pc, NEW t \in keys,
         NEW how \in {"reply", "timeout"}, keys' = keys \ {t},
         outcome' = [outcome EXCEPT ![t] = how],
         UNCHANGED <<retries, owner, sends, nextTid>>
  PROVE  /\ RpcInv' /\ status[t] = "pending"
         /\ status' = [u \in Tid |-> IF u \in {t} THEN how ELSE status[u]]
<1> USE DEF TypeInv, TypeOK
<1>1. t \in Tid /\ outcome'[t] = how /\ \A u \in Tid \ {t} : outcome'[u] = outcome[u]
  BY DEF TableType, RequestType
<1>2. t < nextTid
  BY TidFacts
<1>3. RpcInv'
  <2>1. \A u \in Tid : u >= nextTid => u # t
    BY <1>1, <1>2, TidFacts, IdFacts
  <2>2. \A u \in keys' : u \in Tid /\ u # t
    BY DEF TableType
  <2> QED BY <1>1, <2>1, <2>2 DEF RpcInv
<1>4. status[t] = "pending"
  BY <1>1, StatusFacts
<1>5. status'[t] = how
  BY <1>1 DEF status
<1>6. status' = [u \in Tid |-> IF u \in {t} THEN how ELSE status[u]]
  BY <1>1, <1>5, StatusChanges
<1> QED BY <1>3, <1>4, <1>6

(* A reply that is dispatched is a Reply of MADRpc.                        *)
LEMMA RefineDispatch ==
  ASSUME TypeInv, HomeInv, RpcInv, Looping, NEW t \in keys, Dispatch(t)
  PROVE  RpcInv' /\ [Rpc!Next]_(Rpc!rpcVars)
<1>1. /\ pc # "idle" /\ t \in Tid /\ keys' = keys \ {t}
      /\ outcome' = [outcome EXCEPT ![t] = "reply"]
      /\ UNCHANGED <<pc, retries, owner, sends, nextTid>>
  BY DEF Looping, Dispatch, Forget, runVars, TypeInv, TypeOK, TableType
<1>2. /\ RpcInv' /\ status[t] = "pending"
      /\ status' = [u \in Tid |-> IF u \in {t} THEN "reply" ELSE status[u]]
  BY <1>1, RefineAnswered
<1>3. Rpc!Reply(t)
  BY <1>1, <1>2 DEF Rpc!Reply, Rpc!Answer
<1> QED BY <1>1, <1>2, <1>3 DEF Rpc!Next

(* A request out of retries is a TimeOut of MADRpc.                        *)
LEMMA RefineTimeoutFails ==
  ASSUME TypeInv, HomeInv, RpcInv, NEW t \in Tid, TimeoutFails(t)
  PROVE  RpcInv' /\ [Rpc!Next]_(Rpc!rpcVars)
<1>1. /\ pc # "idle" /\ rmatch[owner[t]] = t /\ t \in keys /\ retries[owner[t]] = 0
  BY DueFacts DEF TimeoutFails, Purging, OutOfRetries
<1>2. /\ keys' = keys \ {t} /\ outcome' = [outcome EXCEPT ![t] = "timeout"]
      /\ UNCHANGED <<pc, retries, owner, sends, nextTid>>
  BY <1>1 DEF TimeoutFails
<1>3. /\ RpcInv' /\ status[t] = "pending"
      /\ status' = [u \in Tid |-> IF u \in {t} THEN "timeout" ELSE status[u]]
  BY <1>1, <1>2, RefineAnswered
<1>4. sends[t] = Retries + 1
  BY <1>1, MADScheduleAssumption DEF RpcInv, TypeInv, TypeOK, RequestType
<1>5. Rpc!TimeOut(t)
  BY <1>1, <1>2, <1>3, <1>4 DEF Rpc!TimeOut, Rpc!Answer
<1> QED BY <1>3, <1>5 DEF Rpc!Next

(* A retry is a Resend of MADRpc, or its End when _execute raises.         *)
LEMMA RefineTimeoutRetries ==
  ASSUME TypeInv, HomeInv, RpcInv, NEW t \in Tid, TimeoutRetries(t)
  PROVE  RpcInv' /\ [Rpc!Next]_(Rpc!rpcVars)
<1> USE DEF TypeInv, TypeOK
<1>1. /\ pc # "idle" /\ rmatch[owner[t]] = t /\ t \in keys /\ retries[owner[t]] # 0
      /\ retries' = [retries EXCEPT ![owner[t]] = @ - 1]
      /\ UNCHANGED <<owner, outcome, nextTid>>
  BY DueFacts DEF TimeoutRetries, Purging, OutOfRetries
<1>2. /\ owner[t] \in Ctx /\ retries[owner[t]] \in Nat /\ sends[t] \in Nat
      /\ retries'[owner[t]] = retries[owner[t]] - 1
      /\ \A u \in keys \ {t} : owner[u] \in Ctx /\ owner[u] # owner[t]
      /\ \A u \in keys \ {t} : retries'[owner[u]] = retries[owner[u]]
  <2>1. \A u \in keys \ {t} : owner[u] \in Ctx /\ owner[u] # owner[t]
    BY <1>1, RunningFacts DEF Owned, NoneTwice
  <2>2. owner[t] \in Ctx
    BY <1>1 DEF Owned
  <2> QED BY <1>1, <2>1, <2>2 DEF CtxType, RequestType
<1>3. status[t] = "pending" /\ t < nextTid
  BY <1>1, StatusFacts, TidFacts
<1>4. CASE Transmit(t) /\ Reinsert(t) /\ UNCHANGED <<pc, exit, runs, base>>
  <2>1. /\ sends' = [sends EXCEPT ![t] = @ + 1] /\ sends'[t] = sends[t] + 1
        /\ \A u \in Tid \ {t} : sends'[u] = sends[u]
        /\ UNCHANGED <<keys, pc>>
    BY <1>4 DEF Transmit, Reinsert, RequestType
  <2>2. RpcInv'
    <3>1. ASSUME NEW u \in keys
          PROVE  /\ outcome'[u] = "none" /\ sends'[u] > 0
                 /\ sends'[u] + retries'[owner'[u]] = Retries + 1
      <4>1. CASE u = t
        BY <1>1, <1>2, <2>1, <4>1, MADScheduleAssumption DEF RpcInv
      <4>2. CASE u # t
        BY <1>1, <1>2, <2>1, <4>2 DEF RpcInv, TableType
      <4> QED BY <4>1, <4>2
    <3>2. \A u \in Tid : u >= nextTid => u # t
      BY <1>3, TidFacts, IdFacts
    <3> QED BY <1>1, <2>1, <3>1, <3>2 DEF RpcInv
  <2>3. status' = status
    BY <1>1, <1>2, <2>1 DEF status, RpcInv
  <2>4. sends[t] <= Retries
    BY <1>1, <1>2, MADScheduleAssumption DEF RpcInv
  <2>5. Rpc!Resend(t)
    BY <1>1, <1>3, <2>1, <2>3, <2>4 DEF Rpc!Resend
  <2> QED BY <2>2, <2>5 DEF Rpc!Next
<1>5. CASE /\ keys' = keys \ {rmatch[owner[t]]} /\ RunEnds("senderror")
           /\ UNCHANGED <<replyqueue, wire, sends>>
  <2>1. keys' = keys \ {t} /\ pc' = "idle" /\ UNCHANGED sends
    BY <1>1, <1>5 DEF RunEnds
  <2>2. RpcInv'
    BY <1>1, <1>2, <2>1 DEF RpcInv
  <2>3. status'[t] = "dropped"
    BY <1>1, <2>1 DEF status, RpcInv
  <2>4. status' = [u \in Tid |-> IF u \in {t} THEN "dropped" ELSE status[u]]
    BY <1>1, <2>1, <2>3, StatusChanges
  <2>5. {t} \in SUBSET Rpc!Pending
    BY <1>3 DEF Rpc!Pending
  <2>6. Rpc!End({t})
    BY <1>1, <2>1, <2>4 DEF Rpc!End, Rpc!Answer
  <2> QED BY <2>2, <2>5, <2>6 DEF Rpc!Next
<1> QED BY <1>4, <1>5 DEF TimeoutRetries

(* The steps of run() itself.                                              *)
LEMMA RefineRun ==
  ASSUME TypeInv, HomeInv, RpcInv, Run \/ \E t \in Tid : Receive(t)
  PROVE  RpcInv' /\ [Rpc!Next]_(Rpc!rpcVars)
<1>1. CASE TakeQueuedReply
  <2>1. CASE Last(replyqueue) \in keys
    BY <1>1, <2>1, RefineDispatch DEF TakeQueuedReply, ReadyForReply
  <2>2. CASE Last(replyqueue) \notin keys
    BY <1>1, <2>2, RpcSilent, StutterStep DEF TakeQueuedReply, Unexpected, ctxVars, runVars
  <2> QED BY <2>1, <2>2
<1>2. ASSUME NEW t \in Tid, Receive(t) PROVE RpcInv' /\ [Rpc!Next]_(Rpc!rpcVars)
  <2>1. CASE t \in keys
    BY <1>2, <2>1, RefineDispatch DEF Receive, ReadyForReply
  <2>2. CASE t \notin keys
    BY <1>2, <2>2, RpcSilent, StutterStep DEF Receive, Unexpected, ctxVars, runVars
  <2> QED BY <2>1, <2>2
<1>3. ASSUME NEW t \in Tid, TimeoutFails(t) PROVE RpcInv' /\ [Rpc!Next]_(Rpc!rpcVars)
  BY <1>3, RefineTimeoutFails
<1>4. ASSUME NEW t \in Tid, TimeoutRetries(t) PROVE RpcInv' /\ [Rpc!Next]_(Rpc!rpcVars)
  BY <1>4, RefineTimeoutRetries
<1>5. CASE FinishRun \/ \E t \in Tid : TimeoutKeyError(t)
  <2>1. pc # "idle" /\ pc' = "idle" /\ UNCHANGED <<keys, ctxVars, reqVars>>
    BY <1>5 DEF FinishRun, TimeoutKeyError, RunEnds, Looping, Purging
  <2> QED BY <2>1, RpcSilent, EndStep DEF ctxVars, reqVars
<1>6. CASE \/ (\E gen \in BOOLEAN : StartWork(gen)) \/ BeginLoop \/ StepQueued
           \/ \E S \in SUBSET timeouts : Wake(S)
  <2>1. pc # "idle" /\ pc' # "idle" /\ UNCHANGED <<keys, retries, reqVars>>
    BY <1>6 DEF StartWork, BeginLoop, StepQueued, Wake, ReadyForReply, Looping, runVars, ctxVars
  <2> QED BY <2>1, RpcSilent, StutterStep DEF reqVars
<1> QED BY <1>1, <1>2, <1>3, <1>4, <1>5, <1>6 DEF Run

(* run() begins: a Begin of MADRpc.                                        *)
LEMMA RefineStartRun ==
  ASSUME TypeInv, RpcInv, StartRun
  PROVE  RpcInv' /\ [Rpc!Next]_(Rpc!rpcVars)
<1>1. /\ pc = "idle" /\ pc' # "idle" /\ keys' = {}
      /\ UNCHANGED <<outcome, sends, nextTid>>
  BY DEF StartRun, reqVars
<1>2. RpcInv'
  BY <1>1 DEF RpcInv
<1>3. \A t \in Tid : status'[t] = IF t \in Rpc!Pending THEN "dropped" ELSE status[t]
  <2> SUFFICES ASSUME NEW t \in Tid
               PROVE  status'[t] = IF t \in Rpc!Pending THEN "dropped" ELSE status[t]
    OBVIOUS
  <2>1. t \in Rpc!Pending <=> t \in keys
    BY StatusFacts DEF Rpc!Pending
  <2>2. CASE t \in keys
    BY <1>1, <2>1, <2>2 DEF status, RpcInv
  <2>3. CASE t \notin keys
    BY <1>1, <2>1, <2>3 DEF status
  <2> QED BY <2>2, <2>3
<1>4. Rpc!Begin
  BY <1>1, <1>3, StatusFunction DEF Rpc!Begin, Rpc!Answer
<1> QED BY <1>2, <1>4 DEF Rpc!Next

(* Every step is one of MADRpc or none.                                    *)
LEMMA RefineNext ==
  TypeInv /\ HomeInv /\ RpcInv /\ [Next]_vars => RpcInv' /\ [Rpc!Next]_(Rpc!rpcVars)
<1> SUFFICES ASSUME TypeInv, HomeInv, RpcInv, [Next]_vars
             PROVE  RpcInv' /\ [Rpc!Next]_(Rpc!rpcVars)
  OBVIOUS
<1>1. CASE StartRun
  BY <1>1, RefineStartRun
<1>2. CASE Run \/ \E t \in Tid : Receive(t)
  BY <1>2, RefineRun
<1>3. ASSUME NEW c \in Ctx, Resume(c) \/ Park(c) \/ Body(c)
      PROVE  RpcInv' /\ [Rpc!Next]_(Rpc!rpcVars)
  BY <1>3, RefineActivation
<1>4. CASE UNCHANGED vars
  BY <1>4, RpcSilent, StutterStep DEF vars, runVars, ctxVars, reqVars
<1> QED BY <1>1, <1>2, <1>3, <1>4 DEF Next, Scheduler, Thread

(* MADSchedule implements MADRpc: at most 1 + retries transmissions of a   *)
(* request, one outcome, a timeout only after all of them (_sendMAD,       *)
(* _do_timeout and the dispatch in run()).                                 *)
THEOREM ImplementsRpc == Spec => RpcSpec
<1>1. Init => RpcInv /\ Rpc!Init
  BY DEF Init, RpcInv, Rpc!Init, status
<1> QED
  BY <1>1, RefineNext, HomeInit, HomeNext, TypeInit, TypeNext, PTL
  DEF Spec, RpcSpec, Rpc!Spec

-----------------------------------------------------------------------------
(* ResumedWithItsAnswer.                                                   *)

(* What a context holds at each place it can be in.  It is owed something  *)
(* only where it can be resumed from; while it waits or runs it holds      *)
(* nothing, and what it waits for is what it yielded.                      *)
Clean(c) == inbox[c] = Nothing /\ ~exc[c]
Suspended(c, kind, id) == at[c] = <<kind, id>> /\ Clean(c)

NotYetCreated(c) == c >= nextCtx => Suspended(c, "start", 0)
RunsClean(c) == c \in ToSet(stack) /\ ~AtTest(c) => Suspended(c, "running", 0)
AwaitsReply(c) == \A t \in keys : owner[t] = c => Suspended(c, "mad", t)
AwaitsContext(c) == \A d \in Ctx : c \in ToSet(waiters[d]) => Suspended(c, "ctx", d)
HoldsItsAnswer(c) == Resumable(c) => Owed(c)
YieldedContext(c) == at[c][1] = "ctx" => at[c][2] \in Ctx

Consistent(c) ==
  /\ NotYetCreated(c) /\ RunsClean(c) /\ AwaitsReply(c) /\ AwaitsContext(c)
  /\ HoldsItsAnswer(c) /\ YieldedContext(c)
ResultIsValue == result = Nothing \/ result = <<"value", 0>>
AnswerInv == ResultIsValue /\ \A c \in Ctx : Consistent(c)

-----------------------------------------------------------------------------
(* A context whose attributes stay, and which comes to no new place, stays *)
(* consistent: contexts that have finished stay finished.                  *)
NoNewPlace(b) ==
  /\ b >= nextCtx' => b >= nextCtx
  /\ b \in ToSet(stack') /\ ~AtTest(b)' => b \in ToSet(stack) /\ ~AtTest(b)
  /\ \A t \in keys' : owner'[t] = b => t \in keys /\ owner[t] = b
  /\ \A d \in Ctx : b \in ToSet(waiters'[d]) => b \in ToSet(waiters[d])
  /\ Resumable(b)' => Resumable(b)
SameAttributes(b) == at'[b] = at[b] /\ inbox'[b] = inbox[b] /\ exc'[b] = exc[b]
StayDone == \A d \in Ctx : done[d] => done'[d]

LEMMA OwedKept ==
  ASSUME NEW b \in Ctx, Owed(b), YieldedContext(b), SameAttributes(b), StayDone
  PROVE  Owed(b)'
<1>1. CASE at[b][1] = "ctx"
  BY <1>1 DEF Owed, YieldedContext, SameAttributes, StayDone
<1>2. CASE at[b][1] # "ctx"
  BY <1>2 DEF Owed, SameAttributes
<1> QED BY <1>1, <1>2

(* A context that is not touched holds what it held.                       *)
LEMMA Untouched ==
  ASSUME NEW b \in Ctx, Consistent(b), SameAttributes(b), StayDone, NoNewPlace(b)
  PROVE  Consistent(b)'
<1> USE DEF Consistent, NoNewPlace
<1>1. NotYetCreated(b)' /\ RunsClean(b)' /\ AwaitsReply(b)' /\ AwaitsContext(b)'
  BY DEF NotYetCreated, RunsClean, AwaitsReply, AwaitsContext, Suspended, Clean, SameAttributes
<1>2. HoldsItsAnswer(b)'
  BY OwedKept DEF HoldsItsAnswer
<1>3. YieldedContext(b)'
  BY DEF YieldedContext, SameAttributes
<1> QED BY <1>1, <1>2, <1>3

(* One context moves, the others stay.                                     *)
LEMMA OneMoves ==
  ASSUME AnswerInv, NEW c \in Ctx, Consistent(c)', ResultIsValue', StayDone,
         \A b \in Ctx \ {c} : SameAttributes(b) /\ NoNewPlace(b)
  PROVE  AnswerInv'
<1>1. ASSUME NEW b \in Ctx, b # c PROVE Consistent(b)'
  BY <1>1, Untouched DEF AnswerInv
<1> QED BY <1>1 DEF AnswerInv

(* A step that moves no context.                                           *)
LEMMA NoneMoves ==
  ASSUME AnswerInv, ResultIsValue', StayDone,
         \A b \in Ctx : SameAttributes(b) /\ NoNewPlace(b)
  PROVE  AnswerInv'
  BY Untouched DEF AnswerInv

(* The places of the context in its body, and of those that are not.       *)
LEMMA BodyFacts ==
  ASSUME TypeInv, HomeInv, AnswerInv, NEW c \in Ctx, InBody(c)
  PROVE  /\ stack # <<>> /\ c = Last(stack) /\ c \in ToSet(stack) /\ ~testing
         /\ c < nextCtx /\ c \in ThisRun /\ ~done[c]
         /\ c \notin ToSet(mqueue) /\ \A t \in keys : owner[t] # c
         /\ \A d \in Ctx : c \notin ToSet(waiters[d])
         /\ Suspended(c, "running", 0)
         /\ \A b \in Ctx : ~AtTest(b)
<1>1. stack # <<>> /\ c = Last(stack) /\ ~testing /\ \A b \in Ctx : ~AtTest(b)
  BY DEF InBody, AtTest
<1>2. /\ c \in ThisRun /\ ~done[c] /\ c \in ToSet(stack) /\ c \notin ToSet(mqueue)
      /\ c \notin InFlight /\ c \notin Waiting
  BY <1>1, TopFacts
<1>3. c < nextCtx
  <2>1. nextCtx \in Nat /\ base \in Nat
    BY MADScheduleAssumption DEF TypeInv, TypeOK, CtxType, RunType
  <2> QED BY <1>2, <2>1 DEF ThisRun
<1>4. Suspended(c, "running", 0)
  BY <1>1, <1>2 DEF AnswerInv, Consistent, RunsClean
<1> QED BY <1>1, <1>2, <1>3, <1>4 DEF InFlight, Waiting

(* _step goes round its loop with an answer at hand.                       *)
LEMMA AnswerLoopAgain ==
  ASSUME TypeInv, HomeInv, AnswerInv, NEW c \in Ctx, InBody(c), LoopAgain,
         UNCHANGED <<mqueue, keys, owner, waiters, nextCtx, done>>,
         \A b \in Ctx \ {c} : SameAttributes(b),
         Owed(c)', YieldedContext(c)', ResultIsValue'
  PROVE  AnswerInv'
<1>1. stack' = stack /\ testing' /\ c = Last(stack) /\ stack # <<>>
  BY BodyFacts DEF LoopAgain
<1>2. AtTest(c)' /\ \A b \in Ctx \ {c} : ~AtTest(b)'
  BY <1>1 DEF AtTest
<1>3. Consistent(c)'
  <2>1. ~(c >= nextCtx)
    BY BodyFacts, IdFacts, MADScheduleAssumption DEF TypeInv, TypeOK, CtxType
  <2>2. NotYetCreated(c)' /\ RunsClean(c)'
    BY <1>2, <2>1 DEF NotYetCreated, RunsClean
  <2>3. AwaitsReply(c)' /\ AwaitsContext(c)'
    BY BodyFacts DEF AwaitsReply, AwaitsContext
  <2> QED BY <2>2, <2>3 DEF Consistent, HoldsItsAnswer
<1>4. ASSUME NEW b \in Ctx \ {c} PROVE NoNewPlace(b)
  BY <1>1, <1>2, BodyFacts DEF NoNewPlace, Resumable
<1> QED BY <1>3, <1>4, OneMoves DEF StayDone

(* The context at its test is the innermost one, and is owed its answer.   *)
LEMMA AnswerResume ==
  ASSUME TypeInv, HomeInv, AnswerInv, NEW c \in Ctx, Resume(c)
  PROVE  AnswerInv'
<1> USE DEF TypeInv, TypeOK
<1>1. /\ stack # <<>> /\ testing /\ c = Last(stack) /\ ~testing'
      /\ UNCHANGED <<stack, mqueue, keys, owner, waiters, nextCtx, done, result>>
  BY DEF Resume, AtTest, reqVars
<1>2. /\ Suspended(c, "running", 0)'
      /\ \A b \in Ctx \ {c} : SameAttributes(b)
  BY DEF Resume, TakeInbox, Suspended, Clean, SameAttributes, CtxType
<1>3. \A b \in Ctx : ~AtTest(b)' /\ (b # c => ~AtTest(b))
  BY <1>1 DEF AtTest
<1>4. /\ c \in ThisRun /\ c \notin ToSet(mqueue) /\ c \notin InFlight /\ c \notin Waiting
  BY <1>1, TopFacts
<1>5. ~(c >= nextCtx)
  BY <1>4, MADScheduleAssumption DEF CtxType, RunType, ThisRun
<1>6. Consistent(c)'
  <2>1. NotYetCreated(c)' /\ RunsClean(c)'
    BY <1>1, <1>2, <1>5 DEF NotYetCreated, RunsClean
  <2>2. AwaitsReply(c)' /\ AwaitsContext(c)'
    BY <1>1, <1>4 DEF AwaitsReply, AwaitsContext, InFlight, Waiting
  <2>3. HoldsItsAnswer(c)' /\ YieldedContext(c)'
    BY <1>1, <1>2, <1>3, <1>4 DEF HoldsItsAnswer, Resumable, YieldedContext, Suspended
  <2> QED BY <2>1, <2>2, <2>3 DEF Consistent
<1>7. ASSUME NEW b \in Ctx \ {c} PROVE NoNewPlace(b)
  BY <1>1, <1>3 DEF NoNewPlace, Resumable
<1>8. ResultIsValue'
  BY <1>1 DEF AnswerInv, ResultIsValue
<1> QED BY <1>1, <1>2, <1>6, <1>7, <1>8, OneMoves DEF StayDone

(* The rest of the activations stay in their bodies when the innermost one *)
(* is left.                                                                *)
LEMMA LeavePlaces ==
  ASSUME TypeInv, HomeInv, stack # <<>>, Leave
  PROVE  /\ ToSet(stack') = ToSet(stack) \ {Last(stack)}
         /\ \A b \in Ctx : ~AtTest(b)'
         /\ \A b \in Ctx : b # Last(stack) => ~AtTest(b)
<1>1. ToSet(stack') = ToSet(stack) \ {Last(stack)}
  BY TopFacts, LeaveSets DEF TypeInv, TypeOK, NoneTwice
<1> QED BY <1>1 DEF Leave, AtTest

(* A context is parked with its answer.                                    *)
LEMMA AnswerPark ==
  ASSUME TypeInv, HomeInv, AnswerInv, NEW c \in Ctx, Park(c)
  PROVE  AnswerInv'
<1> USE DEF TypeInv, TypeOK
<1>1. /\ stack # <<>> /\ c = Last(stack) /\ AtTest(c) /\ Leave
      /\ mqueue' = Append(mqueue, c)
      /\ UNCHANGED <<keys, owner, waiters, nextCtx, done, result, at, inbox, exc>>
  BY DEF Park, AtTest, reqVars, ctxVars
<1>2. ToSet(mqueue') = ToSet(mqueue) \cup {c}
  BY <1>1, AppendFacts DEF TableType
<1>3. \A b \in Ctx : SameAttributes(b)
  BY <1>1 DEF SameAttributes
<1>4. ASSUME NEW b \in Ctx PROVE NoNewPlace(b)
  BY <1>1, <1>2, LeavePlaces DEF NoNewPlace, Resumable
<1>5. ResultIsValue'
  BY <1>1 DEF AnswerInv, ResultIsValue
<1> QED BY <1>1, <1>3, <1>4, <1>5, NoneMoves DEF StayDone

(* A new context is entered: it has yielded nothing and is owed nothing.   *)
LEMMA AnswerNewActivation ==
  ASSUME TypeInv, HomeInv, AnswerInv, NEW gen \in BOOLEAN, NewContext(gen, 0), Enter(nextCtx),
         stack = <<>> \/ ~testing,
         UNCHANGED <<base, mqueue, keys, owner, waiters, done, result, at, inbox, exc>>
  PROVE  AnswerInv'
<1> USE DEF TypeInv, TypeOK
<1>1. 0 < nextCtx /\ nextCtx \in Nat /\ nextCtx' = nextCtx + 1
  BY MADScheduleAssumption DEF CtxType, NewContext
<1>2. PICK n \in Ctx : n = nextCtx /\ n \notin Homes
  BY <1>1, NewContextFacts
<1>3. /\ ToSet(stack') = ToSet(stack) \cup {n} /\ stack' # <<>> /\ Last(stack') = n /\ testing'
  BY <1>2, AppendFacts DEF Enter, CallType
<1>4. \A b \in Ctx : ~AtTest(b) /\ (AtTest(b)' <=> b = n)
  BY <1>3 DEF AtTest
<1>5. \A b \in Ctx : SameAttributes(b) /\ b \in Nat
  BY IdFacts DEF SameAttributes
<1>6. Consistent(n)'
  <2>1. Suspended(n, "start", 0) /\ YieldedContext(n)
    BY <1>1, <1>2 DEF AnswerInv, Consistent, NotYetCreated
  <2>2. Owed(n)'
    BY <1>2, <2>1 DEF Owed, Suspended, Clean
  <2>3. /\ \A t \in keys : owner[t] # n
        /\ \A d \in Ctx : n \notin ToSet(waiters[d])
    BY <1>2 DEF Homes, InFlight, Waiting
  <2>4. NotYetCreated(n)' /\ RunsClean(n)' /\ AwaitsReply(n)' /\ AwaitsContext(n)'
    BY <1>1, <1>2, <1>4, <2>3 DEF NotYetCreated, RunsClean, AwaitsReply, AwaitsContext
  <2>5. HoldsItsAnswer(n)' /\ YieldedContext(n)'
    BY <2>1, <2>2 DEF HoldsItsAnswer, YieldedContext
  <2> QED BY <2>4, <2>5 DEF Consistent
<1>7. ASSUME NEW b \in Ctx \ {n} PROVE NoNewPlace(b)
  BY <1>1, <1>3, <1>4, <1>5 DEF NoNewPlace, Resumable
<1>8. ResultIsValue'
  BY DEF AnswerInv, ResultIsValue
<1> QED BY <1>2, <1>5, <1>6, <1>7, <1>8, OneMoves DEF StayDone

(* A generator yields a MAD: nothing is owed until its reply.              *)
LEMMA AnswerYieldMAD ==
  ASSUME TypeInv, HomeInv, AnswerInv, NEW c \in Ctx, YieldMAD(c)
  PROVE  AnswerInv'
<1> USE DEF TypeInv, TypeOK
<1>0. PICK n \in Tid : n = nextTid
  BY IdFacts DEF YieldMAD, RequestType
<1>1. /\ InBody(c) /\ at' = [at EXCEPT ![c] = <<"mad", n>>]
      /\ UNCHANGED <<mqueue, waiters, result, nextCtx, done, inbox>>
  BY <1>0 DEF YieldMAD
<1>2. ResultIsValue'
  BY <1>1 DEF AnswerInv, ResultIsValue
<1>3. CASE SendMAD(c) /\ Leave /\ UNCHANGED exc
  <2>1. /\ keys' = keys \cup {n} /\ n \notin keys
        /\ owner'[n] = c /\ \A t \in keys : owner'[t] = owner[t]
    <3>1. n \notin keys
      BY <1>0, TidFacts
    <3> QED BY <1>0, <1>1, <1>3, <3>1 DEF SendMAD, RequestType, TableType
  <2>2. /\ Suspended(c, "mad", n)'
        /\ \A b \in Ctx \ {c} : SameAttributes(b)
    BY <1>1, <1>3, BodyFacts DEF Suspended, Clean, SameAttributes, CtxType
  <2>3. /\ ToSet(stack') = ToSet(stack) \ {c} /\ \A b \in Ctx : ~AtTest(b)'
    BY <1>1, <1>3, BodyFacts, LeavePlaces
  <2>4. Consistent(c)'
    <3>1. ~(c >= nextCtx)
      BY <1>1, BodyFacts, IdFacts, MADScheduleAssumption, SMTT(60) DEF CtxType
    <3>2. NotYetCreated(c)' /\ RunsClean(c)'
      BY <1>1, <2>3, <3>1 DEF NotYetCreated, RunsClean
    <3>3. AwaitsReply(c)' /\ AwaitsContext(c)'
      BY <1>1, <2>1, <2>2, BodyFacts DEF AwaitsReply, AwaitsContext
    <3>4. HoldsItsAnswer(c)' /\ YieldedContext(c)'
      BY <1>1, <2>2, <2>3, BodyFacts
         DEF HoldsItsAnswer, Resumable, YieldedContext, Suspended
    <3> QED BY <3>2, <3>3, <3>4 DEF Consistent
  <2>5. ASSUME NEW b \in Ctx \ {c} PROVE NoNewPlace(b)
    BY <1>1, <2>1, <2>3, BodyFacts DEF NoNewPlace, Resumable
  <2> QED BY <1>1, <1>2, <2>2, <2>4, <2>5, OneMoves DEF StayDone
<1>4. CASE exc' = [exc EXCEPT ![c] = TRUE] /\ LoopAgain /\ UNCHANGED <<keys, owner>>
  <2>1. /\ at'[c] = <<"mad", n>> /\ exc'[c] = TRUE /\ inbox'[c] = Nothing
        /\ \A b \in Ctx \ {c} : SameAttributes(b)
    BY <1>1, <1>4, BodyFacts DEF Suspended, Clean, SameAttributes, CtxType
  <2>2. inbox'[c] # <<"reply", n>> /\ at'[c][1] = "mad" /\ at'[c][2] = n
    BY <2>1 DEF Nothing
  <2>3. YieldedContext(c)'
    BY <2>2 DEF YieldedContext
  <2>4. Owed(c)'
    BY <2>1, <2>2 DEF Owed
  <2> QED BY <1>1, <1>2, <1>4, <2>1, <2>3, <2>4, AnswerLoopAgain
<1> QED BY <1>3, <1>4 DEF YieldMAD

(* A generator yields a context.                                           *)
LEMMA AnswerYieldContext ==
  ASSUME TypeInv, HomeInv, AnswerInv, NEW c \in Ctx, NEW d \in base..(nextCtx - 1),
         YieldContext(c, d)
  PROVE  AnswerInv'
<1> USE DEF TypeInv, TypeOK
<1>1. /\ InBody(c)
      /\ UNCHANGED <<mqueue, keys, owner, result, nextCtx, done, inbox, exc>>
  BY DEF YieldContext, reqVars
<1>2. d \in Ctx
  BY MADScheduleAssumption DEF RunType, CtxType, Ctx
<1>3. /\ Suspended(c, "ctx", d)'
      /\ \A b \in Ctx \ {c} : SameAttributes(b)
  BY <1>1, BodyFacts DEF YieldContext, Suspended, Clean, SameAttributes, CtxType
<1>4. YieldedContext(c)'
  BY <1>2, <1>3 DEF YieldedContext, Suspended
<1>5. ResultIsValue'
  BY <1>1 DEF AnswerInv, ResultIsValue
<1>6. CASE ~MustWait(d) /\ LoopAgain /\ UNCHANGED waiters
  <2>1. Owed(c)'
    BY <1>1, <1>3, <1>6 DEF Owed, Suspended, Clean, MustWait
  <2> QED BY <1>1, <1>3, <1>4, <1>5, <1>6, <2>1, AnswerLoopAgain
<1>7. CASE waiters' = [waiters EXCEPT ![d] = Append(@, c)] /\ Leave
  <2>1. /\ ToSet(waiters'[d]) = ToSet(waiters[d]) \cup {c}
        /\ \A e \in Ctx : e # d => waiters'[e] = waiters[e]
    BY <1>2, <1>7, AppendFacts DEF TableType
  <2>2. /\ ToSet(stack') = ToSet(stack) \ {c} /\ \A b \in Ctx : ~AtTest(b)'
    BY <1>1, <1>7, BodyFacts, LeavePlaces
  <2>3. Consistent(c)'
    <3>1. ~(c >= nextCtx)
      BY <1>1, BodyFacts, IdFacts, MADScheduleAssumption, SMTT(60) DEF CtxType
    <3>2. NotYetCreated(c)' /\ RunsClean(c)' /\ AwaitsReply(c)'
      BY <1>1, <2>2, <3>1, BodyFacts DEF NotYetCreated, RunsClean, AwaitsReply
    <3>3. AwaitsContext(c)'
      BY <1>1, <1>3, <2>1, BodyFacts DEF AwaitsContext
    <3>4. HoldsItsAnswer(c)'
      BY <1>1, <2>2, BodyFacts DEF HoldsItsAnswer, Resumable
    <3> QED BY <1>4, <3>2, <3>3, <3>4 DEF Consistent
  <2>4. ASSUME NEW b \in Ctx \ {c} PROVE NoNewPlace(b)
    BY <1>1, <2>1, <2>2, BodyFacts DEF NoNewPlace, Resumable
  <2> QED BY <1>1, <1>3, <1>5, <2>3, <2>4, OneMoves DEF StayDone
<1> QED BY <1>6, <1>7 DEF YieldContext

(* A body that goes on at once gets what run() or its callee left for it.  *)
LEMMA AnswerGoesOn ==
  ASSUME TypeInv, HomeInv, AnswerInv, NEW c \in Ctx,
         YieldNone(c) \/ YieldCall(c) \/ ReturnToCaller(c) \/ RaiseToCaller(c)
  PROVE  AnswerInv'
<1> USE DEF TypeInv, TypeOK
<1>1. /\ InBody(c) /\ LoopAgain
      /\ UNCHANGED <<mqueue, keys, owner, waiters, nextCtx, done>>
  BY DEF YieldNone, YieldCall, ReturnToCaller, RaiseToCaller, reqVars
<1>2. Suspended(c, "running", 0) /\ (result = Nothing \/ result = <<"value", 0>>)
  BY <1>1, BodyFacts DEF AnswerInv, ResultIsValue
<1>3. ResultIsValue'
  BY <1>2 DEF YieldNone, YieldCall, ReturnToCaller, RaiseToCaller, ResultIsValue
<1>4. \A b \in Ctx \ {c} : SameAttributes(b)
  BY DEF YieldNone, YieldCall, ReturnToCaller, RaiseToCaller, SameAttributes, CtxType
<1>5. CASE YieldCall(c)
  <2>1. at'[c] = <<"start", 0>> /\ inbox'[c] = Nothing /\ ~exc'[c]
    BY <1>2, <1>5 DEF YieldCall, Suspended, Clean, CtxType
  <2>2. Owed(c)' /\ YieldedContext(c)'
    BY <2>1 DEF Owed, YieldedContext
  <2> QED BY <1>1, <1>3, <1>4, <2>2, AnswerLoopAgain
<1>6. CASE YieldNone(c) \/ ReturnToCaller(c)
  <2>1. /\ at'[c] = <<"none", 0>> \/ at'[c] = <<"call", 0>>
        /\ inbox'[c] = result /\ ~exc'[c]
    BY <1>2, <1>6 DEF YieldNone, ReturnToCaller, Suspended, Clean, CtxType
  <2>2. Owed(c)' /\ YieldedContext(c)'
    BY <1>2, <2>1 DEF Owed, YieldedContext
  <2> QED BY <1>1, <1>3, <1>4, <2>2, AnswerLoopAgain
<1>7. CASE RaiseToCaller(c)
  <2>1. at'[c] = <<"call", 0>> /\ inbox'[c] = Nothing
    BY <1>2, <1>7 DEF RaiseToCaller, Suspended, Clean, CtxType
  <2>2. Owed(c)' /\ YieldedContext(c)'
    BY <2>1 DEF Owed, YieldedContext
  <2> QED BY <1>1, <1>3, <1>4, <2>2, AnswerLoopAgain
<1> QED BY <1>5, <1>6, <1>7

(* A generator that spawns goes to _mqueue with its child's context, and   *)
(* the child starts.                                                       *)
LEMMA AnswerYieldSpawn ==
  ASSUME TypeInv, HomeInv, AnswerInv, NEW c \in Ctx, YieldSpawn(c)
  PROVE  AnswerInv'
<1> USE DEF TypeInv, TypeOK
<1>1. /\ InBody(c) /\ NewContext(FALSE, c) /\ testing'
      /\ mqueue' = Append(mqueue, c) /\ stack' = Append(Front(stack), nextCtx)
      /\ UNCHANGED <<base, keys, owner, waiters, done, result, exc>>
  BY DEF YieldSpawn, runVars, reqVars
<1>2. nextCtx \in Nat /\ nextCtx' = nextCtx + 1 /\ c < nextCtx /\ c \in Nat
  BY <1>1, BodyFacts, IdFacts, MADScheduleAssumption DEF CtxType, NewContext
<1>3. PICK n \in Ctx : n = nextCtx /\ n \notin Homes
  BY <1>1, <1>2, NewContextFacts
<1>4. n # c /\ n \notin ToSet(stack)
  BY <1>1, <1>3, BodyFacts DEF Homes
<1>5. /\ inbox'[c] = <<"child", n>> /\ at'[c] = <<"spawn", n>> /\ ~exc'[c]
      /\ \A b \in Ctx \ {c} : SameAttributes(b)
  BY <1>1, <1>3, BodyFacts DEF YieldSpawn, Suspended, Clean, SameAttributes, CtxType
<1>6. /\ ToSet(stack') = (ToSet(stack) \ {c}) \cup {n}
      /\ stack' # <<>> /\ Last(stack') = n
  <2>1. Front(stack) \in Seq(Ctx) /\ ToSet(Front(stack)) = ToSet(stack) \ {c}
    BY <1>1, BodyFacts, TopFacts, FrontFacts, SMTT(60) DEF CallType, NoneTwice
  <2> QED BY <1>1, <1>3, <2>1, AppendFacts
<1>7. ToSet(mqueue') = ToSet(mqueue) \cup {c}
  BY <1>1, AppendFacts DEF TableType
<1>8. \A b \in Ctx : ~AtTest(b) /\ (AtTest(b)' <=> b = n)
  BY <1>1, <1>6, BodyFacts DEF AtTest
<1>9. Consistent(c)'
  <2>1. NotYetCreated(c)' /\ RunsClean(c)'
    BY <1>2, <1>4, <1>6 DEF NotYetCreated, RunsClean
  <2>2. AwaitsReply(c)' /\ AwaitsContext(c)'
    BY <1>1, BodyFacts DEF AwaitsReply, AwaitsContext
  <2>3. HoldsItsAnswer(c)' /\ YieldedContext(c)'
    BY <1>5 DEF HoldsItsAnswer, Owed, YieldedContext
  <2> QED BY <2>1, <2>2, <2>3 DEF Consistent
<1>10. Consistent(n)'
  <2>1. Suspended(n, "start", 0)' /\ YieldedContext(n)'
    <3>1. Suspended(n, "start", 0) /\ YieldedContext(n)
      BY <1>2, <1>3 DEF AnswerInv, Consistent, NotYetCreated
    <3> QED BY <1>4, <1>5, <3>1 DEF Suspended, Clean, SameAttributes, YieldedContext
  <2>2. Owed(n)'
    BY <2>1 DEF Owed, Suspended, Clean
  <2>3. /\ \A t \in keys : owner[t] # n
        /\ \A d \in Ctx : n \notin ToSet(waiters[d])
    BY <1>3 DEF Homes, InFlight, Waiting
  <2>4. NotYetCreated(n)' /\ RunsClean(n)' /\ AwaitsReply(n)' /\ AwaitsContext(n)'
    BY <1>1, <1>2, <1>3, <1>8, <2>3 DEF NotYetCreated, RunsClean, AwaitsReply, AwaitsContext
  <2> QED BY <2>1, <2>2, <2>4 DEF Consistent, HoldsItsAnswer
<1>11. ASSUME NEW b \in Ctx \ {c, n} PROVE Consistent(b)'
  <2>1. b \in Nat
    BY IdFacts
  <2>2. NoNewPlace(b)
    BY <1>1, <1>2, <1>6, <1>7, <1>8, <2>1 DEF NoNewPlace, Resumable
  <2> QED BY <1>1, <1>5, <2>2, Untouched DEF AnswerInv, StayDone
<1>12. ResultIsValue'
  BY <1>1 DEF AnswerInv, ResultIsValue
<1> QED BY <1>9, <1>10, <1>11, <1>12 DEF AnswerInv

(* _finish_ctx wakes the contexts that wait for c or for its exhausted     *)
(* parent: both are done.                                                  *)
LEMMA FinishWakes ==
  ASSUME TypeInv, NEW c \in Ctx, Finish(c), NEW b \in ToSet(mqueue'), b \notin ToSet(mqueue)
  PROVE  \E d \in Ctx : b \in ToSet(waiters[d]) /\ done'[d]
<1> USE DEF TypeInv, TypeOK
<1> DEFINE S == Complete(c)
<1>1. \A d \in S : d \in Ctx /\ done'[d]
  BY DEF Complete, Finish, ParentFinishes, CtxType
<1> HIDE DEF S
<1>2. ASSUME NEW d
      PROVE  /\ WaitersOf(d, S) \in Seq(Ctx)
             /\ \A e \in ToSet(WaitersOf(d, S)) : d \in S /\ e \in ToSet(waiters[d])
  <2>1. CASE d \in S
    BY <1>1, <2>1, ReverseFacts DEF WaitersOf, TableType
  <2>2. CASE d \notin S
    BY <2>2, EmptyFacts DEF WaitersOf
  <2> QED BY <2>1, <2>2
<1>3. mqueue' = WaitersOf(c, S) \o WaitersOf(parent[c], S) \o mqueue
  BY DEF Finish, S
<1>4. b \in ToSet(WaitersOf(c, S)) \/ b \in ToSet(WaitersOf(parent[c], S))
  <2>1. WaitersOf(c, S) \in Seq(Ctx) /\ WaitersOf(parent[c], S) \in Seq(Ctx)
    BY <1>2
  <2>2. /\ WaitersOf(c, S) \o WaitersOf(parent[c], S) \in Seq(Ctx)
        /\ ToSet(WaitersOf(c, S) \o WaitersOf(parent[c], S))
             = ToSet(WaitersOf(c, S)) \cup ToSet(WaitersOf(parent[c], S))
    BY <2>1, ConcatFacts
  <2>3. PICK w \in Seq(Ctx) : w = WaitersOf(c, S) \o WaitersOf(parent[c], S)
    BY <2>2
  <2>4. mqueue \in Seq(Ctx) /\ mqueue' = w \o mqueue
    BY <1>3, <2>3 DEF TableType
  <2>5. ToSet(mqueue') = ToSet(w) \cup ToSet(mqueue)
    BY <2>4, ConcatFacts
  <2> QED BY <2>2, <2>3, <2>5
<1> QED BY <1>1, <1>2, <1>4

(* A context finishes, and its result goes to those that wait.             *)
LEMMA AnswerFinish ==
  ASSUME TypeInv, HomeInv, AnswerInv, NEW c \in Ctx, InBody(c), Finish(c), Leave,
         UNCHANGED <<keys, owner, nextCtx, result, at, inbox, exc>>
  PROVE  AnswerInv'
<1> USE DEF TypeInv, TypeOK
<1>1. /\ ToSet(stack') \subseteq ToSet(stack)
      /\ \A b \in Ctx : ~AtTest(b) /\ ~AtTest(b)'
      /\ \A b \in Ctx : b # c => ~AtTest(b)
  BY BodyFacts, LeavePlaces
<1>2. \A d \in Ctx : waiters'[d] = <<>> \/ waiters'[d] = waiters[d]
  BY DEF Finish, ForgetWaiters
<1>3. \A b \in Ctx : SameAttributes(b)
  BY DEF SameAttributes
<1>4. StayDone
  BY DEF StayDone, Finish, CtxType
<1>5. ASSUME NEW b \in Ctx PROVE Consistent(b)'
  <2>1. /\ b \in ToSet(stack') /\ ~AtTest(b)' => b \in ToSet(stack) /\ ~AtTest(b)
        /\ \A d \in Ctx : b \in ToSet(waiters'[d]) => b \in ToSet(waiters[d])
    BY <1>1, <1>2, EmptyFacts
  <2>2. CASE b \in ToSet(mqueue') => b \in ToSet(mqueue)
    <3>1. NoNewPlace(b)
      BY <1>1, <2>1, <2>2 DEF NoNewPlace, Resumable
    <3> QED BY <1>3, <1>4, <3>1, Untouched DEF AnswerInv
  <2>3. CASE b \in ToSet(mqueue') /\ b \notin ToSet(mqueue)
    <3>1. PICK d \in Ctx : b \in ToSet(waiters[d]) /\ done'[d]
      BY <2>3, FinishWakes
    <3>2. Suspended(b, "ctx", d)'
      BY <3>1 DEF AnswerInv, Consistent, AwaitsContext, Suspended, Clean
    <3>3. Owed(b)'
      BY <3>1, <3>2 DEF Owed, Suspended, Clean
    <3>4. NotYetCreated(b)' /\ RunsClean(b)' /\ AwaitsReply(b)' /\ AwaitsContext(b)'
      BY <2>1, <1>3 DEF AnswerInv, Consistent, NotYetCreated, RunsClean, AwaitsReply,
                        AwaitsContext, Suspended, Clean
    <3>5. YieldedContext(b)'
      BY <3>2 DEF YieldedContext, Suspended
    <3> QED BY <3>3, <3>4, <3>5 DEF Consistent, HoldsItsAnswer
  <2> QED BY <2>2, <2>3
<1> QED BY <1>5 DEF AnswerInv, ResultIsValue

(* The steps of an activation of _step.                                    *)
LEMMA AnswerActivation ==
  ASSUME TypeInv, HomeInv, AnswerInv, NEW c \in Ctx, Resume(c) \/ Park(c) \/ Body(c)
  PROVE  AnswerInv'
<1>1. ASSUME NEW gen \in BOOLEAN, Queue(c, gen) PROVE AnswerInv'
  <2>1. UNCHANGED <<base, mqueue, keys, owner, waiters, done, result, at, inbox, exc>> /\ ~testing
    BY <1>1 DEF Queue, InBody, runVars, reqVars
  <2> QED BY <1>1, <2>1, AnswerNewActivation DEF Queue
<1>2. CASE SetResult(c)
  <2>1. /\ UNCHANGED <<stack, testing, mqueue, keys, owner, waiters, nextCtx, done, at, inbox, exc>>
        /\ result' = <<"value", 0>>
    BY <1>2 DEF SetResult, callVars, ctxVars, reqVars
  <2>2. \A b \in Ctx : SameAttributes(b) /\ NoNewPlace(b)
    BY <2>1 DEF SameAttributes, NoNewPlace, Resumable, AtTest
  <2> QED BY <2>1, <2>2, NoneMoves DEF ResultIsValue, StayDone
<1>3. ASSUME NEW d \in base..(nextCtx - 1), YieldContext(c, d) PROVE AnswerInv'
  BY <1>3, AnswerYieldContext
<1>4. CASE Return(c) \/ Raise(c)
  <2>1. /\ InBody(c) /\ Finish(c) /\ Leave
        /\ UNCHANGED <<keys, owner, nextCtx, result, at, inbox, exc>>
    BY <1>4 DEF Return, Raise, reqVars
  <2> QED BY <2>1, AnswerFinish
<1> QED
  BY <1>1, <1>2, <1>3, <1>4, AnswerResume, AnswerPark, AnswerYieldMAD, AnswerGoesOn,
     AnswerYieldSpawn
  DEF Body

-----------------------------------------------------------------------------
(* The steps of run().                                                     *)

(* A context that enters an empty stack leaves the place it was in.        *)
LEMMA AnswerEnters ==
  ASSUME TypeInv, HomeInv, AnswerInv, NEW c \in Ctx, pc # "idle", stack = <<>>, Enter(c),
         keys' \subseteq keys, UNCHANGED <<owner, waiters, nextCtx, done, result>>,
         c \in ToSet(mqueue) \cup InFlight, ToSet(mqueue') \subseteq ToSet(mqueue),
         \A t \in keys' : owner[t] # c,
         \A b \in Ctx \ {c} : SameAttributes(b),
         Owed(c)', YieldedContext(c)'
  PROVE  AnswerInv'
<1> USE DEF TypeInv, TypeOK
<1>1. /\ c \in ThisRun /\ c \notin Waiting
  BY RunningFacts DEF Homes, HomesApart
<1>2. ~(c >= nextCtx)
  BY <1>1, MADScheduleAssumption DEF CtxType, RunType, ThisRun
<1>3. /\ ToSet(stack') = {c} /\ stack' # <<>> /\ Last(stack') = c /\ testing'
      /\ ToSet(stack) = {}
  <2>1. stack \in Seq(Ctx) /\ stack' = Append(stack, c) /\ testing'
    BY DEF Enter, CallType
  <2>2. ToSet(stack) = {}
    BY EmptyFacts
  <2>3. \A s \in Seq(Ctx) : /\ ToSet(Append(s, c)) = ToSet(s) \cup {c}
                            /\ Append(s, c) # <<>> /\ Last(Append(s, c)) = c
    BY AppendFacts
  <2> QED BY <2>1, <2>2, <2>3, Zenon
<1>4. \A b \in Ctx : ~AtTest(b) /\ (AtTest(b)' <=> b = c)
  BY <1>3 DEF AtTest
<1>5. Consistent(c)'
  <2>1. NotYetCreated(c)' /\ RunsClean(c)'
    BY <1>2, <1>4 DEF NotYetCreated, RunsClean
  <2>2. AwaitsReply(c)' /\ AwaitsContext(c)'
    BY <1>1 DEF AwaitsReply, AwaitsContext, Waiting
  <2> QED BY <2>1, <2>2 DEF Consistent, HoldsItsAnswer
<1>6. ASSUME NEW b \in Ctx \ {c} PROVE NoNewPlace(b)
  BY <1>3, <1>4 DEF NoNewPlace, Resumable
<1>7. ResultIsValue'
  BY DEF AnswerInv, ResultIsValue
<1> QED BY <1>5, <1>6, <1>7, OneMoves DEF StayDone

(* A parked context is resumed with what it was parked with.               *)
LEMMA AnswerStepQueued ==
  ASSUME TypeInv, HomeInv, AnswerInv, StepQueued
  PROVE  AnswerInv'
<1> USE DEF TypeInv, TypeOK
<1>1. /\ pc # "idle" /\ stack = <<>> /\ mqueue # <<>> /\ mqueue' = Front(mqueue)
      /\ Enter(Last(mqueue))
      /\ UNCHANGED <<keys, owner, waiters, nextCtx, done, result, at, inbox, exc>>
  BY DEF StepQueued, Looping, ctxVars, reqVars
<1>2. /\ Last(mqueue) \in Ctx /\ Last(mqueue) \in ToSet(mqueue)
      /\ ToSet(mqueue') \subseteq ToSet(mqueue)
  <2>1. mqueue \in Seq(Ctx) /\ mqueue # <<>>
    BY <1>1 DEF TableType
  <2> QED BY <1>1, <2>1, FrontFacts
<1>3. PICK c \in Ctx : c = Last(mqueue)
  BY <1>2
<1>4. \A t \in keys : owner[t] # c
  BY <1>1, <1>2, <1>3, RunningFacts DEF HomesApart, InFlight
<1>5. Owed(c) /\ YieldedContext(c)
  BY <1>2, <1>3 DEF AnswerInv, Consistent, HoldsItsAnswer, Resumable
<1>6. Owed(c)' /\ YieldedContext(c)' /\ \A b \in Ctx : SameAttributes(b)
  BY <1>1, <1>5 DEF Owed, YieldedContext, SameAttributes
<1> QED BY <1>1, <1>2, <1>3, <1>4, <1>6, AnswerEnters

(* A reply or an exception for the request in flight.                      *)
LEMMA AnswerAnswered ==
  ASSUME TypeInv, HomeInv, AnswerInv, pc # "idle", stack = <<>>, NEW t \in keys,
         Enter(owner[t]), keys' = keys \ {t},
         \/ inbox' = [inbox EXCEPT ![owner[t]] = <<"reply", t>>] /\ UNCHANGED exc
         \/ exc' = [exc EXCEPT ![owner[t]] = TRUE] /\ UNCHANGED inbox,
         UNCHANGED <<owner, waiters, nextCtx, done, result, mqueue, at>>
  PROVE  AnswerInv'
<1> USE DEF TypeInv, TypeOK
<1>1. PICK c \in Ctx : c = owner[t]
  BY DEF Owned
<1>2. c \in InFlight /\ \A u \in keys' : owner[u] # c
  BY <1>1, RunningFacts DEF InFlight, NoneTwice
<1>3. Suspended(c, "mad", t)
  BY <1>1 DEF AnswerInv, Consistent, AwaitsReply
<1>4. /\ at'[c] = <<"mad", t>> /\ exc'[c] \in BOOLEAN
      /\ \/ inbox'[c] = <<"reply", t>> /\ ~exc'[c]
         \/ inbox'[c] = Nothing /\ exc'[c]
      /\ \A b \in Ctx \ {c} : SameAttributes(b)
  BY <1>1, <1>3 DEF Suspended, Clean, SameAttributes, CtxType
<1>5. /\ at'[c][1] = "mad" /\ at'[c][2] = t
      /\ \/ inbox'[c] = <<"reply", t>> /\ ~exc'[c]
         \/ inbox'[c] # <<"reply", t>> /\ exc'[c]
  BY <1>4 DEF Nothing
<1>6. Owed(c)' /\ YieldedContext(c)'
  BY <1>4, <1>5 DEF Owed, YieldedContext
<1> QED BY <1>1, <1>2, <1>4, <1>6, AnswerEnters

(* Steps that resume nobody.                                               *)
LEMMA AnswerSilent ==
  ASSUME AnswerInv, UNCHANGED <<owner, nextCtx, done, result, at, inbox, exc>>,
         UNCHANGED <<stack, testing>>, keys' \subseteq keys,
         UNCHANGED mqueue \/ mqueue' = <<>>,
         UNCHANGED waiters \/ waiters' = [c \in Ctx |-> <<>>]
  PROVE  AnswerInv'
<1>1. \A b \in Ctx : SameAttributes(b) /\ (AtTest(b)' <=> AtTest(b))
  BY DEF SameAttributes, AtTest
<1>2. ASSUME NEW b \in Ctx PROVE NoNewPlace(b)
  BY <1>1, EmptyFacts DEF NoNewPlace, Resumable
<1>3. ResultIsValue'
  BY DEF AnswerInv, ResultIsValue
<1> QED BY <1>1, <1>2, <1>3, NoneMoves DEF StayDone

(* The steps of run() itself.                                              *)
LEMMA AnswerRun ==
  ASSUME TypeInv, HomeInv, AnswerInv, Run \/ \E t \in Tid : Receive(t)
  PROVE  AnswerInv'
<1>1. ASSUME NEW gen \in BOOLEAN, StartWork(gen) PROVE AnswerInv'
  <2>1. UNCHANGED <<base, mqueue, keys, owner, waiters, done, result, at, inbox, exc>>
        /\ stack = <<>>
    BY <1>1 DEF StartWork, reqVars
  <2> QED BY <1>1, <2>1, AnswerNewActivation DEF StartWork
<1>2. CASE BeginLoop \/ FinishRun \/ \E S \in SUBSET timeouts : Wake(S)
  BY <1>2, AnswerSilent DEF BeginLoop, FinishRun, Wake, callVars, ctxVars, reqVars
<1>3. CASE StepQueued
  BY <1>3, AnswerStepQueued
<1>4. ASSUME Looping, NEW t \in keys, Dispatch(t) PROVE AnswerInv'
  BY <1>4, AnswerAnswered DEF Looping, Dispatch, Forget
<1>5. ASSUME Unexpected PROVE AnswerInv'
  BY <1>5, AnswerSilent DEF Unexpected, callVars, ctxVars
<1>6. CASE TakeQueuedReply \/ \E t \in Tid : Receive(t)
  BY <1>4, <1>5, <1>6 DEF TakeQueuedReply, Receive, ReadyForReply
<1>7. ASSUME NEW t \in Tid, TimeoutFails(t) PROVE AnswerInv'
  <2>1. rmatch[owner[t]] = t /\ t \in keys
    BY <1>7, DueFacts DEF TimeoutFails, Purging
  <2> QED BY <1>7, <2>1, AnswerAnswered DEF TimeoutFails, Purging
<1>8. ASSUME NEW t \in Tid, TimeoutRetries(t) \/ TimeoutKeyError(t) PROVE AnswerInv'
  <2>1. /\ UNCHANGED <<owner, nextCtx, done, result, at, inbox, exc, stack, testing, mqueue,
                       waiters>>
        /\ keys' \subseteq keys
    BY <1>8 DEF TimeoutRetries, TimeoutKeyError, Reinsert, callVars, ctxVars, reqVars
  <2> QED BY <2>1, AnswerSilent
<1> QED BY <1>1, <1>2, <1>3, <1>6, <1>7, <1>8 DEF Run

(* Every step keeps AnswerInv.                                             *)
LEMMA AnswerNext == TypeInv /\ HomeInv /\ AnswerInv /\ [Next]_vars => AnswerInv'
<1> SUFFICES ASSUME TypeInv, HomeInv, AnswerInv, [Next]_vars PROVE AnswerInv'
  OBVIOUS
<1>1. CASE StartRun
  BY <1>1, AnswerSilent DEF StartRun, callVars, ctxVars, reqVars
<1>2. CASE Run \/ \E t \in Tid : Receive(t)
  BY <1>2, AnswerRun
<1>3. ASSUME NEW c \in Ctx, Resume(c) \/ Park(c) \/ Body(c) PROVE AnswerInv'
  BY <1>3, AnswerActivation
<1>4. CASE UNCHANGED vars
  BY <1>4, AnswerSilent DEF vars, callVars, ctxVars, reqVars
<1> QED BY <1>1, <1>2, <1>3, <1>4 DEF Next, Scheduler, Thread

(* Nobody is owed an answer at first.                                      *)
LEMMA AnswerInit == Init => AnswerInv
<1> SUFFICES ASSUME Init PROVE AnswerInv
  OBVIOUS
<1>1. ASSUME NEW c \in Ctx PROVE Consistent(c)
  <2>1. Suspended(c, "start", 0) /\ at[c][1] = "start"
    BY DEF Init, Suspended, Clean
  <2>2. stack = <<>> /\ mqueue = <<>> /\ keys = {} /\ \A d \in Ctx : waiters[d] = <<>>
    BY DEF Init
  <2>3. ~Resumable(c) /\ c \notin ToSet(stack) /\ \A d \in Ctx : c \notin ToSet(waiters[d])
    BY <2>2, EmptyFacts DEF Resumable, AtTest
  <2> QED BY <2>1, <2>2, <2>3 DEF Consistent, NotYetCreated, RunsClean, AwaitsReply,
                                  AwaitsContext, HoldsItsAnswer, YieldedContext
<1> QED BY <1>1 DEF AnswerInv, ResultIsValue, Init

(* Whatever was sent, queued, parked, retried or timed out in between, a   *)
(* generator is resumed with the answer to what it last yielded (_step and *)
(* the two places of run() that set what it is sent).                      *)
THEOREM AnswersReachTheirYield == Spec => []ResumedWithItsAnswer
<1>1. TypeInv /\ AnswerInv => ResumedWithItsAnswer
  <2> SUFFICES ASSUME TypeInv, AnswerInv, NEW c \in ThisRun, Resumable(c) PROVE Owed(c)
    BY DEF ResumedWithItsAnswer
  <2>1. c \in Ctx
    BY MADScheduleAssumption DEF TypeInv, TypeOK, RunType, CtxType, ThisRun, Ctx
  <2> QED BY <2>1 DEF AnswerInv, Consistent, HoldsItsAnswer
<1> QED
  BY <1>1, AnswerInit, AnswerNext, HomeInit, HomeNext, TypeInit, TypeNext, PTL DEF Spec
=============================================================================
