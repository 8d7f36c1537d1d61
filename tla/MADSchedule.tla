---------------------------- MODULE MADSchedule ----------------------------
(***************************************************************************)
(* The parallel MAD scheduler of rdma/sched.py.                            *)
(*                                                                         *)
(* Coroutines (Python generators) yield the MADs they want sent, other     *)
(* coroutines they call, or contexts they wait on; the scheduler bounds    *)
(* the MADs in flight, matches replies to requests, retries and times out. *)
(* Everything runs in one thread, but the calls nest: a coroutine's body   *)
(* may call queue() or mqueue(), which run another coroutine at once, so a *)
(* stack of _step activations is part of the state.                        *)
(*                                                                         *)
(* The body of a coroutine is nondeterministic: between two yields it may  *)
(* do anything the scheduler's interface offers.                           *)
(***************************************************************************)
EXTENDS Integers, SequencesExt

CONSTANTS
  MaxOutstanding,  \* MADSchedule.max_outstanding
  Retries,         \* path.retries, the same for every request
  MaxCtx,          \* bound: Context objects ever created
  MaxTid,          \* bound: MADs ever prepared (one transaction ID each)
  MaxNest,         \* bound: nested activations of _step
  MaxDepth,        \* bound: length of a context's _opstack
  MaxRuns          \* bound: calls of run()

ASSUME MADScheduleAssumption ==
  /\ MaxOutstanding \in Nat \ {0}
  /\ Retries \in Nat
  /\ MaxCtx \in Nat \ {0}
  /\ MaxTid \in Nat \ {0}
  /\ MaxNest \in Nat \ {0}
  /\ MaxDepth \in Nat
  /\ MaxRuns \in Nat

Ctx == 1..MaxCtx
Tid == 1..MaxTid

(* What a resumed generator receives, and what it is suspended at: a kind  *)
(* and the request or context concerned, 0 when there is none.             *)
Result == {"none", "reply", "child", "value"} \X Nat
Point == {"start", "mad", "call", "spawn", "ctx", "none", "running"} \X Nat
Nothing == <<"none", 0>>

VARIABLES
  (* run() *)
  pc,          \* "idle", "starting" (its queue and mqueue arguments), "looping"
  due,         \* timed out entries this purge has still to process
  exit,        \* how the last run() ended
  runs,        \* number of run() calls so far
  base,        \* first context of the current run
  (* the activations of _step *)
  stack,       \* their contexts, innermost last
  testing,     \* the innermost one is at its while test, not in the body
  (* the attributes of MADSchedule *)
  mqueue, keys, timeouts, replyqueue, waiters, result,
  (* the attributes of Context *)
  nextCtx, isGen, parent, children, done, depth, inbox, exc, at, rmatch, retries,
  (* the requests and the network *)
  nextTid,     \* UMAD._get_new_TID
  owner,       \* the context in the request's entry of _keys and _timeouts
  wire,        \* replies the network may still deliver
  sends,       \* history: transmissions of the request
  outcome      \* history: what the request was answered with

runVars == <<pc, due, exit, runs, base>>
callVars == <<stack, testing>>
ctxVars == <<nextCtx, isGen, parent, children, done, depth, inbox, exc, at, rmatch, retries>>
reqVars == <<nextTid, owner, wire, sends, outcome>>
vars == <<runVars, callVars, mqueue, keys, timeouts, replyqueue, waiters, result,
          ctxVars, reqVars>>

Init ==
  /\ pc = "idle" /\ due = {} /\ exit = "none" /\ runs = 0 /\ base = 1
  /\ stack = <<>> /\ testing = FALSE
  /\ mqueue = <<>> /\ keys = {} /\ timeouts = {} /\ replyqueue = <<>>
  /\ waiters = [c \in Ctx |-> <<>>] /\ result = Nothing
  /\ nextCtx = 1 /\ isGen = [c \in Ctx |-> FALSE] /\ parent = [c \in Ctx |-> 0]
  /\ children = [c \in Ctx |-> {}] /\ done = [c \in Ctx |-> FALSE]
  /\ depth = [c \in Ctx |-> 0] /\ inbox = [c \in Ctx |-> Nothing]
  /\ exc = [c \in Ctx |-> FALSE] /\ at = [c \in Ctx |-> <<"start", 0>>]
  /\ rmatch = [c \in Ctx |-> 0] /\ retries = [c \in Ctx |-> 0]
  /\ nextTid = 1 /\ owner = [t \in Tid |-> 0] /\ wire = [t \in Tid |-> 0]
  /\ sends = [t \in Tid |-> 0] /\ outcome = [t \in Tid |-> "none"]

-----------------------------------------------------------------------------
(* Activations of _step.                                                   *)

HasRoom_Mutant == Cardinality(keys) <= MaxOutstanding
HasRoom == Cardinality(keys) < MaxOutstanding
AtTest(c) == stack # <<>> /\ testing /\ c = Last(stack)
InBody(c) == stack # <<>> /\ ~testing /\ c = Last(stack)

Enter(c) == stack' = Append(stack, c) /\ testing' = TRUE
Leave == stack' = Front(stack) /\ testing' = FALSE
LoopAgain == testing' = TRUE /\ UNCHANGED stack

(* An exception that leaves the outermost activation leaves run() too.     *)
RunEnds(how) == pc' = "idle" /\ exit' = how /\ due' = {} /\ UNCHANGED <<runs, base>>

(* ctx._result is read once.                                               *)
TakeInbox_Mutant(c) == c \in Ctx /\ UNCHANGED inbox
TakeInbox(c) == inbox' = [inbox EXCEPT ![c] = Nothing]

(* The while test passes: resume the generator with what it is owed.       *)
Resume(c) ==
  /\ AtTest(c) /\ HasRoom
  /\ testing' = FALSE
  /\ TakeInbox(c)
  /\ exc' = [exc EXCEPT ![c] = FALSE]
  /\ at' = [at EXCEPT ![c] = <<"running", 0>>]
  /\ UNCHANGED <<runVars, stack, mqueue, keys, timeouts, replyqueue, waiters, result,
                 nextCtx, isGen, parent, children, done, depth, rmatch, retries, reqVars>>

(* The window is full: the context waits on _mqueue.                       *)
Park(c) ==
  /\ AtTest(c) /\ ~HasRoom
  /\ mqueue' = Append(mqueue, c)
  /\ Leave
  /\ UNCHANGED <<runVars, keys, timeouts, replyqueue, waiters, result, ctxVars, reqVars>>

-----------------------------------------------------------------------------
(* What a body can do.                                                     *)

NewContext(gen, p) ==
  /\ nextCtx <= MaxCtx
  /\ nextCtx' = nextCtx + 1
  /\ isGen' = [isGen EXCEPT ![nextCtx] = gen]
  /\ parent' = [parent EXCEPT ![nextCtx] = p]
  /\ children' = [c \in Ctx |-> IF c = p THEN children[c] \cup {nextCtx} ELSE children[c]]

(* queue(work), or mqueue(works) when gen.                                 *)
Queue(c, gen) ==
  /\ InBody(c)
  /\ Len(stack) < MaxNest
  /\ NewContext(gen, 0)
  /\ Enter(nextCtx)
  /\ UNCHANGED <<runVars, mqueue, keys, timeouts, replyqueue, waiters, result,
                 done, depth, inbox, exc, at, rmatch, retries, reqVars>>

(* The body assigns the scheduler's result attribute.                      *)
SetResult(c) ==
  /\ InBody(c)
  /\ result = Nothing
  /\ result' = <<"value", 0>>
  /\ UNCHANGED <<runVars, callVars, mqueue, keys, timeouts, replyqueue, waiters,
                 ctxVars, reqVars>>

(* _execute with sendOnly: the MAD goes out and may be answered, or the    *)
(* kernel refuses it with EINVAL and an error reply is made up.            *)
Transmit(t) ==
  /\ sends' = [sends EXCEPT ![t] = @ + 1]
  /\ \/ /\ wire' = [wire EXCEPT ![t] = @ + 1]
        /\ UNCHANGED replyqueue
     \/ /\ replyqueue' = Append(replyqueue, t)
        /\ UNCHANGED wire

(* _sendMAD, when _execute returns.                                        *)
SendMAD(c) ==
  /\ Transmit(nextTid)
  /\ keys' = keys \cup {nextTid}
  /\ timeouts' = timeouts \cup {nextTid}
  /\ owner' = [owner EXCEPT ![nextTid] = c]
  /\ rmatch' = [rmatch EXCEPT ![c] = nextTid]
  /\ retries' = [retries EXCEPT ![c] = Retries]

YieldMAD(c) ==
  /\ InBody(c)
  /\ nextTid <= MaxTid
  /\ nextTid' = nextTid + 1
  /\ at' = [at EXCEPT ![c] = <<"mad", nextTid>>]
  /\ UNCHANGED <<runVars, mqueue, waiters, result,
                 nextCtx, isGen, parent, children, done, depth, inbox, outcome>>
  /\ \/ /\ SendMAD(c)
        /\ Leave
        /\ UNCHANGED exc
     \/ \* _execute raises: the coroutine gets the exception
        /\ exc' = [exc EXCEPT ![c] = TRUE]
        /\ LoopAgain
        /\ UNCHANGED <<keys, timeouts, replyqueue, owner, rmatch, retries, wire, sends>>

(* The body yields a context it holds: go on at once if it is done, else   *)
(* wait for _finish_ctx.                                                   *)
MustWait(d) == ~done[d]
YieldContext(c, d) ==
  /\ InBody(c)
  /\ at' = [at EXCEPT ![c] = <<"ctx", d>>]
  /\ \/ /\ ~MustWait(d)
        /\ LoopAgain
        /\ UNCHANGED waiters
     \/ /\ MustWait(d)
        /\ waiters' = [waiters EXCEPT ![d] = Append(@, c)]
        /\ Leave
  /\ UNCHANGED <<runVars, mqueue, keys, timeouts, replyqueue, result,
                 nextCtx, isGen, parent, children, done, depth, inbox, exc, rmatch, retries,
                 reqVars>>

YieldNone(c) ==
  /\ InBody(c)
  /\ at' = [at EXCEPT ![c] = <<"none", 0>>]
  /\ inbox' = [inbox EXCEPT ![c] = result]
  /\ result' = Nothing
  /\ LoopAgain
  /\ UNCHANGED <<runVars, mqueue, keys, timeouts, replyqueue, waiters,
                 nextCtx, isGen, parent, children, done, depth, exc, rmatch, retries, reqVars>>

(* A coroutine that yields a coroutine calls it.                           *)
YieldCall(c) ==
  /\ InBody(c) /\ ~isGen[c]
  /\ depth[c] < MaxDepth
  /\ depth' = [depth EXCEPT ![c] = @ + 1]
  /\ at' = [at EXCEPT ![c] = <<"start", 0>>]
  /\ LoopAgain
  /\ UNCHANGED <<runVars, mqueue, keys, timeouts, replyqueue, waiters, result,
                 nextCtx, isGen, parent, children, done, inbox, exc, rmatch, retries, reqVars>>

(* A generator that yields a coroutine spawns it: the generator goes back  *)
(* on _mqueue and this activation goes on with the child.                  *)
YieldSpawn(c) ==
  /\ InBody(c) /\ isGen[c]
  /\ NewContext(FALSE, c)
  /\ mqueue' = Append(mqueue, c)
  /\ inbox' = [inbox EXCEPT ![c] = <<"child", nextCtx>>]
  /\ at' = [at EXCEPT ![c] = <<"spawn", nextCtx>>]
  /\ stack' = Append(Front(stack), nextCtx)
  /\ testing' = TRUE
  /\ UNCHANGED <<runVars, keys, timeouts, replyqueue, waiters, result,
                 done, depth, exc, rmatch, retries, reqVars>>

(* _finish_ctx, and the parent's _finish_ctx when c was the last child of  *)
(* an exhausted generator.  The contexts waiting on an exhausted one with  *)
(* no unfinished child move to the left end of _mqueue.                    *)
ParentFinishes_Mutant(c) == c \in Ctx /\ FALSE
ParentFinishes(c) == parent[c] # 0 /\ done[parent[c]] /\ children[parent[c]] = {c}

Complete(c) == {d \in Ctx : \/ d = c /\ children[c] = {}
                            \/ d = parent[c] /\ ParentFinishes(c)}

WaitersOf(d, S) == IF d \in S THEN Reverse(waiters[d]) ELSE <<>>

ForgetWaiters_Mutant(S) == waiters' = [d \in Ctx |-> IF d \notin S THEN <<>> ELSE waiters[d]]
ForgetWaiters(S) == waiters' = [d \in Ctx |-> IF d \in S THEN <<>> ELSE waiters[d]]

Finish(c) ==
  /\ done' = [done EXCEPT ![c] = TRUE]
  /\ children' = [d \in Ctx |-> children[d] \ {c}]
  /\ ForgetWaiters(Complete(c))
  /\ mqueue' = WaitersOf(c, Complete(c)) \o WaitersOf(parent[c], Complete(c)) \o mqueue

(* The innermost generator of c returns.                                   *)
ReturnToCaller(c) ==
  /\ InBody(c) /\ depth[c] > 0
  /\ depth' = [depth EXCEPT ![c] = @ - 1]
  /\ at' = [at EXCEPT ![c] = <<"call", 0>>]
  /\ inbox' = [inbox EXCEPT ![c] = result]
  /\ result' = Nothing
  /\ LoopAgain
  /\ UNCHANGED <<runVars, mqueue, keys, timeouts, replyqueue, waiters,
                 nextCtx, isGen, parent, children, done, exc, rmatch, retries, reqVars>>

Return(c) ==
  /\ InBody(c) /\ depth[c] = 0
  /\ Finish(c)
  /\ Leave
  /\ UNCHANGED <<runVars, keys, timeouts, replyqueue, result,
                 nextCtx, isGen, parent, depth, inbox, exc, at, rmatch, retries, reqVars>>

(* The innermost generator of c raises.                                    *)
RaiseToCaller(c) ==
  /\ InBody(c) /\ depth[c] > 0
  /\ depth' = [depth EXCEPT ![c] = @ - 1]
  /\ at' = [at EXCEPT ![c] = <<"call", 0>>]
  /\ exc' = [exc EXCEPT ![c] = TRUE]
  /\ LoopAgain
  /\ UNCHANGED <<runVars, mqueue, keys, timeouts, replyqueue, waiters, result,
                 nextCtx, isGen, parent, children, done, inbox, rmatch, retries, reqVars>>

(* With no caller the exception leaves _step: into the body that called    *)
(* queue() or mqueue(), or out of run().                                   *)
Raise(c) ==
  /\ InBody(c) /\ depth[c] = 0
  /\ Finish(c)
  /\ Leave
  /\ IF Len(stack) = 1 THEN RunEnds("raised") ELSE UNCHANGED runVars
  /\ UNCHANGED <<keys, timeouts, replyqueue, result,
                 nextCtx, isGen, parent, depth, inbox, exc, at, rmatch, retries, reqVars>>

Body(c) ==
  \/ \E gen \in BOOLEAN : Queue(c, gen)
  \/ SetResult(c)
  \/ YieldMAD(c)
  \/ \E d \in base..(nextCtx - 1) : YieldContext(c, d)
  \/ YieldNone(c)
  \/ YieldCall(c)
  \/ YieldSpawn(c)
  \/ ReturnToCaller(c)
  \/ Return(c)
  \/ RaiseToCaller(c)
  \/ Raise(c)

-----------------------------------------------------------------------------
(* run().                                                                  *)

(* run() clears the tables it keeps, except _timeouts and result.          *)
StartRun ==
  /\ pc = "idle" /\ runs < MaxRuns
  /\ pc' = "starting" /\ exit' = "none" /\ runs' = runs + 1 /\ base' = nextCtx
  /\ waiters' = [c \in Ctx |-> <<>>]
  /\ keys' = {} /\ replyqueue' = <<>> /\ mqueue' = <<>>
  /\ UNCHANGED <<due, callVars, timeouts, result, ctxVars, reqVars>>

(* A coroutine of the queue argument, or last the generator of mqueue.     *)
StartWork(gen) ==
  /\ pc = "starting" /\ stack = <<>>
  /\ pc' = IF gen THEN "looping" ELSE pc
  /\ NewContext(gen, 0)
  /\ Enter(nextCtx)
  /\ UNCHANGED <<due, exit, runs, base, mqueue, keys, timeouts, replyqueue, waiters, result,
                 done, depth, inbox, exc, at, rmatch, retries, reqVars>>

BeginLoop ==
  /\ pc = "starting" /\ stack = <<>>
  /\ pc' = "looping"
  /\ UNCHANGED <<due, exit, runs, base, callVars, mqueue, keys, timeouts, replyqueue,
                 waiters, result, ctxVars, reqVars>>

(* Between two activations, outside a purge of timed out entries.          *)
Looping == pc = "looping" /\ stack = <<>> /\ due = {}

StepQueued ==
  /\ Looping /\ HasRoom /\ mqueue # <<>>
  /\ Enter(Last(mqueue))
  /\ mqueue' = Front(mqueue)
  /\ UNCHANGED <<runVars, keys, timeouts, replyqueue, waiters, result, ctxVars, reqVars>>

ReadyForReply == Looping /\ ~(HasRoom /\ mqueue # <<>>)

(* An answered request leaves both tables.                                 *)
Forget_Mutant(t) == keys' = keys \ {t} /\ UNCHANGED timeouts
Forget(t) == keys' = keys \ {t} /\ timeouts' = timeouts \ {t}

(* _completeMAD returns the payload or raises on a bad reply; the owner of *)
(* the request is resumed with it.                                         *)
Dispatch(t) ==
  /\ Forget(t)
  /\ outcome' = [outcome EXCEPT ![t] = "reply"]
  /\ \/ /\ inbox' = [inbox EXCEPT ![owner[t]] = <<"reply", t>>]
        /\ UNCHANGED exc
     \/ /\ exc' = [exc EXCEPT ![owner[t]] = TRUE]
        /\ UNCHANGED inbox
  /\ Enter(owner[t])
  /\ UNCHANGED <<runVars, mqueue, waiters, result, nextCtx, isGen, parent, children, done,
                 depth, at, rmatch, retries, nextTid, owner, sends>>

Unexpected ==
  UNCHANGED <<runVars, callVars, mqueue, keys, timeouts, waiters, result, ctxVars,
              nextTid, owner, sends, outcome>>

TakeQueuedReply ==
  /\ ReadyForReply /\ replyqueue # <<>> /\ (keys # {} \/ mqueue # <<>>)
  /\ replyqueue' = Front(replyqueue)
  /\ UNCHANGED wire
  /\ IF Last(replyqueue) \in keys THEN Dispatch(Last(replyqueue)) ELSE Unexpected

Receive(t) ==
  /\ ReadyForReply /\ replyqueue = <<>> /\ keys # {}
  /\ wire[t] > 0
  /\ wire' = [wire EXCEPT ![t] = @ - 1]
  /\ UNCHANGED replyqueue
  /\ IF t \in keys THEN Dispatch(t) ELSE Unexpected

(* recvfrom returns None: the entries up to now are due.                   *)
Wake(S) ==
  /\ ReadyForReply /\ replyqueue = <<>> /\ keys # {}
  /\ S # {}
  /\ due' = S
  /\ UNCHANGED <<pc, exit, runs, base, callVars, mqueue, keys, timeouts, replyqueue, waiters,
                 result, ctxVars, reqVars>>

(* _do_timeout for a due entry.                                            *)
Purging(t) == pc = "looping" /\ stack = <<>> /\ t \in due
OutOfRetries_Mutant(c) == retries[c] <= 1
OutOfRetries_Mutant2(c) == retries[c] < 0
OutOfRetries(c) == retries[c] = 0
Reinsert_Mutant(t) == due' = due \ {t} /\ timeouts' = timeouts \ {t} /\ UNCHANGED keys
Reinsert(t) == due' = due \ {t} /\ UNCHANGED <<keys, timeouts>>

TimeoutFails(t) ==
  /\ Purging(t) /\ rmatch[owner[t]] \in keys /\ OutOfRetries(owner[t])
  /\ due' = due \ {t}
  /\ timeouts' = timeouts \ {t}
  /\ keys' = keys \ {rmatch[owner[t]]}
  /\ outcome' = [outcome EXCEPT ![t] = "timeout"]
  /\ exc' = [exc EXCEPT ![owner[t]] = TRUE]
  /\ Enter(owner[t])
  /\ UNCHANGED <<pc, exit, runs, base, mqueue, replyqueue, waiters, result,
                 nextCtx, isGen, parent, children, done, depth, inbox, at, rmatch, retries,
                 nextTid, owner, wire, sends>>

TimeoutRetries(t) ==
  /\ Purging(t) /\ rmatch[owner[t]] \in keys /\ ~OutOfRetries(owner[t])
  /\ retries' = [retries EXCEPT ![owner[t]] = @ - 1]
  /\ UNCHANGED <<callVars, mqueue, waiters, result, nextCtx, isGen, parent, children, done,
                 depth, inbox, exc, at, rmatch, nextTid, owner, outcome>>
  /\ \/ /\ Transmit(t)
        /\ Reinsert(t)
        /\ UNCHANGED <<pc, exit, runs, base>>
     \/ \* _execute raises out of run()
        /\ timeouts' = timeouts \ {t}
        /\ keys' = keys \ {rmatch[owner[t]]}
        /\ RunEnds("senderror")
        /\ UNCHANGED <<replyqueue, wire, sends>>

(* The entry outlived its key: `del self._keys[...]' raises out of run().  *)
TimeoutKeyError(t) ==
  /\ Purging(t) /\ rmatch[owner[t]] \notin keys
  /\ timeouts' = timeouts \ {t}
  /\ RunEnds("keyerror")
  /\ UNCHANGED <<callVars, mqueue, keys, replyqueue, waiters, result, ctxVars, reqVars>>

(* The loop test fails (an error reply still queued matches no key then).   *)
FinishRun ==
  /\ Looping /\ keys = {} /\ mqueue = <<>>
  /\ RunEnds("clean")
  /\ UNCHANGED <<callVars, mqueue, keys, timeouts, replyqueue, waiters, result, ctxVars,
                 reqVars>>

Run ==
  \/ \E gen \in BOOLEAN : StartWork(gen)
  \/ BeginLoop
  \/ StepQueued
  \/ TakeQueuedReply
  \/ \E S \in SUBSET timeouts : Wake(S)
  \/ \E t \in Tid : TimeoutFails(t) \/ TimeoutRetries(t) \/ TimeoutKeyError(t)
  \/ FinishRun

(* What the one thread does by itself, and what it does on a reply.         *)
Thread == Run \/ \E c \in Ctx : Resume(c) \/ Park(c) \/ Body(c)
Scheduler == Thread \/ \E t \in Tid : Receive(t)

Next == StartRun \/ Scheduler

Spec == Init /\ [][Next]_vars

-----------------------------------------------------------------------------
(* Properties.                                                             *)

RunType ==
  /\ pc \in {"idle", "starting", "looping"}
  /\ due \in SUBSET Tid
  /\ exit \in {"none", "clean", "raised", "senderror", "keyerror"}
  /\ runs \in Nat /\ base \in 1..(MaxCtx + 1)
CallType == stack \in Seq(Ctx) /\ testing \in BOOLEAN
TableType ==
  /\ mqueue \in Seq(Ctx) /\ keys \in SUBSET Tid /\ timeouts \in SUBSET Tid
  /\ replyqueue \in Seq(Tid) /\ waiters \in [Ctx -> Seq(Ctx)] /\ result \in Result
CtxType ==
  /\ nextCtx \in 1..(MaxCtx + 1)
  /\ isGen \in [Ctx -> BOOLEAN] /\ parent \in [Ctx -> Ctx \cup {0}]
  /\ children \in [Ctx -> SUBSET Ctx] /\ done \in [Ctx -> BOOLEAN]
  /\ depth \in [Ctx -> Nat] /\ inbox \in [Ctx -> Result] /\ exc \in [Ctx -> BOOLEAN]
  /\ at \in [Ctx -> Point] /\ rmatch \in [Ctx -> Tid \cup {0}] /\ retries \in [Ctx -> Nat]
RequestType ==
  /\ nextTid \in 1..(MaxTid + 1) /\ owner \in [Tid -> Ctx \cup {0}]
  /\ wire \in [Tid -> Nat] /\ sends \in [Tid -> Nat]
  /\ outcome \in [Tid -> {"none", "reply", "timeout"}]
TypeOK == RunType /\ CallType /\ TableType /\ CtxType /\ RequestType

(* The number of MADs in flight never exceeds max_outstanding by more than *)
(* the nesting of queue() and mqueue() calls allows: every activation that *)
(* passed its while test may still send one MAD without testing again.     *)
WindowBound == Cardinality(keys) <= MaxOutstanding + MaxNest - 1

(* sched.py says of max_outstanding: "Maximum number of outstanding MADs   *)
(* at any time."                                                           *)
OutstandingAtMostMax == Cardinality(keys) <= MaxOutstanding

(* The entries of _timeouts that belong to this run are exactly its keys:  *)
(* a key without an entry would never time out, an entry without a key     *)
(* raises KeyError out of run().                                           *)
TimerPerKey == keys = {t \in timeouts : owner[t] >= base}

(* Every unfinished context of a run is in exactly one place from which it *)
(* will be resumed (the stack, _mqueue, a MAD in flight, the waiters of    *)
(* one context), and a finished one in none: contexts are neither lost nor *)
(* scheduled twice.  A retransmission that raises loses its context, and   *)
(* ends the run.                                                           *)
ThisRun == base..(nextCtx - 1)
InFlight == {owner[t] : t \in keys}
Waiting == UNION {ToSet(waiters[d]) : d \in Ctx}
Homes == ToSet(stack) \cup ToSet(mqueue) \cup InFlight \cup Waiting
HomesApart ==
  /\ ToSet(stack) \cap (ToSet(mqueue) \cup InFlight \cup Waiting) = {}
  /\ ToSet(mqueue) \cap (InFlight \cup Waiting) = {}
  /\ InFlight \cap Waiting = {}
NoneTwice ==
  /\ IsInjective(stack) /\ IsInjective(mqueue)
  /\ \A t, u \in keys : owner[t] = owner[u] => t = u
  /\ \A d \in Ctx : IsInjective(waiters[d])
  /\ \A d, e \in Ctx : d # e => ToSet(waiters[d]) \cap ToSet(waiters[e]) = {}
OneHome ==
  exit # "senderror" =>
    Homes = {c \in ThisRun : ~done[c]} /\ HomesApart /\ NoneTwice

(* Nobody waits on a context that is already complete (its generator is    *)
(* exhausted and its children are finished): no wake-up is lost.           *)
NoLostWakeup == \A d \in Ctx : waiters[d] # <<>> => ~done[d] \/ children[d] # {}

(* A generator about to be resumed gets the answer to what it last         *)
(* yielded, whatever was sent, queued, parked or timed out in between: the *)
(* reply to its own request or an exception, the context it spawned, the   *)
(* end of the context it waited for, the result of its call.               *)
Resumable(c) == AtTest(c) \/ c \in ToSet(mqueue)
Owed(c) ==
  LET kind == at[c][1]
      id == at[c][2]
  IN  CASE kind = "mad" -> exc[c] # (inbox[c] = <<"reply", id>>)
        [] kind = "spawn" -> inbox[c] = <<"child", id>> /\ ~exc[c]
        [] kind = "ctx" -> inbox[c] = Nothing /\ ~exc[c] /\ done[id]
        [] kind = "call" -> inbox[c] = Nothing \/ (inbox[c][1] = "value" /\ ~exc[c])
        [] kind = "none" -> inbox[c] = Nothing \/ (inbox[c][1] = "value" /\ ~exc[c])
        [] kind = "start" -> inbox[c] = Nothing /\ ~exc[c]
        [] OTHER -> FALSE
ResumedWithItsAnswer == pc # "idle" => \A c \in ThisRun : Resumable(c) => Owed(c)

(* When run() exits at its loop test, every context of the run is finished *)
(* or blocked on a context that is itself unfinished: only a cycle of      *)
(* waits, made by the coroutines themselves, is left behind.               *)
Blocked(c) ==
  \E d, e \in ThisRun : /\ c \in ToSet(waiters[d]) /\ ~done[e]
                        /\ e = d \/ e \in children[d]
Completed == \A c \in ThisRun : done[c] \/ Blocked(c)
CleanRunCompletes == exit = "clean" => Completed

(* run() says of itself: "Exits once all the work has been completed"      *)
(* (sched.py).  That excuses a coroutine that raised or a retransmission   *)
(* that failed, and nothing else.                                          *)
RunCompletesItsWork == exit \in {"clean", "keyerror"} => Completed

(* mads.rst says of yielding the result of mqueue: "yield will return once *)
(* the generator is exhausted and all the coroutines it spawned are        *)
(* finished".                                                              *)
WaitsForSpawned ==
  pc # "idle" => \A c, d \in ThisRun :
    Resumable(c) /\ at[c] = <<"ctx", d>> => done[d] /\ children[d] \subseteq {c}

-----------------------------------------------------------------------------
(* What the scheduler promises about one request: see MADRpc.              *)
status == [t \in Tid |-> CASE outcome[t] # "none" -> outcome[t]
                           [] outcome[t] = "none" /\ t \in keys -> "pending"
                           [] outcome[t] = "none" /\ t \notin keys /\ sends[t] > 0 -> "dropped"
                           [] OTHER -> "unused"]
Rpc == INSTANCE MADRpc WITH running <- pc # "idle"
RpcSpec == Rpc!Spec

-----------------------------------------------------------------------------
(* Fairness: run() is one thread that takes its steps as long as it can,   *)
(* and recvfrom wakes it up at its deadline; replies need not come; every  *)
(* coroutine eventually returns when it keeps being resumed (at each depth *)
(* of its calls).                                                          *)
Fairness ==
  /\ WF_vars(Thread)
  /\ \A c \in Ctx : SF_vars(Return(c))
  /\ \A c \in Ctx : \A n \in 1..MaxDepth : SF_vars(depth[c] = n /\ ReturnToCaller(c))
FairSpec == Spec /\ Fairness

(* Every call of run() ends.                                               *)
EveryRunEnds == pc # "idle" ~> pc = "idle"
=============================================================================
