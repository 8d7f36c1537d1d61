-------------------------------- MODULE UMAD --------------------------------
(***************************************************************************)
(* A synchronous transactor on the kernel's MAD device (umad.py): _execute *)
(* sends a request, waits for its reply in recvfrom and retries.  The      *)
(* kernel (external) refuses a transaction ID it is still tracking, lets   *)
(* go of one when its own timer runs out, and passes up the replies to     *)
(* those it tracks.  Replies are lost, late or reordered.  Buffer sizes    *)
(* count 320 bytes.                                                        *)
(***************************************************************************)
EXTENDS Integers, Sequences, FiniteSets

CONSTANTS
  Request,   \* the formatted MADs the program asks to execute
  ClassOf,   \* the agent key of each: management class, version, OUI
  Answers,   \* the replies each may be answered with
  Size,      \* the size of each reply
  Path,      \* the paths requests are sent to
  Timeout,   \* mad_timeout of each, in ticks
  Half,      \* half a second, in ticks
  Retries,   \* path.retries
  ErrorMAD,  \* what _gen_error makes of a request
  NoReply,   \* the outcome of _execute when it times out
  Raised,    \* the outcome of a call that raises
  None,
  MaxCalls,  \* bound: requests executed
  MaxFails   \* bound: sends the kernel reports as failed

Tid == 1..MaxCalls
Reply == (UNION {Answers[r] : r \in Request}) \cup {ErrorMAD}
Outcome == Reply \cup {NoReply, Raised, None}

ASSUME UMADAssumption ==
  /\ MaxCalls \in Nat /\ MaxFails \in Nat /\ Retries \in Nat /\ Half \in Nat \ {0}
  /\ Timeout \in [Path -> Nat \ {0}]
  /\ Answers \in [Request -> SUBSET Reply]
  /\ DOMAIN ClassOf = Request
  /\ Size \in [Reply \cup {None} -> Nat \ {0}]
  /\ {NoReply, Raised, None} \cap Reply = {}

VARIABLES
  calls,   \* the calls of _execute so far, <<request, path>>; _tid is its length
  pc,      \* where the program is in the latest of them
  agents,  \* the keys of _agent_cache
  first, room, left, retries,  \* recvfrom's first and len(buf); ticks to expire; retries
  got,     \* what the call gives
  fd,      \* the MADs and notices to be read
  tracked, \* kernel: the transaction IDs being tracked, with the ticks they have left
  fails,
  status, sends  \* what MADRpc counts

programVars == <<calls, pc, agents, first, room, left, retries, got>>
rpcHistory == <<status, sends>>
umadVars == <<programVars, fd, tracked, fails, rpcHistory>>

-----------------------------------------------------------------------------

current == Len(calls)
request == calls[current][1]
timeout == Timeout[calls[current][2]]

\* max(500,int(path.mad_timeout*1000)-500)
KernelTimeout_Mutant(t) == IF t > Half THEN t ELSE Half
KernelTimeout(t) == IF t - Half > Half THEN t - Half ELSE Half

\* The kernel is to let go of a request before the program gives up on it.
LetsGoFirst(t) == t > Half

Waits == pc \in {"read", "poll"}
Message(kind, t, body) == [kind |-> kind, tid |-> t, body |-> body]

Init ==
  /\ calls = <<>>
  /\ pc = "idle"
  /\ agents = {}
  /\ first = TRUE /\ room = 1 /\ left = 0 /\ retries = 0
  /\ got = None
  /\ fd = <<>>
  /\ tracked = <<>>
  /\ fails = 0
  /\ status = [t \in Tid |-> "unused"]
  /\ sends = [t \in Tid |-> 0]

-----------------------------------------------------------------------------
(* The program: one thread in _execute.                                    *)

\* _doMAD up to the agent lookup of _execute.
_execute(r, p) ==
  /\ pc = "idle"
  /\ current < MaxCalls
  /\ calls' = Append(calls, <<r, p>>)
  /\ pc' = IF ClassOf[r] \in agents THEN "send" ELSE "register"
  /\ retries' = Retries
  /\ UNCHANGED <<agents, first, room, left, got, fd, tracked, fails, rpcHistory>>

register_client ==
  /\ pc = "register"
  /\ agents' = agents \cup {ClassOf[request]}
  /\ pc' = "send"
  /\ UNCHANGED <<calls, first, room, left, retries, got, fd, tracked, fails, rpcHistory>>

Raises(where) ==
  /\ pc \in where
  /\ pc' = "returned"
  /\ got' = Raised

\* The ioctl or the write fails, with anything but EINVAL.
SystemCallFails ==
  /\ Raises({"register", "send", "resend"})
  /\ UNCHANGED <<calls, agents, first, room, left, retries, fd, tracked, fails, rpcHistory>>

\* After the MAD is written, or a retransmission refused: a fresh recvfrom.
recvfrom ==
  /\ pc' = "read"
  /\ first' = TRUE
  /\ room' = 1

Issued == /\ pc = "send"
          /\ status' = [status EXCEPT ![current] = "pending"]
          /\ sends' = [sends EXCEPT ![current] = 1]

\* A refused retransmission counts as sent only where the kernel may be in the way.
Resent(accepted) ==
  /\ pc = "resend"
  /\ status' = status
  /\ sends' = IF accepted \/ ~LetsGoFirst(timeout)
              THEN [sends EXCEPT ![current] = @ + 1]
              ELSE sends

sendto ==
  /\ Issued \/ Resent(TRUE)
  /\ current \notin DOMAIN tracked
  /\ tracked' = [t \in DOMAIN tracked \cup {current} |->
                   IF t = current THEN KernelTimeout(timeout) ELSE tracked[t]]
  /\ left' = timeout
  /\ recvfrom
  /\ UNCHANGED <<calls, agents, retries, got, fd, fails>>

\* EINVAL: the kernel cannot process this MAD, which it finds out the first time.
Refused ==
  /\ Issued
  /\ pc' = "refused"
  /\ UNCHANGED <<calls, agents, first, room, left, retries, got, fd, tracked, fails>>

\* EINVAL: the kernel still tracks it.  _execute drops the error MAD of the nested call.
RetryRefused ==
  /\ Resent(FALSE)
  /\ current \in DOMAIN tracked
  /\ left' = timeout
  /\ recvfrom
  /\ UNCHANGED <<calls, agents, retries, got, fd, tracked, fails>>

Ends(reply) ==
  /\ pc' = "returned"
  /\ got' = reply
  /\ status' = [status EXCEPT ![current] = IF reply = NoReply THEN "timeout" ELSE "reply"]
  /\ UNCHANGED sends

_gen_error ==
  /\ pc = "refused"
  /\ Ends(ErrorMAD)
  /\ UNCHANGED <<calls, agents, first, room, left, retries, fd, tracked, fails>>

\* min(len(buf)*2,rmpp_data2): a number is less than a tuple.
Regrown_Mutant(size) == size
Regrown(size) == 2 * size

ReadShort ==
  /\ pc = "read" /\ fd # <<>>
  /\ Size[Head(fd).body] > room
  /\ room' = Regrown(room)
  /\ UNCHANGED <<calls, pc, agents, first, left, retries, got, fd, tracked, fails, rpcHistory>>

Took == /\ pc = "read" /\ fd # <<>>
        /\ Size[Head(fd).body] <= room
        /\ fd' = Tail(fd)
        /\ UNCHANGED <<calls, agents, left, retries, tracked, fails>>

\* first is set again: another read may find nothing.
PollsAgain_Mutant == first
PollsAgain == TRUE

ReadTimeoutNotice ==
  /\ Took
  /\ Head(fd).kind = "timeout"
  /\ first' = PollsAgain
  /\ UNCHANGED <<pc, room, got, rpcHistory>>

ReadFailureNotice ==
  /\ Took
  /\ Head(fd).kind = "failed"
  /\ Raises({"read"})
  /\ UNCHANGED <<first, room, rpcHistory>>

\* The class needs no comparing: a transaction ID is used once.
Matches_Mutant(message) == TRUE
Matches(message) == message.tid = current

ReadReply ==
  /\ Took
  /\ Head(fd).kind = "reply" /\ Matches(Head(fd))
  /\ Ends(Head(fd).body)
  /\ UNCHANGED <<first, room>>

ReadUnexpected ==
  /\ Took
  /\ Head(fd).kind = "reply" /\ ~Matches(Head(fd))
  /\ recvfrom
  /\ UNCHANGED <<got, rpcHistory>>

\* A second read that finds nothing raises EAGAIN, "Invalid read after poll".
ReadNothing ==
  /\ pc = "read" /\ fd = <<>>
  /\ pc' = IF ~first THEN "eagain" ELSE IF left = 0 THEN "expired" ELSE "poll"
  /\ first' = FALSE
  /\ UNCHANGED <<calls, agents, room, left, retries, got, fd, tracked, fails, rpcHistory>>

PollWakes ==
  /\ pc = "poll" /\ fd # <<>>
  /\ pc' = "read"
  /\ UNCHANGED <<calls, agents, first, room, left, retries, got, fd, tracked, fails, rpcHistory>>

PollExpires ==
  /\ pc = "poll" /\ fd = <<>> /\ left = 0
  /\ pc' = "expired"
  /\ UNCHANGED <<calls, agents, first, room, left, retries, got, fd, tracked, fails, rpcHistory>>

LastTry_Mutant == retries < 0
LastTry == retries = 0

Retry ==
  /\ pc = "expired" /\ ~LastTry
  /\ retries' = retries - 1
  /\ pc' = "resend"
  /\ UNCHANGED <<calls, agents, first, room, left, got, fd, tracked, fails, rpcHistory>>

GiveUp ==
  /\ pc = "expired" /\ LastTry
  /\ Ends(NoReply)
  /\ UNCHANGED <<calls, agents, first, room, left, retries, fd, tracked, fails>>

\* _execute returns, or raises, to its caller, who takes got.
Returned ==
  /\ pc = "returned"
  /\ pc' = "idle"
  /\ got' = None
  /\ first' = TRUE /\ room' = 1 /\ left' = 0 /\ retries' = 0
  /\ status' = [t \in Tid |-> IF status[t] = "pending" THEN "dropped" ELSE status[t]]
  /\ UNCHANGED <<calls, agents, fd, tracked, fails, sends>>

UMADStep ==
  \/ register_client \/ SystemCallFails \/ sendto \/ Refused \/ RetryRefused \/ _gen_error
  \/ ReadShort \/ ReadTimeoutNotice \/ ReadFailureNotice \/ ReadReply \/ ReadUnexpected
  \/ ReadNothing \/ PollWakes \/ PollExpires \/ Retry \/ GiveUp

-----------------------------------------------------------------------------
(* The kernel and the fabric (external).                                   *)

Forget(t) == tracked' = [u \in DOMAIN tracked \ {t} |-> tracked[u]]

Queue(kind, t, body) ==
  /\ fd' = Append(fd, Message(kind, t, body))
  /\ UNCHANGED <<programVars, rpcHistory>>

\* A transmission of t, the latest or an earlier one, is answered.  A reply that
\* comes when t is not tracked is dropped: it might as well be lost.
Deliver(t) ==
  /\ t \in DOMAIN tracked
  /\ Forget(t)
  /\ \E body \in Answers[calls[t][1]] : Queue("reply", t, body)
  /\ UNCHANGED fails

LetGo(t) ==
  /\ t \in DOMAIN tracked /\ tracked[t] = 0
  /\ Forget(t)
  /\ Queue("timeout", t, None)
  /\ UNCHANGED fails

SendFails(t) ==
  /\ t \in DOMAIN tracked /\ fails < MaxFails
  /\ fails' = fails + 1
  /\ Forget(t)
  /\ Queue("failed", t, None)

\* The kernel's timers run before the program can see the time pass.
Tick ==
  /\ left > 0 \/ DOMAIN tracked # {}
  /\ \A t \in DOMAIN tracked : tracked[t] > 0
  /\ left' = IF left > 0 THEN left - 1 ELSE 0
  /\ tracked' = [t \in DOMAIN tracked |-> tracked[t] - 1]
  /\ UNCHANGED <<calls, pc, agents, first, room, retries, got, fd, fails, rpcHistory>>

Clock == Tick \/ \E t \in Tid : LetGo(t)

KernelStep ==
  \/ \E t \in Tid : Deliver(t) \/ SendFails(t)
  \/ Clock

Next ==
  \/ \E r \in Request, p \in Path : _execute(r, p)
  \/ UMADStep
  \/ Returned
  \/ KernelStep

Spec == Init /\ [][Next]_umadVars

-----------------------------------------------------------------------------

MessageType == [kind : {"reply", "timeout", "failed"}, tid : Tid, body : Reply \cup {None}]

\* Type correctness of the device's state.
UMADTypeOK ==
  /\ calls \in Seq(Request \X Path) /\ current <= MaxCalls
  /\ pc \in {"idle", "register", "send", "refused", "read", "poll", "expired", "resend",
             "returned", "eagain"}
  /\ pc # "idle" => current > 0
  /\ agents \subseteq {ClassOf[r] : r \in Request}
  /\ first \in BOOLEAN
  /\ room \in Nat /\ left \in Nat /\ retries \in 0..Retries
  /\ got \in Outcome
  /\ fd \in Seq(MessageType)
  /\ DOMAIN tracked \subseteq 1..current /\ \A t \in DOMAIN tracked : tracked[t] \in Nat
  /\ fails \in 0..MaxFails
  /\ status \in [Tid -> {"unused", "pending", "reply", "timeout", "dropped"}]
  /\ sends \in [Tid -> Nat]

\* recvfrom reads again only what poll has seen: the EAGAIN of umad.py:273
\* is never raised, whatever notices and replies come between.
NeverEAGAIN == pc # "eagain"

\* A request that the kernel lets go of in time is never refused when it is
\* retransmitted (the comment at umad.py:227-233).
RetryUnblocked ==
  pc = "resend" /\ LetsGoFirst(timeout) => current \notin DOMAIN tracked

\* What every call of _execute gives is a reply to the request it made, the
\* error MAD, or a timeout; never a late reply to another.
OwnAnswer ==
  pc = "returned" => got \in Answers[request] \cup {ErrorMAD, NoReply, Raised}

Rpc == INSTANCE MADRpc WITH running <- pc # "idle"

\* Every call is one exchange of MADRpc: transmitted at most 1 + Retries
\* times, answered once, timed out only after as many transmissions.
Exchanges == Rpc!Spec
=============================================================================
