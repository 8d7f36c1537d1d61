# TLA+ models of python-rdma

python-rdma is a Python library for InfiniBand management: it formats and sends
management datagrams (MADs), runs many requests in parallel as coroutines, keeps
a database of a subnet, discovers that subnet, and wraps libibverbs.  This
directory holds TLA+ models of it, the TLC configurations that check them on
small instances, and proofs that TLAPS checks for every value of the constants.

Source lines below are relative to `src/`.

## 1. Inventory of the system

| component | state it keeps | operations | hard behaviour | what makes it correct |
|---|---|---|---|---|
| `rdma/sched.py` MADSchedule | `_keys`, `_timeouts`, `_mqueue`, `_replyqueue`, `_ctx_waiters`, `result`; per Context: generator stack, parent, children, `_done`, pending result or exception, retries | `run`, `queue`, `mqueue`, `_step`, `_finish_ctx`, `_sendMAD`, `_do_timeout` | coroutines interleave at each yield, `_step` is re-entered from generator bodies, replies lost, late, duplicated; retries; a run after a failed one | no context lost, doubled or left asleep; each request gets one outcome; the window; runs end |
| `rdma/madtransactor.py` MADTransactor | last `reply_fmt`, `reply_path`, `req_fmt`, `req_path` | `_prepareMAD`, `_completeMAD`, `_doMAD`, RPC wrappers, `do_async`, match keys | attributes overwritten by the next completion; bytes of a packed MAD taken by number | a completion reads its own request; keys are the members they are meant to be |
| `rdma/umad.py` UMAD | TID, agent cache, the file descriptor | `sendto`, `recvfrom`, `_execute`, `register_client` | two timers for one request, retry and late reply, kernel `EINVAL`, notices between replies | one outcome per request, its own reply, bounded transmissions; no read that finds nothing |
| `rdma/vmad.py` VMAD | QP, CQ, buffer pool, `_recvs` | `sendto`, `_cq_drain`, `recvfrom`, `_execute`, `close` | send buffers run out, edge-triggered completions, error completions | no buffer lost or used twice, no missed completion |
| `rdma/vtools.py` BufferPool, CQPoller | free buffers; poll set, `wakeat` | `post_recvs`, `finish_wcs`, `sleep`, `iterwc` | completions in any order, errors among them, events while asleep | buffer conservation; sleep only when armed and drained |
| `rdma/ibverbs.pyx` | tree Context, PD, CQ, CompChannel, MR, AH, SRQ, QP; QP state | create, `close`, `modify_to_*`, `establish`, events | close order, AH cache, unacknowledged events | children closed first, nothing closed twice |
| `rdma/satransactor.py` SATransactor | resolved LID and node type cached in a path | `SubnGet` as SA queries, `get_path_lid`, `prepare_path_lid`, completers | a chain of queries, each of which may fail; a cache that outlives the call | what it returns is what the SMP would have brought |
| `rdma/path.py` | paths with cached values | `copy`, `reverse`, `drop_cache`, resolution | stale caches | a cache never outlives what it was made from |
| `rdma/subnet.py` Subnet | nodes, port GUIDs, LIDs, topology, paths | `search_end_port`, `get_node`, `get_port`, `link_end_port`, `advance_dr`, `get_path_smp` | information arrives in any order; nodes change type | one node per device, indexes agree, paths lead where they say |
| `rdma/discovery.py` | `load()`; `_SubnetTopo`: buckets by depth | SA tables, `do_todo`, `do_node`, `do_port` | breadth first order on parallel coroutines; a path changed under its users | the database agrees with the fabric; each port read once; nobody left asleep; what is noted as loaded is there |
| `rdma/devices.py`, `rdma/tools.py` | lazily read end port attributes, GID and PKey lists | `lid_change`, `sm_change`, `pkey_change` | events between a read and its use | caches dropped before they are read again |
| `libibtool/rdma_bw.py` | two processes, a TCP stream, QPs | client and server modes, `rdma` | stream without framing, completion timeout | both ends reach RTS before data; both end |
| other `libibtool/` commands | options, one pass over the subnet | | `errors.py` shares a list between parallel checks | |
| `IBA_struct.py`, `binstruct.py`, `codegen/mkstructs.py` | the buffer being packed | `pack_into`, `unpack_from`, `pack_array8`; `groupMB`, `genFormats` | offsets and masks written out for 110 classes | every member where MEMBERS says; what is packed is read back |
| `IBA.py`, `IBA_describe.py` | none | constants, printing | | |

How they interact.  A command builds a UMAD or VMAD and, for parallel work, a
MADSchedule on top of it.  Coroutines (discovery, subnet, checks) call RPC
methods of the scheduler, which return a `Work` tuple; the coroutine yields it;
the scheduler sends it with `_execute(sendOnly=True)`, receives with `recvfrom`,
matches the reply by transaction ID, and resumes the coroutine with the result
of `_completeMAD`.  A SATransactor stands between a coroutine and a transactor.
Coroutines write what they learn into the Subnet and read it to choose paths.
There are no threads: all concurrency is the interleaving of coroutines, the
network, and asynchronous device events.

PROJECT.json lists the hazards of this code at their lines, with the properties
that cover each.

The modules:

| module | content |
|---|---|
| `MADRpc` | abstract: what any MAD transactor promises about each request |
| `MADSchedule`, `MCMADSchedule` | the coroutine scheduler (section 2) |
| `VMAD`, `MCVMAD` | synchronous MADs over a verbs queue pair, BufferPool, CQPoller (section 3) |
| `UMAD` | synchronous MADs on the kernel's device (section 4) |
| `SATransactor`, `MCSATransactor` | SMPs as SA queries, composed with UMAD (section 4) |
| `Subnet` | the subnet database and the fabric (section 5) |
| `Discovery`, `MCDiscovery` | `load()` and the topology scan, composed with Subnet (section 5) |
| `IBAStruct` | the 110 wire layouts (section 6) |
| `MkStructs` | the generator of their statements (section 6) |
| `BinStruct` | packing and unpacking them, statement by statement (section 6) |
| `SeqLemmas` | lemmas about sequences, shared by the proofs |
| `MADScheduleProofs`, `VMADProofs` | theorems about the module each is named for (section 7) |
| `SATransactorProofs` | theorems about UMAD and about SATransactor over it (section 7) |
| `SubnetProofs` | what every operation of the database keeps (section 7) |
| `DiscoveryProofs` | the scan's coroutines; the database while it is filled, from the SA and in scans (section 7) |
| `DiscoveryScans` | that scans read everything once and leave nothing out; what a returned load has (section 7) |
| `BinStructProofs` | that generated statements store everything in its place, and what follows for packing (section 7) |

MADRpc is implemented three times: by the scheduler, by VMAD and by UMAD; for
all three the refinement is checked by TLC and proved.

## 2. What is modelled: the scheduler

### State

Variables carry the names of the attributes they stand for.  Contexts are
numbered in the order they are created, requests in the order they are prepared
(a request's number stands for its transaction ID and match key).

* `stack` is the Python call stack, reduced to the activations of `_step`, each
  with the context it works on; only the innermost is running.  `testing` says
  whether that one is at its `while` test or inside the generator's body.  It is
  needed because a body may call `queue()` or `mqueue()`, which call `_step`
  again before the body's next yield.
* `keys`, `timeouts`: the requests in `_keys` and `_timeouts`; `owner` gives the
  context of an entry.  The order of deadlines is not kept: an entry may become
  due whenever `recvfrom` returns None.
* `mqueue`, `replyqueue`: left end first, so `pop()` takes the last element.
* `inbox`, `exc`: `_result` and `_exc` of a context; `at` is the yield its
  generator is suspended at, `depth` the length of `_opstack`.
* `wire[t]`: replies to request t that may still arrive.  Each transmission adds
  one; a reply may be received at any time in any order, or never (no fairness is
  assumed of `Receive`).  Duplicates
  come from retries of requests that were answered.
* `sends`, `outcome` are history variables.

### Actions

| action | code |
|---|---|
| `StartRun`, `StartWork`, `BeginLoop` | `run()` up to its loop; `queue` may be a tuple |
| `StepQueued`, `TakeQueuedReply`, `Receive`, `Wake`, `FinishRun` | the loop of `run()`; `Dispatch` and `Unexpected` are the two arms of the match |
| `TimeoutFails`, `TimeoutRetries`, `TimeoutKeyError` | `_do_timeout`, called in the purge loop for each entry of `due` |
| `Resume`, `Park` | the `while` test of `_step`, true and false |
| `Queue`, `SetResult` | what a body does without yielding |
| `YieldMAD`, `YieldContext`, `YieldNone`, `YieldCall`, `YieldSpawn` | the kinds of value a generator yields |
| `Return`, `ReturnToCaller`, `Raise`, `RaiseToCaller` | StopIteration or another exception, with and without a caller on `_opstack`; `Finish` is `_finish_ctx` with its recursion into the parent (a parent has no parent) |

The bodies are arbitrary: at every point a coroutine may do anything the
interface offers.  `_execute` may send, make up an error reply (kernel EINVAL) or
raise.  `_completeMAD` may return or raise.

Abstracted: MAD contents, clock values, tracing, the values of results (a result
is "a value" or none), and the exception types.  A body only yields contexts of
the current run, and assigns `result` only when it is None.  Not modelled: the
TypeError of `bisect.insort` on two equal deadlines (`sched.py:66`).

### Runs

Bounds are (MaxOutstanding, Retries, MaxCtx, MaxTid, MaxNest, MaxDepth, MaxRuns).

| run | bounds | checks | result |
|---|---|---|---|
| schedule_safety | 2,1,3,2,2,0,1 | TypeOK, OneHome, NoLostWakeup, CleanRunCompletes | hold; 1.9 million states |
| schedule_calls | 2,0,3,3,1,1,2 | TimerPerKey, WindowBound, ResumedWithItsAnswer | hold; 11.6 million states |
| schedule_reruns | 1,1,2,2,2,0,2 | ResumedWithItsAnswer, RpcSpec, EveryRunEnds | hold |
| window_doc | 1,0,2,2,2,0,1 | OutstandingAtMostMax | violated |
| wait_doc | 2,0,3,2,2,0,1 | WaitsForSpawned | violated |
| abort_doc | 2,0,3,2,1,0,2 | RunCompletesItsWork | violated |

Why these bounds.  Three contexts are a generator, a child it spawns and a third
that waits on either; this is the smallest instance where the last child and the
exhausted generator finish in both orders with somebody waiting.  A window of two lets the
generator go on while its child has a MAD in flight, a window of one with two
requests (schedule_reruns) makes parking common; `MaxNest = 2` lets a body's
`queue()` run another coroutine inside it; one retry gives late and duplicate
replies.  Two runs of three contexts
are needed for stale entries: one context raises while another has a MAD in
flight, and a third runs in the second run.  Three requests are one more than a
window of two.  The proofs of section 7 remove the
bounds for all the safety properties.  The bounds
MaxCtx, MaxTid, MaxNest, MaxDepth and MaxRuns are guards of actions that create;
a run may stop when they are used up, so deadlock is not checked (an idle
scheduler has nothing to do in any case).

* **OneHome**: every unfinished context of the run is in exactly one of: the
  stack, `_mqueue`, the owner of one key, one waiter list; finished ones are in
  none.  Excluded: after a retransmission that raised (`sched.py:269`), whose
  context really is lost, together with the run.
* **TimerPerKey**: the keys are the timers of this run's contexts.
* **NoLostWakeup**: no one waits on a context that is complete.
* **CleanRunCompletes**: a clean exit leaves only contexts blocked on unfinished
  contexts, that is, wait cycles made by the coroutines.
* **WindowBound**: the window is exceeded at most by one MAD per nested
  activation.
* **ResumedWithItsAnswer**: a context about to be resumed holds the answer to
  what its generator last yielded: its own reply or an exception, the context
  it spawned, and so on, across parking, retries and late replies.
* **RpcSpec**: MADSchedule implements MADRpc.
* **EveryRunEnds**: every `run()` ends.

### Fairness

`FairSpec` adds weak fairness of `Thread`, everything but `Receive` (one thread: as long as the loop of
`run()` or a body can take a step it does; `recvfrom` has a deadline, so `Wake`
is always possible when requests are in flight) and strong fairness of
`Return(c)` and of `ReturnToCaller(c)` at each call depth: a coroutine resumed
again and again eventually returns.  The code cannot end the run of a coroutine
that never returns.  No fairness is assumed of `StartRun`, of the network, or of
which alternative a body chooses.

### Findings

1. `max_outstanding` is documented as the "Maximum number of outstanding MADs at
   any time" (`sched.py:29`); a body that calls `queue()` and then yields a MAD
   exceeds it (test at 97, send at 154).  Run window_doc; WindowBound is what
   does hold.
2. `doc/mads.rst:208-209` says yielding the result of `mqueue()` returns once the
   generator is exhausted and all spawned coroutines are finished.  `_done` is set
   at exhaustion (75) and checked alone (131).  Run wait_doc.
   `discovery.py:244-252` relies on the documented behaviour.
3. `run()` "exits once all the work has been completed" (186), but leaves
   `_timeouts` uncleared (189-192): after an aborted run the next one can end with
   KeyError (248).  Run abort_doc.
4. `doc/mads.rst:214-216` says a call without a result yields `True`; the code
   yields None (113-116).  No run: it is read off the code.

## 3. What is modelled: VMAD and its buffers

`VMAD` is one process, the thread that calls `sendto`, `recvfrom` or `_execute`,
against the adapter, which is external and modelled from how the code uses it: it
takes work requests from the two queues in order, writes an arriving packet
(with a GRH) into the first posted receive, appends completions to the CQ, and
raises one event when a completion meets an armed CQ.  A QP may break at any
time; everything posted is then flushed with an error.

* `buffers`, `recvs` are the deques of the same names; `recvs` is kept oldest
  first.  `sq`, `rq`, `cq` hold buffer numbers and completions; `mem` says which
  packet a buffer holds; `hand` is what `recvfrom` is about to return.
* `pc` splits the calls where the adapter can make a difference: before a drain
  (`SendDrain`, `RecvDrain`), between arming the CQ and draining it (`Arm`), asleep
  (`Wake`, `TimedOut`, `AsyncEvent`), and between giving a receive buffer back and
  reading the GRH in it (`TakeRecv`, `ReadPath`).  A drain polls until the CQ is
  empty, so it is one step, taken at the last poll.
* `FinishWcs` is `finish_wcs`: all buffers are appended to the pool, then as many
  are popped and posted as receives completed; `Error` is the exception it builds.
  An exception ends the call; the object is used again afterwards.

Left out: the constructor's failures, `close()`, packet contents and lengths, a
`recvfrom` without a deadline, and a failure of `post_recv` or of `poll`.

| run | bounds (Depth, MaxSendWr, MaxRecvWr, Retries, MaxTid, MaxForeign, MaxEvents) | checks | result |
|---|---|---|---|
| vmad | 2,1,2,1,2,1,1 | TypeOK, BufferInOnePlace, ReceivesStayPosted, QueuesFit, NoMissedCompletion, RpcSpec, EveryCallEnds | hold; 2.2 million states |
| vmad_error_doc | 2,1,2,0,1,2,1 | ErrorNamesItsQueue | violated |
| vmad_path_doc | 2,1,2,0,1,2,1 | PathOfItsPacket | violated |

Two receive buffers let completions pile up behind each other and be drained
together with those of sends; a send queue of one, below what `depth` asks for,
makes the constructor trim the pool and `sendto` run out of buffers; two requests
with one retry give replies to an earlier request during a later one.  MaxForeign
and MaxTid bound the packets and the requests, MaxEvents the unread events.

* **BufferInOnePlace**: no buffer is posted twice or free while posted.  Buffers
  can be lost: `sendto` pops one before `make_send_wr` and `post_send` can fail.
* **ReceivesStayPosted**: after every drain, with errors or without, the receive
  queue is as full as the constructor made it, but for the receives put aside for
  `recvfrom`.
* **QueuesFit**: neither the queues of the QP nor the CQ overflow.
* **NoMissedCompletion**: asleep with something in the CQ, an event is pending.
* **RpcSpec**: `_execute` implements MADRpc, the protocol the scheduler implements.
* **EveryCallEnds**: under weak fairness of the thread every call returns or
  raises.  It rests on MaxForeign: `recvfrom` looks at its deadline only when it
  has nothing to return, so an endless stream of unrelated packets keeps
  `_execute` busy.  No fairness is assumed of the adapter.

Findings 5 and 6 (numbers continue section 2):

5. `finish_wcs` raises for the first failed completion but takes `is_rq` from the
   last one of the list (`vtools.py:101-102`), which may even be None.  Run
   vmad_error_doc.
6. `recvfrom` posts a buffer again before reading the GRH in it
   (`vmad.py:96-98`).  Run vmad_path_doc.

## 4. What is modelled: UMAD and the SATransactor

`UMAD` is one thread in `_execute`, against the kernel's MAD device and the
network, which are external.  A call is split where the kernel can make a
difference: `sendto`, `RetryRefused` and `Refused` are the three outcomes of the
write (accepted; EINVAL because the transaction is still tracked; EINVAL because
the kernel cannot process the MAD), the `Read...` actions are one `read` of
`recvfrom` each, `PollWakes` and `PollExpires` its `poll`, `Retry` and `GiveUp` the
end of a wait.

* `calls`: the requests executed so far; a request's number is its transaction
  ID.  `agents` is the agent cache, `first` and `room` are the locals of
  `recvfrom` (may a read find nothing; the size of the buffer), `left` the time to
  its deadline, `got` what the call returns.
* `fd` is what the device has to be read: replies, and the notices of requests
  that timed out in the kernel or could not be sent.
* `tracked` maps a transaction the kernel still follows to the time it has left.

What is assumed of the kernel: it refuses a transaction ID it is tracking;
a reply is passed up only for a tracked one, which then ends (a later one is
dropped); its timers are punctual, that is, they run before the program can see
the time pass.  Transaction IDs are unique: their wrap at 2^32 is not reached.
Requests from other managers are not received (no agent is registered for them).

`SATransactor` extends UMAD with the state of `rdma/satransactor.py`: the SubnGet
being served, the LID reached and the next hop of the route
(`prepare_path_lid`), and the two values cached in a path (`resolved`,
`nodeType`).  `FollowLink` and `QuerySA` start a request of UMAD, `LinkFollowed` and
`QueryAnswered` take its result; between them any step of UMAD, the kernel and
the clock may come.  `Query` is what SubnGet makes of an SMP: which fields of the
attribute modifier (`Bits`) become which components of the record asked for, by the node
type kept in the path.  The SA answers from the tables of a constant fabric, or with
an error.

| run | instance | checks | result |
|---|---|---|---|
| satransactor | program on a CA behind two switches; 3 requests, 1 retry, 1 failed send | TypeOK, NeverEAGAIN, AsDirect, Exchanges, GetsEnd | hold; 252 373 states |

Why these bounds.  A route of two hops needs three requests (two link records and
the query), so that the reply to the first may come during the third and a
resolved path is met again.  Half a second is one tick; the SA path's timeout of two
ticks lets the kernel go first, the loopback's of one does not, which are the two
cases of `umad.py:227-247`.  The calls asked of SubnGet take each kind of completer,
both ways of asking for PortInfo of port 0, and PKeyTable on paths with the node type
unknown, known, and (on the SA's path, after a NodeInfo) that of another node; two paths
lead over a switch and back to the CA, one with its type noted.  A multicast table of
position 1, a VL arbitration table of a CA's port 0 and an SL to VL table of a switch's
port go through the other splits of the modifier.  A table of several records
outgrows the first buffer.  The program stops after MaxCalls requests, hence no
deadlock check.

* **NeverEAGAIN**: `recvfrom` reads again only what `poll` has seen.
* **Exchanges**: UMAD implements MADRpc.  Where the kernel may not have let go
  (a timeout of half a second or less) a refused retransmission counts as sent.
* **AsDirect**: what SubnGet returns through the SA is what the SMP itself would
  have brought, whatever was lost, late, retried or remembered, *but for three cases*, which
  `Gives` states with what comes instead, and which the run meets:
  * `OtherPosition`: a MulticastForwardingTable of another position than 0 comes as that of
    position 0, because the query takes the position from the wrong bits (finding 9);
  * `OtherPort`: a PKeyTable, VLArbitrationTable or SLToVLMappingTable of a CA, asked for
    under a port not its own ("this port" is 0 in an SMP), is a table of zeros, which
    `_sa_error` makes of NO_RECORDS.  For a PKeyTable this needs a path without the node type
    (finding 8);
  * `TypeMistaken`: the SA's path leads to a switch and holds the type of a CA
    (finding 7): the PKeyTable is asked for without its port, and is that of whichever port
    has the only such block, or zeros.

  A block of a table that was never programmed is zero in the node, and so it is here.

`SAAssumption` says what a fabric is: cables have two ends, a LID that is no switch's is that of one
port (so "this port" is well defined), a path that is not directed has an assigned LID, and the SA
answers a request from its tables or with an error.  A LID routed path to the permissive LID
is excluded: `get_path_lid` (`satransactor.py:38-39`) would ask the SA for 0xFFFF.

* **GetsEnd**: every SubnGet ends, under weak fairness of the program (one thread)
  and of the clock with the kernel's timers.  No reply need come.

Findings 7 to 10 (7, 8 and 9 are the cases of AsDirect; they need no run of their own):

7. `_finish_nodeinfo` and `_finish_nodedesc` keep the node type in `req_path`, which
   is the SA path of the query and never the caller's path
   (`satransactor.py:116`).
8. SubnGet leaves the port out of a PKeyTable query only when the path says that the node is
   a CA (`satransactor.py:168`), which by 7 a caller's path never learns from SubnGet.
   `do_pkeys` (`smpquery.py:30-42`) asks a CA for its NodeInfo and then for the PKeyTable of
   port 0: through the SA it prints zeros where the SMP shows the keys.
9. The position of a MulticastForwardingTable is taken from bits 12 to 15 of the modifier
   (`satransactor.py:146`), but callers put it at bit 28 (`subnet.py:243`,
   `ibtracert.py:48`), where the SMP has it: through the SA every position is 0.
10. The kernel tracks a request for at least half a second (`umad.py:247`), so with a
   shorter `mad_timeout` a retransmission is refused, and `_execute` drops the
   error reply made for it (356).

## 5. What is modelled: the subnet database and discovery

`Subnet` has the database as one record, and the methods of class Subnet as
operators from a database to a database: `search_end_port`, `get_node`, `get_port`
(with `_fixup_change_to_switch`), `link_end_port`, `advance_dr`, `get_path_smp`.  The
fabric is constant, so what a reply says follows from the place its request
reached.  Nodes and Ports are objects: two of them may stand for one device, which
is what the properties are about.  Paths are objects too, changed in place.

`Discovery` is `load()` over it.

* With an SA: `SAReply` is the arrival of a table, `SAStore` the storing of one record
  of it, in any order; `SAStoreFails` and `SAQueryFails` end the load.
* With SMPs: `jobs` are the coroutines with a request in flight (`do_node`, `do_port`),
  `todo` is `_SubnetTopo.todo`, `ctx` the `do_todo` generators.  The actions
  `TodoCheck` ... `TodoEmpty` are the stretches of `do_todo` between two yields;
  `Reply` is the arrival of a reply and what `do_node` or `do_port` does with it,
  which includes starting the generator of the next depth inside `mqueue()`.
* `Ask`, `Answer`, `AskEnds` are the SwitchInfos and PortInfos fetched afterwards.

The scheduler is here what section 2 shows of it: a generator runs until it
yields, takes its turn again last in first out while the window has room, and is
woken when the context it waits for and all its children are finished; replies
come in any order; a timeout ends the run (`ScanRaises`).

| run | instance | checks | result |
|---|---|---|---|
| discovery | a CA cabled to two switches that two cables join; window 2 | TypeOK, IndexesAgree, OneNodePerDevice, TopologyIsTrue, PathsLeadThere, LoadedIsThere, RoutesLeadThere, ReadOnce, NoneLeftAsleep, LoadEnds | hold; 133 365 states |

The fabric is the smallest with everything that makes the order matter: the local
CA has a port on each switch, so a switch is reached at depth 1 and again at depth
2, two cables between the same switches race, one switch has an LMC (several
LIDs), the other answers LID 0 on its external ports and is unknown to the SA
when NodeInfo is fetched.  A window of two lets every pair of replies overtake.
Scans by LID and by directed route, by SA and by SMP, and loads of one item after
another into the same database are all initial choices.  MaxDepth, MaxTodo,
MaxHops and MaxCopies are above what this fabric needs: the absence of deadlock
shows that no guard of theirs ever stops a load.  One switch's records are
stored in port order (`Sorted`), and the questions after a scan are asked in a fixed
order, to keep the number of orders small.  They are about the ports that have an object:
`iterports` (`subnet.py:78-90`, `163-172`) also makes those up to numPorts that have none, and
load() asks about a switch's.  After a scan that came to its end a switch has none left
to make (ScansAreWhole), so only after one that was broken off does the model ask less than
the code, where LoadedIsThere claims nothing.  A reply that finds a Node of
another type raises in the code ("Node changed type."); it is a guard of the model
(`NinfFails`, `PinfFails`) and one of the causes of `ScanRaises`, and does not happen in a fabric
whose devices do not change.

The constants are assumed to be a fabric (`FabricAssumption`: cables join two places,
in both directions, and not a switch's port 0) that an SM has configured
(`LidAssumption`: the LID ranges of two end ports do not meet), and each set in `Items` to be
what `load()` may be asked for: some of the names its docstring lists (`LoadItems`).  A
device in `Shy`, which answers LID 0 on its external ports, is a switch.  A device in `Late` is
one the SA learns of between its answers for NodeInfo and for the other tables.

* **IndexesAgree, TopologyIsTrue**: in whatever order facts arrive, node GUID, port GUID
  and LID lead to the same objects, and the topology is the cables'.
* **OneNodePerDevice**: a device has one Node, whatever is learned of it first; with one
  exception, which the property names (`LateTwice`): a device that is unknown to the SA when it
  answers for NodeInfo and has two or more end ports in its later tables gets a Node for
  each of them (finding 17).  The late device of this instance is a switch, with
  one end port, so here nothing is excepted, and the CA with two ports that comes by
  NodeInfo, by LID and by cable must have one Node.  With Late = {"h", "s"} instead
  TLC finds the CA with two Nodes, and the other properties hold (201 317 states); it
  is not the instance of the run because the SA's tables then make a
  Node only of r, and TopologyIsTrue says nothing of what they store.
* **PathsLeadThere**: a path leads to the port it is cached for, also after
  `do_port` has turned it from a directed route into a LID path in place while other
  coroutines hold it.  **RoutesLeadThere** says it of the paths served after a load.
* **LoadedIsThere**: what `sbn.loaded` says is there when `load()` returns: from the SA
  the records it had, from a scan everything that can be reached from the local port
  (`Reachable`: over cables, and through switches), unless a scan of this database was
  broken off before.
* **ReadOnce**, **NoneLeftAsleep**: the scan reads each port once, and ends with no
  `do_todo` waiting and no bucket with work in it.
* **LoadEnds**: every load ends.  The fairness is that a load that can go on does
  (`RunsOn`); that it always can is the deadlock check.  Requests end because the
  scheduler's do (EveryRunEnds).

Findings 11 to 17:

11. `topo_SMP` notes everything as loaded after its first reply
   (`discovery.py:361-365`), so after a scan that a timeout broke off the next
   `load()` returns with a part.
12. `yield old_ctx` never waits (`discovery.py:291`): when a bucket gets a new
    generator the old one is exhausted, and finding 2 applies.
13. The test of `done_switches` is called "just an optimization" (331-332); without
    it ports are read twice, which is how ReadOnce is shown to have teeth.
14. In a directed route scan the path kept for a switch is that of the last
    arrival, not the shortest (`subnet.py:450` against `discovery.py:196-197`).
15. `_subnet_fill_LIDs_SA` stores its query, not the record (`discovery.py:61`); in the
    model `SAStoreFails` of table "lids".
16. `all_NodeInfo N` builds a filtered query and sends another (`discovery.py:28`).
17. A CA with two end ports that joins between the SA's answers for NodeInfo and for the
    later tables gets two Nodes (`subnet.py:536`): a LID is all that is known of each port.
    `subnet.py:10-13` says that a node has one nodeGUID and that there are no duplicates.

They have no run of their own: each is read off the code while it was modelled,
and PROJECT.json quotes both sides.

## 6. What is modelled: the wire structures

`IBAStruct` is `IBA_struct.py` as data: for each of the 110 classes MAD_LENGTH, the
members in order, and the statements of `pack_into` as they are written out there,
with their offsets and format strings (`unpack_from` has the same statements
reversed).  `MkStructs` is `codegen/mkstructs.py` from a member list to those
statements.  `BinStruct` executes them one at a time on a symbolic buffer: a piece
is the bits of one element, so a result holds for all values.  At most one
element at a time has a value that does not fit.  The table of the classes is a
CONSTANT, `Structs`; the run gives it `Layouts`, the table of IBAStruct.

| run | instance | checks | result |
|---|---|---|---|
| binstruct | all classes, every element odd in turn | TypeOK, InTheirPlaces, RoundTrips, SpoilsOnlyItsMember, AsGenerated, HeadersAgree, KeysAreMembers, PayloadFits | hold; 5 899 states |

There is no bound: the classes are finitely many and each is run to its end (so
deadlock is not checked).

* **InTheirPlaces**: the image is what MEMBERS describes, without a gap; only a byte
  string of the wrong length changes the length of the buffer.
* **RoundTrips**: `unpack_from` gives every element what `pack_into` took from it.
* **SpoilsOnlyItsMember**: a value that is too wide is refused or spoils its own
  member only, although `pack_array8` masks nothing.
* **AsGenerated**: the statements are those the generator makes from the members
  (`Generated`), and the members are such as it can be trusted with (`WellFormed`): they fill
  MAD_LENGTH in whole 32 bit words, an object fills its member, an array of objects is
  the last member, the entries of an array fill words, and what shares a word is a scalar.
  Of these `mkstructs.py` asserts only a part; an array of objects before the end it would
  pack without complaint, and what follows it in the wrong place.
* **HeadersAgree, PayloadFits**: what `madtransactor.py` assumes when it unpacks a reply
  under another class than it was packed under, and packs an attribute into a
  format's data.  An RMPP reply to a VendOUIFormat request is left out of HeadersAgree:
  `_completeMAD` unpacks it as SAHeader, which that format does not start with, and
  says so (`madtransactor.py:191`, "FIXME, should be class specific").
* **KeysAreMembers**: what is taken from a packed MAD by byte number is what it is meant
  to be: the key of a request is made of whole members, the key of a transaction of
  mgmtClass and the low half of transactionID, and byte 26 under RMPP_ACTIVE, by which
  `_completeMAD` knows an RMPP reply, is bit 0 of RMPPFlags.

The source is a half converted Python 2 program.  Where the versions differ the
models follow Python 2, for which it was written: strings are bytes, `/` of
integers truncates (`binstruct.py:31`), a number is less than a tuple
(`umad.py:269`).

## 7. Proofs

Eight modules hold theorems and lemmas; each holds for all constants allowed by the
assumptions of its component (`MADScheduleAssumption`, `VMADAssumption`,
`UMADAssumption`: natural numbers, the sizes positive; `SAAssumption`: section 4;
`FabricAssumption`, `LidAssumption`, `NoneAssumption` of Subnet and
`DiscoveryAssumption`: section 5).  TLC evaluates these on the runs.

The scheduler:

* **TypeCorrect** (`MADScheduleProofs`): TypeOK is inductive by itself.
* **WindowBounded** (same module): WindowBound is not inductive, because an
  activation that passed its test has not sent yet.  `WindowInv` counts keys
  together with the activations in a body: together they never exceed
  MaxOutstanding + MaxNest - 1 (the innermost, when testing, not counted).
* **ContextsHaveOneHome, EveryKeyHasItsTimer, NoWakeupIsLost**
  (same module): one invariant, `HomeInv`, the conjunction of Numbered
  (contexts and requests not yet created have initial values), Family (parents
  and children agree; only generators have children, no grandchildren), Quiet
  (what is empty outside a run), Timers, OneHome and NoLostWakeup.  They need one
  another: that a dispatched request's owner is in no other place is what keeps
  OneHome when it is stepped, and Family is what makes `_finish_ctx` wake exactly
  the contexts whose wait is over.  One lemma per action.
* **CleanRunsComplete** (same module): at a clean exit stack, queue
  and keys are empty, so by OneHome an unfinished context is in a waiter list, and
  by NoLostWakeup what it waits on is unfinished or has a child that is.
* **AnswersReachTheirYield** (same module): ResumedWithItsAnswer speaks only of
  contexts about to be resumed.  `AnswerInv` says for every place of a context what it
  holds there: nothing and `running` in its body, nothing and the request's or the
  context's number while it waits for one, its answer on `_mqueue` or at the test of
  `_step`.  That a step which fills one context's inbox touches no other answer is
  OneHome; that a due entry resumes the context it was made for is Timers.
* **ImplementsRpc** (same module): the refinement mapping reads a
  request's status off `outcome`, `keys` and `sends`; every action maps to an
  action of MADRpc or a stutter.  `RpcInv` relates `retries` to `sends`.

UMAD (`SATransactorProofs`), one invariant on top of the other:

* **ReadsWhatWasPolled**: `PolledFirst` says that something is queued whenever
  `first` is false in a read; only the program takes from the queue.
* **RetransmissionsGoOut**: `SoonerLetGo` bounds the kernel's remaining time of the
  current request by the program's, while the kernel's is the shorter one.
* **RepliesMatch**: `Answered` says of every queued reply that it answers the
  request with its number, and of every tracked number that it has been used.
* **DeviceImplementsMADRpc**: `Counted` ties `sends` to `retries` at each place of the
  call; it rests on RetransmissionsGoOut, because a refused retransmission of a
  request the kernel has let go of would be one less.

SATransactor (same module):

* **GetsAreDirect, SATyped**: `SAInv` adds to AsDirect that a LID cached in a path is where the path
  leads (`ResolvedThere`), that `lid` is the LID reached by the links followed so far
  (`UnderWay`), and that the request under way is the one the get is at (`InFlight`); with
  `Answered` of UMAD an answer that arrives is then the SA's to that request.  The node
  type cached in a path is the node's own, if any, except in the SA's path (`TypesNoted`), which is
  what confines TypeMistaken to it.  For PortInfo the type does not matter: the two ways of asking
  for port 0 give the same port or raise.  `GivesOther` and `GivesPKeys` go through the
  queries, and `OwnBlocks` shows that a PKeyTable asked for without a port is, at a CA, that of its
  own.  `RouteFacts` shows that the recursive function
  `Route` exists, by induction (`SetInduction` in `SeqLemmas`: over a set, since the
  library's induction over a predicate cannot be used).
* **UsesTheDevice**: SASpec implies UMAD's Spec, so **GetsReadWhatWasPolled** and
  **GetsAreExchanges** follow from UMAD's theorems.

VMAD (`VMADProofs`):

* **VMADTyped, BuffersNeverShared, ReceivesConserved, QueuesNeverOverflow** follow
  from one invariant, `Inv`.  Its part about the queues, `QueueInv`: the five places
  of a buffer are injective sequences and apart from each other; receives posted,
  completed and kept add up to what the constructor posted; what is kept is a
  receive; and free buffers, posted sends and completed sends together are at most
  what the constructor left in the pool.  The last is why the send queue cannot
  overflow, and it is not in any of the properties.  The work is in `_cq_drain`,
  which splits the CQ in two: `PickedFacts` gives a bijection between what is
  picked and its indices, `DrainSplit` counts the halves, `FinishFacts` follows the
  buffers through `finish_wcs`.
* **SleepIsSafe**: `Awake`, between arming and draining the CQ stays armed or an event
  is queued, and asleep the CQ is empty and armed, or an event is queued.
* **QueuePairImplementsMADRpc**: `Counted` ties `sends` to `left` and `pc`; an
  exception in the middle of a call maps to the End of MADRpc.

The subnet database and discovery, for every fabric, window and bound, every order
of replies and any number of loads one after the other:

* **ScanIsOrderly, NobodySleepsOn** (`DiscoveryProofs`): `ScanInv` speaks of the
  coroutines only: a bucket with work has one generator that is alive, the one it
  replaced is exhausted, a generator that can be stepped has one turn, one that
  waits does so for one two depths up.  When no MAD is in flight and nobody has a turn,
  all have ended, by induction on the depth.
* **DatabaseIsRight** (`DiscoveryProofs`), `DbRight`.  `SubnetProofs` has `DbInv`, which is
  IndexesAgree and OneNodePerDevice with what they need: a Node's slots hold its own
  ports, a GUID or LID is in an index only with the port that lists it, the port
  of a LID is the one the SM gave it to.  Each operation of the database
  (`search_end_port`, `get_node`, `get_port`, `link_end_port`, re-typing) keeps it for a
  caller who was told the truth (`Told`).  With an SA, `TablesInv` adds that records
  of a table are stored only once the devices of the table before are there.  In scans, `SmpInv`
  adds of the database (`ScanDb`) that every Node has its NodeInfo, and every path with an
  end port leads to it; and of what is under way (`ScanUse`, `AskUse`, `NotYet`) that every
  bucket's item, generator and MAD in flight has a path that has been reached, to the
  device it is about.  That a path is replaced only when nobody goes on from it is
  `EpReached`: a path that was reached has its link in the topology, and `PeerKnown` is
  false for a port that has none.
* **PortsAreReadOnce, TopologyIsAlwaysTrue** (`DiscoveryScans`).  A scan links two
  ports when a NodeInfo arrives over a port: what it links is a cable only if the path the
  request took still is the one over that port, and nobody re-read a port in between.
  `OnceInv` says who will read each port: it is due in one bucket item or one
  generator's remaining ports at most (`PortsOnce`), is unread while it is due, and is due only after
  its switch was put into `done_switches` or its cable was noted; a port that was asked has been
  read.  Behind a read port stands at most one item or MAD on its way over the cable
  (`ExitsRight`), the first NodeInfo has no cable (`First`), the local CA's own port is linked
  before anything can come back to it (`LocalFirst`), and a path with a hop more leads over
  one cable more (`Ways`).  Each has one lemma per handler; ReadOnce alone is not
  inductive, since nothing in it keeps two items for the same port apart.  Neither
  theorem has a hypothesis for scans.
* **TypesAreOK, IndexesAlwaysAgree, NodesAreUnique, PathsAreRight** (and TablesAreTrue, the part of
  TopologyIsAlwaysTrue for the SA)
  (`DiscoveryProofs`) follow.  Scans need no hypothesis.  With an SA they have one, `SingleLate`: a device
  the SA is late with has one end port in its tables.  NodesAreUnique needs it: without it
  finding 17 happens.  OneNodePerDevice excepts that case, but the
  theorem does not use the exception: under SingleLate nothing is excepted, and what
  is proved is that two Nodes of one device are one.  What is not proved is that
  beside a device of finding 17 all others still have one Node; TLC checks that
  with Late = {"h", "s"}.

* **ScansAreWhole, RoutesAlwaysLeadThere** (`DiscoveryScans`).  OnceInv says that nothing is read
  twice; `Whole` is its counterpart, that nothing is left out.  A place is opened by
  `done_switches` or by a cable noted in the topology; `Ahead` says that each opened place
  is read, due, or on its way (`AllAhead`), that a port that was read has its LID in the
  database, if it answers one, and its cable noted, queued or being crossed (`AllKept`), and
  that every switch found is in `done_switches`.  Each step of the scan is shown to lose none of it (`NoneLost`,
  `OpensDue`).  When the scan returns, NobodySleepsOn leaves nothing due and nothing on
  its way, so all that was opened was read (`DoneDb`), and it was not before the first
  item was noted (`Unread`).  `get_path_smp` then has for every end port a LID that was read
  or a directed route, and both lead there.
* **ScansFetchAll, LoadedIsAlwaysThere** (same module).  `Fetched`: what a load with SMPs still
  lacks of the SwitchInfos is in flight or to be asked; what returns has scanned.  Together with
  Whole the set of places that were read is closed under cables and the ports of a switch,
  so it contains Reachable.  **TablesAreKept** is the same for the SA: `Tabled` says that the
  records of a table stored so far are in the database, and those of every table noted.
  That later records undo none of it is `SaMore`, which each operation of the
  database is shown to keep: only the table of the links begins with an empty topology,
  and it is stored once per database (`LinksOnce`).

The wire structures (`BinStructProofs`), for every table of classes that are `Generated`,
which AsGenerated checks of today's:

* **GeneratedIsPlaced**: a class whose statements are those `genFormats` makes of a
  well-formed member list is `Placed`: there are indices `lo` and `hi` such that each statement
  stores exactly the elements from one to the other, at the bits MEMBERS gives them; that
  all elements are stored; and that a store behind others, unless it is a struct call, is of
  later elements.  It is a proof about the generator.  `ElementsOf` is a chain
  (`ElementsChain`), groups are the members between word bounds (`GroupFacts`), each format
  that starts with an element ends where the next one starts and is an object, a byte
  string, an array or a word (`FormatFacts`), `pack_array8` leaves nothing over (`Shifted`,
  entry by entry), and each round of `genFormats` keeps `MadeTo`: the running offset is where
  the next element starts, the direct stores lie one behind the other, and a word joins
  the last call only where that one ends.  The functions that are defined recursively are shown to
  exist, round by round, with `SetInduction`.
* **BinStructTypeOK, PackedInTheirPlaces, UnpackedAsPacked, SpoilsNoOther**: of a table of placed
  classes `IInv` is inductive.  It says, for the number of statements that have run, which elements
  are stored (`StoredNext`), that each is at its place or is spoilt (`ImageRight`), that the buffer has
  its length unless an odd byte string was stored, and, while unpacking, that what was
  assigned are the elements of the statements run, each read from its place.
  What makes it inductive is the order of the statements in `Placed`: a byte string of
  another length moves only what lies behind it, and the direct stores behind it run later.
  The struct calls may run last and lie before it, but they store in place, and in a buffer
  that has become too short `struct` raises.

Only model-checked: liveness (EveryRunEnds, EveryCallEnds, GetsEnd, LoadEnds),
which is out of the prover's reach with its fairness and ENABLED; NoneLeftAsleep is proved,
but that every load ends rests on it and on that fairness.  Of the wire structures
AsGenerated, HeadersAgree, KeysAreMembers and PayloadFits are statements about the one
table that is there; TLC's run of them is complete.  The violated properties are checked by finding
the counterexample.

## 8. Not modelled, and why

* `madtransactor.py`: answering requests (`parse_request`, `get_reply_match_key`) and
  the attributes a completion leaves behind; no program of the repository answers.
* `umad.py`: `register_server` and a `recvfrom` without a deadline; opening the device.
* `subnet.py`: `path_to_port` and `get_links`, DRCacher, forwarding tables, pickling;
  `discovery.py`: descriptions, `topo_peer_SMP` and `topo_surround_SMP`, which scan
  again a part of what is known.
* `path.py`: value objects; its resolution is one request and its completion.
* `devices.py`, `tools.py`: reads of sysfs behind lazy caches.
* `ibverbs.pyx`: a wrapper of libibverbs, most of which has no state of its own; the tree of
  parents and children it closes in order, and the states of a queue pair, would
  be a model.
* `libibtool/`: option parsing and printing; `rdma_bw` has a two-process handshake that
  would be a model.
* Names, constants, documentation, packaging.

## 9. Plan

What would come next, in this order:

1. `VerbsTree`: the parents and children of verbs objects, closing them, events not
   yet acknowledged.
2. `RdmaBw`: the TCP handshake; both ends reach RTS before data flows, neither
   waits forever.
3. DRCacher and `path_to_port` against a reference definition of distance.
4. `EndPortCache`: asynchronous events against lazily read attributes.
5. Of the theorems: `SingleLate` replaced by the weakest thing that is true of an SA that
   learns of devices while it answers.

## 10. Running

    tlc -workers 2 -config MADScheduleSafety.cfg MCMADSchedule
    tlc -workers 2 -config Discovery.cfg MCDiscovery
    tlc -workers 2 -config BinStruct.cfg BinStruct
    tlapm VMADProofs.tla

`IBAStruct` and `MkStructs` are data and operators for `BinStruct`, which is its own
root; the other configurations belong to the MC module of the same name.
