# Verification of sipped: main loop, scheduler, traffic generator, calls, dialogs and sockets

This directory holds TLA+ models of the core of *sipped* (the Polycom version of
SIPp, the SIP traffic generator), the TLC configurations that check them on small
instances, and proofs for TLAPS. All sources named below are relative to `src/src/`.

## 1. The system

sipped is one process with one main thread. `traffic_thread()` (`sipp.cpp:1908`) loops:
reset broken connections, set `quitting` once `stop_after` calls were created, leave when
no call is open, move expired sleepers to the run queue, run the tasks of the run queue,
poll the sockets, and hand every message to the listener of its Call-ID. Everything
that happens is a step of that loop, so *concurrency* here means the order in which tasks,
timers, messages and operator commands are served, and the network in between.

| Component | Files | State | Operations | What makes it correct |
|---|---|---|---|---|
| Task scheduler | `task.cpp` | list of tasks, run queue, three timing wheels and the list of sleepers without a deadline, count, base | create, delete, `setRunning`, `setPaused`, `expire_paused_tasks`, `abort_all_tasks` | a task is in exactly one place; remembered iterators are never stale; nobody wakes early or late |
| Traffic generator | `opentask.cpp` | rate, limit, users, free and retired users, paused | `run`, `wake`, `set_rate`, `set_users`, `set_paused`, `freeUser` | rate, limits and `stop_after` hold; a user has one call; traffic goes on |
| TDM circuits | `call.cpp:108-132, 842-856, 931` | table of circuits in use | allocate at creation, release in the destructor | a circuit belongs to one call, and is free when the call ends |
| Calls | `call.cpp` | position in the scenario, timers, what was sent and received last | `run`, `next`, `executeMessage`, `process_incoming`, `abortCall`, `terminate` | answers are matched to what they answer; retransmissions stop; every call ends; no use after deletion |
| Scenario | `scenario.cpp`, `xp_parser.cpp` | array of messages | load | labels and method lists are right |
| Listeners, dead calls | `listener.cpp`, `deadcall.cpp` | map from Call-ID to listener | start, stop, expire | a late message does not become a new call |
| Main loop | `sipp.cpp` | `quitting`, poll array, owner lists | see above | the test ends, and only when every call has |
| Sockets | `sipp_sockethandler.cpp`, `socketowner.cpp`, `socket_helper.cpp` | buffers in and out, congestion, owners | connect, write, flush, read, reset, close | no message is lost, repeated or cut on a connection; a socket lives as long as it is used; a broken connection is found |
| Message framing | `message.cpp`, `comp.cpp` | - | headers, keywords | data processing |
| Dialogs, transactions | `dialogstate.cpp`, `transactionstate.cpp` | CSeq, branch, tags per dialog | create, look up | a response belongs to one transaction |
| Actions, variables | `actions.cpp`, `variables.cpp` | variable tables with reference counts | allocate, share, release | a table lives as long as its users |
| Statistics | `stat.cpp` | counters | count, dump | every call is counted once |
| Watchdog | `watchdog.cpp` | trigger counts | periodic check | |
| Injection files | `infile.cpp` | lines, index | next line | |
| 3PCC | in `call.cpp`, `sipp.cpp` | twin sockets | `sendCmd`, `recvCmd` | |
| Authentication | `auth.cpp`, `milenage.cpp`, `rijndael.cpp` | - | compute a response | |
| Media | `send_packets.cpp`, `prepare_pcap.cpp` | a thread per stream | send | |
| Output | `screen.cpp`, `reporttask.cpp`, `logging.cpp`, `fortune.cpp`, `CompositeDocument.cpp` | - | print | |
| Platform | `sslinit.cpp`, `sslthreadsafe.cpp`, `win32_compatibility.cpp` | - | | |

Interactions: tasks are called by the main loop (`run()`) and call back into the scheduler
(`setPaused`, `setRunning`), which calls their `wake()`. The opentask creates calls; the
destructor of a call gives its user back (`freeUser`), which wakes the opentask, and
releases its circuit. `process_message` calls `process_incoming` of a listener, a call or a
deadcall. Operator keys and commands call `set_rate`, `set_users` and `set_paused` between two steps.
The statistics are read back as control: `CurrentCall` by the opentask and by the end of the loop.

What is hard: a deadline that changes while its task sleeps in a wheel; counts that are read
before or after a destructor; loops that end early when a millisecond goes by; unsigned
arithmetic; messages lost, repeated and reordered; timers racing late answers; a send that
fails deep inside a call and deletes it; messages of several dialogs that come before their turn; a socket that moves to another slot, or is freed, while the loop walks over the
sockets; a connection that breaks in the middle of a message; a queue that tasks change while it is walked over.

## 2. Modules

| Module | Models | Lines |
|---|---|---|
| `TaskScheduler` | what the scheduler promises: running and paused tasks with deadlines, time in single milliseconds | abstract specification of `task.cpp` |
| `TimeWheel` | `task.cpp` in full | implements `TaskScheduler` |
| `TimeWheelProofs` | proofs about `TimeWheel` | |
| `OpenTaskUsers` | `opentask.cpp` in users mode, with the destructor of a call and the commands | |
| `OpenTaskRate` | `opentask.cpp` in rate mode | |
| `TdmMap` | the circuits of `call.cpp` | |
| `OpenTaskUsersProofs`, `OpenTaskRateProofs` | proofs about the two modes | |
| `Call` | calls of `call.cpp` over UDP, a client and a server in one model | |
| `CallProofs` | proofs about `Call` and `TdmMap` | both are `call.cpp` |
| `DialogOrders` | what a scenario with several dialogs promises under `-mc`: an order for each dialog | abstract specification of one call |
| `LooseSequence` | a call under `-mc`: the search over the dialogs and the skipping of what came early | implements `DialogOrders` |
| `LooseSequenceProofs` | proofs about `LooseSequence` | |
| `TrafficLoop` | `traffic_thread()` of `sipp.cpp`: quitting, the pass over the run queue, resets, keys, signals | all kinds of tasks |
| `TrafficLoopProofs` | proofs about `TrafficLoop` | |
| `Sockets` | the TCP sockets: slots, descriptors, counts, owners, reconnection | `sipp_sockethandler.cpp`, `socketowner.cpp`, parts of `sipp.cpp` and `call.cpp` |
| `SocketsProofs` | proofs about `Sockets` | |
| `MessageChannel` | what a connection promises: whole messages in order | abstract specification of one connection |
| `SocketBuffers` | the bytes of a connection: buffers, partial writes, congestion, framing | implements `MessageChannel` |
| `SocketBuffersProofs` | proofs about `SocketBuffers` | |
| `MC...` | the values of the constants for TLC | |

### TimeWheel
`wheel` maps the name of each list (`Forever`, `WheelOne(s)`, ...) to the set of tasks in it, and
`pauselist[t]` is the list task `t` remembers; `pauseit` is stale exactly when `t` is not in that list.
`wake[t]` is what the task's `wake()` returns. Actions: `Create`, `Delete`, `AbortAllTasks`,
`SetRunning`, `SetPaused` (with `add_paused_task`), `Tick` and `ExpireSlot`, which is one turn
of the loop of `expire_paused_tasks()`; while `expiring` is true no other action happens, as
the loop is not interrupted. `Fickle` is the set of tasks whose `wake()` may change during
their sleep. In the code only the opentask is fickle (`opentask.cpp:75` reads the rate). `NotOverslept`,
`RightSlot` and the refinement speak of the other tasks (`Steady`); `Placement` and `CountNotBelow` of all.

### OpenTaskUsers and OpenTaskRate
`RunTask` is `opentask::run()`, with the number `k` of calls that the loop really opens left
open: it ends early when a millisecond goes by. In users mode the lists of users are sequences,
used at the ends the code uses. The model has two kinds of calls: `active` ones, and `zombies`,
calls that found every circuit busy on creation, were counted as failed at once, and are
deleted by their next `run()`. A step that takes from an empty list sets `undefined` and the model stops. `lowered` records
whether the operator ever lowered the number of users; no action reads it, only `UserOnce` does.
In rate mode the clock is explicit; the wheel is abstracted to `Expire` (the deadline is behind the
clock) and `Migrate` (`wake()` is read again), as `TimeWheel` shows. `earned` adds up what the rates in force ask for while the traffic is not paused; no
action reads it, only `NoBurst` does. Deadlines are compared on a model
clock in ticks. A run starts with an instance of the opentask (client) or without (server).

### TdmMap
The names of the specification begin with `Tdm`, as `CallProofs` extends both modules. The table has `TableSize` entries (1024 in the code) however many `Circuits` `-tdmmap` asks for. A call that
reads or writes beyond them sets `overrun`, and the model stops; `StaysInTable` says when that does not happen, which is with fewer circuits than entries, because the
destructor of the last circuit's call writes behind its entry. `random` and
`interval` are unsigned: `Probe` computes modulo `UintModulus`. Automatic calls never got a circuit and
have an uninitialised `tdm_map_number`, so that their destructor clears any entry, or memory beyond the table (`DeleteAutomaticCall`).

### Call
One call object per agent, with the fields of `call.hpp` that control reads. A message is a pair of a
status code (0 for a request) and the method of its CSeq; `hash()` of a message is the
message. The network is the set `sent` of all messages an agent ever sent: any of them may arrive at any time,
any number of times or never. Timers are `off`, `armed` or `due`, and an armed timer may become due at any
time, which covers every relation of the delays. `run()` and `next()` call each other; `control` keeps
other events out until `run()` returns. `FailsSending`, `Retransmit` and the violations around
`undefined` model that `send_raw()` deletes the call when it fails.
`config` is the command line: the scenarios and the options (`-recv_timeout`, `-send_timeout`, `-deadcall_wait`,
`-absorb_retrans`, and whether sockets are congested and sending may fail). It is chosen in `Init` from the constant
`Configurations` and never changes, so one run covers several configurations.
Assumed of the configuration: all default behaviours are on (`DEFAULT_BEHAVIOR_ALL`), UDP, one dialog per call,
strict message sequence, no 3PCC, no actions.
`Loaded` is what the loader of `scenario.cpp` makes sure of before a call exists: the scenario is not empty, its elements have the fields of
`message`, an optional `recv` is followed by another `recv` (`checkOptionalRecv`), and only optional ones may not advance the state. Labels may lead anywhere.

### LooseSequence and DialogOrders
With `-mc` every message belongs to the one open call, and unless the scenario branches `loose_message_sequence` is on (`call.cpp:720`): `process_incoming()` looks in every
dialog for the first element that takes the message, and `get_last_insequence_received_message()` skips what came early. That knowledge is in `nb_recv`, which counts
over all calls and is compared with the number of calls; so the model runs one call after another. An element is a record of type (`send`, `recv`,
`nop`, `pause`), dialog, whether it is optional, and the class of messages it matches; elements count from 1, in the code from 0. `Loads` is what the loader and
the first call accept. `Candidates` is the search, `Match` the whole treatment of a message that was found, `Unexpected` that of one that was not (`-mc` implies
`-ar`, so that what was received before is absorbed). `NewCall`, `PauseEnds` and `PauseAgain` are the main loop. A peer stands for each dialog: `Deliver` sends its messages in the order of
its dialog, whatever the others do, `Retransmit` repeats one, and `Stray` sends one out of turn. The transport is UDP and the scenario begins by sending.
`before`, `executed`, `delivered` and `strays` are read by the peers and the properties, by no action of the call.
Under the refinement an element counts as often as it was received or done in the present call. The message of a dialog waits for the messages of that dialog
before it; a `<nop>` may name a dialog too, but no message waits for it (`IsMessage`), since `process_incoming()` searches past it (`call.cpp:4048`).

### TrafficLoop
`pc` is the place in `traffic_thread()`: `Top` resets broken connections, `Quit` decides about the end, `Expire` moves sleepers to the run queue,
each `Body` is one turn of the loop over the run queue, `Final` runs the last task, `After` resets again, and in `poll` messages, keys, closed
connections come in until `EndPoll`. `iter` is the task the iterator is at, `last` the one behind it, which is the one that runs; taking the successor of a task that has
left the queue is `"undefined"`, and `TypeOK` says that it never happens. `kind[t]` is the class of a task: a call, an automatic call of a client
(counted in statistics of its own), a zombie (a call without a circuit, counted off by its constructor), a deadcall. `Runs(t, q)` is everything `run()` of
these classes can do to the tasks, to `CurrentCall` and to `quitting`. Which sleepers are due is left open, as `TimeWheel` decides it.
`CurrentCall` is an integer; the code's is unsigned, and below 0 there as little 0 as here. `quitting` is cut off at 20, as the code only asks whether it is above 0 or 11.
`miscounted` records that a call was deleted by a PING, or a zombie aborted; no action reads it.

### Sockets
The operators named for functions of the code take the tables `n` (sockets, slots, state of each descriptor, owners) and return them changed, because those
functions call each other within one step: `reset_connection()` may call `close_calls()`, which deletes calls, whose destructor closes sockets.
A socket is the address of its object, so that an address may be allocated again. The poll loop is `Read(i)` for a slot of which the peer closed or broke
the connection; `phase` keeps the rest of `traffic_thread()` in order. `status` becomes other than `"running"` when the code exits
with an error, or would use what is freed; the run stops there, and `NoMisuse` says when it does not. `config` holds the options: `-t t1` or `tn`, client or server,
`-max_reconnect`, `-reconnect_close`, `-max_socket`, and whether the scenario uses `closecon` or `setdest`.
Two conditions on `config` recur in the properties. `CallsStay`: no call leaves its socket before its end, neither by `closecon` nor because the peer closed a connection of `-t tn`
without `-reconnect_close`. `StableFds`: at most one connection can break and be replaced, so that `socket()` gives it the descriptor it had.
A call without a socket of its own writes to the last of `sockets[]`; `NoTarget` is that there is none.

### SocketBuffers and MessageChannel
A byte is a pair of a message and an index; the characters that the code compares are CR, LF, the escape of twin processes and the number in a
`Content-Length`. `tx` is the sending socket with `ss_out` and what the kernel has taken; `in` and `msglen` are `ss_in` and `ss_msglen` of the
receiver. `Written` is `write_socket()`, `Flushed` is `flush_socket()`; `HeaderEnd`, `ContentLength`, `MessageLength` and `Merged` are `check_for_message()`: its automaton, the header, the
length it returns, and the buffers it has merged by then. The kernel takes as many bytes as it has room for and a read returns
any number. A break loses what the kernel has and keeps `ss_out`, as `reset_connection()` does; `torn` is set when the break happens in the middle of a message.
Under the refinement the queue is the messages whose last byte is still on its way, and `ChannelSpec` says nothing more once `torn` is true. A break loses a row out of the middle of the queue:
what the receiver had buffered is still to come until it finds the break, and what is in `ss_out` comes after.

## 3. Runs

| Run | Question | Bounds |
|---|---|---|
| `MCTimeWheel` | placement, count and deadlines; the wheels implement the scheduler; overdue sleepers run | 2 tasks, one of them fickle, wheels of 2 slots, 5 ms |
| `MCOpenTaskUsers` | users, pool and `stop_after` under every command, with busy circuits; missing calls are opened again | 3 users, 4 calls, 3 entries more in the lists |
| `MCOpenTaskRate` | no burst after pauses and changes of rate, limit, traffic goes on | rates 0, 1 and 3 per 2 ticks, limits 0 and 2, 4 calls, 6 ticks |
| `MCTdmMap` | the table decides | 4 circuits, 6 entries, 5 calls, 4-bit unsigned |
| `MCTdmMapShared` (violation) | has a call its circuit for itself? | the same, without automatic calls |
| `MCCall` | answers, retransmissions that stop for the answer and for nothing else, silent waits, aborts, refusals, every call ends | 4 configurations (`Covered` in `MCCall.tla`), 1 retransmission, 2 calls |
| `MCSockets` | slots, owners, counts, use of freed memory; calls on a broken connection end | 16 configurations (`Covered` in `MCSockets.tla`), 3 calls, 4 sockets, 4 descriptors |
| `MCSocketsClosecon` (violation) | does `close_calls()` end only calls of its socket? | 2 calls |
| `MCSocketBuffers` | a connection is a FIFO of whole messages, which arrive | SIP and twin messages of 2 to 7 bytes, 2 on their way, 4 bytes in the kernel, reads of 3, 2 breaks |
| `MCTrafficLoop` | the loop ends when and only when no call is open; every task gets its turn | client and server, 2 calls, 2 tasks, 3 turns per pass, 1 break |
| `MCLooseSequence` | each dialog keeps its order, the scenario waits for all; no call hangs or fails while peers keep to their order | all scenarios the loader accepts of at most 5 elements over 2 dialogs, 3 longer ones; 2 calls, 2 copies of an optional message, 1 message out of turn in the second call |
| `MCLooseSequenceFailed` (violation) | is a message that came early always skipped? | at most 4 elements, a message out of turn in the first call |

Configurations without an entry in `PROJECT.json` reproduce the violations of section 5 that name them: `MCOpenTaskUsersShared.cfg`,
`MCOpenTaskRateZero.cfg`, `MCCallStale.cfg`, `MCCallDuplicate.cfg`, `MCCallProvisionals.cfg`, `MCCallDeleted.cfg`,
`MCTrafficLoopForce.cfg`, `MCLooseSequencePause.cfg`, `MCLooseSequenceLate.cfg`, `MCTdmMapTable.cfg`
(`tlc -config MCCallDuplicate.cfg MCCall`, and so on).

The four configurations of `MCCall` are: a client with named transactions and the built-in server over congested
sockets; a client whose timeouts jump to labels and which branches to the end; a server that answers 486; and
`-absorb_retrans` with sends that fail, where the client pauses after its last message, so that a call is still there when all is answered.

Why the bounds are enough. *Wheels*: with 2 slots each a deadline migrates through all three wheels within 5 ms and the base
crosses a boundary of every level, and two tasks can share a slot or not; the proofs cover the rest.
*Users*: three users allow one free, one retired and one in a call at once, and a command between any two.
*Rates*: 6 ticks hold three periods, so a rate can change, sleep and change again. `TrafficFlows` excuses a
deadline at or past the end of the clock. *Circuits*: 4 divides the modulus, as powers of two do in the code; for the other intervals see section 5. Six entries are more than the destructors of four circuits reach; `MCTdmMapTable`
has as many entries as circuits, like the code with 1024. *Calls*: one retransmission gives a first sending, a
repetition and the give-up; two calls of the server let the messages of an old call meet a new one;
receptions are only compared with the number of calls, so they are counted up to it.
*Sockets*: two calls share a socket, follow each other on one, or have one each; a third makes `-max_socket` bite; with four slots the slot that is closed is the first, the
last or between, and the moved socket may be one that has just been read. *Buffers*: no message fits into the kernel's four bytes and a read of three never
returns one, so that each message is written and read in parts, and one message's end and the next one's beginning come in one read.
*Main loop*: two calls with a batch of `-m` 2 make the queue as long as `MaxSchedLoops` and longer; calls end, sleep, wake and become
deadcalls on either side of the iterator. *Loose sequences*: five elements hold a `<send>`, an early message of one dialog and the one of the other that it overtakes, with
something optional, a `<nop>` or a `<pause>` between; a second call meets the counters of the first. Three things are kept out of `MCLooseSequence` because
they go wrong (section 5): messages out of turn in the first call (`StrayCalls`), a pause right before a message (`Some`), and optional messages that the call is past (`LateOptionals`).

`CHECK_DEADLOCK FALSE` is in every configuration because each of these models really stops: the bounded clock
ends, the opentask is deleted when the process quits, the calls are over, or an undefined step was taken.

Every mutant in `PROJECT.json` uses an operator of the module whose comment starts with "A slip". They are not
part of a specification; each breaks one property, to show that the property depends on the code.

### Fairness
The main loop calls `expire_paused_tasks()` and runs the run queue again and again
(`sipp.cpp:2054-2103`), hence weak fairness of `ExpireSlot`, `RunTask`, `Expire`, `Step` and `WakeUp`.
The clock is only looked at when it advanced, and that happens again and again. The loop as a whole is fair in `TrafficLoop` (`WF_vars(Loop)`: no step of it waits). There a turn
for every task does *not* follow: each pass begins at the front of the queue and ends after `max_sched_loops` tasks, so that the fairness of single tasks in the
other modules rests on the condition that `TurnForAll` states, a run queue no longer than that (the default is 1000). In `SocketBuffers` the loops of both processes are fair, in `Sockets` that of the one process. Time passes, hence
weak fairness of `Tick` and `Elapse`. In `LooseSequence` the main loop is fair, and
the peers as a whole send what is mandatory. Elsewhere messages are never assumed to arrive, and operators never assumed to act.

## 4. Proofs

Each theorem holds for every value of the constants that satisfies the `ASSUME`s of its module; further hypotheses are in the theorem and named here.
A hypothesis about scenarios or messages is checked by TLC for those of the runs
(`ScenariosAreProvedAbout` in `MCCall` and `MCLooseSequence`, `AllFramed` in `MCSocketBuffers`).

### The wheels: `TimeWheelProofs`
For every number of slots, every clock bound below the range of the wheels and every finite set of tasks:

* `Types`, `EachInItsList`, `SizeHidesNone`: `Spec => []TypeOK`, `[]Placement`, `[]CountNotBelow`;
* `WheelInvariant`: these, `NotOverslept` and `RightSlot`;
* `WheelImplementsScheduler`: `Spec => SchedulerSpec`;
* `WheelCounts`: `Spec => []CountExact`, from `Fickle = {}`.

None but the last needs an assumption about `Fickle`, as the statements about deadlines leave the fickle tasks out. For a fickle
task the count is not exact (a migration that finds it late does not count it out), and it may wake at another time than the one it now names.
The constants' assumptions are `SlotsAssumption` (each wheel has a slot), `TickAssumption` (the clock stays below `L1*L2*L3`, the point where
the code's third wheel would be exceeded) and `TaskAssumption` (the set of tasks is finite).

The argument: that no task oversleeps is not inductive, since a task in a wrong slot would not be found when its time comes.
`IInv` adds `RightSlot`: each sleeper is in the list that `task2list` names for it *now*, or in a higher list
whose block the base has just entered and which the next turn of the loop empties before it expires a slot.
`MigrationSettles` shows that after the migration every sleeper is where `task2list` says, `SlotIsDue` that the slot
of wheel one then holds exactly the tasks whose time is the base, and `SlotAdvance` that moving the base by one keeps
`RightSlot`. The arithmetic of quotients is in lemmas of its own. `Placement` makes the count exact, through the cardinality lemmas.
For the refinement each action maps to the abstract action of the same meaning, `Tick` to a stutter and `ExpireSlot` to `Advance`.

### The main loop: `TrafficLoopProofs`
For every finite set of calls, every `-m` and every `-max_sched_loops` (`LoopAssumption`):

* `NeverCutsOff`: `Spec => OnlyQuietExits`, that is, the main loop ends no open call of its own accord;
* `QueueTypes`, `OneTaskAhead`: `Spec => []TypeOK` and `Spec => []Position`: the run queue holds live tasks, each once, and the iterator of the
  loop over it is at one of them, not at the task that runs, which may delete itself.

For the first the invariant is `Counted`: `CurrentCall` is not below the number of open calls, *or* the process is quitting and no call is open. The second half is needed
because a forced exit counts every zombie off twice, so that the count may go below 0; nothing opens a call after that, as `quitting` never
returns to 0. Equality does not hold: a call deleted by a PING is never counted off. The cardinality lemmas give the number of open calls after some end
or begin; `RunsCount` goes through the classes of tasks, and every place that runs a task cites it. The queue plays no part in it.
For the queue the invariant `QInv` is `TypeOK /\ Position`. The lemmas about sequences without repetitions say what the removal of a task and `push_back` do to them and
to the successor of the iterator's task; what a task may do to the others (`Living`) is one lemma per class of tasks.

### The traffic generator: `OpenTaskUsersProofs`, `OpenTaskRateProofs`
For every number of users and calls, and every order of the operator's commands:

* users mode: `Types`; `EachUserOnce`: `Spec => []UserOnce`; `PoolIsSufficient`: `Spec => []PoolSufficient`; `NeverPopsEmpty`: without `-tdmmap` (`TdmMap = FALSE`)
  the step that takes a user from an empty list (`undefined`) never happens;
* rate mode: `Types`; `RateHolds`: `Spec => []NoBurst`; `LimitHolds`: `Spec => LimitRespected`; `NeverPastStop`: `total_calls <= StopAfter`.

That the pool is sufficient counts users: the invariant adds `CountsActive` (the sum of the users' calls is `current_calls`) and `NobodyRetires` (as long as the
operator only adds users, nobody is retired and no more calls are open than there are users). Where a user is, is counted by occurrences (`CountIn`), so that
`Places` of a user goes up and down by one with each step; sums over users are those of module `Functions`.
In rate mode the invariant is `TypeOK`, the bound of `-m`, that nothing is deadlined when there is no opentask, and two conditions that carry `NoBurst`: no more calls since the last change of
rate than it asks for (`RateRespected`), and what was earned covers the calls before that change and what the rate asks for since, or in a pause what was opened (`Budget`). The lemmas on quotients and products
show that what the rate allows grows with the clock.

### The circuits: the last part of `CallProofs`
`FewCircuitsStayInTable`: `TdmSpec => []StaysInTable`, from `Circuits < TableSize` and `~Automatic`; with 1024 circuits or more, or automatic calls, the code does use memory outside of the table
(section 5). The other two say what holds as long as it does not. `NewCallsCircuitWasFree`: a circuit that a new call gets is one of the map and was free, for every modulus of unsigned arithmetic.
`TableIsObeyed`: `TdmSpec => TableDecides`, from `UintModulus % Circuits = 0`; without it the search overlooks a circuit (section 5), so that the hypothesis cannot be left out.

### The calls: `CallProofs`
For every set of agents, every scenario the loader accepts, every combination of options, every number of retransmissions and calls:

* `Types`: `Spec => []TypeOK`: no index leaves its scenario and every call that ended was counted once;
* `NeverSilent`: `Spec => []NoSilentWait`, if the scenarios are `Prompt`;
* `AnsweredIsNotRepeated`: `Spec => []NoRetransAfterAnswer`, if they are `Orderly`;
* `NothingElseStops`: `Spec => []RetransUntilAnswered`, if they are `Settling`;
* `AbortsRespect`: `Spec => AbortRespectsAnswer`, if they are `Acknowledging` and the agents have their `Roles`;
* `SuccessIsAnswered`: `Spec => []SuccessMeansAnswered`, if they are `Awaiting`; the property itself speaks only of agents
  whose transactions are `Named` and whose scenario is `Straight` (no `ontimeout`), and so not of the built-in client, for which a late answer can be taken for the answer to the BYE (section 5).

The hypotheses are about scenarios only, and each excludes scenarios for which the conclusion is false. `Prompt`: a call that begins by waiting has not run, so that a message
that does not move it on, or moves it to another `recv`, leaves it asleep without a timer; so does a timeout that jumps to a `recv`. `Orderly`: labels lead forward, a timeout to where nothing is
retransmitted any more; what is expected before a message cannot be its final answer; only an INVITE has provisional responses. `Settling`: labels lead forward, and whatever is expected behind a message and could stop its timer answers that message, or comes behind
another `<send>`, or a mandatory answer to it, that no label leads around. The built-in client is not `Settling`, as its second 200 matches whatever was answered with 200; with named transactions it is.
`Acknowledging`: no labels;
where a 200 of the INVITE can be accepted no CANCEL is sent later, and the ACK was sent before or is the next to be sent. `Roles`: clients talk to servers, which send no ACK.
`Awaiting`: whatever is sent with retransmission has its final answer among the mandatory messages behind it, and labels lead forward and past nothing mandatory; a label that leads past the answer, or
an answer that is optional, lets a call succeed without it. The client with labels of `MCCall` is `Prompt`, `Orderly`, `Settling` and `Awaiting`, the others are `Acknowledging` too.

The invariant `IInv` says that a call object is `NoCall` or `Good` (its three indexes are in the scenario), and that calls are counted. The five other invariants are one statement
about each live call, and have one lemma for each way in which a handler leaves a call (`Returns`, `Delete`, `next`):
`WaitInv`: a call that is left to the main loop sleeps only with a timer, and whoever rests at a `recv` has its timer armed or will run. `AnswerInv` (`Pending`): nothing the call has received
is the final answer of what it would retransmit, *nor of any message with retransmission that is still to come*; `FoundIsThere` shows that between the
call's position and the message that was found there are only `recv`s, so nothing is skipped that the answer could belong to.
`SeekInv` (`Sought`): what was sent last is answered or given up on, or its timer is on and the call is behind no `Barrier` (`Ahead`). A jump leads around none (`AheadNext`), and the search passes
only optional elements and what the same message matches, so that it either meets the answer or no barrier (`AheadSearch`, `SeekFound`).
`AckInv` (`Sound`): what the call sent last is the last `<send>` before its position; after the 200 it knows it (`ack_is_pending` or `call_established`), and the ACK was sent or is the next to be
sent; what it repeats for its peer's retransmissions it has sent before; only an ACK of its own establishes the call of a client. `AbortRespects` then goes through the cases of `abortCall()`.
`HeardInv`: for each mandatory `recv` before the position of a live call, and in the whole scenario of an agent that had a success, the peer has sent a message that matches it; it needs
that a paused call is at a `<pause>`, as the end of a pause moves the call on without looking at what it is at. Where transactions are `Named` a message that matches is the answer itself, and where scenarios are `Straight` no timeout jumps past it; `SuccessMeansAnswered` is about those.

### The sockets: `SocketsProofs`
For every finite set of calls and of addresses, every number of descriptors but 0, and every command line (`SocketsAssumption`):

* `Types`, `SlotsRight`, `OwnersRight`, `CountsRight`: `Spec => []TypeOK`, `[]SlotsSound`, `[]OwnersExact`, `[]CountsUsers`;
* `NeverMisused`: `Spec => []NoMisuse`.

The invariant `IInv` is about the tables `n`, as close_calls() goes through states that no step shows. `Placed`: slots and sockets that are not invalid know each other, from
which there are no more slots than addresses. `Held`: only an open call has a socket, which is allocated and has the call among its owners. `Counted`: the count covers the users. These hold for every
command line. As long as calls stay (`CallsStay`), `Exact` adds that owners and counts are the users and nothing else, and `ValidBut` that a call of `-t tn` has no invalid socket. What
one socket may still miss between its invalidation and close_calls() is the parameter `but`. A client with one connection keeps it (`Kept`), its calls have it (`Attached`), and while
nothing but that connection breaks the descriptors are 0 and 1 (`Single`); a reset is pending only for it, and its descriptor is closed then. Without reconnections
`FdsAgree` says that each slot has the descriptor of its socket.

First there is one lemma per function on sockets that says what it changes (`CloseFdEffect`, `InvalidateEffect` with the move of the last slot, `CloseEffect`, `AllocateEffect`, `ReconnectEffect`,
`DeleteCallEffect`), then one per change that says what it keeps (`...Keeps`), and one per action (`...Step`). `Joins` and `Leaves` count the users of a socket when a call comes to it or goes.
close_calls() is a fold over the owners; `CloseCallsInduction` shows that what each deletion keeps the whole keeps, for any set of pairs of deleted calls and tables, after `FoldExists` shows that
the recursion behind the fold has a value. `NeverMisused` then is that under `CallsStay` and `StableFds` a reset is only reached by the client with one connection.

The attempt corrected the model twice. `StableFds` once allowed `closecon`, of which no run had an instance with reconnections: a client with one connection
whose calls forget it writes to the last socket, which may be the main one, and then two connections are replaced. And the same client may come to have no socket
at all, of which the model said nothing (`NoTarget`). Both are in `Covered` now.

### The dialogs of a call: `LooseSequenceProofs`
For every set of scenarios that begin by sending (`LooseAssumption`), every number of calls and of copies:

* `Types`: `Spec => []TypeOK`: no index leaves the scenario, a call waits at a message or a pause only;
* `WaitsForWhatIsMissing`: `Spec /\ []OnlyLastFails => []NeverWaitsInVain`, if no scenario has a pause right before a message;
* `KeepsDialogOrders`: `Spec /\ []OnlyLastFails => OrdersSpec`;
* `OrderlyCallsDoNotFail`: `Spec => []OrderlyCallsHold`, if scenarios are `Distinguishable` and peers send no optional message late (`~LateOptionals`);
* `CallsWaitForWhatIsMissing`, `CallsKeepDialogOrders`: the second and third from assumptions about scenarios and peers alone, as `OnlyLastFails` follows from the fourth when messages come out of
  turn in the last call at most (`StrayCalls \subseteq {Calls}`).

Each hypothesis excludes what section 5 lists. `OnlyLastFails`: after a call that failed `nb_recv` is behind the number of calls, and a later call takes what it received for missing (`MCLooseSequenceFailed`).
The pause: `call.cpp:4566` moves a call that pauses on to what it skips, and forgets the pause (`MCLooseSequencePause`). `LateOptionals`: an optional message of a dialog that the call is past is
unexpected (`MCLooseSequenceLate`). `Distinguishable`: of two messages that match the same, one is taken for the other, unless both are mandatory ones of one dialog.

The code asks `nb_recv[i] < calls` for whether element `i` is still missing. `TInv` adds to the types that a mandatory element is received at most once per call (`Counts`) and that an open call rests at a message or a pause.
`HInv` gives the comparison its meaning: at the beginning of the n-th call each mandatory element was received n - 1 times (`Fresh`); all before the position is done or received (`Positioned`); what was
received came after all that is mandatory in its dialog (`InOrder`). `Waiting` is the third: where an open call waits, nothing mandatory that comes next was received. Each way to advance (next(), the
search, the skipping after it, a pause that ends) has one lemma for what it leaves; the walk of next() over the elements (`Reached`) is a recursive function, which `ReachedUnfolds` and `EveryoneArrives` show to exist and to
arrive. For calls that do not fail `OInv` says, as long as no message came out of turn, that the call has not failed, that each dialog has no Call-ID or its own, that what was sent is what was
received, and that what was received is in `recvhash`: then the search meets the message before anything that could stop it, or it is a repetition, which is absorbed.

### The bytes of a connection: `SocketBuffersProofs`
For any messages, every capacity of the kernel, read size and number of breaks (`BuffersAssumption`):

* `Types`, `BuffersAreKept`: `Spec => []TypeOK`, `[]NoBufferReplaced`;
* `ConnectionIsAChannel`: `Spec => ChannelSpec`, if each message is found whole by itself (`Framed`).

Without `Framed` a message is not a message for the receiver: one whose headers never end, or whose `Content-Length` is wrong, takes the beginning of the next one with it.
`TypeInv` says that at most one buffer waits, never an empty one, and that `msglen` is what check_for_message() would return *now*; both are needed for `NoBufferReplaced`, which is about the moment
of a read. That the automaton of check_for_message() finds the same end of the headers when more bytes follow (`HeaderEndOfPrefix`, `LengthOfPrefix`) is shown
for every sequence of characters, by induction on where it looks.
`OrderInv`, as long as no message was torn: the bytes at the receiver begin with the first byte of a message, each byte is followed by the next of its message or, after the last, by a first one, and all that is still to be read
is entire messages. After a break that the receiver has not found yet, that is only what was written since, as the rest will be thrown away (`Unread`). Then the
message that is found is the one written first (`FirstMessage`), and the steps map as follows: a write to `Send`, or a stutter when it is given up; a flush and a read to a stutter; read_message() to `Deliver`; a break, and
the receiver's finding it, to `Break`, where bytes lost in a row are messages lost in a row (`LosesInARow`, from `MessagesOfConcat`).

The attempt corrected the model: `MessageChannel` had breaks lose the first messages only, `Merged` merged all buffers also where check_for_message() stops, and `DialogOrders` let messages wait for a `<nop>` of their dialog.

### Induction over data
The induction theorems of the library take an operator, which the provers cannot instantiate. The proof modules derive from the well-foundedness of `<` on the naturals, or of inclusion, principles
that speak of *sets* of values instead (`Least`, `Induction`, `FiniteSetInduction`, `Greatest`), and from them what `Max`, `Min`, `SumFunction` compute. A recursive function on sequences (`HeaderEnd`, `MessagesOf`, `Reached`) is a CHOOSE of a function
that satisfies its equation, so that its existence has to be shown first: the function is built from the least set of pairs closed under the equation, or from a function on the natural numbers (`RecursiveFunction`, `HeaderEndUnfolds`, `MessagesUnfold`).

### Only model-checked
* The liveness properties, since fairness and ENABLED are out of the prover's reach: `OverdueTasksRun` of `MCTimeWheel`, `Refilled` of `MCOpenTaskUsers`, `TrafficFlows` of `MCOpenTaskRate`, `CallsEnd` of `MCCall`, `BrokenCallsEnd` of `MCSockets`,
  `Arrives` of `MCSocketBuffers`, `QuietExit` and `TurnForAll` of `MCTrafficLoop`, and the second half of `OrderlyCallsSucceed` of `MCLooseSequence` (the first is `OrderlyCallsDoNotFail`).
* The configurations that expect a violation.

`RightSlot` is the other way round: part of the proof, as `IInv` needs it, and of no run.

## 5. Where the code and what it says of itself differ

TLC finds these violated by the configuration named; `PROJECT.json` quotes the lines of those it lists.

1. Users lowered and raised again are given out twice (`opentask.cpp:254`; `MCOpenTaskUsersShared`).
2. Traffic at rate 0 never resumes (`opentask.cpp:83, 207`; `MCOpenTaskRateZero`).
3. The destructor clears the circuit after the call's own, so that circuits are shared, and leak (`call.cpp:932`; `MCTdmMapShared`).
4. A late 200 of the INVITE is taken for the answer to the BYE where transactions are not named, as in the built-in client, and ends the retransmission of the BYE (`call.cpp:2032, 3870`; `MCCallStale`).
5. Duplicates of all but the last messages abort the call (`call.cpp:2024`; `MCCallDuplicate`).
6. Optional messages move the state machine, so provisional responses have an order (`call.cpp:4537`; `MCCallProvisionals`).
7. A call that could not retransmit is used after its deletion (`call.cpp:2214`; `MCCallDeleted`).
8. After `closecon` a call stays an owner of the socket it left and is ended with the connection that takes its place (`call.cpp:4846`; `MCSocketsClosecon`).
9. "Press [q] again to force exit" does not hold once the process is quitting for another reason, and a forced exit may go round for ever (`sipp.cpp:2030`; `MCTrafficLoopForce`).
10. After a call that failed, what a later call received early is not skipped, and the call may wait for ever (`call.cpp:4659`; `MCLooseSequenceFailed`).
11. "preReceived messages after nop and pause are properly skipped over" (`CHANGELOG.txt:226`), but not when the last of them comes during a pause right before it: the pause is
   forgotten, and the call waits for what it received (`call.cpp:4566`; `MCLooseSequencePause`).
12. An optional message of a dialog that another dialog's mandatory message made the call skip is unexpected and fails the call (`call.cpp:4641`; `MCLooseSequenceLate`).

13. With 1024 circuits or more in `-tdmmap`, which the option does not bound, the destructor and the search use memory behind the table (`sipp_globals.cpp:169`; `MCTdmMapTable`).

The models also reproduce these, for which no run of their own is kept; the properties of the passing runs are stated around them:

* a fickle sleeper found late in a migration stays counted as paused (`task.cpp:214`; hence `CountNotBelow`, which does not catch that);
* zombies of a full TDM map keep their users while they are no longer counted, so that an empty list is popped (`opentask.cpp:139`;
  `RunPopsEmpty` is the step, and `PoolSufficient` says that only zombies bring it about);
* `set_rate` in server mode changes the rate and the limit (`opentask.cpp:209`);
* the search for a circuit overlooks one when the number of circuits does not divide 2^32 (`call.cpp:120`; with `Circuits = 3`, `TableDecides` fails);
* an INVITE without any answer is cancelled, although a comment says that nothing is done (`call.cpp:2467, 2484`);
* after an `ontimeout` jump to an optional recv whose test fails, the call waits without a timer (`call.cpp:4579`; the labels of `MCCall`'s client do not lead there);
* a server that aborts deadcalls and zombies, or a call that an unexpected PING deletes, leaves `CurrentCall` wrong (`call.cpp:5507`; `miscounted`);
* with more running tasks than `-max_sched_loops`, those at the back of the queue starve (`sipp.cpp:2097`; `TurnForAll` states the condition);
* after a reset the rest of a message that was half sent goes first on the new connection (`ss_out` is kept; `torn`);
* what was buffered in `ss_out` over a reset is only sent with a later write, as the new socket is not polled for writing;
* CR CR LF sends the automaton of `check_for_message()` back to its beginning, so that the CR LF of a blank line after a stray CR is not found;
* `-max_socket 2` ends the process at its first call with "Could not find an existing call socket to re-use!", although the option is documented (`sipp.cpp:292`);
* a reconnection gives the socket a new descriptor and leaves the old one in `pollfiles`, so that a read blocks that "should not occur" (`sipp.cpp:1498`; status `"blocked"`, which `StableFds` excludes);
* under `-mc` a repeated message is taken for a later one like it, which the scenario still expects (`call.cpp:4163`; intended by `CHANGELOG.txt:141`; `Retransmit` leaves it out);
* under `-mc` every early message makes the call's pause begin again (`call.cpp:4540`; `PauseAgain`);
* under `-mc` a dialog takes the Call-ID of whatever message comes first that it matches (`call.cpp:3709`; in the model the classes of messages keep the peers apart);
* a write that fails with EPIPE deletes the call and may free a socket that still waits in `sockets_pending_reset`;
* after `closecon` a call of `-t t1` writes to whatever socket is last, and to `sockets[-1]` when there is none (`call.cpp:1288`; status `"no socket"`, which `CallsStay` excludes);
* a call that got another socket stays in the owner map of the old one, and an accepted socket is never freed: nobody gives its first count back.

## 6. Plan

Order of the work to come, most important behaviour first:

1. `TwinSipp`: 3PCC with its commands, aborts and the end of one of two processes.
2. Scenarios with loops, `condexec`, `lost`.
3. `DialogState` and transactions; `VariableTable` with its reference counts; `InFile`.
4. Proofs: all safety properties of the passing runs have one; what the modules above will claim is next.

## 7. Not modelled, and why

Cryptography and authentication, XML reading, replacement of keywords and header extraction are functions on strings without lasting state.
Screens, traces, reports and composite documents are output. In `TrafficLoop` the quitting of twin processes, errors that end the process, sends that fail during an abort and zombies of a server are left out. In `LooseSequence` servers, `recvCmd`,
global optional messages and timeouts are. In `Sockets`
UDP, TLS, IP per call and listening for control connections are. The map of listeners is not modelled: identifiers only collide when `-cid_str` has no `%u`.
Media streams are pure I/O in threads that share nothing with the calls but the address.
TLS and platform files only wrap libraries. Vendored code (openssl, pthreads and regex for Windows, WpdPack, gtest) is left aside.
