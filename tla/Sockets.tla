------------------------------ MODULE Sockets ------------------------------
(***************************************************************************)
(* The TCP sockets of sipped: the sipp_socket objects and who counts on    *)
(* them, the slots of sockets[] and pollfiles[], the file descriptors of   *)
(* the kernel, the calls that own a socket (socketowner.cpp), and how a    *)
(* connection that breaks is found, reported to its calls and reset.       *)
(*                                                                         *)
(* A socket is the address of its object, so that malloc() may give the    *)
(* address of a freed one to a new one.  The operators named for functions *)
(* of the code take the state `n' of the tables and return it changed, as  *)
(* those functions call each other within one step.  The bytes on a        *)
(* connection are in SocketBuffers.                                        *)
(***************************************************************************)
EXTENDS Integers, Sequences, FiniteSets, FiniteSetsExt

CONSTANTS Calls,          \* the calls the run may create
          Addresses,      \* what malloc() may return for a sipp_socket
          Main,           \* main_socket, on which the process listens
          Multiplex,      \* tcp_multiplex, the connection of all calls
          Configurations, \* the command lines and scenarios of the runs
          MaxFd           \* bound on the file descriptors

(* calls: the calls there may be; multisocket: -t tn and not t1; server:   *)
(* creationMode = MODE_SERVER; resets: -max_reconnect; resetClose:         *)
(* -reconnect_close; maxSockets: -max_socket; closecon, setdest: the       *)
(* scenario has these actions.  At the limit, only sockets of calls are in *)
(* use besides the main one.                                               *)
Configuration == [calls: SUBSET Calls, multisocket: BOOLEAN, server: BOOLEAN, resets: Int,
                  resetClose: BOOLEAN, maxSockets: Nat,
                  closecon: BOOLEAN, setdest: BOOLEAN]

NoSocket == "NULL"
INVALID_SOCKET == -1
Fd == 0..MaxFd

ASSUME SocketsAssumption == /\ IsFiniteSet(Calls) /\ IsFiniteSet(Addresses)
                            /\ MaxFd \in Nat \ {0}
                            /\ NoSocket \notin Addresses
                            /\ {Main, Multiplex} \subseteq Addresses
                            /\ Main # Multiplex
                            /\ Configurations \subseteq Configuration
                            /\ \A k \in Configurations :
                                 k.server => k.maxSockets > Cardinality(Addresses)

VARIABLES config,       \* the command line
          net,          \* the tables of sockets, slots, connections and owners
          pending,      \* sockets_pending_reset
          reset_number, \* reconnections left, or -1
          next_socket,  \* where new_sipp_call_socket() searches next
          phase,        \* the part of traffic_thread() that runs
          status        \* running, exited, or how memory was misused

vars == <<config, net, pending, reset_number, next_socket, phase, status>>

(* A connection: closed (the descriptor is free), up, fin (the peer closed *)
(* it), rst (it broke), or down (not connected).                           *)
Line == {"closed", "up", "fin", "rst", "down"}
Readable == {"fin", "rst"}

Unallocated == [alive |-> FALSE, fd |-> INVALID_SOCKET, invalid |-> TRUE,
                pollidx |-> 0, count |-> 0, ofCall |-> FALSE, changed |-> FALSE]

(* reconnect_allowed().  A slip: one reconnection too many.                *)
reconnect_allowed_AtZero == reset_number = -1 \/ reset_number >= 0
reconnect_allowed == reset_number = -1 \/ reset_number > 0
Decremented(k) == IF k = -1 THEN k ELSE k - 1

(* socket() returns the lowest descriptor that is free.                    *)
FreeFds(n) == {f \in Fd : n.line[f] = "closed"}
LowestFd(n) == CHOOSE f \in FreeFds(n) : \A g \in FreeFds(n) : f <= g

LastSlot(n) == n.slots[Len(n.slots)]
InSlots(n) == {n.slots[i].sock : i \in DOMAIN n.slots}

(***************************************************************************)
(* The functions on sockets.                                               *)
(***************************************************************************)
(* sipp_allocate_socket() at address s, for the process or for a call, and *)
(* for a descriptor that is in state l.                                    *)
Allocate(n, s, fd, for, l) ==
    [n EXCEPT !.socket[s] = [alive |-> TRUE, fd |-> fd, invalid |-> FALSE,
                             pollidx |-> Len(n.slots) + 1, count |-> 1,
                             ofCall |-> for = "call", changed |-> FALSE],
              !.slots = Append(@, [sock |-> s, fd |-> fd]),
              !.line[fd] = l]

CloseFd(n, s) ==
    IF n.socket[s].fd = INVALID_SOCKET THEN n
    ELSE [n EXCEPT !.line[n.socket[s].fd] = "closed",
                   !.socket[s].fd = INVALID_SOCKET]

(* The last slot moves to slot i.  A slip: pollfiles[] is left as it is.   *)
SlotsWithoutNoFd(slots, i) ==
    SubSeq([slots EXCEPT ![i].sock = slots[Len(slots)].sock], 1, Len(slots) - 1)
SlotsWithout(slots, i) ==
    SubSeq([slots EXCEPT ![i] = slots[Len(slots)]], 1, Len(slots) - 1)

(* sipp_socket_invalidate().  A slip: the moved socket keeps its index.    *)
InvalidateKeepingIndex(n, s) ==
    IF n.socket[s].invalid THEN n
    ELSE [CloseFd(n, s) EXCEPT !.slots = SlotsWithout(@, n.socket[s].pollidx),
                               !.socket[s].invalid = TRUE,
                               !.socket[s].pollidx = 0]
Invalidate(n, s) ==
    IF n.socket[s].invalid THEN n
    ELSE LET i == n.socket[s].pollidx
         IN  [CloseFd(n, s) EXCEPT !.slots = SlotsWithout(@, i),
                                   !.socket[s].invalid = TRUE,
                                   !.socket[s].pollidx = 0,
                                   !.socket[LastSlot(n).sock].pollidx = i]

(* sipp_close_socket().                                                    *)
Close(n, s) ==
    LET m == [n EXCEPT !.socket[s].count = @ - 1]
    IN  IF m.socket[s].count > 0 THEN m
        ELSE [Invalidate(m, s) EXCEPT !.socket[s] = Unallocated]

(* socketowner::associate_socket(), and with a count of the call's own,    *)
(* which a slip leaves out.                                                *)
Associate(n, c, s) == [n EXCEPT !.call_socket[c] = s, !.owners[s] = @ \cup {c}]
AssociateUncounted(n, c, s) == Associate(n, c, s)
AssociateCounted(n, c, s) == [Associate(n, c, s) EXCEPT !.socket[s].count = @ + 1]

(* ~socketowner().  A slip: the call stays in the map of the owners.       *)
DeleteCallKeepingOwner(n, c) ==
    LET s == n.call_socket[c]
        m == [n EXCEPT !.call[c] = "over", !.call_socket[c] = NoSocket]
    IN  IF s = NoSocket THEN m ELSE Close(m, s)
DeleteCall(n, c) ==
    LET s == n.call_socket[c]
        m == [n EXCEPT !.call[c] = "over", !.call_socket[c] = NoSocket]
    IN  IF s = NoSocket THEN m
        ELSE Close([m EXCEPT !.owners[s] = @ \ {c}], s)

(* close_calls(): tcpClose() of every owner, by a copy of the list.  It    *)
(* must not meet the call of an owner that was deleted before.             *)
CloseCalls(n, s) == FoldSet(LAMBDA c, m : DeleteCall(m, c), n, n.owners[s])
HasDeadOwner(n, s) == \E c \in n.owners[s] : n.call[c] # "open"

(* sipp_reconnect_socket(): a socket that was not invalid keeps its slot,  *)
(* whose descriptor is not brought up to date.                             *)
Reconnect(n, s, l) ==
    LET fd == LowestFd(n)
        m  == [n EXCEPT !.socket[s].fd = fd, !.line[fd] = l]
    IN  IF ~n.socket[s].invalid THEN m
        ELSE [m EXCEPT !.socket[s].pollidx = Len(n.slots) + 1,
                       !.socket[s].invalid = FALSE,
                       !.slots = Append(@, [sock |-> s, fd |-> fd])]

(***************************************************************************)
(* The initial state: the process listens, and a client with one socket    *)
(* has connected it.                                                       *)
(***************************************************************************)
Listening ==
    Allocate([socket      |-> [s \in Addresses |-> Unallocated],
              slots       |-> << >>,
              line        |-> [f \in Fd |-> "closed"],
              owners      |-> [s \in Addresses |-> {}],
              call        |-> [c \in Calls |-> "new"],
              call_socket |-> [c \in Calls |-> NoSocket]],
             Main, 0, "process", "down")

Init ==
    /\ config \in Configurations
    /\ net = IF config.multisocket \/ config.server THEN Listening
             ELSE Allocate(Listening, Multiplex, 1, "process", "up")
    /\ pending = {}
    /\ reset_number = config.resets
    /\ next_socket = 0
    /\ phase = "run"
    /\ status = "running"

(* REPORT_ERROR: the process ends.                                         *)
Exit == /\ status' = "exited"
        /\ UNCHANGED <<config, net, pending, reset_number, next_socket, phase>>
Misuse(what) == /\ status' = what
                /\ UNCHANGED <<config, net, pending, reset_number, next_socket, phase>>
Tables(n) == /\ net' = n
             /\ UNCHANGED <<config, pending, reset_number, next_socket, phase, status>>

(* Calls run from the run queue until a reset is pending, and when a       *)
(* message for them is processed.                                          *)
Running == status = "running"
RunsTasks == Running /\ phase = "run" /\ pending = {}
Processes == Running /\ phase = "process"
CallRuns(c) == (RunsTasks \/ Processes) /\ net.call[c] = "open"

(***************************************************************************)
(* The calls.                                                              *)
(***************************************************************************)
(* opentask::run() creates a call.                                         *)
OpenCall(c) ==
    /\ RunsTasks /\ ~config.server
    /\ c \in config.calls /\ net.call[c] = "new"
    /\ LET n == [net EXCEPT !.call[c] = "open"]
       IN  Tables(IF config.multisocket THEN n ELSE AssociateCounted(n, c, Multiplex))

(* process_message() creates a call for a message that came on s.          *)
IncomingCall(c, s) ==
    /\ Processes /\ config.server
    /\ c \in config.calls /\ net.call[c] = "new"
    /\ s \in InSlots(net) \ {Main}
    /\ Tables(AssociateCounted([net EXCEPT !.call[c] = "open"], c, s))

(* connect_socket_if_needed(): whether it needs one.                       *)
NeedsSocket(c) ==
    /\ config.multisocket
    /\ IF net.call_socket[c] = NoSocket THEN TRUE
       ELSE net.socket[net.call_socket[c]].invalid

(* new_sipp_call_socket() with room for another socket; the call ends when *)
(* the connection is refused.                                              *)
Connect(c, s) ==
    /\ CallRuns(c) /\ NeedsSocket(c)
    /\ Len(net.slots) < config.maxSockets
    /\ ~net.socket[s].alive
    /\ FreeFds(net) # {}
    /\ \E l \in {"up", "down"} :
         LET n == Associate(Allocate(net, s, LowestFd(net), "call", l), c, s)
         IN  \/ l = "up" /\ Tables(n)
             \/ l = "down" /\ ~reconnect_allowed /\ Exit
             \/ /\ l = "down" /\ reconnect_allowed
                /\ net' = DeleteCall(n, c)
                /\ reset_number' = Decremented(reset_number)
                /\ UNCHANGED <<config, pending, next_socket, phase, status>>

(* new_sipp_call_socket() at the limit: the slots are searched from        *)
(* next_socket on.  The search also counts as failed when it finds a       *)
(* socket in the slot before the one where it began.                       *)
SlotAfter(k) == (next_socket + k) % Len(net.slots)
Shareable(s) == net.socket[s].ofCall /\ ~net.socket[s].changed
Share(c) ==
    /\ CallRuns(c) /\ NeedsSocket(c)
    /\ Len(net.slots) >= config.maxSockets
    /\ LET found == {k \in 0..Len(net.slots)-1 :
                        Shareable(net.slots[SlotAfter(k) + 1].sock)}
       IN  IF found = {} \/ Min(found) = Len(net.slots) - 1 THEN Exit
           ELSE /\ net' = AssociateCounted(net, c, net.slots[SlotAfter(Min(found)) + 1].sock)
                /\ next_socket' = SlotAfter(Min(found) + 1)
                /\ UNCHANGED <<config, pending, reset_number, phase, status>>

(* The socket send_raw() writes to, the last one for a call without its    *)
(* own: sockets[-1] when none is left.                                     *)
NoTarget(c) == net.call_socket[c] = NoSocket /\ net.slots = << >>
Target(c) == IF net.call_socket[c] = NoSocket THEN LastSlot(net).sock
             ELSE net.call_socket[c]

(* What write_socket() can meet: the message is taken; a broken pipe, also *)
(* on an invalid socket; another error.                                    *)
Outcomes(s) ==
    IF net.socket[s].invalid THEN {"EPIPE"}
    ELSE IF net.socket[s].fd = INVALID_SOCKET THEN {"error"}
    ELSE CASE net.line[net.socket[s].fd] \in {"up", "fin"} -> {"taken"}
           [] net.line[net.socket[s].fd] = "rst" -> {"EPIPE", "error"}
           [] OTHER -> {"EPIPE"}

(* send_raw() fails: write_error(), then the call is deleted, and misused  *)
(* by abortCall() which does not expect that.                              *)
SendFails(c, s, outcome, afterwards) ==
    IF outcome = "EPIPE" /\ ~reconnect_allowed THEN Exit
    ELSE /\ LET n == IF outcome = "EPIPE" THEN CloseFd(net, s) ELSE net
            IN  net' = DeleteCall(n, c)
         /\ pending' = IF outcome = "EPIPE" THEN pending \cup {s} ELSE pending
         /\ status' = afterwards
         /\ UNCHANGED <<config, reset_number, next_socket, phase>>

Send(c) ==
    /\ CallRuns(c) /\ ~NeedsSocket(c)
    /\ IF NoTarget(c) THEN Misuse("no socket")
       ELSE \E outcome \in Outcomes(Target(c)) :
              \/ outcome = "taken" /\ UNCHANGED vars
              \/ outcome # "taken" /\ SendFails(c, Target(c), outcome, "running")

(* terminate(): the scenario is over.                                      *)
EndCall(c) == CallRuns(c) /\ Tables(DeleteCall(net, c))

(* abortCall() of a client that got a message says BYE or CANCEL first,    *)
(* without a look at its socket.                                           *)
AbortCall(c) ==
    /\ CallRuns(c) /\ ~config.server
    /\ \E s \in Addresses : c \in net.owners[s]
    /\ IF NoTarget(c) THEN Misuse("no socket")
       ELSE \E outcome \in Outcomes(Target(c)) :
              \/ outcome = "taken" /\ Tables(DeleteCall(net, c))
              \/ outcome # "taken" /\ SendFails(c, Target(c), outcome, "deleted call")

(* The action closecon: the call forgets its socket, and stays an owner.   *)
CloseCon(c) ==
    /\ CallRuns(c) /\ config.closecon
    /\ net.call_socket[c] # NoSocket
    /\ LET s == net.call_socket[c]
       IN  Tables([Close(Invalidate(net, s), s) EXCEPT !.call_socket[c] = NoSocket])

(* The action setdest: the connection of the call is replaced by one to    *)
(* another destination; a call without a socket gets one first.            *)
Redirected(c, n, s) ==
    LET m == CloseFd([n EXCEPT !.socket[s].changed = TRUE], s)
    IN  \/ Tables(Reconnect(m, s, "up"))
        \/ ~reconnect_allowed /\ Exit
        \/ /\ reconnect_allowed
           /\ net' = DeleteCall(Reconnect(m, s, "down"), c)
           /\ reset_number' = Decremented(reset_number)
           /\ UNCHANGED <<config, pending, next_socket, phase, status>>

SetDest(c) ==
    /\ CallRuns(c) /\ config.setdest
    /\ LET s == net.call_socket[c]
       IN  IF ~config.multisocket THEN Exit
           ELSE IF s = NoSocket
           THEN /\ Len(net.slots) < config.maxSockets
                /\ FreeFds(net) # {}
                /\ \E new \in {a \in Addresses : ~net.socket[a].alive} :
                     Redirected(c, Associate(Allocate(net, new, LowestFd(net), "call", "down"),
                                             c, new), new)
           ELSE IF net.socket[s].count > 1 THEN Exit
           ELSE /\ net.socket[s].fd # INVALID_SOCKET \/ FreeFds(net) # {}
                /\ Redirected(c, net, s)

(***************************************************************************)
(* The peers, and the main loop.                                           *)
(***************************************************************************)
PeerCloses(f) == Running /\ net.line[f] = "up" /\ Tables([net EXCEPT !.line[f] = "fin"])
PeerResets(f) == Running /\ net.line[f] = "up" /\ Tables([net EXCEPT !.line[f] = "rst"])

(* The loop of pollset_process() over the slots accepts a connection,      *)
Accept(s) ==
    /\ Running /\ phase = "read" /\ config.server
    /\ ~net.socket[s].alive
    /\ FreeFds(net) # {}
    /\ Tables(Allocate(net, s, LowestFd(net), "process", "up"))

(* and reads what the poll of a slot's descriptor reports: the end of the  *)
(* connection, or an error, or it waits for what another one has.          *)
Polled(i) == Running /\ phase = "read" /\ net.line[net.slots[i].fd] \in Readable
ReadOf(i) == LET fd == net.socket[net.slots[i].sock].fd
             IN  IF fd = INVALID_SOCKET THEN "closed" ELSE net.line[fd]

ReadEnd(i) ==
    /\ Polled(i) /\ ReadOf(i) = "fin"
    /\ LET s == net.slots[i].sock
           n == Invalidate(net, s)
       IN  IF config.resetClose /\ HasDeadOwner(n, s) THEN Misuse("deleted owner")
           ELSE Tables(IF config.resetClose THEN CloseCalls(n, s) ELSE n)

ReadError(i) ==
    /\ Polled(i) /\ ReadOf(i) \in {"rst", "down", "closed"}
    /\ LET s == net.slots[i].sock
       IN  IF ~reconnect_allowed THEN Exit
           ELSE /\ net' = CloseFd(net, s)
                /\ pending' = pending \cup {s}
                /\ UNCHANGED <<config, reset_number, next_socket, phase, status>>

ReadBlocks(i) == Polled(i) /\ ReadOf(i) = "up" /\ Misuse("blocked")

Read(i) == i \in DOMAIN net.slots /\ (ReadEnd(i) \/ ReadError(i) \/ ReadBlocks(i))

EndRun == /\ RunsTasks
          /\ phase' = "read"
          /\ UNCHANGED <<config, net, pending, reset_number, next_socket, status>>

(* The loop visits every slot that is reported.                            *)
EndRead == /\ Running /\ phase = "read"
           /\ \A i \in DOMAIN net.slots : ~Polled(i)
           /\ phase' = "process"
           /\ UNCHANGED <<config, net, pending, reset_number, next_socket, status>>

EndProcess == /\ Processes
              /\ phase' = "run"
              /\ UNCHANGED <<config, net, pending, reset_number, next_socket, status>>

(* reset_connection() of a socket.  With -reconnect_close, or when there   *)
(* is no connection to be had, its calls are closed.                       *)
ResetResult(s, n, l) ==
    LET m == Reconnect(n, s, l)
    IN  IF l = "down" /\ ~HasDeadOwner(m, s) THEN CloseCalls(m, s) ELSE m

Reset(s) ==
    /\ Running /\ phase = "run" /\ s \in pending
    /\ LET closed == IF config.resetClose /\ net.socket[s].alive /\ ~HasDeadOwner(net, s)
                     THEN CloseCalls(net, s) ELSE net
       IN  IF ~reconnect_allowed THEN Exit
           ELSE IF ~net.socket[s].alive THEN Misuse("freed socket")
           ELSE IF config.resetClose /\ HasDeadOwner(net, s) THEN Misuse("deleted owner")
           ELSE IF ~closed.socket[s].alive THEN Misuse("freed socket")
           ELSE IF closed.socket[s].fd # INVALID_SOCKET THEN Misuse("assertion")
           ELSE /\ FreeFds(closed) # {}
                /\ \E l \in {"up", "down"} :
                     /\ net' = ResetResult(s, closed, l)
                     /\ status' = IF l = "down" /\ HasDeadOwner(closed, s)
                                  THEN "deleted owner" ELSE status
                /\ pending' = pending \ {s}
                /\ reset_number' = Decremented(reset_number)
                /\ UNCHANGED <<config, next_socket, phase>>

CallStep(c) == \/ OpenCall(c) \/ Share(c) \/ Send(c)
               \/ EndCall(c) \/ AbortCall(c) \/ CloseCon(c) \/ SetDest(c)
               \/ \E s \in Addresses : IncomingCall(c, s) \/ Connect(c, s)
Slots == 1..Cardinality(Addresses)

Next == \/ \E c \in Calls : CallStep(c)
        \/ \E f \in Fd : PeerCloses(f) \/ PeerResets(f)
        \/ \E s \in Addresses : Accept(s) \/ Reset(s)
        \/ \E i \in Slots : Read(i)
        \/ EndRun \/ EndRead \/ EndProcess

(* traffic_thread() goes round, and its poll reads every slot.             *)
Fairness == /\ \A i \in Slots : WF_vars(Read(i))
            /\ \A s \in Addresses : WF_vars(Reset(s))
            /\ WF_vars(EndRun) /\ WF_vars(EndRead) /\ WF_vars(EndProcess)

Spec == Init /\ [][Next]_vars /\ Fairness

(***************************************************************************)
(* Properties.                                                             *)
(***************************************************************************)
TypeOK ==
    /\ config \in Configurations
    /\ net.socket \in [Addresses -> [alive: BOOLEAN, fd: Fd \cup {INVALID_SOCKET},
                          invalid: BOOLEAN, pollidx: 0..Cardinality(Addresses),
                          count: Nat, ofCall: BOOLEAN, changed: BOOLEAN]]
    /\ net.slots \in Seq([sock: Addresses, fd: Fd])
    /\ Len(net.slots) <= Cardinality(Addresses)
    /\ net.line \in [Fd -> Line]
    /\ net.owners \in [Addresses -> SUBSET Calls]
    /\ net.call \in [Calls -> {"new", "open", "over"}]
    /\ net.call_socket \in [Calls -> Addresses \cup {NoSocket}]
    /\ pending \subseteq Addresses
    /\ reset_number \in IF config.resets <= 0 THEN {config.resets} ELSE 0..config.resets
    /\ next_socket \in 0..Cardinality(Addresses)
    /\ phase \in {"run", "read", "process"}
    /\ status \in {"running", "exited", "blocked", "deleted call", "deleted owner",
                   "freed socket", "assertion", "no socket"}

Users(s) == {c \in Calls : net.call_socket[c] = s}
OwnReference(s) == IF net.socket[s].ofCall THEN 0 ELSE 1

(* A call leaves its socket before its end by closecon, or when the peer   *)
(* closed it and -reconnect_close is off.                                  *)
CallsStay == ~config.closecon /\ ~(config.multisocket /\ ~config.resetClose)

(* Descriptors of connections that are replaced stay the same where only   *)
(* one connection can break: without closecon, no call writes to           *)
(* main_socket.                                                            *)
StableFds ==
    /\ ~config.setdest
    /\ config.resets = 0 \/ (~config.multisocket /\ ~config.server /\ ~config.closecon)

(* The slots hold every socket that is not invalid, once, and each socket  *)
(* knows its slot, however sockets are closed, moved and resurrected; and  *)
(* the poll of a slot reports the connection that is read then, so that    *)
(* "we have only non-blocking reads" (sipp_socket_invalidate,              *)
(* sipp_reconnect_socket, read_error).                                     *)
SlotsSound ==
    /\ \A i \in DOMAIN net.slots :
         LET k == net.socket[net.slots[i].sock]
         IN  /\ k.alive /\ ~k.invalid /\ k.pollidx = i
             /\ StableFds => k.fd \in {net.slots[i].fd, INVALID_SOCKET}
    /\ \A s \in Addresses :
         net.socket[s].alive /\ ~net.socket[s].invalid => s \in InSlots(net)

(* close_calls() reaches every call of a socket, and as long as calls stay *)
(* with their sockets no other one (socketowner.cpp).                      *)
OwnersExact ==
    \A s \in Addresses :
        /\ Users(s) \subseteq net.owners[s]
        /\ CallsStay => net.owners[s] = Users(s)

(* The count of a socket covers its users, so that none is left with a     *)
(* freed one; and where calls stay, the last of them frees it.             *)
CountsUsers ==
    \A s \in Addresses :
        LET k == net.socket[s]
        IN  /\ Users(s) # {} => k.alive
            /\ k.alive => k.count >= Cardinality(Users(s)) + OwnReference(s)
            /\ k.alive /\ CallsStay => k.count = Cardinality(Users(s)) + OwnReference(s)

(* Where the process may reset connections of several sockets, or calls    *)
(* change theirs, memory is misused (section 5 of the README); elsewhere a *)
(* reset and close_calls() only meet what is still allocated.              *)
NoMisuse == CallsStay /\ StableFds => status \in {"running", "exited", "deleted call"}

(* close_calls() closes "just those calls for a given socket".             *)
ClosesOnlyItsCalls ==
    [][\A i \in Slots : Read(i) =>
          \A c \in Calls : net.call[c] = "open" /\ net'.call[c] = "over"
                            => net.call_socket[c] = net.slots[i].sock]_vars

(* With -reconnect_close, every call whose connection breaks ends: its     *)
(* break is found, whichever slot its socket has come to.                  *)
Broken(c) == /\ net.call_socket[c] # NoSocket
             /\ net.socket[net.call_socket[c]].fd # INVALID_SOCKET
             /\ net.line[net.socket[net.call_socket[c]].fd] \in Readable
BrokenCallsEnd ==
    \A c \in Calls :
        config.resetClose /\ CallsStay /\ StableFds /\ Broken(c)
            ~> net.call[c] = "over" \/ status # "running"
=============================================================================
