-------------------------------- MODULE Call --------------------------------
(***************************************************************************)
(* The calls of call.cpp over UDP: each agent is one sipp process running  *)
(* a scenario, a client that originates a call or a server that answers    *)
(* it.  A call walks its scenario, retransmits what was not answered,      *)
(* answers retransmissions of its peer, and is aborted by what it does not *)
(* expect or by what does not come.                                        *)
(*                                                                         *)
(* The network loses, repeats and reorders: whatever an agent sent may be  *)
(* delivered at any time, any number of times, or never, so that `sent'    *)
(* only grows.  Time is abstracted to timers that are off, armed or due:   *)
(* an armed timer may become due at any time, the time wake() returns is   *)
(* behind the clock when some timer is due.  run() calls next(), which     *)
(* calls run() again: `control' is the agent in that recursion, and no     *)
(* other event happens meanwhile.                                          *)
(***************************************************************************)
EXTENDS Integers, FiniteSets, FiniteSetsExt

CONSTANTS Agent,
          Peer,          \* Agent -> the agent it talks to
          Server,        \* the agents with creationMode = MODE_SERVER
          Configurations,\* the scenarios and options the runs are started with
          MaxRetrans,    \* the least of the three limits on retransmissions
          MaxCalls       \* bound on the calls an agent creates

Option == {"RecvTimeout", "SendTimeout", "DeadcallWait", "AbsorbRetrans",
           "Congestion", "SendErrors"}

VARIABLES config,    \* the scenarios and options of this run
          call,      \* agent -> its call object
          dead,      \* agent -> a deadcall listens to its Call-ID
          sent,      \* agent -> the messages it has sent
          nb_recv,   \* agent -> index -> how often that message was received
          created,   \* agent -> the calls created so far
          succeeded, \* agent -> the calls counted as successful
          failed,    \* agent -> the calls counted as failed
          control,   \* the agent whose call is inside run(), or NoAgent
          undefined  \* a call object was used after its deletion

vars == <<config, call, dead, sent, nb_recv, created, succeeded, failed,
          control, undefined>>

(* The command line: the scenario of each agent, from index 0; whether     *)
(* there is a defl_recv_timeout, a defl_send_timeout, a deadcall_wait and  *)
(* absorb_retrans; whether sockets may be congested and sending may fail.  *)
Scenario == config.scenario
RecvTimeout == "RecvTimeout" \in config.options
SendTimeout == "SendTimeout" \in config.options
DeadcallWait == "DeadcallWait" \in config.options
AbsorbRetrans == "AbsorbRetrans" \in config.options
Congestion == "Congestion" \in config.options
SendErrors == "SendErrors" \in config.options

NoAgent == "nobody"
Timer == {"off", "armed", "due"}

(* A message: its code, 0 for a request, and the method of its CSeq.  What *)
(* hash() computes from a message is the message.                          *)
Msg(code, method) == [code |-> code, method |-> method]
IsRequest(m) == m.code = 0
NoMsg == Msg(0, "none")
INVITE == Msg(0, "INVITE")
ACK    == Msg(0, "ACK")
BYE    == Msg(0, "BYE")
CANCEL == Msg(0, "CANCEL")

(* The elements of a scenario, with the defaults of message::message().    *)
Element(type, msg) ==
    [type       |-> type,  \* "send", "recv" or "pause"
     msg        |-> msg,
     optional   |-> FALSE,
     retrans    |-> FALSE, \* retrans_delay is set
     timeout    |-> FALSE, \* the element's own timeout is set
     on_timeout |-> -1,    \* the label to jump to
     next       |-> -1,    \* the label to branch to
     test       |-> TRUE,  \* test is -1, or its variable is set
     advance_state |-> TRUE,
     txn        |-> FALSE] \* use_txn: the branch must match

Elements ==
    [type : {"send", "recv", "pause"}, msg : [code : Nat, method : STRING],
     optional : BOOLEAN, retrans : BOOLEAN, timeout : BOOLEAN,
     on_timeout : Nat \cup {-1}, next : Nat \cup {-1}, test : BOOLEAN,
     advance_state : BOOLEAN, txn : BOOLEAN]

(* checkOptionalRecv(): optional messages are followed by a mandatory one, *)
(* the loader refuses anything else.                                       *)
checkOptionalRecv(s, i) == s[i].optional => /\ s[i].type = "recv"
                                            /\ i + 1 \in DOMAIN s
                                            /\ s[i + 1].type = "recv"

(* What the loader accepts: "Did not find any messages inside of scenario" *)
(* otherwise, and only optional messages do not advance the state.         *)
Loaded(s) == LET n == Cardinality(DOMAIN s)
             IN  /\ n \in Nat \ {0}
                 /\ s \in [0..n-1 -> Elements]
                 /\ \A i \in 0..n-1 : checkOptionalRecv(s, i)
                 /\ \A i \in 0..n-1 : s[i].advance_state \/ s[i].optional

ASSUME CallAssumption ==
    /\ MaxRetrans \in Nat
    /\ MaxCalls \in Nat
    /\ NoAgent \notin Agent
    /\ \A a \in Agent : Peer[a] \in Agent
    /\ \A c \in Configurations : /\ c.options \subseteq Option
                                 /\ \A a \in Agent : Loaded(c.scenario[a])

Size(a) == Cardinality(DOMAIN Scenario[a])
Names(s) == {s[i].msg : i \in DOMAIN s}
Scripted == UNION {UNION {Names(c.scenario[a]) : a \in Agent} : c \in Configurations}
Messages == Scripted \cup {NoMsg, ACK, BYE, CANCEL}
                     \cup {Msg(200, "BYE"), Msg(200, "CANCEL")}

(* call::init()                                                            *)
NewCall ==
    [live             |-> TRUE,
     running          |-> TRUE,
     msg_index        |-> 0,
     last_send_index  |-> 0,
     last_send_msg    |-> NoMsg,
     last_recv_index  |-> -1,
     last_recv_hash   |-> NoMsg,
     last_recv_msg    |-> NoMsg,  \* getDefaultLastReceivedMessage()
     recv_retrans_hash       |-> NoMsg,
     recv_retrans_recv_index |-> -1,
     recv_retrans_send_index |-> -1,
     recvhash_msgindex_pairs |-> {},
     next_retrans     |-> "off",
     nb_retrans       |-> 0,
     paused_until     |-> "off",
     recv_timeout     |-> "off",
     send_timeout     |-> "off",
     call_established |-> FALSE,
     ack_is_pending   |-> FALSE]
NoCall == [NewCall EXCEPT !.live = FALSE, !.running = FALSE]

CallType ==
    [live : BOOLEAN, running : BOOLEAN, msg_index : Nat, last_send_index : Nat,
     last_send_msg : Messages, last_recv_index : Int,
     last_recv_hash : Messages, last_recv_msg : Messages,
     recv_retrans_hash : Messages, recv_retrans_recv_index : Int,
     recv_retrans_send_index : Int,
     recvhash_msgindex_pairs : SUBSET (Messages \X Nat),
     next_retrans : Timer, nb_retrans : Nat, paused_until : Timer,
     recv_timeout : Timer, send_timeout : Timer,
     call_established : BOOLEAN, ack_is_pending : BOOLEAN]

(* The objects keep their types, an index stays inside the scenario, the   *)
(* call in control lives, and every call that does not live was counted    *)
(* once: as a success or as a failure.                                     *)
TypeOK == /\ config \in Configurations
          /\ \A a \in Agent : /\ call[a] \in CallType
                              /\ call[a].msg_index < Size(a)
                              /\ sent[a] \subseteq Messages
                              /\ \A i \in DOMAIN Scenario[a] : nb_recv[a][i] \in Nat
                              /\ created[a] \in 0..MaxCalls
          /\ dead \in [Agent -> BOOLEAN]
          /\ control \in Agent \cup {NoAgent}
          /\ control \in Agent => call[control].live
          /\ undefined \in BOOLEAN
          /\ \A a \in Agent : ~undefined =>
               succeeded[a] + failed[a] + (IF call[a].live THEN 1 ELSE 0) = created[a]

Init == /\ config \in Configurations
        /\ call = [a \in Agent |-> NoCall]
        /\ dead = [a \in Agent |-> FALSE]
        /\ sent = [a \in Agent |-> {}]
        /\ nb_recv = [a \in Agent |-> [i \in DOMAIN Scenario[a] |-> 0]]
        /\ created = [a \in Agent |-> 0]
        /\ succeeded = [a \in Agent |-> 0]
        /\ failed = [a \in Agent |-> 0]
        /\ control = NoAgent
        /\ undefined = FALSE

-----------------------------------------------------------------------------
(* How a handler leaves the call: it returns to the main loop, it goes on  *)
(* to run() of the same call, or the call is deleted.                      *)
Returns(a, c) == /\ call' = [call EXCEPT ![a] = c]
                 /\ control' = NoAgent
                 /\ UNCHANGED <<dead, succeeded, failed>>

RunsOn(a, c) == /\ call' = [call EXCEPT ![a] = c]
                /\ control' = a
                /\ UNCHANGED <<dead, succeeded, failed>>

Delete(a, listens) == /\ call' = [call EXCEPT ![a] = NoCall]
                      /\ dead' = [dead EXCEPT ![a] = listens]
                      /\ control' = NoAgent

Fails(a, listens) == /\ Delete(a, listens)
                     /\ failed' = [failed EXCEPT ![a] = @ + 1]
                     /\ UNCHANGED succeeded

(* terminate(E_CALL_SUCCESSFULLY_ENDED)                                    *)
terminate(a) == /\ Delete(a, DeadcallWait)
                /\ succeeded' = [succeeded EXCEPT ![a] = @ + 1]
                /\ UNCHANGED failed

(* The next message: the branch when its test holds, or the one after.     *)
NextIndex(e, i) == IF e.next >= 0 /\ e.test THEN e.next ELSE i + 1

(* A slip: the end of the scenario is taken for a message.                 *)
next_PastEnd(a, c) ==
    LET i == NextIndex(Scenario[a][c.msg_index], c.msg_index)
    IN  IF i > Size(a)
          THEN terminate(a)
          ELSE RunsOn(a, [c EXCEPT !.msg_index = i, !.recv_timeout = "off"])

(* next(): the end of the scenario is the success of the call.             *)
next(a, c) ==
    LET i == NextIndex(Scenario[a][c.msg_index], c.msg_index)
    IN  IF i >= Size(a)
          THEN terminate(a)
          ELSE RunsOn(a, [c EXCEPT !.msg_index = i, !.recv_timeout = "off"])

(* A slip: the answer to the INVITE is forgotten.                          *)
AbortMessages_NoAckPending(a, c) ==
    IF a \in Server \/ c.msg_index = 0 THEN {}
    ELSE IF ~c.call_established /\ c.last_send_msg = INVITE THEN {CANCEL}
    ELSE IF c.last_recv_msg # NoMsg THEN {BYE} ELSE {}

(* What abortCall() sends: it depends on whether the INVITE of the client  *)
(* was answered.  getDefaultLastReceivedMessage().c_str() is never NULL,   *)
(* so that an INVITE without any answer is cancelled too.                  *)
AbortMessages(a, c) ==
    IF a \in Server \/ c.msg_index = 0 THEN {}
    ELSE IF ~c.call_established /\ c.last_send_msg = INVITE
      THEN IF c.last_recv_msg.code >= 400 THEN {ACK}
           ELSE IF c.ack_is_pending THEN {ACK, BYE}
           ELSE {CANCEL}
    ELSE IF c.last_recv_msg # NoMsg THEN {BYE} ELSE {}

(* sendBuffer() of ms, after which the call fails.  When send_raw() fails  *)
(* it has deleted the call, which the caller goes on to use.               *)
FailsSending(a, ms, listens) ==
    /\ \/ sent' = [sent EXCEPT ![a] = @ \cup ms] /\ UNCHANGED undefined
       \/ SendErrors /\ ms # {} /\ undefined' = TRUE /\ UNCHANGED sent
    /\ Fails(a, listens)

abortCall(a, c) == FailsSending(a, AbortMessages(a, c), DeadcallWait)

-----------------------------------------------------------------------------
(* run()                                                                   *)
Runs(a) == /\ call[a].live
           /\ \/ control = a
              \/ control = NoAgent /\ call[a].running

(* The last message was not answered in time: it is sent again.  send_raw  *)
(* returns -1 for every failure, after deleting the call, and run() looks  *)
(* for less than -1.                                                       *)
Retransmit(a) ==
    LET c == call[a]
    IN  /\ Runs(a)
        /\ c.next_retrans = "due"
        /\ c.nb_retrans < MaxRetrans
        /\ \/ /\ RunsOn(a, [c EXCEPT !.next_retrans = "armed",
                                     !.nb_retrans = @ + 1])
              /\ UNCHANGED undefined
           \/ SendErrors /\ Fails(a, FALSE) /\ undefined' = TRUE
        /\ UNCHANGED <<sent, nb_recv, created>>

(* It was sent as often as allowed: jump to its ontimeout label, or abort. *)
GiveUp(a) ==
    LET c == [call[a] EXCEPT !.nb_retrans = @ + 1]
        label == Scenario[a][c.last_send_index].on_timeout
    IN  /\ Runs(a)
        /\ c.next_retrans = "due"
        /\ c.nb_retrans > MaxRetrans
        /\ IF label \in DOMAIN Scenario[a]
             THEN /\ Returns(a, [c EXCEPT !.msg_index = label,
                                          !.next_retrans = "off",
                                          !.recv_timeout = "off"])
                  /\ UNCHANGED <<sent, undefined>>
             ELSE abortCall(a, c)
        /\ UNCHANGED <<nb_recv, created>>

(* The rest of run(), when no retransmission is due.                       *)
Steps(a) == Runs(a) /\ call[a].next_retrans # "due"

StaysPaused(a) == /\ Steps(a)
                  /\ call[a].paused_until = "armed"
                  /\ Returns(a, [call[a] EXCEPT !.running = FALSE])
                  /\ UNCHANGED <<sent, nb_recv, created, undefined>>

PauseEnds(a) == /\ Steps(a)
                /\ call[a].paused_until = "due"
                /\ next(a, [call[a] EXCEPT !.paused_until = "off"])
                /\ UNCHANGED <<sent, nb_recv, created, undefined>>

(* executeMessage(), by the type of the current message.                   *)
Executes(a, type) == /\ Steps(a)
                     /\ call[a].paused_until = "off"
                     /\ Scenario[a][call[a].msg_index].type = type

ExecutePause(a) ==
    /\ Executes(a, "pause")
    /\ Returns(a, [call[a] EXCEPT !.paused_until = "armed", !.running = FALSE])
    /\ UNCHANGED <<sent, nb_recv, created, undefined>>

(* No new message is sent before the last one was answered.                *)
SendWaits(a) == /\ Executes(a, "send")
                /\ call[a].next_retrans = "armed"
                /\ Returns(a, [call[a] EXCEPT !.running = FALSE])
                /\ UNCHANGED <<sent, nb_recv, created, undefined>>

(* A slip: the global timeout is forgotten.                                *)
Timed_OwnOnly(a, c, global) == Scenario[a][c.msg_index].timeout

(* The current message has a timeout of its own, or there is a global one. *)
Timed(a, c, global) == Scenario[a][c.msg_index].timeout \/ global

(* send_scene() returns before anything is sent: the call tries again.  It *)
(* does not set errno, which says EWOULDBLOCK only by chance: otherwise no *)
(* timeout is looked at.                                                   *)
SendIsCongested(a) ==
    LET c == call[a]
    IN  /\ Congestion
        /\ Executes(a, "send")
        /\ c.next_retrans = "off"
        /\ \/ Returns(a, c)
           \/ /\ c.send_timeout = "off"
              /\ Timed(a, c, SendTimeout)
              /\ Returns(a, [c EXCEPT !.send_timeout = "armed"])
        /\ UNCHANGED <<sent, nb_recv, created, undefined>>

SendTimesOut(a) ==
    LET c == call[a]
    IN  /\ Congestion
        /\ Executes(a, "send")
        /\ c.next_retrans = "off"
        /\ c.send_timeout = "due"
        /\ abortCall(a, c)
        /\ UNCHANGED <<nb_recv, created>>

(* send_raw() fails, counts the failure and deletes the call.              *)
SendFails(a) == /\ SendErrors
                /\ Executes(a, "send")
                /\ call[a].next_retrans = "off"
                /\ Fails(a, FALSE)
                /\ UNCHANGED <<sent, nb_recv, created, undefined>>

(* send_scene(): an ACK establishes the call.                              *)
Sends(c, m) == IF m = ACK
                 THEN [c EXCEPT !.call_established = TRUE, !.ack_is_pending = FALSE]
                 ELSE c

(* "There is a great chance that we will be asked to retransmit this       *)
(* message": what was received last is answered by message i from now on.  *)
AnswerTo(c, i) ==
    IF c.last_recv_index < 0 THEN c
    ELSE [c EXCEPT !.recv_retrans_hash = c.last_recv_hash,
                   !.recv_retrans_recv_index = c.last_recv_index,
                   !.recv_retrans_send_index = i,
                   !.last_recv_hash = NoMsg]

ExecuteSend(a) ==
    LET c == call[a]
        e == Scenario[a][c.msg_index]
        c2 == [AnswerTo(Sends(c, e.msg), c.msg_index) EXCEPT
                 !.send_timeout = "off",
                 !.last_send_index = c.msg_index,
                 !.last_send_msg = e.msg,
                 !.next_retrans = IF e.retrans THEN "armed" ELSE "off",
                 !.nb_retrans = IF e.retrans THEN 0 ELSE @]
    IN  /\ Executes(a, "send")
        /\ c.next_retrans = "off"
        /\ sent' = [sent EXCEPT ![a] = @ \cup {e.msg}]
        /\ next(a, c2)
        /\ UNCHANGED <<nb_recv, created, undefined>>

(* The first run() at a recv arms its timeout and leaves the call on the   *)
(* run queue, the second one puts it to sleep.                             *)
ExecuteRecv(a) ==
    LET c == call[a]
    IN  /\ Executes(a, "recv")
        /\ c.recv_timeout # "due"
        /\ IF c.recv_timeout = "off" /\ Timed(a, c, RecvTimeout)
             THEN Returns(a, [c EXCEPT !.recv_timeout = "armed"])
             ELSE Returns(a, [c EXCEPT !.running = FALSE])
        /\ UNCHANGED <<sent, nb_recv, created, undefined>>

RecvTimesOut(a) ==
    LET c == [call[a] EXCEPT !.recv_timeout = "off"]
        label == Scenario[a][c.msg_index].on_timeout
    IN  /\ Executes(a, "recv")
        /\ call[a].recv_timeout = "due"
        /\ IF label \in DOMAIN Scenario[a]
             THEN /\ Returns(a, [c EXCEPT !.msg_index = label])
                  /\ UNCHANGED <<sent, undefined>>
             ELSE abortCall(a, c)
        /\ UNCHANGED <<nb_recv, created>>

-----------------------------------------------------------------------------
(* process_message(): the call that listens gets the message; without one, *)
(* a server creates a call and a client discards the message.  A deadcall  *)
(* takes it without doing anything.                                        *)
Arrives(a, m) ==
    /\ control = NoAgent
    /\ m \in sent[Peer[a]]
    /\ \/ call[a].live /\ UNCHANGED created
       \/ /\ ~call[a].live
          /\ a \in Server
          /\ ~dead[a]
          /\ created[a] < MaxCalls
          /\ created' = [created EXCEPT ![a] = @ + 1]

(* process_incoming() starts with setRunning().                            *)
Handler(a) == IF call[a].live THEN [call[a] EXCEPT !.running = TRUE] ELSE NewCall

(* "Detects retransmissions from peer": of the message that the last sends *)
(* answered, and of the last message received when nothing was sent since. *)
IsRetransmission(c, m) == /\ ~AbsorbRetrans
                          /\ c.recv_retrans_recv_index >= 0
                          /\ c.recv_retrans_hash = m
IsDuplicate(c, m) == /\ ~AbsorbRetrans
                     /\ c.last_recv_index >= 0
                     /\ c.last_recv_hash = m

ReceiveRetransmission(a, m) ==
    LET c == Handler(a)
        answer == Scenario[a][c.recv_retrans_send_index].msg
    IN  /\ Arrives(a, m)
        /\ IsRetransmission(c, m)
        /\ \/ /\ sent' = [sent EXCEPT ![a] = @ \cup {answer}]
              /\ Returns(a, Sends(c, answer))
           \/ Congestion /\ Returns(a, c) /\ UNCHANGED sent
           \/ SendErrors /\ Fails(a, FALSE) /\ UNCHANGED sent
        /\ UNCHANGED <<nb_recv, undefined>>

ReceiveDuplicate(a, m) ==
    LET c == Handler(a)
    IN  /\ Arrives(a, m)
        /\ ~IsRetransmission(c, m)
        /\ IsDuplicate(c, m)
        /\ Returns(a, c)
        /\ UNCHANGED <<sent, nb_recv, undefined>>

(* The methods sent before a recv, without those of named transactions.    *)
recv_response_for_cseq_method_list(s, i) ==
    {s[j].msg.method : j \in {k \in 0..i-1 :
        /\ s[k].type = "send"
        /\ IsRequest(s[k].msg)
        /\ ~s[k].txn}}

(* matches_scenario(): a request by its method; a response by its code,    *)
(* and by its branch in a named transaction, else by one of the methods    *)
(* sent so far.                                                            *)
matches_scenario(s, i, m) ==
    LET e == s[i]
    IN  /\ e.type = "recv"
        /\ e.msg.code = m.code
        /\ IF IsRequest(m) \/ e.txn
             THEN e.msg.method = m.method
             ELSE i = 0 \/ m.method \in recv_response_for_cseq_method_list(s, i)

(* The search for the message from msg_index on: optional messages are     *)
(* skipped, and mandatory ones that match but were received by as many     *)
(* calls as were created.                                                  *)
Fresh(a, i) == Scenario[a][i].optional \/ nb_recv[a][i] < created'[a]

(* A slip: the search goes past mandatory messages that have not come.     *)
Found_PastMandatory(a, c, m) ==
    {i \in c.msg_index..Size(a)-1 :
       /\ matches_scenario(Scenario[a], i, m) /\ Fresh(a, i)
       /\ \A j \in c.msg_index..i-1 : Scenario[a][j].type = "recv"}

(* A slip: neither the branch of a response nor its method is compared.    *)
Found_AnyResponse(a, c, m) ==
    {i \in c.msg_index..Size(a)-1 :
       /\ Scenario[a][i].type = "recv" /\ Fresh(a, i)
       /\ Scenario[a][i].msg.code = m.code
       /\ IsRequest(m) => matches_scenario(Scenario[a], i, m)
       /\ \A j \in c.msg_index..i-1 : Scenario[a][j].optional}

Found(a, c, m) ==
    {i \in c.msg_index..Size(a)-1 :
       /\ matches_scenario(Scenario[a], i, m) /\ Fresh(a, i)
       /\ \A j \in c.msg_index..i-1 :
             \/ Scenario[a][j].optional
             \/ matches_scenario(Scenario[a], j, m) /\ ~Fresh(a, j)}

(* A slip: only what follows directly on the last send stops the timer.    *)
next_retrans_Adjacent(c, m, i) ==
    IF (IsRequest(m) => m \in {ACK, CANCEL, BYE}) /\ i = c.last_send_index + 1
      THEN "off" ELSE c.next_retrans

(* What a message that was found does to the retransmission timer.         *)
next_retrans(c, m, i) ==
    IF (IsRequest(m) => m \in {ACK, CANCEL, BYE}) /\ i > c.last_send_index
      THEN IF IsRequest(m) \/ m.code >= 200 \/ m.method = "INVITE"
             THEN "off" ELSE "armed"
      ELSE c.next_retrans

Established(c, m) == IF m = ACK THEN [c EXCEPT !.call_established = TRUE] ELSE c

(* An optional message without a test, or whose test holds, moves the call *)
(* on like a mandatory one: `next' is -1 without a label.  The receptions  *)
(* are counted up to MaxCalls, the most they are compared with.            *)
ReceiveExpected(a, m) ==
    LET c == Established(Handler(a), m)
        i == Min(Found(a, c, m))
        e == Scenario[a][i]
        c2 == [c EXCEPT !.recvhash_msgindex_pairs = @ \cup {<<m, i>>},
                        !.next_retrans = next_retrans(c, m, i),
                        !.ack_is_pending = @ \/ m.code \in 200..298]
        c3 == [c2 EXCEPT !.last_recv_index = i,
                         !.last_recv_hash = m,
                         !.last_recv_msg = m]
    IN  /\ Arrives(a, m)
        /\ ~IsRetransmission(c, m)
        /\ ~IsDuplicate(c, m)
        /\ Found(a, c, m) # {}
        /\ nb_recv' = [nb_recv EXCEPT ![a][i] = Min({@ + 1, MaxCalls})]
        /\ IF ~e.advance_state
             THEN Returns(a, c2)
           ELSE IF ~e.optional \/ (e.next # 0 /\ e.test)
             THEN next(a, [c3 EXCEPT !.paused_until = "off", !.msg_index = i])
           ELSE Returns(a, [c3 EXCEPT !.running = FALSE])
        /\ UNCHANGED <<sent, undefined>>

(* absorb_retrans: the message is among those the call has received.       *)
ReceivedBefore(c, m) ==
    AbsorbRetrans /\ \E p \in c.recvhash_msgindex_pairs : p[1] = m

(* The requests that are answered whatever the scenario expects.           *)
checkAutomaticResponseMode(m) == m \in {BYE, CANCEL}

(* E_AM_UNEXP_BYE and E_AM_UNEXP_CANCEL: a 200, and no deadcall.           *)
automaticResponseMode(a, m) == FailsSending(a, {Msg(200, m.method)}, FALSE)

(* The unexpected message is the last received one when the call aborts.   *)
process_unexpected(a, c, m) == abortCall(a, [c EXCEPT !.last_recv_msg = m])

(* absorb_retrans forgives what was received before; anything else that is *)
(* not found ends the call.                                                *)
ReceiveUnexpected(a, m) ==
    LET c == Established(Handler(a), m)
    IN  /\ Arrives(a, m)
        /\ ~IsRetransmission(c, m)
        /\ ~IsDuplicate(c, m)
        /\ Found(a, c, m) = {}
        /\ IF ReceivedBefore(c, m)
             THEN Returns(a, c) /\ UNCHANGED <<sent, undefined>>
           ELSE IF checkAutomaticResponseMode(m)
             THEN automaticResponseMode(a, m)
           ELSE process_unexpected(a, c, m)
        /\ UNCHANGED nb_recv

-----------------------------------------------------------------------------
(* opentask::run(): the client creates its call.                           *)
Originate(a) ==
    /\ control = NoAgent
    /\ a \notin Server
    /\ created[a] = 0
    /\ MaxCalls > 0
    /\ created' = [created EXCEPT ![a] = 1]
    /\ call' = [call EXCEPT ![a] = NewCall]
    /\ UNCHANGED <<config, dead, sent, nb_recv, succeeded, failed, control,
                   undefined>>

(* The clock goes past a timer.                                            *)
Elapse(a, timer) ==
    /\ call[a].live
    /\ call[a][timer] = "armed"
    /\ call' = [call EXCEPT ![a][timer] = "due"]
    /\ UNCHANGED <<config, dead, sent, nb_recv, created, succeeded, failed,
                   control, undefined>>

(* A slip: the receive timeout does not wake the call.                     *)
wake_NotForRecv(c) == {c.paused_until, c.next_retrans}

(* wake(): the timers a sleeping call waits for.                           *)
wake(c) == {c.paused_until, c.next_retrans, c.recv_timeout}

(* The earliest of them is behind the clock.                               *)
WakeUp(a) ==
    /\ control = NoAgent
    /\ call[a].live
    /\ ~call[a].running
    /\ "due" \in wake(call[a])
    /\ call' = [call EXCEPT ![a].running = TRUE]
    /\ UNCHANGED <<config, dead, sent, nb_recv, created, succeeded, failed,
                   control, undefined>>

(* deadcall::run(): it is forgotten.                                       *)
DeadcallExpires(a) ==
    /\ control = NoAgent
    /\ dead[a]
    /\ dead' = [dead EXCEPT ![a] = FALSE]
    /\ UNCHANGED <<config, call, sent, nb_recv, created, succeeded, failed,
                   control, undefined>>

Timers == {"next_retrans", "paused_until", "recv_timeout", "send_timeout"}

run(a) == \/ Retransmit(a) \/ GiveUp(a)
          \/ StaysPaused(a) \/ PauseEnds(a)
          \/ ExecutePause(a)
          \/ SendWaits(a) \/ SendIsCongested(a) \/ SendTimesOut(a) \/ SendFails(a)
          \/ ExecuteSend(a)
          \/ ExecuteRecv(a) \/ RecvTimesOut(a)

process_incoming(a, m) == /\ \/ ReceiveRetransmission(a, m)
                             \/ ReceiveDuplicate(a, m)
                             \/ ReceiveExpected(a, m)
                             \/ ReceiveUnexpected(a, m)
                          /\ UNCHANGED config

Step(a) == /\ control \in {NoAgent, a}
           /\ run(a)
           /\ UNCHANGED config

Next == /\ ~undefined
        /\ \E a \in Agent :
             \/ Step(a)
             \/ \E m \in Messages : process_incoming(a, m)
             \/ Originate(a)
             \/ \E timer \in Timers : Elapse(a, timer)
             \/ WakeUp(a)
             \/ DeadcallExpires(a)

(* The main loop runs its run queue and expires the sleepers; time passes. *)
Fairness == \A a \in Agent :
               /\ WF_vars(~undefined /\ Step(a))
               /\ WF_vars(~undefined /\ WakeUp(a))
               /\ \A timer \in Timers : WF_vars(~undefined /\ Elapse(a, timer))

Spec == Init /\ [][Next]_vars /\ Fairness
-----------------------------------------------------------------------------
(* What answers a message for good: a final response to a request, the ACK *)
(* of a response.                                                          *)
FinalAnswer(m, answer) == IF IsRequest(m)
                            THEN answer.code >= 200 /\ answer.method = m.method
                            ELSE answer = ACK

(* The peer has answered everything the scenario sends with retransmission.*)
Answered(a) ==
    \A i \in DOMAIN Scenario[a] :
       Scenario[a][i].type = "send" /\ Scenario[a][i].retrans =>
          \E answer \in sent[Peer[a]] : FinalAnswer(Scenario[a][i].msg, answer)

(* The scenario has no ontimeout label that skips a part of it, and its    *)
(* transactions are named.                                                 *)
Straight(a) == \A i \in DOMAIN Scenario[a] : Scenario[a][i].on_timeout < 0
Named(a) == \A i \in DOMAIN Scenario[a] :
               Scenario[a][i].type = "recv" /\ ~IsRequest(Scenario[a][i].msg)
                  => Scenario[a][i].txn

(* The scenarios in which no wait is left without a timer: none begins     *)
(* with an optional message, or with one that a later one can be taken     *)
(* for before the first run(); and no timeout jumps to a recv, whose timer *)
(* nobody would arm before the call is run again.                          *)
Prompt(s) == /\ s[0].type = "recv" => /\ ~s[0].optional
                                      /\ 1 \in DOMAIN s => s[1].type # "recv"
             /\ \A i \in DOMAIN s : s[i].on_timeout \in DOMAIN s =>
                                      s[s[i].on_timeout].type # "recv"

(* The scenarios in which every answer comes after what it answers: labels *)
(* lead forward, a timeout to where nothing is retransmitted any more; no  *)
(* message expected before a send could be its final answer; and only an   *)
(* INVITE has provisional responses.                                       *)
Hard(s, k) == s[k].type = "send" /\ s[k].retrans
Orderly(s) ==
    /\ \A i \in DOMAIN s :
         /\ s[i].next = -1 \/ s[i].next > i
         /\ s[i].on_timeout \in DOMAIN s =>
              /\ s[i].on_timeout > i
              /\ \A k \in DOMAIN s : Hard(s, k) => k < s[i].on_timeout
    /\ \A i \in DOMAIN s, m \in Messages : matches_scenario(s, i, m) =>
         /\ \A k \in DOMAIN s : Hard(s, k) /\ i < k => ~FinalAnswer(s[k].msg, m)
         /\ m.code \in 1..199 => m.method = "INVITE"

(* The scenarios that wait, with a mandatory message, for the final answer *)
(* to everything they send with retransmission, and whose labels lead      *)
(* forward and past nothing mandatory.                                     *)
Waited(s, j) == s[j].type = "recv" /\ ~s[j].optional
Awaiting(s) ==
    /\ \A i \in DOMAIN s : s[i].next = -1
                            \/ /\ s[i].next > i
                               /\ \A j \in DOMAIN s : i < j /\ j < s[i].next => ~Waited(s, j)
    /\ \A k \in DOMAIN s : Hard(s, k) =>
         \E j \in DOMAIN s : k < j /\ Waited(s, j) /\ FinalAnswer(s[k].msg, s[j].msg)

(* The scenarios in which what may stop the retransmission of a message is *)
(* its answer: labels lead forward, and what is expected further on settles*)
(* the message if it can stop its timer, or comes behind a barrier, another*)
(* send or a mandatory answer, that no label leads around.                 *)
Settles(m, answer) == \/ FinalAnswer(m, answer)
                      \/ m = INVITE /\ answer.code >= 100 /\ answer.method = "INVITE"
Stopping(m) == IF IsRequest(m) THEN m \in {ACK, CANCEL, BYE}
                               ELSE m.code >= 200 \/ m.method = "INVITE"
Labels(s, i) == {s[i].next, s[i].on_timeout} \cap DOMAIN s
Barrier(s, k, j) ==
    \/ s[j].type = "send"
    \/ Waited(s, j) /\ \A m \in Messages : matches_scenario(s, j, m) => Settles(s[k].msg, m)
Behind(s, k, i, x) ==
    \E j \in k+1..x-1 : /\ j \in DOMAIN s /\ Barrier(s, k, j)
                        /\ \A l \in DOMAIN s : l <= j => Labels(s, l) \cap j+1..i = {}
Settling(s) ==
    /\ \A i \in DOMAIN s : \A label \in Labels(s, i) : label > i
    /\ \A k, i \in DOMAIN s : Hard(s, k) /\ k < i /\ ~Behind(s, k, i, i) =>
         \A m \in Messages :
           matches_scenario(s, i, m) /\ Stopping(m) => Settles(s[k].msg, m)

(* The scenarios in which a client acknowledges: they go straight on, and  *)
(* where a 200 of the INVITE can be accepted no CANCEL is sent later;      *)
(* either the INVITE is the last that was sent and the ACK comes before    *)
(* anything else, or the ACK was sent before.  A client talks to a server, *)
(* which sends no ACK.                                                     *)
Answer200 == Msg(200, "INVITE")
Sending(s, k) == s[k].type = "send"
Acknowledging(s) ==
    /\ \A i \in DOMAIN s : s[i].next = -1 /\ s[i].on_timeout = -1
    /\ \A i \in DOMAIN s : matches_scenario(s, i, Answer200) =>
         /\ \A k \in DOMAIN s : k > i /\ Sending(s, k) => s[k].msg # CANCEL
         /\ \/ \E k \in DOMAIN s : k < i /\ Sending(s, k) /\ s[k].msg = ACK
            \/ /\ \E k \in DOMAIN s : /\ k < i /\ Sending(s, k) /\ s[k].msg = INVITE
                                      /\ \A j \in k+1..i-1 : ~Sending(s, j)
               /\ \A k \in DOMAIN s : k > i /\ Sending(s, k) =>
                    \E j \in i+1..k : Sending(s, j) /\ s[j].msg = ACK
Roles == \A a \in Agent : IF a \in Server
                            THEN \A c \in Configurations : LET s == c.scenario[a] IN
                                   \A k \in DOMAIN s : Sending(s, k) => s[k].msg # ACK
                            ELSE Peer[a] \in Server

(* With named transactions a call counts as successful only when its peer  *)
(* has answered everything: the answer to one request is never taken for   *)
(* the answer to another (process_incoming).                               *)
SuccessMeansAnswered ==
    \A a \in Agent : Straight(a) /\ Named(a) /\ succeeded[a] > 0 => Answered(a)

(* Without named transactions the code that "Detects retransmissions from  *)
(* peer" (call.cpp:3870) is what keeps a late answer from being taken for  *)
(* the answer to a later request.                                          *)
SuccessAlwaysMeansAnswered ==
    \A a \in Agent : Straight(a) /\ succeeded[a] > 0 => Answered(a)

(* A message is not retransmitted any more once its final answer, or the   *)
(* ACK of a final answer, was accepted.                                    *)
NoRetransAfterAnswer ==
    \A a \in Agent : call[a].live /\ call[a].next_retrans # "off" =>
       \A p \in call[a].recvhash_msgindex_pairs :
          ~FinalAnswer(call[a].last_send_msg, p[1])

(* Nor does anything else stop the retransmission (process_incoming): when *)
(* the timer of a message is off, the call has accepted an answer to that  *)
(* message, or gave up on it.  A late or repeated answer to an earlier     *)
(* request, or a message that overtakes the answer, leaves it running.     *)
RetransUntilAnswered ==
    \A a \in Agent :
       LET c == call[a]
       IN  /\ c.live /\ c.last_send_msg # NoMsg
           /\ Hard(Scenario[a], c.last_send_index)
           /\ c.next_retrans = "off"
           => \/ \E p \in c.recvhash_msgindex_pairs : Settles(c.last_send_msg, p[1])
              \/ c.nb_retrans > MaxRetrans

(* The ack_is_pending flag is "used to prevent from release a call with    *)
(* CANCEL when an ACK+BYE should be sent instead" (call.cpp:4454): once    *)
(* the INVITE was accepted by the peer no CANCEL is sent, and no BYE       *)
(* before the ACK.                                                         *)
AbortRespectsAnswer ==
    [][\A a \in Agent :
         Answer200 \in {p[1] : p \in call[a].recvhash_msgindex_pairs} =>
            LET new == sent'[a] \ sent[a]
            IN  /\ CANCEL \notin new
                /\ BYE \in new => ACK \in sent'[a]]_vars

(* With a global receive timeout, "If the expected message is not          *)
(* received, the call times out and is aborted" (sipp.cpp:350): a call     *)
(* never sleeps without a timer that will wake it.                         *)
NoSilentWait ==
    \A a \in Agent :
       RecvTimeout /\ call[a].live /\ ~call[a].running /\ control # a
         => wake(call[a]) # {"off"}

(* The same as a promise: every call comes to its end, unless its socket   *)
(* is congested, whatever messages are lost.                               *)
CallsEnd == \A a \in Agent :
    call[a].live ~> (~call[a].live \/ undefined \/ Congestion \/ ~RecvTimeout)

(* "message duplication by the network [...] should not be considered as   *)
(* an unexpected" (call.cpp:3916), with or without absorb_retrans.         *)
DuplicateNeverFails ==
    [][\A a \in Agent, m \in Messages :
         /\ ReceiveUnexpected(a, m)
         /\ m \in {p[1] : p \in call[a].recvhash_msgindex_pairs}
         => failed'[a] = failed[a]]_vars

(* The state machine moves for "a mandatory message, or if there is an     *)
(* explicit next label set" (call.cpp:4534): provisional responses come in *)
(* any order before the final one without making the call fail.            *)
ProvisionalsInAnyOrder ==
    [][\A a \in Agent, m \in Messages :
         /\ ReceiveUnexpected(a, m)
         /\ m.code \in 100..199
         /\ \E i \in DOMAIN Scenario[a] : Scenario[a][i].msg = m
         /\ \A p \in call[a].recvhash_msgindex_pairs : p[1].code < 200
         => failed'[a] = failed[a]]_vars

(* "The call was already deleted by connect_socket_if_needed or send_raw,  *)
(* so we should no longer access members" (call.cpp:1967).                 *)
NoUseAfterDelete == ~undefined
=============================================================================
